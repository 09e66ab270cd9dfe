----------------------------- MODULE AacProfile -----------------------------
(***************************************************************************)
(* hosted_profiles/aac.py: an Agent Action Capsule, or a bundle of them,   *)
(* read into a graph with a privilege log, and the four-stage ritual over  *)
(* the bundle.                                                             *)
(*                                                                         *)
(* A digest is a pair of strings; NoDigest stands for a missing or empty   *)
(* one.  A capsule is a record of the digests it carries,                  *)
(* [id, parent, subject, input, output, response, evidence], of who        *)
(* disposed of it (human: "flag" for human_disposed, "approver" for an     *)
(* approver named "human", or "policy"), of whether its body hashes to its *)
(* id (body), and of whether its constraints are a list, as they are in    *)
(* every capsule Python is given (listed).  An item of a bundle is [shape, *)
(* caps, disc, sealed,                                                     *)
(* terms, sidecar]: a "bare" capsule, an "envelope" with the payloads it   *)
(* discloses (disc), a "binding" of a buyer's and a seller's capsule with  *)
(* the terms they sealed, or "other", an object with none of the keys.     *)
(***************************************************************************)
EXTENDS Integers, SequencesExt, FiniteSetsExt

NoDigest == <<"no", "digest">>
NoPayload == [form |-> "none", name |-> "none"]
NoCapsule == [id |-> NoDigest, parent |-> NoDigest, subject |-> NoDigest, input |-> NoDigest,
              output |-> NoDigest, response |-> NoDigest, evidence |-> << >>,
              human |-> "policy", body |-> TRUE, listed |-> TRUE]
NoDisclosures == [input |-> NoPayload, output |-> NoPayload]

Digest == STRING \X STRING
Payload == [form : {"none", "ascii", "unicode", "text"}, name : STRING]
Capsule == [id : Digest, parent : Digest, subject : Digest, input : Digest, output : Digest,
            response : Digest, evidence : Seq(Digest), human : {"flag", "approver", "policy"},
            body : BOOLEAN, listed : BOOLEAN]
Item == [shape : {"bare", "envelope", "binding", "mandate", "other"}, caps : Seq(Capsule),
         disc : Seq([input : Payload, output : Payload]), sealed : Digest, terms : Payload,
         sidecar : STRING]

\* An item has the capsules of its shape, each with what is disclosed of it.
IsItem(item) ==
    /\ item \in Item
    /\ Len(item.disc) = Len(item.caps)
    /\ Len(item.caps) = CASE item.shape \in {"bare", "envelope"} -> 1
                          [] item.shape = "binding" -> 2
                          [] OTHER -> 0

\* A payload is a JSON object in ASCII, one with other characters, or a string.
\* RFC 8785 leaves characters as they are; json.dumps(ensure_ascii=True)
\* escapes the ones beyond ASCII; a string may also be hashed as it stands.
jcs(p) == <<"jcs", p.name>>
_json_digest(p) == IF p.form = "unicode" THEN <<"escaped", p.name>> ELSE jcs(p)
RawDigest(p) == <<"raw", p.name>>

-----------------------------------------------------------------------------
(* The graph of one item.  A match is "null" while the payload is withheld. *)

EmptyView == [nodes |-> << >>, edges |-> << >>, privilege_log |-> << >>, error |-> FALSE]

NodeIds(view) == {view.nodes[k].id : k \in DOMAIN view.nodes}

Node(digest, type) == [id |-> digest, type |-> type]

\* A row of the log: match is that of the payload, when there is one.
LogEntry(type, digest, payload, match) ==
    [type |-> type, digest |-> digest, withheld |-> payload = NoPayload,
     match |-> IF payload = NoPayload THEN "null" ELSE match]

Verdict(holds) == IF holds THEN "true" ELSE "false"

Ref(type, digest, edge, payload) ==
    [type |-> type, digest |-> digest, edge |-> edge, payload |-> payload]

\* What a capsule refers to, in the order it is read.
References(cap, disc) ==
    << Ref("capsule", cap.parent, "chains_to", NoPayload),
       Ref("subject", cap.subject, "attests_over", NoPayload),
       Ref("agent_input", cap.input, "attests_over", disc.input),
       Ref("agent_output", cap.output, "attests_over", disc.output),
       Ref("response", cap.response, "effect_response", NoPayload) >>
    \o [k \in DOMAIN cap.evidence |-> Ref("wicket_manifest", cap.evidence[k], "commits_to", NoPayload)]

\* A string is hashed as raw UTF-8, anything else as canonical JSON.
PayloadMatches(payload, digest) ==
    (IF payload.form = "text" THEN RawDigest(payload) ELSE _json_digest(payload)) = digest

\* A digest already in the graph is skipped, its payload with it.
AddReference(view, capsule_id, ref) ==
    IF ref.digest = NoDigest \/ ref.digest \in NodeIds(view) THEN view
    ELSE [view EXCEPT
            !.nodes = Append(@, Node(ref.digest, ref.type)),
            !.edges = Append(@, <<capsule_id, ref.digest, ref.edge>>),
            !.privilege_log =
                IF ref.type = "capsule" THEN @
                ELSE Append(@, LogEntry(ref.type, ref.digest, ref.payload,
                                        Verdict(PayloadMatches(ref.payload, ref.digest))))]

_extract_refs(view, cap, disc) ==
    LET refs == References(cap, disc)
        after[n \in 0..Len(refs)] ==
            IF n = 0 THEN view ELSE AddReference(after[n - 1], cap.id, refs[n])
    IN  after[Len(refs)]

_parse_single(cap, disc) ==
    IF cap.id = NoDigest THEN [EmptyView EXCEPT !.error = TRUE]
    ELSE _extract_refs([EmptyView EXCEPT !.nodes = <<Node(cap.id, "capsule")>>], cap, disc)

\* What an "if" around an append adds to a list.
When(holds, x) == IF holds THEN <<x>> ELSE << >>

_parse_binding(item) ==
    LET buyer  == item.caps[1].id
        seller == item.caps[2].id
        sealed == item.sealed
        start  == [
            nodes |-> When(buyer # NoDigest, Node(buyer, "capsule"))
                      \o When(seller # NoDigest, Node(seller, "capsule"))
                      \o When(sealed # NoDigest, Node(sealed, "offer_terms")),
            edges |-> When(sealed # NoDigest /\ buyer # NoDigest, <<buyer, sealed, "attests_over">>)
                      \o When(sealed # NoDigest /\ seller # NoDigest, <<seller, sealed, "attests_over">>)
                      \o When(buyer # NoDigest /\ seller # NoDigest, <<seller, buyer, "chains_to">>),
            privilege_log |->
                      When(sealed # NoDigest, LogEntry("offer_terms", sealed, item.terms,
                                                       Verdict(_json_digest(item.terms) = sealed))),
            error |-> FALSE]
        read(v, k) == IF item.caps[k].id = NoDigest THEN v
                      ELSE _extract_refs(v, item.caps[k], item.disc[k])
    IN  read(read(start, 1), 2)

parse_capsule(item) ==
    CASE item.shape = "binding" -> _parse_binding(item)
      [] item.shape = "envelope" -> _parse_single(item.caps[1], item.disc[1])
      [] item.shape = "bare" -> _parse_single(item.caps[1], NoDisclosures)
      [] OTHER -> [EmptyView EXCEPT !.error = TRUE]

-----------------------------------------------------------------------------
(* The ritual over a bundle: a sequence of items.                          *)

\* A binding has no capsule_id and no chain of its own.
_unwrap(item) == IF item.shape \in {"bare", "envelope"} THEN item.caps[1] ELSE NoCapsule

Ids(bundle) == {_unwrap(bundle[k]).id : k \in DOMAIN bundle} \ {NoDigest}

\* The records after the first whose parent is not in the bundle.
find_chain_gaps(bundle) ==
    {k \in DOMAIN bundle : k > 1 /\ _unwrap(bundle[k]).parent \notin Ids(bundle) \cup {NoDigest}}

\* Mutant: only the first row of the log is looked at.
MismatchedFirst(view) == view.privilege_log # << >> /\ view.privilege_log[1].match = "false"

Mismatched(view) == \E k \in DOMAIN view.privilege_log : view.privilege_log[k].match = "false"

\* A sidecar is "none", an EdDSA statement that verifies ("eddsa") or does not
\* ("eddsa_bad"), "keyless", "malformed", or one of those that one side alone takes.
\* Python takes another algorithm ("es256"), base64 or PEM with octets between that
\* it skips and atob refuses ("noisy"), half-precision numbers in a header ("half"),
\* and reads an empty sidecar as none ("empty").
OnlyPythonTakes == {"es256", "noisy", "half", "empty"}

\* The page takes what strict_decode, verify_sign1, b64decode or load_pem refuses:
\* trailing octets, encodings that are not minimal, a repeated label, a length that
\* runs past the end, text that is not UTF-8, an unprotected header that is no map, a
\* label that is no number or text, a critical header that nobody understands, more
\* octets than MAX_MESSAGE_BYTES, base64 without its padding, a key without its armour.
OnlyPageTakes == {"trailing", "nonminimal", "repeated", "overlong", "bad_text", "unprotected",
                  "label", "crit", "oversized", "unpadded", "bare_key"}

\* A statement verifies under the key that came with it, or the stage fails.
_check_authenticity(bundle) ==
    IF \A k \in DOMAIN bundle : bundle[k].sidecar \in {"none", "eddsa"} \cup OnlyPythonTakes
    THEN "skip" ELSE "fail"

\* The witness is NoWitness or [held, configured, reachable, verified].
NoWitness == [held |-> -1, configured |-> -1, reachable |-> "none", verified |-> "none"]

_check_witness(w) ==
    LET configured == IF w.configured > 0 THEN w.configured ELSE IF w.held > 0 THEN w.held ELSE 1
    IN  CASE w = NoWitness -> "skip"
          [] w # NoWitness /\ w.verified = "false" -> "fail"
          [] w # NoWitness /\ w.verified # "false" /\ w.reachable = "false" -> "skip"
          [] OTHER -> IF w.held < configured THEN "skip" ELSE "pass"

evaluate_ritual(bundle, views, witness) ==
    LET bad  == \E k \in DOMAIN views : Mismatched(views[k])
        gaps == find_chain_gaps(bundle) # {}
    IN  [Integrity    |-> IF bad THEN "fail" ELSE "pass",
         Sequence     |-> IF gaps THEN "fail" ELSE "pass",
         Authenticity |-> _check_authenticity(bundle),
         Witness      |-> _check_witness(witness),
         finding      |-> IF bad THEN "digest_mismatch" ELSE IF gaps THEN "chain_gap" ELSE "none"]

\* The last record with an id is the one that a walk goes on from.
ById(bundle, id) ==
    _unwrap(bundle[Max({k \in DOMAIN bundle : _unwrap(bundle[k]).id = id})])

\* The walk up the chain, with its guard against cycles.
CitesAltered(bundle, altered, cap) ==
    LET names == {_unwrap(bundle[k]).parent : k \in DOMAIN bundle} \cup Ids(bundle)
        climbs[w \in names \X SUBSET names] ==
            LET parent == w[1]
                seen   == w[2]
            IN  IF parent \in seen \cup {NoDigest} THEN FALSE
                ELSE IF parent \in altered THEN TRUE
                ELSE IF parent \in Ids(bundle)
                THEN climbs[<<ById(bundle, parent).parent, seen \cup {parent}>>] ELSE FALSE
    IN  climbs[<<cap.parent, {}>>]

NotesFor(bundle, altered) ==
    [k \in DOMAIN bundle |->
        LET cap == _unwrap(bundle[k])
        IN  CASE cap.id \in altered -> "digest_mismatch"
              [] cap.id \notin altered /\ CitesAltered(bundle, altered, cap) -> "cites_altered"
              [] OTHER -> "verifies"]

annotate_records(bundle, views) ==
    NotesFor(bundle, {_unwrap(bundle[k]).id : k \in {j \in DOMAIN views : Mismatched(views[j])}}
                     \ {NoDigest})

=============================================================================
