--------------------------- MODULE CapsuleChecks ---------------------------
(***************************************************************************)
(* The checks of the capsule page: the functions of hosted.py's CAPSULE_JS *)
(* that mirror hosted_profiles/aac.py, in the browser, over the same items *)
(* (see AacProfile), and the regulatory panel with its mirror in Python.   *)
(***************************************************************************)
EXTENDS AacProfile

-----------------------------------------------------------------------------
(* The graph and the privilege log.                                        *)

\* addEdge keeps one copy of an edge.
addEdge(edges, edge) == IF edge \in Range(edges) THEN edges ELSE Append(edges, edge)

\* addN skips an id already in the graph.  The edges of prior capsules and of
\* agent inputs and outputs go with their node; the others are drawn anyway.
addRef(g, capId, ref) ==
    LET fresh == ref.digest \notin NodeIds(g)
        entry == LogEntry(ref.type, ref.digest, ref.payload, "null")
    IN  IF ref.digest = NoDigest THEN g
        ELSE [g EXCEPT
                !.nodes = IF fresh THEN Append(@, Node(ref.digest, ref.type)) ELSE @,
                !.edges = IF fresh \/ ref.type \notin {"capsule", "agent_input", "agent_output"}
                          THEN addEdge(@, <<capId, ref.digest, ref.edge>>) ELSE @,
                !.privilege_log = IF fresh /\ ref.type # "capsule" THEN Append(@, entry) ELSE @]

extractCap(g, cap, disc) ==
    LET refs == References(cap, disc)
        after[n \in 0..Len(refs)] == IF n = 0 THEN g ELSE addRef(after[n - 1], cap.id, refs[n])
    IN  after[Len(refs)]

addCapsule(g, cap) ==
    IF cap.id \in NodeIds(g) \cup {NoDigest} THEN g
    ELSE [g EXCEPT !.nodes = Append(@, Node(cap.id, "capsule"))]

\* An edge is drawn if both its ends are digests.
drawEdge(edges, from, to, label) ==
    IF NoDigest \in {from, to} THEN edges ELSE addEdge(edges, <<from, to, label>>)

addTerms(g, item) ==
    LET buyer  == item.caps[1].id
        seller == item.caps[2].id
        sealed == item.sealed
        attested == drawEdge(drawEdge(g.edges, buyer, sealed, "attests_over"), seller, sealed, "attests_over")
    IN  [g EXCEPT
           !.nodes = IF sealed \in NodeIds(g) \cup {NoDigest} THEN @ ELSE Append(@, Node(sealed, "offer_terms")),
           !.edges = drawEdge(attested, seller, buyer, "chains_to"),
           !.privilege_log = IF sealed = NoDigest THEN @
                             ELSE Append(@, LogEntry("offer_terms", sealed, item.terms, "null"))]

\* No match is decided while parsing: every matchOk starts as null.
parseAac(item) ==
    IF item.shape = "binding"
    THEN LET start == addTerms(addCapsule(addCapsule(EmptyView, item.caps[1]), item.caps[2]), item)
             read(g, k) == IF item.caps[k].id = NoDigest THEN g
                           ELSE extractCap(g, item.caps[k], item.disc[k])
         IN  read(read(start, 1), 2)
    ELSE LET cap == _unwrap(item)
         IN  IF cap.id = NoDigest THEN EmptyView
             ELSE extractCap(addCapsule(EmptyView, cap), cap,
                             IF item.shape = "envelope" THEN item.disc[1] ELSE NoDisclosures)

\* verifyDisclosureEnvelope: the agent input and output of an envelope against
\* the digests its capsule commits to.
disclosureMatches(item, type) ==
    /\ item.shape = "envelope"
    /\ IF type = "agent_input"
       THEN item.caps[1].input = jcs(item.disc[1].input)
       ELSE item.caps[1].output = jcs(item.disc[1].output)

\* Mutant: a payload counts as matching because it was found.
renderAacTrusting(item) ==
    LET g == parseAac(item)
    IN  [g EXCEPT !.privilege_log =
            [k \in DOMAIN g.privilege_log |->
                LET e == g.privilege_log[k]
                IN  IF e.type \in {"agent_input", "agent_output"} /\ ~e.withheld
                    THEN [e EXCEPT !.match = "true"] ELSE e]]

\* What renderAac hands to renderGraph and renderPrivlog.
renderAac(item) ==
    LET g == parseAac(item)
    IN  [g EXCEPT !.privilege_log =
            [k \in DOMAIN g.privilege_log |->
                LET e == g.privilege_log[k]
                IN  IF e.type \in {"agent_input", "agent_output"} /\ ~e.withheld
                    THEN [e EXCEPT !.match = Verdict(disclosureMatches(item, e.type))] ELSE e]]

\* The row whose payload renderPrivlog still hashes, and what it finds.
termsRow(e) == e.type = "offer_terms" /\ ~e.withheld
termsVerdict(item) == Verdict(jcs(item.terms) = item.sealed)

-----------------------------------------------------------------------------
(* The ritual.                                                             *)

\* "null" when there is no id to compare with; a browser with WebCrypto.
verifyCapsuleId(item) ==
    LET cap == _unwrap(item)
    IN  IF cap.id = NoDigest THEN "null" ELSE IF cap.body THEN "ok" ELSE "bad"

\* Mutant: the second record's parent is not looked for.
findChainGapsLate(bundle) ==
    {k \in DOMAIN bundle : k > 2 /\ _unwrap(bundle[k]).parent \notin Ids(bundle) \cup {NoDigest}}

findChainGaps(bundle) ==
    {k \in DOMAIN bundle : k > 1 /\ _unwrap(bundle[k]).parent \notin Ids(bundle) \cup {NoDigest}}

\* parseAac leaves matchOk null, so only the body can mark a record altered.
alteredIds(bundle) ==
    {_unwrap(bundle[k]).id :
        k \in {j \in DOMAIN bundle : verifyCapsuleId(bundle[j]) = "bad" \/ Mismatched(parseAac(bundle[j]))}}
    \ {NoDigest}

annotateRecords(bundle) == NotesFor(bundle, alteredIds(bundle))

\* Only EdDSA statements are verified here, and less strictly than in Python.
checkAuthenticity(bundle) ==
    IF \A k \in DOMAIN bundle : bundle[k].sidecar \in {"none", "eddsa"} \cup OnlyPageTakes
    THEN "skip" ELSE "fail"

\* Mutant: the records that were not checked are forgotten.
checkWitnessUncounted(w, total) ==
    CASE w = NoWitness -> "skip"
      [] w # NoWitness /\ w.verified = "false" -> "fail"
      [] w # NoWitness /\ w.verified # "false" /\ w.reachable = "false" -> "skip"
      [] OTHER -> IF w.held < w.configured THEN "skip" ELSE "pass"

\* The denominator is the bundle: total is positive wherever this is called.
checkWitness(w, total) ==
    CASE w = NoWitness -> "skip"
      [] w # NoWitness /\ w.verified = "false" -> "fail"
      [] w # NoWitness /\ w.verified # "false" /\ w.reachable = "false" -> "skip"
      [] OTHER -> IF w.configured < total \/ w.held < total THEN "skip" ELSE "pass"

\* The plain-language summary: what it counts of the records with an id.
describeBundle(bundle) ==
    LET caps == {k \in DOMAIN bundle : _unwrap(bundle[k]).id # NoDigest}
        c(k) == _unwrap(bundle[k])
    IN  [records  |-> Cardinality(caps),
         human    |-> Cardinality({k \in caps : c(k).human = "flag"}),
         withheld |-> Cardinality({k \in caps : {c(k).input, c(k).output} # {NoDigest}})]

sequenceStage(bundle) ==
    LET n        == Len(bundle)
        declared == Cardinality({k \in 1..n : _unwrap(bundle[k]).parent # NoDigest})
    IN  CASE n < 2 \/ declared = 0 -> "skip"
          [] n >= 2 /\ declared > 0 /\ findChainGaps(bundle) # {} -> "fail"
          [] OTHER -> IF declared < n - 1 THEN "skip" ELSE "pass"

ritualFinding(bundle) ==
    LET declared == {k \in DOMAIN bundle : _unwrap(bundle[k]).parent # NoDigest}
    IN  CASE alteredIds(bundle) # {} -> "capsule_id_mismatch"
          [] alteredIds(bundle) = {} /\ Len(bundle) > 1 /\ declared = {} -> "no_chain_declared"
          [] OTHER -> IF findChainGaps(bundle) # {} THEN "chain_gap" ELSE "none"

evaluateRitual(bundle, witness) ==
    [Integrity    |-> IF alteredIds(bundle) # {} THEN "fail" ELSE "pass",
     Sequence     |-> sequenceStage(bundle),
     Authenticity |-> checkAuthenticity(bundle),
     Witness      |-> checkWitness(witness, Len(bundle)),
     finding      |-> ritualFinding(bundle),
     summary      |-> describeBundle(bundle)]

-----------------------------------------------------------------------------
(* The regulatory panel.                                                   *)

checkHitl(cap) == cap.human \in {"flag", "approver"}

\* A withheld_commitments member counts as an evidence digest does.
checkSd(cap) ==
    \/ \E k \in DOMAIN cap.evidence : cap.evidence[k] # NoDigest
    \/ cap.input # NoDigest
    \/ cap.output # NoDigest

\* Mutant: the envelope is looked at in place of its capsule.
PanelCapsulesWrapped(item) == IF item.shape = "envelope" THEN << >> ELSE item.caps

\* unwrapEnvelope, and the buyer's and the seller's capsule of a binding.
PanelCapsules(item) == item.caps

TermsWithheld(item) == item.shape = "binding" /\ item.sealed # NoDigest /\ item.terms = NoPayload

activeProps(item, hasReceipt) ==
    LET caps == ToSet(PanelCapsules(item))
    IN  {"per-action-attribution"}
        \cup {p \in {"tamper-evident-log"} : hasReceipt}
        \cup {p \in {"human-oversight-record"} : \E cap \in caps : checkHitl(cap)}
        \cup {p \in {"disclosure-transparency-record"} : TermsWithheld(item) \/ \E cap \in caps : checkSd(cap)}

\* The mirror in Python looks at a capsule or an envelope; a binding has
\* neither a disposition nor commitments of its own.
_capsule_has_hitl(item) == _unwrap(item).human \in {"flag", "approver"}

_capsule_has_sd(item) ==
    LET cap == _unwrap(item)
    IN  {cap.input, cap.output} \cup ToSet(cap.evidence) # {NoDigest}

_render_reg_panel(has_receipt, has_hitl, has_withheld) ==
    {"per-action-attribution"}
    \cup {p \in {"tamper-evident-log"} : has_receipt}
    \cup {p \in {"human-oversight-record"} : has_hitl}
    \cup {p \in {"disclosure-transparency-record"} : has_withheld}

\* detectProfile: an envelope counts only when its capsule has an id.
detectProfile(item) ==
    CASE item.shape = "binding" \/ _unwrap(item).id # NoDigest -> "aac"
      [] item.shape = "mandate" -> "machine-mandate"
      [] OTHER -> "unknown"

=============================================================================
