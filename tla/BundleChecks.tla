---------------------------- MODULE BundleChecks ----------------------------
(***************************************************************************)
(* What the bundle page works out about one Evidence Bundle: the checks of *)
(* hosted_profiles/hosted.py's BUNDLE_JS and the order in which loadBundle *)
(* runs them.                                                              *)
(*                                                                         *)
(* A record is [id, parent, body, disc, wrapped]: its capsule_id and the   *)
(* chain's parent (NoId when it is not 64 hex digits), whether its body    *)
(* hashes to its id ("ok" or "bad"), what it discloses ("withheld",        *)
(* "match" or "mismatch" against the committed digest), and whether it     *)
(* came inside a Disclosure Envelope.  A bundle is [records, cert, report, *)
(* crypto]: the certificate, the producer's verdict on each id, and        *)
(* whether this browser offers WebCrypto to the page.                      *)
(***************************************************************************)
EXTENDS Naturals, Sequences, FiniteSetsExt

CONSTANT Bundles            \* the bundles examined

NoId == "no_id"

Record == [id : STRING, parent : STRING, body : {"ok", "bad"},
           disc : {"withheld", "match", "mismatch"}, wrapped : BOOLEAN]

\* The leaves a legacy certificate's root commits to are ids: verifyRange throws
\* on a record without one.
IsBundle(b) ==
    /\ b.records \in Seq(Record)
    /\ b.crypto \in BOOLEAN
    /\ b.cert.kind = "range" => b.cert.committed \in Seq(STRING \ {NoId})

ASSUME BundlesAssumption == \A b \in Bundles : IsBundle(b)

VARIABLES bundle,           \* the bundle being loaded
          stage,            \* the next check, or "done"
          integrity,        \* verifyCapsuleId of each record
          privlog,          \* the status of each record's disclosure row
          notes,            \* the records table: one note per record
          completeness,     \* the Range membership card
          crossCheck,       \* the Cross-check stage
          ritual            \* [Integrity, Sequence, finding]

vars == <<bundle, stage, integrity, privlog, notes, completeness, crossCheck, ritual>>

records == bundle.records
Places == 1..Len(records)

Init ==
    /\ bundle \in Bundles
    /\ stage = "integrity"
    /\ integrity = << >>
    /\ privlog = << >>
    /\ notes = << >>
    /\ completeness = "none"
    /\ crossCheck = "none"
    /\ ritual = << >>

-----------------------------------------------------------------------------
(* The checks of one record.                                               *)

\* The id the code sees on a record it has not unwrapped.
RawId(rec) == IF rec.wrapped THEN NoId ELSE rec.id

\* "null" when there is nothing to compare or no WebCrypto.
verifyCapsuleId(rec) == IF rec.id = NoId \/ ~bundle.crypto THEN "null" ELSE rec.body

\* A wrapped record's disclosures are parsed from its envelope and then looked
\* for outside it, where there are none.
verifyCapsuleDigests(rec) ==
    CASE rec.id = NoId \/ rec.disc = "withheld" -> "withheld"
      [] ~bundle.crypto /\ rec.id # NoId /\ rec.disc # "withheld" -> "null"
      [] OTHER -> IF rec.wrapped THEN "mismatch" ELSE rec.disc

\* parseAac leaves every matchOk null, so no entry is ever === false.
capMismatched(rec) == FALSE

-----------------------------------------------------------------------------
(* The checks of the chain.                                                *)

Ids == {records[k].id : k \in Places} \ {NoId}

\* Records after the first whose parent is not in the bundle.
findChainGaps == {k \in Places : k > 1 /\ records[k].parent \notin Ids \cup {NoId}}

AlteredIds ==
    {records[k].id : k \in {j \in Places : /\ records[j].id # NoId
                                           /\ integrity[j] = "bad" \/ capMismatched(records[j])}}

\* byId: the last record with an id wins.
byId(id) == records[Max({k \in Places : records[k].id = id})]

\* Mutant: only the direct parent is looked at.
CitesAlteredParent(rec) == rec.parent \in AlteredIds

\* The walk up the chain, with its guard against cycles: it is at an id, or at
\* no id, and has seen some.
Names == Ids \cup {records[k].parent : k \in Places}

climbs[w \in Names \X SUBSET Names] ==
    LET parent == w[1]
        seen   == w[2]
    IN  IF parent \in seen \cup {NoId} THEN FALSE
        ELSE IF parent \in AlteredIds THEN TRUE
        ELSE IF parent \in Ids THEN climbs[<<byId(parent).parent, seen \cup {parent}>>] ELSE FALSE

CitesAltered(rec) == climbs[<<rec.parent, {}>>]

annotateRecords ==
    [k \in Places |->
        CASE records[k].id \in AlteredIds -> "digest_mismatch"
          [] OTHER -> IF CitesAltered(records[k]) THEN "cites_altered" ELSE "verifies"]

Declared == Cardinality({k \in Places : records[k].parent # NoId})

SequenceStage ==
    CASE Len(records) < 2 -> "skip"
      [] Len(records) >= 2 /\ Declared = 0 -> "skip"
      [] Len(records) >= 2 /\ Declared > 0 /\ findChainGaps # {} -> "fail"
      [] OTHER -> IF Declared < Len(records) - 1 THEN "skip" ELSE "pass"

-----------------------------------------------------------------------------
(* The checks of the bundle.                                               *)

\* A v2 bundle is judged by the library's verifyBundle; a legacy certificate's
\* root commits to a sequence of ids, which the records' raw ids must be.
checkCompleteness ==
    LET c == bundle.cert
    IN  CASE c.kind = "v2" ->
                CASE c.interval = "pass" /\ c.members = "pass" ->
                        IF c.unsigned THEN "skip" ELSE "pass"
                  [] OTHER -> IF "withheld" \in {c.interval, c.members} THEN "skip" ELSE "fail"
          [] c.kind # "v2" /\ (records = << >> \/ c.kind = "absent") -> "skip"
          [] OTHER -> IF /\ c.kind = "range"
                         /\ Len(records) = c.span
                         /\ bundle.crypto
                         /\ [k \in Places |-> RawId(records[k])] = c.committed
                         /\ c.growth \in {"none", "ok"}
                      THEN "pass" ELSE "fail"

\* The producer's verdicts against our own, for the records whose id is seen.
crossCheckSelfReport ==
    IF \E k \in Places :
          /\ RawId(records[k]) # NoId
          /\ LET ours == IF verifyCapsuleDigests(records[k]) = "mismatch" THEN "bad" ELSE "ok"
             IN  bundle.report[records[k].id] \notin {"none", ours}
    THEN "fail" ELSE "pass"

\* Mutants: an id that was not recomputed counts as altered, and the ritual does
\* without the digests of the disclosures.
BodyNotOk == {k \in Places : RawId(records[k]) # NoId /\ integrity[k] # "ok"}
NoDisclosureAltered == {}

\* Integrity takes the finding before Sequence does.
BodyAltered == {k \in Places : RawId(records[k]) # NoId /\ integrity[k] = "bad"}
DisclosureAltered ==
    {k \in Places : RawId(records[k]) # NoId /\ verifyCapsuleDigests(records[k]) = "mismatch"}

evaluateBundleRitual ==
    LET altered == BodyAltered \cup DisclosureAltered
        first   == Min(altered)
    IN  [Integrity |-> IF altered = {} THEN "pass" ELSE "fail",
         Sequence  |-> SequenceStage,
         finding   |-> CASE altered # {} ->
                              <<IF first \in BodyAltered THEN "body" ELSE "disclosure", first>>
                         [] altered = {} /\ SequenceStage = "fail" -> <<"gap", Min(findChainGaps)>>
                         [] OTHER -> << >>]

-----------------------------------------------------------------------------
(* loadBundle, one step per await.                                         *)

Identify ==
    /\ stage = "integrity"
    /\ integrity' = [k \in Places |-> verifyCapsuleId(records[k])]
    /\ stage' = "privlog"
    /\ UNCHANGED <<bundle, privlog, notes, completeness, crossCheck, ritual>>

\* The privilege log and the records table are rendered together.
Privlog ==
    /\ stage = "privlog"
    /\ privlog' = [k \in Places |-> verifyCapsuleDigests(records[k])]
    /\ notes' = annotateRecords
    /\ stage' = "completeness"
    /\ UNCHANGED <<bundle, integrity, completeness, crossCheck, ritual>>

Completeness ==
    /\ stage = "completeness"
    /\ completeness' = checkCompleteness
    /\ stage' = "crosscheck"
    /\ UNCHANGED <<bundle, integrity, privlog, notes, crossCheck, ritual>>

CrossCheck ==
    /\ stage = "crosscheck"
    /\ crossCheck' = crossCheckSelfReport
    /\ stage' = "ritual"
    /\ UNCHANGED <<bundle, integrity, privlog, notes, completeness, ritual>>

Ritual ==
    /\ stage = "ritual"
    /\ ritual' = evaluateBundleRitual
    /\ stage' = "done"
    /\ UNCHANGED <<bundle, integrity, privlog, notes, completeness, crossCheck>>

Next == Identify \/ Privlog \/ Completeness \/ CrossCheck \/ Ritual

Spec == Init /\ [][Next]_vars

-----------------------------------------------------------------------------
(* Properties.                                                             *)

Done == stage = "done"

\* The ids reachable from a record by following parents inside the bundle: the
\* least set that holds its parent and, with an id of the bundle, that one's parent.
Upward(rec) == {S \in SUBSET Names : /\ rec.parent \in S
                                     /\ \A a \in S \cap Ids : byId(a).parent \in S}
Ancestors(rec) == {a \in Names \ {NoId} : \A S \in Upward(rec) : a \in S}

(* The walk of annotateRecords marks exactly the records below an altered one:
   its guard against cycles neither stops it early nor lets it run on, with
   cycles, repeated ids and parents that are not in the bundle. *)
CitesExactlyDescendants ==
    Done => \A k \in Places :
        notes[k] = "cites_altered" <=>
            /\ records[k].id \notin AlteredIds
            /\ Ancestors(records[k]) \cap AlteredIds # {}

\* A Sequence that passes has no hole: following parents from any record leaves
\* the bundle, if at all, only above a record with the first record's id.
NoHoleBelowTheFirst ==
    (Done /\ ritual.Sequence = "pass") =>
        \A k \in Places \ {1} :
            Ancestors(records[k]) \subseteq Ids \cup
                (IF records[1].id \in Ancestors(records[k]) THEN {records[1].parent} ELSE {})

(* When all four stages pass in a browser with WebCrypto, every record that a
   legacy certificate speaks for is there, in order, unaltered, and discloses
   what it committed to; no envelope hides one.  A green Sequence alone already
   means that no record below the first is missing. *)
AllGreenMeansGenuine ==
    /\ NoHoleBelowTheFirst
    /\ (/\ Done
        /\ bundle.crypto
        /\ bundle.cert.kind = "range"
        /\ ritual.Integrity = "pass" /\ ritual.Sequence = "pass"
        /\ completeness = "pass" /\ crossCheck = "pass") =>
           /\ [k \in Places |-> records[k].id] = bundle.cert.committed
           /\ \A k \in Places : records[k].id # NoId =>
                 records[k].body = "ok" /\ records[k].disc # "mismatch"
           /\ \A k \in Places : records[k].id # NoId => bundle.report[records[k].id] # "bad"

(* Without envelopes the three displays agree: Integrity fails exactly when the
   privilege log shows a mismatch or the table an altered record, and then the
   finding names the first such record. *)
BareDisplaysAgree ==
    (Done /\ \A k \in Places : ~records[k].wrapped) =>
        LET shown == {k \in Places : privlog[k] = "mismatch" \/ integrity[k] = "bad"}
        IN  /\ ritual.Integrity = "fail" <=>
                  \E k \in Places : privlog[k] = "mismatch" \/ notes[k] = "digest_mismatch"
            /\ shown # {} => ritual.finding[2] = Min(shown)
            /\ ritual.finding = << >> <=> (shown = {} /\ ritual.Sequence # "fail")
=============================================================================
