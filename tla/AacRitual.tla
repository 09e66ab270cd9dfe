------------------------------ MODULE AacRitual ------------------------------
(***************************************************************************)
(* One link, read twice: by the Python profile (parse_capsule for each     *)
(* item, then evaluate_ritual and annotate_records over the bundle) and by *)
(* the capsule page's JavaScript, which mirrors it because the capsule     *)
(* never leaves the browser.  A link holds a bundle, with the witness      *)
(* state that came with it, or a MachineMandate payload.                   *)
(***************************************************************************)
EXTENDS CapsuleChecks, MachineMandate

CONSTANTS Bundles,          \* the bundles that are read, each with a witness state: <<bundle, witness>>
          Mandates          \* the MachineMandate payloads that are read

ASSUME BundlesAssumption ==
    \A b \in Bundles : /\ b[1] \in Seq(Item) /\ Len(b[1]) > 0
                       /\ \A k \in DOMAIN b[1] : IsItem(b[1][k])
                       /\ b[2].held \in Int /\ b[2].configured \in Int

ASSUME MandatesAssumption == \A d \in Mandates : IsMandate(d)

VARIABLES link,             \* what is read: [profile, bundle, witness, mandate]
          stage,            \* the next function that runs
          views,            \* parse_capsule of each item
          summary,          \* evaluate_ritual
          notes,            \* annotate_records
          graphs,           \* what the page draws of each item, its rows settled
          ritual,           \* evaluateRitual
          table,            \* annotateRecords
          mandate           \* the two views of a MachineMandate payload

vars == <<link, stage, views, summary, notes, graphs, ritual, table, mandate>>

AacLink(b, w) == [profile |-> "aac", bundle |-> b, witness |-> w, mandate |-> << >>]
MandateLink(d) == [profile |-> "machine-mandate", bundle |-> << >>, witness |-> NoWitness, mandate |-> d]

Init ==
    /\ link \in {AacLink(b[1], b[2]) : b \in Bundles} \cup {MandateLink(d) : d \in Mandates}
    /\ stage = IF link.profile = "aac" THEN "parse_capsule" ELSE "parse_machine_mandate"
    /\ views = << >>
    /\ summary = << >>
    /\ notes = << >>
    /\ graphs = << >>
    /\ ritual = << >>
    /\ table = << >>
    /\ mandate = << >>

bundle == link.bundle

\* Items are parsed one by one, in the order of the bundle.
ParseCapsule ==
    /\ stage = "parse_capsule"
    /\ views' = Append(views, parse_capsule(bundle[Len(views) + 1]))
    /\ stage' = IF Len(views') = Len(bundle) THEN "evaluate_ritual" ELSE stage
    /\ UNCHANGED <<link, summary, notes, graphs, ritual, table, mandate>>

EvaluateRitual ==
    /\ stage = "evaluate_ritual"
    /\ summary' = evaluate_ritual(bundle, views, link.witness)
    /\ notes' = annotate_records(bundle, views)
    /\ stage' = "renderAac"
    /\ UNCHANGED <<link, views, graphs, ritual, table, mandate>>

\* What renderAac draws of an item once the hash of the terms that renderPrivlog
\* starts has come back.
Drawn(item) ==
    LET g == renderAac(item)
    IN  [g EXCEPT !.privilege_log =
            [k \in DOMAIN g.privilege_log |->
                LET e == g.privilege_log[k]
                IN  IF termsRow(e) THEN [e EXCEPT !.match = termsVerdict(item)] ELSE e]]

RenderAac ==
    /\ stage = "renderAac"
    /\ graphs' = Append(graphs, Drawn(bundle[Len(graphs) + 1]))
    /\ stage' = IF Len(graphs') = Len(bundle) THEN "renderRitual" ELSE stage
    /\ UNCHANGED <<link, views, summary, notes, ritual, table, mandate>>

RenderRitual ==
    /\ stage = "renderRitual"
    /\ ritual' = evaluateRitual(bundle, link.witness)
    /\ table' = annotateRecords(bundle)
    /\ stage' = "done"
    /\ UNCHANGED <<link, views, summary, notes, graphs, mandate>>

\* parse_as_graph_view on one side, renderMachineMandate on the other.
ReadMandate ==
    /\ stage = "parse_machine_mandate"
    /\ mandate' = [python |-> parse_machine_mandate(link.mandate),
                   page   |-> renderMachineMandate(link.mandate)]
    /\ stage' = "done"
    /\ UNCHANGED <<link, views, summary, notes, graphs, ritual, table>>

Next == ParseCapsule \/ EvaluateRitual \/ RenderAac \/ RenderRitual \/ ReadMandate

Spec == Init /\ [][Next]_vars

-----------------------------------------------------------------------------
(* Properties.                                                             *)

Done == stage = "done" /\ link.profile = "aac"

\* Digests that an item names once, so that no other node stands for them.
Once(cap, d) ==
    Cardinality({f \in {"id", "parent", "subject", "input", "output", "response"} : cap[f] = d})
    + Cardinality({k \in DOMAIN cap.evidence : cap.evidence[k] = d}) = 1

\* The payload that was sealed: what its committed digest was computed from,
\* by the rule for strings or by the one for objects.
Sealed(payload, digest) ==
    digest = (IF payload.form = "text" THEN RawDigest(payload) ELSE _json_digest(payload))

\* If Integrity passes, each payload an envelope discloses for a digest that its
\* capsule names once is the payload that was sealed.
PassMeansSealed ==
    Done /\ summary.Integrity = "pass" =>
        \A k \in DOMAIN bundle :
            bundle[k].shape = "envelope" /\ _unwrap(bundle[k]).id # NoDigest =>
                LET cap == _unwrap(bundle[k])
                    disc == bundle[k].disc[1]
                IN  \A f \in {"input", "output"} :
                        cap[f] # NoDigest /\ Once(cap, cap[f]) /\ disc[f] # NoPayload
                            => Sealed(disc[f], cap[f])

\* The digests reachable from a record by following parents inside the bundle: the
\* least set that holds its parent and, with an id of the bundle, that one's parent.
Names == {_unwrap(bundle[k]).parent : k \in DOMAIN bundle} \cup Ids(bundle)
Upward(cap) == {S \in SUBSET Names : /\ cap.parent \in S
                                     /\ \A a \in S \cap Ids(bundle) : ById(bundle, a).parent \in S}
Ancestors(cap) == {a \in Names : \A S \in Upward(cap) : a \in S}

\* A record of Python's table is flagged as citing an altered one exactly when
\* following the links of the chain from it comes to an altered one; the walk also
\* ends on a cycle of links.
CitesDescendants ==
    Done =>
        LET altered == {_unwrap(bundle[k]).id : k \in {j \in DOMAIN bundle : notes[j] = "digest_mismatch"}}
        IN  \A k \in DOMAIN bundle :
                notes[k] # "digest_mismatch" =>
                    (notes[k] = "cites_altered" <=> Ancestors(_unwrap(bundle[k])) \cap altered # {})

\* The marks of altered records are true: Integrity passes only if every payload
\* that is disclosed is the one that was sealed, in whichever record of the bundle
\* it is, and a record is flagged for citing an altered one exactly when it
\* descends from one, cycles and repeated ids included.
AlteredRecordsShow == PassMeansSealed /\ CitesDescendants

\* The page's graph has the nodes of Python's, and all of its edges; edges
\* join nodes.
GraphsAgree ==
    Done =>
        \A k \in DOMAIN bundle :
            /\ NodeIds(graphs[k]) = NodeIds(views[k])
            /\ Range(views[k].edges) \subseteq Range(graphs[k].edges)
            /\ \A e \in Range(graphs[k].edges) : {e[1], e[2]} \subseteq NodeIds(graphs[k])

\* The privilege log that the page ends with is Python's, row for row: the same
\* kind and digest, shown or withheld.  For payloads both sides hash the same way
\* the match is the same too, but for the agent payloads of a binding.
PrivilegeLogsAgree ==
    Done =>
        \A k \in DOMAIN bundle :
            LET item   == bundle[k]
                page   == graphs[k].privilege_log
                python == views[k].privilege_log
                ascii  == \A j \in DOMAIN item.disc :
                             {item.disc[j].input.form, item.disc[j].output.form, item.terms.form}
                                 \subseteq {"ascii", "none"}
            IN  /\ Len(page) = Len(python)
                /\ \A j \in DOMAIN page :
                      /\ page[j].type = python[j].type /\ page[j].digest = python[j].digest
                      /\ page[j].withheld = python[j].withheld
                      /\ ascii /\ (item.shape # "binding" \/ page[j].withheld \/ page[j].type = "offer_terms")
                            => page[j].match = python[j].match

\* A MachineMandate payload that says what it is (by its eat_profile, its vct,
\* or both members of a mint record), with its members of the right type,
\* comes out as the same sub-type with the same groups on both sides.
MandateViewsAgree ==
    stage = "done" /\ link.profile = "machine-mandate" =>
        LET d == link.mandate
        IN  (/\ is_machine_mandate(d)
             /\ d.scope # "list" /\ d.selfcheck # "list"
             /\ d.cred # "null" /\ d.preimage # "null"
             /\ d.eat # "none" \/ d.vct \/ (d.cred # "absent" /\ d.preimage = "dict"))
            => mandate.python = mandate.page

\* What the page builds from a payload is what the library builds: the graph, the
\* privilege log and the MachineMandate view, for items in each of their shapes.
ViewsAgree == GraphsAgree /\ PrivilegeLogsAgree /\ MandateViewsAgree

\* The page is no more lenient: a gap is a gap on both sides, a Sequence the page
\* passes Python passes, and so with Witness.  About Authenticity they differ only
\* over the statements that one side alone takes, in either direction.  Neither side
\* fails a witness but for a state that says that verification failed: the absence
\* of a witness or a log out of reach does not.
PageIsNoLaxer ==
    Done =>
        /\ ritual.Sequence = "fail" <=> summary.Sequence = "fail"
        /\ ritual.Sequence = "pass" => summary.Sequence = "pass"
        /\ summary.Authenticity # ritual.Authenticity =>
              \E k \in DOMAIN bundle : bundle[k].sidecar \in OnlyPythonTakes \cup OnlyPageTakes
        /\ ritual.Witness = "pass" /\ link.witness.configured <= Len(bundle) => summary.Witness = "pass"
        /\ \A v \in {ritual, summary} : v.Witness = "fail" => link.witness.verified = "false"

\* VerifiesThereToo: the page's verifier mirrors cose_sign1.py "so a statement that
\* verifies here verifies there too" (CAPSULE_JS).  Violated by every statement of
\* OnlyPageTakes.
VerifiesThereToo == Done /\ ritual.Authenticity # "fail" => summary.Authenticity # "fail"

\* The regulatory panel names the same properties of a record on both sides,
\* and the same ones whether the capsule is bare or wrapped in an envelope
\* with its payloads; of a binding the page names at least what Python does.
PanelsAgree ==
    Done =>
        \A k \in DOMAIN bundle, r \in BOOLEAN :
            LET item == bundle[k]
                page == activeProps(item, r)
                panel(i) == _render_reg_panel(r, _capsule_has_hitl(i), _capsule_has_sd(i))
            IN  IF item.shape = "binding" THEN panel(item) \subseteq page
                ELSE /\ page = panel(item)
                     /\ item.shape = "envelope" => page = activeProps([item EXCEPT !.shape = "bare"], r)
=============================================================================
