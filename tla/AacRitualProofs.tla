-------------------------- MODULE AacRitualProofs --------------------------
(***************************************************************************)
(* Proofs about the two readings of a link, Python's and the page's, for   *)
(* bundles of any length, with any chain and any payloads: the page is no  *)
(* laxer, panels, graphs and privilege logs agree, and the marks of        *)
(* altered records are true.                                               *)
(***************************************************************************)
EXTENDS AacRitual, FiniteSetTheorems, TLAPS

\* The walk up a chain is the one of the bundle page.  The lemmas taken from there
\* speak of any names, ids and parents, and of no bundle: the state is left out.
Walk == INSTANCE BundleChecksProofs
            WITH Bundles <- {}, bundle <- << >>, stage <- << >>, integrity <- << >>,
                 privlog <- << >>, notes <- << >>, completeness <- << >>,
                 crossCheck <- << >>, ritual <- << >>

-----------------------------------------------------------------------------
(* The inductive invariant: each function's result stays what the function *)
(* says of the link.                                                       *)

IsAac == link.profile = "aac"
Parsed == {parse_capsule(bundle[k]) : k \in DOMAIN bundle}

LinkInv ==
    /\ IsAac => /\ bundle \in Seq(Item) /\ Len(bundle) > 0
                /\ \A k \in DOMAIN bundle : IsItem(bundle[k])
                /\ link.witness.held \in Int /\ link.witness.configured \in Int
    /\ stage \in {"parse_capsule", "evaluate_ritual", "renderAac", "renderRitual"} => IsAac
    /\ stage = "parse_machine_mandate" => link.profile = "machine-mandate"
    /\ link.profile \in {"aac", "machine-mandate"}
    /\ link.profile = "machine-mandate" => IsMandate(link.mandate)
    /\ stage \in {"parse_capsule", "evaluate_ritual", "renderAac", "renderRitual", "done",
                  "parse_machine_mandate"}

ViewsInv ==
    IsAac => /\ views \in Seq(Parsed)
             /\ \A k \in 1 .. Len(views) : views[k] = parse_capsule(bundle[k])
             /\ IF stage = "parse_capsule" THEN Len(views) < Len(bundle) ELSE Len(views) = Len(bundle)

SummaryInv ==
    IsAac /\ stage \in {"renderAac", "renderRitual", "done"} =>
        /\ summary = evaluate_ritual(bundle, views, link.witness)
        /\ notes = annotate_records(bundle, views)

Drawings == {Drawn(bundle[k]) : k \in DOMAIN bundle}

GraphsInv ==
    IsAac => /\ graphs \in Seq(Drawings)
             /\ \A k \in 1 .. Len(graphs) : graphs[k] = Drawn(bundle[k])
             /\ IF stage \in {"renderRitual", "done"} THEN Len(graphs) = Len(bundle)
                                                     ELSE Len(graphs) < Len(bundle)

PageInv == IsAac /\ stage = "done" => ritual = evaluateRitual(bundle, link.witness)

MandateInv ==
    link.profile = "machine-mandate" /\ stage = "done" =>
        mandate = [python |-> parse_machine_mandate(link.mandate),
                   page   |-> renderMachineMandate(link.mandate)]

Inv == LinkInv /\ ViewsInv /\ SummaryInv /\ GraphsInv /\ PageInv /\ MandateInv

LEMMA InitOK == Init => Inv
  <1> SUFFICES ASSUME Init PROVE Inv
    OBVIOUS
  <1>1. CASE \E b \in Bundles : link = AacLink(b[1], b[2])
    <2>1. PICK b \in Bundles : link = AacLink(b[1], b[2])
      BY <1>1
    <2>2. IsAac /\ bundle = b[1] /\ link.witness = b[2] /\ link.profile = "aac"
      BY <2>1 DEF AacLink, bundle, IsAac
    <2>3. stage = "parse_capsule" /\ views = << >> /\ graphs = << >>
      BY <2>2 DEF Init
    <2> QED BY <2>2, <2>3, BundlesAssumption
            DEF Inv, LinkInv, ViewsInv, SummaryInv, GraphsInv, PageInv, MandateInv
  <1>2. CASE \E d \in Mandates : link = MandateLink(d)
    <2>1. link.profile = "machine-mandate" /\ ~IsAac /\ IsMandate(link.mandate)
      BY <1>2, MandatesAssumption DEF MandateLink, IsAac
    <2>2. stage = "parse_machine_mandate"
      BY <2>1 DEF Init
    <2> QED BY <2>1, <2>2 DEF Inv, LinkInv, ViewsInv, SummaryInv, GraphsInv, PageInv, MandateInv
  <1> QED BY <1>1, <1>2 DEF Init

LEMMA ParseCapsuleOK == Inv /\ ParseCapsule => Inv'
  <1> SUFFICES ASSUME Inv, ParseCapsule PROVE Inv'
    OBVIOUS
  <1>1. /\ stage = "parse_capsule" /\ link' = link /\ IsAac /\ IsAac'
        /\ bundle' = bundle /\ Parsed' = Parsed
    BY DEF Inv, LinkInv, ParseCapsule, IsAac, bundle, Parsed
  <1>2. /\ views \in Seq(Parsed) /\ Len(views) < Len(bundle) /\ bundle \in Seq(Item)
        /\ \A k \in 1 .. Len(views) : views[k] = parse_capsule(bundle[k])
    BY <1>1 DEF Inv, ViewsInv, LinkInv
  <1>3. Len(views) + 1 \in DOMAIN bundle
    BY <1>2
  <1>4. views' = Append(views, parse_capsule(bundle[Len(views) + 1]))
    BY DEF ParseCapsule
  <1>5. parse_capsule(bundle[Len(views) + 1]) \in Parsed
    BY <1>3 DEF Parsed
  <1>6. /\ views' \in Seq(Parsed) /\ Len(views') = Len(views) + 1
        /\ \A k \in 1 .. Len(views') : views'[k] = parse_capsule(bundle[k])
    BY <1>2, <1>4, <1>5
  <1>7. stage' = IF Len(views') = Len(bundle) THEN "evaluate_ritual" ELSE stage
    BY DEF ParseCapsule
  <1>8. ViewsInv'
    BY <1>1, <1>2, <1>6, <1>7 DEF ViewsInv
  <1>9. LinkInv'
    BY <1>1, <1>7 DEF Inv, LinkInv
  <1>10. GraphsInv'
    <2>1. graphs' = graphs /\ Drawings' = Drawings /\ stage' \notin {"renderRitual", "done"}
      BY <1>1, <1>7 DEF ParseCapsule, Drawings
    <2> QED BY <1>1, <2>1 DEF Inv, GraphsInv
  <1> QED BY <1>1, <1>7, <1>8, <1>9, <1>10 DEF Inv, SummaryInv, PageInv, MandateInv, LinkInv, IsAac

LEMMA EvaluateRitualOK == Inv /\ EvaluateRitual => Inv'
  <1> SUFFICES ASSUME Inv, EvaluateRitual PROVE Inv'
    OBVIOUS
  <1>1. /\ stage = "evaluate_ritual" /\ stage' = "renderAac" /\ link' = link /\ views' = views
        /\ IsAac /\ IsAac' /\ bundle' = bundle /\ Parsed' = Parsed
    BY DEF Inv, LinkInv, EvaluateRitual, IsAac, bundle, Parsed
  <1>2. SummaryInv'
    BY <1>1 DEF EvaluateRitual, SummaryInv
  <1>3. LinkInv' /\ ViewsInv'
    BY <1>1 DEF Inv, LinkInv, ViewsInv
  <1>4. GraphsInv'
    <2>1. graphs' = graphs /\ Drawings' = Drawings
      BY <1>1 DEF EvaluateRitual, Drawings
    <2> QED BY <1>1, <2>1 DEF Inv, GraphsInv
  <1> QED BY <1>1, <1>2, <1>3, <1>4 DEF Inv, PageInv, MandateInv, IsAac

LEMMA RenderAacOK == Inv /\ RenderAac => Inv'
  <1> SUFFICES ASSUME Inv, RenderAac PROVE Inv'
    OBVIOUS
  <1>1. /\ stage = "renderAac" /\ stage' \in {"renderAac", "renderRitual"} /\ link' = link
        /\ views' = views /\ summary' = summary /\ notes' = notes
        /\ IsAac /\ IsAac' /\ bundle' = bundle /\ Parsed' = Parsed
    BY DEF Inv, LinkInv, RenderAac, IsAac, bundle, Parsed
  <1>2. SummaryInv'
    BY <1>1 DEF Inv, SummaryInv
  <1>3. LinkInv' /\ ViewsInv'
    BY <1>1 DEF Inv, LinkInv, ViewsInv
  <1>4. GraphsInv'
    <2>1. /\ graphs \in Seq(Drawings) /\ Len(graphs) < Len(bundle) /\ bundle \in Seq(Item)
          /\ \A k \in 1 .. Len(graphs) : graphs[k] = Drawn(bundle[k])
      BY <1>1 DEF Inv, GraphsInv, LinkInv
    <2>2. Len(graphs) + 1 \in DOMAIN bundle /\ Drawings' = Drawings
      BY <1>1, <2>1 DEF Drawings
    <2>3. graphs' = Append(graphs, Drawn(bundle[Len(graphs) + 1]))
      BY DEF RenderAac
    <2>4. Drawn(bundle[Len(graphs) + 1]) \in Drawings
      BY <2>2 DEF Drawings
    <2>5. /\ graphs' \in Seq(Drawings) /\ Len(graphs') = Len(graphs) + 1
          /\ \A k \in 1 .. Len(graphs') : graphs'[k] = Drawn(bundle[k])
      BY <2>1, <2>3, <2>4
    <2>6. stage' = IF Len(graphs') = Len(bundle) THEN "renderRitual" ELSE stage
      BY DEF RenderAac
    <2> QED BY <1>1, <2>1, <2>2, <2>5, <2>6 DEF GraphsInv
  <1> QED BY <1>1, <1>2, <1>3, <1>4 DEF Inv, PageInv, MandateInv, IsAac

LEMMA RenderRitualOK == Inv /\ RenderRitual => Inv'
  <1> SUFFICES ASSUME Inv, RenderRitual PROVE Inv'
    OBVIOUS
  <1>1. /\ stage = "renderRitual" /\ stage' = "done" /\ link' = link
        /\ views' = views /\ summary' = summary /\ notes' = notes
        /\ IsAac /\ IsAac' /\ bundle' = bundle /\ Parsed' = Parsed
    BY DEF Inv, LinkInv, RenderRitual, IsAac, bundle, Parsed
  <1>2. SummaryInv'
    BY <1>1 DEF Inv, SummaryInv
  <1>3. LinkInv' /\ ViewsInv'
    BY <1>1 DEF Inv, LinkInv, ViewsInv
  <1>4. PageInv'
    BY <1>1 DEF RenderRitual, PageInv
  <1>5. GraphsInv'
    <2>1. graphs' = graphs /\ Drawings' = Drawings
      BY <1>1 DEF RenderRitual, Drawings
    <2> QED BY <1>1, <2>1 DEF Inv, GraphsInv
  <1> QED BY <1>1, <1>2, <1>3, <1>4, <1>5 DEF Inv, MandateInv, IsAac

LEMMA ReadMandateOK == Inv /\ ReadMandate => Inv'
  <1> SUFFICES ASSUME Inv, ReadMandate PROVE Inv'
    OBVIOUS
  <1>1. /\ stage' = "done" /\ link' = link /\ link.profile = "machine-mandate" /\ ~IsAac /\ ~IsAac'
    BY DEF Inv, LinkInv, ReadMandate, IsAac
  <1>2. MandateInv'
    BY <1>1 DEF ReadMandate, MandateInv
  <1> QED BY <1>1, <1>2 DEF Inv, LinkInv, ViewsInv, SummaryInv, GraphsInv, PageInv

LEMMA StutterOK == Inv /\ UNCHANGED vars => Inv'
  BY DEF Inv, LinkInv, ViewsInv, SummaryInv, GraphsInv, PageInv, MandateInv, vars, IsAac, bundle, Parsed, Drawings

(* Every result that either side shows is what its function says of the link. *)
THEOREM RitualCorrect == Spec => []Inv
  <1>1. Inv /\ [Next]_vars => Inv'
    BY ParseCapsuleOK, EvaluateRitualOK, RenderAacOK, RenderRitualOK, ReadMandateOK, StutterOK DEF Next
  <1> QED BY InitOK, <1>1, PTL DEF Spec

-----------------------------------------------------------------------------
(* The ritual on both sides.                                               *)

\* A gap is a declared parent, so the page that counts them counts one.
LEMMA GapIsDeclared ==
    ASSUME NEW b, b \in Seq(Item), findChainGaps(b) # {}
    PROVE  Len(b) >= 2 /\ Cardinality({k \in 1 .. Len(b) : _unwrap(b[k]).parent # NoDigest}) > 0
  <1> DEFINE D == {k \in 1 .. Len(b) : _unwrap(b[k]).parent # NoDigest}
  <1>1. Len(b) \in Nat /\ DOMAIN b = 1 .. Len(b)
    OBVIOUS
  <1>2. PICK k \in findChainGaps(b) : TRUE
    OBVIOUS
  <1>3. k \in 1 .. Len(b) /\ k > 1 /\ _unwrap(b[k]).parent # NoDigest
    BY <1>1, <1>2 DEF findChainGaps
  <1>4. IsFiniteSet(1 .. Len(b))
    BY <1>1, FS_Interval
  <1>5. IsFiniteSet(D)
    BY <1>4, FS_Subset
  <1>6. D # {}
    BY <1>3
  <1>7. Cardinality(D) \in Nat /\ Cardinality(D) # 0
    <2> HIDE DEF D
    <2> QED BY <1>5, <1>6, FS_CardinalityType, FS_EmptySet
  <1> QED BY <1>1, <1>3, <1>7

LEMMA SequencesAgree ==
    ASSUME NEW b, b \in Seq(Item), NEW vs, NEW w
    PROVE  LET page == evaluateRitual(b, w).Sequence
               python == evaluate_ritual(b, vs, w).Sequence
           IN  /\ page = "fail" <=> python = "fail"
               /\ page = "pass" => python = "pass"
  <1> DEFINE declared == Cardinality({k \in 1 .. Len(b) : _unwrap(b[k]).parent # NoDigest})
  <1>1. findChainGaps(b) = find_chain_gaps(b)
    BY DEF findChainGaps, find_chain_gaps
  <1>2. evaluateRitual(b, w).Sequence = sequenceStage(b)
    BY DEF evaluateRitual
  <1>3. evaluate_ritual(b, vs, w).Sequence = IF findChainGaps(b) # {} THEN "fail" ELSE "pass"
    BY <1>1 DEF evaluate_ritual
  <1>4. /\ findChainGaps(b) # {} => sequenceStage(b) = "fail"
        /\ findChainGaps(b) = {} => sequenceStage(b) # "fail"
    <2>1. findChainGaps(b) # {} => Len(b) >= 2 /\ declared > 0
      BY GapIsDeclared
    <2>2. Len(b) \in Nat /\ declared \in Nat
      <3>1. IsFiniteSet(1 .. Len(b)) /\ Len(b) \in Nat
        BY FS_Interval
      <3>2. IsFiniteSet({k \in 1 .. Len(b) : _unwrap(b[k]).parent # NoDigest})
        BY <3>1, FS_Subset
      <3> QED BY <3>1, <3>2, FS_CardinalityType
    <2>3. sequenceStage(b) =
              CASE Len(b) < 2 \/ declared = 0 -> "skip"
                [] Len(b) >= 2 /\ declared > 0 /\ findChainGaps(b) # {} -> "fail"
                [] OTHER -> IF declared < Len(b) - 1 THEN "skip" ELSE "pass"
      BY DEF sequenceStage
    <2> HIDE DEF declared
    <2> QED BY <2>1, <2>2, <2>3
  <1> QED BY <1>2, <1>3, <1>4

LEMMA WitnessesAgree ==
    ASSUME NEW w, w.held \in Int, w.configured \in Int, NEW total \in Nat, total > 0
    PROVE  /\ checkWitness(w, total) = "pass" /\ w.configured <= total => _check_witness(w) = "pass"
           /\ checkWitness(w, total) = "fail" => w.verified = "false"
           /\ _check_witness(w) = "fail" => w.verified = "false"
  <1>1. checkWitness(w, total) = "pass" =>
            /\ w # NoWitness /\ w.verified # "false" /\ w.reachable # "false"
            /\ w.configured >= total /\ w.held >= total
    BY DEF checkWitness
  <1>2. checkWitness(w, total) = "fail" => w.verified = "false"
    BY DEF checkWitness
  <1>3. _check_witness(w) = "fail" => w.verified = "false"
    BY DEF _check_witness
  <1>4. ASSUME w # NoWitness, w.verified # "false", w.reachable # "false",
               w.configured = total, w.held >= total
        PROVE  _check_witness(w) = "pass"
    BY <1>4 DEF _check_witness
  <1> QED BY <1>1, <1>2, <1>3, <1>4

LEMMA NoLaxerFromInv == Inv => PageIsNoLaxer
  <1> SUFFICES ASSUME Inv, Done
               PROVE  /\ ritual.Sequence = "fail" <=> summary.Sequence = "fail"
                      /\ ritual.Sequence = "pass" => summary.Sequence = "pass"
                      /\ summary.Authenticity # ritual.Authenticity =>
                            \E k \in DOMAIN bundle :
                                bundle[k].sidecar \in OnlyPythonTakes \cup OnlyPageTakes
                      /\ ritual.Witness = "pass" /\ link.witness.configured <= Len(bundle) =>
                            summary.Witness = "pass"
                      /\ \A v \in {ritual, summary} : v.Witness = "fail" => link.witness.verified = "false"
    BY DEF PageIsNoLaxer
  <1>1. /\ bundle \in Seq(Item) /\ Len(bundle) > 0 /\ Len(bundle) \in Nat
        /\ link.witness.held \in Int /\ link.witness.configured \in Int
        /\ summary = evaluate_ritual(bundle, views, link.witness)
        /\ ritual = evaluateRitual(bundle, link.witness)
    BY DEF Inv, LinkInv, SummaryInv, PageInv, Done, IsAac
  <1>2. /\ ritual.Sequence = "fail" <=> summary.Sequence = "fail"
        /\ ritual.Sequence = "pass" => summary.Sequence = "pass"
    BY <1>1, SequencesAgree
  <1>3. summary.Authenticity # ritual.Authenticity =>
            \E k \in DOMAIN bundle : bundle[k].sidecar \in OnlyPythonTakes \cup OnlyPageTakes
    <2>1. summary.Authenticity = _check_authenticity(bundle) /\ ritual.Authenticity = checkAuthenticity(bundle)
      BY <1>1 DEF evaluate_ritual, evaluateRitual
    <2> QED BY <2>1 DEF _check_authenticity, checkAuthenticity
  <1>4. summary.Witness = _check_witness(link.witness) /\ ritual.Witness = checkWitness(link.witness, Len(bundle))
    BY <1>1 DEF evaluate_ritual, evaluateRitual
  <1>5. /\ ritual.Witness = "pass" /\ link.witness.configured <= Len(bundle) => summary.Witness = "pass"
        /\ ritual.Witness = "fail" => link.witness.verified = "false"
        /\ summary.Witness = "fail" => link.witness.verified = "false"
    BY <1>1, <1>4, WitnessesAgree
  <1> QED BY <1>2, <1>3, <1>5

(* For bundles of any length and any witness state: the page fails a sequence
   exactly when Python does, passes none that Python does not, passes no witness that
   Python would not pass of as many records, differs about statements only where one
   verifier alone takes one, and neither side fails a witness unless its state says
   that verification failed. *)
THEOREM PageNoLaxer == Spec => []PageIsNoLaxer
  BY RitualCorrect, NoLaxerFromInv, PTL

-----------------------------------------------------------------------------
(* The regulatory panel.                                                   *)

LEMMA PanelOfCapsule ==
    ASSUME NEW item, IsItem(item), NEW r \in BOOLEAN, item.shape # "binding"
    PROVE  activeProps(item, r)
             = _render_reg_panel(r, _capsule_has_hitl(item), _capsule_has_sd(item))
  <1> DEFINE caps == ToSet(PanelCapsules(item))
             cap == _unwrap(item)
  <1>1. item.caps \in Seq(Capsule)
    BY DEF IsItem, Item
  <1>2. ~TermsWithheld(item)
    BY DEF TermsWithheld
  <1>3. CASE item.shape \in {"bare", "envelope"}
    <2>1. Len(item.caps) = 1
      BY <1>3 DEF IsItem
    <2>2. caps = {cap} /\ cap = item.caps[1]
      <3>1. cap = item.caps[1]
        BY <1>3 DEF _unwrap
      <3>2. DOMAIN item.caps = {1}
        BY <1>1, <2>1
      <3> QED BY <3>1, <3>2 DEF ToSet, PanelCapsules
    <2>3. cap.evidence \in Seq(Digest)
      <3>1. item.caps[1] \in Capsule
        BY <1>1, <2>1
      <3>2. \A c \in Capsule : c.evidence \in Seq(Digest)
        BY DEF Capsule
      <3> QED BY <2>2, <3>1, <3>2
    <2>4. checkHitl(cap) <=> _capsule_has_hitl(item)
      BY DEF checkHitl, _capsule_has_hitl
    <2>5. checkSd(cap) <=> _capsule_has_sd(item)
      BY <2>3 DEF checkSd, _capsule_has_sd, ToSet
    <2> QED BY <1>2, <2>2, <2>4, <2>5 DEF activeProps, _render_reg_panel
  <1>4. CASE item.shape \notin {"bare", "envelope"}
    <2>1. Len(item.caps) = 0
      BY <1>4 DEF IsItem
    <2>2. caps = {}
      BY <1>1, <2>1 DEF ToSet, PanelCapsules
    <2>3. ~_capsule_has_hitl(item) /\ ~_capsule_has_sd(item)
      BY <1>4 DEF _capsule_has_hitl, _capsule_has_sd, _unwrap, NoCapsule, ToSet
    <2> QED BY <1>2, <2>2, <2>3 DEF activeProps, _render_reg_panel
  <1> QED BY <1>3, <1>4

LEMMA PanelsFromInv == Inv => PanelsAgree
  <1> SUFFICES ASSUME Inv, Done, NEW k \in DOMAIN bundle, NEW r \in BOOLEAN
               PROVE  LET item == bundle[k]
                          page == activeProps(item, r)
                          panel(i) == _render_reg_panel(r, _capsule_has_hitl(i), _capsule_has_sd(i))
                      IN  IF item.shape = "binding" THEN panel(item) \subseteq page
                          ELSE /\ page = panel(item)
                               /\ item.shape = "envelope" =>
                                     page = activeProps([item EXCEPT !.shape = "bare"], r)
    BY Zenon DEF PanelsAgree
  <1> DEFINE item == bundle[k]
             bare == [item EXCEPT !.shape = "bare"]
  <1>1. IsItem(item)
    BY DEF Inv, LinkInv, Done, IsAac
  <1>2. CASE item.shape = "binding"
    <2>1. ~_capsule_has_hitl(item) /\ ~_capsule_has_sd(item)
      BY <1>2 DEF _capsule_has_hitl, _capsule_has_sd, _unwrap, NoCapsule, ToSet
    <2> QED BY <1>2, <2>1 DEF activeProps, _render_reg_panel
  <1>3. CASE item.shape # "binding"
    <2>1. activeProps(item, r) = _render_reg_panel(r, _capsule_has_hitl(item), _capsule_has_sd(item))
      BY <1>1, <1>3, PanelOfCapsule
    <2>2. ASSUME item.shape = "envelope"
          PROVE  activeProps(item, r) = activeProps(bare, r)
      <3>1. bare.caps = item.caps /\ bare.shape = "bare"
        BY <1>1 DEF IsItem, Item
      <3>2. ~TermsWithheld(item) /\ ~TermsWithheld(bare)
        BY <2>2, <3>1 DEF TermsWithheld
      <3> QED BY <3>1, <3>2 DEF activeProps, PanelCapsules
    <2> QED BY <1>3, <2>1, <2>2
  <1> QED BY <1>2, <1>3

(* For every item: the regulatory panel of the page and the one of Python name the
   same properties, of a capsule as of the envelope around it. *)
THEOREM PanelsMatch == Spec => []PanelsAgree
  BY RitualCorrect, PanelsFromInv, PTL

-----------------------------------------------------------------------------
(* MachineMandate payloads.                                                *)

LEMMA MandatesFromInv == Inv => MandateViewsAgree
  <1> SUFFICES ASSUME Inv, stage = "done", link.profile = "machine-mandate"
               PROVE  LET d == link.mandate
                      IN  (/\ is_machine_mandate(d)
                           /\ d.scope # "list" /\ d.selfcheck # "list"
                           /\ d.cred # "null" /\ d.preimage # "null"
                           /\ d.eat # "none" \/ d.vct \/ (d.cred # "absent" /\ d.preimage = "dict"))
                          => mandate.python = mandate.page
    BY DEF MandateViewsAgree
  <1> DEFINE d == link.mandate
  <1>1. /\ IsMandate(d)
        /\ mandate.python = parse_machine_mandate(d) /\ mandate.page = renderMachineMandate(d)
    BY DEF Inv, LinkInv, MandateInv
  <1> SUFFICES ASSUME d.scope # "list", d.selfcheck # "list", d.cred # "null", d.preimage # "null",
                      d.eat # "none" \/ d.vct \/ (d.cred # "absent" /\ d.preimage = "dict")
               PROVE  parse_machine_mandate(d) = renderMachineMandate(d)
    BY <1>1
  <1> HIDE DEF d
  <1>2. CASE d.eat # "none"
    BY <1>1, <1>2 DEF parse_machine_mandate, renderMachineMandate, IsMandate, _parse_aep, _parse_ear
  <1>3. CASE d.eat = "none" /\ d.cred # "absent" /\ d.preimage = "dict"
    <2>1. isMintRecord(d)
      BY <1>1, <1>3 DEF isMintRecord, IsMandate
    <2>2. parse_machine_mandate(d) = _parse_mint_record(d)
      BY <1>3 DEF parse_machine_mandate
    <2>3. _parse_mint_record(d).groups =
              <<"Record-identity", "Credential-claims", "Scope", "Preimage-commitment", "Self-check">>
              \o (IF d.selfcheck = "dict" THEN Cases(d) ELSE << >>)
      BY <1>3 DEF _parse_mint_record, GroupIf
    <2> QED BY <1>3, <2>1, <2>2, <2>3 DEF renderMachineMandate, _parse_mint_record
  <1>4. CASE d.eat = "none" /\ ~(d.cred # "absent" /\ d.preimage = "dict")
    <2>1. ~isMintRecord(d) /\ d.vct /\ ~(d.cred # "absent" /\ d.preimage # "absent")
      BY <1>1, <1>4 DEF isMintRecord, IsMandate
    <2>2. parse_machine_mandate(d) = _parse_run_credential(d)
      BY <1>4, <2>1 DEF parse_machine_mandate
    <2> QED BY <1>4, <2>1, <2>2 DEF renderMachineMandate, _parse_run_credential, GroupIf
  <1> QED BY <1>2, <1>3, <1>4

(* A MachineMandate payload that says what it is comes out as the same sub-type with
   the same groups on both sides, with any number of cases and submodules. *)
THEOREM MandatesMatch == Spec => []MandateViewsAgree
  BY RitualCorrect, MandatesFromInv, PTL

-----------------------------------------------------------------------------
(* The walk up the chain of a bundle, in Python's table.                   *)

NamesIn(b) == {_unwrap(b[k]).parent : k \in DOMAIN b} \cup Ids(b)
up(b) == [a \in Ids(b) |-> ById(b, a).parent]

LEMMA ByIdIsAnItem ==
    ASSUME NEW b, b \in Seq(Item), NEW a \in Ids(b)
    PROVE  \E k \in DOMAIN b : ById(b, a) = _unwrap(b[k])
  <1> DEFINE S == {k \in DOMAIN b : _unwrap(b[k]).id = a}
  <1>1. S \in SUBSET (1 .. Len(b)) /\ S # {} /\ Len(b) \in Nat
    BY DEF Ids
  <1>2. Max(S) \in S
    <2> HIDE DEF S
    <2>1. Walk!Max(S) = Max(S)
      BY Zenon DEF Walk!Max, Max
    <2> QED BY <1>1, <2>1, Walk!MaxIn
  <1> QED BY <1>2 DEF ById

LEMMA ChainsOfTheBundle ==
    ASSUME NEW b, b \in Seq(Item), NEW altered \in SUBSET Ids(b)
    PROVE  Walk!Chains(NamesIn(b), Ids(b), up(b), altered, NoDigest)
  <1>1. IsFiniteSet(DOMAIN b)
    <2>1. DOMAIN b = 1 .. Len(b) /\ Len(b) \in Nat
      OBVIOUS
    <2> QED BY <2>1, FS_Interval
  <1>2. /\ IsFiniteSet({_unwrap(b[k]).id : k \in DOMAIN b})
        /\ IsFiniteSet({_unwrap(b[k]).parent : k \in DOMAIN b})
    <2> DEFINE ids == [k \in DOMAIN b |-> _unwrap(b[k]).id]
               parents == [k \in DOMAIN b |-> _unwrap(b[k]).parent]
    <2>1. /\ ids \in Surjection(DOMAIN b, {_unwrap(b[k]).id : k \in DOMAIN b})
          /\ parents \in Surjection(DOMAIN b, {_unwrap(b[k]).parent : k \in DOMAIN b})
      BY DEF Surjection
    <2> HIDE DEF ids, parents
    <2> QED BY <1>1, <2>1, FS_Surjection
  <1>3. IsFiniteSet(Ids(b))
    BY <1>2, FS_Difference DEF Ids
  <1>4. IsFiniteSet(NamesIn(b))
    BY <1>2, <1>3, FS_Union DEF NamesIn
  <1>5. \A a \in Ids(b) : ById(b, a).parent \in NamesIn(b)
    BY ByIdIsAnItem DEF NamesIn
  <1>6. up(b) \in [Ids(b) -> NamesIn(b)]
    BY <1>5 DEF up
  <1>7. Ids(b) \subseteq NamesIn(b) /\ NoDigest \notin Ids(b)
    BY DEF NamesIn, Ids
  <1>8. Walk!IsFiniteSet(NamesIn(b))
    BY <1>4, Zenon DEF IsFiniteSet, Walk!IsFiniteSet
  <1> QED BY <1>6, <1>7, <1>8 DEF Walk!Chains

\* CitesAltered is the walk from the record's parent with nothing seen.
LEMMA CitesIsTheWalk ==
    ASSUME NEW b, b \in Seq(Item), NEW altered \in SUBSET Ids(b)
    PROVE  \E f : /\ Walk!IsWalk(f, NamesIn(b), Ids(b), up(b), altered, NoDigest)
                  /\ \A cap : CitesAltered(b, altered, cap) = f[<<cap.parent, {}>>]
  <1> DEFINE D == NamesIn(b) \X SUBSET NamesIn(b)
             Body(f, w) ==
                 IF w[1] \in w[2] \cup {NoDigest} THEN FALSE
                 ELSE IF w[1] \in altered THEN TRUE
                 ELSE IF w[1] \in Ids(b) THEN f[<<ById(b, w[1]).parent, w[2] \cup {w[1]}>>] ELSE FALSE
             climbs == CHOOSE f : f = [w \in D |-> Body(f, w)]
  <1>1. \A cap : CitesAltered(b, altered, cap) = climbs[<<cap.parent, {}>>]
    BY Zenon DEF CitesAltered, NamesIn
  <1>2. ASSUME NEW f, NEW w \in D
        PROVE  Walk!Turn(f, Ids(b), up(b), altered, NoDigest, w) = Body(f, w)
    <2>1. w[1] \in Ids(b) => up(b)[w[1]] = ById(b, w[1]).parent
      BY DEF up
    <2> QED BY <2>1 DEF Walk!Turn
  <1>3. Walk!Chains(NamesIn(b), Ids(b), up(b), altered, NoDigest)
    BY ChainsOfTheBundle
  <1>4. PICK g : Walk!IsWalk(g, NamesIn(b), Ids(b), up(b), altered, NoDigest)
    BY <1>3, Walk!WalkExists
  <1>5. g = [w \in D |-> Walk!Turn(g, Ids(b), up(b), altered, NoDigest, w)]
    BY <1>4, Zenon DEF Walk!IsWalk
  <1> HIDE DEF Body, D
  <1>6. \E f : f = [w \in D |-> Body(f, w)]
    BY <1>2, <1>5
  <1>7. climbs = [w \in D |-> Body(climbs, w)]
    BY <1>6, Zenon
  <1> HIDE DEF climbs
  <1>8. climbs = [w \in D |-> Walk!Turn(climbs, Ids(b), up(b), altered, NoDigest, w)]
    BY <1>2, <1>7, Zenon
  <1>9. Walk!IsWalk(climbs, NamesIn(b), Ids(b), up(b), altered, NoDigest)
    BY <1>8, Zenon DEF D, Walk!IsWalk
  <1> QED BY <1>1, <1>9

LEMMA CitesIsDescends ==
    ASSUME bundle \in Seq(Item), NEW altered \in SUBSET Ids(bundle), NEW k \in DOMAIN bundle
    PROVE  CitesAltered(bundle, altered, _unwrap(bundle[k])) <=>
               Ancestors(_unwrap(bundle[k])) \cap altered # {}
  <1> DEFINE cap == _unwrap(bundle[k])
             A == Ancestors(cap)
             w == <<cap.parent, {}>>
             I == Ids(bundle)
             u == up(bundle)
  <1>1. Names = NamesIn(bundle)
    BY DEF Names, NamesIn
  <1>2. Walk!Chains(Names, I, u, altered, NoDigest)
    BY <1>1, ChainsOfTheBundle
  <1>3. PICK f : /\ Walk!IsWalk(f, Names, I, u, altered, NoDigest)
                 /\ CitesAltered(bundle, altered, cap) = f[w]
    <2>1. PICK f : /\ Walk!IsWalk(f, NamesIn(bundle), I, u, altered, NoDigest)
                   /\ \A c : CitesAltered(bundle, altered, c) = f[<<c.parent, {}>>]
      BY CitesIsTheWalk
    <2> QED BY <1>1, <2>1
  <1>4. w \in Names \X SUBSET Names /\ w[1] = cap.parent /\ w[2] = {}
    BY DEF Names
  <1>5. \A a \in I : u[a] = ById(bundle, a).parent /\ u[a] \in Names
    BY <1>2 DEF up, Walk!Chains
  <1>6. ASSUME f[w] PROVE A \cap altered # {}
    <2>1. \A a \in A \cap I : u[a] \in A
      BY <1>5 DEF Ancestors, Upward
    <2>2. cap.parent \in A
      BY <1>4 DEF Ancestors, Upward
    <2> HIDE DEF A, w, I, u
    <2> QED BY <1>2, <1>3, <1>4, <1>6, <2>1, <2>2, Walk!WalkSound
  <1>7. ASSUME ~f[w] PROVE A \cap altered = {}
    <2> HIDE DEF w, I, u, cap
    <2>1. PICK T \in SUBSET Names : /\ w[1] \in T /\ T \cap altered = {}
                                    /\ \A a \in T \cap I : u[a] \in T
      BY <1>2, <1>3, <1>4, <1>7, Walk!WalkComplete
    <2>2. T \in Upward(cap)
      BY <1>4, <1>5, <2>1 DEF Upward, I
    <2> QED BY <2>1, <2>2 DEF Ancestors
  <1> QED BY <1>3, <1>6, <1>7

LEMMA DescendantsFromInv == Inv => CitesDescendants
  <1> SUFFICES ASSUME Inv, Done, NEW k \in DOMAIN bundle, notes[k] # "digest_mismatch"
               PROVE  LET altered == {_unwrap(bundle[j]).id :
                                        j \in {i \in DOMAIN bundle : notes[i] = "digest_mismatch"}}
                      IN  notes[k] = "cites_altered" <=> Ancestors(_unwrap(bundle[k])) \cap altered # {}
    BY DEF CitesDescendants
  <1> DEFINE bad == {j \in DOMAIN views : Mismatched(views[j])}
             alt == {_unwrap(bundle[j]).id : j \in bad} \ {NoDigest}
             altered == {_unwrap(bundle[j]).id : j \in {i \in DOMAIN bundle : notes[i] = "digest_mismatch"}}
  <1>1. /\ bundle \in Seq(Item) /\ DOMAIN views = DOMAIN bundle
        /\ notes = annotate_records(bundle, views)
    BY DEF Inv, LinkInv, ViewsInv, SummaryInv, Done, IsAac
  <1>2. notes = NotesFor(bundle, alt)
    BY <1>1 DEF annotate_records
  <1>3. alt \in SUBSET Ids(bundle)
    BY <1>1 DEF Ids
  <1> HIDE DEF alt
  <1>4. \A j \in DOMAIN bundle :
            notes[j] = CASE _unwrap(bundle[j]).id \in alt -> "digest_mismatch"
                         [] /\ _unwrap(bundle[j]).id \notin alt
                            /\ CitesAltered(bundle, alt, _unwrap(bundle[j])) -> "cites_altered"
                         [] OTHER -> "verifies"
    BY <1>2 DEF NotesFor
  <1>5. \A j \in DOMAIN bundle : notes[j] = "digest_mismatch" <=> _unwrap(bundle[j]).id \in alt
    BY <1>4
  <1>6. altered = alt
    BY <1>3, <1>5 DEF Ids
  <1>7. CitesAltered(bundle, alt, _unwrap(bundle[k])) <=> Ancestors(_unwrap(bundle[k])) \cap alt # {}
    BY <1>1, <1>3, CitesIsDescends
  <1>8. notes[k] = "cites_altered" <=> CitesAltered(bundle, alt, _unwrap(bundle[k]))
    BY <1>4, <1>5
  <1> QED BY <1>6, <1>7, <1>8

-----------------------------------------------------------------------------
(* What parsing an envelope leaves in the privilege log.                   *)

Kinds == {"capsule", "subject", "agent_input", "agent_output", "response", "wicket_manifest",
          "offer_terms"}
Ties == {"chains_to", "attests_over", "effect_response", "commits_to"}
NodeType == [id : Digest, type : Kinds]
EdgeType == Digest \X Digest \X Ties
Row == [type : Kinds, digest : Digest, withheld : BOOLEAN, match : {"null", "true", "false"}]
View == [nodes : Seq(NodeType), edges : Seq(EdgeType), privilege_log : Seq(Row), error : BOOLEAN]
Reference == [type : Kinds, digest : Digest, edge : Ties, payload : Payload \cup {NoPayload}]

\* The row Python makes of a reference.
RowOf(type, digest, payload) == LogEntry(type, digest, payload, Verdict(PayloadMatches(payload, digest)))

\* A set of natural numbers has a least one.
LEMMA LeastOf ==
    ASSUME NEW T \in SUBSET Nat, T # {}
    PROVE  \E x \in T : \A y \in T : x <= y
  BY Walk!LeastNat

\* Induction over the natural numbers.
LEMMA NatSteps ==
    ASSUME NEW P \in SUBSET Nat, 0 \in P, \A n \in P : n + 1 \in P
    PROVE  P = Nat
  <1> DEFINE T == Nat \ P
  <1> SUFFICES ASSUME T # {} PROVE FALSE
    OBVIOUS
  <1>1. PICK x \in T : \A y \in T : x <= y
    <2>1. T \in SUBSET Nat
      OBVIOUS
    <2> HIDE DEF T
    <2> QED BY <2>1, LeastOf
  <1>2. x - 1 \in Nat /\ x - 1 \notin T
    BY <1>1
  <1>3. (x - 1) + 1 \in P
    BY <1>2
  <1> QED BY <1>1, <1>3

\* One reference, read by the page or by Python.
Read(page, view, id, ref) == IF page THEN addRef(view, id, ref) ELSE AddReference(view, id, ref)

\* The views that reading the references one by one goes through.
Reads(page, f, view, id, refs, N) ==
    f = [n \in 0 .. N |-> IF n = 0 THEN view ELSE Read(page, f[n - 1], id, refs[n])]

LEMMA ReadsExist ==
    ASSUME NEW page, NEW view, NEW id, NEW refs, NEW N \in Nat
    PROVE  \E f : Reads(page, f, view, id, refs, N)
  <1> DEFINE P == {n \in Nat : \E f : Reads(page, f, view, id, refs, n)}
  <1>1. 0 \in P
    <2> DEFINE f == [n \in 0 .. 0 |-> view]
    <2>1. Reads(page, f, view, id, refs, 0)
      BY DEF Reads
    <2> QED BY <2>1
  <1>2. ASSUME NEW n \in P PROVE n + 1 \in P
    <2>1. PICK f : Reads(page, f, view, id, refs, n)
      BY <1>2
    <2> DEFINE g == [m \in 0 .. (n + 1) |-> IF m = n + 1 THEN Read(page, f[n], id, refs[n + 1]) ELSE f[m]]
    <2>2. n \in Nat
      OBVIOUS
    <2>3. \A m \in 0 .. n : f[m] = IF m = 0 THEN view ELSE Read(page, f[m - 1], id, refs[m])
      BY <2>1, Zenon DEF Reads
    <2>4. \A m \in 0 .. (n + 1) : g[m] = IF m = n + 1 THEN Read(page, f[n], id, refs[n + 1]) ELSE f[m]
      OBVIOUS
    <2>5. \A m \in 0 .. n : g[m] = f[m]
      BY <2>2, <2>4
    <2>6. g[n + 1] = Read(page, g[n], id, refs[n + 1])
      BY <2>2, <2>4, <2>5
    <2>7. \A m \in 0 .. (n + 1) : g[m] = IF m = 0 THEN view ELSE Read(page, g[m - 1], id, refs[m])
      <3> SUFFICES ASSUME NEW m \in 0 .. (n + 1)
                   PROVE  g[m] = IF m = 0 THEN view ELSE Read(page, g[m - 1], id, refs[m])
        OBVIOUS
      <3> HIDE DEF g
      <3>1. CASE m = n + 1
        BY <2>2, <2>6, <3>1
      <3>2. CASE m \in 0 .. n
        <4>1. m = 0 \/ m - 1 \in 0 .. n
          BY <2>2, <3>2
        <4> QED BY <2>3, <2>5, <3>2, <4>1
      <3> QED BY <2>2, <3>1, <3>2
    <2>8. g = [m \in 0 .. (n + 1) |-> g[m]]
      OBVIOUS
    <2> HIDE DEF g
    <2>9. g = [m \in 0 .. (n + 1) |-> IF m = 0 THEN view ELSE Read(page, g[m - 1], id, refs[m])]
      BY <2>7, <2>8, Zenon
    <2>10. Reads(page, g, view, id, refs, n + 1)
      BY <2>9, Zenon DEF Reads
    <2> QED BY <2>2, <2>10
  <1> HIDE DEF P
  <1>3. P = Nat
    <2>1. P \in SUBSET Nat
      BY DEF P
    <2> QED BY <1>1, <1>2, <2>1, NatSteps
  <1> QED BY <1>3 DEF P

LEMMA ExtractReads ==
    ASSUME NEW view, NEW cap, NEW disc, Len(References(cap, disc)) \in Nat
    PROVE  \E f : /\ _extract_refs(view, cap, disc) = f[Len(References(cap, disc))]
                  /\ f[0] = view
                  /\ \A n \in 1 .. Len(References(cap, disc)) :
                        f[n] = AddReference(f[n - 1], cap.id, References(cap, disc)[n])
  <1> DEFINE refs == References(cap, disc)
             N == Len(refs)
             after == CHOOSE f : f = [n \in 0 .. N |-> IF n = 0 THEN view
                                                       ELSE AddReference(f[n - 1], cap.id, refs[n])]
  <1>1. _extract_refs(view, cap, disc) = after[N]
    BY Zenon DEF _extract_refs
  <1>2. \E f : f = [n \in 0 .. N |-> IF n = 0 THEN view ELSE AddReference(f[n - 1], cap.id, refs[n])]
    <2>1. PICK f : Reads(FALSE, f, view, cap.id, refs, N)
      BY ReadsExist
    <2>2. \A v, r : Read(FALSE, v, cap.id, r) = AddReference(v, cap.id, r)
      BY DEF Read
    <2> HIDE DEF refs, N
    <2>3. f = [n \in 0 .. N |-> IF n = 0 THEN view ELSE Read(FALSE, f[n - 1], cap.id, refs[n])]
      BY <2>1, Zenon DEF Reads
    <2>4. f = [n \in 0 .. N |-> IF n = 0 THEN view ELSE AddReference(f[n - 1], cap.id, refs[n])]
      BY <2>2, <2>3, Zenon
    <2> QED BY <2>4, Zenon
  <1>3. after = [n \in 0 .. N |-> IF n = 0 THEN view ELSE AddReference(after[n - 1], cap.id, refs[n])]
    BY <1>2, Zenon
  <1> HIDE DEF after, refs, N
  <1>4. N \in Nat
    BY DEF N, refs
  <1>5. \A n \in 0 .. N : after[n] = IF n = 0 THEN view ELSE AddReference(after[n - 1], cap.id, refs[n])
    BY <1>3, Zenon
  <1>6. after[0] = view /\ \A n \in 1 .. N : after[n] = AddReference(after[n - 1], cap.id, refs[n])
    <2>1. 0 \in 0 .. N /\ \A n \in 1 .. N : n \in 0 .. N /\ n # 0
      BY <1>4
    <2> QED BY <1>5, <2>1
  <1> QED BY <1>1, <1>6 DEF N, refs

LEMMA Joined ==
    ASSUME NEW S, NEW a \in Seq(S), NEW b \in Seq(S)
    PROVE  /\ a \o b \in Seq(S) /\ Len(a \o b) = Len(a) + Len(b) /\ Len(a) \in Nat /\ Len(b) \in Nat
           /\ \A k \in 1 .. Len(a) : (a \o b)[k] = a[k]
  OBVIOUS

LEMMA JoinedParts ==
    ASSUME NEW S, NEW a \in Seq(S), NEW b \in Seq(S)
    PROVE  \A k \in 1 .. Len(a \o b) : \/ k \in 1 .. Len(a) /\ (a \o b)[k] = a[k]
                                       \/ k - Len(a) \in 1 .. Len(b) /\ (a \o b)[k] = b[k - Len(a)]
  OBVIOUS

LEMMA ReferencesRead ==
    ASSUME NEW cap \in Capsule, NEW disc,
           disc.input \in Payload \cup {NoPayload}, disc.output \in Payload \cup {NoPayload}
    PROVE  LET refs == References(cap, disc)
           IN  /\ refs \in Seq(Reference) /\ Len(refs) >= 5
               /\ refs[1].digest = cap.parent /\ refs[2].digest = cap.subject
               /\ refs[3] = Ref("agent_input", cap.input, "attests_over", disc.input)
               /\ refs[4] = Ref("agent_output", cap.output, "attests_over", disc.output)
               /\ \A k \in DOMAIN refs : k \in {3, 4} \/ refs[k].payload = NoPayload
  <1> DEFINE r1 == Ref("capsule", cap.parent, "chains_to", NoPayload)
             r2 == Ref("subject", cap.subject, "attests_over", NoPayload)
             r3 == Ref("agent_input", cap.input, "attests_over", disc.input)
             r4 == Ref("agent_output", cap.output, "attests_over", disc.output)
             r5 == Ref("response", cap.response, "effect_response", NoPayload)
             head == << r1, r2, r3, r4, r5 >>
             tail == [k \in DOMAIN cap.evidence |-> Ref("wicket_manifest", cap.evidence[k], "commits_to", NoPayload)]
             refs == References(cap, disc)
  <1>1. refs = head \o tail
    BY Zenon DEF References
  <1>2. NoPayload \in Payload \cup {NoPayload}
    OBVIOUS
  <1>3. /\ cap.parent \in Digest /\ cap.subject \in Digest /\ cap.input \in Digest
        /\ cap.output \in Digest /\ cap.response \in Digest
    BY DEF Capsule
  <1>4. cap.evidence \in Seq(Digest)
    BY DEF Capsule
  <1>5. disc.input \in Payload \cup {NoPayload} /\ disc.output \in Payload \cup {NoPayload}
    OBVIOUS
  <1>6. \A t \in Kinds, e \in Ties, d \in Digest, q \in Payload \cup {NoPayload} : Ref(t, d, e, q) \in Reference
    BY DEF Ref, Reference
  <1>7. r1 \in Reference /\ r2 \in Reference /\ r5 \in Reference
    BY <1>2, <1>3, <1>6 DEF Kinds, Ties
  <1>8. r3 \in Reference /\ r4 \in Reference
    BY <1>3, <1>5, <1>6 DEF Kinds, Ties
  <1>9. tail \in Seq(Reference)
    <2>1. DOMAIN cap.evidence = 1 .. Len(cap.evidence) /\ Len(cap.evidence) \in Nat
      BY <1>4
    <2>2. \A k \in DOMAIN cap.evidence : cap.evidence[k] \in Digest
      BY <1>4
    <2>3. \A k \in DOMAIN cap.evidence : tail[k] \in Reference
      BY <1>2, <1>6, <2>2 DEF Kinds, Ties
    <2>4. tail \in [1 .. Len(cap.evidence) -> Reference]
      BY <2>1, <2>3
    <2> HIDE DEF tail
    <2> QED BY <2>1, <2>4
  <1>10. r1.digest = cap.parent /\ r2.digest = cap.subject
    BY DEF Ref
  <1> HIDE DEF r1, r2, r3, r4, r5, tail, refs
  <1>11. head \in Seq(Reference) /\ Len(head) = 5
    BY <1>7, <1>8
  <1>12. head[1] = r1 /\ head[2] = r2 /\ head[3] = r3 /\ head[4] = r4
    OBVIOUS
  <1> HIDE DEF head
  <1>13. refs \in Seq(Reference) /\ Len(refs) >= 5 /\ \A k \in 1 .. 5 : refs[k] = head[k]
    <2>1. /\ head \o tail \in Seq(Reference) /\ Len(head \o tail) = Len(head) + Len(tail) /\ Len(tail) \in Nat
          /\ \A k \in 1 .. Len(head) : (head \o tail)[k] = head[k]
      BY <1>9, <1>11, Joined
    <2> QED BY <1>1, <1>11, <2>1
  <1>14. refs[1] = r1 /\ refs[2] = r2 /\ refs[3] = r3 /\ refs[4] = r4
    BY <1>12, <1>13
  <1>15. /\ refs[1].digest = cap.parent /\ refs[2].digest = cap.subject
    BY <1>10, <1>14
  <1>16. ASSUME NEW k \in DOMAIN refs, k \notin {3, 4} PROVE refs[k].payload = NoPayload
    <2>1. head[5] = r5 /\ r1.payload = NoPayload /\ r2.payload = NoPayload /\ r5.payload = NoPayload
      BY DEF Ref, r1, r2, r5, head
    <2>2. \/ k \in 1 .. 5 /\ refs[k] = head[k]
          \/ k - 5 \in 1 .. Len(tail) /\ refs[k] = tail[k - 5]
      <3>1. k \in 1 .. Len(head \o tail)
        BY <1>1, <1>13, <1>16
      <3>2. \A i \in 1 .. Len(head \o tail) :
               \/ i \in 1 .. Len(head) /\ (head \o tail)[i] = head[i]
               \/ i - Len(head) \in 1 .. Len(tail) /\ (head \o tail)[i] = tail[i - Len(head)]
        BY <1>9, <1>11, JoinedParts
      <3> QED BY <1>1, <1>11, <3>1, <3>2
    <2>3. \A j \in 1 .. Len(tail) : tail[j].payload = NoPayload
      <3>1. DOMAIN tail = 1 .. Len(tail)
        BY <1>9
      <3>2. \A j \in DOMAIN tail : tail[j].payload = NoPayload
        BY DEF tail, Ref
      <3> QED BY <3>1, <3>2
    <2>4. CASE k \in 1 .. 5 /\ refs[k] = head[k]
      <3>1. k \in {1, 2, 5}
        BY <1>16, <2>4
      <3> QED BY <1>12, <2>1, <2>4, <3>1
    <2>5. CASE k - 5 \in 1 .. Len(tail) /\ refs[k] = tail[k - 5]
      BY <2>3, <2>5
    <2> QED BY <2>2, <2>4, <2>5
  <1> QED BY <1>13, <1>14, <1>15, <1>16 DEF refs, r3, r4

\* One reference: a digest the graph does not have becomes a node and, but for the
\* prior capsule, a row; nothing is taken away.
LEMMA AddReferenceFacts ==
    ASSUME NEW v \in View, NEW id \in Digest, NEW ref \in Reference
    PROVE  /\ AddReference(v, id, ref) \in View
           /\ NodeIds(AddReference(v, id, ref)) \subseteq NodeIds(v) \cup {ref.digest}
           /\ Range(v.privilege_log) \subseteq Range(AddReference(v, id, ref).privilege_log)
           /\ (ref.digest \notin NodeIds(v) \cup {NoDigest} /\ ref.type # "capsule") =>
                 LogEntry(ref.type, ref.digest, ref.payload, Verdict(PayloadMatches(ref.payload, ref.digest)))
                     \in Range(AddReference(v, id, ref).privilege_log)
  <1> DEFINE w == AddReference(v, id, ref)
             row == LogEntry(ref.type, ref.digest, ref.payload, Verdict(PayloadMatches(ref.payload, ref.digest)))
             node == Node(ref.digest, ref.type)
             edge == <<id, ref.digest, ref.edge>>
  <1>1. /\ v.nodes \in Seq(NodeType) /\ v.edges \in Seq(EdgeType)
        /\ v.privilege_log \in Seq(Row) /\ v.error \in BOOLEAN
    BY DEF View
  <1>2. ref.type \in Kinds /\ ref.digest \in Digest /\ ref.edge \in Ties
    BY DEF Reference
  <1>3. row \in Row
    BY <1>2 DEF LogEntry, Verdict, Row
  <1>4. node \in NodeType /\ node.id = ref.digest /\ edge \in EdgeType
    BY <1>2 DEF Node, NodeType, EdgeType
  <1>5. CASE ref.digest = NoDigest \/ ref.digest \in NodeIds(v)
    BY <1>5 DEF AddReference
  <1>6. CASE ~(ref.digest = NoDigest \/ ref.digest \in NodeIds(v))
    <2> DEFINE log == IF ref.type = "capsule" THEN v.privilege_log ELSE Append(v.privilege_log, row)
    <2>1. w = [v EXCEPT !.nodes = Append(v.nodes, node), !.edges = Append(v.edges, edge), !.privilege_log = log]
      BY <1>6 DEF AddReference
    <2> HIDE DEF row, node, edge
    <2>2. Append(v.nodes, node) \in Seq(NodeType)
      BY <1>1, <1>4
    <2>3. Append(v.edges, edge) \in Seq(EdgeType)
      BY <1>1, <1>4
    <2>4. log \in Seq(Row)
      BY <1>1, <1>3
    <2>5. Range(v.privilege_log) \subseteq Range(log) /\ (ref.type # "capsule" => row \in Range(log))
      <3>1. CASE ref.type = "capsule"
        BY <3>1
      <3>2. CASE ref.type # "capsule"
        <4>1. log = Append(v.privilege_log, row)
          BY <3>2
        <4>2. DOMAIN log = 1 .. (Len(v.privilege_log) + 1) /\ Len(v.privilege_log) \in Nat
              /\ log[Len(v.privilege_log) + 1] = row
              /\ \A k \in DOMAIN v.privilege_log : k \in DOMAIN log /\ log[k] = v.privilege_log[k]
          BY <1>1, <1>3, <4>1
        <4> HIDE DEF log
        <4> QED BY <4>2 DEF Range
      <3> QED BY <3>1, <3>2
    <2> HIDE DEF log
    <2>6. w \in View /\ w.nodes = Append(v.nodes, node) /\ w.privilege_log = log
      BY <2>1, <2>2, <2>3, <2>4 DEF View
    <2>7. NodeIds(w) \subseteq NodeIds(v) \cup {ref.digest}
      BY <1>1, <1>4, <2>6 DEF NodeIds
    <2> QED BY <2>5, <2>6, <2>7 DEF row
  <1> QED BY <1>5, <1>6

\* Whatever a digest's place in the order of references, if no earlier one and not
\* the capsule itself has it, its row is in the log at the end.
LEMMA ExtractLogs ==
    ASSUME NEW cap \in Capsule, NEW disc \in [input : Payload, output : Payload], NEW v \in View,
           NEW k \in 1 .. Len(References(cap, disc)),
           LET refs == References(cap, disc)
           IN  /\ refs[k].type # "capsule"
               /\ refs[k].digest \notin NodeIds(v) \cup {NoDigest} \cup {refs[j].digest : j \in 1 .. (k - 1)}
    PROVE  LET ref == References(cap, disc)[k]
           IN  LogEntry(ref.type, ref.digest, ref.payload, Verdict(PayloadMatches(ref.payload, ref.digest)))
                   \in Range(_extract_refs(v, cap, disc).privilege_log)
  <1> DEFINE refs == References(cap, disc)
             N == Len(refs)
             ref == refs[k]
             row == LogEntry(ref.type, ref.digest, ref.payload, Verdict(PayloadMatches(ref.payload, ref.digest)))
  <1>1. refs \in Seq(Reference) /\ N \in Nat
    BY ReferencesRead
  <1>2. cap.id \in Digest
    BY DEF Capsule
  <1>3. PICK f : /\ _extract_refs(v, cap, disc) = f[N] /\ f[0] = v
                 /\ \A n \in 1 .. N : f[n] = AddReference(f[n - 1], cap.id, refs[n])
    <2>1. Len(References(cap, disc)) \in Nat
      BY <1>1
    <2> HIDE DEF refs, N, row, ref
    <2>2. PICK f : /\ _extract_refs(v, cap, disc) = f[Len(References(cap, disc))]
                   /\ f[0] = v
                   /\ \A n \in 1 .. Len(References(cap, disc)) :
                          f[n] = AddReference(f[n - 1], cap.id, References(cap, disc)[n])
      BY <2>1, ExtractReads
    <2> QED BY <2>2, Zenon DEF refs, N
  <1> HIDE DEF refs, N, row
  <1>4. \A n \in 1 .. N : refs[n] \in Reference
    BY <1>1 DEF N
  <1> DEFINE At(n) == /\ f[n] \in View
                      /\ NodeIds(f[n]) \subseteq NodeIds(v) \cup {refs[j].digest : j \in 1 .. n}
                      /\ n >= k => row \in Range(f[n].privilege_log)
             P == {n \in Nat : n <= N => At(n)}
  <1>5. 0 \in P
    BY <1>3
  <1>6. ASSUME NEW n \in P PROVE n + 1 \in P
    <2> SUFFICES ASSUME n + 1 <= N PROVE At(n + 1)
      OBVIOUS
    <2>1. n \in Nat /\ n <= N /\ At(n)
      BY <1>1
    <2>2. n + 1 \in 1 .. N /\ f[n + 1] = AddReference(f[n], cap.id, refs[n + 1])
      BY <1>1, <1>3, <2>1
    <2>3. /\ f[n + 1] \in View
          /\ NodeIds(f[n + 1]) \subseteq NodeIds(f[n]) \cup {refs[n + 1].digest}
          /\ Range(f[n].privilege_log) \subseteq Range(f[n + 1].privilege_log)
      <3>1. f[n] \in View /\ refs[n + 1] \in Reference
        BY <1>4, <2>1, <2>2
      <3> DEFINE a == f[n]  r == refs[n + 1]
      <3> HIDE DEF a, r
      <3>2. /\ AddReference(a, cap.id, r) \in View
            /\ NodeIds(AddReference(a, cap.id, r)) \subseteq NodeIds(a) \cup {r.digest}
            /\ Range(a.privilege_log) \subseteq Range(AddReference(a, cap.id, r).privilege_log)
        <4>1. a \in View /\ r \in Reference
          BY <3>1 DEF a, r
        <4> QED BY <1>2, <4>1, AddReferenceFacts
      <3> QED BY <2>2, <3>2, Zenon DEF a, r
    <2>4. NodeIds(f[n + 1]) \subseteq NodeIds(v) \cup {refs[j].digest : j \in 1 .. (n + 1)}
      BY <2>1, <2>3
    <2>5. ASSUME n + 1 >= k PROVE row \in Range(f[n + 1].privilege_log)
      <3>1. CASE n >= k
        BY <2>1, <2>3, <3>1
      <3>2. CASE n + 1 = k
        <4>1. n = k - 1 /\ refs[n + 1] = ref
          BY <2>1, <3>2
        <4>2. ref.digest \notin NodeIds(f[n]) \cup {NoDigest} /\ ref.type # "capsule"
          BY <2>1, <4>1 DEF refs
        <4>3. ref \in Reference
          BY <1>4, <2>2, <4>1
        <4> QED BY <1>2, <2>1, <2>2, <4>1, <4>2, <4>3, AddReferenceFacts DEF row
      <3> QED BY <2>1, <2>5, <3>1, <3>2
    <2> QED BY <2>3, <2>4, <2>5
  <1>7. P = Nat
    <2>1. P \in SUBSET Nat
      OBVIOUS
    <2> HIDE DEF P
    <2> QED BY <1>5, <1>6, <2>1, NatSteps
  <1>8. At(N)
    BY <1>1, <1>7
  <1> QED BY <1>1, <1>3, <1>8 DEF row, refs, N

\* A digest named once is the digest of no other member of the capsule.
LEMMA OnceIsAlone ==
    ASSUME NEW cap \in Capsule, NEW f \in {"input", "output"}, Once(cap, cap[f]),
           NEW g \in {"id", "parent", "subject", "input", "output", "response"}, g # f
    PROVE  cap[g] # cap[f]
  <1> DEFINE S == {h \in {"id", "parent", "subject", "input", "output", "response"} : cap[h] = cap[f]}
             T == {k \in DOMAIN cap.evidence : cap.evidence[k] = cap[f]}
  <1>1. Cardinality(S) + Cardinality(T) = 1
    BY Zenon DEF Once
  <1>2. IsFiniteSet(S)
    <2> DEFINE U == {"id", "parent", "subject", "input", "output", "response"}
    <2>1. IsFiniteSet(U)
      <3>1. IsFiniteSet({})
        BY FS_EmptySet
      <3>2. IsFiniteSet({} \cup {"id"})
        BY <3>1, FS_AddElement
      <3>3. IsFiniteSet({} \cup {"id"} \cup {"parent"})
        BY <3>2, FS_AddElement
      <3>4. IsFiniteSet({} \cup {"id"} \cup {"parent"} \cup {"subject"})
        BY <3>3, FS_AddElement
      <3>5. IsFiniteSet({} \cup {"id"} \cup {"parent"} \cup {"subject"} \cup {"input"})
        BY <3>4, FS_AddElement
      <3>6. IsFiniteSet({} \cup {"id"} \cup {"parent"} \cup {"subject"} \cup {"input"} \cup {"output"})
        BY <3>5, FS_AddElement
      <3>7. IsFiniteSet({} \cup {"id"} \cup {"parent"} \cup {"subject"} \cup {"input"} \cup {"output"} \cup {"response"})
        BY <3>6, FS_AddElement
      <3>8. {} \cup {"id"} \cup {"parent"} \cup {"subject"} \cup {"input"} \cup {"output"} \cup {"response"} = U
        OBVIOUS
      <3> QED BY <3>7, <3>8, Zenon
    <2>2. S \subseteq U
      OBVIOUS
    <2> HIDE DEF S, U
    <2> QED BY <2>1, <2>2, FS_Subset
  <1>3. IsFiniteSet(T)
    <2>1. cap.evidence \in Seq(Digest)
      BY DEF Capsule
    <2>2. T \subseteq 1 .. Len(cap.evidence) /\ Len(cap.evidence) \in Int
      BY <2>1
    <2> HIDE DEF T
    <2>3. IsFiniteSet(1 .. Len(cap.evidence))
      BY <2>2, FS_Interval
    <2> QED BY <2>2, <2>3, FS_Subset
  <1>4. f \in S /\ (cap[g] = cap[f] => g \in S)
    OBVIOUS
  <1> HIDE DEF S, T
  <1>5. Cardinality(S) \in Nat /\ Cardinality(T) \in Nat
    BY <1>2, <1>3, FS_CardinalityType
  <1>6. Cardinality(S) # 0
    BY <1>2, <1>4, FS_EmptySet
  <1>7. Cardinality(S) = 1
    BY <1>1, <1>5, <1>6
  <1>8. PICK x : S = {x}
    BY <1>2, <1>7, FS_Singleton
  <1> QED BY <1>4, <1>8

LEMMA FirstOf ==
    ASSUME NEW S, NEW s \in Seq(S), Len(s) = 1
    PROVE  s[1] \in S
  OBVIOUS

LEMMA EnvelopeRows ==
    ASSUME NEW cap \in Capsule, NEW disc \in [input : Payload, output : Payload],
           cap.id # NoDigest
    PROVE  /\ cap.input # NoDigest /\ Once(cap, cap.input) =>
                RowOf("agent_input", cap.input, disc.input) \in Range(_parse_single(cap, disc).privilege_log)
           /\ cap.output # NoDigest /\ Once(cap, cap.output) =>
                RowOf("agent_output", cap.output, disc.output) \in Range(_parse_single(cap, disc).privilege_log)
  <1> DEFINE v == [EmptyView EXCEPT !.nodes = <<Node(cap.id, "capsule")>>]
             refs == References(cap, disc)
  <1>1. _parse_single(cap, disc) = _extract_refs(v, cap, disc)
    BY Zenon DEF _parse_single
  <1>2. cap.id \in Digest
    BY DEF Capsule
  <1>3. v = [nodes |-> <<Node(cap.id, "capsule")>>, edges |-> << >>, privilege_log |-> << >>, error |-> FALSE]
    <2> DEFINE ns == <<Node(cap.id, "capsule")>>
    <2> HIDE DEF ns
    <2> DEFINE em == << >>  no == FALSE
    <2>1. EmptyView = [nodes |-> em, edges |-> em, privilege_log |-> em, error |-> no]
      BY Zenon DEF EmptyView
    <2> HIDE DEF em, no
    <2>2. [EmptyView EXCEPT !.nodes = ns] = [nodes |-> ns, edges |-> em, privilege_log |-> em, error |-> no]
      BY <2>1
    <2> QED BY <2>2, Zenon DEF ns, em, no
  <1>4. Node(cap.id, "capsule") \in NodeType
    BY <1>2 DEF Node, NodeType, Kinds
  <1>5. NodeIds(v) = {cap.id}
    <2>1. v.nodes = <<Node(cap.id, "capsule")>>
      BY <1>3
    <2> HIDE DEF v
    <2> QED BY <2>1 DEF NodeIds, Node
  <1>6. v \in View
    <2>1. <<Node(cap.id, "capsule")>> \in Seq(NodeType)
      BY <1>4
    <2> DEFINE ns == <<Node(cap.id, "capsule")>>
    <2>2. v = [nodes |-> ns, edges |-> << >>, privilege_log |-> << >>, error |-> FALSE]
      BY <1>3
    <2> HIDE DEF ns, v
    <2>3. ns \in Seq(NodeType)
      BY <2>1 DEF ns
    <2> QED BY <2>2, <2>3 DEF View
  <1>7. /\ refs \in Seq(Reference) /\ Len(refs) \in Nat /\ Len(refs) >= 5
        /\ refs[1].digest = cap.parent /\ refs[2].digest = cap.subject
        /\ refs[3] = Ref("agent_input", cap.input, "attests_over", disc.input)
        /\ refs[4] = Ref("agent_output", cap.output, "attests_over", disc.output)
    BY ReferencesRead
  <1> HIDE DEF v, refs
  <1>8. /\ refs[3].type = "agent_input" /\ refs[3].digest = cap.input /\ refs[3].payload = disc.input
        /\ refs[4].type = "agent_output" /\ refs[4].digest = cap.output /\ refs[4].payload = disc.output
    BY <1>7 DEF Ref
  <1>9. ASSUME cap.input # NoDigest, Once(cap, cap.input)
        PROVE  RowOf("agent_input", cap.input, disc.input) \in Range(_extract_refs(v, cap, disc).privilege_log)
    <2>1. cap.id # cap.input /\ cap.parent # cap.input /\ cap.subject # cap.input
      BY <1>9, OnceIsAlone
    <2>2. {refs[j].digest : j \in 1 .. (3 - 1)} = {cap.parent, cap.subject}
      BY <1>7
    <2>3. refs[3].digest \notin NodeIds(v) \cup {NoDigest} \cup {refs[j].digest : j \in 1 .. (3 - 1)}
      BY <1>5, <1>8, <1>9, <2>1, <2>2
    <2>4. 3 \in 1 .. Len(refs)
      BY <1>7
    <2>5. LogEntry(refs[3].type, refs[3].digest, refs[3].payload,
                   Verdict(PayloadMatches(refs[3].payload, refs[3].digest)))
              \in Range(_extract_refs(v, cap, disc).privilege_log)
      BY <1>6, <1>8, <2>3, <2>4, ExtractLogs DEF refs
    <2> QED BY <1>8, <2>5 DEF RowOf
  <1>10. ASSUME cap.output # NoDigest, Once(cap, cap.output)
         PROVE  RowOf("agent_output", cap.output, disc.output) \in Range(_extract_refs(v, cap, disc).privilege_log)
    <2>1. cap.id # cap.output /\ cap.parent # cap.output /\ cap.subject # cap.output /\ cap.input # cap.output
      BY <1>10, OnceIsAlone
    <2>2. {refs[j].digest : j \in 1 .. (4 - 1)} = {cap.parent, cap.subject, cap.input}
      BY <1>7, <1>8
    <2>3. refs[4].digest \notin NodeIds(v) \cup {NoDigest} \cup {refs[j].digest : j \in 1 .. (4 - 1)}
      BY <1>5, <1>8, <1>10, <2>1, <2>2
    <2>4. 4 \in 1 .. Len(refs)
      BY <1>7
    <2>5. LogEntry(refs[4].type, refs[4].digest, refs[4].payload,
                   Verdict(PayloadMatches(refs[4].payload, refs[4].digest)))
              \in Range(_extract_refs(v, cap, disc).privilege_log)
      BY <1>6, <1>8, <2>3, <2>4, ExtractLogs DEF refs
    <2> QED BY <1>8, <2>5 DEF RowOf
  <1> QED BY <1>1, <1>9, <1>10

\* A row that does not say "false" of a payload says that it is the one sealed.
LEMMA RowTells ==
    ASSUME NEW t, NEW d, NEW q, q # NoPayload, RowOf(t, d, q).match # "false"
    PROVE  Sealed(q, d)
  BY DEF RowOf, LogEntry, Verdict, PayloadMatches, Sealed

LEMMA PassFromInv == Inv => PassMeansSealed
  <1> SUFFICES ASSUME Inv, Done, summary.Integrity = "pass",
                      NEW k \in DOMAIN bundle, bundle[k].shape = "envelope", _unwrap(bundle[k]).id # NoDigest,
                      NEW f \in {"input", "output"},
                      _unwrap(bundle[k])[f] # NoDigest, Once(_unwrap(bundle[k]), _unwrap(bundle[k])[f]),
                      bundle[k].disc[1][f] # NoPayload
               PROVE  Sealed(bundle[k].disc[1][f], _unwrap(bundle[k])[f])
    BY Zenon DEF PassMeansSealed
  <1> DEFINE item == bundle[k]
             cap == _unwrap(item)
             disc == item.disc[1]
  <1>1. /\ bundle \in Seq(Item) /\ IsItem(item) /\ Len(views) = Len(bundle) /\ views[k] = parse_capsule(item)
        /\ summary = evaluate_ritual(bundle, views, link.witness) /\ views \in Seq(Parsed)
    BY DEF Inv, LinkInv, ViewsInv, SummaryInv, Done, IsAac
  <1>2. k \in DOMAIN views
    BY <1>1
  <1>3. ~Mismatched(views[k])
    BY <1>1, <1>2 DEF evaluate_ritual
  <1> HIDE DEF item
  <1>4. item.shape = "envelope" /\ item \in Item
    BY <1>1 DEF item, IsItem
  <1>5. Len(item.caps) = 1 /\ Len(item.disc) = 1
    BY <1>1, <1>4 DEF IsItem
  <1>6. item.caps \in Seq(Capsule) /\ item.disc \in Seq([input : Payload, output : Payload])
    BY <1>4 DEF Item
  <1>7. cap = item.caps[1] /\ cap \in Capsule /\ disc \in [input : Payload, output : Payload]
    <2>1. cap = item.caps[1]
      BY <1>4 DEF _unwrap
    <2>2. item.caps[1] \in Capsule
      BY <1>5, <1>6
    <2>3. disc \in [input : Payload, output : Payload]
      <3> DEFINE ds == item.disc
      <3>1. ds \in Seq([input : Payload, output : Payload]) /\ Len(ds) = 1
        BY <1>5, <1>6
      <3> HIDE DEF ds
      <3>2. ds[1] \in [input : Payload, output : Payload]
        BY <3>1, FirstOf
      <3> QED BY <3>2 DEF ds
    <2> QED BY <2>1, <2>2, <2>3
  <1>8. views[k] = _parse_single(cap, disc)
    BY <1>1, <1>4, <1>7 DEF parse_capsule
  <1>9. \A r \in Range(views[k].privilege_log) : r.match # "false"
    BY <1>3 DEF Mismatched, Range
  <1>10. cap.id # NoDigest /\ cap[f] # NoDigest /\ Once(cap, cap[f]) /\ disc[f] # NoPayload
    BY DEF item
  <1> HIDE DEF cap, disc
  <1>11. CASE f = "input"
    <2>1. cap.input # NoDigest /\ Once(cap, cap.input) /\ disc.input # NoPayload
      BY <1>10, <1>11
    <2>2. RowOf("agent_input", cap.input, disc.input) \in Range(views[k].privilege_log)
      BY <1>7, <1>8, <1>10, <2>1, EnvelopeRows
    <2>3. Sealed(disc.input, cap.input)
      BY <1>9, <2>1, <2>2, RowTells
    <2> QED BY <1>11, <2>3 DEF cap, disc, item
  <1>12. CASE f = "output"
    <2>1. cap.output # NoDigest /\ Once(cap, cap.output) /\ disc.output # NoPayload
      BY <1>10, <1>12
    <2>2. RowOf("agent_output", cap.output, disc.output) \in Range(views[k].privilege_log)
      BY <1>7, <1>8, <1>10, <2>1, EnvelopeRows
    <2>3. Sealed(disc.output, cap.output)
      BY <1>9, <2>1, <2>2, RowTells
    <2> QED BY <1>12, <2>3 DEF cap, disc, item
  <1> QED BY <1>11, <1>12

\* aac.evaluate_ritual and aac.annotate_records: Integrity passes only if each
\* payload disclosed for a digest named once is the one that was sealed, and a record
\* is flagged as citing an altered one exactly when it descends from one, whatever
\* the bundle, with its cycles and its repeated ids.
THEOREM AlteredRecordsAreShown == Spec => []AlteredRecordsShow
  <1>1. Inv => AlteredRecordsShow
    BY PassFromInv, DescendantsFromInv DEF AlteredRecordsShow
  <1> QED BY <1>1, RitualCorrect, PTL

-----------------------------------------------------------------------------
(* The two readings of an item in step.                                    *)

\* A row of Python's log and the row of the page's beside it.  The page decides no
\* match while it parses.
Paired(a, b) ==
    /\ a.type = b.type /\ a.digest = b.digest /\ a.withheld = b.withheld
    /\ b.match = "null" /\ (a.withheld => a.match = "null")

RowsAlike(s, t) == Len(s) = Len(t) /\ \A j \in 1 .. Len(s) : Paired(s[j], t[j])

\* Every edge joins two of the nodes.
Joins(g) == \A e \in Range(g.edges) : e[1] \in NodeIds(g) /\ e[2] \in NodeIds(g)

\* Python's view v and the page's graph g are of the same item.
Alike(v, g) ==
    /\ v \in View /\ g \in View
    /\ NodeIds(v) = NodeIds(g)
    /\ Range(v.edges) \subseteq Range(g.edges)
    /\ Joins(g)
    /\ RowsAlike(v.privilege_log, g.privilege_log)

\* What appending adds to a sequence.
LEMMA Appended ==
    ASSUME NEW S, NEW s \in Seq(S), NEW x \in S
    PROVE  /\ Append(s, x) \in Seq(S) /\ Len(Append(s, x)) = Len(s) + 1 /\ Len(s) \in Nat
           /\ Append(s, x)[Len(s) + 1] = x /\ \A j \in 1 .. Len(s) : Append(s, x)[j] = s[j]
           /\ Range(Append(s, x)) = Range(s) \cup {x}
  <1> DEFINE t == Append(s, x)
  <1>1. /\ t \in Seq(S) /\ Len(t) = Len(s) + 1 /\ Len(s) \in Nat
        /\ t[Len(s) + 1] = x /\ \A j \in 1 .. Len(s) : t[j] = s[j]
    OBVIOUS
  <1>2. DOMAIN t = 1 .. (Len(s) + 1) /\ DOMAIN s = 1 .. Len(s)
    BY <1>1
  <1> HIDE DEF t
  <1>3. Range(t) = Range(s) \cup {x}
    BY <1>1, <1>2 DEF Range
  <1> QED BY <1>1, <1>3 DEF t

\* The node ids of a view are those of the elements of its list.
LEMMA IdsOfNodes ==
    ASSUME NEW v, NEW w, NEW n, Range(w.nodes) = Range(v.nodes) \cup {n}
    PROVE  NodeIds(w) = NodeIds(v) \cup {n.id}
  <1>1. \A u : NodeIds(u) = {x.id : x \in Range(u.nodes)}
    BY DEF NodeIds, Range
  <1> QED BY <1>1

\* Appending two rows that are paired keeps the logs alike.
LEMMA AlikeAppend ==
    ASSUME NEW s \in Seq(Row), NEW t \in Seq(Row), RowsAlike(s, t),
           NEW a \in Row, NEW b \in Row, Paired(a, b)
    PROVE  RowsAlike(Append(s, a), Append(t, b))
  <1> DEFINE x == Append(s, a)
             y == Append(t, b)
  <1>1. /\ Len(x) = Len(s) + 1 /\ Len(s) \in Nat /\ x[Len(s) + 1] = a /\ \A j \in 1 .. Len(s) : x[j] = s[j]
    BY Appended
  <1>2. /\ Len(y) = Len(t) + 1 /\ y[Len(t) + 1] = b /\ \A j \in 1 .. Len(t) : y[j] = t[j]
    BY Appended
  <1> HIDE DEF x, y
  <1>3. Len(s) = Len(t) /\ \A j \in 1 .. Len(s) : Paired(s[j], t[j])
    BY DEF RowsAlike
  <1>4. ASSUME NEW j \in 1 .. Len(x) PROVE Paired(x[j], y[j])
    <2>1. CASE j = Len(s) + 1
      BY <1>1, <1>2, <1>3, <2>1
    <2>2. CASE j \in 1 .. Len(s)
      BY <1>1, <1>2, <1>3, <2>2
    <2> QED BY <1>1, <2>1, <2>2
  <1>5. RowsAlike(x, y)
    BY <1>1, <1>2, <1>3, <1>4 DEF RowsAlike
  <1> QED BY <1>5 DEF x, y

\* addEdge adds an edge or finds it there.
LEMMA EdgeAdded ==
    ASSUME NEW E \in Seq(EdgeType), NEW e \in EdgeType
    PROVE  addEdge(E, e) \in Seq(EdgeType) /\ Range(addEdge(E, e)) = Range(E) \cup {e}
  <1>1. CASE e \in Range(E)
    <2>1. addEdge(E, e) = E
      BY <1>1 DEF addEdge
    <2> QED BY <1>1, <2>1
  <1>2. CASE e \notin Range(E)
    <2>1. addEdge(E, e) = Append(E, e)
      BY <1>2 DEF addEdge
    <2> QED BY <2>1, Appended
  <1> QED BY <1>1, <1>2

\* One reference, read by both: a digest that is new becomes a node, an edge and a
\* row on both sides; one that is known at most an edge of the page.
LEMMA ReadAlike ==
    ASSUME NEW v, NEW g, Alike(v, g), NEW id \in Digest, id \in NodeIds(v), NEW ref \in Reference
    PROVE  /\ Alike(AddReference(v, id, ref), addRef(g, id, ref))
           /\ NodeIds(v) \subseteq NodeIds(AddReference(v, id, ref))
           /\ Range(AddReference(v, id, ref).privilege_log) \subseteq
                  Range(v.privilege_log) \cup {RowOf(ref.type, ref.digest, ref.payload)}
  <1> DEFINE v1 == AddReference(v, id, ref)
             g1 == addRef(g, id, ref)
             node == Node(ref.digest, ref.type)
             edge == <<id, ref.digest, ref.edge>>
             row == RowOf(ref.type, ref.digest, ref.payload)
             entry == LogEntry(ref.type, ref.digest, ref.payload, "null")
  <1>1. /\ v \in View /\ g \in View /\ NodeIds(v) = NodeIds(g) /\ Range(v.edges) \subseteq Range(g.edges)
        /\ Joins(g) /\ RowsAlike(v.privilege_log, g.privilege_log)
    BY DEF Alike
  <1>2. /\ v.nodes \in Seq(NodeType) /\ v.edges \in Seq(EdgeType) /\ v.privilege_log \in Seq(Row)
        /\ g.nodes \in Seq(NodeType) /\ g.edges \in Seq(EdgeType) /\ g.privilege_log \in Seq(Row)
    BY <1>1 DEF View
  <1>3. ref.type \in Kinds /\ ref.digest \in Digest /\ ref.edge \in Ties
    BY DEF Reference
  <1>4. row \in Row /\ entry \in Row /\ Paired(row, entry)
    BY <1>3 DEF RowOf, LogEntry, Verdict, Row, Paired
  <1>5. node \in NodeType /\ node.id = ref.digest
    BY <1>3 DEF Node, NodeType
  <1>6. edge \in EdgeType /\ edge[1] = id /\ edge[2] = ref.digest
    BY <1>3 DEF EdgeType
  <1>7. CASE ref.digest = NoDigest
    <2>1. v1 = v /\ g1 = g
      BY <1>7 DEF AddReference, addRef
    <2> QED BY <2>1
  <1>8. CASE ref.digest # NoDigest /\ ref.digest \in NodeIds(v)
    <2>1. v1 = v
      BY <1>8 DEF AddReference
    <2> DEFINE E == IF ref.type \notin {"capsule", "agent_input", "agent_output"}
                    THEN addEdge(g.edges, edge) ELSE g.edges
    <2>2. g1 = [g EXCEPT !.nodes = g.nodes, !.edges = E, !.privilege_log = g.privilege_log]
      BY <1>1, <1>8 DEF addRef
    <2>3. /\ E \in Seq(EdgeType) /\ Range(g.edges) \subseteq Range(E)
          /\ Range(E) \subseteq Range(g.edges) \cup {edge}
      <3> HIDE DEF edge
      <3>1. addEdge(g.edges, edge) \in Seq(EdgeType) /\ Range(addEdge(g.edges, edge)) = Range(g.edges) \cup {edge}
        BY <1>2, <1>6, EdgeAdded
      <3> QED BY <1>2, <3>1
    <2> HIDE DEF E, g1, edge
    <2>4. g1 \in View /\ g1.nodes = g.nodes /\ g1.edges = E /\ g1.privilege_log = g.privilege_log
      BY <1>1, <1>2, <2>2, <2>3 DEF View
    <2>5. NodeIds(g1) = NodeIds(g)
      BY <2>4 DEF NodeIds
    <2>6. Joins(g1)
      BY <1>1, <1>6, <1>8, <2>3, <2>4, <2>5 DEF Joins
    <2>7. Alike(v, g1)
      BY <1>1, <2>3, <2>4, <2>5, <2>6 DEF Alike
    <2> QED BY <2>1, <2>7 DEF g1
  <1>9. CASE ref.digest # NoDigest /\ ref.digest \notin NodeIds(v)
    <2> DEFINE N == Append(v.nodes, node)
               E == Append(v.edges, edge)
               L == IF ref.type = "capsule" THEN v.privilege_log ELSE Append(v.privilege_log, row)
               M == Append(g.nodes, node)
               F == addEdge(g.edges, edge)
               K == IF ref.type = "capsule" THEN g.privilege_log ELSE Append(g.privilege_log, entry)
    <2>1. v1 = [v EXCEPT !.nodes = N, !.edges = E, !.privilege_log = L]
      BY <1>9 DEF AddReference, RowOf
    <2>2. g1 = [g EXCEPT !.nodes = M, !.edges = F, !.privilege_log = K]
      BY <1>1, <1>9 DEF addRef
    <2> HIDE DEF node, edge, row, entry
    <2>3. N \in Seq(NodeType) /\ Range(N) = Range(v.nodes) \cup {node}
      BY <1>2, <1>5, Appended
    <2>4. M \in Seq(NodeType) /\ Range(M) = Range(g.nodes) \cup {node}
      BY <1>2, <1>5, Appended
    <2>5. E \in Seq(EdgeType) /\ Range(E) = Range(v.edges) \cup {edge}
      BY <1>2, <1>6, Appended
    <2>6. F \in Seq(EdgeType) /\ Range(F) = Range(g.edges) \cup {edge}
      BY <1>2, <1>6, EdgeAdded
    <2>7. L \in Seq(Row) /\ Range(L) \subseteq Range(v.privilege_log) \cup {row}
      <3>1. Append(v.privilege_log, row) \in Seq(Row)
            /\ Range(Append(v.privilege_log, row)) = Range(v.privilege_log) \cup {row}
        BY <1>2, <1>4, Appended
      <3> QED BY <1>2, <3>1
    <2>8. K \in Seq(Row)
      <3>1. Append(g.privilege_log, entry) \in Seq(Row)
        BY <1>2, <1>4, Appended
      <3> QED BY <1>2, <3>1
    <2>9. RowsAlike(L, K)
      <3>1. RowsAlike(Append(v.privilege_log, row), Append(g.privilege_log, entry))
        BY <1>1, <1>2, <1>4, AlikeAppend
      <3> QED BY <1>1, <3>1
    <2> HIDE DEF N, E, L, M, F, K, v1, g1
    <2>10. v1 \in View /\ v1.nodes = N /\ v1.edges = E /\ v1.privilege_log = L
      BY <1>1, <2>1, <2>3, <2>5, <2>7 DEF View
    <2>11. g1 \in View /\ g1.nodes = M /\ g1.edges = F /\ g1.privilege_log = K
      BY <1>1, <2>2, <2>4, <2>6, <2>8 DEF View
    <2>12. NodeIds(v1) = NodeIds(v) \cup {ref.digest}
      <3>1. Range(v1.nodes) = Range(v.nodes) \cup {node}
        BY <2>3, <2>10
      <3> QED BY <1>5, <3>1, IdsOfNodes
    <2>13. NodeIds(g1) = NodeIds(g) \cup {ref.digest}
      <3>1. Range(g1.nodes) = Range(g.nodes) \cup {node}
        BY <2>4, <2>11
      <3> QED BY <1>5, <3>1, IdsOfNodes
    <2>14. Joins(g1)
      BY <1>1, <1>6, <2>6, <2>11, <2>13 DEF Joins
    <2>15. Alike(v1, g1)
      BY <1>1, <2>5, <2>6, <2>9, <2>10, <2>11, <2>12, <2>13, <2>14 DEF Alike
    <2> QED BY <2>7, <2>10, <2>12, <2>15 DEF v1, g1, row
  <1> QED BY <1>7, <1>8, <1>9

LEMMA ExtractCapReads ==
    ASSUME NEW g, NEW cap, NEW disc, Len(References(cap, disc)) \in Nat
    PROVE  \E f : /\ extractCap(g, cap, disc) = f[Len(References(cap, disc))]
                  /\ f[0] = g
                  /\ \A n \in 1 .. Len(References(cap, disc)) :
                        f[n] = addRef(f[n - 1], cap.id, References(cap, disc)[n])
  <1> DEFINE refs == References(cap, disc)
             N == Len(refs)
             after == CHOOSE f : f = [n \in 0 .. N |-> IF n = 0 THEN g ELSE addRef(f[n - 1], cap.id, refs[n])]
  <1>1. extractCap(g, cap, disc) = after[N]
    BY Zenon DEF extractCap
  <1>2. \E f : f = [n \in 0 .. N |-> IF n = 0 THEN g ELSE addRef(f[n - 1], cap.id, refs[n])]
    <2>1. PICK f : Reads(TRUE, f, g, cap.id, refs, N)
      BY ReadsExist
    <2>2. \A v, r : Read(TRUE, v, cap.id, r) = addRef(v, cap.id, r)
      BY DEF Read
    <2> HIDE DEF refs, N
    <2>3. f = [n \in 0 .. N |-> IF n = 0 THEN g ELSE Read(TRUE, f[n - 1], cap.id, refs[n])]
      BY <2>1, Zenon DEF Reads
    <2>4. f = [n \in 0 .. N |-> IF n = 0 THEN g ELSE addRef(f[n - 1], cap.id, refs[n])]
      BY <2>2, <2>3, Zenon
    <2> QED BY <2>4, Zenon
  <1>3. after = [n \in 0 .. N |-> IF n = 0 THEN g ELSE addRef(after[n - 1], cap.id, refs[n])]
    BY <1>2, Zenon
  <1> HIDE DEF after, refs, N
  <1>4. N \in Nat
    BY DEF N, refs
  <1>5. \A n \in 0 .. N : after[n] = IF n = 0 THEN g ELSE addRef(after[n - 1], cap.id, refs[n])
    BY <1>3, Zenon
  <1>6. after[0] = g /\ \A n \in 1 .. N : after[n] = addRef(after[n - 1], cap.id, refs[n])
    <2>1. 0 \in 0 .. N /\ \A n \in 1 .. N : n \in 0 .. N /\ n # 0
      BY <1>4
    <2> QED BY <1>5, <2>1
  <1> QED BY <1>1, <1>6 DEF N, refs

\* The rows in which a payload of the capsule is shown.
Disclosed(cap, disc) == {RowOf("agent_input", cap.input, disc.input), RowOf("agent_output", cap.output, disc.output)}

\* A row of a capsule is withheld or shows the payload that came for its digest.
LEMMA ReferenceRow ==
    ASSUME NEW cap \in Capsule, NEW disc,
           disc.input \in Payload \cup {NoPayload}, disc.output \in Payload \cup {NoPayload},
           NEW n \in 1 .. Len(References(cap, disc))
    PROVE  LET ref == References(cap, disc)[n]
               row == RowOf(ref.type, ref.digest, ref.payload)
           IN  row.withheld \/ row \in Disclosed(cap, disc)
  <1> DEFINE refs == References(cap, disc)
             ref == refs[n]
             row == RowOf(ref.type, ref.digest, ref.payload)
  <1>1. /\ refs \in Seq(Reference)
        /\ refs[3] = Ref("agent_input", cap.input, "attests_over", disc.input)
        /\ refs[4] = Ref("agent_output", cap.output, "attests_over", disc.output)
        /\ \A k \in DOMAIN refs : k \in {3, 4} \/ refs[k].payload = NoPayload
    BY ReferencesRead
  <1>2. n \in DOMAIN refs
    BY <1>1
  <1> HIDE DEF refs
  <1>3. CASE n = 3
    <2>1. ref.type = "agent_input" /\ ref.digest = cap.input /\ ref.payload = disc.input
      BY <1>1, <1>3 DEF Ref
    <2> QED BY <2>1 DEF Disclosed, refs
  <1>4. CASE n = 4
    <2>1. ref.type = "agent_output" /\ ref.digest = cap.output /\ ref.payload = disc.output
      BY <1>1, <1>4 DEF Ref
    <2> QED BY <2>1 DEF Disclosed, refs
  <1>5. CASE n \notin {3, 4}
    <2>1. ref.payload = NoPayload
      BY <1>1, <1>2, <1>5
    <2>2. row.withheld
      BY <2>1 DEF RowOf, LogEntry
    <2> QED BY <2>2 DEF refs
  <1> QED BY <1>3, <1>4, <1>5

\* All the references of a capsule, read by both.
LEMMA ExtractAlike ==
    ASSUME NEW v, NEW g, Alike(v, g), NEW cap \in Capsule, cap.id \in NodeIds(v), NEW disc,
           disc.input \in Payload \cup {NoPayload}, disc.output \in Payload \cup {NoPayload}
    PROVE  /\ Alike(_extract_refs(v, cap, disc), extractCap(g, cap, disc))
           /\ NodeIds(v) \subseteq NodeIds(_extract_refs(v, cap, disc))
           /\ \A r \in Range(_extract_refs(v, cap, disc).privilege_log) :
                 r \in Range(v.privilege_log) \/ r.withheld \/ r \in Disclosed(cap, disc)
  <1> DEFINE refs == References(cap, disc)
             N == Len(refs)
             New(r) == r.withheld \/ r \in Disclosed(cap, disc)
  <1>1. refs \in Seq(Reference) /\ N \in Nat
    BY ReferencesRead
  <1>2. cap.id \in Digest
    BY DEF Capsule
  <1>r. ASSUME NEW n \in 1 .. N PROVE New(RowOf(refs[n].type, refs[n].digest, refs[n].payload))
    BY ReferenceRow
  <1>3. PICK f : /\ _extract_refs(v, cap, disc) = f[N] /\ f[0] = v
                 /\ \A n \in 1 .. N : f[n] = AddReference(f[n - 1], cap.id, refs[n])
    <2>1. Len(References(cap, disc)) \in Nat
      BY <1>1
    <2> HIDE DEF refs, N
    <2>2. PICK f : /\ _extract_refs(v, cap, disc) = f[Len(References(cap, disc))]
                   /\ f[0] = v
                   /\ \A n \in 1 .. Len(References(cap, disc)) :
                          f[n] = AddReference(f[n - 1], cap.id, References(cap, disc)[n])
      BY <2>1, ExtractReads
    <2> QED BY <2>2, Zenon DEF refs, N
  <1>4. PICK h : /\ extractCap(g, cap, disc) = h[N] /\ h[0] = g
                 /\ \A n \in 1 .. N : h[n] = addRef(h[n - 1], cap.id, refs[n])
    <2>1. Len(References(cap, disc)) \in Nat
      BY <1>1
    <2> HIDE DEF refs, N
    <2>2. PICK h : /\ extractCap(g, cap, disc) = h[Len(References(cap, disc))]
                   /\ h[0] = g
                   /\ \A n \in 1 .. Len(References(cap, disc)) :
                          h[n] = addRef(h[n - 1], cap.id, References(cap, disc)[n])
      BY <2>1, ExtractCapReads
    <2> QED BY <2>2, Zenon DEF refs, N
  <1> HIDE DEF refs, N, New
  <1>5. \A n \in 1 .. N : refs[n] \in Reference
    BY <1>1 DEF N
  <1> DEFINE At(n) == /\ Alike(f[n], h[n])
                      /\ NodeIds(v) \subseteq NodeIds(f[n])
                      /\ \A r \in Range(f[n].privilege_log) : r \in Range(v.privilege_log) \/ New(r)
             P == {n \in Nat : n <= N => At(n)}
  <1>6. 0 \in P
    BY <1>3, <1>4
  <1>7. ASSUME NEW n \in P PROVE n + 1 \in P
    <2> SUFFICES ASSUME n + 1 <= N PROVE At(n + 1)
      OBVIOUS
    <2>1. n \in Nat /\ n <= N /\ At(n)
      BY <1>1
    <2>2. /\ n + 1 \in 1 .. N /\ f[n + 1] = AddReference(f[n], cap.id, refs[n + 1])
          /\ h[n + 1] = addRef(h[n], cap.id, refs[n + 1])
      BY <1>1, <1>3, <1>4, <2>1
    <2> DEFINE a == f[n]  b == h[n]  ref == refs[n + 1]
    <2>3. Alike(a, b) /\ cap.id \in NodeIds(a) /\ ref \in Reference
      BY <1>5, <2>1, <2>2
    <2> HIDE DEF a, b, ref
    <2>4. /\ Alike(AddReference(a, cap.id, ref), addRef(b, cap.id, ref))
          /\ NodeIds(a) \subseteq NodeIds(AddReference(a, cap.id, ref))
          /\ Range(AddReference(a, cap.id, ref).privilege_log) \subseteq
                 Range(a.privilege_log) \cup {RowOf(ref.type, ref.digest, ref.payload)}
      BY <1>2, <2>3, ReadAlike
    <2>5. /\ Alike(f[n + 1], h[n + 1])
          /\ NodeIds(f[n]) \subseteq NodeIds(f[n + 1])
          /\ Range(f[n + 1].privilege_log) \subseteq
                 Range(f[n].privilege_log) \cup {RowOf(refs[n + 1].type, refs[n + 1].digest, refs[n + 1].payload)}
      BY <2>2, <2>4, Zenon DEF a, b, ref
    <2>6. New(RowOf(refs[n + 1].type, refs[n + 1].digest, refs[n + 1].payload))
      BY <1>r, <2>2
    <2> QED BY <2>1, <2>5, <2>6
  <1>8. P = Nat
    <2>1. P \in SUBSET Nat
      OBVIOUS
    <2> HIDE DEF P
    <2> QED BY <1>6, <1>7, <2>1, NatSteps
  <1>9. At(N)
    BY <1>1, <1>8
  <1> HIDE DEF At
  <1> QED BY <1>3, <1>4, <1>9 DEF At, New

-----------------------------------------------------------------------------
(* Where the two readings start.                                           *)

Made(ns, es, rows) == [nodes |-> ns, edges |-> es, privilege_log |-> rows, error |-> FALSE]

LEMMA MadeFields ==
    ASSUME NEW ns \in Seq(NodeType), NEW es \in Seq(EdgeType), NEW rows \in Seq(Row)
    PROVE  /\ Made(ns, es, rows) \in View
           /\ Made(ns, es, rows).nodes = ns /\ Made(ns, es, rows).edges = es
           /\ Made(ns, es, rows).privilege_log = rows
  BY DEF Made, View

LEMMA EmptyRange == Range(<< >>) = {}
  BY DEF Range

LEMMA OneRange == ASSUME NEW x PROVE Range(<<x>>) = {x}
  BY DEF Range

LEMMA IdsAre == ASSUME NEW u PROVE NodeIds(u) = {x.id : x \in Range(u.nodes)}
  BY DEF NodeIds, Range

LEMMA JoinedRange ==
    ASSUME NEW S, NEW a \in Seq(S), NEW b \in Seq(S)
    PROVE  a \o b \in Seq(S) /\ Range(a \o b) = Range(a) \cup Range(b)
  <1> DEFINE c == a \o b
  <1>1. /\ c \in Seq(S) /\ Len(c) = Len(a) + Len(b) /\ Len(a) \in Nat /\ Len(b) \in Nat
        /\ DOMAIN c = 1 .. Len(c) /\ DOMAIN a = 1 .. Len(a) /\ DOMAIN b = 1 .. Len(b)
        /\ \A k \in 1 .. Len(a) : c[k] = a[k]
    OBVIOUS
  <1>2. \A k \in 1 .. Len(c) : \/ k \in 1 .. Len(a) /\ c[k] = a[k]
                               \/ k - Len(a) \in 1 .. Len(b) /\ c[k] = b[k - Len(a)]
    BY JoinedParts
  <1> HIDE DEF c
  <1>3. Range(c) \subseteq Range(a) \cup Range(b)
    BY <1>1, <1>2 DEF Range
  <1>4. Range(a) \subseteq Range(c)
    BY <1>1 DEF Range
  <1>5. ASSUME NEW m \in 1 .. Len(b) PROVE b[m] \in Range(c)
    <2>1. Len(a) + m \in 1 .. Len(c) /\ Len(a) + m \notin 1 .. Len(a) /\ (Len(a) + m) - Len(a) = m
      BY <1>1
    <2>2. c[Len(a) + m] = b[(Len(a) + m) - Len(a)]
      BY <1>2, <2>1
    <2> QED BY <1>1, <2>1, <2>2 DEF Range
  <1>6. Range(b) \subseteq Range(c)
    BY <1>1, <1>5 DEF Range
  <1> QED BY <1>1, <1>3, <1>4, <1>6 DEF c

LEMMA WhenFacts ==
    ASSUME NEW S, NEW holds \in BOOLEAN, NEW x \in S
    PROVE  When(holds, x) \in Seq(S) /\ Range(When(holds, x)) = {y \in {x} : holds}
  <1>1. CASE holds
    <2>1. When(holds, x) = <<x>>
      BY <1>1 DEF When
    <2>2. <<x>> \in Seq(S) /\ Range(<<x>>) = {x}
      BY OneRange
    <2> QED BY <1>1, <2>1, <2>2
  <1>2. CASE ~holds
    <2>1. When(holds, x) = << >>
      BY <1>2 DEF When
    <2>2. << >> \in Seq(S)
      OBVIOUS
    <2> QED BY <1>2, <2>1, <2>2, EmptyRange
  <1> QED BY <1>1, <1>2

\* The edge between two digests, if both are there.
Edge(from, to, label) == {e \in {<<from, to, label>>} : from # NoDigest /\ to # NoDigest}

LEMMA DrawnEdge ==
    ASSUME NEW E \in Seq(EdgeType), NEW from \in Digest, NEW to \in Digest, NEW label \in Ties
    PROVE  /\ drawEdge(E, from, to, label) \in Seq(EdgeType)
           /\ Range(drawEdge(E, from, to, label)) = Range(E) \cup Edge(from, to, label)
  <1> DEFINE e == <<from, to, label>>
  <1>1. e \in EdgeType
    BY DEF EdgeType
  <1> HIDE DEF e
  <1>2. addEdge(E, e) \in Seq(EdgeType) /\ Range(addEdge(E, e)) = Range(E) \cup {e}
    BY <1>1, EdgeAdded
  <1>3. CASE from = NoDigest \/ to = NoDigest
    <2>1. drawEdge(E, from, to, label) = E
      BY <1>3 DEF drawEdge
    <2> QED BY <1>3, <2>1 DEF Edge
  <1>4. CASE from # NoDigest /\ to # NoDigest
    <2>1. drawEdge(E, from, to, label) = addEdge(E, e)
      BY <1>4 DEF drawEdge, e
    <2> QED BY <1>2, <1>4, <2>1 DEF e, Edge
  <1> QED BY <1>3, <1>4

\* A capsule's node, unless it has no id or is there.
LEMMA CapsuleAdded ==
    ASSUME NEW g \in View, NEW cap \in Capsule
    PROVE  /\ addCapsule(g, cap) \in View
           /\ addCapsule(g, cap).edges = g.edges /\ addCapsule(g, cap).privilege_log = g.privilege_log
           /\ NodeIds(addCapsule(g, cap)) = NodeIds(g) \cup ({cap.id} \ {NoDigest})
  <1> DEFINE w == addCapsule(g, cap)
             node == Node(cap.id, "capsule")
  <1>1. cap.id \in Digest
    BY DEF Capsule
  <1>2. node \in NodeType /\ node.id = cap.id
    BY <1>1 DEF Node, NodeType, Kinds
  <1>3. CASE cap.id \in NodeIds(g) \cup {NoDigest}
    <2>1. w = g
      BY <1>3 DEF addCapsule
    <2> HIDE DEF w
    <2>2. NodeIds(w) = NodeIds(g) \cup ({cap.id} \ {NoDigest})
      BY <1>3, <2>1
    <2> QED BY <2>1, <2>2 DEF w
  <1>4. CASE cap.id \notin NodeIds(g) \cup {NoDigest}
    <2> DEFINE ns == Append(g.nodes, node)
    <2>1. w = [g EXCEPT !.nodes = ns]
      BY <1>4 DEF addCapsule
    <2> HIDE DEF w, node
    <2>2. g.nodes \in Seq(NodeType)
      BY DEF View
    <2>3. ns \in Seq(NodeType) /\ Range(ns) = Range(g.nodes) \cup {node}
      BY <1>2, <2>2, Appended
    <2> HIDE DEF ns
    <2>4. w \in View /\ w.nodes = ns /\ w.edges = g.edges /\ w.privilege_log = g.privilege_log
      BY <2>1, <2>3 DEF View
    <2>5. NodeIds(w) = NodeIds(g) \cup {node.id}
      <3>1. Range(w.nodes) = Range(g.nodes) \cup {node}
        BY <2>3, <2>4
      <3> QED BY <3>1, IdsOfNodes
    <2>6. NodeIds(w) = NodeIds(g) \cup ({cap.id} \ {NoDigest})
      BY <1>2, <1>4, <2>5
    <2> QED BY <2>4, <2>6 DEF w
  <1> QED BY <1>3, <1>4

\* The edges of a binding of a buyer and a seller with its terms.
Bonds(buyer, seller, sealed) ==
    Edge(buyer, sealed, "attests_over") \cup Edge(seller, sealed, "attests_over") \cup Edge(seller, buyer, "chains_to")

TermsRow(item, match) == LogEntry("offer_terms", item.sealed, item.terms, match)
PythonTerms(item) == TermsRow(item, Verdict(_json_digest(item.terms) = item.sealed))

\* The binding before its capsules' references are read, in Python and on the page.
PythonStart(item) ==
    LET buyer  == item.caps[1].id
        seller == item.caps[2].id
        sealed == item.sealed
    IN  Made(When(buyer # NoDigest, Node(buyer, "capsule")) \o When(seller # NoDigest, Node(seller, "capsule"))
                 \o When(sealed # NoDigest, Node(sealed, "offer_terms")),
             When(sealed # NoDigest /\ buyer # NoDigest, <<buyer, sealed, "attests_over">>)
                 \o When(sealed # NoDigest /\ seller # NoDigest, <<seller, sealed, "attests_over">>)
                 \o When(buyer # NoDigest /\ seller # NoDigest, <<seller, buyer, "chains_to">>),
             When(sealed # NoDigest, PythonTerms(item)))

PageStart(item) == addTerms(addCapsule(addCapsule(EmptyView, item.caps[1]), item.caps[2]), item)

\* What a start holds.
IsStart(v, item, row) ==
    /\ v \in View
    /\ NodeIds(v) = {item.caps[1].id, item.caps[2].id, item.sealed} \ {NoDigest}
    /\ Range(v.edges) = Bonds(item.caps[1].id, item.caps[2].id, item.sealed)
    /\ v.privilege_log = When(item.sealed # NoDigest, row)

LEMMA PythonStarts ==
    ASSUME NEW item \in Item, item.caps[1] \in Capsule, item.caps[2] \in Capsule
    PROVE  IsStart(PythonStart(item), item, PythonTerms(item))
  <1> DEFINE b == item.caps[1].id
             s == item.caps[2].id
             t == item.sealed
             row == PythonTerms(item)
  <1>1. b \in Digest /\ s \in Digest /\ t \in Digest
    BY DEF Capsule, Item
  <1>2. row \in Row
    BY <1>1 DEF PythonTerms, TermsRow, LogEntry, Verdict, Row, Kinds
  <1>3. PythonStart(item) =
            Made(When(b # NoDigest, Node(b, "capsule")) \o When(s # NoDigest, Node(s, "capsule"))
                     \o When(t # NoDigest, Node(t, "offer_terms")),
                 When(t # NoDigest /\ b # NoDigest, <<b, t, "attests_over">>)
                     \o When(t # NoDigest /\ s # NoDigest, <<s, t, "attests_over">>)
                     \o When(b # NoDigest /\ s # NoDigest, <<s, b, "chains_to">>),
                 When(t # NoDigest, row))
    BY Zenon DEF PythonStart
  <1> DEFINE nb == Node(b, "capsule")
             ns == Node(s, "capsule")
             nt == Node(t, "offer_terms")
             N1 == When(b # NoDigest, nb)
             N2 == When(s # NoDigest, ns)
             N3 == When(t # NoDigest, nt)
             e1 == <<b, t, "attests_over">>
             e2 == <<s, t, "attests_over">>
             e3 == <<s, b, "chains_to">>
             E1 == When(t # NoDigest /\ b # NoDigest, e1)
             E2 == When(t # NoDigest /\ s # NoDigest, e2)
             E3 == When(b # NoDigest /\ s # NoDigest, e3)
             L == When(t # NoDigest, row)
  <1> HIDE DEF b, s, t, row
  <1>4. nb \in NodeType /\ ns \in NodeType /\ nt \in NodeType /\ nb.id = b /\ ns.id = s /\ nt.id = t
    BY <1>1 DEF Node, NodeType, Kinds
  <1>5. e1 \in EdgeType /\ e2 \in EdgeType /\ e3 \in EdgeType
    BY <1>1 DEF EdgeType, Ties
  <1> HIDE DEF nb, ns, nt
  <1>6. /\ N1 \in Seq(NodeType) /\ Range(N1) = {y \in {nb} : b # NoDigest}
        /\ N2 \in Seq(NodeType) /\ Range(N2) = {y \in {ns} : s # NoDigest}
        /\ N3 \in Seq(NodeType) /\ Range(N3) = {y \in {nt} : t # NoDigest}
    BY <1>4, WhenFacts
  <1>7. L \in Seq(Row)
    BY <1>2, WhenFacts
  <1>8. /\ E1 \in Seq(EdgeType) /\ Range(E1) = Edge(b, t, "attests_over")
        /\ E2 \in Seq(EdgeType) /\ Range(E2) = Edge(s, t, "attests_over")
        /\ E3 \in Seq(EdgeType) /\ Range(E3) = Edge(s, b, "chains_to")
    <2> HIDE DEF e1, e2, e3
    <2>1. E1 \in Seq(EdgeType) /\ Range(E1) = {y \in {e1} : t # NoDigest /\ b # NoDigest}
      BY <1>5, WhenFacts
    <2>2. E2 \in Seq(EdgeType) /\ Range(E2) = {y \in {e2} : t # NoDigest /\ s # NoDigest}
      BY <1>5, WhenFacts
    <2>3. E3 \in Seq(EdgeType) /\ Range(E3) = {y \in {e3} : b # NoDigest /\ s # NoDigest}
      BY <1>5, WhenFacts
    <2> QED BY <2>1, <2>2, <2>3, Zenon DEF Edge, e1, e2, e3
  <1> HIDE DEF N1, N2, N3, E1, E2, E3, L
  <1>9. N1 \o N2 \in Seq(NodeType) /\ Range(N1 \o N2) = Range(N1) \cup Range(N2)
    BY <1>6, JoinedRange
  <1> DEFINE NN == N1 \o N2 \o N3
             EE == E1 \o E2 \o E3
  <1>10. NN \in Seq(NodeType) /\ Range(NN) = Range(N1) \cup Range(N2) \cup Range(N3)
    <2> DEFINE A == N1 \o N2
    <2> HIDE DEF A
    <2>1. A \in Seq(NodeType) /\ Range(A) = Range(N1) \cup Range(N2)
      BY <1>9 DEF A
    <2>2. A \o N3 \in Seq(NodeType) /\ Range(A \o N3) = Range(A) \cup Range(N3)
      BY <1>6, <2>1, JoinedRange
    <2> QED BY <2>1, <2>2 DEF A
  <1>11. E1 \o E2 \in Seq(EdgeType) /\ Range(E1 \o E2) = Range(E1) \cup Range(E2)
    BY <1>8, JoinedRange
  <1>12. EE \in Seq(EdgeType) /\ Range(EE) = Range(E1) \cup Range(E2) \cup Range(E3)
    <2> DEFINE A == E1 \o E2
    <2> HIDE DEF A
    <2>1. A \in Seq(EdgeType) /\ Range(A) = Range(E1) \cup Range(E2)
      BY <1>11 DEF A
    <2>2. A \o E3 \in Seq(EdgeType) /\ Range(A \o E3) = Range(A) \cup Range(E3)
      BY <1>8, <2>1, JoinedRange
    <2> QED BY <2>1, <2>2 DEF A
  <1> DEFINE v == Made(NN, EE, L)
  <1>13. PythonStart(item) = v
    BY <1>3, Zenon DEF N1, N2, N3, E1, E2, E3, L, nb, ns, nt, e1, e2, e3
  <1> HIDE DEF NN, EE
  <1>14. v \in View /\ v.nodes = NN /\ v.edges = EE /\ v.privilege_log = L
    BY <1>7, <1>10, <1>12, MadeFields
  <1> HIDE DEF v
  <1>15. NodeIds(v) = {b, s, t} \ {NoDigest}
    <2>1. NodeIds(v) = {x.id : x \in Range(NN)}
      BY <1>14, IdsAre
    <2>2. Range(NN) = {y \in {nb} : b # NoDigest} \cup {y \in {ns} : s # NoDigest} \cup {y \in {nt} : t # NoDigest}
      BY <1>6, <1>10
    <2> QED BY <1>4, <2>1, <2>2
  <1>16. Range(v.edges) = Bonds(b, s, t)
    BY <1>8, <1>12, <1>14 DEF Bonds
  <1> QED BY <1>13, <1>14, <1>15, <1>16 DEF IsStart, b, s, t, L, row

LEMMA PageStarts ==
    ASSUME NEW item \in Item, item.caps[1] \in Capsule, item.caps[2] \in Capsule
    PROVE  IsStart(PageStart(item), item, TermsRow(item, "null"))
  <1> DEFINE c1 == item.caps[1]
             c2 == item.caps[2]
             b == c1.id
             s == c2.id
             t == item.sealed
             row == TermsRow(item, "null")
             g1 == addCapsule(EmptyView, c1)
             g2 == addCapsule(g1, c2)
             g == addTerms(g2, item)
  <1>1. b \in Digest /\ s \in Digest /\ t \in Digest /\ c1 \in Capsule /\ c2 \in Capsule
    BY DEF Capsule, Item
  <1>2. row \in Row
    BY <1>1 DEF TermsRow, LogEntry, Row, Kinds
  <1>3. /\ EmptyView \in View /\ NodeIds(EmptyView) = {} /\ EmptyView.edges = << >>
        /\ EmptyView.privilege_log = << >>
    <2>1. << >> \in Seq(NodeType) /\ << >> \in Seq(EdgeType) /\ << >> \in Seq(Row)
      OBVIOUS
    <2>2. /\ EmptyView \in View /\ EmptyView.nodes = << >> /\ EmptyView.edges = << >>
          /\ EmptyView.privilege_log = << >>
      BY <2>1 DEF EmptyView, View
    <2> QED BY <2>2, EmptyRange, IdsAre
  <1> HIDE DEF c1, c2
  <1>4. g1 \in View /\ g1.edges = << >> /\ g1.privilege_log = << >> /\ NodeIds(g1) = {b} \ {NoDigest}
    BY <1>1, <1>3, CapsuleAdded
  <1> HIDE DEF g1
  <1>5. g2 \in View /\ g2.edges = << >> /\ g2.privilege_log = << >> /\ NodeIds(g2) = {b, s} \ {NoDigest}
    <2>1. /\ g2 \in View /\ g2.edges = g1.edges /\ g2.privilege_log = g1.privilege_log
          /\ NodeIds(g2) = NodeIds(g1) \cup ({s} \ {NoDigest})
      BY <1>1, <1>4, CapsuleAdded
    <2> HIDE DEF g2, b, s
    <2> QED BY <1>4, <2>1
  <1> HIDE DEF g2, b, s, t, row
  <1> DEFINE node == Node(t, "offer_terms")
             ns == IF t \in NodeIds(g2) \cup {NoDigest} THEN g2.nodes ELSE Append(g2.nodes, node)
             D1 == drawEdge(g2.edges, b, t, "attests_over")
             D2 == drawEdge(D1, s, t, "attests_over")
             D3 == drawEdge(D2, s, b, "chains_to")
             L == IF t = NoDigest THEN g2.privilege_log ELSE Append(g2.privilege_log, row)
  <1>6. g = [g2 EXCEPT !.nodes = ns, !.edges = D3, !.privilege_log = L]
    BY DEF addTerms, TermsRow, b, s, t, row, c1, c2
  <1>7. D1 \in Seq(EdgeType) /\ Range(D1) = Edge(b, t, "attests_over")
    <2>1. << >> \in Seq(EdgeType) /\ "attests_over" \in Ties
      BY DEF Ties
    <2>2. D1 = drawEdge(<< >>, b, t, "attests_over")
      BY <1>5
    <2> DEFINE em == << >>  la == "attests_over"
    <2> HIDE DEF em, la
    <2>3. drawEdge(em, b, t, la) \in Seq(EdgeType)
          /\ Range(drawEdge(em, b, t, la)) = Range(em) \cup Edge(b, t, la)
      <3>1. em \in Seq(EdgeType) /\ la \in Ties
        BY <2>1 DEF em, la
      <3> QED BY <1>1, <3>1, DrawnEdge
    <2>4. Range(em) = {}
      BY EmptyRange DEF em
    <2> QED BY <2>2, <2>3, <2>4 DEF em, la
  <1> HIDE DEF D1
  <1>8. D2 \in Seq(EdgeType) /\ Range(D2) = Range(D1) \cup Edge(s, t, "attests_over")
    <2>1. "attests_over" \in Ties
      BY DEF Ties
    <2> DEFINE la == "attests_over"
    <2> HIDE DEF la
    <2>2. drawEdge(D1, s, t, la) \in Seq(EdgeType)
          /\ Range(drawEdge(D1, s, t, la)) = Range(D1) \cup Edge(s, t, la)
      <3>1. la \in Ties
        BY <2>1 DEF la
      <3> QED BY <1>1, <1>7, <3>1, DrawnEdge
    <2> QED BY <2>2 DEF la
  <1> HIDE DEF D2
  <1>9. D3 \in Seq(EdgeType) /\ Range(D3) = Range(D2) \cup Edge(s, b, "chains_to")
    <2>1. "chains_to" \in Ties
      BY DEF Ties
    <2> DEFINE la == "chains_to"
    <2> HIDE DEF la
    <2>2. drawEdge(D2, s, b, la) \in Seq(EdgeType)
          /\ Range(drawEdge(D2, s, b, la)) = Range(D2) \cup Edge(s, b, la)
      <3>1. la \in Ties
        BY <2>1 DEF la
      <3>2. D2 \in Seq(EdgeType) /\ s \in Digest /\ b \in Digest
        BY <1>1, <1>8
      <3> QED BY <3>1, <3>2, DrawnEdge
    <2> QED BY <2>2 DEF la
  <1>10. node \in NodeType /\ node.id = t
    BY <1>1 DEF Node, NodeType, Kinds
  <1> HIDE DEF node, D3
  <1>11. g2.nodes \in Seq(NodeType)
    BY <1>5 DEF View
  <1>12. Append(g2.nodes, node) \in Seq(NodeType) /\ Range(Append(g2.nodes, node)) = Range(g2.nodes) \cup {node}
    BY <1>10, <1>11, Appended
  <1>13. L = When(t # NoDigest, row)
    BY <1>5 DEF When
  <1>14. L \in Seq(Row)
    BY <1>2, <1>13, WhenFacts
  <1>15. /\ ns \in Seq(NodeType)
         /\ Range(ns) = Range(g2.nodes) \cup IF t \in NodeIds(g2) \cup {NoDigest} THEN {} ELSE {node}
    BY <1>11, <1>12
  <1> HIDE DEF ns, L, g
  <1>16. g \in View /\ g.nodes = ns /\ g.edges = D3 /\ g.privilege_log = L
    BY <1>5, <1>6, <1>9, <1>14, <1>15 DEF View
  <1>17. NodeIds(g) = {b, s, t} \ {NoDigest}
    <2>1. NodeIds(g) = {x.id : x \in Range(ns)} /\ NodeIds(g2) = {x.id : x \in Range(g2.nodes)}
      BY <1>16, IdsAre
    <2>2. CASE t \in NodeIds(g2) \cup {NoDigest}
      <3>1. NodeIds(g) = NodeIds(g2)
        BY <1>15, <2>1, <2>2
      <3> QED BY <1>5, <2>2, <3>1
    <2>3. CASE t \notin NodeIds(g2) \cup {NoDigest}
      <3>1. NodeIds(g) = NodeIds(g2) \cup {t}
        BY <1>10, <1>15, <2>1, <2>3
      <3> QED BY <1>5, <2>3, <3>1
    <2> QED BY <2>2, <2>3
  <1>18. Range(g.edges) = Bonds(b, s, t)
    BY <1>7, <1>8, <1>9, <1>16 DEF Bonds
  <1> QED BY <1>13, <1>16, <1>17, <1>18 DEF IsStart, PageStart, g, g1, g2, b, s, t, c1, c2, row

-----------------------------------------------------------------------------
(* An item, read by both.                                                  *)

\* The rows that Python's log of an item may have.
Expected(item, r) ==
    \/ r.withheld
    \/ item.shape = "binding" /\ (r = PythonTerms(item) \/ r.type \in {"agent_input", "agent_output"})
    \/ item.shape = "envelope" /\ r \in Disclosed(item.caps[1], item.disc[1])

ReadTheSame(item) ==
    /\ Alike(parse_capsule(item), parseAac(item))
    /\ \A r \in Range(parse_capsule(item).privilege_log) : Expected(item, r)

\* Two views that hold nothing but the same node are alike.
LEMMA StartAlike ==
    ASSUME NEW v \in View, NEW g \in View, NodeIds(v) = NodeIds(g),
           v.edges = << >>, g.edges = << >>, v.privilege_log = << >>, g.privilege_log = << >>
    PROVE  Alike(v, g)
  <1>1. Range(v.edges) = {} /\ Range(g.edges) = {}
    BY EmptyRange
  <1>2. RowsAlike(v.privilege_log, g.privilege_log)
    BY DEF RowsAlike
  <1> QED BY <1>1, <1>2 DEF Alike, Joins

\* Views whose error is of no interest.
LEMMA NothingRead ==
    /\ Alike([EmptyView EXCEPT !.error = TRUE], EmptyView)
    /\ Range([EmptyView EXCEPT !.error = TRUE].privilege_log) = {}
  <1> DEFINE v == [EmptyView EXCEPT !.error = TRUE]
  <1>1. << >> \in Seq(NodeType) /\ << >> \in Seq(EdgeType) /\ << >> \in Seq(Row)
    OBVIOUS
  <1>2. v \in View /\ v.nodes = << >> /\ v.edges = << >> /\ v.privilege_log = << >>
    BY <1>1 DEF EmptyView, View
  <1>3. /\ EmptyView \in View /\ EmptyView.nodes = << >> /\ EmptyView.edges = << >>
        /\ EmptyView.privilege_log = << >>
    BY <1>1 DEF EmptyView, View
  <1> HIDE DEF v
  <1>4. NodeIds(v) = NodeIds(EmptyView)
    BY <1>2, <1>3 DEF NodeIds
  <1>5. Alike(v, EmptyView)
    BY <1>2, <1>3, <1>4, StartAlike
  <1>6. Range(v.privilege_log) = {}
    BY <1>2, EmptyRange
  <1> QED BY <1>5, <1>6 DEF v

\* One capsule, bare or in an envelope.
LEMMA SingleAlike ==
    ASSUME NEW cap \in Capsule, cap.id # NoDigest, NEW disc,
           disc.input \in Payload \cup {NoPayload}, disc.output \in Payload \cup {NoPayload}
    PROVE  /\ Alike(_parse_single(cap, disc), extractCap(addCapsule(EmptyView, cap), cap, disc))
           /\ \A r \in Range(_parse_single(cap, disc).privilege_log) : r.withheld \/ r \in Disclosed(cap, disc)
  <1> DEFINE node == Node(cap.id, "capsule")
             v == [EmptyView EXCEPT !.nodes = <<node>>]
             g == addCapsule(EmptyView, cap)
  <1>1. _parse_single(cap, disc) = _extract_refs(v, cap, disc)
    BY Zenon DEF _parse_single
  <1>2. cap.id \in Digest
    BY DEF Capsule
  <1>3. node \in NodeType /\ node.id = cap.id
    BY <1>2 DEF Node, NodeType, Kinds
  <1>4. << >> \in Seq(NodeType) /\ << >> \in Seq(EdgeType) /\ << >> \in Seq(Row)
    OBVIOUS
  <1>5. /\ EmptyView \in View /\ EmptyView.nodes = << >> /\ EmptyView.edges = << >>
        /\ EmptyView.privilege_log = << >>
    BY <1>4 DEF EmptyView, View
  <1> HIDE DEF node
  <1>6. v \in View /\ v.nodes = <<node>> /\ v.edges = << >> /\ v.privilege_log = << >>
    <2> DEFINE ns == <<node>>
    <2>1. ns \in Seq(NodeType)
      BY <1>3
    <2> HIDE DEF ns
    <2>2. v = [EmptyView EXCEPT !.nodes = ns]
      BY DEF ns
    <2>3. v \in View /\ v.nodes = ns /\ v.edges = EmptyView.edges /\ v.privilege_log = EmptyView.privilege_log
      <3> HIDE DEF v
      <3> QED BY <1>5, <2>1, <2>2 DEF View
    <2> QED BY <1>5, <2>3 DEF ns
  <1>7. NodeIds(v) = {cap.id}
    <2> HIDE DEF v
    <2>1. NodeIds(v) = {x.id : x \in Range(v.nodes)} /\ Range(<<node>>) = {node}
      BY IdsAre, OneRange
    <2> QED BY <1>3, <1>6, <2>1
  <1>8. g \in View /\ g.edges = << >> /\ g.privilege_log = << >> /\ NodeIds(g) = {cap.id}
    <2>1. NodeIds(EmptyView) = {}
      BY <1>5, EmptyRange, IdsAre
    <2>2. /\ g \in View /\ g.edges = EmptyView.edges /\ g.privilege_log = EmptyView.privilege_log
          /\ NodeIds(g) = NodeIds(EmptyView) \cup ({cap.id} \ {NoDigest})
      BY <1>5, CapsuleAdded
    <2> HIDE DEF g
    <2> QED BY <1>5, <2>1, <2>2
  <1> HIDE DEF v, g
  <1>9. Alike(v, g) /\ cap.id \in NodeIds(v) /\ Range(v.privilege_log) = {}
    BY <1>6, <1>7, <1>8, StartAlike, EmptyRange
  <1>10. /\ Alike(_extract_refs(v, cap, disc), extractCap(g, cap, disc))
         /\ \A r \in Range(_extract_refs(v, cap, disc).privilege_log) :
               r \in Range(v.privilege_log) \/ r.withheld \/ r \in Disclosed(cap, disc)
    BY <1>9, ExtractAlike
  <1> QED BY <1>1, <1>9, <1>10 DEF g

LEMMA ItemParts ==
    ASSUME NEW item, IsItem(item), NEW k \in 1 .. Len(item.caps)
    PROVE  /\ item.caps[k] \in Capsule
           /\ item.disc[k].input \in Payload \cup {NoPayload} /\ item.disc[k].output \in Payload \cup {NoPayload}
  <1>1. item \in Item /\ Len(item.disc) = Len(item.caps)
    BY DEF IsItem
  <1>2. item.caps \in Seq(Capsule) /\ item.disc \in Seq([input : Payload, output : Payload])
    BY <1>1 DEF Item
  <1> DEFINE cs == item.caps  ds == item.disc
  <1>3. cs \in Seq(Capsule) /\ ds \in Seq([input : Payload, output : Payload]) /\ k \in 1 .. Len(cs) /\ k \in 1 .. Len(ds)
    BY <1>1, <1>2
  <1> HIDE DEF cs, ds
  <1>4. cs[k] \in Capsule
    BY <1>3
  <1>5. ds[k] \in [input : Payload, output : Payload]
    <2> DEFINE D == [input : Payload, output : Payload]
    <2>1. ds \in Seq(D) /\ k \in 1 .. Len(ds)
      BY <1>3
    <2> HIDE DEF D
    <2>2. ds[k] \in D
      BY <2>1
    <2> QED BY <2>2 DEF D
  <1>6. ds[k].input \in Payload /\ ds[k].output \in Payload
    BY <1>5
  <1> QED BY <1>4, <1>6 DEF cs, ds

\* The terms and the two capsules of a binding, as nodes and edges.
LEMMA BindingStarts ==
    ASSUME NEW item \in Item, item.caps[1] \in Capsule, item.caps[2] \in Capsule
    PROVE  /\ Alike(PythonStart(item), PageStart(item))
           /\ NodeIds(PythonStart(item)) = {item.caps[1].id, item.caps[2].id, item.sealed} \ {NoDigest}
           /\ \A r \in Range(PythonStart(item).privilege_log) : r = PythonTerms(item)
  <1> DEFINE v == PythonStart(item)
             g == PageStart(item)
             b == item.caps[1].id
             s == item.caps[2].id
             t == item.sealed
             row == PythonTerms(item)
             entry == TermsRow(item, "null")
             some == t # NoDigest
  <1>1. /\ v \in View /\ NodeIds(v) = {b, s, t} \ {NoDigest} /\ Range(v.edges) = Bonds(b, s, t)
        /\ v.privilege_log = When(some, row)
    BY PythonStarts DEF IsStart
  <1>2. /\ g \in View /\ NodeIds(g) = {b, s, t} \ {NoDigest} /\ Range(g.edges) = Bonds(b, s, t)
        /\ g.privilege_log = When(some, entry)
    BY PageStarts DEF IsStart
  <1>3. Paired(row, entry)
    BY DEF PythonTerms, TermsRow, LogEntry, Verdict, Paired
  <1>4. some \in BOOLEAN
    OBVIOUS
  <1> HIDE DEF v, g, b, s, t, row, entry, some
  <1>5. RowsAlike(When(some, row), When(some, entry))
    <2>1. CASE some
      <3>1. When(some, row) = <<row>> /\ When(some, entry) = <<entry>>
        BY <2>1 DEF When
      <3> QED BY <1>3, <3>1 DEF RowsAlike
    <2>2. CASE ~some
      <3>1. When(some, row) = << >> /\ When(some, entry) = << >>
        BY <2>2 DEF When
      <3> QED BY <3>1 DEF RowsAlike
    <2> QED BY <1>4, <2>1, <2>2
  <1>6. \A e \in Bonds(b, s, t) : e[1] \in {b, s, t} \ {NoDigest} /\ e[2] \in {b, s, t} \ {NoDigest}
    BY DEF Bonds, Edge
  <1>7. Joins(g)
    BY <1>2, <1>6 DEF Joins
  <1>8. Alike(v, g)
    BY <1>1, <1>2, <1>5, <1>7 DEF Alike
  <1>9. \A r \in Range(v.privilege_log) : r = row
    <2>1. Range(When(some, row)) \subseteq {row}
      <3> DEFINE S == {row}
      <3>1. row \in S
        OBVIOUS
      <3> HIDE DEF S
      <3>2. Range(When(some, row)) = {y \in {row} : some}
        BY <1>4, <3>1, WhenFacts
      <3> QED BY <3>2
    <2> QED BY <1>1, <2>1
  <1> QED BY <1>1, <1>8, <1>9 DEF v, g, b, s, t, row

LEMMA BindingAlike ==
    ASSUME NEW item, IsItem(item), item.shape = "binding"
    PROVE  ReadTheSame(item)
  <1> DEFINE PyRead(v, k) == IF item.caps[k].id = NoDigest THEN v ELSE _extract_refs(v, item.caps[k], item.disc[k])
             JsRead(v, k) == IF item.caps[k].id = NoDigest THEN v ELSE extractCap(v, item.caps[k], item.disc[k])
             v0 == PythonStart(item)
             g0 == PageStart(item)
             v1 == PyRead(v0, 1)
             g1 == JsRead(g0, 1)
             v2 == PyRead(v1, 2)
             g2 == JsRead(g1, 2)
             Fine(r) == r.withheld \/ r = PythonTerms(item) \/ r.type \in {"agent_input", "agent_output"}
  <1>1. item \in Item /\ Len(item.caps) = 2
    BY DEF IsItem
  <1>2. ASSUME NEW k \in {1, 2}
        PROVE  /\ item.caps[k] \in Capsule
               /\ item.disc[k].input \in Payload \cup {NoPayload} /\ item.disc[k].output \in Payload \cup {NoPayload}
    BY <1>1, ItemParts
  <1>3. parse_capsule(item) = v2
    <2>1. parse_capsule(item) = _parse_binding(item)
      BY DEF parse_capsule
    <2>2. _parse_binding(item) = v2
      BY Zenon DEF _parse_binding, PythonStart, Made, PythonTerms, TermsRow
    <2> QED BY <2>1, <2>2
  <1>4. parseAac(item) = g2
    BY Zenon DEF parseAac, PageStart
  <1>5. /\ Alike(v0, g0) /\ {item.caps[1].id, item.caps[2].id} \ {NoDigest} \subseteq NodeIds(v0)
        /\ \A r \in Range(v0.privilege_log) : Fine(r)
    BY <1>1, <1>2, BindingStarts
  <1>6. ASSUME NEW k \in {1, 2}, NEW v, NEW g, Alike(v, g),
               {item.caps[1].id, item.caps[2].id} \ {NoDigest} \subseteq NodeIds(v),
               \A r \in Range(v.privilege_log) : Fine(r)
        PROVE  /\ Alike(PyRead(v, k), JsRead(g, k))
               /\ {item.caps[1].id, item.caps[2].id} \ {NoDigest} \subseteq NodeIds(PyRead(v, k))
               /\ \A r \in Range(PyRead(v, k).privilege_log) : Fine(r)
    <2>1. CASE item.caps[k].id = NoDigest
      BY <1>6, <2>1
    <2>2. CASE item.caps[k].id # NoDigest
      <3> DEFINE cap == item.caps[k]  disc == item.disc[k]
      <3>1. cap \in Capsule /\ cap.id \in NodeIds(v)
        BY <1>2, <1>6, <2>2
      <3>2. disc.input \in Payload \cup {NoPayload} /\ disc.output \in Payload \cup {NoPayload}
        BY <1>2
      <3> HIDE DEF cap, disc
      <3>3. /\ Alike(_extract_refs(v, cap, disc), extractCap(g, cap, disc))
            /\ NodeIds(v) \subseteq NodeIds(_extract_refs(v, cap, disc))
            /\ \A r \in Range(_extract_refs(v, cap, disc).privilege_log) :
                  r \in Range(v.privilege_log) \/ r.withheld \/ r \in Disclosed(cap, disc)
        BY <1>6, <3>1, <3>2, ExtractAlike
      <3>4. \A r \in Disclosed(cap, disc) : Fine(r)
        BY DEF Disclosed, RowOf, LogEntry
      <3>5. \A r \in Range(_extract_refs(v, cap, disc).privilege_log) : Fine(r)
        <4> HIDE DEF Fine
        <4>1. \A r : r.withheld => Fine(r)
          BY DEF Fine
        <4> QED BY <1>6, <3>3, <3>4, <4>1
      <3>6. PyRead(v, k) = _extract_refs(v, cap, disc) /\ JsRead(g, k) = extractCap(g, cap, disc)
        BY <2>2 DEF cap, disc
      <3> HIDE DEF Fine, PyRead, JsRead
      <3> QED BY <1>6, <3>3, <3>5, <3>6
    <2> QED BY <2>1, <2>2
  <1> HIDE DEF PyRead, JsRead, v0, g0, Fine
  <1>7. /\ Alike(v1, g1) /\ {item.caps[1].id, item.caps[2].id} \ {NoDigest} \subseteq NodeIds(v1)
        /\ \A r \in Range(v1.privilege_log) : Fine(r)
    BY <1>5, <1>6
  <1> HIDE DEF v1, g1
  <1>8. /\ Alike(v2, g2) /\ \A r \in Range(v2.privilege_log) : Fine(r)
    BY <1>6, <1>7
  <1> HIDE DEF v2, g2
  <1>9. \A r \in Range(parse_capsule(item).privilege_log) : Expected(item, r)
    BY <1>3, <1>8 DEF Expected, Fine
  <1> QED BY <1>3, <1>4, <1>8, <1>9 DEF ReadTheSame

\* Whatever its shape, an item is read alike.
LEMMA ItemAlike ==
    ASSUME NEW item, IsItem(item)
    PROVE  ReadTheSame(item)
  <1>1. item \in Item
    BY DEF IsItem
  <1>2. item.shape \in {"bare", "envelope", "binding", "mandate", "other"}
    BY <1>1 DEF Item
  <1>3. CASE item.shape = "binding"
    BY <1>3, BindingAlike
  <1>4. CASE item.shape \in {"mandate", "other"}
    <2>1. parse_capsule(item) = [EmptyView EXCEPT !.error = TRUE]
      BY <1>4 DEF parse_capsule
    <2>2. parseAac(item) = EmptyView
      BY <1>4 DEF parseAac, _unwrap, NoCapsule
    <2> QED BY <2>1, <2>2, NothingRead DEF ReadTheSame
  <1>5. CASE item.shape \in {"bare", "envelope"}
    <2> DEFINE cap == item.caps[1]
               disc == IF item.shape = "envelope" THEN item.disc[1] ELSE NoDisclosures
    <2>1. Len(item.caps) = 1
      BY <1>5 DEF IsItem
    <2>2. /\ cap \in Capsule
          /\ item.disc[1].input \in Payload \cup {NoPayload} /\ item.disc[1].output \in Payload \cup {NoPayload}
      BY <2>1, ItemParts
    <2>3. disc.input \in Payload \cup {NoPayload} /\ disc.output \in Payload \cup {NoPayload}
      BY <2>2 DEF NoDisclosures
    <2>4. parse_capsule(item) = _parse_single(cap, disc)
      BY <1>5 DEF parse_capsule
    <2>5. parseAac(item) = IF cap.id = NoDigest THEN EmptyView ELSE extractCap(addCapsule(EmptyView, cap), cap, disc)
      BY <1>5 DEF parseAac, _unwrap
    <2>6. item.shape = "bare" => \A r \in Disclosed(cap, disc) : r.withheld
      <3> SUFFICES ASSUME item.shape = "bare" PROVE \A r \in Disclosed(cap, disc) : r.withheld
        OBVIOUS
      <3>1. disc.input = NoPayload /\ disc.output = NoPayload
        BY DEF NoDisclosures
      <3> HIDE DEF disc
      <3>2. \A t, d : RowOf(t, d, NoPayload).withheld
        BY DEF RowOf, LogEntry
      <3> QED BY <3>1, <3>2 DEF Disclosed
    <2>7. item.shape = "envelope" => disc = item.disc[1]
      OBVIOUS
    <2> HIDE DEF disc, cap
    <2>8. CASE cap.id = NoDigest
      <3>1. parse_capsule(item) = [EmptyView EXCEPT !.error = TRUE] /\ parseAac(item) = EmptyView
        BY <2>4, <2>5, <2>8 DEF _parse_single
      <3> QED BY <3>1, NothingRead DEF ReadTheSame
    <2>9. CASE cap.id # NoDigest
      <3>1. /\ Alike(_parse_single(cap, disc), extractCap(addCapsule(EmptyView, cap), cap, disc))
            /\ \A r \in Range(_parse_single(cap, disc).privilege_log) : r.withheld \/ r \in Disclosed(cap, disc)
        BY <2>2, <2>3, <2>9, SingleAlike
      <3>2. \A r \in Range(parse_capsule(item).privilege_log) : Expected(item, r)
        BY <1>5, <2>4, <2>6, <2>7, <3>1 DEF Expected, cap
      <3>3. Alike(parse_capsule(item), parseAac(item))
        BY <2>4, <2>5, <2>9, <3>1
      <3> QED BY <3>2, <3>3 DEF ReadTheSame
    <2> QED BY <2>8, <2>9
  <1> QED BY <1>2, <1>3, <1>4, <1>5

-----------------------------------------------------------------------------
(* What the page makes of the rows.                                        *)

Settled(item, e) ==
    IF e.type \in {"agent_input", "agent_output"} /\ ~e.withheld THEN Verdict(disclosureMatches(item, e.type))
    ELSE IF termsRow(e) THEN termsVerdict(item) ELSE e.match

\* Drawing decides the matches and leaves the rest as it was parsed.
LEMMA DrawnFacts ==
    ASSUME NEW item, parseAac(item) \in View
    PROVE  /\ Drawn(item).nodes = parseAac(item).nodes /\ Drawn(item).edges = parseAac(item).edges
           /\ DOMAIN Drawn(item).privilege_log = 1 .. Len(parseAac(item).privilege_log)
           /\ Len(Drawn(item).privilege_log) = Len(parseAac(item).privilege_log)
           /\ \A k \in 1 .. Len(parseAac(item).privilege_log) :
                 Drawn(item).privilege_log[k] =
                     [parseAac(item).privilege_log[k] EXCEPT !.match = Settled(item, parseAac(item).privilege_log[k])]
  <1> DEFINE g == parseAac(item)
             s == g.privilege_log
             Check(e) == IF e.type \in {"agent_input", "agent_output"} /\ ~e.withheld
                         THEN [e EXCEPT !.match = Verdict(disclosureMatches(item, e.type))] ELSE e
             Hash(e) == IF termsRow(e) THEN [e EXCEPT !.match = termsVerdict(item)] ELSE e
             s1 == [k \in DOMAIN s |-> Check(s[k])]
             h == [g EXCEPT !.privilege_log = s1]
             s2 == [k \in DOMAIN h.privilege_log |-> Hash(h.privilege_log[k])]
  <1>1. renderAac(item) = h
    BY Zenon DEF renderAac
  <1>2. Drawn(item) = [h EXCEPT !.privilege_log = s2]
    BY <1>1, Zenon DEF Drawn
  <1>3. g \in View /\ s \in Seq(Row) /\ DOMAIN s = 1 .. Len(s) /\ Len(s) \in Nat
    BY DEF View
  <1> HIDE DEF g, s, Check, Hash
  <1>4. DOMAIN s1 = 1 .. Len(s) /\ \A k \in 1 .. Len(s) : s1[k] = Check(s[k])
    BY <1>3
  <1> HIDE DEF s1
  <1>5. h.privilege_log = s1 /\ h.nodes = g.nodes /\ h.edges = g.edges
        /\ DOMAIN h = {"nodes", "edges", "privilege_log", "error"}
    BY <1>3 DEF View
  <1> HIDE DEF h
  <1>6. DOMAIN s2 = 1 .. Len(s) /\ \A k \in 1 .. Len(s) : s2[k] = Hash(Check(s[k]))
    BY <1>4, <1>5
  <1> DEFINE d == [h EXCEPT !.privilege_log = s2]
  <1> HIDE DEF s2
  <1>7. d.privilege_log = s2 /\ d.nodes = g.nodes /\ d.edges = g.edges
    BY <1>5
  <1> HIDE DEF d
  <1>8. Len(s2) = Len(s)
    BY <1>3, <1>6
  <1>9. ASSUME NEW e \in Row PROVE Hash(Check(e)) = [e EXCEPT !.match = Settled(item, e)]
    <2>1. CASE e.type \in {"agent_input", "agent_output"} /\ ~e.withheld
      <3> DEFINE m == Verdict(disclosureMatches(item, e.type))
                 c == [e EXCEPT !.match = m]
      <3>1. Check(e) = c /\ Settled(item, e) = m
        BY <2>1 DEF Check, Settled
      <3> HIDE DEF m
      <3>2. c.type = e.type
        BY DEF Row
      <3>3. ~termsRow(c)
        <4> HIDE DEF c
        <4> QED BY <2>1, <3>2 DEF termsRow
      <3>4. Hash(c) = c
        BY <3>3 DEF Hash
      <3> QED BY <3>1, <3>4
    <2>2. CASE ~(e.type \in {"agent_input", "agent_output"} /\ ~e.withheld) /\ termsRow(e)
      BY <2>2 DEF Check, Hash, Settled
    <2>3. CASE ~(e.type \in {"agent_input", "agent_output"} /\ ~e.withheld) /\ ~termsRow(e)
      <3>1. Hash(Check(e)) = e /\ Settled(item, e) = e.match
        BY <2>3 DEF Check, Hash, Settled
      <3>2. e = [e EXCEPT !.match = e.match]
        BY DEF Row
      <3> QED BY <3>1, <3>2
    <2> QED BY <2>1, <2>2, <2>3
  <1>10. \A k \in 1 .. Len(s) : s2[k] = [s[k] EXCEPT !.match = Settled(item, s[k])]
    <2>1. \A k \in 1 .. Len(s) : s[k] \in Row
      BY <1>3
    <2> QED BY <1>6, <1>9, <2>1
  <1> QED BY <1>2, <1>6, <1>7, <1>8, <1>10 DEF d, s, g

\* Both sides hash the payloads of the item in the same way.
Plain(item) ==
    \A j \in DOMAIN item.disc : {item.disc[j].input.form, item.disc[j].output.form, item.terms.form}
                                    \subseteq {"ascii", "none"}

\* A row of the page's, settled, beside the one of Python's.
LEMMA SettledAlike ==
    ASSUME NEW item, IsItem(item), NEW a \in Row, NEW b \in Row, Paired(a, b), Expected(item, a),
           Plain(item), item.shape # "binding" \/ b.withheld \/ b.type = "offer_terms"
    PROVE  Settled(item, b) = a.match
  <1>1. a.type = b.type /\ a.withheld = b.withheld /\ b.match = "null" /\ (a.withheld => a.match = "null")
    BY DEF Paired
  <1>2. CASE b.withheld
    BY <1>1, <1>2 DEF Settled, termsRow
  <1>3. CASE ~b.withheld /\ item.shape = "binding"
    <2>1. a = PythonTerms(item) /\ a.type = "offer_terms" /\ ~a.withheld
      BY <1>1, <1>3 DEF Expected
    <2>2. Len(item.disc) = 2
      BY <1>3 DEF IsItem
    <2>3. item.terms.form \in {"ascii", "none"}
      <3>1. item.disc \in Seq([input : Payload, output : Payload])
        BY DEF IsItem, Item
      <3> DEFINE ds == item.disc
      <3>2. 1 \in DOMAIN ds
        <4>1. ds \in Seq([input : Payload, output : Payload]) /\ Len(ds) = 2
          BY <2>2, <3>1
        <4> HIDE DEF ds
        <4> QED BY <4>1
      <3> QED BY <3>2 DEF Plain
    <2>4. a.match = Verdict(_json_digest(item.terms) = item.sealed)
      BY <2>1 DEF PythonTerms, TermsRow, LogEntry
    <2>5. _json_digest(item.terms) = jcs(item.terms)
      BY <2>3 DEF _json_digest
    <2>6. Settled(item, b) = termsVerdict(item)
      BY <1>1, <1>3, <2>1 DEF Settled, termsRow
    <2> QED BY <2>4, <2>5, <2>6 DEF termsVerdict
  <1>4. CASE ~b.withheld /\ item.shape # "binding"
    <2> DEFINE cap == item.caps[1]
               disc == item.disc[1]
    <2>1. item.shape = "envelope" /\ a \in Disclosed(cap, disc) /\ ~a.withheld
      BY <1>1, <1>4 DEF Expected
    <2>2. Len(item.disc) = 1
      BY <2>1 DEF IsItem
    <2>3. disc.input.form \in {"ascii", "none"} /\ disc.output.form \in {"ascii", "none"}
      <3>1. item.disc \in Seq([input : Payload, output : Payload])
        BY DEF IsItem, Item
      <3> DEFINE ds == item.disc
      <3>2. 1 \in DOMAIN ds
        <4>1. ds \in Seq([input : Payload, output : Payload]) /\ Len(ds) = 1
          BY <2>2, <3>1
        <4> HIDE DEF ds
        <4> QED BY <4>1
      <3> QED BY <3>2 DEF Plain
    <2>4. \A q, d : q.form \in {"ascii", "none"} => (PayloadMatches(q, d) <=> jcs(q) = d)
      BY DEF PayloadMatches, _json_digest
    <2>5. CASE a = RowOf("agent_input", cap.input, disc.input)
      <3>1. a.type = "agent_input" /\ a.match = Verdict(PayloadMatches(disc.input, cap.input))
        BY <2>1, <2>5 DEF RowOf, LogEntry
      <3>2. Settled(item, b) = Verdict(disclosureMatches(item, "agent_input"))
        BY <1>1, <1>4, <3>1 DEF Settled
      <3>3. disclosureMatches(item, "agent_input") <=> cap.input = jcs(disc.input)
        BY <2>1 DEF disclosureMatches
      <3> HIDE DEF cap, disc
      <3>4. PayloadMatches(disc.input, cap.input) <=> jcs(disc.input) = cap.input
        BY <2>3, <2>4
      <3> QED BY <3>1, <3>2, <3>3, <3>4 DEF Verdict
    <2>6. CASE a = RowOf("agent_output", cap.output, disc.output)
      <3>1. a.type = "agent_output" /\ a.match = Verdict(PayloadMatches(disc.output, cap.output))
        BY <2>1, <2>6 DEF RowOf, LogEntry
      <3>2. Settled(item, b) = Verdict(disclosureMatches(item, "agent_output"))
        BY <1>1, <1>4, <3>1 DEF Settled
      <3>3. disclosureMatches(item, "agent_output") <=> cap.output = jcs(disc.output)
        BY <2>1 DEF disclosureMatches
      <3> HIDE DEF cap, disc
      <3>4. PayloadMatches(disc.output, cap.output) <=> jcs(disc.output) = cap.output
        BY <2>3, <2>4
      <3> QED BY <3>1, <3>2, <3>3, <3>4 DEF Verdict
    <2> QED BY <2>1, <2>5, <2>6 DEF Disclosed
  <1> QED BY <1>1, <1>2, <1>3, <1>4 DEF Row

LEMMA GraphsFromInv == Inv => GraphsAgree
  <1> SUFFICES ASSUME Inv, Done, NEW k \in DOMAIN bundle
               PROVE  /\ NodeIds(graphs[k]) = NodeIds(views[k])
                      /\ Range(views[k].edges) \subseteq Range(graphs[k].edges)
                      /\ \A e \in Range(graphs[k].edges) : {e[1], e[2]} \subseteq NodeIds(graphs[k])
    BY DEF GraphsAgree
  <1> DEFINE item == bundle[k]
             v == parse_capsule(item)
             g == parseAac(item)
             d == Drawn(item)
  <1>1. k \in 1 .. Len(bundle) /\ IsItem(item) /\ Len(views) = Len(bundle) /\ Len(graphs) = Len(bundle)
    BY DEF Inv, LinkInv, ViewsInv, GraphsInv, Done, IsAac
  <1>2. views[k] = v /\ graphs[k] = d
    BY <1>1 DEF Inv, ViewsInv, GraphsInv, Done, IsAac
  <1> HIDE DEF item
  <1>3. Alike(v, g)
    BY <1>1, ItemAlike DEF ReadTheSame
  <1>4. g \in View /\ NodeIds(v) = NodeIds(g) /\ Range(v.edges) \subseteq Range(g.edges) /\ Joins(g)
    BY <1>3 DEF Alike
  <1>5. d.nodes = g.nodes /\ d.edges = g.edges
    BY <1>4, DrawnFacts
  <1> HIDE DEF v, g, d
  <1>6. NodeIds(d) = NodeIds(g)
    BY <1>5 DEF NodeIds
  <1> QED BY <1>2, <1>4, <1>5, <1>6 DEF Joins

LEMMA LogsFromInv == Inv => PrivilegeLogsAgree
  <1> SUFFICES ASSUME Inv, Done, NEW k \in DOMAIN bundle
               PROVE  /\ Len(graphs[k].privilege_log) = Len(views[k].privilege_log)
                      /\ \A j \in DOMAIN graphs[k].privilege_log :
                            LET page == graphs[k].privilege_log[j]
                                python == views[k].privilege_log[j]
                            IN  /\ page.type = python.type /\ page.digest = python.digest
                                /\ page.withheld = python.withheld
                                /\ Plain(bundle[k])
                                   /\ (bundle[k].shape # "binding" \/ page.withheld \/ page.type = "offer_terms")
                                      => page.match = python.match
    BY Zenon DEF PrivilegeLogsAgree, Plain
  <1> DEFINE item == bundle[k]
             v == parse_capsule(item)
             g == parseAac(item)
             d == Drawn(item)
  <1>1. k \in 1 .. Len(bundle) /\ IsItem(item) /\ Len(views) = Len(bundle) /\ Len(graphs) = Len(bundle)
    BY DEF Inv, LinkInv, ViewsInv, GraphsInv, Done, IsAac
  <1>2. views[k] = v /\ graphs[k] = d
    BY <1>1 DEF Inv, ViewsInv, GraphsInv, Done, IsAac
  <1> HIDE DEF item
  <1>3. Alike(v, g) /\ \A r \in Range(v.privilege_log) : Expected(item, r)
    BY <1>1, ItemAlike DEF ReadTheSame
  <1>4. v \in View /\ g \in View /\ RowsAlike(v.privilege_log, g.privilege_log)
    BY <1>3 DEF Alike
  <1>5. /\ DOMAIN d.privilege_log = 1 .. Len(g.privilege_log) /\ Len(d.privilege_log) = Len(g.privilege_log)
        /\ \A j \in 1 .. Len(g.privilege_log) :
              d.privilege_log[j] = [g.privilege_log[j] EXCEPT !.match = Settled(item, g.privilege_log[j])]
    BY <1>4, DrawnFacts
  <1> HIDE DEF v, g, d
  <1>6. v.privilege_log \in Seq(Row) /\ g.privilege_log \in Seq(Row) /\ Len(v.privilege_log) = Len(g.privilege_log)
        /\ \A j \in 1 .. Len(v.privilege_log) : Paired(v.privilege_log[j], g.privilege_log[j])
    BY <1>4 DEF View, RowsAlike
  <1>7. ASSUME NEW j \in DOMAIN d.privilege_log
        PROVE  /\ d.privilege_log[j].type = v.privilege_log[j].type
               /\ d.privilege_log[j].digest = v.privilege_log[j].digest
               /\ d.privilege_log[j].withheld = v.privilege_log[j].withheld
               /\ Plain(item) /\ (item.shape # "binding" \/ d.privilege_log[j].withheld
                                                         \/ d.privilege_log[j].type = "offer_terms")
                     => d.privilege_log[j].match = v.privilege_log[j].match
    <2> DEFINE a == v.privilege_log[j]
               b == g.privilege_log[j]
               c == d.privilege_log[j]
    <2>1. j \in 1 .. Len(g.privilege_log) /\ j \in 1 .. Len(v.privilege_log)
      BY <1>5, <1>6, <1>7
    <2>2. a \in Row /\ b \in Row /\ Paired(a, b) /\ c = [b EXCEPT !.match = Settled(item, b)]
      BY <1>5, <1>6, <2>1
    <2>3. Expected(item, a)
      BY <1>3, <1>6, <2>1 DEF Range
    <2> HIDE DEF a, b, c
    <2> DEFINE m == Settled(item, b)
    <2>4. Plain(item) /\ (item.shape # "binding" \/ b.withheld \/ b.type = "offer_terms") => m = a.match
      BY <1>1, <2>2, <2>3, SettledAlike
    <2> HIDE DEF m
    <2>5. c = [b EXCEPT !.match = m]
      BY <2>2 DEF m
    <2>6. c.type = b.type /\ c.digest = b.digest /\ c.withheld = b.withheld /\ c.match = m
      BY <2>2, <2>5 DEF Row
    <2>7. a.type = b.type /\ a.digest = b.digest /\ a.withheld = b.withheld
      BY <2>2 DEF Paired
    <2>8. /\ c.type = a.type /\ c.digest = a.digest /\ c.withheld = a.withheld
          /\ Plain(item) /\ (item.shape # "binding" \/ c.withheld \/ c.type = "offer_terms") => c.match = a.match
      BY <2>4, <2>6, <2>7
    <2> QED BY <2>8 DEF a, c
  <1>8. Len(d.privilege_log) = Len(v.privilege_log)
    BY <1>5, <1>6
  <1> QED BY <1>2, <1>7, <1>8, Zenon DEF item

(* What the page builds from an item is what the library builds, for items of every
   shape, with any digests in common and any payloads: the same nodes, all of its
   edges, each between nodes, and the same privilege log, row for row. *)
THEOREM ViewsMatch == Spec => []ViewsAgree
  <1>1. Inv => ViewsAgree
    BY GraphsFromInv, LogsFromInv, MandatesFromInv DEF ViewsAgree
  <1> QED BY RitualCorrect, <1>1, PTL

-----------------------------------------------------------------------------
(* What a row of the page says before the terms are hashed.                *)

\* A row that says "match" is of a payload disclosed with the item, whose digest it
\* names; a row that waits for a hash is of terms that are there.
RowOfPayload(item, e) ==
    /\ e.match = "true" =>
          \/ /\ e.type = "agent_input" /\ item.disc[1].input # NoPayload
             /\ jcs(item.disc[1].input) = e.digest
          \/ /\ e.type = "agent_output" /\ item.disc[1].output # NoPayload
             /\ jcs(item.disc[1].output) = e.digest
    /\ termsRow(e) => item.terms # NoPayload

\* A row that was parsed, once the disclosures are checked.
Checked(item, e) ==
    IF e.type \in {"agent_input", "agent_output"} /\ ~e.withheld
    THEN [e EXCEPT !.match = Verdict(disclosureMatches(item, e.type))] ELSE e

LEMMA EntryTells ==
    ASSUME NEW type, NEW digest, NEW payload, NEW match
    PROVE  /\ LogEntry(type, digest, payload, match).type = type
           /\ LogEntry(type, digest, payload, match).digest = digest
           /\ LogEntry(type, digest, payload, match).withheld <=> payload = NoPayload
  BY DEF LogEntry

LEMMA CheckedRow ==
    ASSUME NEW item, NEW a \in Row, NEW b \in Row, Paired(a, b), Expected(item, a)
    PROVE  RowOfPayload(item, Checked(item, b))
  <1> DEFINE e == Checked(item, b)
             cap == item.caps[1]
             disc == item.disc[1]
  <1>1. a.type = b.type /\ a.digest = b.digest /\ a.withheld = b.withheld /\ b.match = "null"
    BY DEF Paired
  <1>2. /\ e.type = b.type /\ e.digest = b.digest /\ e.withheld = b.withheld
        /\ e.match = "true" => /\ b.type \in {"agent_input", "agent_output"} /\ ~b.withheld
                               /\ disclosureMatches(item, b.type)
    BY <1>1 DEF Checked, Row, Verdict
  <1> HIDE DEF e
  <1>3. a \in Disclosed(cap, disc) =>
            \/ /\ a.type = "agent_input" /\ a.digest = cap.input /\ (a.withheld <=> disc.input = NoPayload)
            \/ /\ a.type = "agent_output" /\ a.digest = cap.output /\ (a.withheld <=> disc.output = NoPayload)
    <2> HIDE DEF cap, disc
    <2> QED BY EntryTells DEF Disclosed, RowOf
  <1>4. a = PythonTerms(item) => (a.withheld <=> item.terms = NoPayload)
    BY EntryTells DEF PythonTerms, TermsRow
  <1>5. ASSUME e.match = "true"
        PROVE  \/ e.type = "agent_input" /\ disc.input # NoPayload /\ jcs(disc.input) = e.digest
               \/ e.type = "agent_output" /\ disc.output # NoPayload /\ jcs(disc.output) = e.digest
    <2>1. b.type \in {"agent_input", "agent_output"} /\ ~b.withheld /\ disclosureMatches(item, b.type)
      BY <1>2, <1>5
    <2>2. /\ item.shape = "envelope"
          /\ b.type = "agent_input" => cap.input = jcs(disc.input)
          /\ b.type = "agent_output" => cap.output = jcs(disc.output)
      BY <2>1 DEF disclosureMatches
    <2>3. a \in Disclosed(cap, disc)
      BY <1>1, <2>1, <2>2 DEF Expected
    <2> HIDE DEF cap, disc
    <2> QED BY <1>1, <1>2, <1>3, <2>1, <2>2, <2>3
  <1>6. ASSUME termsRow(e) PROVE item.terms # NoPayload
    <2>1. a.type = "offer_terms" /\ ~a.withheld
      BY <1>1, <1>2, <1>6 DEF termsRow
    <2>2. a \notin Disclosed(cap, disc)
      BY <1>3, <2>1
    <2>3. a = PythonTerms(item)
      BY <2>1, <2>2 DEF Expected
    <2> QED BY <1>4, <2>1, <2>3
  <1> QED BY <1>5, <1>6 DEF RowOfPayload, e, disc

\* What renderAac hands to renderPrivlog, for an item of any shape.
LEMMA RenderedRows ==
    ASSUME NEW item, IsItem(item)
    PROVE  /\ DOMAIN renderAac(item).privilege_log \subseteq Nat
           /\ \A k \in DOMAIN renderAac(item).privilege_log :
                 RowOfPayload(item, renderAac(item).privilege_log[k])
  <1> DEFINE g == parseAac(item)
             s == g.privilege_log
             p == parse_capsule(item).privilege_log
             rows == [k \in DOMAIN s |-> Checked(item, s[k])]
  <1>1. ReadTheSame(item)
    BY ItemAlike
  <1>2. /\ g \in View /\ s \in Seq(Row) /\ p \in Seq(Row) /\ RowsAlike(p, s)
        /\ \A r \in Range(p) : Expected(item, r)
    BY <1>1 DEF ReadTheSame, Alike, View
  <1>3. renderAac(item) = [g EXCEPT !.privilege_log = rows]
    BY Zenon DEF renderAac, Checked
  <1>4. renderAac(item).privilege_log = rows
    <2> HIDE DEF rows
    <2> QED BY <1>2, <1>3 DEF View
  <1>5. \A k \in DOMAIN s : RowOfPayload(item, Checked(item, s[k]))
    <2> SUFFICES ASSUME NEW k \in DOMAIN s PROVE RowOfPayload(item, Checked(item, s[k]))
      OBVIOUS
    <2> HIDE DEF s, p
    <2>1. k \in 1 .. Len(p) /\ k \in DOMAIN p /\ p[k] \in Row /\ s[k] \in Row /\ Paired(p[k], s[k])
      BY <1>2 DEF RowsAlike
    <2>2. Expected(item, p[k])
      BY <1>2, <2>1 DEF Range
    <2> QED BY <2>1, <2>2, CheckedRow
  <1> HIDE DEF g, s, p
  <1>6. DOMAIN s \subseteq Nat
    BY <1>2
  <1> QED BY <1>4, <1>5, <1>6
============================================================================
