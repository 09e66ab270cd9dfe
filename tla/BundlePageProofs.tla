-------------------------- MODULE BundlePageProofs --------------------------
(***************************************************************************)
(* Proofs about the bundle page for any number of loads, files and lists:  *)
(* the witness panel and the address bar end up with the current bundle,   *)
(* and panels agree while loads do not overlap.                            *)
(***************************************************************************)
EXTENDS BundlePage, SequenceTheorems, TLAPS

Load == [kind : Kinds, stage : Stages]

\* The inductive invariant: the parts need each other only through the types.
Inv == TypeOK /\ WitnessIsFresh /\ HashIsCurrent /\ SoloInv

\* What loadBundle's synchronous part does to the sequence of loads: the new
\* load is the current one and is not done.
LEMMA BeginFacts ==
    ASSUME TypeOK, NEW kind \in Kinds, BeginLoad(kind)
    PROVE  /\ loads' \in Seq(Load)
           /\ Len(loads') = Len(loads) + 1
           /\ loads'[Len(loads) + 1].stage \in {"dead", "integrity"}
           /\ \A n \in 1..Len(loads) : loads'[n] = loads[n]
           /\ ~overlapped' => ~overlapped /\ \A n \in 1..Len(loads) : loads[n].stage \in Ended
           /\ overlapped' \in BOOLEAN
  <1> DEFINE new == [kind  |-> kind,
                     stage |-> IF kind = "not_array" THEN "dead" ELSE "integrity"]
  <1>1. new \in Load /\ new.stage \in {"dead", "integrity"}
    BY DEF Load, Stages, Ended
  <1>2. loads \in Seq(Load) /\ loads' = Append(loads, new)
    BY DEF TypeOK, BeginLoad, Load
  <1> HIDE DEF new
  <1>3. /\ loads' \in Seq(Load)
        /\ Len(loads') = Len(loads) + 1
        /\ loads'[Len(loads) + 1] = new
        /\ \A n \in 1..Len(loads) : loads'[n] = loads[n]
    BY <1>1, <1>2, AppendProperties
  <1>4. ~overlapped' => ~overlapped /\ \A n \in 1..Len(loads) : loads[n].stage \in Ended
    BY DEF BeginLoad, InFlight
  <1>5. overlapped' \in BOOLEAN
    BY DEF BeginLoad
  <1> QED BY <1>1, <1>3, <1>4, <1>5

\* What the continuation of a load after an await does to the loads.
LEMMA StageFacts ==
    ASSUME TypeOK, NEW n \in 1..Len(loads), NEW from, NEW to \in Stages, AtStage(n, from, to)
    PROVE  /\ loads' \in Seq(Load)
           /\ Len(loads') = Len(loads)
           /\ loads[n].stage = from
           /\ loads'[n].stage = to
           /\ \A k \in 1..Len(loads) : loads'[k].kind = loads[k].kind
           /\ \A k \in 1..Len(loads) : k # n => loads'[k] = loads[k]
  <1>1. loads \in Seq(Load)
    BY DEF TypeOK, Load
  <1>2. loads' = [loads EXCEPT ![n].stage = to] /\ loads[n].stage = from
    BY DEF AtStage
  <1>3. \A k \in 1..Len(loads) : loads[k] \in Load
    BY <1>1
  <1>4. [loads[n] EXCEPT !.stage = to] \in Load
    BY <1>3 DEF Load
  <1>5. loads' = [loads EXCEPT ![n] = [loads[n] EXCEPT !.stage = to]]
    BY <1>2
  <1>6. loads' \in Seq(Load) /\ Len(loads') = Len(loads)
    BY <1>1, <1>4, <1>5, ExceptSeq
  <1>7. /\ loads'[n].stage = to
        /\ \A k \in 1..Len(loads) : loads'[k].kind = loads[k].kind
        /\ \A k \in 1..Len(loads) : k # n => loads'[k] = loads[k]
    BY <1>1, <1>3, <1>5 DEF Load
  <1> QED BY <1>2, <1>6, <1>7

\* A step that begins a load keeps the invariant, whichever event it is.
LEMMA BeginKeeps ==
    ASSUME Inv, NEW kind \in Kinds, BeginLoad(kind),
           files' \in Seq([kind : Kinds \cup {"no_bundle"}, status : {"reading", "read"}]),
           hash' \in {hash, Len(loads')}, booted' \in BOOLEAN,
           UNCHANGED <<log, completeness, ritual, list, lists, listReads, checks, witness>>
    PROVE  Inv'
  <1>1. TypeOK BY DEF Inv
  <1>2. Len(loads) \in Nat BY <1>1 DEF TypeOK
  <1>3. TypeOK'
    <2>1. /\ loads' \in Seq([kind : Kinds, stage : Stages])
          /\ Len(loads') = Len(loads) + 1
          /\ overlapped' \in BOOLEAN
      BY <1>1, BeginFacts DEF Load
    <2>2. {log, completeness, ritual, hash}' \subseteq Shown'
      BY <1>1, <1>2, <2>1 DEF TypeOK, Shown
    <2>3. checks' \subseteq (1..Len(loads')) \X (0..lists')
      BY <1>1, <1>2, <2>1 DEF TypeOK
    <2>4. witness' \in Shown' \X (0..lists')
      BY <1>1, <1>2, <2>1 DEF TypeOK, Shown
    <2> QED BY <1>1, <2>1, <2>2, <2>3, <2>4 DEF TypeOK
  <1>4. ~CurrentDone' /\ Current' = Len(loads) + 1
    BY <1>1, <1>2, BeginFacts DEF CurrentDone, Current
  <1>5. WitnessIsFresh' /\ HashIsCurrent'
    BY <1>4 DEF WitnessIsFresh, HashIsCurrent
  <1>6. SoloInv'
    BY <1>1, <1>2, <1>4, BeginFacts DEF SoloInv, Current
  <1> QED BY <1>3, <1>5, <1>6 DEF Inv

\* Opening the page.
LEMMA BootKeeps == Inv /\ bootstrapLoad => Inv'
  <1> SUFFICES ASSUME Inv, bootstrapLoad PROVE Inv'
    OBVIOUS
  <1>1. PICK source \in {BootSource(s) : s \in Sources} :
          /\ IF source = "none" THEN UNCHANGED <<loads, overlapped>>
             ELSE \E kind \in Kinds : BeginLoad(kind)
          /\ hash' = IF source = "fragment" THEN Len(loads') ELSE hash
    BY DEF bootstrapLoad
  <1>2. CASE source = "none"
    BY <1>1, <1>2 DEF bootstrapLoad, Inv, TypeOK, Shown, WitnessIsFresh, HashIsCurrent, SoloInv,
                      CurrentDone, Current
  <1>3. CASE source # "none"
    <2>1. PICK kind \in Kinds : BeginLoad(kind) BY <1>1, <1>3
    <2>2. files' \in Seq([kind : Kinds \cup {"no_bundle"}, status : {"reading", "read"}])
      BY DEF bootstrapLoad, Inv, TypeOK
    <2> QED BY <1>1, <2>1, <2>2, BeginKeeps DEF bootstrapLoad
  <1> QED BY <1>2, <1>3

\* Pasting a bundle, dropping a file, and the file's text arriving.
LEMMA ArrivalKeeps ==
    ASSUME Inv,
           \/ \E kind \in Kinds : Paste(kind)
           \/ \E kind \in Kinds \cup {"no_bundle"} : readDroppedFile(kind)
           \/ \E f \in 1..Len(files) : loadDroppedText(f)
    PROVE  Inv'
  <1> DEFINE File == [kind : Kinds \cup {"no_bundle"}, status : {"reading", "read"}]
  <1>0. files \in Seq(File) BY DEF Inv, TypeOK
  <1>1. CASE \E kind \in Kinds : Paste(kind)
    <2>1. PICK kind \in Kinds : Paste(kind) BY <1>1
    <2> QED BY <1>0, <2>1, BeginKeeps DEF Paste, panels, Inv, TypeOK
  <1>2. CASE \E kind \in Kinds \cup {"no_bundle"} : readDroppedFile(kind)
    <2>1. PICK kind \in Kinds \cup {"no_bundle"} : readDroppedFile(kind) BY <1>2
    <2>2. [kind |-> kind, status |-> "reading"] \in File OBVIOUS
    <2>3. files' \in Seq(File) BY <1>0, <2>1, <2>2, AppendProperties DEF readDroppedFile
    <2> QED BY <2>1, <2>3 DEF readDroppedFile, panels, Inv, TypeOK, Shown, WitnessIsFresh,
                              HashIsCurrent, SoloInv, CurrentDone, Current
  <1>3. CASE \E f \in 1..Len(files) : loadDroppedText(f)
    <2>1. PICK f \in 1..Len(files) : loadDroppedText(f) BY <1>3
    <2>2. files[f] \in File /\ [files[f] EXCEPT !.status = "read"] \in File
      <3> HIDE DEF File
      <3>1. files[f] \in File BY <1>0
      <3> USE DEF File
      <3> QED BY <3>1
    <2>3. files' = [files EXCEPT ![f] = [files[f] EXCEPT !.status = "read"]]
      BY <2>1 DEF loadDroppedText
    <2>4. files' \in Seq(File) BY <1>0, <2>2, <2>3, ExceptSeq
    <2>5. CASE files[f].kind = "no_bundle"
      BY <2>1, <2>4, <2>5 DEF loadDroppedText, panels, Inv, TypeOK, Shown, WitnessIsFresh,
                              HashIsCurrent, SoloInv, CurrentDone, Current
    <2>6. CASE files[f].kind # "no_bundle"
      <3>1. files[f].kind \in Kinds BY <2>2, <2>6
      <3> QED BY <2>1, <2>4, <2>6, <3>1, BeginKeeps DEF loadDroppedText, panels, Inv, TypeOK
    <2> QED BY <2>5, <2>6
  <1> QED BY <1>1, <1>2, <1>3

\* The continuations of a load that do not end it well.
LEMMA MiddleKeeps ==
    ASSUME Inv, NEW n \in 1..Len(loads),
           \/ AfterIntegrity(n) \/ AfterPrivlog(n) \/ AfterCompleteness(n) \/ AfterCrossCheck(n)
    PROVE  Inv'
  <1>0. TypeOK /\ Len(loads) \in Nat BY DEF Inv, TypeOK
  <1>1. PICK from \in Stages \ Ended, to \in Stages \ {"done"} :
           /\ AtStage(n, from, to)
           /\ to \in {"completeness", "crosscheck", "ritual"} /\ from \notin
                 {"completeness", "crosscheck", "ritual"} => log' = n
           /\ to \in {"crosscheck", "ritual"} /\ from # "crosscheck" => completeness' = n
           /\ log' \in {log, n} /\ completeness' \in {completeness, n}
           /\ from = "completeness" => to \in {"crosscheck"}
           /\ from = "crosscheck" => to \in {"ritual"}
           /\ from \in {"integrity", "privlog"} => to \in {"privlog", "completeness", "dead"}
           /\ from # "ritual"
           /\ from \in {"completeness", "crosscheck"} => log' = log
           /\ from = "crosscheck" => completeness' = completeness
    BY DEF AfterIntegrity, AfterPrivlog, AfterCompleteness, AfterCrossCheck, panels, Stages,
           Ended, AtStage
  <1>2. UNCHANGED <<booted, files, ritual, hash, list, lists, listReads, checks, witness, overlapped>>
    BY DEF AfterIntegrity, AfterPrivlog, AfterCompleteness, AfterCrossCheck, panels
  <1>3. /\ loads' \in Seq(Load)
        /\ Len(loads') = Len(loads)
        /\ loads[n].stage = from
        /\ loads'[n].stage = to
        /\ \A k \in 1..Len(loads) : loads'[k].kind = loads[k].kind
        /\ \A k \in 1..Len(loads) : k # n => loads'[k] = loads[k]
    BY <1>0, <1>1, StageFacts
  <1>4. TypeOK'
    <2>1. /\ loads' \in Seq([kind : Kinds, stage : Stages])
          /\ Shown' = Shown
      BY <1>3 DEF Load, Shown
    <2>2. {log, completeness, ritual, hash}' \subseteq Shown'
      BY <1>0, <1>1, <1>2, <2>1 DEF TypeOK, Shown
    <2>3. checks' \subseteq (1..Len(loads')) \X (0..lists') /\ witness' \in Shown' \X (0..lists')
      BY <1>0, <1>2, <1>3, <2>1 DEF TypeOK
    <2> QED BY <1>0, <1>2, <2>1, <2>2, <2>3 DEF TypeOK
  <1>5. Current' = Current /\ (CurrentDone' => CurrentDone)
    BY <1>0, <1>1, <1>3 DEF CurrentDone, Current
  <1>6. WitnessIsFresh' /\ HashIsCurrent'
    <2>1. Current > 0 => Current \in 1..Len(loads) BY <1>0 DEF Current
    <2> QED BY <1>2, <1>3, <1>5, <2>1 DEF Inv, WitnessIsFresh, HashIsCurrent, CurrentDone
  <1>7. SoloInv'
    <2> SUFFICES ASSUME ~overlapped', Current' > 0
                 PROVE  /\ \A k \in 1..(Current' - 1) : loads'[k].stage \in Ended
                        /\ loads'[Current'].stage \in {"completeness", "crosscheck", "ritual", "done"} =>
                              log' = Current'
                        /\ loads'[Current'].stage \in {"crosscheck", "ritual", "done"} =>
                              completeness' = Current'
                        /\ loads'[Current'].stage = "done" => ritual' = Current'
      BY DEF SoloInv
    <2>1. n = Current
      BY <1>0, <1>1, <1>2, <1>3, <1>5 DEF Inv, SoloInv, Current, Stages, Ended
    <2> QED BY <1>0, <1>1, <1>2, <1>3, <1>5, <2>1 DEF Inv, SoloInv, Current
  <1> QED BY <1>4, <1>6, <1>7 DEF Inv

\* The last continuation: a check of the current bundle starts and the address
\* bar takes the current fragment, even when an older load ends here.
LEMMA RitualKeeps ==
    ASSUME Inv, NEW n \in 1..Len(loads), AfterRitual(n)
    PROVE  Inv'
  <1>0. TypeOK /\ Len(loads) \in Nat BY DEF Inv, TypeOK
  <1>1. AtStage(n, "ritual", "done") /\ ritual' = n /\ hash' = Current
    BY DEF AfterRitual
  <1>2. UNCHANGED <<booted, files, log, completeness, list, lists, listReads, witness, overlapped>>
    BY DEF AfterRitual
  <1>3. /\ loads' \in Seq(Load)
        /\ Len(loads') = Len(loads)
        /\ loads[n].stage = "ritual"
        /\ loads'[n].stage = "done"
        /\ \A k \in 1..Len(loads) : loads'[k].kind = loads[k].kind
        /\ \A k \in 1..Len(loads) : k # n => loads'[k] = loads[k]
    BY <1>0, <1>1, StageFacts DEF Stages, Ended
  <1>4. Current' = Current /\ Current \in 1..Len(loads)
    BY <1>0, <1>3 DEF Current
  <1>5. checks' = checks \cup {<<Current, list>>}
    BY <1>0, <1>4 DEF AfterRitual, renderWitness
  <1>6. TypeOK'
    BY <1>0, <1>1, <1>2, <1>3, <1>4, <1>5 DEF TypeOK, Load, Shown
  <1>7. WitnessIsFresh' /\ HashIsCurrent'
    BY <1>1, <1>2, <1>4, <1>5 DEF WitnessIsFresh, HashIsCurrent
  <1>8. SoloInv'
    <2> SUFFICES ASSUME ~overlapped', Current' > 0
                 PROVE  /\ \A k \in 1..(Current' - 1) : loads'[k].stage \in Ended
                        /\ log' = Current' /\ completeness' = Current' /\ ritual' = Current'
      BY DEF SoloInv
    <2>1. n = Current
      BY <1>0, <1>2, <1>3, <1>4 DEF Inv, SoloInv, Current, Ended
    <2> QED BY <1>0, <1>1, <1>2, <1>3, <1>4, <2>1 DEF Inv, SoloInv, Current
  <1> QED BY <1>6, <1>7, <1>8 DEF Inv

\* Choosing a list starts a check of the current bundle under that list.
LEMMA ListKeeps ==
    ASSUME Inv,
           \/ ChooseNone \/ ChoosePublished \/ readOwn
           \/ \E parses \in BOOLEAN : OwnListRead(parses)
    PROVE  Inv'
  <1>0. TypeOK /\ Len(loads) \in Nat /\ MaxLists \in Nat
    BY BundlePageAssumption DEF Inv, TypeOK
  <1>1. UNCHANGED <<booted, loads, files, log, completeness, ritual, hash, witness, overlapped>>
    BY DEF ChooseNone, ChoosePublished, readOwn, OwnListRead, panels
  <1>2. \/ UNCHANGED <<list, checks>>
        \/ checks' = IF Current = 0 THEN checks ELSE checks \cup {<<Current, list'>>}
    BY DEF ChooseNone, ChoosePublished, readOwn, OwnListRead, useWitnessList, renderWitness
  <1>3. /\ list' \in 0..lists' /\ lists' + listReads' <= MaxLists
        /\ lists' \in Nat /\ listReads' \in Nat /\ lists <= lists'
    BY <1>0 DEF ChooseNone, ChoosePublished, readOwn, OwnListRead, useWitnessList, TypeOK
  <1>4. TypeOK'
    <2>1. Current \in Nat /\ (Current # 0 => Current \in 1..Len(loads))
      BY <1>0 DEF Current
    <2>2. checks' \subseteq (1..Len(loads')) \X (0..lists')
      BY <1>0, <1>1, <1>2, <1>3, <2>1 DEF TypeOK
    <2>3. witness' \in Shown' \X (0..lists')
      BY <1>0, <1>1, <1>3 DEF TypeOK, Shown
    <2> QED BY <1>0, <1>1, <1>3, <2>2, <2>3 DEF TypeOK, Shown
  <1>5. WitnessIsFresh' /\ HashIsCurrent'
    BY <1>0, <1>1, <1>2 DEF Inv, WitnessIsFresh, HashIsCurrent, CurrentDone, Current
  <1>6. SoloInv'
    BY <1>1 DEF Inv, SoloInv, Current
  <1> QED BY <1>4, <1>5, <1>6 DEF Inv

\* A witness answer: only the one for the current bundle and list is shown, and
\* when that one is taken out of the pending checks it is the one shown.
LEMMA WitnessKeeps ==
    ASSUME Inv, NEW c \in checks, WitnessChecked(c)
    PROVE  Inv'
  <1>0. TypeOK BY DEF Inv
  <1>1. /\ UNCHANGED <<booted, loads, files, log, completeness, ritual, hash, list, lists,
                       listReads, overlapped>>
        /\ checks' = checks \ {c}
        /\ witness' = IF c = <<Current, list>> /\ loads[c[1]].kind # "bad_path" THEN c ELSE witness
    BY DEF WitnessChecked, panels
  <1>2. c \in (1..Len(loads)) \X (0..lists) BY <1>0 DEF TypeOK
  <1>3. TypeOK'
    BY <1>0, <1>1, <1>2 DEF TypeOK, Shown
  <1>4. WitnessIsFresh'
    BY <1>1 DEF Inv, WitnessIsFresh, CurrentDone, Current
  <1>5. HashIsCurrent' /\ SoloInv'
    BY <1>1 DEF Inv, HashIsCurrent, SoloInv, CurrentDone, Current
  <1> QED BY <1>3, <1>4, <1>5 DEF Inv

(* The invariant holds of every run of the page. *)
THEOREM PageCorrect == Spec => []Inv
  <1>1. Init => Inv
    <2> SUFFICES ASSUME Init PROVE Inv OBVIOUS
    <2>1. TypeOK
      <3>1. /\ loads \in Seq([kind : Kinds, stage : Stages])
            /\ files \in Seq([kind : Kinds \cup {"no_bundle"}, status : {"reading", "read"}])
        BY EmptySeq DEF Init
      <3>2. Len(loads) = 0 /\ 0..Len(loads) = {0} /\ MaxLists \in Nat
        BY BundlePageAssumption, EmptySeq DEF Init
      <3>3. booted \in BOOLEAN /\ overlapped \in BOOLEAN
        BY DEF Init
      <3> QED BY <3>1, <3>2, <3>3 DEF Init, TypeOK, Shown
    <2> QED BY <2>1 DEF Init, Inv, WitnessIsFresh, HashIsCurrent, SoloInv, CurrentDone, Current
  <1>2. Inv /\ [Next]_vars => Inv'
    <2> SUFFICES ASSUME Inv, [Next]_vars PROVE Inv' OBVIOUS
    <2>1. CASE \E n \in 1..Len(loads) : Step(n)
      BY <2>1, MiddleKeeps, RitualKeeps DEF Step
    <2>2. CASE UNCHANGED vars
      BY <2>2 DEF vars, Inv, TypeOK, Shown, WitnessIsFresh, HashIsCurrent, SoloInv, CurrentDone,
                  Current
    <2> QED BY <2>1, <2>2, BootKeeps, ArrivalKeeps, ListKeeps, WitnessKeeps DEF Next
  <1> QED BY <1>1, <1>2, PTL DEF Spec

(* The page's variables keep their types. *)
THEOREM PageTyped == Spec => []TypeOK
  BY PageCorrect, PTL DEF Inv

(* The witness panel shows the current bundle under the current list, or a check
   that will make it so is under way. *)
THEOREM PageWitnessIsFresh == Spec => []WitnessIsFresh
  BY PageCorrect, PTL DEF Inv

(* The address bar holds the current bundle's fragment once it is checked. *)
THEOREM PageHashIsCurrent == Spec => []HashIsCurrent
  BY PageCorrect, PTL DEF Inv

(* Without overlapping loads, every panel is about the current bundle. *)
THEOREM PageSoloPanelsAgree == Spec => []SoloPanelsAgree
  <1>1. Inv => SoloPanelsAgree
    BY DEF Inv, SoloInv, SoloPanelsAgree, CurrentDone
  <1> QED BY <1>1, PageCorrect, PTL
=============================================================================
