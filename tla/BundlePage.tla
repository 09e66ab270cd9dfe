----------------------------- MODULE BundlePage -----------------------------
(***************************************************************************)
(* The bundle page's event loop (the render section of BUNDLE_JS in        *)
(* hosted_profiles/hosted.py): bundles arrive by fragment, paste, file and *)
(* hand-over, each is loaded by an async loadBundle that renders a panel   *)
(* after each await, and witness checks run beside them.  What a check     *)
(* finds is module BundleChecks; here a panel holds the load it is about.  *)
(*                                                                         *)
(* Loads are numbered in the order they begin.  Each sets _bundleData and  *)
(* _fragmentB64u before its first await, so both are the newest load's.    *)
(***************************************************************************)
EXTENDS Naturals, Sequences, FiniteSets

CONSTANTS MaxLoads,         \* bound on the bundles loaded
          MaxFiles,         \* bound on the files dropped
          MaxLists          \* bound on the witness lists chosen

ASSUME BundlePageAssumption == {MaxLoads, MaxFiles, MaxLists} \subseteq Nat /\ MaxLoads > 0

VARIABLES booted,           \* the script's bootstrapLoad has run
          loads,            \* the loads so far: [kind, stage]
          files,            \* the files dropped: [kind, status]
          log,              \* the load shown in the privilege log and the records table
          completeness,     \* the load shown on the Range membership card
          ritual,           \* the load shown in the ritual
          hash,             \* the load whose fragment is in the address bar
          list,             \* the reader's witness list: 0 is none, else its number
          lists,            \* how many lists have been made
          listReads,        \* own list files being read
          checks,           \* witness checks under way: <<load, list>>
          witness,          \* what the witness panel shows: <<load, list>>
          overlapped        \* history: a load began while another was under way

panels == <<log, completeness, ritual, hash>>
vars == <<booted, loads, files, log, completeness, ritual, hash, list, lists, listReads,
          checks, witness, overlapped>>

\* A bundle is sound, has records that are no array or hold a null (a check
\* throws and its load ends), or has a witness path that is not hex (the
\* witness check throws).
Kinds == {"good", "not_array", "null_record", "bad_path"}

Ended == {"done", "dead"}
InFlight == {n \in 1..Len(loads) : loads[n].stage \notin Ended}

Current == Len(loads)       \* _bundleData, and _fragmentB64u with it

\* Where a bundle may be found on opening; "bad" does not decode.
Sources == [stash : {"none", "good", "bad"}, embedded : {"none", "good", "bad"},
            fragment : {"none", "good", "bad"}]

Init ==
    /\ booted = FALSE
    /\ loads = << >>
    /\ files = << >>
    /\ log = 0 /\ completeness = 0 /\ ritual = 0 /\ hash = 0
    /\ list = 0 /\ lists = 0 /\ listReads = 0
    /\ checks = {}
    /\ witness = <<0, 0>>
    /\ overlapped = FALSE

-----------------------------------------------------------------------------
(* Loading.                                                                *)

\* The bound on loads counts the files that may still become one.
MayLoad == Len(loads) + Cardinality({f \in 1..Len(files) : files[f].status = "reading"}) < MaxLoads

\* The part of loadBundle before its first await; records.map throws there.
BeginLoad(kind) ==
    /\ loads' = Append(loads, [kind  |-> kind,
                               stage |-> IF kind = "not_array" THEN "dead" ELSE "integrity"])
    /\ overlapped' = (overlapped \/ InFlight # {})

\* A stash wins over an embedded fragment, which wins over the address bar; a
\* stash that does not decode ends the search, the others fall through.
BootSource(s) ==
    CASE s.stash # "none" -> IF s.stash = "good" THEN "stash" ELSE "none"
      [] s.stash = "none" /\ s.embedded = "good" -> "embedded"
      [] OTHER -> IF s.fragment = "good" THEN "fragment" ELSE "none"

bootstrapLoad ==
    /\ ~booted
    /\ booted' = TRUE
    /\ \E source \in {BootSource(s) : s \in Sources} :
          /\ IF source = "none" THEN UNCHANGED <<loads, overlapped>>
             ELSE \E kind \in Kinds : BeginLoad(kind)
          /\ hash' = IF source = "fragment" THEN Len(loads') ELSE hash
    /\ UNCHANGED <<files, log, completeness, ritual, list, lists, listReads, checks, witness>>

\* The paste box; text that is no JSON only writes an error.
Paste(kind) ==
    /\ booted
    /\ MayLoad
    /\ BeginLoad(kind)
    /\ UNCHANGED <<booted, files, panels, list, lists, listReads, checks, witness>>

\* readDroppedFile starts a FileReader; several may run, and end in any order.
readDroppedFile(kind) ==
    /\ booted
    /\ Len(files) < MaxFiles
    /\ MayLoad
    /\ files' = Append(files, [kind |-> kind, status |-> "reading"])
    /\ UNCHANGED <<booted, loads, panels, list, lists, listReads, checks, witness, overlapped>>

\* reader.onload: loadDroppedText, whose text may hold no bundle.
loadDroppedText(f) ==
    /\ files[f].status = "reading"
    /\ files' = [files EXCEPT ![f].status = "read"]
    /\ IF files[f].kind = "no_bundle" THEN UNCHANGED <<loads, overlapped>>
       ELSE BeginLoad(files[f].kind)
    /\ UNCHANGED <<booted, panels, list, lists, listReads, checks, witness>>

AtStage(n, from, to) ==
    /\ loads[n].stage = from
    /\ loads' = [loads EXCEPT ![n].stage = to]

AfterIntegrity(n) ==
    /\ AtStage(n, "integrity", "privlog")
    /\ UNCHANGED <<booted, files, panels, list, lists, listReads, checks, witness, overlapped>>

\* Mutant: the log is rendered once only.
AfterPrivlogOnce(n) ==
    /\ AtStage(n, "privlog", IF loads[n].kind = "null_record" THEN "dead" ELSE "completeness")
    /\ log' = IF log # 0 \/ loads[n].kind = "null_record" THEN log ELSE n
    /\ UNCHANGED <<booted, files, completeness, ritual, hash, list, lists, listReads, checks,
                   witness, overlapped>>

\* buildBundlePrivlog throws on a null record; otherwise log and table appear.
AfterPrivlog(n) ==
    /\ IF loads[n].kind = "null_record"
       THEN AtStage(n, "privlog", "dead") /\ UNCHANGED log
       ELSE AtStage(n, "privlog", "completeness") /\ log' = n
    /\ UNCHANGED <<booted, files, completeness, ritual, hash, list, lists, listReads, checks,
                   witness, overlapped>>

AfterCompleteness(n) ==
    /\ AtStage(n, "completeness", "crosscheck")
    /\ completeness' = n
    /\ UNCHANGED <<booted, files, log, ritual, hash, list, lists, listReads, checks, witness,
                   overlapped>>

\* Mutant: a load that is no longer current waits here for ever.
AfterCrossCheckOfCurrent(n) ==
    /\ n = Current
    /\ AtStage(n, "crosscheck", "ritual")
    /\ UNCHANGED <<booted, files, panels, list, lists, listReads, checks, witness, overlapped>>

AfterCrossCheck(n) ==
    /\ AtStage(n, "crosscheck", "ritual")
    /\ UNCHANGED <<booted, files, panels, list, lists, listReads, checks, witness, overlapped>>

\* renderWitness captures the bundle and the list and starts a check.
renderWitness(l) == checks' = IF Current = 0 THEN checks ELSE checks \cup {<<Current, l>>}

\* Mutant: a load writes its own fragment, current or not.
AfterRitualOwnHash(n) ==
    /\ AtStage(n, "ritual", "done")
    /\ ritual' = n
    /\ renderWitness(list)
    /\ hash' = n
    /\ UNCHANGED <<booted, files, log, completeness, list, lists, listReads, witness, overlapped>>

\* The last segment renders the ritual, starts a witness check of whatever
\* bundle is current, and writes the current fragment to the address bar.
AfterRitual(n) ==
    /\ AtStage(n, "ritual", "done")
    /\ ritual' = n
    /\ renderWitness(list)
    /\ hash' = Current
    /\ UNCHANGED <<booted, files, log, completeness, list, lists, listReads, witness, overlapped>>

-----------------------------------------------------------------------------
(* Witness lists and witness checks.                                       *)

useWitnessList(l) ==
    /\ list' = l
    /\ renderWitness(l)

\* Choosing none again only repeats a check, and is left out to bound the checks.
ChooseNone ==
    /\ booted
    /\ list # 0
    /\ useWitnessList(0)
    /\ UNCHANGED <<booted, loads, files, panels, lists, listReads, witness, overlapped>>

\* Every parse makes a new array, so the published list is a new list each time.
ChoosePublished ==
    /\ booted
    /\ lists + listReads < MaxLists
    /\ lists' = lists + 1
    /\ useWitnessList(lists + 1)
    /\ UNCHANGED <<booted, loads, files, panels, listReads, witness, overlapped>>

readOwn ==
    /\ booted
    /\ lists + listReads < MaxLists
    /\ listReads' = listReads + 1
    /\ UNCHANGED <<booted, loads, files, panels, list, lists, checks, witness, overlapped>>

\* The own list arrives; a file that does not parse only writes an error.
OwnListRead(parses) ==
    /\ listReads > 0
    /\ listReads' = listReads - 1
    /\ lists' = lists + 1
    /\ IF parses THEN useWitnessList(lists + 1) ELSE UNCHANGED <<list, checks>>
    /\ UNCHANGED <<booted, loads, files, panels, witness, overlapped>>

\* Mutant: a late answer is shown whatever has become of its question.
WitnessCheckedLate(c) ==
    /\ checks' = checks \ {c}
    /\ witness' = IF loads[c[1]].kind # "bad_path" THEN c ELSE witness
    /\ UNCHANGED <<booted, loads, files, panels, list, lists, listReads, overlapped>>

\* A result for another bundle or another list is dropped; a check that throws
\* leaves the panel as it is.
WitnessChecked(c) ==
    /\ checks' = checks \ {c}
    /\ witness' = IF c = <<Current, list>> /\ loads[c[1]].kind # "bad_path" THEN c ELSE witness
    /\ UNCHANGED <<booted, loads, files, panels, list, lists, listReads, overlapped>>

-----------------------------------------------------------------------------

Step(n) ==
    AfterIntegrity(n) \/ AfterPrivlog(n) \/ AfterCompleteness(n) \/ AfterCrossCheck(n)
        \/ AfterRitual(n)

Next ==
    \/ bootstrapLoad
    \/ \E kind \in Kinds : Paste(kind)
    \/ \E kind \in Kinds \cup {"no_bundle"} : readDroppedFile(kind)
    \/ \E f \in 1..Len(files) : loadDroppedText(f)
    \/ \E n \in 1..Len(loads) : Step(n)
    \/ ChooseNone
    \/ ChoosePublished
    \/ readOwn
    \/ \E parses \in BOOLEAN : OwnListRead(parses)
    \/ \E c \in checks : WitnessChecked(c)

\* The script runs when the page opens, and every promise and file read the
\* page waits for settles; the reader need not do anything.
Fairness ==
    /\ WF_vars(bootstrapLoad)
    /\ \A n \in 1..MaxLoads : WF_vars(n \in 1..Len(loads) /\ Step(n))
    /\ \A f \in 1..MaxFiles : WF_vars(f \in 1..Len(files) /\ loadDroppedText(f))
    /\ WF_vars(\E parses \in BOOLEAN : OwnListRead(parses))
    /\ \A n \in 1..MaxLoads, l \in 0..MaxLists :
          WF_vars(<<n, l>> \in checks /\ WitnessChecked(<<n, l>>))

Spec == Init /\ [][Next]_vars /\ Fairness

-----------------------------------------------------------------------------
(* Properties.                                                             *)

Stages == {"integrity", "privlog", "completeness", "crosscheck", "ritual"} \cup Ended
Shown == 0..Len(loads)

TypeOK ==
    /\ booted \in BOOLEAN
    /\ loads \in Seq([kind : Kinds, stage : Stages])
    /\ files \in Seq([kind : Kinds \cup {"no_bundle"}, status : {"reading", "read"}])
    /\ {log, completeness, ritual, hash} \subseteq Shown
    /\ list \in 0..lists /\ lists + listReads <= MaxLists
    /\ {lists, listReads} \subseteq Nat
    /\ checks \subseteq (1..Len(loads)) \X (0..lists)
    /\ witness \in Shown \X (0..lists)
    /\ overlapped \in BOOLEAN

CurrentDone == Current > 0 /\ loads[Current].stage = "done"

(* Once the current bundle has been checked to the end, the witness panel shows
   it under the reader's current list, or a check that will do so is under way:
   a late answer about another bundle or another list never sticks. *)
WitnessIsFresh ==
    (CurrentDone /\ loads[Current].kind # "bad_path") =>
        witness = <<Current, list>> \/ <<Current, list>> \in checks

(* Once the current bundle has been checked to the end, the address bar holds
   its fragment, whichever loads finish after it. *)
HashIsCurrent == CurrentDone => hash = Current

(* As long as no load began during another, a bundle checked to the end is the
   one in every panel. *)
SoloPanelsAgree ==
    (CurrentDone /\ ~overlapped) =>
        log = Current /\ completeness = Current /\ ritual = Current

\* The inductive form: while no load overlaps another, only the newest may be
\* under way, and each panel it has passed shows it.
SoloInv ==
    (~overlapped /\ Current > 0) =>
        /\ \A n \in 1..(Current - 1) : loads[n].stage \in Ended
        /\ loads[Current].stage \in {"completeness", "crosscheck", "ritual", "done"} =>
              log = Current
        /\ loads[Current].stage \in {"crosscheck", "ritual", "done"} => completeness = Current
        /\ loads[Current].stage = "done" => ritual = Current

Quiet == InFlight = {} /\ checks = {} /\ \A f \in 1..Len(files) : files[f].status = "read"

(* The page settles: every load, file read and witness check comes to an end,
   and a current bundle that no check throws on has then been checked to its
   end, with its fragment in the address bar and the witness panel showing it
   under the reader's list, whichever loads and answers came in between. *)
Settles ==
    <>[](/\ Quiet
         /\ (Current > 0 /\ loads[Current].kind = "good") =>
                CurrentDone /\ hash = Current /\ witness = <<Current, list>>)
=============================================================================
