----------------------------- MODULE CapsulePage -----------------------------
(***************************************************************************)
(* The capsule page (/v/<capsule_id>) as hosted.py's CAPSULE_JS runs it:   *)
(* one event loop on which the script loads the capsule or the bundle in   *)
(* the URL's fragment, the reader pastes, navigates and reloads, and the   *)
(* renderings that wait for hashes, and the server's answer about the      *)
(* anchor, come back in any order.                                         *)
(*                                                                         *)
(* A fragment is [form, items, witness]: "none", "unreadable", an "empty"  *)
(* array, a "single" item, an "array" of items, or a "wrapper" that holds  *)
(* such an array and the witness state declared with it.                   *)
(***************************************************************************)
EXTENDS CapsuleChecks

CONSTANTS Fragments,        \* the fragments a page is opened with
          Pasted,           \* the items that may be pasted
          MaxUserSteps      \* bound: pastes, navigations and reloads

\* A fragment is a sequence of items, none unless its form has some, and what is
\* declared of the witness counts in whole numbers.
IsFragment(f) ==
    /\ f.items \in Seq(Range(f.items))
    /\ \A k \in DOMAIN f.items : IsItem(f.items[k])
    /\ f.form \in {"single", "array", "wrapper"} <=> f.items # << >>
    /\ f.witness.held \in Int /\ f.witness.configured \in Int

ASSUME FragmentsAssumption == \A f \in Fragments : IsFragment(f)

ASSUME PastedAssumption == \A item \in Pasted : IsItem(item)

VARIABLES fragment,         \* what the script found: _fragData, _bundle, _bundleWitness
          hash,             \* the fragment now in the address bar
          stage,            \* "loading" until the script has run, then "loaded"
          focal,            \* the item behind _activeIntegrityPromise
          renders,          \* calls of renderAac that wait for the disclosure check
          graph,            \* the item that is drawn
          log,              \* the privilege log: its item and its rows
          hashing,          \* items whose terms renderPrivlog is hashing
          rituals,          \* calls of renderRitual that wait for hashes
          ritual,           \* the ritual that is shown: [items, witness], or NoRitual
          regData,          \* _regLastData
          reg,              \* the regulatory panel: its item and hasReceipt
          loaded,           \* _capsuleLoaded; the paste form is hidden with it
          inclusion,        \* whether the inclusion-only view is shown
          answer,           \* what /anchor-status answered, or "pending"
          gate,             \* the item whose integrity the answer waits for
          banner,           \* the anchor banner
          steps             \* user steps so far

vars == <<fragment, hash, stage, focal, renders, graph, log, hashing, rituals, ritual, regData, reg,
          loaded, inclusion, answer, gate, banner, steps>>

Other == [shape |-> "other", caps |-> << >>, disc |-> << >>, sealed |-> NoDigest, terms |-> NoPayload,
          sidecar |-> "none"]
NoItem == [Other EXCEPT !.shape = "none"]
NoRitual == [items |-> << >>, witness |-> NoWitness]
EmptyLog == [item |-> NoItem, rows |-> << >>]
NoPanel == [item |-> NoItem, hasReceipt |-> FALSE]

\* The reports of the server's _anchor_proxy_json.  receipt_verified is false
\* both for a receipt that failed and for one that was not looked at.
Answers == {"unreachable", "standalone", "verified", "failed", "unchecked"}

FreshPage ==
    /\ stage = "loading" /\ focal = NoItem /\ renders = << >> /\ graph = NoItem /\ log = EmptyLog
    /\ hashing = << >> /\ rituals = << >> /\ ritual = NoRitual /\ regData = NoItem /\ reg = NoPanel
    /\ loaded = FALSE /\ inclusion = FALSE /\ answer = "pending" /\ gate = NoItem /\ banner = "checking"

Init ==
    /\ fragment \in Fragments
    /\ hash = fragment
    /\ FreshPage
    /\ steps = 0

-----------------------------------------------------------------------------
(* What one call does.                                                     *)

\* Constraints that are not a list make the panel and the parser throw; the panel
\* comes to them only where nothing before them says that something is withheld.
PanelThrows(item) ==
    /\ ~TermsWithheld(item)
    /\ \E k \in DOMAIN item.caps :
          /\ ~item.caps[k].listed /\ Range(item.caps[k].evidence) \subseteq {NoDigest}
          /\ \A j \in 1..(k - 1) : ~checkSd(item.caps[j])
LoadThrows(item) == detectProfile(item) # "unknown" /\ PanelThrows(item)
ParseThrows(item) == \E k \in DOMAIN item.caps : ~item.caps[k].listed /\ item.caps[k].id # NoDigest

\* Until they have hashed, the rows of a revealed agent payload say what the
\* disclosure check found, and those of revealed terms only that they are there.
Row(item, e) ==
    LET shown == CASE e.type = "agent_input" -> item.disc[1].input
                   [] e.type = "agent_output" -> item.disc[1].output
                   [] OTHER -> NoPayload
    IN  [type |-> e.type, digest |-> e.digest, withheld |-> e.withheld, match |-> e.match,
         text |-> IF e.match = "true" THEN shown ELSE NoPayload]

\* What a call of renderAac will show, and whether terms are left to hash.
Rendering(item) ==
    LET entries == renderAac(item).privilege_log
    IN  [item |-> item, rows |-> [j \in DOMAIN entries |-> Row(item, entries[j])],
         hashes |-> \E e \in Range(entries) : termsRow(e)]

\* Mutant: the inclusion-only view is left where it is.
InclusionKept(through) == inclusion

InclusionAfter(through) == inclusion /\ ~through

ReceiptOnLoad == FALSE

\* An unknown profile ends the call at once, a panel that throws in its middle.
loadCapsule(item) ==
    LET profile == detectProfile(item)
        through == profile # "unknown" /\ ~PanelThrows(item)
    IN  /\ focal' = item
        /\ renders' = IF profile = "aac" /\ ~ParseThrows(item) THEN Append(renders, Rendering(item)) ELSE renders
        /\ graph' = IF profile = "machine-mandate" THEN item ELSE graph
        /\ regData' = IF profile # "unknown" THEN item ELSE regData
        /\ reg' = IF through THEN [item |-> item, hasReceipt |-> ReceiptOnLoad] ELSE reg
        /\ hash' = IF through THEN [form |-> "single", items |-> <<item>>, witness |-> NoWitness] ELSE hash
        /\ loaded' = (loaded \/ through)
        /\ inclusion' = InclusionAfter(through)

Call(items, w) == [items |-> items, witness |-> w]

\* A ritual over items without ids hashes nothing: it is shown before any other
\* event.  One over a capsule that does not parse is never shown.
Instant(items) == \A k \in DOMAIN items : _unwrap(items[k]).id = NoDigest /\ items[k].sidecar = "none"
RitualThrows(items) == \E k \in DOMAIN items : _unwrap(items[k]).id # NoDigest /\ ~_unwrap(items[k]).listed

Queued(items, w) ==
    IF Instant(items) \/ RitualThrows(items) THEN rituals ELSE Append(rituals, Call(items, w))

renderRitual(items, w) ==
    /\ rituals' = Queued(items, w)
    /\ ritual' = IF Instant(items) THEN Call(items, w) ELSE ritual

-----------------------------------------------------------------------------
(* The script.                                                             *)

HasItems == fragment.form \in {"single", "array", "wrapper"}

\* The first block takes a wrapper for a single item: its profile is unknown,
\* but its ritual is shown.  A single item it loads and shows like the second.
RitualOfFirstBlock == IF fragment.form = "wrapper" THEN Call(<<Other>>, NoWitness) ELSE ritual

\* The two blocks that read the fragment, and the fetch.
RunScript ==
    /\ stage = "loading"
    /\ stage' = "loaded"
    /\ IF ~HasItems
       THEN UNCHANGED <<focal, renders, graph, regData, reg, hash, loaded, inclusion, rituals, ritual>>
       ELSE LET items  == fragment.items
                goesOn == ~LoadThrows(items[1])
            IN  /\ loadCapsule(items[1])
                /\ rituals' = IF goesOn THEN Queued(items, fragment.witness) ELSE rituals
                /\ ritual' = IF goesOn /\ Instant(items) THEN Call(items, fragment.witness) ELSE RitualOfFirstBlock
    /\ UNCHANGED <<fragment, log, hashing, answer, gate, banner, steps>>

-----------------------------------------------------------------------------
(* What the reader does.                                                   *)

UserStep == stage = "loaded" /\ steps < MaxUserSteps /\ steps' = steps + 1

\* loadBtn: the capsule is loaded; the ritual stays that of the fragment.
Paste(item) ==
    /\ UserStep
    /\ ~loaded
    /\ loadCapsule(item)
    /\ UNCHANGED <<fragment, stage, log, hashing, rituals, ritual, answer, gate, banner>>

\* navigateBundle, from the table, the buttons or a node of the graph.
Navigate(idx) ==
    /\ UserStep
    /\ fragment.form \in {"array", "wrapper"}
    /\ loadCapsule(fragment.items[idx])
    /\ IF LoadThrows(fragment.items[idx]) THEN UNCHANGED <<rituals, ritual>>
       ELSE renderRitual(fragment.items, fragment.witness)
    /\ UNCHANGED <<fragment, stage, log, hashing, answer, gate, banner>>

\* The page starts again from what the address bar now holds.
Reload ==
    /\ UserStep
    /\ fragment' = hash
    /\ hash' = hash
    /\ stage' = "loading" /\ focal' = NoItem /\ renders' = << >> /\ graph' = NoItem /\ log' = EmptyLog
    /\ hashing' = << >> /\ rituals' = << >> /\ ritual' = NoRitual /\ regData' = NoItem /\ reg' = NoPanel
    /\ loaded' = FALSE /\ inclusion' = FALSE /\ answer' = "pending" /\ gate' = NoItem /\ banner' = "checking"

-----------------------------------------------------------------------------
(* What comes back.                                                        *)

\* renderAac goes on: the graph and the log are replaced, and renderPrivlog
\* starts to hash revealed terms.
FinishRender(k) ==
    LET r == renders[k]
    IN  /\ renders' = RemoveAt(renders, k)
        /\ graph' = r.item
        /\ log' = [item |-> r.item, rows |-> r.rows]
        /\ hashing' = IF r.hashes THEN Append(hashing, r.item) ELSE hashing
        /\ UNCHANGED <<fragment, hash, stage, focal, rituals, ritual, regData, reg, loaded, inclusion,
                       answer, gate, banner, steps>>

\* Mutant: the row is looked up by what it is called.
RowForByName(item) == {j \in DOMAIN log.rows : log.rows[j].type = "offer_terms"}

\* The rows with this digest in the log as it is now.
RowFor(item) == {j \in DOMAIN log.rows : log.rows[j].digest = item.sealed}

\* The hash of revealed terms arrives: the first row with their digest is set.
FinishHash(k) ==
    LET item  == hashing[k]
        found == RowFor(item)
        match == termsVerdict(item)
    IN  /\ hashing' = RemoveAt(hashing, k)
        /\ log' = IF found = {} THEN log
                  ELSE [log EXCEPT !.rows[Min(found)] =
                            [@ EXCEPT !.withheld = FALSE, !.match = match,
                                      !.text = IF match = "true" THEN item.terms ELSE NoPayload]]
        /\ UNCHANGED <<fragment, hash, stage, focal, renders, graph, rituals, ritual, regData, reg, loaded,
                       inclusion, answer, gate, banner, steps>>

FinishRitual(k) ==
    /\ ritual' = rituals[k]
    /\ rituals' = RemoveAt(rituals, k)
    /\ UNCHANGED <<fragment, hash, stage, focal, renders, graph, log, hashing, regData, reg, loaded,
                   inclusion, answer, gate, banner, steps>>

\* Mutant: the gate is the capsule of a single fragment.
GateItemSingle == IF fragment.form = "single" THEN focal ELSE NoItem

GateItem == focal

\* The fetch ends; its handler reads _activeIntegrityPromise and waits for it.
AnswerArrives(s) ==
    /\ stage = "loaded"
    /\ answer = "pending"
    /\ answer' = s
    /\ gate' = GateItem
    /\ UNCHANGED <<fragment, hash, stage, focal, renders, graph, log, hashing, rituals, ritual, regData, reg,
                   loaded, inclusion, banner, steps>>

\* Mutant: the ritual is of the capsule loaded last.
RitualItemsFocal == IF focal = NoItem THEN << >> ELSE <<focal>>

\* _ritualBundle: the bundle, or the fragment's one item; an empty array is one.
RitualItems ==
    CASE fragment.form \in {"single", "array", "wrapper"} -> fragment.items
      [] fragment.form = "empty" -> <<Other>>
      [] OTHER -> << >>

RitualWith(w) ==
    IF RitualItems = << >> THEN UNCHANGED <<rituals, ritual>> ELSE renderRitual(RitualItems, w)

Witness(held, configured, reachable, verified) ==
    [held |-> held, configured |-> configured, reachable |-> reachable, verified |-> verified]

\* The panel of the capsule loaded last is drawn again with the receipt's rows;
\* if it throws, the chain's catch takes the anchor for unreachable.
Anchored ==
    IF PanelThrows(regData)
    THEN /\ banner' = "offline"
         /\ RitualWith(Witness(0, 0, "false", "none"))
         /\ UNCHANGED <<reg, inclusion>>
    ELSE /\ banner' = "anchored"
         /\ reg' = IF regData = NoItem THEN reg ELSE [item |-> regData, hasReceipt |-> TRUE]
         /\ RitualWith(Witness(1, 1, "true", IF answer = "verified" THEN "true" ELSE "false"))
         /\ inclusion' = ~loaded

Unreachable ==
    /\ banner' = "offline"
    /\ RitualWith(Witness(0, 0, "false", "none"))
    /\ UNCHANGED <<reg, inclusion>>

\* The integrity of the gate's item is known, and the answer is applied.
ApplyAnswer ==
    /\ answer # "pending"
    /\ banner = "checking"
    /\ CASE verifyCapsuleId(gate) = "bad" ->
                /\ banner' = "mismatch"
                /\ RitualWith(Witness(0, 0, "true", "none"))
                /\ UNCHANGED <<reg, inclusion>>
         [] verifyCapsuleId(gate) # "bad" /\ answer = "unreachable" -> Unreachable
         [] verifyCapsuleId(gate) # "bad" /\ answer = "standalone" ->
                /\ banner' = "standalone"
                /\ RitualWith(Witness(0, 1, "true", "none"))
                /\ UNCHANGED <<reg, inclusion>>
         [] OTHER -> Anchored
    /\ UNCHANGED <<fragment, hash, stage, focal, renders, graph, log, hashing, regData, loaded, answer, gate, steps>>

-----------------------------------------------------------------------------

FinishSome ==
    \/ \E k \in DOMAIN renders : FinishRender(k)
    \/ \E k \in DOMAIN hashing : FinishHash(k)
    \/ \E k \in DOMAIN rituals : FinishRitual(k)

Next ==
    \/ RunScript
    \/ \E item \in Pasted : Paste(item)
    \/ \E idx \in DOMAIN fragment.items : Navigate(idx)
    \/ Reload
    \/ FinishSome
    \/ \E s \in Answers : AnswerArrives(s)
    \/ ApplyAnswer

\* Scripts run, promises of the page settle, and fetch answers or fails.
Fairness ==
    /\ WF_vars(RunScript)
    /\ WF_vars(FinishSome)
    /\ WF_vars(\E s \in Answers : AnswerArrives(s))
    /\ WF_vars(ApplyAnswer)

Spec == Init /\ [][Next]_vars /\ Fairness

-----------------------------------------------------------------------------
(* Properties.                                                             *)

WitnessShown == checkWitness(ritual.witness, Len(ritual.items))

\* What the ritual shows of the witness is earned.  Passed: either the fragment
\* declares as many held and checked as there are records, or the log of the
\* anchor verified the one record that there is.  Failed: the fragment declares
\* it, or the anchor has the entry and its receipt did not verify or was not
\* looked at; an anchor that is out of reach, has not answered yet or knows no
\* such entry disproves nothing, whichever renderings are under way.
WitnessIsEarned ==
    ritual # NoRitual =>
        /\ WitnessShown = "pass" =>
              \/ /\ fragment.witness.held >= Len(ritual.items)
                 /\ fragment.witness.configured >= Len(ritual.items)
              \/ answer = "verified" /\ Len(ritual.items) = 1
        /\ WitnessShown = "fail" =>
              \/ answer \in {"failed", "unchecked"}
              \/ fragment.witness.verified = "false"

\* A check that did not run is not a failed one: the witness stage fails only for
\* a receipt that was verified and did not pass, or when the fragment says so.
\* The server reports a receipt it could not check like one that failed, and the
\* page takes it for that.
UncheckedIsNotFailed ==
    ritual # NoRitual /\ WitnessShown = "fail" =>
        answer = "failed" \/ fragment.witness.verified = "false"

\* As long as the reader has done nothing, the page never says "anchored" over
\* a capsule whose body does not hash to its id: in a bundle, the first.
UntouchedPageIsGated ==
    steps = 0 /\ banner = "anchored" /\ HasItems => verifyCapsuleId(fragment.items[1]) # "bad"

\* A row that says "match" shows a payload with the digest of that row, even
\* when the hash was that of a capsule which is no longer on the page.
MatchIsOfTheRow ==
    \A j \in DOMAIN log.rows :
        log.rows[j].match = "true" => log.rows[j].text # NoPayload /\ jcs(log.rows[j].text) = log.rows[j].digest

\* The answer meets the load in whichever order they come: the inclusion-only
\* view, which speaks of an entry whose capsule is not here, is never shown
\* beside a capsule, and the regulatory panel has the rows of a receipt only
\* under the green banner, whatever was loaded between the answer and its use.
AnswerMeetsLoad ==
    /\ inclusion => ~loaded
    /\ reg.hasReceipt => banner = "anchored"

\* The page settles: the banner does not say "checking" for ever, also after a
\* reload, and once the reader is done every rendering is finished, and the
\* ritual of a fragment with items that parse is of that fragment, wrapper or not.
PageSettles ==
    /\ []<>(banner # "checking")
    /\ <>[](/\ renders = << >> /\ hashing = << >> /\ rituals = << >>
            /\ HasItems /\ ~RitualThrows(fragment.items) /\ ~LoadThrows(fragment.items[1])
                   => ritual.items = fragment.items)
=============================================================================
