--------------------------- MODULE WitnessEvidence --------------------------
(***************************************************************************)
(* viewer/src/witness.js: the check of a bundle's witness evidence that    *)
(* runs in the reader's browser.  The check is one async function; every   *)
(* action below is the stretch between two of its awaits, and what it      *)
(* reads of the bundle is chosen when it is read.  Whoever made the bundle *)
(* holds the log's key and may sign any checkpoint with it; a witness      *)
(* signs the roots of its own log and nothing else.  Signatures and hashes *)
(* are symbolic, mountain ranges are the operators of Mmr and witness logs *)
(* the trees of Merkle.                                                    *)
(***************************************************************************)
EXTENDS MmrReference, FiniteSets

CONSTANTS CADENCE_DEPTH,   \* levels of a cadence entry's tree; 16 in the code
          MAX_TREE_SIZE,   \* merkle.py's ceiling on a tree size; 2^62 in the code
          MAX_SAFE_INTEGER,\* JavaScript's largest safe integer, 2^53 - 1
          Histories,       \* the histories of the bundle's log that are tried
          Placements,      \* a witness's logs: TRUE where the entry looked for is
          MaxReceipts,     \* bound on the receipts of one checkpoint
          MaxDefects       \* bound on the deviations from an honest bundle

ASSUME PlacementsAssumption ==
    /\ MAX_TREE_SIZE \in Nat \ {0}
    /\ MAX_SAFE_INTEGER \in 1..MAX_TREE_SIZE
    /\ \A places \in Placements : places \in Seq(BOOLEAN) /\ Len(places) \in 1..MAX_TREE_SIZE

ASSUME HistoriesAssumption ==
    /\ CADENCE_DEPTH \in Nat
    /\ \A h \in Histories : h \in Seq(Int)

VARIABLES pc,              \* the next stretch of the check
          list,            \* the reader's witness list: NoList or <<its rows>>
          cp,              \* the bundle's signed checkpoint once decoded
          chain,           \* the cadence chain, or << >>
          leafCp,          \* the checkpoint that is the chain's leaf
          target,          \* the checkpoint whose receipts are checked
          logs,            \* each witness's log: a sequence of entry hashes
          receipts,        \* the receipts checked so far, each with its status
          out,             \* the result
          defects          \* how many deviations the bundle holds

vars == <<pc, list, cp, chain, leafCp, target, logs, receipts, out, defects>>

M == INSTANCE Merkle

-----------------------------------------------------------------------------
(* Checkpoints.  A decoded COSE_Sign1 with the fields the profile reads;   *)
(* form says that every check of encoding, header and claim types passes.  *)

Keys      == {"log-key", "other-key"}
Witnesses == {"w1", "w2"}

\* A checkpoint as an honest signer makes it, over history h with its first
\* prev leaves covered by the previous checkpoint; seal is the signing key.
Signed(logId, h, prev, key) ==
    [form |-> TRUE, logId |-> logId, kid |-> key, seal |-> key, history |-> h,
     size |-> SizeOf(Len(h)), subject |-> <<logId, SizeOf(Len(h))>>, peaks |-> PeaksOf(h),
     prevSize |-> SizeOf(prev), prevPeaks |-> PeaksOf(SubSeq(h, 1, prev)),
     proof |-> IF prev = 0 THEN << >> ELSE <<consistency_proof(h, prev)>>,
     issuedAt |-> "time"]

\* What may be wrong with a signed checkpoint.
Defect(c, d) ==
    CASE d = "form"     -> [c EXCEPT !.form = FALSE]
      [] d = "subject"  -> [c EXCEPT !.subject = <<c.logId, c.size + 1>>]
      [] d = "peaks"    -> [c EXCEPT !.peaks = Append(@, leaf_hash(1))]
      [] d = "prev"     -> [c EXCEPT !.prevPeaks = <<leaf_hash(1)>> \o @]
      [] d = "proof"    -> [c EXCEPT !.proof = IF @ = << >> THEN <<[kind |-> "none"]>> ELSE << >>]
      [] d = "seal"     -> [c EXCEPT !.seal = "nobody"]
      [] d = "issuedAt" -> [c EXCEPT !.issuedAt = "not-a-time"]
      [] OTHER          -> c

Defects == {"form", "subject", "peaks", "prev", "proof", "seal", "issuedAt"}

root(c) == root_from_peaks(c.peaks)

prevRoot(c) == IF c.prevSize = 0 THEN <<"no-root">> ELSE root_from_peaks(c.prevPeaks)

\* A first checkpoint carries nothing of a previous one, a later one proves
\* that it extends it.
ExtendsPrevious(c) ==
    IF c.prevSize = 0 THEN c.prevPeaks = << >> /\ c.proof = << >>
    ELSE /\ c.proof # << >>
         /\ verify_consistency(prevRoot(c), c.prevSize, root(c), c.size, c.proof[1])

\* The key is the one the checkpoint names.
verifyCheckpoint(c) ==
    /\ c.form
    /\ c.size >= 1 /\ c.prevSize < c.size
    /\ c.subject = <<c.logId, c.size>>
    /\ peaks(c.size) # NoPeaks /\ Len(c.peaks) = Len(peaks(c.size))
    /\ ExtendsPrevious(c)
    /\ c.seal = c.kid

\* The signed bytes, and the entry a witness logs for a checkpoint.
Cose(c) == <<"cose", c.logId, c.kid, c.seal, c.size, c.peaks, c.prevSize, c.prevPeaks, c.issuedAt>>

checkpointEntryHash(c) ==
    <<"entry", c.logId, c.size, root(c), c.prevSize, prevRoot(c), c.kid, c.issuedAt>>

-----------------------------------------------------------------------------
(* Receipts.                                                               *)

expectedPath(size, index) ==
    LET steps[p \in (0..size) \X Nat] ==
            LET nodes    == p[1]
                position == p[2]
                split    == M!largest_pow2_below(nodes)
            IN  IF nodes <= 1 THEN 0
                ELSE IF position < split THEN 1 + steps[<<split, position>>]
                ELSE 1 + steps[<<nodes - split, position - split>>]
    IN  steps[<<size, index>>]

\* Mutant: the size may be any number.
PathShapeUnbounded(index, size, path) ==
    0 <= index /\ index < size /\ Len(path) = expectedPath(size, index)

\* A size that is a safe integer makes the index one: it is below it.
PathShapeOK(index, size, path) ==
    /\ size <= MAX_SAFE_INTEGER
    /\ 0 <= index /\ index < size /\ Len(path) = expectedPath(size, index)

\* fold pops its sibling off the path's end before it calls itself; undefined
\* when there is none, or when one is left.  It gives <<digest, siblings left>>.
receiptRoot(entry, index, size, path) ==
    LET fold[p \in (1..size) \X Nat \X Nat] ==
            LET nodes    == p[1]
                position == p[2]
                siblings == p[3]
                split    == M!largest_pow2_below(nodes)
                left     == position < split
                child    == IF left THEN fold[<<split, position, siblings - 1>>]
                                    ELSE fold[<<nodes - split, position - split, siblings - 1>>]
            IN  IF nodes = 1 THEN <<M!leaf_hash(entry), siblings>>
                ELSE IF siblings = 0 THEN M!NoRoot
                ELSE IF child = M!NoRoot THEN M!NoRoot
                ELSE <<IF left THEN M!node_hash(child[1], path[siblings])
                               ELSE M!node_hash(path[siblings], child[1]),
                       child[2]>>
        rebuilt == fold[<<size, index, Len(path)>>]
    IN  IF /\ PathShapeOK(index, size, path)
           /\ rebuilt # M!NoRoot
           /\ rebuilt[2] = 0
        THEN rebuilt[1] ELSE M!NoRoot

\* A receipt: proof = <<tree size, leaf index, path>>, signed over a root.
verifyReceipt(entry, r, leafIndex, treeSize, key) ==
    LET rebuilt == receiptRoot(entry, leafIndex, treeSize, r.proof[3])
    IN  /\ r.form /\ r.proof[1] = treeSize /\ r.proof[2] = leafIndex
        /\ rebuilt # M!NoRoot
        /\ r.seal = <<key, rebuilt>>

NoList == << >>

\* A row's key ids are hashes of the public keys it carries, or raw keys.  A
\* hash whose key the row does not carry is read as a raw key nobody holds.
rowKeys(row) ==
    {IF id[1] = "raw" \/ id[2] \in row.public_keys THEN id[2] ELSE "nobody" :
        id \in row.key_ids}

\* The first row that matches; the lists tried have one row for a witness.
RowsFor(url) == {row \in UNION {list[i] : i \in 1..Len(list)} : row.binding = url[1] /\ row.endpoint = url[2]}

EntryMatches(entry, e) == e.entry_hash = entry

\* Mutant: the key of the receipt's own signature is taken.
KeysTaken(url, e) == {e.receipt.seal[1]}

KeysFor(url, e) == UNION {rowKeys(row) : row \in RowsFor(url)}

\* Without a list, a row or a key of a supported kind a receipt is present, not
\* checked.
Withheld(e) ==
    list = NoList \/ RowsFor(e.ts_url) = {} \/ e.ts_url[1] # "cll" \/ KeysFor(e.ts_url, e) = {}

\* The status of one receipt e for the entry of a checkpoint.
ReceiptStatus(entry, e) ==
    IF ~EntryMatches(entry, e) THEN "fail"
    ELSE IF Withheld(e) THEN "withheld"
    ELSE IF \E key \in KeysFor(e.ts_url, e) :
               verifyReceipt(entry, e.receipt, e.leaf_index, e.tree_size, key)
    THEN "pass" ELSE "fail"

\* Mutant: one receipt that passes is enough.
overall_any(statuses) ==
    IF "pass" \in statuses THEN "pass" ELSE IF "fail" \in statuses THEN "fail" ELSE "withheld"

overall(statuses) ==
    IF "fail" \in statuses THEN "fail" ELSE IF "pass" \in statuses THEN "pass" ELSE "withheld"

-----------------------------------------------------------------------------
(* What a bundle may carry.                                                *)

Checkpoints(logId) ==
    {Signed(logId, h, prev, key) : h \in Histories, prev \in {0, 1}, key \in Keys}

\* Up to a number of defects in all.
Flawed(c) == {<<c, 0>>} \cup
             (IF defects < MaxDefects THEN {<<Defect(c, d), 1>> : d \in Defects} ELSE {})

Rows ==
    {[binding |-> "cll", endpoint |-> "w1", key_ids |-> ids, public_keys |-> {"w1"}] :
        ids \in {{<<"raw", "w1">>}, {<<"hash", "w1">>}, {<<"hash", "w2">>}, {},
                 {<<"raw", "w2">>, <<"raw", "w1">>}}}
    \cup {[binding |-> "rekor", endpoint |-> "w1", key_ids |-> {<<"raw", "w1">>},
           public_keys |-> {}]}

Lists == {NoList, <<{}>>} \cup {<<{row}>> : row \in Rows}

\* The logs of the witnesses around the entry that is looked for.
Foreign == <<"entry", "of-something-else">>
LogsAround(entry) ==
    {[w \in Witnesses |-> IF w = "w1" THEN [i \in 1..Len(places) |-> IF places[i] THEN entry ELSE Foreign]
                                      ELSE <<Foreign>>] : places \in Placements}

\* A receipt as a witness mints it for an index of its log at some size, as
\* the bundle carries it: url, entry hash and indices are the bundle's words.
Minted(w, n, i) ==
    [form |-> TRUE, proof |-> <<n, i, M!inclusion_proof(SubSeq(logs[w], 1, n), i)>>,
     seal |-> <<w, M!merkle_root(SubSeq(logs[w], 1, n))>>]

Carried(w, n, i, url, entry) ==
    [ts_url |-> url, entry_hash |-> entry, receipt |-> Minted(w, n, i), leaf_index |-> i,
     tree_size |-> n, minter |-> w]

\* Its size and index replaced by others, in the bundle and in the proof alike,
\* with a path of the length they call for: neither of the two is signed.
Claimed(e, n, i) ==
    LET minted == e.receipt.proof[3]
    IN  [e EXCEPT !.leaf_index = i, !.tree_size = n,
                  !.receipt.proof = <<n, i, [k \in 1..expectedPath(n, i) |->
                      IF k <= Len(minted) THEN minted[k] ELSE M!leaf_hash(Foreign)]>>]

SizesClaimed == 1..(MAX_TREE_SIZE + 1)

ReceiptEdits(e) ==
    (UNION {{Claimed(e, n, i) : i \in 0..(n - 1)} : n \in SizesClaimed}) \cup
    {e, [e EXCEPT !.receipt.form = FALSE], [e EXCEPT !.leaf_index = @ + 1],
     [e EXCEPT !.receipt.proof[3] = Append(@, M!leaf_hash(Foreign))],
     [e EXCEPT !.entry_hash = Foreign]}

Urls == {<<"cll", "w1">>, <<"cll", "w2">>, <<"rekor", "w1">>}

Honest(entry) ==
    UNION {UNION {{Carried(w, Len(logs[w]), i, url, entry) : i \in 0..(Len(logs[w]) - 1)} : url \in Urls} :
           w \in Witnesses}

\* The receipts for a checkpoint's entry, each with the deviations it adds.
Receipts(entry) ==
    (Honest(entry) \X {0}) \cup
    (IF defects < MaxDefects THEN (UNION {ReceiptEdits(e) : e \in Honest(entry)}) \X {1} ELSE {})

-----------------------------------------------------------------------------
(* The check.                                                              *)

NoRung == "none"

Result(status) == [checkpoint |-> "withheld", status |-> status, rung |-> NoRung, chain |-> "none",
                   stepsWitnessed |-> 0, steps |-> 0]

Init ==
    /\ pc = "start"
    /\ list \in Lists
    /\ cp = << >> /\ chain = << >> /\ leafCp = << >> /\ target = << >>
    /\ logs = << >>
    /\ receipts = {}
    /\ out = Result("absent")
    /\ defects = 0

Settle(result) == pc' = "done" /\ out' = result

\* The function has no catch of its own around some calls: its promise rejects.
Reject == pc' = "rejected" /\ UNCHANGED out

\* checkpoint.cose is no string, or it is not base64url.
NoCheckpoint ==
    /\ pc = "start"
    /\ \/ Settle(out)
       \/ Settle([Result("fail") EXCEPT !.checkpoint = "fail"])
    /\ UNCHANGED <<list, cp, chain, leafCp, target, logs, receipts, defects>>

\* The bundle's own copy of log id, size and root, where it has one.
StatedMatches(stated, c) == stated = << >> \/ stated = <<c.logId, c.size, root(c)>>

\* verifyCheckpoint of the bundle's checkpoint, then the comparison.
CheckCheckpoint ==
    /\ pc = "start"
    /\ \E c \in {x \in Checkpoints("log") : x.kid = "log-key"} : \E f \in Flawed(c) :
       \E stated \in {<< >>} \cup {<<"log", SizeOf(Len(h)), RootOf(h)>> : h \in Histories} :
          /\ cp' = f[1]
          /\ defects' = defects + f[2]
          /\ IF verifyCheckpoint(f[1]) /\ StatedMatches(stated, f[1])
             THEN pc' = "evidence" /\ out' = [out EXCEPT !.checkpoint = "pass"]
             ELSE Settle([Result("fail") EXCEPT !.checkpoint = "fail"])
    /\ UNCHANGED <<list, chain, leafCp, target, logs, receipts>>

\* The first of the chain's names that the bundle carries decides; a chain that
\* says "witnessed" leaves the direct receipts unread.
TakeChain ==
    /\ pc = "evidence"
    /\ \E extent \in {"part", "full"} : chain' = [extent |-> extent]
    /\ leafCp' = cp
    /\ pc' = IF chain'.extent = "part" THEN "earlier" ELSE "leaf"
    /\ UNCHANGED <<list, cp, target, logs, receipts, out, defects>>

\* No chain, or one that does not say "witnessed".
TakeDirect ==
    /\ pc = "evidence"
    /\ \/ Settle(out) /\ UNCHANGED <<target, logs>>
       \/ /\ cp.issuedAt = "time"
          /\ target' = cp
          /\ logs' \in LogsAround(checkpointEntryHash(cp))
          /\ pc' = "receipts" /\ UNCHANGED out
       \/ /\ cp.issuedAt # "time"                   \* goRFC3339Nano throws
          /\ Reject /\ UNCHANGED <<target, logs>>
    /\ UNCHANGED <<list, cp, chain, leafCp, receipts, defects>>

FailChain == Settle([out EXCEPT !.chain = "fail", !.status = "fail"])

EarlierOfThisLog(prior) ==
    prior.kid = cp.kid /\ prior.logId = cp.logId /\ prior.size < cp.size

\* The proof that comes with it: the log's own, for the earlier size, which may
\* name the peaks of another history as the old ones.
EarlierProof(prior) ==
    IF Len(prior.history) <= Len(cp.history)
    THEN [consistency_proof(cp.history, Len(prior.history)) EXCEPT !.old_peaks = prior.peaks]
    ELSE [kind |-> "consistency", size_a |-> prior.size, size_b |-> cp.size,
          old_peaks |-> prior.peaks, new_peaks |-> cp.peaks,
          witness |-> [i \in 1..Len(prior.peaks) |-> << >>]]

CheckEarlier ==
    /\ pc = "earlier"
    /\ \E logId \in {"log", "other-log"} : \E c \in Checkpoints(logId) : \E f \in Flawed(c) :
          LET prior == f[1]
              ok == /\ verifyCheckpoint(prior) /\ EarlierOfThisLog(prior)
                    /\ verify_consistency(root(prior), prior.size, root(cp), cp.size,
                                          EarlierProof(prior))
          IN  /\ defects' = defects + f[2]
              /\ IF ok THEN leafCp' = prior /\ pc' = "leaf" /\ UNCHANGED out
                       ELSE FailChain /\ UNCHANGED leafCp
    /\ UNCHANGED <<list, cp, chain, target, logs, receipts>>

\* A leaf of a cadence entry's tree, and the entry its path leads to.
cadenceLeaf(c) == <<"cadence-leaf", c.logId, c.size, Cose(c)>>

CadenceEntry(c, index) ==
    LET climb[level \in Nat] ==
            IF level = 0 THEN cadenceLeaf(c)
            ELSE LET sib == <<"sibling", level>>
                 IN  IF (index \div TwoTo[level - 1]) % 2 = 1 THEN M!node_hash(sib, climb[level - 1])
                                                          ELSE M!node_hash(climb[level - 1], sib)
    IN  climb[CADENCE_DEPTH]

\* The chain names its leaf, and the path is climbed; a path element that is
\* not hex throws.
ClimbChain ==
    /\ pc = "leaf"
    /\ \E index \in 0..TwoTo[CADENCE_DEPTH], named \in {leafCp.size, leafCp.size + 1},
          path \in {"ok", "short", "not-hex"} :
          IF named # leafCp.size \/ index >= TwoTo[CADENCE_DEPTH] \/ path = "short"
          THEN FailChain /\ UNCHANGED chain
          ELSE IF path = "not-hex" THEN Reject /\ UNCHANGED chain
          ELSE /\ chain' = [extent |-> chain.extent, node |-> CadenceEntry(leafCp, index)]
               /\ pc' = "cadence" /\ UNCHANGED out
    /\ UNCHANGED <<list, cp, leafCp, target, logs, receipts, defects>>

\* The cadence log around the entry: its entries are nodes of such trees.
CadenceHistories == {<<chain.node>>, <<Foreign, chain.node>>, <<Foreign, Foreign>>}

\* Mutant: the cadence checkpoint may be signed by anyone.
CadenceKeyAny(cadence) == cadence.kid \in Keys

CadenceKeyOK(cadence) == cadence.kid = cp.kid

\* The cadence checkpoint, its log id and the inclusion of the entry in it.
CheckCadence ==
    /\ pc = "cadence"
    /\ \E h \in CadenceHistories, key \in Keys, logId \in {"cadence", "other-cadence"} :
       \E f \in Flawed(Signed("cadence", h, 0, key)), i \in 0..(Len(h) - 1) :
          LET cadence == f[1]
              ok == /\ verifyCheckpoint(cadence) /\ CadenceKeyOK(cadence)
                    /\ logId = cadence.logId
                    /\ verify_inclusion(root(cadence), cadence.size, i, chain.node,
                                        inclusion_proof(h, i))
          IN  /\ defects' = defects + f[2]
              /\ IF ok /\ cadence.issuedAt = "time"
                 THEN /\ target' = cadence
                      /\ logs' \in LogsAround(checkpointEntryHash(cadence))
                      /\ out' = [out EXCEPT !.chain = "pass"]
                      /\ pc' = "receipts"
                 ELSE /\ IF ok THEN Reject ELSE FailChain
                      /\ UNCHANGED <<target, logs>>
    /\ UNCHANGED <<list, cp, chain, leafCp, receipts>>

\* The witnesses the list names for the receipt's url, whether one's log has the
\* entry, and whether the page rebuilds the root that merkle.py does, or none
\* where the claimed size is not a safe integer.
Named(e) == {w \in Witnesses : \E row \in RowsFor(e.ts_url) : w \in rowKeys(row)}

Holds(w, entry) == \E i \in 1..Len(logs[w]) : logs[w][i] = entry

SameRoot(entry, e) ==
    LET path == e.receipt.proof[3]
    IN  receiptRoot(entry, e.leaf_index, e.tree_size, path) =
        IF e.tree_size <= MAX_SAFE_INTEGER
        THEN M!root_from_inclusion_proof(entry, e.leaf_index, e.tree_size, path)
        ELSE M!NoRoot

\* The receipt f[1] is unedited, a named witness's, for the entry at its index
\* and minted for a size that is a safe integer.
IsOwn(entry, f) ==
    LET e == f[1]
    IN  /\ f[2] = 0 /\ e.minter \in Named(e)
        /\ e.tree_size <= MAX_SAFE_INTEGER
        /\ logs[e.minter][e.leaf_index + 1] = entry

\* One turn of checkReceipts' loop.  What is kept of a receipt is its status,
\* and what is true of it: that a named witness holds the entry, that the receipt
\* is that witness's own and unedited, and that the page's root is merkle.py's.
CheckReceipt ==
    LET entry == checkpointEntryHash(target)
    IN  /\ pc = "receipts" /\ Cardinality(receipts) < MaxReceipts
        /\ \E f \in Receipts(entry) :
              LET e == f[1]
              IN  /\ defects' = defects + f[2]
                  /\ receipts' = receipts \cup
                        {[status |-> ReceiptStatus(entry, e),
                          held   |-> \E w \in Named(e) : Holds(w, entry),
                          own    |-> IsOwn(entry, f),
                          port   |-> SameRoot(entry, e)]}
        /\ UNCHANGED <<pc, list, cp, chain, leafCp, target, logs, out>>

Statuses == {r.status : r \in receipts}

StepsIn(size) == leaf_count(size)

\* The rung is set only when a receipt passed; in part, with the steps covered.
Conclude ==
    LET status == IF receipts = {} THEN "withheld" ELSE overall(Statuses)
        part == chain # << >> /\ chain.extent = "part"
    IN  /\ pc = "receipts" /\ (chain # << >> \/ receipts # {})
        /\ Settle([out EXCEPT !.status = status,
              !.rung = IF status # "pass" THEN NoRung ELSE IF part THEN "witnessed_in_part" ELSE "witnessed",
              !.stepsWitnessed = IF status = "pass" /\ part THEN StepsIn(leafCp.size) ELSE 0,
              !.steps = IF status = "pass" /\ part THEN StepsIn(cp.size) ELSE 0])
        /\ UNCHANGED <<list, cp, chain, leafCp, target, logs, receipts, defects>>

Next ==
    \/ NoCheckpoint
    \/ CheckCheckpoint
    \/ TakeChain
    \/ TakeDirect
    \/ CheckEarlier
    \/ ClimbChain
    \/ CheckCadence
    \/ CheckReceipt
    \/ Conclude

Spec == Init /\ [][Next]_vars

-----------------------------------------------------------------------------
(* Properties.                                                             *)

Done == pc = "done"

\* What the page says of the result.
describeWitness ==
    IF out.status = "fail" THEN "failed"
    ELSE IF out.checkpoint # "pass" THEN "no-signed-checkpoint"
    ELSE IF out.rung # NoRung THEN out.rung
    ELSE IF receipts # {} THEN "present-not-checked" ELSE "signed-only"

(* When the page says that a witness holds the bundle's checkpoint, a witness
   that the reader's list names does: its log has the entry of the bundle's own
   checkpoint, or of a cadence checkpoint whose log has an entry over the
   bundle's checkpoint or, in part, over an earlier one whose history the
   bundle's extends.  All of them are signed by the key the bundle's checkpoint
   names.  In part says how much: the entries of the earlier checkpoint's
   history, of those of the bundle's, and always fewer. *)
WitnessedMeansHeld ==
    (Done /\ describeWitness \in {"witnessed", "witnessed_in_part"}) =>
        /\ \E r \in receipts : r.status = "pass" /\ r.held
        /\ cp.seal = cp.kid /\ target.seal = cp.kid
        /\ chain = << >> => target = cp
        /\ chain # << >> =>
               /\ leafCp.seal = cp.kid
               /\ \E i \in 1..Len(target.history), index \in 0..(TwoTo[CADENCE_DEPTH] - 1) :
                      target.history[i] = CadenceEntry(leafCp, index)
               /\ IsPrefix(leafCp.history, cp.history)
               /\ chain.extent = "full" => leafCp = cp
        /\ out.rung = "witnessed_in_part" =>
               /\ out.stepsWitnessed = Len(leafCp.history)
               /\ out.steps = Len(cp.history)
               /\ 0 < out.stepsWitnessed /\ out.stepsWitnessed < out.steps

(* A receipt passes only if a witness the list names for its url holds the
   entry, whatever size, index and path it claims; the size and the index are
   not signed, so it need not hold it there.  A named witness's own receipt,
   unedited, never fails as long as the size is a safe integer.  From every
   receipt, edited ones included, the page rebuilds the root that merkle.py
   rebuilds and refuses what it refuses, up to that size; beyond it the page
   refuses every receipt, which merkle.py goes on taking up to its ceiling. *)
ReceiptsPassWhenHeld ==
    \A r \in receipts :
        /\ r.status = "pass" => r.held
        /\ r.own => r.status # "fail"
        /\ r.port

(* A failure is always named: the verdict is FAILED exactly when the signed
   checkpoint, the chain or a receipt is shown as failed, so a failing receipt
   is never outvoted and a failed check never comes without its reason. *)
FailureIsNamed ==
    Done => (describeWitness = "failed" <=>
                "fail" \in {out.checkpoint, out.chain} \cup Statuses)
=============================================================================
