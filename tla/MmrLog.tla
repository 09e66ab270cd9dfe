------------------------------- MODULE MmrLog -------------------------------
(***************************************************************************)
(* A reader of a checkpointed local log, with the orchestration functions  *)
(* of scitt_cose/cll.py.  It keeps one checkpoint, moves it forward with   *)
(* verify_checkpoint_chain and accepts leaves and ranges of leaves under   *)
(* it.  The log operator is the environment: it appends, and it may also   *)
(* rewrite an entry, rewind the log and grow it again.  A Transparency     *)
(* Service registers checkpoints and receipts are minted over what it      *)
(* registered.  Proofs come from the operator, so every proof over the     *)
(* digests involved is tried, not only the honest one.                     *)
(***************************************************************************)
EXTENDS MmrReference, FiniteSets

CONSTANTS MaxLeaves,    \* bound on the length of a served history
          MaxRewrites,  \* bound on how often the operator rewrites or rewinds
          MaxRange,     \* bound on the number of records in a claimed range
          HomeLog,      \* the name of the log the reader follows
          OtherLogs     \* other names the operator may put on a checkpoint

VARIABLES served,       \* the history the operator serves now
          rewrites,     \* how often it has rewritten or rewound it
          registered,   \* the checkpoints the Transparency Service logged
          held,         \* the checkpoint the reader trusts
          seen,         \* the history behind it (never visible to the reader)
          leaf,         \* a leaf accepted earlier, or NoLeaf
          range         \* a range accepted earlier, or NoRange

readerVars == <<served, rewrites, registered, held, seen, leaf, range>>

Entries == (-MaxLeaves)..MaxLeaves \ {0}

ASSUME MmrLogAssumption ==
    /\ {MaxLeaves, MaxRewrites, MaxRange} \subseteq Nat
    /\ HomeLog \notin OtherLogs
    /\ MAX_MMR_SIZE > node_count(MaxLeaves + 2)

NoLeaf  == [entry |-> 0, index |-> -1, witnessed |-> FALSE, lag |-> 0]
NoRange == [to_seq |-> 0, digests |-> << >>, tip |-> 0]

-----------------------------------------------------------------------------
(* Checkpoints.                                                            *)

\* The fields of a checkpoint the verifiers read; those they only carry into the
\* digest stand still, and the signature is opaque to cll.py and never checked.
Checkpoint(log_id, mmr_size, root) == [log_id |-> log_id, mmr_size |-> mmr_size, root |-> root]

\* Mutant: the root is left out of the digest.
digest_rootless(cp) == <<"digest", cp.log_id, cp.mmr_size>>

digest(cp) == <<"digest", cp.log_id, cp.mmr_size, cp.root>>

ts_entry_hash(cp) == <<"sha256", digest(cp)>>

\* The number of entries "appended since, not yet witnessed" that the status
\* line states beside mmr_size; 0 when it states none, NoCount for a caller
\* that knows no current size.
witness_status_line(mmr_size, current_size) ==
    IF current_size # NoCount /\ current_size > mmr_size THEN current_size - mmr_size ELSE 0

\* A receipt verifies for the entry it was minted over, under the key of the
\* Transparency Service; "none" is a caller that gives no receipt or no key.
verify_receipt(receipt, entry, key) == key = "ts" /\ receipt = entry

\* The second half of verify_leaf_against_checkpoint.
ReceiptOK(cp, receipt, key) ==
    receipt # <<"none">> => key # "none" /\ verify_receipt(receipt, ts_entry_hash(cp), key)

\* inclusion_ok and ok are what verify_inclusion, verify_consistency and
\* verify_range answered for the checkpoints' roots and sizes.
verify_leaf_against_checkpoint(inclusion_ok, cp, receipt, key) ==
    inclusion_ok /\ ReceiptOK(cp, receipt, key)

verify_checkpoint_chain(older, newer, ok) ==
    older.log_id = newer.log_id /\ newer.mmr_size >= older.mmr_size /\ ok

verify_range_against_checkpoint(ok) == ok

-----------------------------------------------------------------------------
(* The proofs worth trying.  A verifier hashes every element of a proof it *)
(* accepts into a root it compares, so with collision-free hashing an      *)
(* element of an accepted proof is a subterm of that root.                 *)

Tuples(S, n) == [1..n -> S]

\* Inclusion proofs of the right shape for a leaf, with peaks that bag to the
\* root together with a digest in the place the leaf's own peak is to fill.
InclusionProofs(h, size, leaf_index) ==
    LET D    == NodesOf(h)
        root == RootOf(h)
        pks  == peaks(size)
        at   == find_containing_peak(leaf_index_to_pos(leaf_index), pks)
    IN  IF at = 0 THEN {}
        ELSE UNION {[kind : {"inclusion"}, size : {size}, leaf_index : {leaf_index},
                     witness : Tuples(D, Len(PathIn(leaf_index_to_pos(leaf_index), pks))),
                     peaks_left : {SubSeq(bag, 1, at - 1)},
                     peaks_right : {SubSeq(bag, at + 1, Len(pks))}] :
                    bag \in {t \in Tuples(D, Len(pks)) : root_from_peaks(t) = root}}

\* Consistency proofs from size_a to the history h.  The old peaks' paths are
\* checked one by one, so a working witness is sought for each peak by itself.
ConsistencyProofs(root_a, size_a, h) ==
    LET D == NodesOf(h)
        size_b == SizeOf(Len(h))
        olds == peaks(size_a)
        old == {o \in Tuples(D, Len(olds)) : OldRootOK(root_a, o)}
        new == {n \in Tuples(D, Len(PeaksOf(h))) : NewRootOK(RootOf(h), n)}
        carry(o, n) ==
            LET ways(i) == {w \in Tuples(D, Len(PathIn(olds[i], peaks(size_b)))) :
                                OldPeakCarried(i, size_a, size_b,
                                               [old_peaks |-> o, new_peaks |-> n,
                                                witness |-> [j \in 1..Len(olds) |-> w]])}
            IN  IF \A i \in 1..Len(olds) : ways(i) # {}
                THEN {[i \in 1..Len(olds) |-> CHOOSE w \in ways(i) : TRUE]}
                ELSE {}
    IN  IF size_a > size_b THEN {}
        ELSE UNION {{[kind |-> "consistency", size_a |-> size_a, size_b |-> size_b,
                      old_peaks |-> o, new_peaks |-> n, witness |-> w] : w \in carry(o, n)} :
                    o \in old, n \in new}

\* How many witness digests a range needs, and the range proofs of that shape.
WitnessLen(size, lo, hi) ==
    RebuiltPeaks(size, lo, hi, [i \in lo..hi |-> 1], [i \in 1..size |-> <<"leaf", 1>>])[2]

RangeProofs(h, size, from_seq, to_seq) ==
    [size : {size}, from_seq : {from_seq}, to_seq : {to_seq},
     from_index : {from_seq - 1}, to_index : {to_seq - 1},
     witness : Tuples(NodesOf(h), WitnessLen(size, from_seq - 1, to_seq - 1))]

-----------------------------------------------------------------------------
(* What the verifiers answer when any proof may be sent, for the histories *)
(* the operator can serve.                                                 *)

ServedHistories ==
    UNION {{SubSeq([i \in 1..MaxLeaves |-> IF i \in neg THEN -i ELSE i], 1, n) : n \in 0..MaxLeaves} :
           neg \in {S \in SUBSET (1..MaxLeaves) : Cardinality(S) <= MaxRewrites}}

\* <<a, b>>: some consistency proof leads from history a to history b.
Extends ==
    {<<p[1], p[2]>> : p \in {q \in ServedHistories \X ServedHistories :
        LET a == q[1]
            b == q[2]
        IN  \E proof \in ConsistencyProofs(RootOf(a), SizeOf(Len(a)), b) :
                verify_consistency(RootOf(a), SizeOf(Len(a)), RootOf(b), SizeOf(Len(b)), proof)}}

\* <<h, index, e>>: some inclusion proof holds for entry e at that index.
Included ==
    {<<p[1], p[2], p[3]>> : p \in {q \in ServedHistories \X (0..(MaxLeaves - 1)) \X Entries :
        LET h == q[1]
        IN  \E proof \in InclusionProofs(h, SizeOf(Len(h)), q[2]) :
                verify_inclusion(RootOf(h), SizeOf(Len(h)), q[2], q[3], proof)}}

\* <<h, to_seq, ds>>: some range proof holds for the k records ds that end at
\* to_seq.  Its size is the proof's own, so sizes the log never had are tried.
RangedTo(h, to_seq, k) ==
    LET from_seq == to_seq - k + 1
        root     == RootOf(h)
        proofs   == RangeProofs(h, SizeOf(to_seq), from_seq, to_seq)
    IN  {<<h, to_seq, ds>> : ds \in {x \in Tuples({h[i] : i \in 1..Len(h)}, k) :
             \E proof \in proofs : verify_range(root, from_seq, to_seq, x, proof)}}

Ranged ==
    UNION {RangedTo(h, to_seq, k) :
           h \in ServedHistories, to_seq \in MaxRange..(MaxLeaves + 1), k \in 1..MaxRange}

-----------------------------------------------------------------------------
(* The operator and the Transparency Service.                              *)

ReaderInit ==
    /\ served = << >>
    /\ rewrites = 0
    /\ registered = {}
    /\ held = Checkpoint(HomeLog, 0, RootOf(<< >>))
    /\ seen = << >>
    /\ leaf = NoLeaf
    /\ range = NoRange

AppendLeaf ==
    /\ Len(served) < MaxLeaves
    /\ served' = Append(served, Len(served) + 1)
    /\ UNCHANGED <<rewrites, registered, held, seen, leaf, range>>

\* Serve a history that differs in one entry, or that is a shorter one.
Rewrite(i) ==
    /\ rewrites < MaxRewrites
    /\ served' \in {[served EXCEPT ![i] = -served[i]], SubSeq(served, 1, i - 1)}
    /\ rewrites' = rewrites + 1
    /\ UNCHANGED <<registered, held, seen, leaf, range>>

\* The checkpoint the operator issues over the history it serves.
Issued(log_id) == Checkpoint(log_id, SizeOf(Len(served)), RootOf(served))

Register ==
    /\ registered = {} /\ leaf = NoLeaf /\ range = NoRange
    /\ registered' = {[cp |-> Issued(held.log_id), history |-> served]}
    /\ UNCHANGED <<served, rewrites, held, seen, leaf, range>>

-----------------------------------------------------------------------------
(* The reader.                                                             *)

AdvanceCheckpoint(log_id) ==
    /\ verify_checkpoint_chain(held, Issued(log_id), <<seen, served>> \in Extends)
    /\ held' = Issued(log_id)
    /\ seen' = served
    /\ UNCHANGED <<served, rewrites, registered, leaf, range>>

\* One fact is followed at a time.  What a proof can show under the held
\* checkpoint does not depend on what is served, so it is taken up at once.
Accepting == served = seen /\ leaf = NoLeaf /\ range = NoRange

\* The receipts at hand: none, or one for a registered checkpoint.
ReceiptsAtHand == {<<"none">>} \cup {ts_entry_hash(r.cp) : r \in registered}

\* The caller knows the size the log reaches in the end: current_size.
AcceptLeaf(e, index, receipt, key) ==
    /\ Accepting
    /\ verify_leaf_against_checkpoint(<<seen, index, e>> \in Included, held, receipt, key)
    /\ leaf' = [entry |-> e, index |-> index, witnessed |-> receipt # <<"none">>,
                lag |-> witness_status_line(held.mmr_size, SizeOf(MaxLeaves))]
    /\ UNCHANGED <<served, rewrites, registered, held, seen, range>>

AcceptRange(to_seq, digests) ==
    /\ Accepting
    /\ verify_range_against_checkpoint(<<seen, to_seq, digests>> \in Ranged)
    /\ range' = [to_seq |-> to_seq, digests |-> digests, tip |-> Len(seen)]
    /\ UNCHANGED <<served, rewrites, registered, held, seen, leaf>>

ReaderNext ==
    \/ AppendLeaf
    \/ \E i \in 1..Len(served) : Rewrite(i)
    \/ Register
    \/ \E id \in OtherLogs \cup {HomeLog} : AdvanceCheckpoint(id)
    \/ \E index \in 0..(Len(seen) - 1), e \in Entries, receipt \in ReceiptsAtHand,
          key \in {"ts", "none"} :
            AcceptLeaf(e, index, receipt, key)
    \/ \E r \in Ranged : r[1] = seen /\ AcceptRange(r[2], r[3])

ReaderSpec == ReaderInit /\ [][ReaderNext]_readerVars

-----------------------------------------------------------------------------
(* Properties.                                                             *)

\* What the reader accepted leaf by leaf, as LogView states it.
Accepted == IF leaf = NoLeaf THEN {} ELSE {<<leaf.index + 1, leaf.entry>>}

View == INSTANCE LogView WITH view <- seen, accepted <- Accepted

(* The reader of a checkpointed local log is a reader of an append-only log:
   no proof makes verify_checkpoint_chain accept a rewound or rewritten log,
   and no proof makes verify_leaf_against_checkpoint accept an entry the
   checkpoint's history does not have at that index. *)
ImplementsLogView == View!Spec

(* A leaf accepted with a receipt was registered: the Transparency Service
   logged a checkpoint of the reader's log whose history has that entry at that
   index, whatever the operator served before or since. *)
WitnessedLeafWasRegistered ==
    leaf.witnessed =>
        \E r \in registered :
            /\ r.cp.log_id = HomeLog
            /\ leaf.index < Len(r.history) /\ r.history[leaf.index + 1] = leaf.entry

(* The records of an accepted range are the last records of the checkpoint's
   history, none left out, replaced or reordered, even when the proof names
   a size the log never had. *)
RangeIsTheTip ==
    range # NoRange =>
        LET k == Len(range.digests)
        IN  /\ k <= range.tip
            /\ range.digests = SubSeq(seen, range.tip - k + 1, range.tip)

(* What verify_range_against_checkpoint says of an accepted range: that the
   records from_seq to to_seq are present under the checkpoint. *)
RangeIsOfTheCheckpoint ==
    range # NoRange => range.to_seq <= range.tip
=============================================================================
