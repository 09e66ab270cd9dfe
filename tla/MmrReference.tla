---------------------------- MODULE MmrReference ----------------------------
(***************************************************************************)
(* What a mountain range is, apart from the position arithmetic of cll.py: *)
(* leaves are appended one by one and the last two mountains are merged    *)
(* while they have the same height.  The log that does this, and mints the *)
(* proofs, is another program (checkpointed-local-log); it is known here   *)
(* by the digests and the proofs the verifiers expect.                     *)
(***************************************************************************)
EXTENDS Mmr, SequencesExt

\* A subtree is <<position of its root, height, first leaf>>.
LeftOf(t)  == <<t[1] - TwoTo[t[2]], t[2] - 1, t[3]>>
RightOf(t) == <<t[1] - 1, t[2] - 1, t[3] + TwoTo[t[2] - 1]>>
Covers(t, i) == t[3] <= i /\ i < t[3] + TwoTo[t[2]]

\* The mountains of a log of n leaves, left to right.
Mountains(n) ==
    LET merge[ms \in Seq(Nat \X Nat \X Nat)] ==
            LET k == Len(ms)
            IN  IF k >= 2 /\ ms[k - 1][2] = ms[k][2]
                THEN merge[Append(SubSeq(ms, 1, k - 2),
                                  <<ms[k][1] + 1, ms[k][2] + 1, ms[k - 1][3]>>)]
                ELSE ms
        add[i \in Nat] ==
            IF i = 0 THEN << >>
            ELSE LET ms == add[i - 1]
                 IN  merge[Append(ms, <<IF i = 1 THEN 0 ELSE Last(ms)[1] + 1, 0, i - 1>>)]
    IN  add[n]

\* The number of nodes of a log of n leaves.
SizeOf(n) == IF n = 0 THEN 0 ELSE Last(Mountains(n))[1] + 1

\* The digest of a subtree of history h.
NodeOf(h, t0) ==
    LET node[t \in Int \X Nat \X Nat] ==
            IF t[2] = 0 THEN leaf_hash(h[t[3] + 1])
            ELSE interior_hash(node[LeftOf(t)], node[RightOf(t)], t[1])
    IN  node[t0]

PeaksOf(h) == LET ms == Mountains(Len(h)) IN [i \in 1..Len(ms) |-> NodeOf(h, ms[i])]

RootOf(h) == root_from_peaks(PeaksOf(h))

\* The subtrees of a log of n leaves.
Subtrees(n) ==
    LET under[t \in Int \X Nat \X Nat] ==
            {t} \cup IF t[2] = 0 THEN {} ELSE under[LeftOf(t)] \cup under[RightOf(t)]
    IN  UNION {under[Mountains(n)[i]] : i \in 1..Len(Mountains(n))}

\* The digests of the nodes of a history and of its partly bagged peaks.
NodesOf(h) ==
    LET ps == PeaksOf(h)
    IN  {NodeOf(h, t) : t \in Subtrees(Len(h))}
        \cup {root_from_peaks(SubSeq(ps, i, Len(ps))) : i \in 1..Len(ps)}

-----------------------------------------------------------------------------
(* The proofs an honest log mints.                                         *)

\* The siblings from a subtree with first leaf i and height low up to t0, innermost first.
Siblings(h, t0, i, low) ==
    LET up[t \in Int \X Nat \X Nat] ==
            IF t[2] = low THEN << >>
            ELSE IF Covers(LeftOf(t), i) THEN Append(up[LeftOf(t)], NodeOf(h, RightOf(t)))
            ELSE Append(up[RightOf(t)], NodeOf(h, LeftOf(t)))
    IN  up[t0]

MountainOver(ms, i) == CHOOSE k \in 1..Len(ms) : Covers(ms[k], i)

inclusion_proof(h, leaf_index) ==
    LET ms == Mountains(Len(h))
        at == MountainOver(ms, leaf_index)
    IN  [kind |-> "inclusion", size |-> SizeOf(Len(h)), leaf_index |-> leaf_index,
         witness |-> Siblings(h, ms[at], leaf_index, 0),
         peaks_left |-> SubSeq(PeaksOf(h), 1, at - 1),
         peaks_right |-> SubSeq(PeaksOf(h), at + 1, Len(ms))]

consistency_proof(h, m) ==
    LET olds == Mountains(m)
        news == Mountains(Len(h))
    IN  [kind |-> "consistency", size_a |-> SizeOf(m), size_b |-> SizeOf(Len(h)),
         old_peaks |-> PeaksOf(SubSeq(h, 1, m)), new_peaks |-> PeaksOf(h),
         witness |-> [i \in 1..Len(olds) |->
                         Siblings(h, news[MountainOver(news, olds[i][3])], olds[i][3], olds[i][2])]]

range_proof(h, from_seq) ==
    LET lo == from_seq - 1
        outer[t \in Int \X Nat \X Nat] ==       \* the maximal subtrees before the range
            IF t[3] + TwoTo[t[2]] <= lo THEN <<NodeOf(h, t)>>
            ELSE IF t[3] >= lo THEN << >>
            ELSE outer[LeftOf(t)] \o outer[RightOf(t)]
        ms == Mountains(Len(h))
        all[k \in Nat] == IF k = 0 THEN << >> ELSE all[k - 1] \o outer[ms[k]]
    IN  [size |-> SizeOf(Len(h)), from_seq |-> from_seq, to_seq |-> Len(h),
         from_index |-> lo, to_index |-> Len(h) - 1, witness |-> all[Len(ms)]]
=============================================================================
