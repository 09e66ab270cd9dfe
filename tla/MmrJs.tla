-------------------------------- MODULE MmrJs -------------------------------
(***************************************************************************)
(* MMR_JS of hosted_profiles/hosted.py: the port of the mountain range     *)
(* verifiers that a reader's browser runs.  Where Mmr states what cll.py   *)
(* computes, this module runs the loops of the port, one turn or one await *)
(* to a step, on a call chosen at the start: a position function with any  *)
(* argument up to a bound, or a verifier with a proof that an honest log   *)
(* minted and that may have been edited since.  Inside the verifiers the   *)
(* position functions are the operators of Mmr; the calls of the position  *)
(* functions themselves show that the loops compute those operators.       *)
(***************************************************************************)
EXTENDS MmrReference

CONSTANTS MaxPos,      \* bound on the argument of a position function
          MaxTree      \* bound on the leaves behind a proof

VARIABLES call,        \* the call under way: function, arguments and edit
          args,        \* what else a verifier was called with
          pc,          \* where in that function it is
          loc,         \* the function's locals
          ret          \* << >>, then <<what the call returned>>

vars == <<call, args, pc, loc, ret>>

ASSUME MmrJsAssumption ==
    MaxPos \in Nat /\ MaxTree \in Nat \ {0} /\ MAX_MMR_SIZE > MaxPos + 2 * MaxTree

-----------------------------------------------------------------------------
(* The calls.  A verifier is called for a log of n leaves: for the leaf    *)
(* with index a, from the log's first a leaves, or for the records from a. *)

\* What may have happened to a proof, or to what it is checked for.
Edits == {"none", "drop", "extra", "swap", "replace", "body", "size"}

PositionCalls == [fn : {"heightAt", "peaks", "nodeCount"}, n : 0..MaxPos, a : {0}, edit : {"none"}]

VerifierCalls ==
    {c \in [fn : {"verifyInclusion", "verifyConsistency", "verifyRange"},
            n : 1..MaxTree, a : 0..MaxTree, edit : Edits] :
        /\ c.a <= c.n
        /\ c.fn = "verifyInclusion" => c.a < c.n
        /\ c.fn = "verifyRange" => c.a > 0}

History(n) == [i \in 1..n |-> i]

\* A history with one entry replaced, when that is the edit.
Negated(c, h, i) == IF c.edit = "body" /\ h # << >> THEN [h EXCEPT ![i] = -h[i]] ELSE h

EditSeq(c, s) ==
    CASE c.edit = "drop" /\ s # << >>    -> Front(s)
      [] c.edit = "extra"                -> Append(s, leaf_hash(1))
      [] c.edit = "swap" /\ Len(s) > 1   -> [s EXCEPT ![1] = s[2], ![2] = s[1]]
      [] c.edit = "replace" /\ s # << >> -> [s EXCEPT ![Len(s)] = leaf_hash(-1)]
      [] OTHER                           -> s

Resized(c, nodes) == IF c.edit = "size" THEN nodes + 1 ELSE nodes

Minted(c) ==
    CASE c.fn = "verifyInclusion"   -> inclusion_proof(History(c.n), c.a)
      [] c.fn = "verifyConsistency" -> consistency_proof(History(c.n), c.a)
      [] OTHER                      -> range_proof(History(c.n), c.a)

\* The proof as it reaches the page; of a consistency proof the first path is edited.
Received(c) ==
    LET p == Minted(c)
    IN  IF c.fn = "verifyConsistency"
        THEN [p EXCEPT !.witness = IF @ = << >> THEN @ ELSE [@ EXCEPT ![1] = EditSeq(c, @)],
                       !.size_b = Resized(c, @)]
        ELSE [p EXCEPT !.witness = EditSeq(c, @), !.size = Resized(c, @)]

\* The arguments beside the indices: the sizes, the roots, the leaf's body digest or
\* the records' digests, and the proof.
Arguments(c) ==
    [size |-> SizeOf(c.n), sizeA |-> SizeOf(c.a),
     root |-> RootOf(History(c.n)),
     rootA |-> RootOf(Negated(c, History(c.a), (c.a + 1) \div 2)),
     bodyDigests |->
         CASE c.fn = "verifyRange"     -> Negated(c, SubSeq(History(c.n), c.a, c.n), (c.n - c.a + 2) \div 2)
           [] c.fn = "verifyInclusion" -> Negated(c, <<c.a + 1>>, 1)
           [] OTHER                    -> << >>,
     proof |-> Received(c)]

size        == args.size
sizeA       == args.sizeA
root        == args.root
rootA       == args.rootA
bodyDigests == args.bodyDigests
bodyDigest  == args.bodyDigests[1]
proof       == args.proof

Init ==
    /\ call \in PositionCalls \cup VerifierCalls
    /\ args = IF call \in VerifierCalls THEN Arguments(call) ELSE << >>
    /\ pc = "call"
    /\ loc = << >>
    /\ ret = << >>

Goto(label, locals) == pc' = label /\ loc' = locals /\ UNCHANGED <<call, args, ret>>

Return(value) == pc' = "done" /\ ret' = <<value>> /\ UNCHANGED <<call, args, loc>>

-----------------------------------------------------------------------------
(* Positions.                                                              *)

\* Mutant: the smallest mountain that reaches pos is missed by one.
GrowsShort(h, pos1) == MountainSize(h + 1) < pos1

Grows(h, pos1) == MountainSize(h) < pos1

heightAt ==
    LET h == loc.h
        pos1 == loc.pos1
    IN  \/ /\ pc = "call" /\ call.fn = "heightAt"
           /\ Goto("grow", [h |-> 0, pos1 |-> call.n + 1])
        \/ /\ pc = "grow"
           /\ IF Grows(h, pos1) THEN Goto("grow", [loc EXCEPT !.h = h + 1])
                                ELSE Goto("down", loc)
        \/ /\ pc = "down" /\ (h = 0 \/ pos1 = MountainSize(h))
           /\ Return(h)
        \/ /\ pc = "down" /\ h > 0 /\ pos1 # MountainSize(h)
           /\ Goto("down", [h |-> h - 1,
                            pos1 |-> IF pos1 > 2^h - 1 THEN pos1 - (2^h - 1) ELSE pos1])

\* Mutant: the loop goes on at zero.
NotNegative(n) == n >= 0

MoreOnes(n) == n > 0

\* popcount: the locals are what is left of leafCount_ and the ones so far.
nodeCount ==
    \/ /\ pc = "call" /\ call.fn = "nodeCount"
       /\ Goto("ones", [n |-> call.n, c |-> 0])
    \/ /\ pc = "ones" /\ MoreOnes(loc.n)
       /\ Goto("ones", [n |-> loc.n \div 2, c |-> loc.c + (loc.n % 2)])
    \/ /\ pc = "ones" /\ ~MoreOnes(loc.n)
       /\ Return(2 * call.n - loc.c)

\* The arguments are below MAX_MMR_SIZE, so the loop's own guard passes;
\* Infinity, the first prevHeight, is any height above the tallest mountain.
peaksLoop ==
    LET h == Tallest(loc.remaining)
        mSize == MountainSize(h)
    IN  \/ /\ pc = "call" /\ call.fn = "peaks"
           /\ Goto("mountains", [remaining |-> call.n, offset |-> 0, prevHeight |-> call.n + 1,
                                 result |-> << >>])
        \/ /\ pc = "mountains" /\ loc.remaining = 0
           /\ Return(loc.result)
        \/ /\ pc = "mountains" /\ loc.remaining > 0 /\ ~FallsBelow(h, loc.prevHeight)
           /\ Return(NoPeaks)
        \/ /\ pc = "mountains" /\ loc.remaining > 0 /\ FallsBelow(h, loc.prevHeight)
           /\ Goto("mountains", [remaining |-> loc.remaining - mSize,
                                 offset |-> loc.offset + mSize, prevHeight |-> h,
                                 result |-> Append(loc.result, loc.offset + mSize - 1)])

-----------------------------------------------------------------------------
(* The verifiers.                                                          *)

verifyInclusion ==
    LET path == PathIn(leaf_index_to_pos(call.a), peaks(size))
    IN  \/ /\ pc = "call" /\ call.fn = "verifyInclusion"
           /\ IF InclusionShapeOK(size, call.a, proof)
              THEN Goto("climb", [acc |-> leaf_hash(bodyDigest), i |-> 1])
              ELSE Return(FALSE)
        \/ /\ pc = "climb" /\ loc.i <= Len(path)
           /\ Goto("climb", [acc |-> HashStep(loc.acc, proof.witness[loc.i], path[loc.i]),
                             i |-> loc.i + 1])
        \/ /\ pc = "climb" /\ loc.i > Len(path)
           /\ Return(root_from_peaks(proof.peaks_left \o <<loc.acc>> \o proof.peaks_right) = root)

\* What is checked before the loop over the old peaks.
ConsistencyShapeOK ==
    /\ proof.size_a = sizeA /\ proof.size_b = size
    /\ Len(proof.old_peaks) = Len(peaks(proof.size_a))
    /\ Len(proof.new_peaks) = Len(peaks(proof.size_b))
    /\ Len(proof.witness) = Len(peaks(proof.size_a))
    /\ OldRootOK(rootA, proof.old_peaks) /\ NewRootOK(root, proof.new_peaks)

verifyConsistency ==
    LET olds == peaks(proof.size_a)
        news == peaks(proof.size_b)
        at   == find_containing_peak(olds[loc.i], news)
        path == PathIn(olds[loc.i], news)
        w    == proof.witness[loc.i]
    IN  \/ /\ pc = "call" /\ call.fn = "verifyConsistency"
           /\ IF ConsistencyShapeOK THEN Goto("old", [i |-> 1, j |-> 0, acc |-> NoDigest])
                                    ELSE Return(FALSE)
        \/ /\ pc = "old" /\ loc.i > Len(olds)
           /\ Return(TRUE)
        \/ /\ pc = "old" /\ loc.i <= Len(olds)
           /\ IF at = 0 \/ Len(w) # Len(path) THEN Return(FALSE)
              ELSE Goto("carry", [loc EXCEPT !.j = 1, !.acc = proof.old_peaks[loc.i]])
        \/ /\ pc = "carry" /\ loc.j <= Len(path)
           /\ Goto("carry", [loc EXCEPT !.j = loc.j + 1,
                                        !.acc = HashStep(loc.acc, w[loc.j], path[loc.j])])
        \/ /\ pc = "carry" /\ loc.j > Len(path)
           /\ IF loc.acc = proof.new_peaks[at] THEN Goto("old", [loc EXCEPT !.i = loc.i + 1])
                                               ELSE Return(FALSE)

\* The recursion of reconstructRangeSubtree with its stack made explicit: work
\* holds the subtrees still to visit and the joins to make, vals the digests
\* made so far.  A join is <<pos, -1, 0>>.
reconstructRangeSubtree ==
    LET t    == Head(loc.work)
        lo   == proof.from_index
        hi   == proof.to_index
        rest == Tail(loc.work)
        vals == loc.vals
        k    == Len(vals)
        outside == OutsideRange(t[3], t[3] + 2^t[2] - 1, lo, hi)
    IN  /\ pc = "visit" /\ loc.work # << >>
        /\ \/ /\ t[2] >= 0 /\ outside /\ loc.cursor >= Len(proof.witness)
              /\ Return(FALSE)
           \/ /\ t[2] >= 0 /\ outside /\ loc.cursor < Len(proof.witness)
              /\ Goto("visit", [loc EXCEPT !.work = rest, !.cursor = loc.cursor + 1,
                                           !.vals = Append(vals, proof.witness[loc.cursor + 1])])
           \/ /\ t[2] = 0 /\ ~outside
              /\ Goto("visit", [loc EXCEPT !.work = rest,
                                           !.vals = Append(vals, leaf_hash(bodyDigests[t[3] - lo + 1]))])
           \/ /\ t[2] > 0 /\ ~outside
              /\ Goto("visit", [loc EXCEPT !.work = <<<<t[1] - 2^t[2], t[2] - 1, t[3]>>,
                                                      <<t[1] - 1, t[2] - 1, t[3] + 2^(t[2] - 1)>>,
                                                      <<t[1], -1, 0>>>> \o rest])
           \/ /\ t[2] = -1
              /\ Goto("visit", [loc EXCEPT !.work = rest,
                                           !.vals = Append(SubSeq(vals, 1, k - 2),
                                                           interior_hash(vals[k - 1], vals[k], t[1]))])

\* Mutant: witness digests left over are ignored.
WitnessReached(cursor) == cursor <= Len(proof.witness)

WitnessUsedUp(cursor) == cursor = Len(proof.witness)

\* The loop over the peaks: every peak is one visit of the recursion.
verifyRange ==
    LET pks == peaks(proof.size)
        at  == loc.pi + 1
    IN  \/ /\ pc = "call" /\ call.fn = "verifyRange"
           /\ IF RangeShapeOK(call.a, call.n, bodyDigests, proof)
              THEN Goto("visit", [pi |-> 0, leafStart |-> 0, work |-> << >>, vals |-> << >>,
                                  cursor |-> 0])
              ELSE Return(FALSE)
        \/ /\ pc = "visit" /\ loc.work = << >> /\ at <= Len(pks)
           /\ Goto("visit", [loc EXCEPT !.pi = at,
                                        !.work = <<<<pks[at], height_at(pks[at]), loc.leafStart>>>>,
                                        !.leafStart = loc.leafStart + 2^height_at(pks[at])])
        \/ /\ pc = "visit" /\ loc.work = << >> /\ at > Len(pks)
           /\ Return(WitnessUsedUp(loc.cursor) /\ root_from_peaks(loc.vals) = root)

Next ==
    \/ heightAt
    \/ nodeCount
    \/ peaksLoop
    \/ verifyInclusion
    \/ verifyConsistency
    \/ verifyRange
    \/ reconstructRangeSubtree

\* An async function that can go on does go on.
Spec == Init /\ [][Next]_vars /\ WF_vars(Next)

-----------------------------------------------------------------------------
(* Properties.                                                             *)

Done == pc = "done"

\* What the position functions mean, from the way mountains are built.
HeightInLog(pos) == (CHOOSE t \in Subtrees(pos + 1) : t[1] = pos)[2]

PeaksInLog(nodes) ==
    IF \E n \in 0..nodes : SizeOf(n) = nodes
    THEN LET n == CHOOSE n \in 0..nodes : SizeOf(n) = nodes
         IN  [i \in 1..Len(Mountains(n)) |-> Mountains(n)[i][1]]
    ELSE NoPeaks

(* The position loops and the operators of cll.py both compute what the
   mountains of a growing log are: the height of every node, the number of
   nodes, and for every size its peaks, or a refusal of a size that no log has. *)
PositionsAreTheLogs ==
    Done =>
        /\ call.fn = "heightAt" =>
               ret[1] = HeightInLog(call.n) /\ height_at(call.n) = HeightInLog(call.n)
        /\ call.fn = "peaks" =>
               ret[1] = PeaksInLog(call.n) /\ peaks(call.n) = PeaksInLog(call.n)
        /\ call.fn = "nodeCount" => ret[1] = SizeOf(call.n) /\ node_count(call.n) = SizeOf(call.n)

\* The library's verdict on the call.
LibrarySays ==
    CASE call.fn = "verifyInclusion"   -> verify_inclusion(root, size, call.a, bodyDigest, proof)
      [] call.fn = "verifyConsistency" -> verify_consistency(rootA, sizeA, root, size, proof)
      [] call.fn = "verifyRange"       -> verify_range(root, call.a, call.n, bodyDigests, proof)

(* A proof passes, on the page and in the library alike, exactly when nothing
   happened to it or to what it is checked for: every witness digest of
   a proof, its size and every record of a range matter to the verdict. *)
OnlyTheMintedProofPasses ==
    (Done /\ call \in VerifierCalls) =>
        /\ ret[1] = LibrarySays
        /\ ret[1] <=> /\ proof = Minted(call)
                      /\ \/ call.edit # "body"
                         \/ call.fn = "verifyConsistency" /\ call.a = 0

(* Every call returns: the loops end whatever the argument, and a verifier
   answers on malformed proofs too. *)
Returns == <>Done
=============================================================================
