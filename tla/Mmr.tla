--------------------------------- MODULE Mmr --------------------------------
(***************************************************************************)
(* The Merkle mountain range verifiers of scitt_cose/cll.py as operators   *)
(* over symbolic digests.  A digest is the term that was hashed, tagged by *)
(* the shape of the hashed octets (33, 72 and 64 of them), so two digests  *)
(* are equal exactly when those octets are: SHA-256 is taken to be         *)
(* collision free.  Node positions and leaf indices stay 0-based as in the *)
(* code, sequences are 1-based.  Where the code raises InvalidArgumentError*)
(* an operator returns NoPeaks, NoCount or NoDigest, and the verifiers,    *)
(* whose except clause answers False, are FALSE.                           *)
(***************************************************************************)
EXTENDS Integers, Sequences

CONSTANT MAX_MMR_SIZE       \* the ceiling on a node count; 2^50 in the code

ASSUME MaxMmrSizeAssumption == MAX_MMR_SIZE \in Nat \ {0}

leaf_hash(body_digest) == <<"leaf", body_digest>>

interior_hash(left, right, position) == <<"interior", position + 1, left, right>>

\* What _parse_digest_hex raises InvalidArgumentError for: a proof element that
\* is not 32 octets.  Body digests are taken to be well formed.
NoDigest == <<"not-a-digest">>

\* The peaks are bagged from the right, sha256(right || left).
root_from_peaks(peak_hashes) ==
    LET n == Len(peak_hashes)
        bag[i \in Nat] == IF i >= n THEN peak_hashes[n] ELSE <<"bag", bag[i + 1], peak_hashes[i]>>
    IN  IF n = 0 THEN <<"zero">> ELSE bag[1]

-----------------------------------------------------------------------------
(* Positions.                                                              *)

\* Powers of two, written as a recursion.
TwoTo[h \in Nat] == IF h = 0 THEN 1 ELSE 2 * TwoTo[h - 1]

\* A perfect mountain of height h has this many nodes.
MountainSize(h) == TwoTo[h + 1] - 1

\* pos1 counts from 1 inside a mountain of height h; its halves have TwoTo[h] - 1 nodes each.
InRightHalf(pos1, h) == pos1 > TwoTo[h] - 1

\* The height of the node at pos: descend from the smallest mountain that
\* reaches it, into the left half or the right, until pos is its last node.
height_at(pos) ==
    LET grow[h \in Nat] == IF MountainSize(h) < pos + 1 THEN grow[h + 1] ELSE h
        down[p \in Nat \X Nat] ==
            LET pos1 == p[1]
                h    == p[2]
            IN  CASE h = 0 -> 0
                  [] h > 0 /\ pos1 = MountainSize(h) -> h
                  [] OTHER -> down[<<IF InRightHalf(pos1, h) THEN pos1 - (TwoTo[h] - 1) ELSE pos1,
                                     h - 1>>]
    IN  down[<<pos + 1, grow[0]>>]

node_count(leaf_count_) ==
    LET ones[n \in Nat] == IF n = 0 THEN 0 ELSE (n % 2) + ones[n \div 2]
    IN  2 * leaf_count_ - ones[leaf_count_]

NoPeaks == <<-1>>

FallsBelow(h, prev_height) == h < prev_height

\* The height of the tallest mountain in n nodes.
Tallest(n) == LET up[h \in Nat] == IF MountainSize(h + 1) <= n THEN up[h + 1] ELSE h IN up[0]

\* The greedy split of a node count into mountains of strictly falling height:
\* the positions of their peaks, left to right.
peaks(size) ==
    LET split[p \in Nat \X Nat \X Nat] ==      \* <<remaining, offset, prev_height>>
            LET h    == Tallest(p[1])
                rest == split[<<p[1] - MountainSize(h), p[2] + MountainSize(h), h>>]
            IN  CASE p[1] = 0 -> << >>
                  [] p[1] > 0 /\ (~FallsBelow(h, p[3]) \/ rest = NoPeaks) -> NoPeaks
                  [] OTHER -> <<p[2] + MountainSize(h) - 1>> \o rest
    IN  IF size < 0 \/ size >= MAX_MMR_SIZE THEN NoPeaks ELSE split[<<size, 0, size + 1>>]

NoCount == -1

SumOver(f, n) == LET sum[i \in Nat] == IF i = 0 THEN 0 ELSE sum[i - 1] + f[i] IN sum[n]

leaf_count(size) ==
    LET pks == peaks(size)
    IN  IF pks = NoPeaks THEN NoCount
        ELSE SumOver([i \in 1..Len(pks) |-> TwoTo[height_at(pks[i])]], Len(pks))

leaf_index_to_pos(leaf_index) ==
    IF node_count(leaf_index) >= MAX_MMR_SIZE THEN NoCount ELSE node_count(leaf_index)

\* The 1-based place of the peak whose mountain holds pos; 0 for the code's -1.
find_containing_peak(pos, peak_positions) ==
    LET holds(i) == /\ peak_positions[i] - MountainSize(height_at(peak_positions[i])) + 1 <= pos
                    /\ pos <= peak_positions[i]
        found == {i \in 1..Len(peak_positions) : holds(i)}
    IN  IF found = {} THEN 0 ELSE CHOOSE i \in found : \A j \in found : i <= j

\* The steps from target_pos up to the mountain's root, innermost first.
locate_path(root_pos, height, target_pos) ==
    LET path[p \in Int \X Nat] ==
            LET root  == p[1]
                left  == root - TwoTo[p[2]]
                right == root - 1
                below == target_pos <= left
            IN  IF p[2] = 0 \/ root = target_pos THEN << >>
                ELSE Append(path[<<IF below THEN left ELSE right, p[2] - 1>>],
                            [target_is_right |-> ~below, parent_pos |-> root])
    IN  path[<<root_pos, height>>]

HashStep(acc, sib, step) ==
    IF step.target_is_right THEN interior_hash(sib, acc, step.parent_pos)
                            ELSE interior_hash(acc, sib, step.parent_pos)

\* The loop that hashes a digest up a path with its siblings.
FoldPath(start, path, witness) ==
    LET acc[i \in Nat] == IF i = 0 THEN start ELSE HashStep(acc[i - 1], witness[i], path[i])
    IN  acc[Len(path)]

\* _parse_digest_hex of every element: none raises.
Digests(s) == \A i \in 1..Len(s) : s[i] # NoDigest

-----------------------------------------------------------------------------
(* The verifiers.  A proof is the record its from_dict builds.             *)

\* The peak that holds a position of a mountain range, and the path up to it.
PathIn(pos, pks) ==
    LET i == find_containing_peak(pos, pks)
    IN  locate_path(pks[i], height_at(pks[i]), pos)

\* The checks of verify_inclusion before anything is hashed.
InclusionShapeOK(size, leaf_index, proof) ==
    LET pks == peaks(size)
        at  == find_containing_peak(leaf_index_to_pos(leaf_index), pks)
    IN  /\ proof.kind = "inclusion"
        /\ proof.size = size /\ proof.leaf_index = leaf_index
        /\ pks # NoPeaks
        /\ 0 <= leaf_index /\ leaf_index < leaf_count(size)
        /\ at # 0
        /\ Len(proof.witness) = Len(PathIn(leaf_index_to_pos(leaf_index), pks))
        /\ Len(proof.peaks_left) = at - 1
        /\ Len(proof.peaks_right) = Len(pks) - at
        /\ Digests(proof.witness \o proof.peaks_left \o proof.peaks_right)

verify_inclusion(root, size, leaf_index, body_digest, proof) ==
    /\ InclusionShapeOK(size, leaf_index, proof)
    /\ LET path == PathIn(leaf_index_to_pos(leaf_index), peaks(size))
           peak == FoldPath(leaf_hash(body_digest), path, proof.witness)
       IN  root_from_peaks(proof.peaks_left \o <<peak>> \o proof.peaks_right) = root

\* Mutant: the old peaks are not compared with the old root.
OldRootLax(root_a, old_peaks) == root_a # NoDigest

\* Both checkpoint roots are rebuilt from the peaks the proof carries.
OldRootOK(root_a, old_peaks) == root_from_peaks(old_peaks) = root_a

NewRootOK(root_b, new_peaks) == root_from_peaks(new_peaks) = root_b

\* The i-th old peak hashes up to the new peak whose mountain holds it.
OldPeakCarried(i, size_a, size_b, proof) ==
    LET pos == peaks(size_a)[i]
        at  == find_containing_peak(pos, peaks(size_b))
        path == PathIn(pos, peaks(size_b))
    IN  /\ at # 0
        /\ Len(proof.witness[i]) = Len(path)
        /\ Digests(proof.witness[i])
        /\ FoldPath(proof.old_peaks[i], path, proof.witness[i]) = proof.new_peaks[at]

verify_consistency(root_a, size_a, root_b, size_b, proof) ==
    /\ proof.kind = "consistency"
    /\ proof.size_a = size_a /\ proof.size_b = size_b
    /\ 0 <= size_a /\ size_a <= size_b
    /\ peaks(size_a) # NoPeaks /\ peaks(size_b) # NoPeaks
    /\ Len(proof.old_peaks) = Len(peaks(size_a))
    /\ Len(proof.new_peaks) = Len(peaks(size_b))
    /\ Len(proof.witness) = Len(peaks(size_a))
    /\ Digests(proof.old_peaks \o proof.new_peaks)
    /\ OldRootOK(root_a, proof.old_peaks) /\ NewRootOK(root_b, proof.new_peaks)
    /\ \A i \in 1..Len(peaks(size_a)) : OldPeakCarried(i, size_a, size_b, proof)

\* A subtree wholly outside the range is taken from the witness.
OutsideRange(leaf_start, leaf_end, lo, hi) == leaf_end < lo \/ leaf_start > hi

\* The subtree's digest and the cursor after it: digests is keyed by leaf
\* index.  NoDigest when the witness is exhausted.
reconstruct_range_subtree(pos0, height0, start0, lo, hi, digests, witness, cursor0) ==
    LET sub[p \in Int \X Nat \X Nat \X Nat] ==    \* <<pos, height, leaf_start, cursor>>
            LET pos   == p[1]
                h     == p[2]
                start == p[3]
                left  == sub[<<pos - TwoTo[h], h - 1, start, p[4]>>]
                right == sub[<<pos - 1, h - 1, start + TwoTo[h - 1], left[2]>>]
            IN  CASE OutsideRange(start, start + TwoTo[h] - 1, lo, hi) ->
                        <<IF p[4] < Len(witness) THEN witness[p[4] + 1] ELSE NoDigest, p[4] + 1>>
                  [] ~OutsideRange(start, start + TwoTo[h] - 1, lo, hi) /\ h = 0 ->
                        <<leaf_hash(digests[start]), p[4]>>
                  [] OTHER ->
                        <<IF NoDigest \in {left[1], right[1]} THEN NoDigest
                          ELSE interior_hash(left[1], right[1], pos), right[2]>>
    IN  sub[<<pos0, height0, start0, cursor0>>]

\* The loop over the peaks: <<digests of the rebuilt peaks, final cursor>>.
RebuiltPeaks(size, lo, hi, digests, witness) ==
    LET pks == peaks(size)
        start(i) == SumOver([j \in 1..Len(pks) |-> TwoTo[height_at(pks[j])]], i - 1)
        run[i \in Nat] ==
            IF i = 0 THEN <<<< >>, 0>>
            ELSE LET done == run[i - 1]
                     r == reconstruct_range_subtree(pks[i], height_at(pks[i]), start(i), lo, hi,
                                                    digests, witness, done[2])
                 IN  <<Append(done[1], r[1]), r[2]>>
    IN  run[Len(pks)]

\* The checks of verify_range before anything is hashed.
RangeShapeOK(from_seq, to_seq, body_digests, proof) ==
    /\ proof.from_seq = from_seq /\ proof.to_seq = to_seq
    /\ 1 <= from_seq /\ from_seq <= to_seq
    /\ leaf_count(proof.size) = to_seq
    /\ proof.from_index = from_seq - 1 /\ proof.to_index = to_seq - 1
    /\ Len(body_digests) = proof.to_index - proof.from_index + 1
    /\ Digests(proof.witness)

\* Mutant: the rebuilt root is not compared.
RangeRootLax(root, peak_hashes) == Digests(peak_hashes) /\ root # NoDigest

RangeRootOK(root, peak_hashes) == Digests(peak_hashes) /\ root_from_peaks(peak_hashes) = root

verify_range(root, from_seq, to_seq, body_digests, proof) ==
    /\ RangeShapeOK(from_seq, to_seq, body_digests, proof)
    /\ LET digests == [i \in proof.from_index..proof.to_index |->
                           body_digests[i - proof.from_index + 1]]
           rebuilt == RebuiltPeaks(proof.size, proof.from_index, proof.to_index,
                                   digests, proof.witness)
       IN  /\ rebuilt[2] = Len(proof.witness)
           /\ RangeRootOK(root, rebuilt[1])
=============================================================================
