------------------------------- MODULE Merkle -------------------------------
(***************************************************************************)
(* The RFC 6962 / RFC 9162 algorithms of scitt_cose/merkle.py as operators *)
(* over symbolic digests.  A digest is the term that was hashed, tagged    *)
(* with the domain-separation prefix that merkle.py prepends, so two       *)
(* digests are equal exactly when the hashed octets are: SHA-256 is taken  *)
(* to be collision free.  Sequences are 1-based, indices stay 0-based as   *)
(* in the code.  Every loop and recursion is a recursive function, so that *)
(* modules with theorems may use these definitions.                        *)
(***************************************************************************)
EXTENDS Integers, Sequences

CONSTANT MAX_TREE_SIZE      \* the ceiling on a claimed tree size; 2^62 in the code

ASSUME MaxTreeSizeAssumption == MAX_TREE_SIZE \in Nat \ {0}

\* Python's None: no root could be rebuilt.
NoRoot == <<"none">>

leaf_hash(entry) == <<"leaf", entry>>

node_hash(left, right) == <<"node", left, right>>

empty_hash == <<"empty">>

-----------------------------------------------------------------------------
(* Tree hash and inclusion proofs.                                         *)

\* The largest power of two strictly below n, for n > 1.
largest_pow2_below(n) ==
    LET loop[k \in 1..n] == IF k * 2 < n THEN loop[k * 2] ELSE k
    IN  loop[1]

\* The tree hash of a sequence of leaf digests: mth over the n leaves from lo.
mth(leaves) ==
    LET range[r \in Nat \X (0..Len(leaves))] ==
            LET lo == r[1]
                n  == r[2]
                k  == largest_pow2_below(n)
            IN  IF n = 0 THEN empty_hash
                ELSE IF n = 1 THEN leaves[lo + 1]
                ELSE node_hash(range[<<lo, k>>], range[<<lo + k, n - k>>])
    IN  range[<<0, Len(leaves)>>]

LeavesOf(entries) == [i \in 1..Len(entries) |-> leaf_hash(entries[i])]

merkle_root(entries) == mth(LeavesOf(entries))

\* The audit path of entries[index], innermost sibling first.
inclusion_proof(entries, index) ==
    LET leaves == LeavesOf(entries)
        path[p \in Nat \X (1..Len(entries)) \X Nat] ==
            LET lo == p[1]
                n  == p[2]
                m  == p[3]
                k  == largest_pow2_below(n)
            IN  IF n = 1 THEN << >>
                ELSE IF m < k
                THEN Append(path[<<lo, k, m>>], mth(SubSeq(leaves, lo + k + 1, lo + n)))
                ELSE Append(path[<<lo + k, n - k, m - k>>], mth(SubSeq(leaves, lo + 1, lo + k)))
    IN  path[<<0, Len(entries), index>>]

\* Mutant: the entry at the split is sought in the left subtree.
expected_inclusion_path_len_off(tree_size, index) ==
    LET depth[p \in (0..tree_size) \X Nat] ==
            LET size == p[1]
                m    == p[2]
                k    == largest_pow2_below(size)
            IN  IF size <= 1 THEN 0
                ELSE IF m <= k THEN 1 + depth[<<k, m>>]
                ELSE 1 + depth[<<size - k, m - k>>]
    IN  depth[<<tree_size, index>>]

\* The leaf's depth under the recursive split.
expected_inclusion_path_len(tree_size, index) ==
    LET depth[p \in (0..tree_size) \X Nat] ==
            LET size == p[1]
                m    == p[2]
                k    == largest_pow2_below(size)
            IN  IF size <= 1 THEN 0
                ELSE IF m < k THEN 1 + depth[<<k, m>>]
                ELSE 1 + depth[<<size - k, m - k>>]
    IN  depth[<<tree_size, index>>]

\* The guards that run before any hashing.
InclusionShapeOK(index, tree_size, path_len) ==
    /\ 0 <= index
    /\ index < tree_size
    /\ tree_size <= MAX_TREE_SIZE
    /\ path_len = expected_inclusion_path_len(tree_size, index)

\* fold pops the outermost sibling, recurses into the side that holds the
\* leaf and hashes on the way back; siblings left over refuse the proof.
\* A result is <<digest, siblings left>> or NoRoot.
root_from_inclusion_proof(leaf_entry, index, tree_size, audit_path) ==
    LET fold[p \in (1..tree_size) \X Nat \X Nat] ==
            LET size == p[1]
                m    == p[2]
                rest == p[3]
                k    == largest_pow2_below(size)
                left == m < k
                child == IF left THEN fold[<<k, m, rest - 1>>]
                                 ELSE fold[<<size - k, m - k, rest - 1>>]
            IN  IF size = 1 THEN <<leaf_hash(leaf_entry), rest>>
                ELSE IF rest = 0 THEN NoRoot
                ELSE IF child = NoRoot THEN NoRoot
                ELSE <<IF left THEN node_hash(child[1], audit_path[rest])
                               ELSE node_hash(audit_path[rest], child[1]),
                       child[2]>>
        computed == fold[<<tree_size, index, Len(audit_path)>>]
    IN  IF /\ InclusionShapeOK(index, tree_size, Len(audit_path))
           /\ computed # NoRoot
           /\ computed[2] = 0
        THEN computed[1]
        ELSE NoRoot

verify_inclusion(leaf_entry, index, tree_size, audit_path, root) ==
    LET computed == root_from_inclusion_proof(leaf_entry, index, tree_size, audit_path)
    IN  computed # NoRoot /\ computed = root

-----------------------------------------------------------------------------
(* Consistency proofs.                                                     *)

\* SUBPROOF(m, D[n], b) over the n leaves from lo; 0 < m <= n in every call.
subproof(m0, leaves, b0) ==
    LET sub[p \in {q \in Nat \X Nat \X (1..Len(leaves)) \X BOOLEAN : q[1] \in 1..q[3]}] ==
            LET m  == p[1]
                lo == p[2]
                n  == p[3]
                b  == p[4]
                k  == largest_pow2_below(n)
            IN  IF m = n THEN IF b THEN << >> ELSE <<mth(SubSeq(leaves, lo + 1, lo + n))>>
                ELSE IF m <= k
                THEN Append(sub[<<m, lo, k, b>>], mth(SubSeq(leaves, lo + k + 1, lo + n)))
                ELSE Append(sub[<<m - k, lo + k, n - k, FALSE>>],
                            mth(SubSeq(leaves, lo + 1, lo + k)))
    IN  sub[<<m0, 0, Len(leaves), b0>>]

\* Called with 0 <= m <= n <= Len(entries); the code raises otherwise.
consistency_proof(entries, m, n) ==
    IF m = 0 \/ m = n THEN << >>
    ELSE subproof(m, LeavesOf(SubSeq(entries, 1, n)), TRUE)

\* m & (m - 1) = 0: m is the largest power of two that is not above it.
IsPow2(m) == largest_pow2_below(m + 1) = m

Odd(n) == n % 2 = 1

\* while fn & 1: shift both right.
ShiftWhileOdd(fn0, sn0) ==
    LET s[p \in (0..fn0) \X Nat] == IF Odd(p[1]) THEN s[<<p[1] \div 2, p[2] \div 2>>] ELSE p
    IN  s[<<fn0, sn0>>]

\* while not (fn & 1) and fn != 0: shift both right.
ShiftWhileEven(fn0, sn0) ==
    LET s[p \in (0..fn0) \X Nat] ==
            IF ~Odd(p[1]) /\ p[1] # 0 THEN s[<<p[1] \div 2, p[2] \div 2>>] ELSE p
    IN  s[<<fn0, sn0>>]

\* One turn of the loop over proof[1:], on the state <<fn, sn, fr, sr>>.
ConsistencyStep(st, node) ==
    LET joins == Odd(st[1]) \/ st[1] = st[2]
        sh    == IF joins THEN ShiftWhileEven(st[1], st[2]) ELSE <<st[1], st[2]>>
    IN  <<sh[1] \div 2, sh[2] \div 2,
          IF joins THEN node_hash(node, st[3]) ELSE st[3],
          IF joins THEN node_hash(node, st[4]) ELSE node_hash(st[4], node)>>

\* The loop over proof[1:]: the state after the first i nodes, NoRoot when a
\* node is left although sn = 0.
ConsistencyLoop(nodes, m, n) ==
    LET start == ShiftWhileOdd(m - 1, n - 1)
        run[i \in 1..Len(nodes)] ==
            IF i = 1 THEN <<start[1], start[2], nodes[1], nodes[1]>>
            ELSE IF run[i - 1] = NoRoot \/ run[i - 1][2] = 0 THEN NoRoot
            ELSE ConsistencyStep(run[i - 1], nodes[i])
    IN  run[Len(nodes)]

\* Mutant: only the new root is compared.
NewRootOK(final, first_root, second_root) == final[2] = 0 /\ final[4] = second_root

\* The final comparison of both rebuilt roots.
ConsistencyRootsOK(final, first_root, second_root) ==
    final[2] = 0 /\ final[3] = first_root /\ final[4] = second_root

verify_consistency(first_root, second_root, m, n, proof) ==
    LET nodes == IF IsPow2(m) THEN <<first_root>> \o proof ELSE proof
        final == ConsistencyLoop(nodes, m, n)
    IN  CASE m < 0 \/ n < 0 \/ m > n -> FALSE
          [] m = 0 /\ n >= 0 -> proof = << >>
          [] m = n /\ m > 0 -> proof = << >> /\ first_root = second_root
          [] OTHER -> /\ nodes # << >>
                      /\ final # NoRoot
                      /\ ConsistencyRootsOK(final, first_root, second_root)
=============================================================================
