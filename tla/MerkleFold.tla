----------------------------- MODULE MerkleFold -----------------------------
(***************************************************************************)
(* merkle.root_from_inclusion_proof as a state machine: the guards, then   *)
(* one step per call and one per return of the nested function fold.  The  *)
(* operator of module Merkle computes the same root by recursion; here the *)
(* recursion is unrolled on an explicit stack so that what it guarantees   *)
(* can be proved for every tree size by an inductive invariant.            *)
(*                                                                         *)
(* Log is the log's own history; the root of a range of it is what the     *)
(* recursive helper _mth makes of the range.                               *)
(***************************************************************************)
EXTENDS Merkle

CONSTANTS Log,          \* the log's entries, a sequence of MAX_TREE_SIZE entries
          Queries       \* the calls examined: [leaf, index, tree_size, path]

Sizes == 1..MAX_TREE_SIZE

\* The arguments of the recursive call fold(size, m) makes.
ChildSize(size, m) ==
    IF m < largest_pow2_below(size) THEN largest_pow2_below(size)
                                    ELSE size - largest_pow2_below(size)
ChildIndex(size, m) ==
    IF m < largest_pow2_below(size) THEN m ELSE m - largest_pow2_below(size)

\* The digest of the n entries of Log from lo.
Tree(lo, n) == mth(SubSeq(LeavesOf(Log), lo + 1, lo + n))

ASSUME LogAssumption == Len(Log) = MAX_TREE_SIZE

ASSUME QueriesAssumption ==
    \A q \in Queries : /\ q.index \in Int
                       /\ q.tree_size \in Int
                       /\ Len(q.path) \in Nat

VARIABLES query,        \* the arguments of the call
          pc,           \* "guard", "call" (entering fold), "return" or "done"
          size, m,      \* the arguments of the current activation of fold
          rest,         \* how many siblings have not been popped
          stack,        \* the suspended activations, outermost first: their
                        \* arguments and the place of the sibling they popped
          acc,          \* the digest the current activation returns
          result        \* what root_from_inclusion_proof returned

vars == <<query, pc, size, m, rest, stack, acc, result>>

Init ==
    /\ query \in Queries
    /\ pc = "guard"
    /\ size = 0
    /\ m = 0
    /\ rest = 0
    /\ stack = << >>
    /\ acc = NoRoot
    /\ result = NoRoot

\* Mutant: any path length will do.
ShapeAnyLength(q) ==
    /\ 0 <= q.index
    /\ q.index < q.tree_size
    /\ q.tree_size <= MAX_TREE_SIZE

\* The range, ceiling and path-length checks that precede all hashing.
ShapeOK(q) ==
    /\ 0 <= q.index
    /\ q.index < q.tree_size
    /\ q.tree_size <= MAX_TREE_SIZE
    /\ Len(q.path) = expected_inclusion_path_len(q.tree_size, q.index)

Refuse ==
    /\ pc = "guard"
    /\ ~ShapeOK(query)
    /\ pc' = "done"
    /\ UNCHANGED <<query, size, m, rest, stack, acc, result>>

Start ==
    /\ pc = "guard"
    /\ ShapeOK(query)
    /\ pc' = "call"
    /\ size' = query.tree_size
    /\ m' = query.index
    /\ rest' = Len(query.path)
    /\ UNCHANGED <<query, stack, acc, result>>

\* fold(size, m) pops the outermost sibling left, query.path[rest], and calls
\* itself; with none left every activation returns None.
Call ==
    /\ pc = "call"
    /\ size > 1
    /\ IF rest = 0
       THEN /\ pc' = "done"
            /\ UNCHANGED <<query, size, m, rest, stack, acc, result>>
       ELSE /\ stack' = Append(stack, [size |-> size, m |-> m, at |-> rest])
            /\ rest' = rest - 1
            /\ size' = ChildSize(size, m)
            /\ m' = ChildIndex(size, m)
            /\ UNCHANGED <<query, pc, acc, result>>

\* Mutant: the leaf is hashed with the prefix of an interior node.
BottomAsNode ==
    /\ pc = "call"
    /\ size = 1
    /\ acc' = <<"node", query.leaf>>
    /\ pc' = "return"
    /\ UNCHANGED <<query, size, m, rest, stack, result>>

\* size == 1: the leaf's own hash.
Bottom ==
    /\ pc = "call"
    /\ size = 1
    /\ acc' = leaf_hash(query.leaf)
    /\ pc' = "return"
    /\ UNCHANGED <<query, size, m, rest, stack, result>>

\* Mutant: the sibling is always hashed on the right.
ReturnLeftOnly ==
    /\ pc = "return"
    /\ stack # << >>
    /\ LET top == stack[Len(stack)]
       IN  /\ acc' = node_hash(acc, query.path[top.at])
           /\ size' = top.size
           /\ m' = top.m
    /\ stack' = SubSeq(stack, 1, Len(stack) - 1)
    /\ UNCHANGED <<query, pc, rest, result>>

\* The suspended activation hashes its child with its sibling.
Return ==
    /\ pc = "return"
    /\ stack # << >>
    /\ LET top     == stack[Len(stack)]
           sibling == query.path[top.at]
       IN  /\ acc' = IF top.m < largest_pow2_below(top.size) THEN node_hash(acc, sibling)
                                                             ELSE node_hash(sibling, acc)
           /\ size' = top.size
           /\ m' = top.m
    /\ stack' = SubSeq(stack, 1, Len(stack) - 1)
    /\ UNCHANGED <<query, pc, rest, result>>

\* The outermost activation has returned; left-over siblings refuse the proof.
Finish ==
    /\ pc = "return"
    /\ stack = << >>
    /\ result' = IF rest = 0 THEN acc ELSE NoRoot
    /\ pc' = "done"
    /\ UNCHANGED <<query, size, m, rest, stack, acc>>

Next == Refuse \/ Start \/ Call \/ Bottom \/ Return \/ Finish

\* The call is straight-line code: it always takes its next step.
Spec == Init /\ [][Next]_vars /\ WF_vars(Next)

-----------------------------------------------------------------------------
(* Properties.                                                             *)

\* A suspended activation of fold.
Frame == [size : Sizes, m : Nat, at : Nat]

TypeOK ==
    /\ query \in Queries
    /\ pc \in {"guard", "call", "return", "done"}
    /\ size \in 0..MAX_TREE_SIZE
    /\ m \in 0..MAX_TREE_SIZE
    /\ rest \in Nat
    /\ stack \in Seq(Frame)

\* The range of Log that fold(sz, mm) is about: sz entries from query.index - mm.
Covers(sz, mm) ==
    /\ sz \in Sizes
    /\ mm \in 0..(sz - 1)
    /\ mm <= query.index
    /\ query.index - mm + sz <= query.tree_size

\* Each suspended activation called the next one, the last the current one.
Linked ==
    /\ IF stack = << >> THEN size = query.tree_size /\ m = query.index
       ELSE stack[1].size = query.tree_size /\ stack[1].m = query.index
    /\ \A j \in 1..Len(stack) :
          /\ stack[j].size > 1
          /\ Covers(stack[j].size, stack[j].m)
          /\ ChildSize(stack[j].size, stack[j].m) =
                IF j = Len(stack) THEN size ELSE stack[j + 1].size
          /\ ChildIndex(stack[j].size, stack[j].m) =
                IF j = Len(stack) THEN m ELSE stack[j + 1].m

\* The digest returned so far is the log's own only over the log's own leaf.
ReturnsSound ==
    acc = Tree(query.index - m, size) => query.leaf = Log[query.index + 1]

(* The inductive invariant behind the next two properties. *)
FoldInv ==
    /\ pc = "guard" => stack = << >>
    /\ pc \in {"call", "return"} => ShapeOK(query) /\ Covers(size, m) /\ Linked
    /\ pc = "call" => rest = expected_inclusion_path_len(size, m)
    /\ pc = "return" => rest = 0 /\ acc # NoRoot /\ ReturnsSound
    /\ (pc = "done" /\ ShapeOK(query)) =>
          /\ result # NoRoot
          /\ result = Tree(0, query.tree_size) => query.leaf = Log[query.index + 1]

(* Soundness of an inclusion proof: when the rebuilt root is the root of the
   log's tree of the claimed size, the leaf is the log's entry at the claimed
   index, whatever the siblings were. *)
InclusionSound ==
    (pc = "done" /\ ShapeOK(query) /\ result = Tree(0, query.tree_size)) =>
        query.leaf = Log[query.index + 1]

(* Once the guards have passed, the fold always ends in a root: it neither
   runs out of siblings nor has one left.  The Rust port unwraps the result
   on the strength of this. *)
GuardsSuffice == (pc = "done" /\ ShapeOK(query)) => result # NoRoot

(* Every call returns, and what it returns is what the operator of module
   Merkle computes: the loop of fold calls ends, whatever path was handed in. *)
FoldIsTheOperator ==
    <>(/\ pc = "done"
       /\ result = root_from_inclusion_proof(query.leaf, query.index,
                                             query.tree_size, query.path))

=============================================================================
