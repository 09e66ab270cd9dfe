------------------------------ MODULE MerkleLog -----------------------------
(***************************************************************************)
(* A reader that keeps one tree head of a log and moves it forward with    *)
(* merkle.verify_consistency, and checks entries against it with           *)
(* merkle.verify_inclusion.  The log operator is the environment: it may   *)
(* append, and it may serve another history altogether.  Proofs come from  *)
(* the operator too, so every short sequence of the digests of the trees   *)
(* involved is tried, not only the honest proof.                           *)
(***************************************************************************)
EXTENDS Merkle, SequencesExt

CONSTANTS MaxEntries,   \* bound on the length of a served history
          MaxProof,     \* bound on the length of a served consistency proof
          MaxPath,      \* bound on the length of a served audit path
          Held,         \* the entries the reader holds and looks for
          MaxRewrites   \* bound on how often the operator rewrites an entry

VARIABLES served,       \* the history the operator serves now
          rewrites,     \* how often the operator has rewritten an entry
          head,         \* the tree head the reader trusts: [size, root]
          seen,         \* the history behind that head (never visible to the reader)
          fact          \* an inclusion the reader accepted earlier, or NoFact

readerVars == <<served, rewrites, head, seen, fact>>

\* The entry first logged at position i is i, one that replaces it is -i.
Entries == (-MaxEntries)..MaxEntries \ {0}

ASSUME MerkleLogAssumption ==
    /\ {MaxEntries, MaxProof, MaxPath, MaxRewrites} \subseteq Nat
    /\ MaxEntries <= MAX_TREE_SIZE
    /\ Held \subseteq Entries

NoFact == [entry |-> 0, index |-> -1]

ReaderInit ==
    /\ served = << >>
    /\ rewrites = 0
    /\ head = [size |-> 0, root |-> merkle_root(<< >>)]
    /\ seen = << >>
    /\ fact = NoFact

-----------------------------------------------------------------------------
(* The operator.                                                           *)

AppendEntry ==
    /\ Len(served) < MaxEntries
    /\ served' = Append(served, Len(served) + 1)
    /\ UNCHANGED <<rewrites, head, seen, fact>>

\* Serve a history that differs in one entry, which may be an old one.
Rewrite(i) ==
    /\ rewrites < MaxRewrites
    /\ served' = [served EXCEPT ![i] = -served[i]]
    /\ rewrites' = rewrites + 1
    /\ UNCHANGED <<head, seen, fact>>

-----------------------------------------------------------------------------
(* The reader.                                                             *)

\* The digests of the nodes the recursive split makes of a history.
TreeNodes(h) ==
    LET nodes[r \in Nat \X Nat] ==
            LET k == largest_pow2_below(r[2])
            IN  {mth(LeavesOf(SubSeq(h, r[1] + 1, r[1] + r[2])))} \cup
                (IF r[2] < 2 THEN {} ELSE nodes[<<r[1], k>>] \cup nodes[<<r[1] + k, r[2] - k>>])
    IN  nodes[<<0, Len(h)>>]

\* The proofs of at most n nodes worth serving for a history.  A verified proof hashes each of its
\* nodes into the root, so with collision-free hashing a node that is not in
\* the tree cannot occur in a proof that verifies.
ProofSpace(h, n) == SeqOf(TreeNodes(h), n)

\* A new head is adopted when the consistency proof verifies from the old one.
AdvanceHead ==
    LET root == merkle_root(served)
    IN  /\ \E proof \in ProofSpace(served, MaxProof) :
              verify_consistency(head.root, root, head.size, Len(served), proof)
        /\ head' = [size |-> Len(served), root |-> root]
        /\ seen' = served
        /\ UNCHANGED <<served, rewrites, fact>>

\* An entry is accepted when an audit path leads from it to the trusted root.
AcceptEntry(e, index) ==
    /\ fact = NoFact
    /\ \E path \in ProofSpace(seen, MaxPath) :
            verify_inclusion(e, index, head.size, path, head.root)
    /\ fact' = [entry |-> e, index |-> index]
    /\ UNCHANGED <<served, rewrites, head, seen>>

ReaderNext ==
    \/ AppendEntry
    \/ \E i \in 1..Len(served) : Rewrite(i)
    \/ AdvanceHead
    \/ \E e \in Held, index \in 0..(head.size - 1) : AcceptEntry(e, index)

ReaderSpec == ReaderInit /\ [][ReaderNext]_readerVars

-----------------------------------------------------------------------------
(* Properties.                                                             *)

\* What the reader accepted, as LogView states it.
Accepted == IF fact = NoFact THEN {} ELSE {<<fact.index + 1, fact.entry>>}

View == INSTANCE LogView WITH view <- seen, accepted <- Accepted

(* The reader is a reader of an append-only log: no proof makes
   verify_consistency accept a rewritten history, whatever the two sizes, and
   no audit path makes verify_inclusion accept an entry that the history does
   not have at that index.  An accepted entry therefore stands under every
   later head. *)
ImplementsLogView == View!Spec

(* Honest proofs verify: from every earlier size to the served history by
   consistency_proof, and for every entry by inclusion_proof, whose length is
   the one the verifier expects. *)
HonestProofsVerify ==
    LET n == Len(served)
        root == merkle_root(served)
    IN  /\ \A m \in 0..n :
               verify_consistency(merkle_root(SubSeq(served, 1, m)), root, m, n,
                                  consistency_proof(served, m, n))
        /\ \A i \in 0..(n - 1) :
               /\ Len(inclusion_proof(served, i)) = expected_inclusion_path_len(n, i)
               /\ verify_inclusion(served[i + 1], i, n, inclusion_proof(served, i), root)
=============================================================================
