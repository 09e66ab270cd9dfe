------------------------------ MODULE MCMerkle ------------------------------
(* MerkleFold and MerkleLog for TLC, over one ceiling.  A behaviour is one   *)
(* call of the verifier, step by step, or a reader that moves from head to   *)
(* head beside a call that was refused at once.                              *)
(*                                                                           *)
(* The calls are against a log of five entries, two of them equal, with      *)
(* every path that is a short sequence of the digests of its tree and one    *)
(* foreign digest.  The reader holds both versions of an entry that the      *)
(* operator may rewrite.                                                     *)
EXTENDS MerkleFold, MerkleLog

MCLog == <<"a", "b", "a", "c", "d">>

\* Siblings: the nodes of the full tree, and a digest that is in no tree.
Siblings ==
    {Tree(r[1], r[2]) : r \in {<<0, 1>>, <<1, 1>>, <<2, 1>>, <<3, 1>>, <<4, 1>>, <<0, 2>>, <<2, 2>>, <<0, 4>>}}
        \cup {<<"foreign">>}

MCQueries ==
    [leaf : {"a", "b", "d", "x"}, index : -1..4, tree_size : 0..6, path : SeqOf(Siblings, 3)]

HeldEntries == {3, -3}

\* The call beside which the reader moves.
Refused == [leaf |-> "x", index |-> -1, tree_size |-> 0, path |-> << >>]

Calls == Next /\ UNCHANGED readerVars

Reads == pc = "done" /\ query = Refused /\ ReaderNext /\ UNCHANGED vars

Together == Init /\ ReaderInit

CallsAndReads ==
    /\ Together
    /\ [][Calls \/ Reads]_<<vars, readerVars>>
    /\ WF_vars(Calls)
=============================================================================
