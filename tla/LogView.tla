------------------------------- MODULE LogView ------------------------------
(***************************************************************************)
(* What a reader of an append-only log is promised, whatever data          *)
(* structure carries the proofs: the history behind the head it trusts is  *)
(* only ever extended, and what it has accepted as the content of a place  *)
(* is the content of that place and is never taken back.  MerkleLog        *)
(* (RFC 9162 trees) and MmrLog (mountain ranges under checkpoints) both    *)
(* implement this specification.                                           *)
(***************************************************************************)
EXTENDS Integers, Sequences, SequencesExt

VARIABLES view,     \* the history the reader's head stands for
          accepted  \* the entries it accepted: a set of <<place, entry>>

Init == view = << >> /\ accepted = {}

Extend ==
    /\ IsPrefix(view, view')
    /\ UNCHANGED accepted

Accept(place) ==
    /\ accepted' = accepted \cup {<<place, view[place]>>}
    /\ UNCHANGED view

Next ==
    \/ Extend
    \/ \E place \in 1..Len(view) : Accept(place)

Spec == Init /\ [][Next]_<<view, accepted>>
=============================================================================
