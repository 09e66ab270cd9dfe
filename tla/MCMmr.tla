------------------------------- MODULE MCMmr --------------------------------
(* MmrLog and MmrJs for TLC.  A behaviour is one call of MMR_JS, step by     *)
(* step, or a reader that moves from checkpoint to checkpoint beside a call  *)
(* that has returned.                                                        *)
(*                                                                           *)
(* Histories of up to five leaves reach sizes with one and two mountains of  *)
(* height 0, 1 and 2, and old peaks that merge or stay.  Positions and sizes *)
(* up to 40 cover mountains of five heights, and logs of up to seven leaves  *)
(* three mountains and paths of length 2.                                    *)
EXTENDS MmrLog, MmrJs

\* The call beside which the reader moves.
Height0 == [fn |-> "heightAt", n |-> 0, a |-> 0, edit |-> "none"]

Calls == Next /\ UNCHANGED readerVars

Reads == Done /\ call = Height0 /\ ReaderNext /\ UNCHANGED vars

Together == Init /\ ReaderInit

CallsAndReads ==
    /\ Together
    /\ [][Calls \/ Reads]_<<vars, readerVars>>
    /\ WF_vars(Calls)
=============================================================================
