------------------------------ MODULE MCInterp ------------------------------
(***************************************************************************)
(* Instances of the control core for TLC: a few words of memory, one       *)
(* predictor that keeps the mispredict map for branches and one that does  *)
(* not, a two-entry return stack.                                          *)
(***************************************************************************)
EXTENDS InterpDelaySlot

MCAddr == 0 .. NWords - 1
=============================================================================
