---------------------------- MODULE MCSimulator ----------------------------
(* Simulator with two words of code, words of four bits, and two lines    *)
(* that share a set.                                                       *)
EXTENDS Simulator, InterpDelaySlot
MCAddr == 0 .. NWords - 1
=============================================================================
