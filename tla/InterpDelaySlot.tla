-------------------------- MODULE InterpDelaySlot --------------------------
(***************************************************************************)
(* The interpreter of programs without transfers in delay slots            *)
(* (MaxNest = 1) implements the pc/next-pc machine: the recursive calls of *)
(* execMips, the annulled slot and the late write of the target to the pc  *)
(* give each instruction its successor.                                    *)
(***************************************************************************)
EXTENDS Interp

InSlot == frames # << >> /\ ~returning

Halted == brk \/ status = "exited"

(* Where execution goes on, once the pending call has resumed, ...         *)
Landing == IF ~returning \/ frames[1] = NoTarget THEN pc ELSE frames[1]

(* ... and after one more instruction.                                     *)
NextPc == IF InSlot /\ frames[1] # NoTarget THEN frames[1] ELSE Plus(Landing, 1)

SlotKind == IF ~InSlot THEN "no" ELSE IF frames[1] = NoTarget THEN "untaken" ELSE "taken"

DS == INSTANCE DelaySlot WITH
        at <- Landing, next <- NextPc, slot <- SlotKind, halted <- Halted,
        executed <- last_pc, ins <- last_ins

(* The run loop and the recursion of execMips execute the instructions a   *)
(* delayed-branch machine executes, in its order.                          *)
ImplementsDelaySlot == DS!DSSpec

(* A break leaves every pending call before anything else is fetched.      *)
BreakUnwinds == InSlot => ~brk
=============================================================================
