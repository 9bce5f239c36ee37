----------------------------- MODULE DelaySlot -----------------------------
(***************************************************************************)
(* What a MIPS program sees of its control flow: an instruction and the    *)
(* address that follows it (pc and next pc).  A control transfer only      *)
(* changes the address after its delay slot, so the slot is executed once, *)
(* in place, before the target.  The interpreter has no next pc: it calls  *)
(* itself for the delay slot (profileMips.cc:400-415, 1394-1395).          *)
(***************************************************************************)
EXTENDS Integers

CONSTANTS NWords, Addr

VARIABLES
    at,         \* the instruction to execute
    next,       \* the one after it
    slot,       \* whether at is a delay slot: "no", "taken", "untaken"
    halted,     \* break or exit
    executed,   \* address of the instruction executed last
    ins         \* that instruction and its outcome

dsVars == <<at, next, slot, halted, executed, ins>>

After(a, words) == (a + words) % NWords

DSInit ==
    /\ at \in Addr /\ next = After(at, 1)
    /\ slot = "no" /\ halted = FALSE /\ executed = 0
    /\ ins = [op |-> "none", taken |-> FALSE]

Execute(op, taken) ==
    /\ ~halted
    /\ executed' = at
    /\ ins' = [op |-> op, taken |-> taken]

(* No delay slot of its own; the one of a taken transfer ends at its target. *)
ContinueAt(a) ==
    /\ at' = IF slot = "taken" THEN next ELSE a
    /\ next' = After(at', 1)
    /\ slot' = "no"
    /\ UNCHANGED halted

DSPlain == Execute("plain", FALSE) /\ ContinueAt(After(at, 1))
DSAnnul == Execute("likely", FALSE) /\ ContinueAt(After(at, 2))
DSMonitor(a) == Execute("monitor", TRUE) /\ ContinueAt(a)

(* MIPS leaves a transfer in the delay slot of another one undefined.      *)
DSTransfer(op, taken, target) ==
    /\ slot = "no"
    /\ op = "branch" \/ taken
    /\ Execute(op, taken)
    /\ at' = After(at, 1)
    /\ next' = IF taken THEN target ELSE After(at, 2)
    /\ slot' = IF taken THEN "taken" ELSE "untaken"
    /\ UNCHANGED halted

(* Where a halted program stands is not specified.                         *)
DSHalt(op) ==
    /\ Execute(op, FALSE)
    /\ halted' = TRUE
    /\ {at', next'} \subseteq Addr
    /\ slot' \in {"no", "taken", "untaken"}

DSNext ==
    \/ DSPlain \/ DSAnnul
    \/ \E a \in Addr : DSMonitor(a)
    \/ \E op \in {"branch", "likely", "jump"}, taken \in BOOLEAN, target \in Addr :
          DSTransfer(op, taken, target)
    \/ \E op \in {"break", "die"} : DSHalt(op)

DSSpec == DSInit /\ [][DSNext]_dsVars
=============================================================================
