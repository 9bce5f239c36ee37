------------------------------- MODULE Interp -------------------------------
(***************************************************************************)
(* The control core of the interpreter: main.cc's run loop, execMips and   *)
(* branch (profileMips.cc).  A control transfer executes its delay slot by *)
(* calling execMips recursively, before it writes its own target to the    *)
(* pc; the C++ stack of the pending calls is frames.  One step of this     *)
(* module is the body of one execMips call up to its recursive call        *)
(* (Fetch...), the rest of a pending call (Resume), or the loop's exit.    *)
(*                                                                         *)
(* Addresses count words.  What an instruction computes is abstracted to   *)
(* the values the control depends on: whether a branch is taken, the       *)
(* target, the value of $31.  The word at an address may be any            *)
(* instruction each time: memory is not modelled.  The prediction of       *)
(* bpred->predict is free, which covers all five implementations; the      *)
(* modules of the predictors say what it is.                               *)
(***************************************************************************)
EXTENDS ReturnStack, FiniteSetsExt

CONSTANTS
    NWords,         \* words of simulated memory (2^30 in the program)
    MaxIcnt,        \* state->maxicnt, option --maxicnt
    HistLen,        \* outcomes of globals::bhr that are modelled
    BpredImpls,     \* the predictors main may create
    MaxNest         \* bound: control transfers in one chain of delay slots

ASSUME NWordsAssumption == NWords \in Nat \ {0} /\ Addr = 0 .. NWords - 1
ASSUME MaxIcntAssumption == MaxIcnt \in Nat
ASSUME HistLenAssumption == HistLen \in Nat \ {0}
ASSUME MaxNestAssumption == MaxNest \in Nat \ {0}

VARIABLES
    pc,             \* state->pc
    last_pc,        \* state->last_pc, the instruction executed last
    gpr31,          \* state->gpr[31], the link register
    brk,            \* state->brk
    icnt,           \* state->icnt
    status,         \* "running", "stopped" (main returned), "exited" (exit(-1))
    frames,         \* targets of the pending execMips calls, innermost last
    returning,      \* the execMips call of the innermost frame has returned
    bhr,            \* globals::bhr, newest outcome first
    bpred_impl,     \* the predictor main created
    n_branches, n_mispredicts,      \* branch_predictor's counters
    mispredict_map,                 \* mispredictions per address
    num_jr_r31, num_jr_r31_mispred, \* globals, returns and mispredicted ones
    last_ins        \* history: the instruction executed last and its outcome

coreVars == <<pc, last_pc, gpr31, brk, icnt, status, frames, returning, last_ins>>
predVars == <<bpred_impl, n_branches, n_mispredicts, mispredict_map>>
retVars == <<num_jr_r31, num_jr_r31_mispred>>
vars == <<coreVars, predVars, retVars, bhr, rsbVars>>

Ops == {"none", "plain", "branch", "likely", "jump", "monitor", "break", "die"}

NoTarget == -1      \* the frame of a branch that is not taken

Plus(a, words) == (a + words) % NWords

Init ==
    /\ pc \in Addr /\ gpr31 \in Addr            \* an ELF entry or a dump
    /\ last_pc = 0 /\ brk = FALSE /\ icnt = 0 /\ status = "running"
    /\ frames = << >> /\ returning = FALSE
    /\ bhr = [i \in 1 .. HistLen |-> FALSE]
    /\ bpred_impl \in BpredImpls
    /\ n_branches = 0 /\ n_mispredicts = 0
    /\ mispredict_map = [a \in Addr |-> 0]
    /\ num_jr_r31 = 0 /\ num_jr_r31_mispred = 0
    /\ last_ins = [op |-> "none", taken |-> FALSE]
    /\ RsbInit

-----------------------------------------------------------------------------
(* Variant for the mutants: the run loop tests "icnt <= maxicnt".          *)
FetchPastBudget(op, taken) ==
    /\ status = "running" /\ ~returning
    /\ frames = << >> => ~brk /\ icnt <= MaxIcnt
    /\ icnt' = icnt + 1
    /\ last_pc' = pc
    /\ last_ins' = [op |-> op, taken |-> taken]
    /\ UNCHANGED bpred_impl

(* Variant for the mutants: the run loop does not test brk.                *)
FetchPastBreak(op, taken) ==
    /\ status = "running" /\ ~returning
    /\ frames = << >> => icnt < MaxIcnt
    /\ icnt' = icnt + 1
    /\ last_pc' = pc
    /\ last_ins' = [op |-> op, taken |-> taken]
    /\ UNCHANGED bpred_impl

(* What every call of execMips does first.  The run loop tests brk and the *)
(* instruction budget; a call for a delay slot tests neither.              *)
Fetch(op, taken) ==
    /\ status = "running" /\ ~returning
    /\ frames = << >> => ~brk /\ icnt < MaxIcnt
    /\ icnt' = icnt + 1
    /\ last_pc' = pc
    /\ last_ins' = [op |-> op, taken |-> taken]
    /\ UNCHANGED bpred_impl

(* The recursive call of execMips for the delay slot.                      *)
CallSlot(target) ==
    /\ Len(frames) < MaxNest
    /\ frames' = Append(frames, target)
    /\ pc' = Plus(pc, 1)
    /\ UNCHANGED <<returning, brk, status>>

(* execMips returns: to the frame waiting for its delay slot, or the loop. *)
Return ==
    /\ returning' = (frames # << >>)
    /\ UNCHANGED <<frames, status>>

ShiftHistory(taken) ==
    bhr' = [k \in 1 .. HistLen |-> IF k = 1 THEN taken ELSE bhr[k - 1]]

(* gshare and uberhistory also count the misprediction at its address.     *)
KeepsMap == bpred_impl \in {"gshare", "uberhistory"}

UpdatePredictor(bp, taken) ==
    /\ n_branches' = n_branches + 1
    /\ n_mispredicts' = n_mispredicts + (IF bp # taken THEN 1 ELSE 0)
    /\ mispredict_map' = IF bp # taken /\ KeepsMap
                           THEN [mispredict_map EXCEPT ![pc] = @ + 1]
                           ELSE mispredict_map

PredictorIdle == UNCHANGED <<n_branches, n_mispredicts, mispredict_map>>

-----------------------------------------------------------------------------
(* Every instruction that only moves on, loads of $31 among them.          *)
Plain(ra) ==
    /\ Fetch("plain", FALSE)
    /\ pc' = Plus(pc, 1)
    /\ gpr31' = ra
    /\ Return
    /\ PredictorIdle /\ UNCHANGED <<brk, bhr, retVars, rsbVars>>

(* branch<EL, bt>, taken or not: predict, resolve, shift the history, then *)
(* train, and execute the delay slot.                                      *)
Branch(op, bp, taken, target) ==
    /\ op = "branch" \/ taken
    /\ Fetch(op, taken)
    /\ UpdatePredictor(bp, taken)
    /\ ShiftHistory(taken)
    /\ CallSlot(IF taken THEN target ELSE NoTarget)
    /\ UNCHANGED <<gpr31, retVars, rsbVars>>

(* Variant for the mutants: the slot of a likely branch is never skipped.  *)
AnnulNothing(bp) ==
    /\ Fetch("likely", FALSE)
    /\ UpdatePredictor(bp, FALSE)
    /\ ShiftHistory(FALSE)
    /\ pc' = Plus(pc, 1)
    /\ Return
    /\ UNCHANGED <<brk, gpr31, retVars, rsbVars>>

(* A branch-likely that is not taken skips its delay slot.                 *)
AnnulSlot(bp) ==
    /\ Fetch("likely", FALSE)
    /\ UpdatePredictor(bp, FALSE)
    /\ ShiftHistory(FALSE)
    /\ pc' = Plus(pc, 2)
    /\ Return
    /\ UNCHANGED <<brk, gpr31, retVars, rsbVars>>

JumpTo(target) ==
    /\ Fetch("jump", TRUE)
    /\ ShiftHistory(TRUE)
    /\ CallSlot(target)
    /\ PredictorIdle

(* j, and jr of a register other than $31.                                 *)
Jump(target) ==
    /\ JumpTo(target)
    /\ UNCHANGED <<gpr31, retVars, rsbVars>>

(* jal and jalr push the address after the delay slot.                     *)
Call(target) ==
    /\ JumpTo(target)
    /\ gpr31' = Plus(pc, 2)
    /\ RsbPush(Plus(pc, 2))
    /\ UNCHANGED retVars

(* Variant for the mutants: returns enter the map of the predictors that   *)
(* use it only.                                                            *)
JumpRegister31OwnMap ==
    /\ Fetch("jump", TRUE)
    /\ LET miss == gpr31 # RsbTop IN
       /\ num_jr_r31_mispred' = num_jr_r31_mispred + (IF miss THEN 1 ELSE 0)
       /\ mispredict_map' = IF miss /\ KeepsMap THEN [mispredict_map EXCEPT ![pc] = @ + 1]
                                                ELSE mispredict_map
    /\ num_jr_r31' = num_jr_r31 + 1
    /\ RsbPop
    /\ ShiftHistory(TRUE)
    /\ CallSlot(gpr31)
    /\ UNCHANGED <<gpr31, n_branches, n_mispredicts>>

(* jr $31 pops before the delay slot; the counter is kept in the map that  *)
(* the predictor owns, whichever predictor it is.                          *)
JumpRegister31 ==
    /\ Fetch("jump", TRUE)
    /\ LET miss == gpr31 # RsbTop IN
       /\ num_jr_r31_mispred' = num_jr_r31_mispred + (IF miss THEN 1 ELSE 0)
       /\ mispredict_map' = IF miss THEN [mispredict_map EXCEPT ![pc] = @ + 1]
                                    ELSE mispredict_map
    /\ num_jr_r31' = num_jr_r31 + 1
    /\ RsbPop
    /\ ShiftHistory(TRUE)
    /\ CallSlot(gpr31)
    /\ UNCHANGED <<gpr31, n_branches, n_mispredicts>>

(* _monitorBody returns to $31 by itself, without the return stack.        *)
MonitorCall ==
    /\ Fetch("monitor", TRUE)
    /\ pc' = gpr31
    /\ Return
    /\ PredictorIdle /\ UNCHANGED <<brk, gpr31, bhr, retVars, rsbVars>>

Break ==
    /\ Fetch("break", FALSE)
    /\ brk' = TRUE
    /\ Return
    /\ PredictorIdle /\ UNCHANGED <<pc, gpr31, bhr, retVars, rsbVars>>

(* exit(-1): an unknown instruction, syscall, the monitor's exit.          *)
Exit ==
    /\ Fetch("die", FALSE)
    /\ status' = "exited"
    /\ PredictorIdle
    /\ UNCHANGED <<pc, gpr31, brk, frames, returning, bhr, retVars, rsbVars>>

(* Variant for the mutants: the outermost call does not return to the loop. *)
ResumeForever ==
    /\ status = "running" /\ returning
    /\ LET target == frames[Len(frames)] IN
       pc' = IF target = NoTarget THEN pc ELSE target
    /\ frames' = SubSeq(frames, 1, Len(frames) - 1)
    /\ PredictorIdle
    /\ UNCHANGED <<bpred_impl, last_pc, gpr31, brk, icnt, status, returning, last_ins, bhr,
                   retVars, rsbVars>>

(* The rest of a control transfer, once its delay slot has been executed.  *)
Resume ==
    /\ status = "running" /\ returning
    /\ LET target == frames[Len(frames)] IN
       pc' = IF target = NoTarget THEN pc ELSE target
    /\ frames' = SubSeq(frames, 1, Len(frames) - 1)
    /\ returning' = (Len(frames) > 1)
    /\ PredictorIdle
    /\ UNCHANGED <<bpred_impl, last_pc, gpr31, brk, icnt, status, last_ins, bhr, retVars, rsbVars>>

(* Variant for the mutants: the run loop waits for the budget after break.  *)
StopOnBudgetOnly ==
    /\ status = "running" /\ frames = << >>
    /\ icnt >= MaxIcnt
    /\ status' = "stopped"
    /\ PredictorIdle
    /\ UNCHANGED <<bpred_impl, pc, last_pc, gpr31, brk, icnt, frames, returning, last_ins, bhr,
                   retVars, rsbVars>>

(* The run loop ends and main reports.                                     *)
Stop ==
    /\ status = "running" /\ frames = << >>
    /\ brk \/ icnt >= MaxIcnt
    /\ status' = "stopped"
    /\ PredictorIdle
    /\ UNCHANGED <<bpred_impl, pc, last_pc, gpr31, brk, icnt, frames, returning, last_ins, bhr,
                   retVars, rsbVars>>

Next ==
    \/ \E ra \in Addr : Plain(ra)
    \/ \E op \in {"branch", "likely"}, bp, taken \in BOOLEAN, target \in Addr :
          Branch(op, bp, taken, target)
    \/ \E bp \in BOOLEAN : AnnulSlot(bp)
    \/ \E target \in Addr : Jump(target) \/ Call(target)
    \/ JumpRegister31 \/ MonitorCall \/ Break \/ Exit
    \/ Resume \/ Stop

Spec == Init /\ [][Next]_vars

-----------------------------------------------------------------------------
CoreTypeOK ==
    /\ {pc, last_pc, gpr31} \subseteq Addr
    /\ brk \in BOOLEAN /\ returning \in BOOLEAN
    /\ icnt \in Nat
    /\ status \in {"running", "stopped", "exited"}
    /\ frames \in Seq(Addr \cup {NoTarget}) /\ Len(frames) <= MaxNest
    /\ returning => frames # << >>
    /\ last_ins \in [op : Ops, taken : BOOLEAN]

StatsTypeOK ==
    /\ bhr \in [1 .. HistLen -> BOOLEAN]
    /\ bpred_impl \in BpredImpls
    /\ {n_branches, n_mispredicts, num_jr_r31, num_jr_r31_mispred} \subseteq Nat
    /\ mispredict_map \in [Addr -> Nat]

TypeOK == CoreTypeOK /\ StatsTypeOK /\ RsbTypeOK

(* The loop tests the budget only between chains of delay slots, so the    *)
(* instructions executed exceed --maxicnt by the chain in flight at most.  *)
BudgetOverrun == icnt <= MaxIcnt + MaxNest

(* What the run loop (main.cc:237-247) leaves of the budget inside a chain: *)
(* each pending call has executed one instruction past the loop's test.    *)
BudgetInv ==
    /\ BudgetOverrun
    /\ status = "running" /\ frames # << >> /\ ~returning =>
          icnt <= MaxIcnt + Len(frames) - 1

(* The histogram written to mispredicts.txt (main.cc:269) accounts for     *)
(* every mispredicted return, and with gshare and uberhistory for every    *)
(* mispredicted branch, once each: two counters kept by two parts of the   *)
(* program and one map that both of them increment.                        *)
MispredictAccounting ==
    MapThenSumSet(LAMBDA a : mispredict_map[a], Addr) =
        num_jr_r31_mispred + (IF KeepsMap THEN n_mispredicts ELSE 0)

(* A return to the innermost call that the buffer can still know is never  *)
(* counted as mispredicted, however many calls, returns and overflows came *)
(* before and whatever delay slots lie between.                            *)
MatchedReturn ==
    /\ num_jr_r31' # num_jr_r31
    /\ calls # << >> /\ gpr31 = Head(calls)

MatchedReturnPredicted ==
    [][MatchedReturn => num_jr_r31_mispred' = num_jr_r31_mispred]_vars

(* A finite budget ends every run: a chain of delay slots unwinds and the  *)
(* loop is left by break, by the budget or by exit.                        *)
Termination == <>(status # "running")
=============================================================================
