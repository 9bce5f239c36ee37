-------------------------- MODULE SimulatorProofs --------------------------
(***************************************************************************)
(* Proofs about the simulator.                                             *)
(*                                                                         *)
(* First its control core, for every memory size, budget, return stack     *)
(* size and depth of delay-slot nesting: the return-address predictor      *)
(* keeps the newest RsbSize calls; type correctness, how far the run loop  *)
(* can overrun its budget, and that a return to the innermost remembered   *)
(* call is never counted as mispredicted; the run loop and the recursion   *)
(* of execMips implement the pc/next-pc machine when no control transfer   *)
(* sits in a delay slot.                                                   *)
(*                                                                         *)
(* Then what interpreter, predictor and cache are to one another, for      *)
(* every word width, history length, size of the predictor and cache, and  *)
(* every program: their histories agree, hits are fresh, the predictor is  *)
(* the abstract one although the interpreter drives it, the whole is a run *)
(* of the interpreter, and the report adds up.                             *)
(***************************************************************************)
EXTENDS Simulator, InterpDelaySlot, FiniteSetTheorems, TLAPS


-----------------------------------------------------------------------------
(* The return-address predictor: one push and one pop.                     *)
RsbInv == RsbTypeOK /\ RsbHoldsCalls

(* "& (rsb_sz - 1)" on the arguments that occur, below twice the size.     *)
LEMMA WrapValue ==
    ASSUME NEW i \in -1 .. 2 * RsbSize - 1
    PROVE  Wrap(i) = IF i < 0 THEN i + RsbSize
                     ELSE IF i < RsbSize THEN i ELSE i - RsbSize
  BY RsbSizeAssumption DEF Wrap

(* Wrap never leaves the buffer, so every slot it names exists.            *)
LEMMA WrapInSlots ==
    ASSUME NEW i \in -1 .. 2 * RsbSize - 1
    PROVE  Wrap(i) \in Slots
  BY WrapValue, RsbSizeAssumption DEF Slots

(* Counting k slots from one above or one below the top is counting k + 1   *)
(* or k - 1 from the top, around the end of the buffer too.                *)
LEMMA WrapAbove ==
    ASSUME NEW t \in Slots, NEW k \in 1 .. RsbSize - 1
    PROVE  Wrap(Wrap(t + 1) + k) = Wrap(t + (k + 1))
<1>1. RsbSize \in Nat \ {0} /\ t \in 0 .. RsbSize - 1
  BY RsbSizeAssumption DEF Slots
<1>2. Wrap(t + 1) = IF t + 1 < RsbSize THEN t + 1 ELSE 0
  BY <1>1, WrapValue
<1>3. CASE t + 1 < RsbSize
  BY <1>1, <1>2, <1>3
<1>4. CASE ~(t + 1 < RsbSize)
  BY <1>1, <1>2, <1>4, WrapValue
<1> QED
  BY <1>3, <1>4

(* The same for one below the top.                                         *)
LEMMA WrapBelow ==
    ASSUME NEW t \in Slots, NEW k \in 1 .. RsbSize
    PROVE  Wrap(Wrap(t - 1) + k) = Wrap(t + (k - 1))
<1>1. RsbSize \in Nat \ {0} /\ t \in 0 .. RsbSize - 1
  BY RsbSizeAssumption DEF Slots
<1>2. Wrap(t - 1) = IF t = 0 THEN RsbSize - 1 ELSE t - 1
  BY <1>1, WrapValue
<1>3. CASE t = 0
  BY <1>1, <1>2, <1>3, WrapValue
<1>4. CASE t # 0
  BY <1>1, <1>2, <1>4
<1> QED
  BY <1>3, <1>4

(* The buffer of main.cc:152-156 knows no call.                            *)
LEMMA RsbInitInv == RsbInit => RsbInv
<1> SUFFICES ASSUME RsbInit PROVE RsbInv
  OBVIOUS
<1>1. rsb_tos \in Slots
  BY WrapInSlots, RsbSizeAssumption DEF RsbInit
<1>2. rsb \in [Slots -> Addr]
  BY AddrAssumption DEF RsbInit
<1>3. calls \in Seq(Addr) /\ Len(calls) = 0
  BY DEF RsbInit
<1> QED
  BY <1>1, <1>2, <1>3, RsbSizeAssumption DEF RsbInv, RsbTypeOK, RsbHoldsCalls

(* What jal and jalr do to the history variable: the new call becomes the  *)
(* innermost, the others move out by one, and at most RsbSize are kept.    *)
LEMMA PushedCalls ==
    ASSUME RsbTypeOK, NEW ra \in Addr, RsbPush(ra)
    PROVE  /\ calls' \in Seq(Addr)
           /\ Len(calls') \in 1 .. RsbSize
           /\ Len(calls') <= Len(calls) + 1
           /\ calls'[1] = ra
           /\ \A k \in 2 .. Len(calls') : calls'[k] = calls[k - 1]
<1> DEFINE kept == IF Len(calls) = RsbSize THEN RsbSize - 1 ELSE Len(calls)
<1> DEFINE old == SubSeq(calls, 1, kept)
<1>1. kept \in 0 .. Len(calls) /\ kept < RsbSize
  BY RsbSizeAssumption DEF RsbTypeOK
<1>2. /\ old \in Seq(Addr)
      /\ Len(old) = kept
      /\ \A k \in 1 .. kept : old[k] = calls[k]
  BY <1>1 DEF RsbTypeOK
<1>3. calls' = <<ra>> \o old
  BY DEF RsbPush
<1> HIDE DEF old, kept
<1>4. /\ calls' \in Seq(Addr)
      /\ Len(calls') = kept + 1
      /\ calls'[1] = ra
      /\ \A k \in 2 .. kept + 1 : calls'[k] = old[k - 1]
  BY <1>1, <1>2, <1>3
<1> QED
  BY <1>1, <1>2, <1>4, RsbSizeAssumption DEF RsbTypeOK

(* A call leaves the buffer holding the calls in progress, also when it    *)
(* overwrites the oldest of them.                                          *)
LEMMA RsbPushInv ==
    ASSUME RsbInv, NEW ra \in Addr, RsbPush(ra)
    PROVE  RsbInv'
<1>0. RsbTypeOK /\ RsbHoldsCalls
  BY DEF RsbInv
<1>1. rsb_tos' \in Slots /\ rsb_tos' = Wrap(rsb_tos - 1)
  BY <1>0, WrapInSlots, RsbSizeAssumption DEF RsbPush, RsbTypeOK, Slots
<1>2. rsb' \in [Slots -> Addr]
  BY <1>0 DEF RsbPush, RsbTypeOK
<1>3. RsbTypeOK'
  BY <1>0, <1>1, <1>2, PushedCalls DEF RsbTypeOK
<1>4. ASSUME NEW k \in 1 .. Len(calls')
      PROVE  rsb'[Wrap(rsb_tos' + k)] = calls'[k]
  <2>1. Len(calls') \in 1 .. RsbSize
    BY <1>0, PushedCalls
  <2>2. CASE k = 1
    <3>1. Wrap(rsb_tos' + 1) = rsb_tos
      BY <1>0, <1>1, WrapValue, RsbSizeAssumption DEF RsbTypeOK, Slots
    <3> QED
      BY <1>0, <2>2, <3>1, PushedCalls DEF RsbPush, RsbTypeOK
  <2>3. CASE k # 1
    <3>0. Len(calls') \in Nat /\ Len(calls) \in Nat /\ Len(calls') <= Len(calls) + 1
      BY <1>0, <2>1, PushedCalls DEF RsbTypeOK
    <3>1. k - 1 \in 1 .. Len(calls) /\ k \in 2 .. RsbSize
      BY <2>1, <2>3, <3>0, RsbSizeAssumption
    <3>2. Wrap(rsb_tos' + k) = Wrap(rsb_tos + (k - 1))
      BY <1>0, <1>1, <3>1, WrapBelow DEF RsbTypeOK
    <3>3. Wrap(rsb_tos + (k - 1)) # rsb_tos /\ Wrap(rsb_tos + (k - 1)) \in Slots
      BY <1>0, <3>1, WrapValue, WrapInSlots, RsbSizeAssumption DEF RsbTypeOK, Slots
    <3>4. rsb'[Wrap(rsb_tos + (k - 1))] = rsb[Wrap(rsb_tos + (k - 1))]
      BY <1>0, <3>3 DEF RsbPush, RsbTypeOK
    <3>5. rsb[Wrap(rsb_tos + (k - 1))] = calls[k - 1]
      BY <1>0, <3>1 DEF RsbHoldsCalls, SlotOf
    <3> QED
      BY <1>0, <2>1, <2>3, <3>2, <3>4, <3>5, PushedCalls
  <2> QED
    BY <2>2, <2>3
<1> QED
  BY <1>3, <1>4 DEF RsbInv, RsbHoldsCalls, SlotOf

(* A return leaves the buffer holding the calls that are still in          *)
(* progress; a return without a call moves the top and forgets nothing.    *)
LEMMA RsbPopInv ==
    ASSUME RsbInv, RsbPop
    PROVE  RsbInv'
<1>0. RsbTypeOK /\ RsbHoldsCalls
  BY DEF RsbInv
<1>1. rsb_tos' = Wrap(rsb_tos + 1) /\ rsb_tos' \in Slots /\ rsb' = rsb
  BY <1>0, WrapInSlots, RsbSizeAssumption DEF RsbPop, RsbTypeOK, Slots, SlotOf
<1>2. /\ calls' \in Seq(Addr)
      /\ Len(calls') <= RsbSize
      /\ \A k \in 1 .. Len(calls') : k + 1 \in 1 .. Len(calls) /\ calls'[k] = calls[k + 1]
  <2>1. CASE calls = << >>
    BY <2>1, RsbSizeAssumption DEF RsbPop
  <2>2. CASE calls # << >>
    BY <1>0, <2>2, RsbSizeAssumption DEF RsbPop, RsbTypeOK
  <2> QED
    BY <2>1, <2>2
<1>3. RsbTypeOK'
  BY <1>0, <1>1, <1>2 DEF RsbTypeOK
<1>4. ASSUME NEW k \in 1 .. Len(calls')
      PROVE  rsb'[Wrap(rsb_tos' + k)] = calls'[k]
  <2>0. Len(calls) \in Nat /\ Len(calls) <= RsbSize /\ Len(calls') \in Nat
    BY <1>0, <1>2 DEF RsbTypeOK
  <2>1. k \in 1 .. RsbSize - 1 /\ k + 1 \in 1 .. Len(calls) /\ calls'[k] = calls[k + 1]
    BY <1>2, <2>0, RsbSizeAssumption
  <2>2. Wrap(rsb_tos' + k) = Wrap(rsb_tos + (k + 1))
    BY <1>0, <1>1, <2>1, WrapAbove DEF RsbTypeOK
  <2> QED
    BY <1>0, <1>1, <2>1, <2>2 DEF RsbHoldsCalls, SlotOf
<1> QED
  BY <1>3, <1>4 DEF RsbInv, RsbHoldsCalls, SlotOf

(* Steps that touch neither the buffer nor a call keep the invariant.      *)
LEMMA RsbUnchangedInv ==
    ASSUME RsbInv, UNCHANGED rsbVars
    PROVE  RsbInv'
  BY DEF RsbInv, RsbTypeOK, RsbHoldsCalls, SlotOf, Wrap, rsbVars

(* A return to the innermost call in progress reads that call's address.   *)
LEMMA RsbPredictsInnermost ==
    ASSUME RsbInv, calls # << >>
    PROVE  RsbTop = Head(calls)
  BY DEF RsbInv, RsbTypeOK, RsbHoldsCalls, RsbTop

(* Any sequence of calls and returns, matched or not, keeps both parts.    *)
LEMMA RsbNextInv == RsbInv /\ [RsbNext]_rsbVars => RsbInv'
<1> SUFFICES ASSUME RsbInv, [RsbNext]_rsbVars PROVE RsbInv'
  OBVIOUS
<1>1. ASSUME NEW ra \in Addr, RsbPush(ra) PROVE RsbInv'
  BY <1>1, RsbPushInv
<1>2. CASE RsbPop
  BY <1>2, RsbPopInv
<1>3. CASE UNCHANGED rsbVars
  BY <1>3, RsbUnchangedInv
<1> QED
  BY <1>1, <1>2, <1>3 DEF RsbNext

(* The buffer keeps its shape, and the top of stack stays inside it.       *)
THEOREM RsbTypeCorrect == RsbSpec => []RsbTypeOK
<1>1. RsbInv => RsbTypeOK
  BY DEF RsbInv
<1> QED
  BY <1>1, RsbInitInv, RsbNextInv, PTL DEF RsbSpec

(* For every size of the buffer and every sequence of calls and returns it *)
(* holds the newest RsbSize calls in progress, in their order.             *)
THEOREM RsbCorrect == RsbSpec => []RsbHoldsCalls
<1>1. RsbInv => RsbHoldsCalls
  BY DEF RsbInv
<1> QED
  BY <1>1, RsbInitInv, RsbNextInv, PTL DEF RsbSpec

-----------------------------------------------------------------------------
(* The control core.                                                       *)
USE NWordsAssumption, MaxIcntAssumption, HistLenAssumption, MaxNestAssumption

InterpInv == CoreTypeOK /\ StatsTypeOK /\ BudgetInv /\ RsbInv

(* The pc wraps inside the memory.                                         *)
LEMMA PlusInAddr ==
    ASSUME NEW a \in Addr, NEW n \in Nat
    PROVE  Plus(a, n) \in Addr
  BY DEF Plus

(* Dropping the innermost frame.                                           *)
LEMMA ButLast ==
    ASSUME NEW S, NEW s \in Seq(S), Len(s) \in Nat \ {0}
    PROVE  /\ SubSeq(s, 1, Len(s) - 1) \in Seq(S)
           /\ Len(SubSeq(s, 1, Len(s) - 1)) = Len(s) - 1
<1> DEFINE n == Len(s) - 1
<1>1. n \in 0 .. Len(s)
  OBVIOUS
<1>2. SubSeq(s, 1, n) \in Seq(S) /\ Len(SubSeq(s, 1, n)) = n
  <2> HIDE DEF n
  <2> QED
    BY <1>1
<1> QED
  BY <1>2

(* A resumed or fetched control transfer keeps the C++ stack well formed.  *)
LEMMA CallSlotType ==
    ASSUME CoreTypeOK, NEW t \in Addr \cup {NoTarget}, CallSlot(t)
    PROVE  /\ frames' \in Seq(Addr \cup {NoTarget})
           /\ Len(frames') = Len(frames) + 1
           /\ Len(frames') <= MaxNest
           /\ frames' # << >>
           /\ pc' \in Addr
           /\ returning' = returning /\ brk' = brk /\ status' = status
<1>1. frames' = Append(frames, t) /\ Len(frames) < MaxNest
  BY DEF CallSlot
<1>2. frames \in Seq(Addr \cup {NoTarget}) /\ pc \in Addr
  BY DEF CoreTypeOK
<1>3. /\ frames' \in Seq(Addr \cup {NoTarget})
      /\ Len(frames') = Len(frames) + 1
  BY <1>1, <1>2
<1>4. Len(frames) \in Nat /\ Len(frames') # 0
  BY <1>2, <1>3
<1>5. frames' # << >>
  BY <1>4
<1>6. pc' \in Addr
  BY <1>2, PlusInAddr DEF CallSlot
<1>7. returning' = returning /\ brk' = brk /\ status' = status
  BY DEF CallSlot
<1>8. Len(frames') <= MaxNest
  BY <1>1, <1>3, <1>4
<1> QED
  BY <1>3, <1>5, <1>6, <1>7, <1>8

(* Writing the pending target to the pc ends the innermost call and keeps  *)
(* the rest of the C++ stack well formed.                                  *)
LEMMA ResumeType ==
    ASSUME CoreTypeOK, Resume
    PROVE  /\ frames' \in Seq(Addr \cup {NoTarget})
           /\ Len(frames') = Len(frames) - 1
           /\ returning' => frames' # << >>
           /\ pc' \in Addr
<1>1. /\ frames \in Seq(Addr \cup {NoTarget}) /\ Len(frames) \in Nat \ {0}
      /\ pc \in Addr
  BY DEF CoreTypeOK, Resume
<1>2. frames[Len(frames)] \in Addr \cup {NoTarget}
  BY <1>1
<1>3. frames' \in Seq(Addr \cup {NoTarget}) /\ Len(frames') = Len(frames) - 1
  <2>1. frames' = SubSeq(frames, 1, Len(frames) - 1)
    BY DEF Resume
  <2> QED
    BY <1>1, <2>1, ButLast
<1>4. returning' => Len(frames') # 0
  <2>1. returning' => Len(frames) > 1
    BY DEF Resume
  <2> QED
    BY <1>1, <1>3, <2>1, SMTT(30)
<1>5. pc' \in Addr
  BY <1>1, <1>2 DEF Resume
<1> QED
  BY <1>3, <1>4, <1>5

-----------------------------------------------------------------------------
(* The state main builds (initState, the return stack, the empty history)  *)
(* satisfies the invariant.                                                *)
LEMMA InitInv == Init => InterpInv
<1> SUFFICES ASSUME Init PROVE InterpInv
  OBVIOUS
<1>1. CoreTypeOK
  <2>1. frames \in Seq(Addr \cup {NoTarget}) /\ Len(frames) = 0
    BY DEF Init
  <2>2. last_ins \in [op : Ops, taken : BOOLEAN]
    BY DEF Init, Ops
  <2>3. brk \in BOOLEAN /\ returning \in BOOLEAN /\ ~returning
    BY DEF Init
  <2>4. {pc, last_pc, gpr31} \subseteq Addr /\ icnt \in Nat /\ status = "running"
    BY AddrAssumption DEF Init
  <2> QED
    BY <2>1, <2>2, <2>3, <2>4 DEF CoreTypeOK
<1>2. StatsTypeOK
  BY DEF Init, StatsTypeOK
<1>3. BudgetInv
  BY DEF Init, BudgetInv, BudgetOverrun
<1> QED
  BY <1>1, <1>2, <1>3, RsbInitInv DEF InterpInv, Init

(* Actions that end with the return of execMips.                           *)
LEMMA ReturnBudget ==
    ASSUME CoreTypeOK, BudgetInv, NEW op \in Ops, NEW went \in BOOLEAN,
           Fetch(op, went), Return
    PROVE  BudgetInv' /\ icnt' \in Nat
<1>1. Len(frames) \in Nat /\ Len(frames) <= MaxNest /\ icnt \in Nat
  BY DEF CoreTypeOK
<1>2. icnt' = icnt + 1 /\ frames' = frames /\ returning' = (frames # << >>)
  BY DEF Fetch, Return
<1>3. icnt' <= MaxIcnt + MaxNest
  <2>1. CASE frames = << >>
    BY <1>1, <1>2, <2>1 DEF Fetch
  <2>2. CASE frames # << >>
    BY <1>1, <1>2, <2>2 DEF Fetch, BudgetInv
  <2> QED
    BY <2>1, <2>2
<1>4. ~(frames' # << >> /\ ~returning')
  BY <1>2
<1> QED
  BY <1>1, <1>2, <1>3, <1>4 DEF BudgetInv, BudgetOverrun

(* Actions that call execMips for a delay slot.                            *)
LEMMA CallSlotBudget ==
    ASSUME CoreTypeOK, BudgetInv, NEW op \in Ops, NEW went \in BOOLEAN,
           NEW t \in Addr \cup {NoTarget}, Fetch(op, went), CallSlot(t)
    PROVE  BudgetInv' /\ icnt' \in Nat
<1>1. Len(frames) \in Nat /\ icnt \in Nat
  BY DEF CoreTypeOK
<1>2. icnt' = icnt + 1 /\ Len(frames') = Len(frames) + 1 /\ Len(frames') <= MaxNest
  BY CallSlotType DEF Fetch
<1>3. icnt' <= MaxIcnt + Len(frames') - 1
  <2>1. CASE frames = << >>
    BY <1>1, <1>2, <2>1 DEF Fetch
  <2>2. CASE frames # << >>
    BY <1>1, <1>2, <2>2 DEF Fetch, BudgetInv
  <2> QED
    BY <2>1, <2>2
<1> QED
  BY <1>1, <1>2, <1>3 DEF BudgetInv, BudgetOverrun
-----------------------------------------------------------------------------
(* The prologue of execMips, in a call that returns without a delay slot.  *)
LEMMA ReturnCore ==
    ASSUME CoreTypeOK, BudgetInv, NEW op \in Ops, NEW went \in BOOLEAN,
           Fetch(op, went), Return,
           {pc', gpr31'} \subseteq Addr, brk' \in BOOLEAN
    PROVE  CoreTypeOK' /\ BudgetInv'
<1>1. last_pc' \in Addr /\ last_ins' \in [op : Ops, taken : BOOLEAN]
  BY DEF Fetch, CoreTypeOK
<1>2. /\ frames' \in Seq(Addr \cup {NoTarget}) /\ Len(frames') <= MaxNest
      /\ status' \in {"running", "stopped", "exited"}
  BY DEF Return, CoreTypeOK
<1>3. returning' \in BOOLEAN /\ (returning' => frames' # << >>)
  BY DEF Return
<1>4. icnt' \in Nat /\ BudgetInv'
  BY ReturnBudget
<1> QED
  BY <1>1, <1>2, <1>3, <1>4 DEF CoreTypeOK

(* The same for a call that executes a delay slot.                         *)
LEMMA CallSlotCore ==
    ASSUME CoreTypeOK, BudgetInv, NEW op \in Ops, NEW went \in BOOLEAN,
           NEW t \in Addr \cup {NoTarget},
           Fetch(op, went), CallSlot(t), gpr31' \in Addr
    PROVE  CoreTypeOK' /\ BudgetInv'
<1>1. last_pc' \in Addr /\ last_ins' \in [op : Ops, taken : BOOLEAN]
  BY DEF Fetch, CoreTypeOK
<1>2. /\ frames' \in Seq(Addr \cup {NoTarget}) /\ Len(frames') <= MaxNest
      /\ frames' # << >> /\ pc' \in Addr
      /\ status' \in {"running", "stopped", "exited"}
      /\ returning' \in BOOLEAN /\ brk' \in BOOLEAN
  BY CallSlotType DEF CoreTypeOK
<1>3. icnt' \in Nat /\ BudgetInv'
  BY CallSlotBudget
<1> QED
  BY <1>1, <1>2, <1>3 DEF CoreTypeOK

(* The outcome of a branch in the history and in the predictor's counters. *)
LEMMA ShiftHistoryType ==
    ASSUME StatsTypeOK, NEW went \in BOOLEAN, ShiftHistory(went)
    PROVE  bhr' \in [1 .. HistLen -> BOOLEAN]
<1>1. ASSUME NEW k \in 1 .. HistLen, k # 1
      PROVE  bhr[k - 1] \in BOOLEAN
  BY <1>1 DEF StatsTypeOK
<1> QED
  BY <1>1 DEF ShiftHistory

(* What the predictor learns of a branch keeps the counters and the        *)
(* histogram in their types.                                               *)
LEMMA UpdatePredictorType ==
    ASSUME CoreTypeOK, StatsTypeOK, NEW guess \in BOOLEAN, NEW went \in BOOLEAN,
           UpdatePredictor(guess, went)
    PROVE  {n_branches', n_mispredicts'} \subseteq Nat /\ mispredict_map' \in [Addr -> Nat]
<1>1. {n_branches', n_mispredicts'} \subseteq Nat
  BY SMTT(30) DEF UpdatePredictor, StatsTypeOK
<1>2. mispredict_map[pc] + 1 \in Nat
  BY DEF CoreTypeOK, StatsTypeOK
<1>3. mispredict_map' \in [Addr -> Nat]
  BY <1>2 DEF UpdatePredictor, StatsTypeOK
<1> QED
  BY <1>1, <1>3

-----------------------------------------------------------------------------
(* branch() with its delay slot executed keeps the invariant.              *)
LEMMA BranchInv ==
    ASSUME InterpInv, NEW op \in {"branch", "likely"}, NEW guess \in BOOLEAN,
           NEW went \in BOOLEAN, NEW target \in Addr, Branch(op, guess, went, target)
    PROVE  InterpInv'
<1>0. CoreTypeOK /\ StatsTypeOK /\ BudgetInv /\ RsbInv
  BY DEF InterpInv
<1>1. CoreTypeOK' /\ BudgetInv'
  <2>1. gpr31' \in Addr /\ op \in Ops
    BY <1>0 DEF Branch, CoreTypeOK, Ops
  <2>2. (IF went THEN target ELSE NoTarget) \in Addr \cup {NoTarget}
    OBVIOUS
  <2> QED
    BY <1>0, <2>1, <2>2, CallSlotCore DEF Branch
<1>2. StatsTypeOK'
  <2>1. bhr' \in [1 .. HistLen -> BOOLEAN]
    BY <1>0, ShiftHistoryType DEF Branch
  <2>2. {n_branches', n_mispredicts'} \subseteq Nat /\ mispredict_map' \in [Addr -> Nat]
    BY <1>0, UpdatePredictorType DEF Branch
  <2> QED
    BY <1>0, <2>1, <2>2 DEF Branch, Fetch, StatsTypeOK, retVars
<1>3. RsbInv'
  BY <1>0, RsbUnchangedInv DEF Branch
<1> QED
  BY <1>1, <1>2, <1>3 DEF InterpInv

(* A branch-likely that is not taken and skips its slot keeps the          *)
(* invariant.                                                              *)
LEMMA AnnulSlotInv ==
    ASSUME InterpInv, NEW guess \in BOOLEAN, AnnulSlot(guess)
    PROVE  InterpInv'
<1>0. CoreTypeOK /\ StatsTypeOK /\ BudgetInv /\ RsbInv
  BY DEF InterpInv
<1>1. CoreTypeOK' /\ BudgetInv'
  <2>1. {pc', gpr31'} \subseteq Addr /\ "likely" \in Ops
    <3>1. pc \in Addr /\ gpr31 \in Addr
      BY <1>0 DEF CoreTypeOK
    <3>2. pc' = Plus(pc, 2) /\ gpr31' = gpr31
      BY DEF AnnulSlot
    <3> QED
      BY <3>1, <3>2, PlusInAddr DEF Ops
  <2>2. brk' \in BOOLEAN
    BY <1>0 DEF AnnulSlot, CoreTypeOK
  <2> QED
    BY <1>0, <2>1, <2>2, ReturnCore DEF AnnulSlot
<1>2. StatsTypeOK'
  <2>1. bhr' \in [1 .. HistLen -> BOOLEAN]
    BY <1>0, ShiftHistoryType DEF AnnulSlot
  <2>2. {n_branches', n_mispredicts'} \subseteq Nat /\ mispredict_map' \in [Addr -> Nat]
    BY <1>0, UpdatePredictorType DEF AnnulSlot
  <2> QED
    BY <1>0, <2>1, <2>2 DEF AnnulSlot, Fetch, StatsTypeOK, retVars
<1>3. RsbInv'
  BY <1>0, RsbUnchangedInv DEF AnnulSlot
<1> QED
  BY <1>1, <1>2, <1>3 DEF InterpInv

(* j, and jr of another register than $31, keep the invariant.             *)
LEMMA JumpInv ==
    ASSUME InterpInv, NEW target \in Addr, Jump(target)
    PROVE  InterpInv'
<1>0. CoreTypeOK /\ StatsTypeOK /\ BudgetInv /\ RsbInv
  BY DEF InterpInv
<1>1. CoreTypeOK' /\ BudgetInv'
  <2>1. gpr31' \in Addr /\ "jump" \in Ops
    BY <1>0 DEF Jump, CoreTypeOK, Ops
  <2> QED
    BY <1>0, <2>1, CallSlotCore DEF Jump, JumpTo
<1>2. StatsTypeOK'
  <2>1. bhr' \in [1 .. HistLen -> BOOLEAN]
    BY <1>0, ShiftHistoryType DEF Jump, JumpTo
  <2> QED
    BY <1>0, <2>1 DEF Jump, JumpTo, Fetch, PredictorIdle, StatsTypeOK, retVars
<1>3. RsbInv'
  BY <1>0, RsbUnchangedInv DEF Jump
<1> QED
  BY <1>1, <1>2, <1>3 DEF InterpInv

(* jal and jalr keep the invariant, the push of the return address with    *)
(* it.                                                                     *)
LEMMA CallInv ==
    ASSUME InterpInv, NEW target \in Addr, Call(target)
    PROVE  InterpInv'
<1>0. CoreTypeOK /\ StatsTypeOK /\ BudgetInv /\ RsbInv
  BY DEF InterpInv
<1>1. Plus(pc, 2) \in Addr
  BY <1>0, PlusInAddr DEF CoreTypeOK
<1>2. CoreTypeOK' /\ BudgetInv'
  <2>1. gpr31' \in Addr /\ "jump" \in Ops
    BY <1>1 DEF Call, Ops
  <2> QED
    BY <1>0, <2>1, CallSlotCore DEF Call, JumpTo
<1>3. StatsTypeOK'
  <2>1. bhr' \in [1 .. HistLen -> BOOLEAN]
    BY <1>0, ShiftHistoryType DEF Call, JumpTo
  <2> QED
    BY <1>0, <2>1 DEF Call, JumpTo, Fetch, PredictorIdle, StatsTypeOK, retVars
<1>4. RsbInv'
  BY <1>0, <1>1, RsbPushInv DEF Call
<1> QED
  BY <1>2, <1>3, <1>4 DEF InterpInv

(* jr $31 keeps the invariant, the pop of the return address with it.      *)
LEMMA JumpRegister31Inv ==
    ASSUME InterpInv, JumpRegister31
    PROVE  InterpInv'
<1>0. CoreTypeOK /\ StatsTypeOK /\ BudgetInv /\ RsbInv
  BY DEF InterpInv
<1>1. CoreTypeOK' /\ BudgetInv'
  <2>1. gpr31 \in Addr /\ gpr31' \in Addr /\ "jump" \in Ops
    BY <1>0 DEF JumpRegister31, CoreTypeOK, Ops
  <2> QED
    BY <1>0, <2>1, CallSlotCore DEF JumpRegister31
<1>2. StatsTypeOK'
  <2>1. bhr' \in [1 .. HistLen -> BOOLEAN]
    BY <1>0, ShiftHistoryType DEF JumpRegister31
  <2>2. mispredict_map[pc] + 1 \in Nat
    BY <1>0 DEF CoreTypeOK, StatsTypeOK
  <2>3. mispredict_map' \in [Addr -> Nat]
    BY <1>0, <2>2 DEF JumpRegister31, StatsTypeOK
  <2>4. {num_jr_r31', num_jr_r31_mispred'} \subseteq Nat
    BY <1>0 DEF JumpRegister31, StatsTypeOK
  <2> QED
    BY <1>0, <2>1, <2>3, <2>4 DEF JumpRegister31, Fetch, StatsTypeOK
<1>3. RsbInv'
  BY <1>0, RsbPopInv DEF JumpRegister31
<1> QED
  BY <1>1, <1>2, <1>3 DEF InterpInv

(* Instructions that only go on at pc + 4 keep the invariant.              *)
LEMMA PlainInv ==
    ASSUME InterpInv, NEW ra \in Addr, Plain(ra)
    PROVE  InterpInv'
<1>0. CoreTypeOK /\ StatsTypeOK /\ BudgetInv /\ RsbInv
  BY DEF InterpInv
<1>1. CoreTypeOK' /\ BudgetInv'
  <2>1. pc \in Addr /\ gpr31 \in Addr /\ brk \in BOOLEAN
    BY <1>0 DEF CoreTypeOK
  <2>2. pc' \in Addr /\ gpr31' \in Addr /\ "plain" \in Ops
    BY <2>1, PlusInAddr DEF Plain, Ops
  <2>3. brk' \in BOOLEAN
    BY <2>1 DEF Plain
  <2> QED
    BY <1>0, <2>2, <2>3, ReturnCore DEF Plain
<1>2. StatsTypeOK'
  BY <1>0 DEF Plain, Fetch, PredictorIdle, StatsTypeOK, retVars
<1>3. RsbInv'
  BY <1>0, RsbUnchangedInv DEF Plain
<1> QED
  BY <1>1, <1>2, <1>3 DEF InterpInv

(* A monitor call, which sets pc to $31 without the return stack, keeps    *)
(* the invariant.                                                          *)
LEMMA MonitorCallInv ==
    ASSUME InterpInv, MonitorCall
    PROVE  InterpInv'
<1>0. CoreTypeOK /\ StatsTypeOK /\ BudgetInv /\ RsbInv
  BY DEF InterpInv
<1>1. CoreTypeOK' /\ BudgetInv'
  <2>1. pc \in Addr /\ gpr31 \in Addr /\ brk \in BOOLEAN
    BY <1>0 DEF CoreTypeOK
  <2>2. pc' \in Addr /\ gpr31' \in Addr /\ "monitor" \in Ops
    BY <2>1, PlusInAddr DEF MonitorCall, Ops
  <2>3. brk' \in BOOLEAN
    BY <2>1 DEF MonitorCall
  <2> QED
    BY <1>0, <2>2, <2>3, ReturnCore DEF MonitorCall
<1>2. StatsTypeOK'
  BY <1>0 DEF MonitorCall, Fetch, PredictorIdle, StatsTypeOK, retVars
<1>3. RsbInv'
  BY <1>0, RsbUnchangedInv DEF MonitorCall
<1> QED
  BY <1>1, <1>2, <1>3 DEF InterpInv

(* break keeps the invariant.                                              *)
LEMMA BreakInv ==
    ASSUME InterpInv, Break
    PROVE  InterpInv'
<1>0. CoreTypeOK /\ StatsTypeOK /\ BudgetInv /\ RsbInv
  BY DEF InterpInv
<1>1. CoreTypeOK' /\ BudgetInv'
  <2>1. pc \in Addr /\ gpr31 \in Addr /\ brk \in BOOLEAN
    BY <1>0 DEF CoreTypeOK
  <2>2. pc' \in Addr /\ gpr31' \in Addr /\ "break" \in Ops
    BY <2>1, PlusInAddr DEF Break, Ops
  <2>3. brk' \in BOOLEAN
    BY <2>1 DEF Break
  <2> QED
    BY <1>0, <2>2, <2>3, ReturnCore DEF Break
<1>2. StatsTypeOK'
  BY <1>0 DEF Break, Fetch, PredictorIdle, StatsTypeOK, retVars
<1>3. RsbInv'
  BY <1>0, RsbUnchangedInv DEF Break
<1> QED
  BY <1>1, <1>2, <1>3 DEF InterpInv

(* The syscall and the unknown instructions that end the process keep the  *)
(* invariant.                                                              *)
LEMMA ExitInv ==
    ASSUME InterpInv, Exit
    PROVE  InterpInv'
<1>0. CoreTypeOK /\ StatsTypeOK /\ BudgetInv /\ RsbInv
  BY DEF InterpInv
<1>1. CoreTypeOK'
  BY <1>0 DEF Exit, Fetch, CoreTypeOK, Ops
<1>2. BudgetInv'
  <2>1. Len(frames) \in Nat /\ Len(frames) <= MaxNest /\ icnt \in Nat
    BY <1>0 DEF CoreTypeOK
  <2>2. icnt' <= MaxIcnt + MaxNest
    <3>1. CASE frames = << >>
      BY <2>1, <3>1 DEF Exit, Fetch
    <3>2. CASE frames # << >>
      BY <1>0, <2>1, <3>2 DEF Exit, Fetch, BudgetInv
    <3> QED
      BY <3>1, <3>2
  <2> QED
    BY <2>2 DEF Exit, BudgetInv, BudgetOverrun
<1>3. StatsTypeOK'
  BY <1>0 DEF Exit, Fetch, PredictorIdle, StatsTypeOK, retVars
<1>4. RsbInv'
  BY <1>0, RsbUnchangedInv DEF Exit
<1> QED
  BY <1>1, <1>2, <1>3, <1>4 DEF InterpInv

(* The end of a pending call, after its delay slot, keeps the invariant.   *)
LEMMA ResumeInv ==
    ASSUME InterpInv, Resume
    PROVE  InterpInv'
<1>0. CoreTypeOK /\ StatsTypeOK /\ BudgetInv /\ RsbInv
  BY DEF InterpInv
<1>1. CoreTypeOK'
  <2>1. /\ frames' \in Seq(Addr \cup {NoTarget})
        /\ Len(frames') = Len(frames) - 1 /\ Len(frames) \in Nat
        /\ returning' => frames' # << >>
        /\ pc' \in Addr
    BY <1>0, ResumeType DEF CoreTypeOK
  <2>2. Len(frames') <= MaxNest
    BY <1>0, <2>1 DEF CoreTypeOK
  <2>3. returning' \in BOOLEAN
    BY DEF Resume
  <2>4. /\ last_pc' = last_pc /\ gpr31' = gpr31 /\ brk' = brk /\ icnt' = icnt
        /\ status' = status /\ last_ins' = last_ins
    BY DEF Resume
  <2> QED
    BY <1>0, <2>1, <2>2, <2>3, <2>4 DEF CoreTypeOK
<1>2. BudgetInv'
  <2>1. icnt' = icnt /\ Len(frames) \in Nat
    BY <1>0 DEF Resume, CoreTypeOK
  <2>2. Len(frames') = Len(frames) - 1 /\ (~returning' => ~(Len(frames) > 1))
    BY <1>0, ResumeType DEF Resume
  <2>3. frames' \in Seq(Addr \cup {NoTarget})
    BY <1>0, ResumeType
  <2>4. ~returning' => frames' = << >>
    <3>1. ~returning' => Len(frames') = 0
      BY <2>1, <2>2, <2>3
    <3> QED
      BY <2>3, <3>1
  <2> QED
    BY <1>0, <2>1, <2>4 DEF BudgetInv, BudgetOverrun
<1>3. StatsTypeOK'
  BY <1>0 DEF Resume, PredictorIdle, StatsTypeOK, retVars
<1>4. RsbInv'
  BY <1>0, RsbUnchangedInv DEF Resume
<1> QED
  BY <1>1, <1>2, <1>3, <1>4 DEF InterpInv

(* The end of the run loop keeps the invariant.                            *)
LEMMA StopInv ==
    ASSUME InterpInv, Stop
    PROVE  InterpInv'
<1>0. CoreTypeOK /\ StatsTypeOK /\ BudgetInv /\ RsbInv
  BY DEF InterpInv
<1>1. CoreTypeOK' /\ BudgetInv'
  BY <1>0 DEF Stop, CoreTypeOK, BudgetInv, BudgetOverrun
<1>2. StatsTypeOK'
  BY <1>0 DEF Stop, PredictorIdle, StatsTypeOK, retVars
<1>3. RsbInv'
  BY <1>0, RsbUnchangedInv DEF Stop
<1> QED
  BY <1>1, <1>2, <1>3 DEF InterpInv

(* Every step of the interpreter keeps the invariant.                      *)
LEMMA NextInv == InterpInv /\ [Next]_vars => InterpInv'
<1> SUFFICES ASSUME InterpInv, [Next]_vars PROVE InterpInv'
  OBVIOUS
<1>1. ASSUME NEW ra \in Addr, Plain(ra) PROVE InterpInv'
  BY <1>1, PlainInv
<1>2. ASSUME NEW op \in {"branch", "likely"}, NEW guess \in BOOLEAN, NEW went \in BOOLEAN,
             NEW target \in Addr, Branch(op, guess, went, target)
      PROVE  InterpInv'
  BY <1>2, BranchInv
<1>3. ASSUME NEW guess \in BOOLEAN, AnnulSlot(guess) PROVE InterpInv'
  BY <1>3, AnnulSlotInv
<1>4. ASSUME NEW target \in Addr, Jump(target) \/ Call(target) PROVE InterpInv'
  BY <1>4, JumpInv, CallInv
<1>5. CASE JumpRegister31
  BY <1>5, JumpRegister31Inv
<1>6. CASE MonitorCall
  BY <1>6, MonitorCallInv
<1>7. CASE Break \/ Exit
  BY <1>7, BreakInv, ExitInv
<1>8. CASE Resume \/ Stop
  BY <1>8, ResumeInv, StopInv
<1>9. CASE UNCHANGED vars
  <2>1. UNCHANGED rsbVars
    BY <1>9 DEF vars
  <2>2. RsbInv'
    BY <2>1, RsbUnchangedInv DEF InterpInv
  <2>3. CoreTypeOK' /\ BudgetInv'
    BY <1>9 DEF InterpInv, CoreTypeOK, BudgetInv, BudgetOverrun, vars, coreVars
  <2>4. StatsTypeOK'
    BY <1>9 DEF InterpInv, StatsTypeOK, vars, predVars, retVars
  <2> QED
    BY <2>2, <2>3, <2>4 DEF InterpInv
<1> QED
  BY <1>1, <1>2, <1>3, <1>4, <1>5, <1>6, <1>7, <1>8, <1>9 DEF Next

(* The invariant holds throughout; the theorems below project it.          *)
LEMMA InterpInductive == Spec => []InterpInv
  BY InitInv, NextInv, PTL DEF Spec

-----------------------------------------------------------------------------
(* The interpreter, its C++ stack and its statistics stay in their types   *)
(* for every program, every size of the return stack and every depth of    *)
(* chained delay slots.                                                    *)
THEOREM TypeCorrect == Spec => []TypeOK
<1>1. InterpInv => TypeOK
  BY DEF InterpInv, TypeOK, RsbInv
<1> QED
  BY <1>1, InterpInductive, PTL

(* The instruction count exceeds --maxicnt by at most the pending delay    *)
(* slots, for every program and every --maxicnt.                           *)
THEOREM BudgetCorrect == Spec => []BudgetInv
<1>1. InterpInv => BudgetInv
  BY DEF InterpInv
<1> QED
  BY <1>1, InterpInductive, PTL

(* Inside the interpreter, with branches, jumps and returns mixed and      *)
(* delay slots nested, the return stack still holds the calls in progress  *)
(* in their order.                                                         *)
THEOREM ReturnStackCorrect == Spec => []RsbHoldsCalls
<1>1. InterpInv => RsbHoldsCalls
  BY DEF InterpInv, RsbInv
<1> QED
  BY <1>1, InterpInductive, PTL

(* The step of a jr $31 that goes where the innermost call in progress     *)
(* came from.                                                              *)
LEMMA MatchedReturnStep ==
    ASSUME InterpInv, [Next]_vars
    PROVE  MatchedReturn => num_jr_r31_mispred' = num_jr_r31_mispred
<1>1. CASE JumpRegister31
  <2> SUFFICES ASSUME MatchedReturn
               PROVE  num_jr_r31_mispred' = num_jr_r31_mispred
    OBVIOUS
  <2>1. gpr31 = RsbTop
    BY RsbPredictsInnermost DEF MatchedReturn, InterpInv
  <2>2. num_jr_r31_mispred \in Nat
    BY DEF InterpInv, StatsTypeOK
  <2> QED
    BY <1>1, <2>1, <2>2 DEF JumpRegister31
<1>2. CASE ~JumpRegister31
  <2>1. UNCHANGED retVars
    BY <1>2 DEF Next, vars, Plain, Branch, AnnulSlot, Jump, Call, MonitorCall, Break,
                Exit, Resume, Stop
  <2> QED
    BY <2>1 DEF retVars
<1> QED
  BY <1>1, <1>2

(* A return to a call the buffer can know is never counted mispredicted,   *)
(* for every size of the buffer and every program.                         *)
THEOREM MatchedReturnCorrect == Spec => MatchedReturnPredicted
<1>1. InterpInv /\ [Next]_vars =>
        [MatchedReturn => num_jr_r31_mispred' = num_jr_r31_mispred]_vars
  BY MatchedReturnStep
<1> QED
  BY <1>1, InterpInductive, PTL DEF Spec, MatchedReturnPredicted

-----------------------------------------------------------------------------
(* Every step of the core maps to a step of the delay-slot machine or to a *)
(* stutter.                                                                *)
(* With one pending call at most, frames is empty or holds one target.     *)
LEMMA OneFrame ==
    ASSUME MaxNest = 1, CoreTypeOK
    PROVE  /\ pc \in Addr
           /\ \/ frames = << >> /\ ~returning
              \/ Len(frames) = 1 /\ frames # << >> /\ frames[1] \in Addr \cup {NoTarget}
<1>1. frames \in Seq(Addr \cup {NoTarget}) /\ Len(frames) \in Nat /\ Len(frames) <= 1
  BY DEF CoreTypeOK
<1>2. ASSUME Len(frames) = 0 PROVE frames = << >> /\ ~returning
  <2>1. frames = << >>
    BY <1>1, <1>2
  <2> QED
    BY <2>1 DEF CoreTypeOK
<1>3. ASSUME Len(frames) = 1 PROVE frames # << >> /\ frames[1] \in Addr \cup {NoTarget}
  BY <1>1, <1>3
<1>4. Len(frames) = 0 \/ Len(frames) = 1
  <2>1. \A n \in Nat : n <= 1 => n = 0 \/ n = 1
    OBVIOUS
  <2> QED
    BY <1>1, <2>1
<1>5. pc \in Addr
  BY DEF CoreTypeOK
<1> QED
  BY <1>2, <1>3, <1>4, <1>5

(* Adding to an address twice, around the end of memory too, is adding     *)
(* once: pc + 4 and pc + 8 of an instruction and of its delay slot agree.  *)
LEMMA PlusPlus ==
    ASSUME NEW a \in Addr
    PROVE  Plus(Plus(a, 1), 1) = Plus(a, 2)
<1>1. NWords \in Nat \ {0} /\ a \in 0 .. NWords - 1
  OBVIOUS
<1>2. CASE a + 1 < NWords
  <2>1. (a + 1) % NWords = a + 1
    BY <1>1, <1>2
  <2> QED
    BY <1>1, <2>1 DEF Plus
<1>3. CASE a + 1 = NWords
  <2>1. (a + 1) % NWords = 0
    BY <1>1, <1>3
  <2>2. (NWords + 1) % NWords = 1 % NWords
    BY <1>1
  <2> QED
    BY <1>1, <1>3, <2>1, <2>2 DEF Plus
<1> QED
  BY <1>1, <1>2, <1>3

(* The mark of a call without a pending target is no address.              *)
LEMMA NoTargetNotAddr == NoTarget \notin Addr
  BY DEF NoTarget

(* The state main builds is an initial state of the abstract machine.      *)
LEMMA DSInitMaps == Init => DS!DSInit
<1> SUFFICES ASSUME Init PROVE DS!DSInit
  OBVIOUS
<1>1. Landing = pc /\ NextPc = Plus(pc, 1) /\ SlotKind = "no" /\ Halted = FALSE
  BY DEF Init, Landing, NextPc, SlotKind, Halted, InSlot
<1> QED
  BY <1>1 DEF Init, DS!DSInit, Plus, DS!After

(* An execMips call that returns is an instruction without a delay slot.   *)
LEMMA ReturnMaps ==
    ASSUME MaxNest = 1, CoreTypeOK, NEW op, NEW went, NEW a \in Addr,
           Fetch(op, went), Return, pc' = a
    PROVE  /\ Landing' = IF SlotKind = "taken" THEN NextPc ELSE a
           /\ NextPc' = Plus(Landing', 1)
           /\ SlotKind' = "no"
<1>1. ~returning /\ returning' = (frames # << >>) /\ frames' = frames
  BY DEF Fetch, Return
<1>2. CASE frames = << >>
  BY <1>1, <1>2 DEF Landing, NextPc, SlotKind, InSlot
<1>3. CASE frames # << >>
  <2>1. InSlot /\ returning' /\ ~InSlot'
    BY <1>1, <1>3 DEF InSlot
  <2> QED
    BY <1>1, <2>1 DEF Landing, NextPc, SlotKind
<1> QED
  BY <1>2, <1>3

(* A call for a delay slot is a transfer that takes effect after it.       *)
LEMMA CallSlotMaps ==
    ASSUME MaxNest = 1, CoreTypeOK, NEW op, NEW went, NEW t \in Addr \cup {NoTarget},
           Fetch(op, went), CallSlot(t)
    PROVE  /\ SlotKind = "no" /\ Landing = pc
           /\ Landing' = Plus(pc, 1)
           /\ NextPc' = IF t = NoTarget THEN Plus(pc, 2) ELSE t
           /\ SlotKind' = IF t = NoTarget THEN "untaken" ELSE "taken"
           /\ InSlot'
<1>1. ~returning /\ ~returning' /\ frames' = Append(frames, t) /\ Len(frames) < 1 /\ pc' = Plus(pc, 1)
  BY DEF Fetch, CallSlot
<1>2. frames = << >> /\ pc \in Addr
  BY <1>1, OneFrame
<1>3. frames' # << >> /\ frames'[1] = t
  BY <1>1, <1>2
<1>4. ~InSlot /\ InSlot'
  BY <1>1, <1>2, <1>3 DEF InSlot
<1>5. Landing = pc /\ Landing' = Plus(pc, 1)
  BY <1>1 DEF Landing
<1>6. NextPc' = IF t = NoTarget THEN Plus(Plus(pc, 1), 1) ELSE t
  BY <1>3, <1>4, <1>5 DEF NextPc
<1> QED
  BY <1>2, <1>3, <1>4, <1>5, <1>6, PlusPlus DEF SlotKind

(* Both machines add to an address alike.                                  *)
LEMMA SamePlus == \A a, n : DS!After(a, n) = Plus(a, n)
  BY DEF Plus, DS!After

(* What is fetched is where the abstract machine stands, and it has not    *)
(* halted.                                                                 *)
LEMMA FetchMaps ==
    ASSUME MaxNest = 1, CoreTypeOK, BreakUnwinds, NEW op, NEW went, Fetch(op, went)
    PROVE  DS!Execute(op, went) /\ Landing = pc
<1>1. ~brk /\ status = "running" /\ ~returning
  BY DEF Fetch, BreakUnwinds, InSlot
<1>2. Landing = pc /\ ~Halted
  BY <1>1 DEF Landing, Halted
<1> QED
  BY <1>2 DEF Fetch, DS!Execute

(* An instruction without a delay slot, going on at a.                     *)
LEMMA ContinueMaps ==
    ASSUME MaxNest = 1, CoreTypeOK, BreakUnwinds,
           NEW op, NEW went, NEW a \in Addr,
           Fetch(op, went), Return, pc' = a, UNCHANGED brk
    PROVE  DS!Execute(op, went) /\ DS!ContinueAt(a)
<1>1. DS!Execute(op, went)
  BY FetchMaps
<1>2. UNCHANGED Halted
  BY DEF Halted, Return
<1> QED
  BY <1>1, <1>2, ReturnMaps, SamePlus DEF DS!ContinueAt

(* A control transfer, its delay slot called.                              *)
LEMMA TransferMaps ==
    ASSUME MaxNest = 1, CoreTypeOK, BreakUnwinds,
           NEW op \in {"branch", "likely", "jump"}, NEW went \in BOOLEAN, NEW a \in Addr,
           op = "branch" \/ went,
           Fetch(op, went), CallSlot(IF went THEN a ELSE NoTarget)
    PROVE  DS!DSNext
<1> DEFINE t == IF went THEN a ELSE NoTarget
<1>1. DS!Execute(op, went) /\ Landing = pc
  BY FetchMaps
<1>2. t \in Addr \cup {NoTarget} /\ (t = NoTarget <=> ~went)
  BY NoTargetNotAddr
<1>3. CallSlot(t)
  OBVIOUS
<1> HIDE DEF t
<1>4. /\ SlotKind = "no"
      /\ Landing' = Plus(pc, 1)
      /\ NextPc' = IF t = NoTarget THEN Plus(pc, 2) ELSE t
      /\ SlotKind' = IF t = NoTarget THEN "untaken" ELSE "taken"
  BY <1>2, <1>3, CallSlotMaps
<1>5. UNCHANGED Halted
  BY DEF Halted, CallSlot
<1>6. DS!DSTransfer(op, went, a)
  BY <1>1, <1>2, <1>4, <1>5, SamePlus DEF DS!DSTransfer, t
<1> QED
  BY <1>6 DEF DS!DSNext

(* A break or an exit leaves the abstract machine halted in a proper state. *)
LEMMA HaltMaps ==
    ASSUME MaxNest = 1, CoreTypeOK, CoreTypeOK', BreakUnwinds, Break \/ Exit
    PROVE  DS!DSNext
<1>1. PICK op \in {"break", "die"} : Fetch(op, FALSE)
  BY DEF Break, Exit
<1>2. DS!Execute(op, FALSE)
  BY <1>1, FetchMaps
<1>3. Halted'
  BY DEF Break, Exit, Halted
<1>4. /\ pc' \in Addr
      /\ \/ frames' = << >> /\ ~returning'
         \/ Len(frames') = 1 /\ frames' # << >> /\ frames'[1] \in Addr \cup {NoTarget}
  <2>1. pc \in Addr /\ UNCHANGED <<pc, frames>>
    BY DEF Break, Exit, Return, CoreTypeOK
  <2>2. returning' => frames' # << >>
    BY DEF CoreTypeOK
  <2> QED
    BY <2>1, <2>2, OneFrame
<1>5. Landing' \in Addr
  BY <1>4 DEF Landing
<1>6. NextPc' \in Addr
  BY <1>4, <1>5, PlusInAddr DEF NextPc, InSlot
<1>7. SlotKind' \in {"no", "taken", "untaken"}
  BY DEF SlotKind
<1>8. DS!DSHalt(op)
  BY <1>2, <1>3, <1>5, <1>6, <1>7 DEF DS!DSHalt
<1> QED
  BY <1>8 DEF DS!DSNext

(* The rest of a pending call writes the target that the abstract machine  *)
(* has already reached: nothing a program sees changes.                    *)
LEMMA ResumeMaps ==
    ASSUME MaxNest = 1, CoreTypeOK, Resume
    PROVE  UNCHANGED DS!dsVars
<1>1. returning /\ Len(frames) = 1 /\ ~returning'
  <2>1. returning /\ returning' = (Len(frames) > 1)
    BY DEF Resume
  <2>2. Len(frames) = 1
    BY <2>1, OneFrame
  <2>3. ~(Len(frames) > 1)
    BY <2>2
  <2> QED
    BY <2>1, <2>2, <2>3
<1>2. UNCHANGED Landing
  BY <1>1 DEF Landing, Resume
<1>3. UNCHANGED NextPc /\ UNCHANGED SlotKind
  <2>1. ~InSlot /\ ~InSlot'
    <3>1. frames' \in Seq(Addr \cup {NoTarget}) /\ Len(frames') = 0
      BY <1>1, ResumeType
    <3> QED
      BY <1>1, <3>1 DEF InSlot
  <2> QED
    BY <1>2, <2>1 DEF NextPc, SlotKind
<1>4. UNCHANGED Halted
  BY DEF Halted, Resume
<1> QED
  BY <1>2, <1>3, <1>4 DEF DS!dsVars, Resume

(* So does the end of the run loop.                                        *)
LEMMA StopMaps ==
    ASSUME Stop
    PROVE  UNCHANGED DS!dsVars
<1>1. UNCHANGED Landing /\ UNCHANGED InSlot
  BY DEF Stop, Landing, InSlot
<1>2. UNCHANGED NextPc /\ UNCHANGED SlotKind
  BY <1>1 DEF NextPc, SlotKind, Stop
<1>3. UNCHANGED Halted
  BY DEF Halted, Stop
<1> QED
  BY <1>1, <1>2, <1>3 DEF DS!dsVars, Stop

(* Every step of the interpreter is one of the abstract machine or none.   *)
LEMMA StepMaps ==
    ASSUME MaxNest = 1, InterpInv, InterpInv', BreakUnwinds, [Next]_vars
    PROVE  [DS!DSNext]_(DS!dsVars)
<1> USE DEF InterpInv
<1>1. ASSUME NEW ra \in Addr, Plain(ra) PROVE DS!DSNext
  <2>1. pc \in Addr
    BY DEF CoreTypeOK
  <2>2. Plus(pc, 1) \in Addr
    BY <2>1, PlusInAddr
  <2>3. DS!Execute("plain", FALSE) /\ DS!ContinueAt(Plus(pc, 1)) /\ Landing = pc
    BY <1>1, <2>2, ContinueMaps, FetchMaps DEF Plain
  <2>4. DS!DSPlain
    BY <2>3, SamePlus DEF DS!DSPlain
  <2> QED
    BY <2>4 DEF DS!DSNext
<1>2. ASSUME NEW op \in {"branch", "likely"}, NEW guess \in BOOLEAN, NEW went \in BOOLEAN,
             NEW target \in Addr, Branch(op, guess, went, target)
      PROVE  DS!DSNext
  BY <1>2, TransferMaps DEF Branch
<1>3. ASSUME NEW guess \in BOOLEAN, AnnulSlot(guess) PROVE DS!DSNext
  <2>1. pc \in Addr
    BY DEF CoreTypeOK
  <2>2. Plus(pc, 2) \in Addr
    BY <2>1, PlusInAddr
  <2>3. DS!Execute("likely", FALSE) /\ DS!ContinueAt(Plus(pc, 2)) /\ Landing = pc
    BY <1>3, <2>2, ContinueMaps, FetchMaps DEF AnnulSlot
  <2>4. DS!DSAnnul
    BY <2>3, SamePlus DEF DS!DSAnnul
  <2> QED
    BY <2>4 DEF DS!DSNext
<1>4. ASSUME NEW target \in Addr, Jump(target) \/ Call(target) PROVE DS!DSNext
  BY <1>4, TransferMaps DEF Jump, Call, JumpTo
<1>5. CASE JumpRegister31
  <2>1. gpr31 \in Addr
    BY DEF CoreTypeOK
  <2> QED
    BY <1>5, <2>1, TransferMaps DEF JumpRegister31
<1>6. CASE MonitorCall
  <2>1. gpr31 \in Addr
    BY DEF CoreTypeOK
  <2>2. DS!DSMonitor(gpr31)
    BY <1>6, <2>1, ContinueMaps DEF MonitorCall, DS!DSMonitor
  <2> QED
    BY <2>1, <2>2 DEF DS!DSNext
<1>7. CASE Break \/ Exit
  BY <1>7, HaltMaps
<1>8. CASE Resume \/ Stop
  BY <1>8, ResumeMaps, StopMaps
<1>9. CASE UNCHANGED vars
  BY <1>9 DEF vars, coreVars, DS!dsVars, Landing, NextPc, SlotKind, Halted, InSlot
<1> QED
  BY <1>1, <1>2, <1>3, <1>4, <1>5, <1>6, <1>7, <1>8, <1>9 DEF Next

(* A break in a delay slot is seen by the run loop before anything else is *)
(* fetched: the pending calls only return.                                 *)
LEMMA BreakUnwindsStep == InterpInv /\ BreakUnwinds /\ [Next]_vars => BreakUnwinds'
<1> SUFFICES ASSUME InterpInv, BreakUnwinds, [Next]_vars, InSlot'
             PROVE  ~brk'
  BY DEF BreakUnwinds
<1>1. ASSUME NEW op, NEW went, NEW t, Fetch(op, went), CallSlot(t) PROVE ~brk'
  BY <1>1 DEF Fetch, CallSlot, BreakUnwinds, InSlot
<1>2. ASSUME NEW op, NEW went, Fetch(op, went), Return PROVE ~brk'
  BY <1>2 DEF Return, InSlot
<1>3. CASE Exit
  BY <1>3 DEF Exit, Fetch, BreakUnwinds, InSlot
<1>4. CASE Resume
  <2>1. CoreTypeOK
    BY DEF InterpInv
  <2>2. Len(frames') = Len(frames) - 1 /\ frames' \in Seq(Addr \cup {NoTarget})
    BY <1>4, <2>1, ResumeType
  <2>3. frames \in Seq(Addr \cup {NoTarget}) /\ Len(frames) \in Nat
    BY <2>1 DEF CoreTypeOK
  <2>4. returning' = (Len(frames) > 1) /\ frames' # << >> /\ ~returning'
    BY <1>4 DEF Resume, InSlot
  <2>5. Len(frames') # 0
    BY <2>2, <2>4, SMTT(30)
  <2>6. Len(frames) > 1
    BY <2>2, <2>3, <2>5
  <2> QED
    BY <2>4, <2>6
<1>5. CASE Stop \/ UNCHANGED vars
  BY <1>5 DEF Stop, vars, coreVars, InSlot, BreakUnwinds
<1> QED
  BY <1>1, <1>2, <1>3, <1>4, <1>5
     DEF Next, Plain, Branch, AnnulSlot, Jump, Call, JumpTo, JumpRegister31, MonitorCall, Break

(* A break leaves every pending call before anything else is fetched, for  *)
(* every depth of the chains of delay slots.                               *)
THEOREM BreakUnwindsCorrect == Spec => []BreakUnwinds
<1>1. Init => BreakUnwinds
  BY DEF Init, BreakUnwinds
<1> QED
  BY <1>1, InterpInductive, BreakUnwindsStep, PTL DEF Spec

(* Without transfers in delay slots, the run loop and the recursion of     *)
(* execMips implement the pc/next-pc machine.                              *)
THEOREM DelaySlotRefinement == ASSUME MaxNest = 1 PROVE Spec => ImplementsDelaySlot
<1>1. InterpInv /\ InterpInv' /\ BreakUnwinds /\ [Next]_vars => [DS!DSNext]_(DS!dsVars)
  BY StepMaps
<1> QED
  BY <1>1, DSInitMaps, InterpInductive, BreakUnwindsCorrect, PTL
     DEF Spec, ImplementsDelaySlot, DS!DSSpec

-----------------------------------------------------------------------------
(* The words hold at least the outcomes asked for.                         *)
LEMMA HistoryStored == P!StoredBits \in Nat /\ HistLen <= P!StoredBits
<1> DEFINE n == (HistLen + WordBits - 1) \div WordBits
           r == (HistLen + WordBits - 1) % WordBits
<1>1. /\ n \in Nat /\ r \in 0 .. WordBits - 1
      /\ HistLen + WordBits - 1 = n * WordBits + r
  BY HistLenAssumption, SimAssumption
<1>2. n * WordBits \in Nat
  BY <1>1, SimAssumption
<1> QED
  BY <1>1, <1>2, HistLenAssumption, SimAssumption DEF P!StoredBits

(* A shift moves each outcome one place on and puts the new one first.     *)
LEMMA ShiftMoves ==
    ASSUME words \subseteq Nat, NEW t \in BOOLEAN
    PROVE  /\ P!ShiftedBhr(t) \subseteq Nat
           /\ 0 \in P!ShiftedBhr(t) <=> t
           /\ \A k \in 2 .. HistLen : k - 1 \in P!ShiftedBhr(t) <=> k - 2 \in words
<1>1. P!ShiftedBhr(t) =
        ({b + 1 : b \in words} \cap (0 .. P!StoredBits - 1)) \cup (IF t THEN {0} ELSE {})
  BY DEF P!ShiftedBhr, P!Up, P!Mask
<1>2. 0 \notin {b + 1 : b \in words}
  OBVIOUS
<1>3. ASSUME NEW k \in 2 .. HistLen
      PROVE  k - 1 \in P!ShiftedBhr(t) <=> k - 2 \in words
  <2>1. k \in Nat /\ k - 1 \in 0 .. P!StoredBits - 1 /\ k - 1 # 0
    BY HistoryStored, HistLenAssumption
  <2>2. k - 1 \in {b + 1 : b \in words} <=> k - 2 \in words
    BY <2>1
  <2> QED
    BY <1>1, <2>1, <2>2
<1>4. P!ShiftedBhr(t) \subseteq Nat
  BY <1>1, HistoryStored
<1> QED
  BY <1>1, <1>2, <1>3, <1>4

-----------------------------------------------------------------------------
(* Between the shift of the words and the training the words are one       *)
(* outcome ahead of the interpreter's history.                             *)
Ahead ==
    /\ 0 \in words <=> taken
    /\ \A k \in 2 .. HistLen : bhr[k - 1] <=> k - 1 \in words

HistoryInv ==
    /\ bhr \in [1 .. HistLen -> BOOLEAN]
    /\ words \subseteq Nat
    /\ taken \in BOOLEAN
    /\ phase \in {"idle", "predicted", "resolved"}
    /\ phase # "resolved" => \A k \in 1 .. HistLen : bhr[k] <=> (k - 1 \in words)
    /\ phase = "resolved" => Ahead

(* Both histories start without outcomes.                                  *)
LEMMA HistoryStart == SimInit => HistoryInv
<1> SUFFICES ASSUME SimInit PROVE HistoryInv
  OBVIOUS
<1>1. bhr = [k \in 1 .. HistLen |-> FALSE] /\ words = {} /\ taken = FALSE /\ phase = "idle"
  BY DEF SimInit, Init
<1> QED
  BY <1>1 DEF HistoryInv

(* The interpreter's history takes an outcome in the same step as the      *)
(* words, or one step later.                                               *)
LEMMA TransferKeeps ==
    ASSUME HistoryInv, phase = "idle", phase' = "idle", taken' = taken,
           ShiftHistory(TRUE), words' = P!ShiftedBhr(TRUE)
    PROVE  HistoryInv'
<1>1. bhr' = [k \in 1 .. HistLen |-> IF k = 1 THEN TRUE ELSE bhr[k - 1]]
  BY DEF ShiftHistory
<1>2. \A k \in 1 .. HistLen : k # 1 => k - 1 \in 1 .. HistLen
  BY HistLenAssumption
<1>3. bhr' \in [1 .. HistLen -> BOOLEAN]
  BY <1>1, <1>2, HistLenAssumption DEF HistoryInv
<1>4. /\ words' \subseteq Nat /\ 0 \in words'
      /\ \A k \in 2 .. HistLen : k - 1 \in words' <=> k - 2 \in words
  BY ShiftMoves DEF HistoryInv
<1>5. ASSUME NEW k \in 1 .. HistLen PROVE bhr'[k] <=> (k - 1 \in words')
  <2>1. CASE k = 1
    <3>1. bhr'[k] = TRUE /\ k - 1 = 0
      BY <2>1, <1>1
    <3> QED
      BY <3>1, <1>4
  <2>2. CASE k # 1
    <3>1. k \in 2 .. HistLen /\ k - 1 \in 1 .. HistLen /\ (k - 1) - 1 = k - 2
      BY <2>2, HistLenAssumption
    <3>2. bhr'[k] = bhr[k - 1]
      BY <1>1, <2>2
    <3>3. bhr[k - 1] <=> (k - 2 \in words)
      BY <3>1 DEF HistoryInv
    <3> QED
      BY <3>1, <3>2, <3>3, <1>4
  <2> QED
    BY <2>1, <2>2
<1> QED
  BY <1>3, <1>4, <1>5 DEF HistoryInv

(* Training lets the interpreter's history catch up with the words.        *)
LEMMA TrainingKeeps ==
    ASSUME HistoryInv, phase = "resolved", phase' = "idle", taken' = FALSE,
           ShiftHistory(taken), words' = words
    PROVE  HistoryInv'
<1>1. bhr' = [k \in 1 .. HistLen |-> IF k = 1 THEN taken ELSE bhr[k - 1]]
  BY DEF ShiftHistory
<1>2. \A k \in 1 .. HistLen : k # 1 => k - 1 \in 1 .. HistLen
  BY HistLenAssumption
<1>3. bhr' \in [1 .. HistLen -> BOOLEAN]
  BY <1>1, <1>2, HistLenAssumption DEF HistoryInv
<1>4. ASSUME NEW k \in 1 .. HistLen PROVE bhr'[k] <=> (k - 1 \in words')
  <2>1. CASE k = 1
    BY <2>1, <1>1 DEF HistoryInv, Ahead
  <2>2. CASE k # 1
    <3>1. k \in 2 .. HistLen
      BY <2>2, HistLenAssumption
    <3>2. bhr'[k] = bhr[k - 1]
      BY <1>1, <2>2
    <3> QED
      BY <3>1, <3>2 DEF HistoryInv, Ahead
  <2> QED
    BY <2>1, <2>2
<1> QED
  BY <1>3, <1>4 DEF HistoryInv

(* No step lets the histories part.                                        *)
LEMMA HistoryStep == HistoryInv /\ [SimNext]_simVars => HistoryInv'
<1> SUFFICES ASSUME HistoryInv, [SimNext]_simVars PROVE HistoryInv'
  OBVIOUS
<1>1. CASE SimPredict
  <2>1. PICK a : P!Predict(a)
    BY <1>1 DEF SimPredict
  <2>2. phase = "idle" /\ phase' = "predicted" /\ taken' = taken /\ words' = words /\ bhr' = bhr
    BY <1>1, <2>1 DEF SimPredict, P!Predict, vars
  <2> QED
    BY <2>2 DEF HistoryInv
<1>2. CASE SimResolve
  <2>1. PICK t \in BOOLEAN : P!Resolve(t)
    BY <1>2 DEF SimResolve
  <2>2. /\ phase = "predicted" /\ phase' = "resolved" /\ taken' = t
        /\ words' = P!ShiftedBhr(t) /\ bhr' = bhr
    BY <1>2, <2>1 DEF SimResolve, P!Resolve, vars
  <2>3. /\ words' \subseteq Nat /\ (0 \in words' <=> t)
        /\ \A k \in 2 .. HistLen : k - 1 \in words' <=> k - 2 \in words
    BY <2>2, ShiftMoves DEF HistoryInv
  <2>4. ASSUME NEW k \in 2 .. HistLen PROVE bhr'[k - 1] <=> k - 1 \in words'
    <3>1. k - 1 \in 1 .. HistLen /\ (k - 1) - 1 = k - 2
      BY HistLenAssumption
    <3> QED
      BY <2>2, <2>3, <3>1 DEF HistoryInv
  <2> QED
    BY <2>2, <2>3, <2>4 DEF HistoryInv, Ahead
<1>3. CASE SimBranch
  <2>1. phase = "resolved" /\ phase' = "idle" /\ taken' = FALSE /\ words' = words
    BY <1>3 DEF SimBranch, P!Update
  <2>2. ShiftHistory(taken)
    <3>1. CASE \E op \in {"branch", "likely"}, target \in Addr : Branch(op, bp, taken, target)
      BY <3>1 DEF Branch
    <3>2. CASE ~taken /\ AnnulSlot(bp)
      BY <3>2 DEF AnnulSlot, HistoryInv, ShiftHistory
    <3> QED
      BY <1>3, <3>1, <3>2 DEF SimBranch
  <2> QED
    BY <2>1, <2>2, TrainingKeeps
<1>4. CASE SimJump
  <2>1. phase = "idle" /\ phase' = "idle" /\ taken' = taken /\ words' = P!ShiftedBhr(TRUE)
    BY <1>4 DEF SimJump, Between, bpVars
  <2>2. ShiftHistory(TRUE)
    BY <1>4 DEF SimJump, Jump, Call, JumpTo, JumpRegister31
  <2> QED
    BY <2>1, <2>2, TransferKeeps
<1>5. CASE SimLoad \/ SimMonitor \/ SimOther
  <2>1. phase' = phase /\ taken' = taken /\ words' = words
    BY <1>5 DEF SimLoad, SimMonitor, SimOther, Between, bpVars
  <2>2. bhr' = bhr
    BY <1>5 DEF SimLoad, SimMonitor, SimOther, Plain, MonitorCall, Break, Exit, Resume, Stop
  <2> QED
    BY <2>1, <2>2 DEF HistoryInv, Ahead
<1>6. CASE UNCHANGED simVars
  BY <1>6 DEF simVars, vars, bpVars, HistoryInv, Ahead
<1> QED
  BY <1>1, <1>2, <1>3, <1>4, <1>5, <1>6 DEF SimNext

(* Between two branches the words the predictors read are the outcomes of  *)
(* the program's transfers, for every program and every history length.    *)
THEOREM HistoriesAlwaysAgree == SimSpec => []HistoriesAgree
<1>1. HistoryInv => HistoriesAgree
  BY DEF HistoryInv, HistoriesAgree
<1> QED
  BY <1>1, HistoryStart, HistoryStep, PTL DEF SimSpec

-----------------------------------------------------------------------------
Ways == 0 .. NumSets - 1

(* Set and tag make up the line.                                           *)
LEMMA LineSplits ==
    ASSUME NEW l \in Lines
    PROVE  /\ C!SetIndex(l) = l % NumSets /\ C!Tag(l) = l \div NumSets
           /\ C!SetIndex(l) \in Ways /\ C!Tag(l) \in Nat
           /\ l = C!Tag(l) * NumSets + C!SetIndex(l)
<1>1. C!SetCount = NumSets
  BY DEF C!SetCount
<1>2. l \in Nat /\ NumSets \in Nat \ {0}
  BY SimAssumption
<1>3. l % NumSets \in Ways /\ l = (l \div NumSets) * NumSets + (l % NumSets)
  BY <1>2 DEF Ways
<1>4. C!SetIndex(l) = l % NumSets /\ C!Tag(l) = l \div NumSets
  BY <1>1 DEF C!SetIndex, C!Tag
<1>5. l \div NumSets \in Nat
  BY <1>2
<1> QED
  BY <1>3, <1>4, <1>5

(* The cache holds, of each set that was accessed since the last flush, a  *)
(* line accessed since.                                                    *)
FreshInv ==
    /\ hits \in Nat /\ misses \in Nat
    /\ tags \in [Ways -> Nat] /\ valid \in [Ways -> BOOLEAN]
    /\ fresh \subseteq Lines
    /\ \A w \in Ways : valid[w] =>
          \E l \in fresh : C!SetIndex(l) = w /\ C!Tag(l) = tags[w]
    /\ \A l \in fresh : valid[C!SetIndex(l)]

(* The cache starts empty.                                                 *)
LEMMA FreshStart == SimInit => FreshInv
<1> SUFFICES ASSUME SimInit PROVE FreshInv
  OBVIOUS
<1>1. /\ hits = 0 /\ misses = 0 /\ fresh = {}
      /\ tags = [w \in Ways |-> 0] /\ valid = [w \in Ways |-> FALSE]
  BY DEF SimInit, Ways
<1> QED
  BY <1>1 DEF FreshInv

(* What an access does, in terms of one set of one way.                    *)
LEMMA AccessCases ==
    ASSUME FreshInv, NEW line \in Lines, C!DirectAccess(line, "READ"), fresh' = fresh \cup {line}
    PROVE  LET w == C!SetIndex(line) IN
           \/ /\ line \in fresh /\ hits' = hits + 1 /\ misses' = misses
              /\ tags' = tags /\ valid' = valid
           \/ /\ hits' = hits /\ misses' = misses + 1
              /\ valid' = [valid EXCEPT ![w] = TRUE]
              /\ tags' = [tags EXCEPT ![w] = C!Tag(line)]
              /\ line \in fresh =>
                    \E m \in fresh : m # line /\ C!SetIndex(m) = C!SetIndex(line)
<1> DEFINE w == C!SetIndex(line)
<1>1. w \in Ways
  BY LineSplits
<1>2. CASE tags[w] = C!Tag(line) /\ valid[w]
  <2>1. PICK l \in fresh : C!SetIndex(l) = w /\ C!Tag(l) = tags[w]
    BY <1>1, <1>2 DEF FreshInv
  <2>2. l = line
    BY <1>2, <2>1, LineSplits DEF FreshInv
  <2>3. hits' = hits + 1 /\ misses' = misses /\ tags' = tags /\ valid' = valid
    BY <1>2 DEF C!DirectAccess, C!CountHit
  <2> QED
    BY <2>1, <2>2, <2>3
<1>3. CASE ~(tags[w] = C!Tag(line) /\ valid[w])
  <2>1. /\ hits' = hits /\ misses' = misses + 1
        /\ valid' = [valid EXCEPT ![w] = TRUE]
        /\ tags' = [tags EXCEPT ![w] = C!Tag(line)]
    BY <1>3 DEF C!DirectAccess, C!CountMiss
  <2>2. ASSUME line \in fresh
        PROVE  \E m \in fresh : m # line /\ C!SetIndex(m) = C!SetIndex(line)
    <3>1. valid[w]
      BY <2>2 DEF FreshInv
    <3>2. PICK m \in fresh : C!SetIndex(m) = w /\ C!Tag(m) = tags[w]
      BY <1>1, <3>1 DEF FreshInv
    <3> QED
      BY <1>3, <3>1, <3>2
  <2> QED
    BY <2>1, <2>2
<1> QED
  BY <1>2, <1>3

(* An access makes its line valid and evicts the other of its way; a flush *)
(* empties all.                                                            *)
LEMMA FreshStep == FreshInv /\ [SimNext]_simVars => FreshInv'
<1> SUFFICES ASSUME FreshInv, [SimNext]_simVars PROVE FreshInv'
  OBVIOUS
<1>1. CASE UNCHANGED l1dVars
  BY <1>1 DEF l1dVars, FreshInv, C!SetIndex, C!Tag
<1>2. CASE SimLoad
  <2>1. PICK line \in Lines : C!DirectAccess(line, "READ") /\ fresh' = fresh \cup {line}
    BY <1>2 DEF SimLoad
  <2> DEFINE w == C!SetIndex(line)
  <2>2. w \in Ways /\ C!Tag(line) \in Nat
    BY LineSplits
  <2>3. CASE line \in fresh /\ hits' = hits + 1 /\ misses' = misses /\ tags' = tags /\ valid' = valid
    <3>1. fresh' = fresh
      BY <2>1, <2>3
    <3> QED
      BY <2>3, <3>1 DEF FreshInv, C!SetIndex, C!Tag
  <2>4. CASE /\ hits' = hits /\ misses' = misses + 1
             /\ valid' = [valid EXCEPT ![w] = TRUE]
             /\ tags' = [tags EXCEPT ![w] = C!Tag(line)]
    <3>1. /\ hits' \in Nat /\ misses' \in Nat
          /\ tags' \in [Ways -> Nat] /\ valid' \in [Ways -> BOOLEAN]
          /\ fresh' \subseteq Lines
      BY <2>1, <2>2, <2>4 DEF FreshInv
    <3>2. ASSUME NEW v \in Ways, valid'[v]
          PROVE  \E l \in fresh' : C!SetIndex(l) = v /\ C!Tag(l) = tags'[v]
      <4>1. CASE v = w
        BY <2>1, <2>2, <2>4, <4>1 DEF FreshInv
      <4>2. CASE v # w
        <5>1. valid[v] /\ tags'[v] = tags[v]
          BY <2>2, <2>4, <3>2, <4>2 DEF FreshInv
        <5> QED
          BY <2>1, <5>1 DEF FreshInv
      <4> QED
        BY <4>1, <4>2
    <3>3. ASSUME NEW l \in fresh' PROVE valid'[C!SetIndex(l)]
      <4>1. l \in Lines /\ C!SetIndex(l) \in Ways
        BY <3>1, LineSplits
      <4>2. CASE C!SetIndex(l) = w
        BY <2>2, <2>4, <4>2 DEF FreshInv
      <4>3. CASE C!SetIndex(l) # w
        <5>1. l \in fresh
          BY <2>1, <4>3
        <5> QED
          BY <2>4, <4>1, <4>3, <5>1 DEF FreshInv
      <4> QED
        BY <4>2, <4>3
    <3> QED
      BY <3>1, <3>2, <3>3 DEF FreshInv, C!SetIndex, C!Tag
  <2> QED
    BY <2>1, <2>3, <2>4, AccessCases
<1>3. CASE SimMonitor
  <2>1. /\ valid' = [v \in DOMAIN valid |-> FALSE] /\ fresh' = {}
        /\ tags' = tags /\ hits' = hits /\ misses' = misses
    BY <1>3 DEF SimMonitor, C!DirectFlush
  <2>2. valid' = [v \in Ways |-> FALSE]
    BY <2>1 DEF FreshInv
  <2> QED
    BY <2>1, <2>2 DEF FreshInv
<1>4. CASE UNCHANGED simVars
  BY <1>1, <1>4 DEF simVars
<1>5. CASE SimPredict \/ SimResolve \/ SimBranch \/ SimJump \/ SimOther
  BY <1>1, <1>5 DEF SimPredict, SimResolve, SimBranch, SimJump, SimOther
<1> QED
  BY <1>2, <1>3, <1>4, <1>5 DEF SimNext

(* A hit is of a line accessed since the last flush; a miss of such a line *)
(* means that two of them share a set: for every cache of the direct       *)
(* mapped class and every program.                                         *)
THEOREM HitsAlwaysFresh == SimSpec => HitsAreFresh
<1> DEFINE Fresh ==
      /\ hits' # hits => fresh' = fresh
      /\ misses' # misses /\ fresh' = fresh =>
            \E l, m \in fresh : l # m /\ C!SetIndex(l) = C!SetIndex(m)
<1>1. FreshInv /\ [SimNext]_simVars => [Fresh]_simVars
  <2> SUFFICES ASSUME FreshInv, SimNext PROVE Fresh
    OBVIOUS
  <2>1. CASE SimLoad
    <3>1. PICK line \in Lines : C!DirectAccess(line, "READ") /\ fresh' = fresh \cup {line}
      BY <2>1 DEF SimLoad
    <3>2. hits \in Nat /\ misses \in Nat
      BY DEF FreshInv
    <3>3. CASE line \in fresh /\ hits' = hits + 1 /\ misses' = misses
      BY <3>1, <3>3
    <3>4. CASE /\ hits' = hits
               /\ line \in fresh =>
                     \E m \in fresh : m # line /\ C!SetIndex(m) = C!SetIndex(line)
      BY <3>1, <3>4
    <3> QED
      BY <3>1, <3>3, <3>4, AccessCases
  <2>2. CASE ~SimLoad
    <3>1. hits' = hits /\ misses' = misses
      BY <2>2 DEF SimNext, SimPredict, SimResolve, SimBranch, SimJump, SimMonitor, SimOther,
                  l1dVars, C!DirectFlush
    <3> QED
      BY <3>1
  <2> QED
    BY <2>1, <2>2
<1> QED
  BY <1>1, FreshStart, FreshStep, PTL DEF SimSpec, HitsAreFresh
-----------------------------------------------------------------------------
(* The predictor of this program is one that PredictorsProofs is about: PP *)
(* names what is proved there, P what the program runs.                    *)
PP == INSTANCE PredictorsProofs WITH
        Impls <- BpredImpls, impl <- bpred_impl, BhrLen <- HistLen, bhr <- words,
        MaxBranches <- MaxIcnt + MaxNest, MaxJumps <- 0, n_jumps <- 0

(* The operations of the two are the same.                                 *)
LEMMA SameOperations ==
    /\ PP!PredictorsAssumption
    /\ \A c : P!NewTables(c) = PP!NewTables(c)
    /\ \A a : P!Predict(a) => PP!Predict(a)
    /\ \A t : P!Resolve(t) => PP!Resolve(t)
    /\ P!Update => PP!Update
    /\ P!ShiftedBhr(TRUE) = PP!ShiftedBhr(TRUE)
<1> USE DEF P!Mask, PP!Mask, P!Bits, PP!Bits, P!Number, PP!Number, P!Xor, PP!Xor, P!Up, PP!Up,
            P!Down, PP!Down, P!FoldAt, PP!FoldAt, P!MapThenSumSet, PP!MapThenSumSet,
            P!MapThenFoldSet, PP!MapThenFoldSet, P!StoredBits, PP!StoredBits, P!ShiftedBhr,
            PP!ShiftedBhr, P!ToInteger, PP!ToInteger, P!AsString, PP!AsString, P!HexString,
            PP!HexString, P!GshareIndex, PP!GshareIndex, P!GtaggedIndex, PP!GtaggedIndex,
            P!UberIndex, PP!UberIndex, P!BimodalIndex, PP!BimodalIndex, P!ChoiceIndex,
            PP!ChoiceIndex, P!Index, PP!Index, P!FieldOf, PP!FieldOf, P!Elems, PP!Elems,
            P!Fields, PP!Fields, P!NewCounters, PP!NewCounters, P!GetValue, PP!GetValue,
            P!Saturate, PP!Saturate, P!UpdateCounter, PP!UpdateCounter, P!Lookup, PP!Lookup,
            P!Assign, PP!Assign, P!Bank, PP!Bank, P!Counter, PP!Counter, P!BimodalUpdate,
            PP!BimodalUpdate, P!TrainedTables, PP!TrainedTables, P!NewTables, PP!NewTables,
            P!Mispredicted, PP!Mispredicted
<1>1. PP!PredictorsAssumption
  BY SimPredictorsAssumption DEF P!PredictorsAssumption, PP!PredictorsAssumption
<1>2. \A c : P!NewTables(c) = PP!NewTables(c)
  OBVIOUS
<1>3. \A a : P!Predict(a) => PP!Predict(a)
  BY ZenonT(40) DEF P!Predict, PP!Predict
<1>4. \A t : P!Resolve(t) => PP!Resolve(t)
  BY DEF P!Resolve, PP!Resolve
<1>5. P!Update => PP!Update
  BY ZenonT(40) DEF P!Update, PP!Update
<1>6. P!ShiftedBhr(TRUE) = PP!ShiftedBhr(TRUE)
  OBVIOUS
<1> QED
  BY <1>1, <1>2, <1>3, <1>4, <1>5, <1>6

(* So are the abstract predictors that they implement.                     *)
LEMMA SameAbstract ==
    /\ PP!PS!PSInit => P!PS!PSInit
    /\ [PP!PS!PSNext]_(PP!PS!psVars) => [P!PS!PSNext]_(P!PS!psVars)
<1> USE DEF P!Mask, PP!Mask, P!Number, PP!Number, P!MapThenSumSet, PP!MapThenSumSet,
            P!MapThenFoldSet, PP!MapThenFoldSet, P!Bits, PP!Bits, P!Up, PP!Up, P!GtaggedIndex,
            PP!GtaggedIndex, P!UberIndex, PP!UberIndex, P!AsString, PP!AsString, P!HexString,
            PP!HexString, P!GetValue, PP!GetValue, P!FieldOf, PP!FieldOf, P!Lookup, PP!Lookup,
            P!CounterOf, PP!CounterOf, P!PS!Cardinality, PP!PS!Cardinality, P!PS!BitsOf,
            PP!PS!BitsOf, P!PS!Newest, PP!PS!Newest, P!PS!FoldedIndex, PP!PS!FoldedIndex,
            P!PS!BankIndex, PP!PS!BankIndex, P!PS!Choice, PP!PS!Choice, P!PS!Contexts,
            PP!PS!Contexts, P!PS!Provider, PP!PS!Provider, P!PS!Predicted, PP!PS!Predicted,
            P!PS!Saturate, PP!PS!Saturate, P!PS!Trained, PP!PS!Trained, P!PS!Shifted,
            PP!PS!Shifted, P!PS!Stored, PP!PS!Stored, P!PS!psVars, PP!PS!psVars
<1>1. PP!PS!PSInit => P!PS!PSInit
  BY DEF P!PS!PSInit, PP!PS!PSInit
<1>2. PP!PS!PSNext => P!PS!PSNext
  BY DEF P!PS!PSNext, PP!PS!PSNext, P!PS!PSBranch, PP!PS!PSBranch, P!PS!PSJump, PP!PS!PSJump
<1>3. UNCHANGED PP!PS!psVars => UNCHANGED P!PS!psVars
  OBVIOUS
<1> HIDE DEF P!PS!psVars, PP!PS!psVars
<1> QED
  BY <1>1, <1>2, <1>3

-----------------------------------------------------------------------------
(* What the program does is a step of the interpreter, or none.            *)
LEMMA SimStepIsNext ==
    ASSUME bp \in BOOLEAN, taken \in BOOLEAN, gpr31 \in Addr, SimNext
    PROVE  [Next]_vars
<1>1. CASE SimPredict \/ SimResolve
  BY <1>1 DEF SimPredict, SimResolve
<1>2. CASE SimBranch
  <2>1. CASE \E op \in {"branch", "likely"}, target \in Addr : Branch(op, bp, taken, target)
    BY <2>1 DEF Next
  <2>2. CASE ~taken /\ AnnulSlot(bp)
    BY <2>2 DEF Next
  <2> QED
    BY <1>2, <2>1, <2>2 DEF SimBranch
<1>3. CASE SimJump
  BY <1>3 DEF SimJump, Next
<1>4. CASE SimLoad
  BY <1>4 DEF SimLoad, Next
<1>5. CASE SimMonitor \/ SimOther
  BY <1>5 DEF SimMonitor, SimOther, Next
<1> QED
  BY <1>1, <1>2, <1>3, <1>4, <1>5 DEF SimNext

(* It is a step around the predictor too.                                  *)
LEMMA SimStepIsRefNext ==
    ASSUME pc \in Addr, SimNext
    PROVE  PP!RefNext
<1>1. CASE SimPredict
  <2>1. PP!Predict(pc)
    BY <1>1, SameOperations DEF SimPredict
  <2> QED
    BY <2>1 DEF PP!RefNext
<1>2. CASE SimResolve
  <2>1. PICK t \in BOOLEAN : P!Resolve(t)
    BY <1>2 DEF SimResolve
  <2>2. PP!Resolve(t)
    BY <2>1, SameOperations
  <2> QED
    BY <2>2 DEF PP!RefNext
<1>3. CASE SimBranch
  <2>1. PP!Update
    BY <1>3, SameOperations DEF SimBranch
  <2> QED
    BY <2>1 DEF PP!RefNext
<1>4. CASE SimJump
  <2>1. phase = "idle" /\ UNCHANGED bpVars /\ words' = PP!ShiftedBhr(TRUE)
    BY <1>4, SameOperations DEF SimJump, Between
  <2>2. UNCHANGED <<bpred_impl, n_branches, n_mispredicts>>
    BY <1>4 DEF SimJump, Jump, Call, JumpTo, JumpRegister31, Fetch, PredictorIdle
  <2>3. PP!Turn
    BY <2>1, <2>2 DEF bpVars, PP!Turn
  <2> QED
    BY <2>3 DEF PP!RefNext
<1>5. CASE SimLoad \/ SimMonitor \/ SimOther
  <2>1. UNCHANGED bpVars /\ words' = words
    BY <1>5 DEF SimLoad, SimMonitor, SimOther, Between
  <2>2. UNCHANGED <<bpred_impl, n_branches, n_mispredicts>>
    BY <1>5 DEF SimLoad, SimMonitor, SimOther, Plain, MonitorCall, Break, Exit, Resume, Stop,
                Fetch, PredictorIdle
  <2>3. PP!Quiet
    BY <2>1, <2>2 DEF bpVars, PP!Quiet
  <2> QED
    BY <2>3 DEF PP!RefNext
<1> QED
  BY <1>1, <1>2, <1>3, <1>4, <1>5 DEF SimNext

(* The invariants of the interpreter and of the predictor, together: each  *)
(* needs the other's, for the address of a branch and the locals of        *)
(* branch().                                                               *)
SimInv == InterpInv /\ PP!RefInv

(* The program starts with an interpreter and a predictor as created.      *)
LEMMA SimStart == SimInit => SimInv /\ P!PS!PSInit
<1> SUFFICES ASSUME SimInit PROVE SimInv /\ P!PS!PSInit
  OBVIOUS
<1>1. Init /\ InterpInv
  BY InitInv DEF SimInit
<1>2. PP!PdInit
  <2>1. tables = PP!NewTables(bpred_impl)
    BY SameOperations DEF SimInit
  <2> QED
    BY <1>1, <2>1 DEF SimInit, Init, PP!PdInit
<1>3. PP!RefInv
  BY <1>2, SameOperations, PP!RefInvStart
<1>4. P!PS!PSInit
  BY <1>2, SameOperations, SameAbstract, PP!RefStart
<1> QED
  BY <1>1, <1>3, <1>4 DEF SimInv

(* Every step of the program keeps both invariants, and is a step of the   *)
(* interpreter and of the abstract predictor, or none.                     *)
LEMMA SimStep ==
    SimInv /\ [SimNext]_simVars =>
        SimInv' /\ [Next]_vars /\ [P!PS!PSNext]_(P!PS!psVars)
<1> SUFFICES ASSUME SimInv, [SimNext]_simVars
             PROVE  SimInv' /\ [Next]_vars /\ [P!PS!PSNext]_(P!PS!psVars)
  OBVIOUS
<1>1. pc \in Addr /\ gpr31 \in Addr /\ bp \in BOOLEAN /\ taken \in BOOLEAN
  BY DEF SimInv, InterpInv, CoreTypeOK, PP!RefInv
<1>2. [Next]_vars
  BY <1>1, SimStepIsNext DEF simVars
<1>3. PP!RefNext
  <2>1. CASE UNCHANGED simVars
    <3>1. UNCHANGED <<words, bpVars, vars>>
      BY <2>1 DEF simVars
    <3>2. UNCHANGED <<bpred_impl, n_branches, n_mispredicts>>
      BY <3>1 DEF vars, predVars
    <3> QED
      BY <3>1, <3>2 DEF bpVars, PP!Quiet, PP!RefNext
  <2> QED
    BY <1>1, <2>1, SimStepIsRefNext
<1>4. InterpInv'
  BY <1>2, NextInv DEF SimInv
<1>5. PP!RefInv'
  BY <1>3, SameOperations, PP!RefInvStep DEF SimInv
<1>6. [PP!PS!PSNext]_(PP!PS!psVars)
  BY <1>3, SameOperations, PP!RefStep DEF SimInv
<1> QED
  BY <1>2, <1>4, <1>5, <1>6, SameAbstract DEF SimInv

(* Inside the program, with branches in the slots of branches, jumps       *)
(* between them and returns that write to its map, the predictor is the    *)
(* abstract one, for every program and every size of the predictor.        *)
THEOREM PredictorInContextCorrect == SimSpec => PredictorInContext
BY SimStart, SimStep, PTL DEF SimSpec, PredictorInContext, P!ImplementsPredictor, P!PS!PSSpec

(* The program, predictor and cache included, is a run of the interpreter  *)
(* alone: whatever holds of Interp holds of it.                            *)
THEOREM SimulatorIsInterp == SimSpec => Spec
<1>1. SimInit => Init
  BY DEF SimInit
<1> QED
  BY <1>1, SimStart, SimStep, PTL DEF SimSpec, Spec

-----------------------------------------------------------------------------
(* The histogram as one number.                                            *)
LEMMA HistogramSum ==
    /\ MispredictAccounting <=>
          PP!Total(mispredict_map, Addr) =
             num_jr_r31_mispred + (IF KeepsMap THEN n_mispredicts ELSE 0)
    /\ MispredictAccounting' <=>
          PP!Total(mispredict_map', Addr) =
             num_jr_r31_mispred' + (IF KeepsMap' THEN n_mispredicts' ELSE 0)
<1>1. MispredictAccounting <=>
         PP!Total(mispredict_map, Addr) =
            num_jr_r31_mispred + (IF KeepsMap THEN n_mispredicts ELSE 0)
  BY DEF MispredictAccounting, MapThenSumSet, MapThenFoldSet,
         PP!Total, PP!MapThenSumSet, PP!MapThenFoldSet
<1>2. MispredictAccounting' <=>
         PP!Total(mispredict_map', Addr) =
            num_jr_r31_mispred' + (IF KeepsMap' THEN n_mispredicts' ELSE 0)
  BY DEF MispredictAccounting, MapThenSumSet, MapThenFoldSet,
         PP!Total, PP!MapThenSumSet, PP!MapThenFoldSet
<1> QED
  BY <1>1, <1>2

(* A misprediction entered adds one to the sum of the histogram.           *)
LEMMA HistogramCounts ==
    ASSUME NEW m \in [Addr -> Nat], NEW a \in Addr
    PROVE  PP!Total([m EXCEPT ![a] = @ + 1], Addr) = PP!Total(m, Addr) + 1
<1>1. IsFiniteSet(Addr)
  BY NWordsAssumption, FS_Interval
<1>2. PP!IsFiniteSet(Addr)
  BY <1>1 DEF IsFiniteSet, PP!IsFiniteSet
<1> QED
  BY <1>2, PP!TotalCounts

(* The counts that the report compares, of a step of the interpreter that  *)
(* leaves the predictor alone.                                             *)
LEMMA AccountingKeeps ==
    ASSUME MispredictAccounting, UNCHANGED <<mispredict_map, num_jr_r31_mispred, bpred_impl, n_mispredicts>>
    PROVE  MispredictAccounting'
<1>1. KeepsMap' = KeepsMap
  BY DEF KeepsMap
<1>2. PP!Total(mispredict_map, Addr) = num_jr_r31_mispred + (IF KeepsMap THEN n_mispredicts ELSE 0)
  BY HistogramSum
<1>3. PP!Total(mispredict_map', Addr) =
        num_jr_r31_mispred' + (IF KeepsMap' THEN n_mispredicts' ELSE 0)
  BY <1>1, <1>2
<1> QED
  BY <1>3, HistogramSum

(* A trained branch, mispredicted or not.                                  *)
LEMMA AccountingTrains ==
    ASSUME InterpInv, MispredictAccounting, NEW guess, NEW way, UpdatePredictor(guess, way),
           UNCHANGED <<num_jr_r31_mispred, bpred_impl>>
    PROVE  MispredictAccounting'
<1> DEFINE old == PP!Total(mispredict_map, Addr)
           new == PP!Total(mispredict_map', Addr)
<1>1. /\ pc \in Addr /\ mispredict_map \in [Addr -> Nat]
      /\ n_mispredicts \in Nat /\ num_jr_r31_mispred \in Nat
  BY DEF InterpInv, CoreTypeOK, StatsTypeOK
<1>2. old = num_jr_r31_mispred + (IF KeepsMap THEN n_mispredicts ELSE 0)
  BY HistogramSum
<1>3. KeepsMap' = KeepsMap
  BY DEF KeepsMap
<1>4. new = old + (IF guess # way /\ KeepsMap THEN 1 ELSE 0)
  <2>1. old \in Nat
    BY <1>1, <1>2
  <2>2. CASE guess # way /\ KeepsMap
    <3>1. mispredict_map' = [mispredict_map EXCEPT ![pc] = @ + 1]
      BY <2>2 DEF UpdatePredictor
    <3> QED
      BY <1>1, <2>2, <3>1, HistogramCounts
  <2>3. CASE ~(guess # way /\ KeepsMap)
    <3>1. mispredict_map' = mispredict_map
      BY <2>3 DEF UpdatePredictor
    <3> QED
      BY <2>1, <2>3, <3>1
  <2> QED
    BY <2>2, <2>3
<1>5. n_mispredicts' = n_mispredicts + (IF guess # way THEN 1 ELSE 0)
  BY DEF UpdatePredictor
<1> HIDE DEF old, new
<1>6. new = num_jr_r31_mispred + (IF KeepsMap THEN n_mispredicts' ELSE 0)
  BY <1>1, <1>2, <1>4, <1>5
<1>7. new = num_jr_r31_mispred' + (IF KeepsMap' THEN n_mispredicts' ELSE 0)
  BY <1>3, <1>6
<1> QED
  BY <1>7, HistogramSum DEF new

(* A return, mispredicted or not.                                          *)
LEMMA AccountingReturns ==
    ASSUME InterpInv, MispredictAccounting, JumpRegister31
    PROVE  MispredictAccounting'
<1> DEFINE old == PP!Total(mispredict_map, Addr)
           new == PP!Total(mispredict_map', Addr)
           miss == gpr31 # RsbTop
           trained == IF KeepsMap THEN n_mispredicts ELSE 0
<1>1. /\ pc \in Addr /\ mispredict_map \in [Addr -> Nat]
      /\ trained \in Nat /\ num_jr_r31_mispred \in Nat
  BY DEF InterpInv, CoreTypeOK, StatsTypeOK
<1>2. old = num_jr_r31_mispred + trained
  BY HistogramSum
<1>3. KeepsMap' = KeepsMap /\ n_mispredicts' = n_mispredicts
      /\ num_jr_r31_mispred' = num_jr_r31_mispred + (IF miss THEN 1 ELSE 0)
  BY DEF JumpRegister31, Fetch, KeepsMap
<1>4. new = old + (IF miss THEN 1 ELSE 0)
  <2>1. old \in Nat
    BY <1>1, <1>2
  <2>2. CASE miss
    <3>1. mispredict_map' = [mispredict_map EXCEPT ![pc] = @ + 1]
      BY <2>2 DEF JumpRegister31
    <3> QED
      BY <1>1, <2>2, <3>1, HistogramCounts
  <2>3. CASE ~miss
    <3>1. mispredict_map' = mispredict_map
      BY <2>3 DEF JumpRegister31
    <3> QED
      BY <2>1, <2>3, <3>1
  <2> QED
    BY <2>2, <2>3
<1>5. trained = (IF KeepsMap' THEN n_mispredicts' ELSE 0)
  BY <1>3
<1> HIDE DEF old, new, trained, miss
<1>6. new = num_jr_r31_mispred' + trained
  BY <1>1, <1>2, <1>3, <1>4
<1> QED
  BY <1>5, <1>6, HistogramSum DEF new

(* What an instruction counts, it counts once, in the step in which the    *)
(* instruction itself is counted.                                          *)
LEMMA ReportStart == SimInit => ReportAddsUp
<1> SUFFICES ASSUME SimInit PROVE ReportAddsUp
  OBVIOUS
<1>1. /\ mispredict_map = [a \in Addr |-> 0] /\ num_jr_r31_mispred = 0 /\ num_jr_r31 = 0
      /\ n_branches = 0 /\ n_mispredicts = 0 /\ hits = 0 /\ misses = 0 /\ icnt = 0
  BY DEF SimInit, Init
<1>2. PP!Total(mispredict_map, Addr) = 0
  <2>1. IsFiniteSet(Addr)
    BY NWordsAssumption, FS_Interval
  <2>2. PP!IsFiniteSet(Addr)
    BY <2>1 DEF IsFiniteSet, PP!IsFiniteSet
  <2> QED
    BY <1>1, <2>2, PP!TotalZero
<1>3. MispredictAccounting
  BY <1>1, <1>2, HistogramSum
<1> QED
  BY <1>1, <1>3 DEF ReportAddsUp

(* No step counts an instruction, a branch, a return or an access in one   *)
(* place and not in the other.                                             *)
LEMMA ReportStep ==
    SimInv /\ FreshInv /\ ReportAddsUp /\ [SimNext]_simVars => ReportAddsUp'
<1> SUFFICES ASSUME SimInv, FreshInv, ReportAddsUp, [SimNext]_simVars PROVE ReportAddsUp'
  OBVIOUS
<1>1. /\ n_branches \in Nat /\ n_mispredicts \in Nat /\ num_jr_r31 \in Nat /\ icnt \in Nat
      /\ hits \in Nat /\ misses \in Nat
      /\ InterpInv /\ MispredictAccounting
      /\ n_mispredicts <= n_branches /\ n_branches + num_jr_r31 + hits + misses <= icnt
  BY DEF SimInv, InterpInv, CoreTypeOK, StatsTypeOK, FreshInv, ReportAddsUp
<1>2. CASE SimPredict \/ SimResolve \/ UNCHANGED simVars
  <2>1. UNCHANGED <<vars, hits, misses>>
    BY <1>2 DEF SimPredict, SimResolve, simVars, l1dVars
  <2>2. UNCHANGED <<mispredict_map, num_jr_r31_mispred, bpred_impl, n_mispredicts, n_branches,
                    num_jr_r31, icnt>>
    BY <2>1 DEF vars, coreVars, predVars, retVars
  <2> QED
    BY <1>1, <2>1, <2>2, AccountingKeeps DEF ReportAddsUp
<1>3. CASE SimBranch
  <2>1. PICK way : /\ UpdatePredictor(bp, way) /\ icnt' = icnt + 1
                   /\ UNCHANGED <<num_jr_r31, num_jr_r31_mispred, bpred_impl>>
    BY <1>3 DEF SimBranch, Branch, AnnulSlot, Fetch, retVars
  <2>2. /\ n_branches' = n_branches + 1 /\ hits' = hits /\ misses' = misses
        /\ n_mispredicts' = n_mispredicts + (IF bp # way THEN 1 ELSE 0)
    BY <1>3, <2>1 DEF SimBranch, UpdatePredictor, l1dVars
  <2>3. MispredictAccounting'
    BY <1>1, <2>1, AccountingTrains
  <2> QED
    BY <1>1, <2>1, <2>2, <2>3 DEF ReportAddsUp
<1>4. CASE SimJump
  <2>1. hits' = hits /\ misses' = misses /\ icnt' = icnt + 1
    BY <1>4 DEF SimJump, Jump, Call, JumpTo, JumpRegister31, Fetch, l1dVars
  <2>2. CASE \E target \in Addr : Jump(target) \/ Call(target)
    <3>1. UNCHANGED <<mispredict_map, num_jr_r31_mispred, bpred_impl, n_mispredicts, n_branches,
                      num_jr_r31>>
      BY <2>2 DEF Jump, Call, JumpTo, Fetch, PredictorIdle, retVars
    <3> QED
      BY <1>1, <2>1, <3>1, AccountingKeeps DEF ReportAddsUp
  <2>3. CASE JumpRegister31
    <3>1. n_branches' = n_branches /\ n_mispredicts' = n_mispredicts
          /\ num_jr_r31' = num_jr_r31 + 1
      BY <2>3 DEF JumpRegister31
    <3> QED
      BY <1>1, <2>1, <2>3, <3>1, AccountingReturns DEF ReportAddsUp
  <2> QED
    BY <1>4, <2>2, <2>3 DEF SimJump
<1>5. CASE SimLoad
  <2>1. /\ icnt' = icnt + 1
        /\ UNCHANGED <<mispredict_map, num_jr_r31_mispred, bpred_impl, n_mispredicts, n_branches,
                       num_jr_r31>>
    BY <1>5 DEF SimLoad, Plain, Fetch, PredictorIdle, retVars
  <2>2. \/ hits' = hits + 1 /\ misses' = misses
        \/ hits' = hits /\ misses' = misses + 1
    <3>1. PICK line \in Lines : C!DirectAccess(line, "READ") /\ fresh' = fresh \cup {line}
      BY <1>5 DEF SimLoad
    <3> QED
      BY <3>1, AccessCases
  <2>3. MispredictAccounting'
    BY <1>1, <2>1, AccountingKeeps
  <2>4. n_branches' + num_jr_r31' + hits' + misses' <= icnt'
    <3>1. n_branches' = n_branches /\ num_jr_r31' = num_jr_r31 /\ icnt' = icnt + 1
      BY <2>1
    <3> QED
      BY <1>1, <2>2, <3>1
  <2> QED
    BY <1>1, <2>1, <2>3, <2>4 DEF ReportAddsUp
<1>6. CASE SimMonitor \/ SimOther
  <2>1. /\ icnt' \in {icnt, icnt + 1} /\ hits' = hits /\ misses' = misses
        /\ UNCHANGED <<mispredict_map, num_jr_r31_mispred, bpred_impl, n_mispredicts, n_branches,
                       num_jr_r31>>
    BY <1>6 DEF SimMonitor, SimOther, Plain, MonitorCall, Break, Exit, Resume, Stop, Fetch,
                PredictorIdle, retVars, l1dVars, C!DirectFlush
  <2> QED
    BY <1>1, <2>1, AccountingKeeps DEF ReportAddsUp
<1> QED
  BY <1>2, <1>3, <1>4, <1>5, <1>6 DEF SimNext

(* What main prints at the end adds up, for every program, predictor and   *)
(* cache of the direct mapped class.                                       *)
THEOREM ReportAlwaysAddsUp == SimSpec => []ReportAddsUp
BY SimStart, SimStep, FreshStart, FreshStep, ReportStart, ReportStep, PTL DEF SimSpec
=============================================================================
