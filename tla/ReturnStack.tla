---------------------------- MODULE ReturnStack ----------------------------
(***************************************************************************)
(* The return-address predictor: the globals rsb, rsb_sz and rsb_tos       *)
(* (globals.hh:17-19) that main.cc:152-156 creates, jal and jalr push and  *)
(* "jr $31" pops (profileMips.cc:1381-1410, 1560-1565).  It is a circular  *)
(* buffer with no count: a push past RsbSize calls overwrites the oldest   *)
(* return address, and a pop below the first one reads whatever the slot   *)
(* holds.                                                                  *)
(*                                                                         *)
(* calls is a history variable: the return addresses of the calls still in *)
(* progress, innermost first, of which a buffer of RsbSize entries can at  *)
(* best know the newest RsbSize.                                           *)
(***************************************************************************)
EXTENDS Integers, Sequences

CONSTANTS
    Addr,       \* instruction addresses
    RsbSize     \* rsb_sz == 1U << lg_rsb_sz

ASSUME RsbSizeAssumption == RsbSize \in Nat \ {0}
ASSUME AddrAssumption == 0 \in Addr

VARIABLES
    rsb,        \* globals::rsb, one return address per slot
    rsb_tos,    \* globals::rsb_tos, the slot the next push writes
    calls       \* history: the calls in progress, innermost first

rsbVars == <<rsb, rsb_tos, calls>>

Slots == 0 .. RsbSize - 1

(* rsb_sz is a power of two, so "& (rsb_sz - 1)" is the remainder.         *)
Wrap(i) == i % RsbSize

(* The slot of the k-th innermost entry.                                   *)
SlotOf(k) == Wrap(rsb_tos + k)

RsbInit ==
    /\ rsb = [i \in Slots |-> 0]
    /\ rsb_tos = Wrap(RsbSize - 1)
    /\ calls = << >>

(* Variant for the mutants: the top moves before the entry is written.     *)
RsbPushMovesFirst(ra) ==
    /\ rsb' = [rsb EXCEPT ![Wrap(rsb_tos - 1)] = ra]
    /\ rsb_tos' = Wrap(rsb_tos - 1)
    /\ calls' = <<ra>> \o SubSeq(calls, 1, IF Len(calls) = RsbSize
                                             THEN RsbSize - 1 ELSE Len(calls))

(* jal, jalr: the entry is written, then the top moves down.               *)
RsbPush(ra) ==
    /\ rsb' = [rsb EXCEPT ![rsb_tos] = ra]
    /\ rsb_tos' = Wrap(rsb_tos - 1)
    /\ calls' = <<ra>> \o SubSeq(calls, 1, IF Len(calls) = RsbSize
                                             THEN RsbSize - 1 ELSE Len(calls))

(* Variant for the mutants: the entry is read before the top moves.        *)
RsbTopUnmoved == rsb[rsb_tos]

(* jr $31: the top moves up, then the entry is read.                       *)
RsbTop == rsb[SlotOf(1)]

RsbPop ==
    /\ rsb_tos' = SlotOf(1)
    /\ calls' = IF calls = << >> THEN << >> ELSE Tail(calls)
    /\ UNCHANGED rsb

(* Any sequence of calls and returns, matched or not.                      *)
RsbNext == (\E ra \in Addr : RsbPush(ra)) \/ RsbPop

RsbSpec == RsbInit /\ [][RsbNext]_rsbVars

RsbTypeOK ==
    /\ rsb \in [Slots -> Addr]
    /\ rsb_tos \in Slots
    /\ calls \in Seq(Addr)
    /\ Len(calls) <= RsbSize

(* Whatever the wrapping has overwritten, the buffer holds the newest      *)
(* RsbSize calls in progress in their order, above the top of stack.       *)
RsbHoldsCalls == \A k \in 1 .. Len(calls) : rsb[SlotOf(k)] = calls[k]
=============================================================================
