----------------------------- MODULE ArchMemory -----------------------------
(***************************************************************************)
(* What the loads and stores of the architecture promise: each instruction *)
(* pairs addresses of memory with lanes of a register, in an order that    *)
(* depends on the byte order, and copies bytes one way.                    *)
(*                                                                         *)
(* Two promises are left open, where the interpreter does not keep them:   *)
(* the upper lanes of an unsigned load of a value with its sign bit set    *)
(* (profileMips.cc:484, 497), and whether a swl that names all four lanes  *)
(* clears the bits of memory before it stores (579).                       *)
(***************************************************************************)
EXTENDS ByteWords

CONSTANTS
    Addr,           \* addresses of memory, whole words
    Regs,           \* general registers
    FpRegs          \* floating-point registers

VARIABLES
    el, mem, gpr, cpr1,
    instr           \* the instruction executed last, its address and its register

avars == <<el, mem, gpr, cpr1, instr>>

Executes(op, ea, r) == instr' = [op |-> op, ea |-> ea, rt |-> r]

WordOf(ea) == ea - (ea % 4)
Span(ea, n) == ea .. ea + n - 1

(* Which lane of the register each address of memory holds.                *)
Whole(ea, n) == [a \in Span(ea, n) |-> IF el THEN a - ea ELSE n - 1 - (a - ea)]
Left(ea) == IF el THEN [a \in WordOf(ea) .. ea |-> 3 - (ea - a)]
                  ELSE [a \in ea .. WordOf(ea) + 3 |-> 3 - (a - ea)]
Right(ea) == IF el THEN [a \in ea .. WordOf(ea) + 3 |-> a - ea]
                   ELSE [a \in WordOf(ea) .. ea |-> ea - a]

Stored(lanes, w) == [a \in Addr |-> IF a \in DOMAIN lanes THEN w[lanes[a]] ELSE mem[a]]
Loaded(lanes, w) ==
    [l \in DOMAIN w |-> IF \E a \in DOMAIN lanes : lanes[a] = l
                          THEN mem[CHOOSE a \in DOMAIN lanes : lanes[a] = l] ELSE w[l]]

Nothing(n) == [l \in Lanes(n) |-> {}]
Value(ea, n) == Loaded(Whole(ea, n), Nothing(n))

Init ==
    /\ el \in BOOLEAN
    /\ mem \in [Addr -> Byte]
    /\ gpr \in [Regs -> Word(4)]
    /\ cpr1 \in [FpRegs -> Word(4)]
    /\ instr = [op |-> "none", ea |-> 0, rt |-> 0]

Load(ea, n, rt) ==
    /\ Span(ea, n) \subseteq Addr
    /\ UNCHANGED <<el, mem, cpr1>>
    /\ gpr' = [gpr EXCEPT ![rt] = SignExtended(Value(ea, n), n)]

LoadUnsigned(ea, n, rt) ==
    /\ Span(ea, n) \subseteq Addr
    /\ UNCHANGED <<el, mem, cpr1>>
    /\ \E fill \in Byte :
          /\ fill = {} \/ Negative(Value(ea, n), n)
          /\ gpr' = [gpr EXCEPT ![rt] = Extended(Value(ea, n), n, fill)]

LoadPart(lanes, rt) ==
    /\ UNCHANGED <<el, mem, cpr1>>
    /\ gpr' = [gpr EXCEPT ![rt] = Loaded(lanes, gpr[rt])]

Store(ea, n, rt) ==
    /\ Span(ea, n) \subseteq Addr
    /\ UNCHANGED <<el, gpr, cpr1>>
    /\ mem' = Stored(Whole(ea, n), gpr[rt])

StorePart(lanes, rt) ==
    /\ UNCHANGED <<el, gpr, cpr1>>
    /\ mem' = Stored(lanes, gpr[rt])

(* Every bit of the register is stored, but one that memory had may stay.  *)
StoreLeftWord(ea, rt) ==
    LET stored == Stored(Left(ea), gpr[rt]) IN
    /\ UNCHANGED <<el, gpr, cpr1>>
    /\ DOMAIN Left(ea) = Span(WordOf(ea), 4)
    /\ mem' \in [Addr -> Byte]
    /\ \A a \in Addr : stored[a] \subseteq mem'[a] /\ mem'[a] \subseteq stored[a] \cup mem[a]

StoreConditional(ea, rt) ==
    /\ Span(ea, 4) \subseteq Addr
    /\ UNCHANGED <<el, cpr1>>
    /\ mem' = Stored(Whole(ea, 4), gpr[rt])
    /\ gpr' = [gpr EXCEPT ![rt] = One]

LoadFp(ea, ft) ==
    /\ Span(ea, 4) \subseteq Addr
    /\ UNCHANGED <<el, mem, gpr>>
    /\ cpr1' = [cpr1 EXCEPT ![ft] = Value(ea, 4)]

(* A double is the register named, its low half, and the next one.         *)
LoadDouble(ea, ft) ==
    LET v == Value(ea, 8) IN
    /\ Span(ea, 8) \subseteq Addr /\ ft + 1 \in FpRegs
    /\ UNCHANGED <<el, mem, gpr>>
    /\ cpr1' = [cpr1 EXCEPT ![ft] = [l \in Lanes(4) |-> v[l]],
                            ![ft + 1] = [l \in Lanes(4) |-> v[l + 4]]]

StoreFp(ea, ft) ==
    /\ Span(ea, 4) \subseteq Addr
    /\ UNCHANGED <<el, gpr, cpr1>>
    /\ mem' = Stored(Whole(ea, 4), cpr1[ft])

StoreDouble(ea, ft) ==
    /\ Span(ea, 8) \subseteq Addr /\ ft + 1 \in FpRegs
    /\ UNCHANGED <<el, gpr, cpr1>>
    /\ mem' = Stored(Whole(ea, 8),
                     [l \in Lanes(8) |-> IF l < 4 THEN cpr1[ft][l] ELSE cpr1[ft + 1][l - 4]])

Next ==
    \/ \E ea \in Addr, rt \in Regs :
          \/ Executes("lb", ea, rt) /\ Load(ea, 1, rt)
          \/ Executes("lh", ea, rt) /\ Load(ea, 2, rt)
          \/ Executes("lw", ea, rt) /\ Load(ea, 4, rt)
          \/ Executes("lbu", ea, rt) /\ LoadUnsigned(ea, 1, rt)
          \/ Executes("lhu", ea, rt) /\ LoadUnsigned(ea, 2, rt)
          \/ Executes("sb", ea, rt) /\ Store(ea, 1, rt)
          \/ Executes("sh", ea, rt) /\ Store(ea, 2, rt)
          \/ Executes("sw", ea, rt) /\ Store(ea, 4, rt)
          \/ Executes("sc", ea, rt) /\ StoreConditional(ea, rt)
          \/ Executes("lwl", ea, rt) /\ LoadPart(Left(ea), rt)
          \/ Executes("lwr", ea, rt) /\ LoadPart(Right(ea), rt)
          \/ Executes("swl", ea, rt) /\ (StorePart(Left(ea), rt) \/ StoreLeftWord(ea, rt))
          \/ Executes("swr", ea, rt) /\ StorePart(Right(ea), rt)
    \/ \E ea \in Addr, ft \in FpRegs :
          \/ (Executes("lwc1", ea, ft) \/ Executes("lwxc1", ea, ft)) /\ LoadFp(ea, ft)
          \/ (Executes("ldc1", ea, ft) \/ Executes("ldxc1", ea, ft)) /\ LoadDouble(ea, ft)
          \/ Executes("swc1", ea, ft) /\ StoreFp(ea, ft)
          \/ Executes("sdc1", ea, ft) /\ StoreDouble(ea, ft)

Spec == Init /\ [][Next]_avars
=============================================================================
