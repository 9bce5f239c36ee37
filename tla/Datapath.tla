------------------------------ MODULE Datapath ------------------------------
(***************************************************************************)
(* The instructions of profileMips.cc that compute on registers: integer   *)
(* arithmetic and logic, multiply and divide, bit fields, and the          *)
(* floating-point unit's moves, comparisons and operations.  One disjunct  *)
(* per opcode; the program is a straight line of instructions.             *)
(*                                                                         *)
(* Words have W bits and are numbers 0 .. 2^W - 1.  The bytes of seb, the  *)
(* half-words of seh and the immediates have W \div 4 and W \div 2.  A     *)
(* single is a word, a double two words in registers r and r + 1; what the *)
(* host computes on them are the operators Host... .                       *)
(***************************************************************************)
EXTENDS Integers, Sequences, FiniteSetsExt

CONSTANTS
    W,              \* bits of a word, 32
    Regs,           \* general registers, 0 .. 31
    FpRegs,         \* floating-point registers, 0 .. 31
    Programs,       \* the straight lines a run may execute
    InitRegs,       \* the values general registers may start with
    InitFp,         \* the values floating-point registers may start with
    HostOp(_, _, _),        \* + - * / abs neg sqrt on singles and doubles
    HostLess(_, _), HostEqual(_, _), HostMax(_), HostOne(_),
    HostConvert(_, _)       \* a value to format "s", "d" or "w"

ASSUME WAssumption == W \in Nat \ {0} /\ W % 4 = 0

VARIABLES
    todo,           \* instructions still to execute
    gpr, hi, lo, cpr0, cpr1,
    cc,             \* the one bits of fcr1[CP1_CR25], the condition codes
    status,         \* "running", or "exited" by exit(-1) or a host trap
    start           \* the program and the registers it started with: history
regs == <<gpr, hi, lo, cpr0, cpr1, cc>>
vars == <<todo, regs, status, start>>

M == 2^W
Words == 0 .. M - 1
Wrap(x) == x % M
Signed(x) == IF 2 * x >= M THEN x - M ELSE x
SignedPart(x, n) == IF 2 * (x % 2^n) >= 2^n THEN (x % 2^n) - 2^n ELSE x % 2^n
Truth(p) == IF p THEN 1 ELSE 0

Bits(x) == {b \in 0 .. W - 1 : (x \div 2^b) % 2 = 1}
Number(S) == MapThenSumSet(LAMBDA b : 2^b, S)
And(x, y) == Number(Bits(x) \cap Bits(y))
Or(x, y) == Number(Bits(x) \cup Bits(y))
Xor(x, y) == Number((Bits(x) \ Bits(y)) \cup (Bits(y) \ Bits(x)))
Not(x) == M - 1 - x

Sll(x, k) == Wrap(x * 2^k)
Srl(x, k) == x \div 2^k
Sra(x, k) == Wrap(Signed(x) \div 2^k)

(* Variant for the mutants: the zeroes are counted from the wrong bit.     *)
ClzFromTop(x) == IF x = 0 THEN W ELSE W - Max(Bits(x))

Clz(x) == IF x = 0 THEN W ELSE W - 1 - Max(Bits(x))

(* (1 << size) - 1: a shift by W bits is undefined and its result, on a    *)
(* shifter that takes the amount modulo W or on a wider one, 1 or 0.       *)
FieldMasks(size) == IF size = W THEN {0, M - 1} ELSE {2^size - 1}

(* The accumulator of madd, maddu and msub: lo is converted to 64 bits     *)
(* with its sign, which then covers hi.                                    *)
Accumulator == IF Signed(lo) < 0 THEN Signed(lo) % M^2 ELSE hi * M + lo

-----------------------------------------------------------------------------
Init ==
    /\ gpr \in InitRegs /\ cpr1 \in InitFp
    /\ \E p \in Programs : todo = p.code /\ start = [program |-> p, gpr |-> gpr]
    /\ hi = 0 /\ lo = 0
    /\ cpr0 = [r \in Regs |-> 0]
    /\ cc = {}
    /\ status = "running"

(* The instruction i, with opcode op, is next.                             *)
Executes(i, op) ==
    /\ status = "running"
    /\ i.op = op
    /\ todo' = Tail(todo)
    /\ UNCHANGED start

Sets(i, op, r, v) ==
    /\ Executes(i, op)
    /\ gpr' = [gpr EXCEPT ![r] = v]
    /\ UNCHANGED <<hi, lo, cpr0, cpr1, cc, status>>

SetsHiLo(i, op, h, l) ==
    /\ Executes(i, op)
    /\ hi' = h /\ lo' = l
    /\ UNCHANGED <<gpr, cpr0, cpr1, cc, status>>

(* A 64-bit result is split in the two registers.                          *)
SetsProduct(i, op, y) == SetsHiLo(i, op, (y % M^2) \div M, y % M)

(* exit(-1), and a division the host traps on.                             *)
Dies(i, op) ==
    /\ Executes(i, op)
    /\ status' = "exited"
    /\ UNCHANGED regs

Nop(i, op) ==
    /\ Executes(i, op)
    /\ UNCHANGED <<regs, status>>

-----------------------------------------------------------------------------
(* execMips, R-type.                                                       *)
Shift(i) ==
    LET x == gpr[i.s] y == gpr[i.t] IN
    \/ Sets(i, "sll", i.d, Sll(y, i.k))
    \/ Sets(i, "srl", i.d, Srl(y, i.k))
    \/ Sets(i, "sra", i.d, Sra(y, i.k))
    \/ Sets(i, "sllv", i.d, Sll(y, x % W))
    \/ Sets(i, "srlv", i.d, Srl(y, x % W))
    \/ Sets(i, "srav", i.d, Sra(y, x % W))

Arithmetic(i) ==
    LET x == gpr[i.s] y == gpr[i.t] IN
    \/ Sets(i, "add", i.d, Wrap(x + y))
    \/ Sets(i, "addu", i.d, Wrap(x + y))
    \/ Sets(i, "subu", i.d, Wrap(x - y))
    \/ Sets(i, "and", i.d, And(x, y))
    \/ Sets(i, "or", i.d, Or(x, y))
    \/ Sets(i, "xor", i.d, Xor(x, y))
    \/ Sets(i, "nor", i.d, Not(Or(x, y)))
    \/ Sets(i, "slt", i.d, Truth(Signed(x) < Signed(y)))
    \/ Sets(i, "sltu", i.d, Truth(x < y))
    \/ Sets(i, "movn", i.d, IF y # 0 THEN x ELSE gpr[i.d])
    \/ Sets(i, "movz", i.d, IF y = 0 THEN x ELSE gpr[i.d])
    \/ Dies(i, "sub")
    \/ x = y /\ Dies(i, "teq")
    \/ x # y /\ Nop(i, "teq")
    \/ Nop(i, "sync")

Divide(i) ==
    LET x == gpr[i.s] y == gpr[i.t]
        Overflow == Signed(x) = -(M \div 2) /\ Signed(y) = -1
        Quotient == LET q == (IF Signed(x) < 0 THEN -Signed(x) ELSE Signed(x))
                               \div (IF Signed(y) < 0 THEN -Signed(y) ELSE Signed(y))
                    IN  IF (Signed(x) < 0) = (Signed(y) < 0) THEN q ELSE -q
    IN  \/ y = 0 /\ Nop(i, "div")
        \/ y # 0 /\ SetsHiLo(i, "div", Wrap(Signed(x) - Quotient * Signed(y)), Wrap(Quotient))
        \/ Overflow /\ Dies(i, "div")
        \/ y = 0 /\ Nop(i, "divu")
        \/ y # 0 /\ SetsHiLo(i, "divu", x % y, x \div y)

(* Variant for the mutants: the low word of multu keeps its sign.          *)
MultiplySigned(i) ==
    LET x == gpr[i.s] y == gpr[i.t] IN
    \/ SetsProduct(i, "mult", Signed(x) * Signed(y))
    \/ SetsProduct(i, "multu", Signed(x) * y)
    \/ SetsHiLo(i, "mthi", x, lo)
    \/ SetsHiLo(i, "mtlo", hi, x)
    \/ Sets(i, "mfhi", i.d, hi)
    \/ Sets(i, "mflo", i.d, lo)

Multiply(i) ==
    LET x == gpr[i.s] y == gpr[i.t] IN
    \/ SetsProduct(i, "mult", Signed(x) * Signed(y))
    \/ SetsProduct(i, "multu", x * y)
    \/ SetsHiLo(i, "mthi", x, lo)
    \/ SetsHiLo(i, "mtlo", hi, x)
    \/ Sets(i, "mfhi", i.d, hi)
    \/ Sets(i, "mflo", i.d, lo)

(* execSpecial2.                                                           *)
Special2(i) ==
    LET x == gpr[i.s] y == gpr[i.t] IN
    \/ SetsProduct(i, "madd", Accumulator + Signed(x) * Signed(y))
    \/ SetsProduct(i, "maddu", Accumulator + x * y)
    \/ SetsProduct(i, "msub", Accumulator - Signed(x) * Signed(y))
    \/ Sets(i, "mul", i.d, Wrap(Signed(x) * Signed(y)))
    \/ Sets(i, "clz", i.d, Clz(x))

(* execSpecial3: k is the position of the field and n its size; ext names  *)
(* the size, ins the last bit, from which it computes the size.            *)
Special3(i) ==
    LET x == gpr[i.s] y == gpr[i.t] IN
    \/ Sets(i, "seb", i.d, Wrap(SignedPart(y, W \div 4)))
    \/ Sets(i, "seh", i.d, Wrap(SignedPart(y, W \div 2)))
    \/ \E mask \in FieldMasks(i.n) : Sets(i, "ext", i.t, And(Sra(x, i.k), mask))
    \/ \E mask \in FieldMasks(i.n) :
          Sets(i, "ins", i.t, Or(And(y, Not(Sll(mask, i.k))), Sll(And(x, mask), i.k)))

(* execMips, I-type; k is the immediate.                                   *)
Immediate(i) ==
    LET x == gpr[i.s]
        simm == SignedPart(i.k, W \div 2)
    IN  \/ Sets(i, "addi", i.t, Wrap(x + simm))
        \/ Sets(i, "addiu", i.t, Wrap(x + simm))
        \/ Sets(i, "slti", i.t, Truth(Signed(x) < simm))
        \/ Sets(i, "sltiu", i.t, Truth(x < Wrap(simm)))
        \/ Sets(i, "andi", i.t, And(x, i.k))
        \/ Sets(i, "ori", i.t, Or(x, i.k))
        \/ Sets(i, "xori", i.t, Xor(x, i.k))
        \/ Sets(i, "lui", i.t, Sll(i.k, W \div 2))

Coproc0(i) ==
    \/ Sets(i, "mfc0", i.t, cpr0[i.d])
    \/ /\ Executes(i, "mtc0")
       /\ cpr0' = [cpr0 EXCEPT ![i.d] = gpr[i.t]]
       /\ UNCHANGED <<gpr, hi, lo, cpr1, cc, status>>

-----------------------------------------------------------------------------
(* Coprocessor 1.  A value of a format is the sequence of its words.       *)
Size(fmt) == IF fmt = "d" THEN 2 ELSE 1
Fp(fmt, r) == [n \in 1 .. Size(fmt) |-> cpr1[r + n - 1]]
WithFp(r, v) == [q \in FpRegs |-> IF q \in r .. r + Len(v) - 1 THEN v[q - r + 1] ELSE cpr1[q]]

SetsFp(i, op, v) ==
    /\ Executes(i, op)
    /\ cpr1' = WithFp(i.d, v)
    /\ UNCHANGED <<gpr, hi, lo, cpr0, cc, status>>

COND_UN == 1
COND_EQ == 2
COND_LT == 12
COND_LE == 14

(* setBit, which clears the bit and sets it again under a mask of v - 1,   *)
(* 32 bits wide: v is 0 or 1.                                              *)
SetBit(word, v, b) == (word \ {b}) \cup (IF v THEN {b} ELSE {})

(* Variant for the mutants: setBit starts from an empty word.              *)
SetsConditionAlone(i, cond, v) ==
    /\ Executes(i, "c") /\ i.n = cond
    /\ cc' = SetBit({}, v, i.k)
    /\ UNCHANGED <<gpr, hi, lo, cpr0, cpr1, status>>

SetsCondition(i, cond, v) ==
    /\ Executes(i, "c") /\ i.n = cond
    /\ cc' = SetBit(cc, v, i.k)
    /\ UNCHANGED <<gpr, hi, lo, cpr0, cpr1, status>>

(* fpCmp<T>: un is computed as eq.                                         *)
Compare(i) ==
    LET a == Fp(i.fmt, i.s) b == Fp(i.fmt, i.t) IN
    \/ SetsCondition(i, COND_UN, HostEqual(a, b))
    \/ SetsCondition(i, COND_EQ, HostEqual(a, b))
    \/ SetsCondition(i, COND_LT, HostLess(a, b))
    \/ SetsCondition(i, COND_LE, HostLess(a, b) \/ HostEqual(a, b))
    \/ i.n \notin {COND_UN, COND_EQ, COND_LT, COND_LE} /\ Dies(i, "c")

(* execFP<T, op>.                                                          *)
FpArithmetic(i) ==
    LET a == Fp(i.fmt, i.s) b == Fp(i.fmt, i.t)
        Zero == [n \in 1 .. Size(i.fmt) |-> 0]
    IN  \/ \E op \in {"fadd", "fsub", "fmul", "fabs", "fneg", "fsqrt"} :
              SetsFp(i, op, HostOp(op, a, b))
        \/ SetsFp(i, "fmov", a)
        \/ SetsFp(i, "fdiv", IF HostEqual(b, Zero) THEN HostMax(i.fmt) ELSE HostOp("fdiv", a, b))
        \/ SetsFp(i, "frecip", HostOp("fdiv", HostOne(i.fmt), a))
        \/ SetsFp(i, "frsqrt", HostOp("fdiv", HostOne(i.fmt), HostOp("fsqrt", a, a)))
        \/ \E op \in {"fmadd", "fmsub"} :                             \* c1xExec<T>, fr is register n
              SetsFp(i, op, HostOp(IF op = "fmadd" THEN "fadd" ELSE "fsub",
                                   HostOp("fmul", a, b), Fp(i.fmt, i.n)))

(* _cvts, _cvtd, _truncw; _truncl gives up.                                *)
FpConvert(i) ==
    \/ i.fmt \in {"d", "w"} /\ SetsFp(i, "cvts", HostConvert("s", Fp(i.fmt, i.s)))
    \/ i.fmt \in {"s", "w"} /\ SetsFp(i, "cvtd", HostConvert("d", Fp(i.fmt, i.s)))
    \/ SetsFp(i, "truncw", HostConvert("w", Fp(i.fmt, i.s)))
    \/ Dies(i, "truncl")

FpMoveIf(i, op, p) == SetsFp(i, op, IF p THEN Fp(i.fmt, i.s) ELSE Fp(i.fmt, i.d))

(* _fmovc (_movcs, _movcd), _fmovz, _fmovn; n is the tested value of cc k. *)
FpMove(i) ==
    \/ FpMoveIf(i, "fmovc", (i.k \in cc) = (i.n = 1))
    \/ FpMoveIf(i, "fmovz", gpr[i.t] = 0)
    \/ FpMoveIf(i, "fmovn", gpr[i.t] # 0)
    \/ SetsFp(i, "mtc1", <<gpr[i.t]>>)
    \/ Sets(i, "mfc1", i.t, cpr1[i.s])
    \/ Sets(i, "movci", i.d, IF (i.k \in cc) = (i.n = 1) THEN gpr[i.s] ELSE gpr[i.d])

Next ==
    /\ todo # << >>
    /\ \E i \in {Head(todo)} :
          \/ Shift(i) \/ Arithmetic(i) \/ Divide(i) \/ Multiply(i)
          \/ Special2(i) \/ Special3(i) \/ Immediate(i) \/ Coproc0(i)
          \/ Compare(i) \/ FpArithmetic(i) \/ FpConvert(i) \/ FpMove(i)

Spec == Init /\ [][Next]_vars

-----------------------------------------------------------------------------
DpTypeOK ==
    /\ gpr \in [Regs -> Words]
    /\ {hi, lo} \subseteq Words
    /\ cpr0 \in [Regs -> Words] /\ cpr1 \in [FpRegs -> Words]
    /\ cc \subseteq 0 .. 7
    /\ status \in {"running", "exited"}
=============================================================================
