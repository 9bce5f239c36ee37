--------------------------- MODULE CompilerIdioms ---------------------------
(***************************************************************************)
(* Sequences of instructions compilers rely on, and what each must have    *)
(* computed when it ends.  A sequence is right only if every instruction   *)
(* in it is and if they agree on the registers, the accumulator and the    *)
(* condition codes they pass each other.                                   *)
(*                                                                         *)
(* Operands: x in $1 and y in $2; $0 is zero; results in $3 and $4.        *)
(***************************************************************************)
EXTENDS Datapath

Instr(op, d, s, t, k, n, fmt) == [op |-> op, d |-> d, s |-> s, t |-> t, k |-> k, n |-> n, fmt |-> fmt]
R(op, d, s, t) == Instr(op, d, s, t, 0, 0, "w")             \* op d, s, t
Sh(op, d, t, k) == Instr(op, d, 0, t, k, 0, "w")            \* op d, t, k
Im(op, t, s, k) == Instr(op, 0, s, t, k, 0, "w")            \* op t, s, k
Field(op, t, s, k, n) == Instr(op, 0, s, t, k, n, "w")      \* op t, s, position, size
F(op, fmt, d, s, t) == Instr(op, d, s, t, 0, 0, fmt)        \* op.fmt d, s, t
Cmp(cond, fmt, k, s, t) == Instr("c", 0, s, t, k, cond, fmt)    \* c.cond.fmt k, s, t
If(op, fmt, d, s, t, k, n) == Instr(op, d, s, t, k, n, fmt) \* move d, s if cc k is n

Program(kind, k, n, code) == [kind |-> kind, k |-> k, n |-> n, code |-> code]
H == W \div 2
Half == 0 .. 2^H - 1
Fields == {f \in (0 .. W - 1) \X (1 .. W) : f[1] + f[2] <= W}

-----------------------------------------------------------------------------
(* Integer programs.                                                       *)
WordPrograms ==
    {Program("add_wide", 0, 0, <<R("addu", 3, 1, 2), R("sltu", 4, 3, 1), R("sync", 0, 0, 0)>>),
     Program("sub_wide", 0, 0, <<R("sltu", 4, 1, 2), R("subu", 3, 1, 2)>>),
     Program("absolute", 0, 0, <<Sh("sra", 3, 1, W - 1), R("xor", 4, 1, 3), R("subu", 3, 4, 3)>>),
     Program("negate", 0, 0, <<R("nor", 3, 1, 0), Im("addi", 3, 3, 1), R("add", 4, 3, 1)>>),
     Program("minimum", 0, 0, <<R("slt", 4, 1, 2), R("or", 3, 2, 0), R("movn", 3, 1, 4)>>),
     Program("maximum", 0, 0, <<R("slt", 4, 1, 2), R("or", 3, 2, 0), R("movz", 3, 1, 4)>>),
     Program("rotate", 0, 0, <<R("sllv", 3, 2, 1), R("subu", 4, 0, 2), R("srlv", 4, 4, 1), R("or", 3, 3, 4)>>),
     Program("sign_fill", 0, 0, <<R("srav", 3, 2, 1), R("sllv", 3, 2, 3), R("subu", 4, 1, 3)>>),
     Program("normalize", 0, 0, <<R("clz", 4, 1, 0), R("sllv", 3, 4, 1)>>),
     Program("status", 0, 0, <<R("mtc0", 1, 0, 1), R("mtc0", 2, 0, 2), R("mfc0", 1, 0, 3), R("mfc0", 2, 0, 4)>>),
     Program("sub", 0, 0, <<R("sub", 3, 1, 2)>>)}
    \cup {Program("constant", k, n, <<Im("lui", 3, 0, k), Im("ori", 3, 3, n),
                                      Im("lui", 4, 0, (k + Truth(2 * n >= 2^H)) % 2^H), Im("addiu", 4, 4, n)>>) :
             k, n \in Half}
    \cup {Program("compare", k, 0, <<Im("slti", 3, 1, k), Im("sltiu", 4, 1, k)>>) : k \in Half}
    \cup {Program("mask", k, 0, <<Im("andi", 3, 1, k), Im("xori", 4, 3, k)>>) : k \in Half}

FieldPrograms ==
    {Program("half", 0, 0, <<Sh("sll", 3, 1, H), Sh("sra", 3, 3, H), R("seh", 4, 0, 1)>>),
     Program("byte", 0, 0, <<Sh("sll", 3, 1, W - (W \div 4)), Sh("sra", 3, 3, W - (W \div 4)), R("seb", 4, 0, 1)>>)}
    \cup {Program("extract", f[1], f[2], <<Sh("sll", 3, 1, W - f[1] - f[2]), Sh("srl", 3, 3, W - f[2]),
                                           Field("ext", 4, 1, f[1], f[2])>>) : f \in Fields}
    \cup {Program("insert", f[1], f[2], <<R("or", 3, 2, 0), Field("ins", 3, 1, f[1], f[2]),
                                          Field("ext", 4, 3, f[1], f[2])>>) : f \in Fields}

ProductPrograms ==
    {Program("square_sum", 0, 0, <<R("mult", 0, 1, 1), R("madd", 0, 2, 2), R("mfhi", 3, 0, 0), R("mflo", 4, 0, 0)>>),
     Program("dot", 0, 0, <<R("mult", 0, 1, 2), R("madd", 0, 1, 1), R("msub", 0, 2, 2)>>),
     Program("dot_unsigned", 0, 0, <<R("multu", 0, 1, 2), R("maddu", 0, 1, 1)>>),
     Program("fits", 0, 0, <<R("mult", 0, 1, 2), R("mul", 3, 1, 2), Sh("sra", 3, 3, W - 1), R("mfhi", 4, 0, 0)>>),
     Program("remainder", 0, 0, <<R("teq", 0, 2, 0), R("div", 0, 1, 2), R("mflo", 3, 0, 0), R("mul", 3, 3, 2),
                                  R("subu", 3, 1, 3), R("mfhi", 4, 0, 0)>>),
     Program("remainder_unsigned", 0, 0, <<R("divu", 0, 1, 2), R("mflo", 3, 0, 0), R("mul", 3, 3, 2),
                                           R("subu", 3, 1, 3), R("mfhi", 4, 0, 0)>>),
     Program("guarded", 0, 0, <<R("mthi", 0, 1, 0), R("mtlo", 0, 2, 0), R("div", 0, 1, 0)>>),
     Program("saved", 0, 0, <<R("multu", 0, 1, 2), R("mfhi", 3, 0, 0), R("mflo", 4, 0, 0), R("mult", 0, 2, 2),
                              R("mthi", 0, 3, 0), R("mtlo", 0, 4, 0)>>)}

-----------------------------------------------------------------------------
(* Floating-point programs: x and y enter $f0 and $f2, or the two halves   *)
(* of a double.                                                            *)
Enter == <<R("mtc1", 0, 0, 1), R("mtc1", 2, 0, 2)>>
EnterDouble == <<R("mtc1", 0, 0, 1), R("mtc1", 1, 0, 2)>>
LeaveDouble == <<R("mfc1", 0, 2, 3), R("mfc1", 0, 3, 4)>>

Copies ==       \* ways to copy the double in $f0 to $f2
    {<<F("fmov", "d", 2, 0, 0)>>,
     <<If("fmovz", "d", 2, 0, 0, 0, 0)>>,
     <<Im("ori", 3, 0, 1), If("fmovn", "d", 2, 0, 3, 0, 0)>>,
     <<Cmp(COND_EQ, "d", 3, 0, 0), If("fmovc", "d", 2, 0, 0, 3, 1)>>,
     <<Cmp(COND_LT, "d", 3, 0, 0), If("fmovc", "d", 2, 0, 0, 3, 0)>>,
     <<F("fneg", "d", 2, 0, 0), F("fneg", "d", 2, 2, 0)>>}

FpPrograms ==
    {Program("copy", 0, 0, EnterDouble \o c \o LeaveDouble) : c \in Copies}
    \cup
    {Program("select", 0, 0, Enter \o <<Cmp(COND_LT, "s", 1, 0, 2), Cmp(COND_EQ, "s", 2, 0, 2),
                                        If("movci", "w", 3, 1, 0, 1, 1), If("movci", "w", 4, 2, 0, 2, 0)>>),
     Program("fp_minimum", 0, 0, Enter \o <<Cmp(COND_LE, "s", 5, 0, 2), Cmp(COND_UN, "s", 4, 2, 2),
                                            If("fmovc", "s", 2, 0, 0, 5, 1), R("mfc1", 0, 2, 3)>>),
     Program("keep", 0, 0, Enter \o <<If("fmovz", "s", 2, 0, 1, 0, 0), If("fmovn", "s", 2, 0, 0, 0, 0),
                                      R("mfc1", 0, 2, 3)>>),
     Program("to_double", 0, 0, Enter \o <<F("cvtd", "w", 2, 0, 0), F("truncw", "d", 2, 2, 0), R("mfc1", 0, 2, 3),
                                           F("cvts", "w", 0, 0, 0), F("cvtd", "s", 2, 0, 0), F("cvts", "d", 2, 2, 0),
                                           F("truncw", "s", 2, 2, 0), R("mfc1", 0, 2, 4)>>),
     Program("divide", 0, 0, Enter \o <<F("fdiv", "s", 0, 0, 2), R("mfc1", 0, 0, 3)>>),
     Program("fused", 0, 0, Enter \o <<If("fmadd", "s", 1, 0, 2, 0, 2), F("fmul", "s", 0, 0, 2), F("fadd", "s", 0, 0, 2),
                                       R("mfc1", 0, 1, 3), R("mfc1", 0, 0, 4)>>),
     Program("fused", 0, 0, Enter \o <<If("fmsub", "s", 1, 0, 2, 0, 2), F("fmul", "s", 0, 0, 2), F("fsub", "s", 0, 0, 2),
                                       R("mfc1", 0, 1, 3), R("mfc1", 0, 0, 4)>>),
     Program("fused", 0, 0, Enter \o <<F("fsqrt", "s", 1, 0, 0), F("frecip", "s", 1, 1, 0), F("frsqrt", "s", 0, 0, 0),
                                       R("mfc1", 0, 1, 3), R("mfc1", 0, 0, 4)>>),
     Program("fused", 0, 0, Enter \o <<F("fabs", "s", 1, 0, 0), F("fneg", "s", 3, 0, 0), F("fabs", "s", 0, 3, 0),
                                       R("mfc1", 0, 1, 3), R("mfc1", 0, 0, 4)>>),
     Program("ngt", 0, 0, Enter \o <<Cmp(15, "s", 0, 0, 2)>>),
     Program("truncl", 0, 0, Enter \o <<F("truncl", "s", 0, 0, 0)>>)}

AllPrograms == WordPrograms \cup FieldPrograms \cup ProductPrograms \cup FpPrograms

-----------------------------------------------------------------------------
X == start.gpr[1]
Y == start.gpr[2]
K == start.program.k
N == start.program.n
Done(kind) == start.program.kind = kind /\ todo = << >> /\ status = "running"

(* Additions and subtractions of two words, rotations, selections and      *)
(* constants built by execMips's R-type and I-type cases (profileMips.cc   *)
(* 1349-1542 and 1606-1655).                                               *)
WordIdioms ==
    /\ Done("add_wide") => X + Y = gpr[4] * M + gpr[3]
    /\ Done("sub_wide") => X - Y = gpr[3] - gpr[4] * M
    /\ Done("absolute") => gpr[3] = Wrap(IF Signed(X) < 0 THEN -Signed(X) ELSE Signed(X))
    /\ Done("negate") => gpr[3] = Wrap(-X) /\ gpr[4] = 0
    /\ Done("minimum") => Signed(gpr[3]) = Min({Signed(X), Signed(Y)})
    /\ Done("maximum") => Signed(gpr[3]) = Max({Signed(X), Signed(Y)})
    /\ Done("rotate") => Bits(gpr[3]) = {(b + Y) % W : b \in Bits(X)}
    /\ Done("sign_fill") => gpr[4] = X % 2^(Y % W)
    /\ Done("normalize") /\ X # 0 => 2 * gpr[3] >= M /\ gpr[3] = X * 2^gpr[4]
    /\ Done("status") => gpr[3] = X /\ gpr[4] = Y
    /\ Done("constant") => gpr[3] = K * 2^H + N /\ gpr[4] = gpr[3]
    /\ Done("compare") => LET c == SignedPart(K, H) IN
                          /\ gpr[3] = Truth(Signed(X) < c)
                          /\ gpr[4] = Truth(X < Wrap(c))
    /\ Done("mask") => gpr[3] + gpr[4] = K
    /\ ~ Done("sub")

(* Bit fields and extensions of execSpecial3 (219-258) agree with pairs of *)
(* shifts, and ext finds what ins put; a field of the whole word excepted. *)
FieldIdioms ==
    /\ Done("half") => gpr[3] = gpr[4] /\ Signed(gpr[3]) = SignedPart(X, H)
    /\ Done("byte") => gpr[3] = gpr[4] /\ Signed(gpr[3]) = SignedPart(X, W \div 4)
    /\ Done("extract") /\ N < W => gpr[3] = gpr[4] /\ gpr[4] = (X \div 2^K) % 2^N
    /\ Done("insert") /\ N < W => /\ gpr[4] = X % 2^N
                                  /\ Bits(gpr[3]) \ (K .. K + N - 1) = Bits(Y) \ (K .. K + N - 1)

(* What integer instructions compute together: registers stay words, and   *)
(* the sequences of words and of fields end in the values they are for.    *)
IntegerIdioms == DpTypeOK /\ WordIdioms /\ FieldIdioms

(* The accumulator hi, lo holds exact products, quotients and sums across  *)
(* instructions, as long as no sum is added to a negative lo: execSpecial2 *)
(* (166-167, 181-182, 197-198) spreads its sign over hi.                   *)
Acc == hi * M + lo
LowWord(z) == z % M
Nonnegative(z) == Signed(LowWord(z)) >= 0
ProductIdioms ==
    LET x == Signed(X) y == Signed(Y) IN
    /\ Done("square_sum") /\ Nonnegative(x * x) => Acc = (x * x + y * y) % M^2 /\ gpr[3] = hi /\ gpr[4] = lo
    /\ Done("dot") /\ Nonnegative(x * y) /\ Nonnegative(x * y + x * x) => Acc = (x * y + x * x - y * y) % M^2
    /\ Done("dot_unsigned") /\ Nonnegative(X * Y) => Acc = (X * Y + X * X) % M^2
    /\ Done("fits") => (gpr[3] = gpr[4]) = (x * y \in -(M \div 2) .. (M \div 2) - 1)
    /\ Done("remainder") => gpr[3] = gpr[4] /\ Y # 0 /\ (lo # 0 => Signed(hi) * x >= 0)
    /\ Done("remainder_unsigned") /\ Y # 0 => gpr[3] = gpr[4] /\ hi < Y
    /\ Done("guarded") => hi = X /\ lo = Y
    /\ Done("saved") => Acc = X * Y

(* A condition code keeps its comparison until the next one to the same    *)
(* code (fpCmp, 1087-1119, setBit), moves take both halves of a double     *)
(* (_movnd to _movcs, 903-975), and conversions of a word come back.       *)
FpIdioms ==
    LET a == <<X>> b == <<Y>> IN
    /\ Done("copy") /\ HostEqual(<<X, Y>>, <<X, Y>>) => gpr[3] = X /\ gpr[4] = Y
    /\ Done("select") => /\ gpr[3] = IF HostLess(a, b) THEN X ELSE 0
                         /\ gpr[4] = IF HostEqual(a, b) THEN 0 ELSE Y
    /\ Done("fp_minimum") => gpr[3] = IF HostLess(a, b) \/ HostEqual(a, b) THEN X ELSE Y
    /\ Done("keep") => gpr[3] = IF X = 0 THEN X ELSE Y
    /\ Done("to_double") => gpr[3] = X /\ gpr[4] = X
    /\ Done("divide") /\ HostEqual(b, <<0>>) => <<gpr[3]>> = HostMax("s")
    /\ Done("fused") => gpr[3] = gpr[4]
    /\ ~ Done("ngt") /\ ~ Done("truncl")
=============================================================================
