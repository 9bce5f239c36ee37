----------------------------- MODULE MCDatapath -----------------------------
(***************************************************************************)
(* Words of four bits, every pair of operands, every program.  The host's  *)
(* floating point is a toy with a value unequal to itself, on which        *)
(* conversions of words are exact.                                         *)
(***************************************************************************)
EXTENDS CompilerIdioms

MCRegs == 0 .. 4
MCFpRegs == 0 .. 3
MCInitRegs == {[r \in MCRegs |-> CASE r = 1 -> x [] r = 2 -> y [] OTHER -> 0] : x, y \in Words}
MCInitFp == {[r \in MCFpRegs |-> 0]}

(* A single is a small integer or NaN; a double is one with the low word   *)
(* first.  Bit patterns and values correspond.                             *)
NaN(v) == Len(v) = 2 /\ v = <<5, 9>>
Val(v) == IF Len(v) = 1 THEN Signed(v[1])
          ELSE LET z == v[2] * M + v[1] IN IF 2 * z >= M^2 THEN z - M^2 ELSE z
Rep(n, z) == IF n = 1 THEN <<z % M>> ELSE <<z % M, (z % M^2) \div M>>
MCHostEqual(v, w) == ~NaN(v) /\ ~NaN(w) /\ Val(v) = Val(w)
MCHostLess(v, w) == ~NaN(v) /\ ~NaN(w) /\ Val(v) < Val(w)
MCHostOp(op, v, w) ==
    Rep(Len(v), CASE op = "fadd" -> Val(v) + Val(w)
                  [] op = "fsub" -> Val(v) - Val(w)
                  [] op = "fmul" -> Val(v) * Val(w)
                  [] op = "fdiv" -> 3 * Val(v) + Val(w)
                  [] op = "fneg" -> -Val(v)
                  [] op = "fabs" -> IF Val(v) < 0 THEN -Val(v) ELSE Val(v)
                  [] op = "fsqrt" -> Val(v) + 2)
MCHostMax(fmt) == IF fmt = "d" THEN <<M - 1, (M \div 2) - 1>> ELSE <<(M \div 2) - 1>>
MCHostOne(fmt) == IF fmt = "d" THEN <<1, 0>> ELSE <<1>>
MCHostConvert(fmt, v) == Rep(IF fmt = "d" THEN 2 ELSE 1, Val(v))
=============================================================================
