------------------------------ MODULE MCMemory ------------------------------
(***************************************************************************)
(* Two words of memory and bytes of two bits, the sign and another: enough *)
(* for an unaligned word, a double, and bytes of either sign.  The first   *)
(* memory names its bytes apart as well as two bits can; in both, lanes    *)
(* that hold a one meet register lanes that do not.                        *)
(***************************************************************************)
EXTENDS Memory

MCAddr == 0 .. 7
S == {SignBit}
U == {UnitBit}
B == ByteBits

MCInitMem ==
    {[a \in MCAddr |-> CASE a \in {0, 5} -> U [] a \in {1, 7} -> S [] a \in {2, 4} -> B [] OTHER -> {}],
     [a \in MCAddr |-> IF a % 2 = 0 THEN S ELSE U]}
MCInitReg ==
    {[l \in Lanes(4) |-> CASE l = 0 -> S [] l = 1 -> {} [] l = 2 -> U [] l = 3 -> B]}
=============================================================================
