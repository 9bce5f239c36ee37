----------------------------- MODULE MCDecoder -----------------------------
(***************************************************************************)
(* Every opcode, every function of the opcodes that have functions, with   *)
(* every format and some registers, at the end of a region and of memory.  *)
(***************************************************************************)
EXTENDS Decoder

WithFunct == {0, 16, 17, 18, 19, 28, 31}
Formats == {0, 2, 4, 6, 8, 16, 17, 20, 31}
Fields == {<<0, 0, 0>>, <<1, 9, 24>>, <<2, 3, 16>>, <<3, 17, 16>>, <<6, 8, 0>>, <<17, 31, 24>>}

MCInstructions ==
    {[op |-> o, rs |-> s, rt |-> q[1], rd |-> q[2], sa |-> q[3], funct |-> f] :
        o \in WithFunct, s \in Formats, q \in Fields, f \in 0 .. 63}
    \cup {[op |-> o, rs |-> s, rt |-> q[1], rd |-> q[2], sa |-> q[3], funct |-> f] :
        o \in (0 .. 63) \ WithFunct, s \in {0, 31}, q \in Fields, f \in {0, 63}}
MCPcs == {0, 2^26 - 1, 2^30 - 1}
=============================================================================
