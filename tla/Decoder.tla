------------------------------ MODULE Decoder ------------------------------
(***************************************************************************)
(* Two decoders of one instruction set: the switches execMips runs an      *)
(* instruction by (profileMips.cc) and the tables getAsmString lists it by *)
(* in the report (parseMips.cc).                                           *)
(*                                                                         *)
(* An instruction is the record of its fields.  What a decoder makes of it *)
(* is a name, a format, and its operands: pairs of a kind and a number,    *)
(* where "r", "f", "fcc" and "cp0" are registers, "imm" a number, "cond" a *)
(* comparison and "to" a target.  Addresses count words.  Spelling and     *)
(* punctuation are left out.                                               *)
(***************************************************************************)
EXTENDS Integers, SequencesExt

CONSTANTS
    NWords,         \* words of the address space, 2^30
    RegionWords,    \* words a jump reaches, 2^26
    Instructions, Pcs, ByteOrders      \* what a run may fetch, and from where

ASSUME DecoderAssumption ==
    /\ NWords \in Nat \ {0} /\ RegionWords \in Nat \ {0} /\ Pcs \subseteq Nat
    /\ Instructions \subseteq
          [op : 0 .. 63, rs : 0 .. 31, rt : 0 .. 31, rd : 0 .. 31, sa : 0 .. 31, funct : 0 .. 63]

VARIABLES
    isMipsEL, inst, pc,
    ran,            \* what execMips made of inst
    handed,         \* the word dump_histo gives to getAsmString
    shown           \* and what that made of it
decodeVars == <<isMipsEL, inst, pc, ran, handed, shown>>

NotYet == [name |-> "-", fmt |-> "-", args |-> << >>]
Exits == [name |-> "exit", fmt |-> "-", args |-> << >>]
Of(name, args) == [name |-> name, fmt |-> "-", args |-> args]

SignExtended(n) == IF n >= 32768 THEN n - 65536 ELSE n
Uimm(i) == i.rd * 2048 + i.sa * 64 + i.funct
Simm(i) == SignExtended(Uimm(i))
Rs(i) == <<"r", i.rs>>
Rt(i) == <<"r", i.rt>>
Rd(i) == <<"r", i.rd>>
Ft(i) == <<"f", i.rt>>
Fs(i) == <<"f", i.rd>>
Fd(i) == <<"f", i.sa>>
Imm(n) == <<"imm", n>>

FormatOf(i) == CASE i.rs = 16 -> "s" [] i.rs = 17 -> "d" [] i.rs = 20 -> "w" [] OTHER -> "?"

(* The word with its bytes reversed.                                       *)
Reversed(i) ==
    LET b3 == i.op * 4 + i.rs \div 8
        b2 == (i.rs % 8) * 32 + i.rt
        b1 == i.rd * 8 + i.sa \div 4
        b0 == (i.sa % 4) * 64 + i.funct
    IN  [op |-> b0 \div 4, rs |-> (b0 % 4) * 8 + b1 \div 32, rt |-> b1 % 32,
         rd |-> b2 \div 8, sa |-> (b2 % 8) * 4 + b3 \div 64, funct |-> b3 % 64]

-----------------------------------------------------------------------------
(* The interpreter.  "-" is a code its switch gives up on.                 *)
RTypeSwitch == <<
    "sll", "movci", "srl", "sra", "sllv", "monitor", "srlv", "srav",
    "jr", "jalr", "movz", "movn", "-", "break", "-", "sync",
    "mfhi", "mthi", "mflo", "mtlo", "-", "-", "-", "-",
    "mult", "multu", "div", "divu", "-", "-", "-", "-",
    "add", "addu", "-", "subu", "and", "or", "xor", "nor",
    "-", "-", "slt", "sltu", "-", "-", "-", "-",
    "-", "-", "-", "-", "teq", "-", "-", "-",
    "-", "-", "-", "-", "-", "-", "-", "-">>

(* With ll and sc, which are tested for before the switch.                 *)
ITypeSwitch == <<
    "-", "regimm", "-", "-", "beq", "bne", "blez", "bgtz",
    "addi", "addiu", "slti", "sltiu", "andi", "ori", "xori", "lui",
    "-", "-", "-", "-", "beql", "bnel", "blezl", "bgtzl",
    "-", "-", "-", "-", "-", "-", "-", "-",
    "lb", "lh", "lwl", "lw", "lbu", "lhu", "lwr", "-",
    "sb", "sh", "swl", "sw", "-", "-", "swr", "-",
    "ll", "lwc1", "-", "-", "-", "ldc1", "-", "-",
    "sc", "swc1", "-", "-", "-", "sdc1", "-", "-">>

Regimm == <<"bltz", "bgez", "bltzl", "bgezl">>
Bc1 == <<"bc1f", "bc1t", "bc1fl", "bc1tl">>

Target(i) == <<"to", (Simm(i) + pc + 1) % NWords>>
JumpWords(i) == i.rs * 2^21 + i.rt * 2^16 + Uimm(i)
Region(a) == (a \div RegionWords) * RegionWords

JumpTarget(i) == <<"to", JumpWords(i) + Region((pc + 1) % NWords)>>

(* The fields each case of the R-type switch uses: what it writes first,   *)
(* then the operands in the order its expression takes them.               *)
RunsRType(i, name) ==
    CASE name = "-" -> Exits
      [] name \in {"sll", "srl", "sra"} -> Of(name, <<Rd(i), Rt(i), Imm(i.sa)>>)
      [] name = "movci" -> Of(name, <<<<"fcc", i.rt \div 4>>, Rd(i), Rs(i)>>)
      [] name = "monitor" ->
            Of(name, <<Imm((i.rs * 32768 + i.rt * 1024 + i.rd * 32 + i.sa) \div 2)>>)
      [] name \in {"jr", "jalr", "mthi", "mtlo"} -> Of(name, <<Rs(i)>>)
      [] name \in {"mfhi", "mflo"} -> Of(name, <<Rd(i)>>)
      [] name \in {"mult", "multu", "div", "divu", "teq"} -> Of(name, <<Rs(i), Rt(i)>>)
      [] name \in {"break", "sync"} -> Of(name, << >>)
      [] name \in {"sllv", "srlv", "srav"} -> Of(name, <<Rd(i), Rt(i), Rs(i)>>)
      [] OTHER -> Of(name, <<Rd(i), Rs(i), Rt(i)>>)

RunsSpecial2(i) ==
    CASE i.funct = 0 -> Of("madd", <<Rs(i), Rt(i)>>)
      [] i.funct = 1 -> Of("maddu", <<Rs(i), Rt(i)>>)
      [] i.funct = 2 -> Of("mul", <<Rd(i), Rs(i), Rt(i)>>)
      [] i.funct = 4 -> Of("msub", <<Rs(i), Rt(i)>>)
      [] i.funct = 32 -> Of("clz", <<Rd(i), Rs(i)>>)
      [] OTHER -> Exits

RunsSpecial3(i) ==
    CASE i.funct = 32 /\ i.sa = 16 -> Of("seb", <<Rd(i), Rt(i)>>)
      [] i.funct = 32 /\ i.sa = 24 -> Of("seh", <<Rd(i), Rt(i)>>)
      [] i.funct = 0 -> Of("ext", <<Rt(i), Rs(i), Imm(i.sa), Imm(i.rd + 1)>>)
      [] i.funct = 4 -> Of("ins", <<Rt(i), Rs(i), Imm(i.rd), Imm(i.sa)>>)
      [] OTHER -> Exits

RunsCoproc0(i) ==
    CASE i.rs = 0 -> Of("mfc0", <<Rt(i), <<"cp0", i.rd>>>>)
      [] i.rs = 4 -> Of("mtc0", <<Rt(i), <<"cp0", i.rd>>>>)
      [] OTHER -> Exits

(* Instructions on floats and doubles, the default of a handler gives up.  *)
InFormats(i, formats, name, args) ==
    IF FormatOf(i) \in formats THEN [name |-> name, fmt |-> FormatOf(i), args |-> args] ELSE Exits

(* fpCmp: un is computed as eq.                                            *)
RunsCompare(i) ==
    LET cond == i.funct % 16
        Cmp(c) == InFormats(i, {"s", "d"}, "c", <<<<"cond", c>>, <<"fcc", i.sa \div 4>>, Fs(i), Ft(i)>>)
    IN  CASE cond = 1 -> Cmp(2)
          [] cond \in {2, 12, 14} -> Cmp(cond)
          [] OTHER -> Exits

RunsCoproc1(i) ==
    LET Op(name, args) == InFormats(i, {"s", "d"}, name, args)
        f == i.funct
    IN  IF i.rs = 8 THEN Of(Bc1[(i.rt % 4) + 1], <<<<"fcc", i.rt \div 4>>, Target(i)>>)
        ELSE IF i.rs \in {0, 4} /\ i.sa = 0 /\ f = 0
               THEN IF i.rs = 0 THEN Of("mfc1", <<Rt(i), Fs(i)>>) ELSE Of("mtc1", <<Fs(i), Rt(i)>>)
        ELSE
        CASE f \in 48 .. 63 -> RunsCompare(i)
          [] f \in 0 .. 3 -> Op(<<"add", "sub", "mul", "div">>[f + 1], <<Fd(i), Fs(i), Ft(i)>>)
          [] f \in 4 .. 7 -> Op(<<"sqrt", "abs", "mov", "neg">>[f - 3], <<Fd(i), Fs(i)>>)
          [] f = 13 -> Op("truncw", <<Fd(i), Fs(i)>>)
          [] f = 17 -> Op("movc", <<<<"fcc", i.rt \div 4>>, Fd(i), Fs(i)>>)
          [] f \in {18, 19} -> Op(IF f = 18 THEN "fmovz" ELSE "fmovn", <<Fd(i), Fs(i), Rt(i)>>)
          [] f \in {21, 22} -> Op(IF f = 21 THEN "recip" ELSE "rsqrt", <<Fd(i), Fs(i)>>)
          [] f = 32 -> InFormats(i, {"d", "w"}, "cvts", <<Fd(i), Fs(i)>>)
          [] f = 33 -> InFormats(i, {"s", "w"}, "cvtd", <<Fd(i), Fs(i)>>)
          [] OTHER -> Exits

RunsCoproc1x(i) ==
    LET id == i.funct \div 8 IN
    CASE i.funct \in {0, 1} -> Of(<<"lwxc1", "ldxc1">>[i.funct + 1], <<Fd(i), Rs(i), Rt(i)>>)
      [] i.funct % 8 \in {0, 1} /\ id \in {4, 5} ->
            [name |-> IF id = 4 THEN "fmadd" ELSE "fmsub", fmt |-> <<"s", "d">>[(i.funct % 8) + 1],
             args |-> <<Fd(i), <<"f", i.rs>>, Fs(i), Ft(i)>>]
      [] OTHER -> Exits

RunsIType(i, name) ==
    CASE name = "-" -> Exits
      [] name = "regimm" -> Of(Regimm[(i.rt % 4) + 1], <<Rs(i), Target(i)>>)
      [] name \in {"beq", "bne", "beql", "bnel"} -> Of(name, <<Rs(i), Rt(i), Target(i)>>)
      [] name \in {"blez", "bgtz", "blezl", "bgtzl"} -> Of(name, <<Rs(i), Target(i)>>)
      [] name \in {"andi", "ori", "xori"} -> Of(name, <<Rt(i), Rs(i), Imm(Uimm(i))>>)
      [] name = "lui" -> Of(name, <<Rt(i), Imm(Uimm(i))>>)
      [] name \in {"lwc1", "ldc1", "swc1", "sdc1"} -> Of(name, <<Ft(i), Imm(Simm(i)), Rs(i)>>)
      [] OTHER -> Of(name, <<Rt(i), Imm(Simm(i)), Rs(i)>>)

Runs(i) ==
    CASE i.op = 0 -> RunsRType(i, RTypeSwitch[i.funct + 1])
      [] i.op = 28 -> RunsSpecial2(i)
      [] i.op = 31 -> RunsSpecial3(i)
      [] i.op \in {2, 3} -> Of(IF i.op = 2 THEN "j" ELSE "jal", <<JumpTarget(i)>>)
      [] i.op = 16 -> RunsCoproc0(i)
      [] i.op = 17 -> RunsCoproc1(i)
      [] i.op = 19 -> RunsCoproc1x(i)
      [] OTHER -> RunsIType(i, ITypeSwitch[i.op + 1])

-----------------------------------------------------------------------------
(* The listing.  A name with no table entry, or text that names nothing:   *)
Unknown == Of("unknown", << >>)

(* Variant for the mutants: the entries of movz and movn are swapped.      *)
functTblSwapped == <<
    "sll", "movci", "srl", "sra", "sllv", "monitor", "srlv", "srav",
    "jr", "jalr", "movn", "movz", "syscall", "break", "-", "-",
    "mfhi", "mthi", "mflo", "mtlo", "-", "-", "-", "-",
    "mult", "multu", "div", "divu", "-", "-", "-", "-",
    "add", "addu", "sub", "subu", "and", "or", "xor", "nor",
    "-", "-", "slt", "sltu", "-", "-", "-", "-",
    "tge", "-", "-", "-", "teq", "-", "-", "-",
    "-", "-", "-", "-", "-", "-", "-", "-">>

functTbl == <<
    "sll", "movci", "srl", "sra", "sllv", "monitor", "srlv", "srav",
    "jr", "jalr", "movz", "movn", "syscall", "break", "-", "-",
    "mfhi", "mthi", "mflo", "mtlo", "-", "-", "-", "-",
    "mult", "multu", "div", "divu", "-", "-", "-", "-",
    "add", "addu", "sub", "subu", "and", "or", "xor", "nor",
    "-", "-", "slt", "sltu", "-", "-", "-", "-",
    "tge", "-", "-", "-", "teq", "-", "-", "-",
    "-", "-", "-", "-", "-", "-", "-", "-">>

ITypeOpcodeTbl == <<
    "-", "bgez_bltz", "-", "-", "beq", "bne", "blez", "bgtz",
    "addi", "addiu", "slti", "sltiu", "andi", "ori", "xori", "lui",
    "-", "-", "-", "-", "beql", "bnel", "blezl", "bgtzl",
    "-", "-", "-", "-", "-", "-", "-", "-",
    "lb", "lh", "lwl", "lw", "lbu", "lhu", "lwr", "-",
    "sb", "sh", "swl", "sw", "-", "-", "swr", "-",
    "-", "lwc1", "-", "-", "-", "ldc1", "-", "-",
    "-", "swc1", "-", "-", "-", "sdc1", "-", "-">>

(* The functions that print their name alone.                              *)
NameOnly ==
    {"break", "syscall", "mult", "mthi", "mtlo", "movci", "abs", "neg", "rsqrt", "recip", "truncl",
     "lwl", "lwr", "swl", "swr"}

(* _j and _jal.                                                            *)
ListsJump(i, name) ==
    Of(name, <<<<"to", JumpWords(i) + Region((pc + 1) % NWords)>>>>)

ListsRType(i, name) ==
    IF name = "sll" /\ {i.rs, i.rt, i.rd, i.sa} = {0} THEN Of("nop", << >>)
    ELSE
    CASE name = "-" -> Unknown
      [] name \in NameOnly -> Of(name, << >>)
      [] name \in {"sll", "sra", "srl"} -> Of(name, <<Rd(i), Rt(i), Imm(i.sa)>>)
      [] name \in {"sllv", "srav", "srlv"} -> Of(name, <<Rd(i), Rt(i), Rs(i)>>)
      [] name \in {"div", "divu", "multu", "tge", "teq"} -> Of(name, <<Rs(i), Rt(i)>>)
      [] name \in {"jalr", "jr"} -> Of(name, <<Rs(i)>>)
      [] name \in {"mfhi", "mflo"} -> Of(name, <<Rd(i)>>)
      [] name = "monitor" ->
            Of(name, <<Imm((((i.rs * 32 + i.rt) * 32 + i.rd) * 32 + i.sa) \div 2)>>)
      [] OTHER -> Of(name, <<Rd(i), Rs(i), Rt(i)>>)

(* imm + npc.                                                              *)
ListsBranch(i, name, regs) ==
    LET npc == pc + 1
    IN  Of(name, Append(regs, <<"to", (Simm(i) + npc) % NWords>>))

(* _bgez_bltz, which gives up on the linking branches.                     *)
ListsRegimm(i) ==
    IF i.rt > 3 THEN Exits
    ELSE ListsBranch(i, <<"bltz", "bgez", "bltzl", "bgezl">>[i.rt + 1], <<Rs(i)>>)

ListsMemory(i, name) == Of(name, <<Rt(i), Imm(Simm(i)), Rs(i)>>)
ListsFpMemory(i, name) == Of(name, <<Ft(i), Imm(Simm(i)), Rs(i)>>)

(* _addi to _xori, and _slti, _sltiu: addiu and sltiu show what they add   *)
(* or compare without its sign.                                            *)
ListsImmediate(i, name) ==
    Of(name, <<Rt(i), Rs(i), Imm(IF name \in {"addi", "slti"} THEN Simm(i) ELSE Uimm(i))>>)

ListsIType(i, name) ==
    CASE name = "-" -> Unknown
      [] name \in NameOnly -> Of(name, << >>)
      [] name = "bgez_bltz" -> ListsRegimm(i)
      [] name \in {"beq", "beql", "bne", "bnel"} -> ListsBranch(i, name, <<Rs(i), Rt(i)>>)
      [] name \in {"blez", "blezl", "bgtz", "bgtzl"} -> ListsBranch(i, name, <<Rs(i)>>)
      [] name = "lui" -> Of(name, <<Rt(i), Imm(Uimm(i))>>)
      [] name \in {"lwc1", "swc1", "ldc1", "sdc1"} -> ListsFpMemory(i, name)
      [] name \in {"addi", "addiu", "slti", "sltiu", "andi", "ori", "xori"} -> ListsImmediate(i, name)
      [] OTHER -> ListsMemory(i, name)

decodeSpecial2(i) ==
    CASE i.funct = 0 -> Of("madd", <<Rs(i), Rt(i)>>)
      [] i.funct = 2 -> Of("mul", <<Rd(i), Rs(i), Rt(i)>>)
      [] i.funct = 32 -> Of("clz", <<Rd(i), Rt(i)>>)
      [] OTHER -> Unknown

(* _seh, _ext, _ins.                                                       *)
decodeSpecial3(i) ==
    CASE i.funct = 32 /\ i.sa = 24 -> Of("seh", <<Rd(i), Rt(i)>>)
      [] i.funct = 32 /\ i.sa # 24 -> Exits
      [] i.funct = 0 -> Of("ext", <<Rt(i), Rs(i), Imm(i.sa), Imm(i.rd + 1)>>)
      [] i.funct = 4 -> Of("ins", <<Rt(i), Rs(i), Imm(i.rd), Imm(i.sa)>>)
      [] OTHER -> Unknown

(* Moves from and to coprocessor n: the field 6 prints nothing, the other  *)
(* codes end the program for coprocessor 0.                                *)
decodeCoproc0(i) ==
    CASE i.rs = 0 -> Of("mfc0", <<Rt(i), <<"cp0", i.rd>>>>)
      [] i.rs = 4 -> Of("mtc0", <<Rt(i), <<"cp0", i.rd>>>>)
      [] i.rs = 6 -> Unknown
      [] OTHER -> Exits

decodeCoproc2(i) ==
    CASE i.rs = 0 -> Of("mfc2", <<Rt(i), <<"cp2", i.rd>>>>)
      [] i.rs = 4 -> Of("mtc2", <<Rt(i), <<"cp2", i.rd>>>>)
      [] OTHER -> Unknown

(* A name with the formats it knows; "?" for the others.                   *)
Shown(i, formats, name, args) ==
    [name |-> name, fmt |-> IF FormatOf(i) \in formats THEN FormatOf(i) ELSE "?", args |-> args]

(* _c.                                                                     *)
ListsCompare(i) ==
    Shown(i, {"s", "d"}, "c", <<<<"cond", i.funct % 16>>, <<"fcc", i.sa \div 4>>, Fs(i), Ft(i)>>)

(* _fadd, _fsub, _fmul, _fdiv.                                             *)
ListsFpBinary(i, name) == Shown(i, {"s", "d"}, name, <<Fd(i), Fs(i), Ft(i)>>)

(* _fmov, _fneg, _fsqrt, _frsqrt, _frecip, _fabs, _truncw.                 *)
ListsFpUnary(i, name) ==
    IF name \in NameOnly THEN Of(name, << >>) ELSE Shown(i, {"s", "d"}, name, <<Fd(i), Fs(i)>>)

(* _fmovc.                                                                 *)
ListsFpMove(i) == Shown(i, {"s", "d"}, "movc", <<<<"fcc", i.rt \div 4>>, Fd(i), Fs(i)>>)

(* _bc1f, _bc1t, _bc1fl, _bc1tl.                                           *)
ListsBc1(i) ==
    ListsBranch(i, <<"bc1f", "bc1t", "bc1fl", "bc1tl">>[(i.rt % 4) + 1], <<<<"fcc", i.rt \div 4>>>>)

(* _mfc1, _mtc1.                                                           *)
ListsFpTransfer(i) ==
    IF i.rs = 0 THEN Of("mfc1", <<Rt(i), Fs(i)>>) ELSE Of("mtc1", <<Fs(i), Rt(i)>>)

(* _cvtd, _cvts, which show the format converted from.                     *)
ListsConvert(i, name) ==
    Shown(i, IF name = "cvtd" THEN {"s", "w"} ELSE {"d", "w"}, name, <<Fd(i), Fs(i)>>)

decodeCoproc1(i) ==
    LET f == i.funct IN
    IF i.rs = 8 THEN ListsBc1(i)
    ELSE IF i.rs \in {0, 4} /\ i.sa = 0 /\ f = 0 THEN ListsFpTransfer(i)
    ELSE
    CASE f \in 48 .. 63 -> ListsCompare(i)
      [] f \in 0 .. 3 -> ListsFpBinary(i, <<"add", "sub", "mul", "div">>[f + 1])
      [] f \in 4 .. 7 -> ListsFpUnary(i, <<"sqrt", "abs", "mov", "neg">>[f - 3])
      [] f = 9 -> ListsFpUnary(i, "truncl")
      [] f = 13 -> ListsFpUnary(i, "truncw")
      [] f = 17 -> ListsFpMove(i)
      [] f \in {21, 22} -> ListsFpUnary(i, <<"recip", "rsqrt">>[f - 20])
      [] f \in {32, 33} -> ListsConvert(i, <<"cvts", "cvtd">>[f - 31])
      [] OTHER -> Exits

getAsmString(i) ==
    CASE i.op = 0 -> ListsRType(i, functTbl[i.funct + 1])
      [] i.op = 28 -> decodeSpecial2(i)
      [] i.op = 31 -> decodeSpecial3(i)
      [] i.op \in {2, 3} -> ListsJump(i, IF i.op = 2 THEN "j" ELSE "jal")
      [] i.op = 16 -> decodeCoproc0(i)
      [] i.op = 17 -> decodeCoproc1(i)
      [] i.op = 18 -> decodeCoproc2(i)
      [] OTHER -> ListsIType(i, ITypeOpcodeTbl[i.op + 1])

isBranchOrJump(i) ==
    \/ i.op = 0 /\ i.funct \in {8, 9}
    \/ i.op = 17 /\ i.rs = 8
    \/ i.op \in {1, 2, 3, 4, 5, 6, 7, 20, 21, 22, 23}

-----------------------------------------------------------------------------
DecodeInit ==
    /\ isMipsEL \in ByteOrders /\ inst \in Instructions /\ pc \in Pcs
    /\ ran = NotYet /\ handed = inst /\ shown = NotYet

(* execMips fetches with the byte order of the program.                    *)
Execute ==
    /\ ran = NotYet
    /\ ran' = Runs(inst)
    /\ UNCHANGED <<isMipsEL, inst, pc, handed, shown>>

(* dump_histo reads the word as a big-endian one and lists it.  (It lists  *)
(* mispredicted transfers; getAsmString itself takes any instruction.)     *)
List ==
    /\ ran \notin {NotYet, Exits} /\ shown = NotYet
    /\ handed' = IF isMipsEL THEN Reversed(inst) ELSE inst
    /\ shown' = getAsmString(handed')
    /\ UNCHANGED <<isMipsEL, inst, pc, ran>>

DecodeNext == Execute \/ List

DecodeSpec == DecodeInit /\ [][DecodeNext]_decodeVars

-----------------------------------------------------------------------------
Listed == shown # NotYet /\ ~isMipsEL
Transfers ==
    {"j", "jal", "jr", "jalr", "beq", "bne", "blez", "bgtz", "beql", "bnel", "blezl", "bgtzl",
     "bltz", "bgez", "bltzl", "bgezl", "bc1f", "bc1t", "bc1fl", "bc1tl"}
Args(x, kinds) == {a \in Range(x.args) : a[1] \in kinds}

(* The table of the listing and the switch of the interpreter give every   *)
(* code one meaning (parseMips.cc:270-351, profileMips.cc:1346-1720): what *)
(* is listed under a name was executed under that name and format.  Not    *)
(* listed are what the tables leave out: maddu, msub, sync, coprocessor 1x,*)
(* store conditional and load linked, and seb and the moves on a register, *)
(* at which the listing ends.                                              *)
Unlisted ==
    {"maddu", "msub", "sync", "lwxc1", "ldxc1", "fmadd", "fmsub", "sc", "ll"}
NamesAgree ==
    Listed =>
        \/ shown.name = ran.name /\ (shown.name \in NameOnly \/ shown.fmt = ran.fmt)
        \/ shown.name = "nop" /\ ran = Of("sll", <<<<"r", 0>>, <<"r", 0>>, Imm(0)>>)
        \/ shown = Unknown /\ ran.name \in Unlisted
        \/ shown = Exits /\ (ran.name \in {"seb", "fmovz", "fmovn"} \/ (inst.op = 1 /\ inst.rt > 3))

(* The registers and conditions listed are those the instruction uses, in  *)
(* the order it uses them (parseMips.cc:752-1658), but for clz, listed     *)
(* with the wrong source, and c.un, which the interpreter runs as c.eq.    *)
Registers(args) ==
    LET first[n \in 0 .. Len(args)] ==
          IF n = 0 THEN << >>
          ELSE IF args[n][1] \in {"r", "f"} THEN Append(first[n - 1], args[n])
          ELSE first[n - 1]
    IN  first[Len(args)]
RegistersAgree ==
    Listed /\ shown.name = ran.name /\ shown.name \notin NameOnly \cup {"clz"} =>
        /\ Registers(shown.args) = Registers(ran.args)
        /\ Args(shown, {"fcc", "cp0"}) = Args(ran, {"fcc", "cp0"})
        /\ \/ Args(shown, {"cond"}) = Args(ran, {"cond"})
           \/ Args(shown, {"cond"}) = {<<"cond", 1>>} /\ Args(ran, {"cond"}) = {<<"cond", 2>>}

(* The number of x lies below 2^16, that of y is the same with its sign.   *)
WithoutSign(x, y) ==
    \E a \in Args(x, {"imm"}) :
       /\ Args(x, {"imm"}) = {a} /\ 0 <= a[2] /\ a[2] < 65536
       /\ Args(y, {"imm"}) = {Imm(SignExtended(a[2]))}

(* The immediates listed are those used, whatever fields they are read     *)
(* from; addiu and sltiu use theirs with its sign and are listed without.  *)
ImmediatesAgree ==
    Listed /\ shown.name = ran.name /\ shown.name \notin NameOnly =>
        \/ shown.name \notin {"addiu", "sltiu"} /\ Args(shown, {"imm"}) = Args(ran, {"imm"})
        \/ shown.name \in {"addiu", "sltiu"} /\ WithoutSign(shown, ran)

(* A transfer is listed with the address it went to, past the end of the   *)
(* address space and in the region of its delay slot too.                  *)
TargetsAgree ==
    Listed /\ shown # Exits /\ ran.name \in Transfers => Args(shown, {"to"}) = Args(ran, {"to"})

(* isBranchOrJump (parseMips.cc:354-433) tells exactly the instructions    *)
(* that the interpreter runs with a delay slot.                            *)
SlotsClassified ==
    ran \notin {NotYet, Exits} => (isBranchOrJump(inst) <=> ran.name \in Transfers)

(* Listing a transfer does not end the program, except for the linking     *)
(* branches, which the interpreter runs (parseMips.cc:1101).               *)
ReportSurvives ==
    Listed /\ ran.name \in Transfers =>
        (shown = Exits <=> (inst.op = 1 /\ inst.rt > 3))

(* What the report lists is what ran: both decoders agree on every code,   *)
(* and a listing ends the program only where ReportSurvives says so.       *)
ListedAsRun ==
    /\ NamesAgree /\ RegistersAgree /\ ImmediatesAgree /\ TargetsAgree
    /\ SlotsClassified /\ ReportSurvives

(* "We assume inst is little endian" (parseMips.cc:442), that is, the word *)
(* as the host computes with it: of a branch or return that was counted as *)
(* mispredicted, dump_histo hands over the word the interpreter fetched.   *)
HandedInstruction ==
    shown # NotYet /\ ran.name \in Transfers \ {"j", "jal", "jalr"} => handed = inst
=============================================================================
