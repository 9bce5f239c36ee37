--------------------------- MODULE DecoderProofs ---------------------------
(***************************************************************************)
(* Proofs about the two decoders, for every instruction word, every pc and *)
(* every size of the address space: what getAsmString lists of an          *)
(* instruction is one of nine outcomes of what execMips ran it as, each of *)
(* which agrees with the run in name, registers, immediates and target.    *)
(***************************************************************************)
EXTENDS Decoder, SequenceTheorems, TLAPS

-----------------------------------------------------------------------------
(* The fields of an instruction.                                           *)
LEMMA Fetched ==
    ASSUME NEW i \in Instructions
    PROVE  /\ i.op \in 0 .. 63 /\ i.funct \in 0 .. 63
           /\ i.rs \in 0 .. 31 /\ i.rt \in 0 .. 31 /\ i.rd \in 0 .. 31 /\ i.sa \in 0 .. 31
BY DecoderAssumption

(* Four fields of five bits, as a sum and one after the other.             *)
LEMMA FieldsPack ==
    ASSUME NEW a \in 0 .. 31, NEW b \in 0 .. 31, NEW c \in 0 .. 31, NEW d \in 0 .. 31
    PROVE  a * 32768 + b * 1024 + c * 32 + d = ((a * 32 + b) * 32 + c) * 32 + d
OBVIOUS

(* The R-type table names a code as the switch does, or not at all: sync.  *)
LEMMA RTypeNames ==
    ASSUME NEW f \in 0 .. 63, RTypeSwitch[f + 1] # "-"
    PROVE  \/ /\ functTbl[f + 1] = RTypeSwitch[f + 1]
              /\ RTypeSwitch[f + 1] \notin {"sync", "sub", "tge", "syscall", "addiu", "sltiu", "clz"}
           \/ functTbl[f + 1] = "-" /\ RTypeSwitch[f + 1] = "sync"
BY DEF RTypeSwitch, functTbl

(* The I-type table leaves out load linked and store conditional.          *)
LEMMA ITypeNames ==
    ASSUME NEW o \in 0 .. 63, ITypeSwitch[o + 1] # "-"
    PROVE  \/ o = 1 /\ ITypeSwitch[o + 1] = "regimm" /\ ITypeOpcodeTbl[o + 1] = "bgez_bltz"
           \/ ITypeOpcodeTbl[o + 1] = "-" /\ ITypeSwitch[o + 1] \in {"ll", "sc"}
           \/ /\ ITypeOpcodeTbl[o + 1] = ITypeSwitch[o + 1] /\ o # 1
              /\ ITypeSwitch[o + 1] \notin {"regimm", "bgez_bltz", "ll", "sc", "clz", "abs", "break"}
BY DEF ITypeSwitch, ITypeOpcodeTbl

(* What a listing s may be of an instruction i that ran as r.              *)
Alike(i, r, s) == s = r /\ r.name \notin {"addiu", "sltiu", "clz"} /\ ~ (i.op = 1 /\ i.rt > 3)
NamedOnly(r, s) == r.name \in NameOnly /\ s = Of(r.name, << >>)
AsNop(r, s) == s = Of("nop", << >>) /\ r = Of("sll", <<<<"r", 0>>, <<"r", 0>>, Imm(0)>>)
Missing(r, s) == s = Unknown /\ r.name \in Unlisted
Ends(i, r, s) ==
    /\ s = Exits
    /\ \/ r.name \in {"seb", "fmovz", "fmovn"}
       \/ i.op = 1 /\ i.rt > 3 /\ r.name \in {"bltz", "bgez", "bltzl", "bgezl"}
OtherSource(i, r, s) == r = Of("clz", <<Rd(i), Rs(i)>>) /\ s = Of("clz", <<Rd(i), Rt(i)>>)
AsEqual(i, r, s) ==
    \E fmt \in {"s", "d"} :
       /\ r = [name |-> "c", fmt |-> fmt, args |-> <<<<"cond", 2>>, <<"fcc", i.sa \div 4>>, Fs(i), Ft(i)>>]
       /\ s = [name |-> "c", fmt |-> fmt, args |-> <<<<"cond", 1>>, <<"fcc", i.sa \div 4>>, Fs(i), Ft(i)>>]
OtherOrder(i, r, s) ==
    \E name \in {"addi", "slti"} :
       r = Of(name, <<Rt(i), Imm(Simm(i)), Rs(i)>>) /\ s = Of(name, <<Rt(i), Rs(i), Imm(Simm(i))>>)
Unsigned(i, r, s) ==
    \E name \in {"addiu", "sltiu"} :
       r = Of(name, <<Rt(i), Imm(Simm(i)), Rs(i)>>) /\ s = Of(name, <<Rt(i), Rs(i), Imm(Uimm(i))>>)
Listing(i, r, s) ==
    \/ Alike(i, r, s) \/ NamedOnly(r, s) \/ AsNop(r, s) \/ Missing(r, s) \/ Ends(i, r, s)
    \/ OtherSource(i, r, s) \/ AsEqual(i, r, s) \/ OtherOrder(i, r, s) \/ Unsigned(i, r, s)

-----------------------------------------------------------------------------
(* R-type instructions that both name.                                     *)
LEMMA RTypeListed ==
    ASSUME NEW i \in Instructions, NEW name, i.op = 0,
           name \notin {"-", "sync", "sub", "tge", "syscall", "addiu", "sltiu", "clz"}
    PROVE  Listing(i, RunsRType(i, name), ListsRType(i, name)) /\ RunsRType(i, name).name = name
<1>1. RunsRType(i, name).name = name
  BY DEF RunsRType, Of
<1>2. CASE name \in NameOnly
  <2>1. ListsRType(i, name) = Of(name, << >>)
    BY <1>2 DEF ListsRType, NameOnly
  <2> QED
    BY <1>1, <1>2, <2>1 DEF Listing, NamedOnly
<1>3. CASE name = "sll" /\ {i.rs, i.rt, i.rd, i.sa} = {0}
  <2>1. i.rt = 0 /\ i.rd = 0 /\ i.sa = 0
    BY <1>3
  <2>2. ListsRType(i, name) = Of("nop", << >>)
    BY <1>3 DEF ListsRType, NameOnly
  <2>3. RunsRType(i, name) = Of("sll", <<<<"r", 0>>, <<"r", 0>>, Imm(0)>>)
    BY <1>3, <2>1 DEF RunsRType, Rd, Rt
  <2> QED
    BY <1>1, <2>2, <2>3 DEF Listing, AsNop
<1>4. CASE name \notin NameOnly /\ ~ (name = "sll" /\ {i.rs, i.rt, i.rd, i.sa} = {0})
  <2>1. ASSUME name = "monitor" PROVE RunsRType(i, name) = ListsRType(i, name)
    <3>1. i.rs * 32768 + i.rt * 1024 + i.rd * 32 + i.sa = ((i.rs * 32 + i.rt) * 32 + i.rd) * 32 + i.sa
      <4>1. PICK a \in 0 .. 31, b \in 0 .. 31, c \in 0 .. 31, d \in 0 .. 31 :
                 a = i.rs /\ b = i.rt /\ c = i.rd /\ d = i.sa
        BY Fetched
      <4>2. a * 32768 + b * 1024 + c * 32 + d = ((a * 32 + b) * 32 + c) * 32 + d
        BY FieldsPack
      <4> QED
        BY <4>1, <4>2
    <3> QED
      BY <2>1, <3>1 DEF RunsRType, ListsRType, NameOnly
  <2>2. ASSUME name # "monitor" PROVE RunsRType(i, name) = ListsRType(i, name)
    <3>1. CASE name \in {"sll", "srl", "sra"}
      <4>1. RunsRType(i, name) = Of(name, <<Rd(i), Rt(i), Imm(i.sa)>>)
        BY <3>1 DEF RunsRType
      <4>2. ListsRType(i, name) = Of(name, <<Rd(i), Rt(i), Imm(i.sa)>>)
        BY <1>4, <3>1 DEF ListsRType, NameOnly
      <4> QED
        BY <4>1, <4>2
    <3>2. CASE name \in {"sllv", "srlv", "srav"}
      <4>1. RunsRType(i, name) = Of(name, <<Rd(i), Rt(i), Rs(i)>>)
        BY <3>2 DEF RunsRType
      <4>2. ListsRType(i, name) = Of(name, <<Rd(i), Rt(i), Rs(i)>>)
        BY <1>4, <3>2 DEF ListsRType, NameOnly
      <4> QED
        BY <4>1, <4>2
    <3>3. CASE name \in {"div", "divu", "multu", "teq"}
      <4>1. RunsRType(i, name) = Of(name, <<Rs(i), Rt(i)>>)
        BY <3>3 DEF RunsRType
      <4>2. ListsRType(i, name) = Of(name, <<Rs(i), Rt(i)>>)
        BY <1>4, <3>3 DEF ListsRType, NameOnly
      <4> QED
        BY <4>1, <4>2
    <3>4. CASE name \in {"jr", "jalr"}
      <4>1. RunsRType(i, name) = Of(name, <<Rs(i)>>)
        BY <3>4 DEF RunsRType
      <4>2. ListsRType(i, name) = Of(name, <<Rs(i)>>)
        BY <1>4, <3>4 DEF ListsRType, NameOnly
      <4> QED
        BY <4>1, <4>2
    <3>5. CASE name \in {"mfhi", "mflo"}
      <4>1. RunsRType(i, name) = Of(name, <<Rd(i)>>)
        BY <3>5 DEF RunsRType
      <4>2. ListsRType(i, name) = Of(name, <<Rd(i)>>)
        BY <1>4, <3>5 DEF ListsRType, NameOnly
      <4> QED
        BY <4>1, <4>2
    <3>6. CASE name \notin {"sll", "srl", "sra", "sllv", "srlv", "srav", "div", "divu", "multu", "teq", "jr",
                         "jalr", "mfhi", "mflo"}
      <4>1. RunsRType(i, name) = Of(name, <<Rd(i), Rs(i), Rt(i)>>)
        BY <1>4, <2>2, <3>6 DEF RunsRType, NameOnly
      <4>2. ListsRType(i, name) = Of(name, <<Rd(i), Rs(i), Rt(i)>>)
        BY <1>4, <2>2, <3>6 DEF ListsRType, NameOnly
      <4> QED
        BY <4>1, <4>2
    <3> QED
      BY <3>1, <3>2, <3>3, <3>4, <3>5, <3>6
  <2>3. RunsRType(i, name) = ListsRType(i, name)
    BY <2>1, <2>2
  <2> QED
    BY <1>1, <2>3 DEF Listing, Alike
<1> QED
  BY <1>2, <1>3, <1>4

(* The other opcodes with functions.                                       *)
LEMMA Special2Listed ==
    ASSUME NEW i \in Instructions, i.op = 28, RunsSpecial2(i) # Exits
    PROVE  Listing(i, RunsSpecial2(i), decodeSpecial2(i))
<1>1. i.funct \in {0, 1, 2, 4, 32}
  BY DEF RunsSpecial2
<1>2. CASE i.funct \in {0, 2}
  <2>1. RunsSpecial2(i) = decodeSpecial2(i)
    BY <1>2 DEF RunsSpecial2, decodeSpecial2
  <2>2. RunsSpecial2(i).name \in {"madd", "mul"}
    BY <1>2 DEF RunsSpecial2, Of
  <2> QED
    BY <2>1, <2>2 DEF Listing, Alike
<1>3. CASE i.funct \in {1, 4}
  <2>1. decodeSpecial2(i) = Unknown
    BY <1>3 DEF decodeSpecial2
  <2>2. RunsSpecial2(i).name \in {"maddu", "msub"}
    BY <1>3 DEF RunsSpecial2, Of
  <2> QED
    BY <2>1, <2>2 DEF Listing, Missing, Unlisted
<1>4. CASE i.funct = 32
  BY <1>4 DEF RunsSpecial2, decodeSpecial2, Listing, OtherSource
<1> QED
  BY <1>1, <1>2, <1>3, <1>4

(* Moves of fields and signs of bytes: seb ends the listing.               *)
LEMMA Special3Listed ==
    ASSUME NEW i \in Instructions, i.op = 31, RunsSpecial3(i) # Exits
    PROVE  Listing(i, RunsSpecial3(i), decodeSpecial3(i))
<1> DEFINE Both == i.funct \in {0, 4} \/ (i.funct = 32 /\ i.sa = 24)
           Seb == i.funct = 32 /\ i.sa = 16
<1>1. ASSUME ~ Both, ~ Seb PROVE RunsSpecial3(i) = Exits
  <2>1. i.funct # 0 /\ i.funct # 4 /\ ~ (i.funct = 32 /\ i.sa = 24) /\ ~ (i.funct = 32 /\ i.sa = 16)
    BY <1>1
  <2> HIDE DEF Both, Seb
  <2> QED
    BY <2>1 DEF RunsSpecial3
<1>2. CASE Both
  <2>1. RunsSpecial3(i) = decodeSpecial3(i)
    BY <1>2 DEF RunsSpecial3, decodeSpecial3
  <2>2. RunsSpecial3(i).name \in {"ext", "ins", "seh"}
    BY <1>2 DEF RunsSpecial3, Of
  <2> QED
    BY <2>1, <2>2 DEF Listing, Alike
<1>3. CASE Seb
  <2>1. decodeSpecial3(i) = Exits
    BY <1>3 DEF decodeSpecial3
  <2>2. RunsSpecial3(i).name = "seb"
    BY <1>3 DEF RunsSpecial3, Of
  <2> QED
    BY <2>1, <2>2 DEF Listing, Ends
<1> HIDE DEF Both, Seb
<1> QED
  BY <1>1, <1>2, <1>3

(* Moves from and to coprocessor 0.                                        *)
LEMMA Coproc0Listed ==
    ASSUME NEW i \in Instructions, i.op = 16, RunsCoproc0(i) # Exits
    PROVE  Listing(i, RunsCoproc0(i), decodeCoproc0(i))
<1>1. i.rs \in {0, 4}
  BY DEF RunsCoproc0
<1>2. RunsCoproc0(i) = decodeCoproc0(i)
  BY <1>1 DEF RunsCoproc0, decodeCoproc0
<1>3. RunsCoproc0(i).name \in {"mfc0", "mtc0"}
  BY <1>1 DEF RunsCoproc0, Of
<1> QED
  BY <1>2, <1>3 DEF Listing, Alike

(* Coprocessor 1x, which the listing has no table for.                     *)
LEMMA Coproc1xListed ==
    ASSUME NEW i \in Instructions, i.op = 19, RunsCoproc1x(i) # Exits
    PROVE  Listing(i, RunsCoproc1x(i), Unknown)
<1>1. i.funct \in 0 .. 63
  BY Fetched
<1>2. CASE i.funct \in {0, 1}
  <2>1. i.funct \div 8 = 0
    BY <1>2
  <2>2. <<"lwxc1", "ldxc1">>[i.funct + 1] \in {"lwxc1", "ldxc1"}
    BY <1>2
  <2>3. RunsCoproc1x(i).name = <<"lwxc1", "ldxc1">>[i.funct + 1]
    BY <1>2, <2>1 DEF RunsCoproc1x, Of
  <2> QED
    BY <2>2, <2>3 DEF Listing, Missing, Unlisted
<1>3. CASE i.funct \notin {0, 1}
  <2>1. RunsCoproc1x(i).name \in {"fmadd", "fmsub"}
    BY <1>3 DEF RunsCoproc1x
  <2> QED
    BY <2>1 DEF Listing, Missing, Unlisted
<1> QED
  BY <1>2, <1>3

(* A target after one register or two.                                     *)
LEMMA AppendOne == ASSUME NEW a, NEW b PROVE Append(<<a>>, b) = <<a, b>>
<1> DEFINE S == {a, b}
           s == Append(<<a>>, b)
           t == <<a, b>>
<1>1. <<a>> \in Seq(S) /\ Len(<<a>>) = 1 /\ <<a>>[1] = a /\ b \in S
  OBVIOUS
<1>2. t \in Seq(S) /\ Len(t) = 2 /\ t[1] = a /\ t[2] = b
  OBVIOUS
<1>3. s \in Seq(S) /\ Len(s) = 2 /\ s[1] = a /\ s[2] = b
  BY <1>1, AppendProperties
<1> HIDE DEF S, s, t
<1>4. \A k \in 1 .. Len(s) : s[k] = t[k]
  BY <1>2, <1>3
<1>5. s = t
  BY <1>2, <1>3, <1>4, SeqEqual
<1> QED
  BY <1>5 DEF s, t

(* And of two.                                                             *)
LEMMA AppendTwo == ASSUME NEW a, NEW b, NEW c PROVE Append(<<a, b>>, c) = <<a, b, c>>
<1> DEFINE S == {a, b, c}
           u == <<a, b>>
           s == Append(u, c)
           t == <<a, b, c>>
<1>1. u \in Seq(S) /\ Len(u) = 2 /\ u[1] = a /\ u[2] = b /\ c \in S
  OBVIOUS
<1>2. t \in Seq(S) /\ Len(t) = 3 /\ t[1] = a /\ t[2] = b /\ t[3] = c
  OBVIOUS
<1> HIDE DEF S, u, s, t
<1>3. 1 \in 1 .. Len(u) /\ 2 \in 1 .. Len(u)
  BY <1>1
<1>4. u \in Seq(S)
  BY <1>1
<1>5. c \in S
  BY <1>1
<1>6. Append(u, c) \in Seq(S)
  BY <1>4, <1>5, AppendProperties
<1>7. Len(Append(u, c)) = Len(u) + 1
  BY <1>4, <1>5, AppendProperties
<1>8. \A k \in 1 .. Len(u) : Append(u, c)[k] = u[k]
  BY <1>4, <1>5, AppendProperties
<1>9. Append(u, c)[Len(u) + 1] = c
  BY <1>4, <1>5, AppendProperties
<1>10. s \in Seq(S) /\ Len(s) = 3 /\ s[1] = a /\ s[2] = b /\ s[3] = c
  BY <1>1, <1>3, <1>6, <1>7, <1>8, <1>9 DEF s
<1>11. \A k \in 1 .. Len(s) : s[k] = t[k]
  BY <1>2, <1>10
<1>12. s = t
  BY <1>2, <1>10, <1>11, SeqEqual
<1> QED
  BY <1>12 DEF s, t, u

(* Both compute one target.                                                *)
LEMMA BranchListed ==
    ASSUME NEW i \in Instructions, NEW name, pc \in Nat
    PROVE  /\ \A a : ListsBranch(i, name, <<a>>) = Of(name, <<a, Target(i)>>)
           /\ \A a, b : ListsBranch(i, name, <<a, b>>) = Of(name, <<a, b, Target(i)>>)
<1>1. PICK x \in Int : x = Simm(i)
  <2>1. PICK a \in 0 .. 31, b \in 0 .. 31, c \in 0 .. 63 : a = i.rd /\ b = i.sa /\ c = i.funct
    BY Fetched
  <2>2. Uimm(i) = a * 2048 + b * 64 + c /\ a * 2048 + b * 64 + c \in Int
    BY <2>1 DEF Uimm
  <2> QED
    BY <2>2 DEF Simm, SignExtended
<1>2. x + pc + 1 = x + (pc + 1)
  OBVIOUS
<1>3. Target(i) = <<"to", (Simm(i) + (pc + 1)) % NWords>>
  BY <1>1, <1>2 DEF Target
<1> QED
  BY <1>3, AppendOne, AppendTwo DEF ListsBranch

(* Conditional branches that compare with zero.                            *)
LEMMA RegimmListed ==
    ASSUME NEW i \in Instructions, i.op = 1, pc \in Nat
    PROVE  Listing(i, RunsIType(i, "regimm"), ListsRegimm(i))
<1>1. i.rt \in 0 .. 31
  BY Fetched
<1>2. RunsIType(i, "regimm") = Of(Regimm[(i.rt % 4) + 1], <<Rs(i), Target(i)>>)
  BY DEF RunsIType
<1>3. Regimm[(i.rt % 4) + 1] \in {"bltz", "bgez", "bltzl", "bgezl"}
  <2>1. PICK k \in 0 .. 3 : k = i.rt % 4
    BY <1>1
  <2>2. Regimm[k + 1] \in {"bltz", "bgez", "bltzl", "bgezl"}
    BY DEF Regimm
  <2> QED
    BY <2>1, <2>2
<1>4. CASE i.rt > 3
  BY <1>2, <1>3, <1>4 DEF Listing, Ends, ListsRegimm, Of
<1>5. CASE ~ (i.rt > 3)
  <2>1. i.rt % 4 = i.rt
    BY <1>1, <1>5
  <2>2. ListsRegimm(i) = Of(Regimm[(i.rt % 4) + 1], <<Rs(i), Target(i)>>)
    BY <1>5, <2>1, BranchListed DEF ListsRegimm, Regimm
  <2> QED
    BY <1>2, <1>3, <1>5, <2>2 DEF Listing, Alike, Of
<1> QED
  BY <1>4, <1>5

(* I-type instructions that both name, transfers excepted.                 *)
LEMMA ITypeListed ==
    ASSUME NEW i \in Instructions, i.op # 1, pc \in Nat,
           NEW name, name \notin {"-", "regimm", "bgez_bltz", "ll", "sc", "clz", "abs", "break"}
    PROVE  Listing(i, RunsIType(i, name), ListsIType(i, name)) /\ RunsIType(i, name).name = name
<1>1. RunsIType(i, name).name = name
  BY DEF RunsIType, Of
<1>2. CASE name \in NameOnly
  <2>1. ListsIType(i, name) = Of(name, << >>)
    BY <1>2 DEF ListsIType, NameOnly
  <2> QED
    BY <1>1, <1>2, <2>1 DEF Listing, NamedOnly
<1>3. CASE name \in {"beq", "bne", "beql", "bnel"}
  <2>1. RunsIType(i, name) = Of(name, <<Rs(i), Rt(i), Target(i)>>)
    BY <1>3 DEF RunsIType
  <2>2. ListsIType(i, name) = ListsBranch(i, name, <<Rs(i), Rt(i)>>)
    BY <1>3 DEF ListsIType, NameOnly
  <2> QED
    BY <1>1, <1>3, <2>1, <2>2, BranchListed DEF Listing, Alike
<1>4. CASE name \in {"blez", "bgtz", "blezl", "bgtzl"}
  <2>1. RunsIType(i, name) = Of(name, <<Rs(i), Target(i)>>)
    BY <1>4 DEF RunsIType
  <2>2. ListsIType(i, name) = ListsBranch(i, name, <<Rs(i)>>)
    BY <1>4 DEF ListsIType, NameOnly
  <2> QED
    BY <1>1, <1>4, <2>1, <2>2, BranchListed DEF Listing, Alike
<1>5. CASE name \in {"addi", "slti", "addiu", "sltiu"}
  <2>1. RunsIType(i, name) = Of(name, <<Rt(i), Imm(Simm(i)), Rs(i)>>)
    BY <1>5 DEF RunsIType
  <2>2. ListsIType(i, name) = ListsImmediate(i, name)
    BY <1>5 DEF ListsIType, NameOnly
  <2>3. CASE name \in {"addi", "slti"}
    BY <1>1, <2>1, <2>2, <2>3 DEF Listing, OtherOrder, ListsImmediate
  <2>4. CASE name \in {"addiu", "sltiu"}
    BY <1>1, <2>1, <2>2, <2>4 DEF Listing, Unsigned, ListsImmediate
  <2> QED
    BY <1>5, <2>3, <2>4
<1>6. CASE name \in {"andi", "ori", "xori"}
  <2>1. RunsIType(i, name) = Of(name, <<Rt(i), Rs(i), Imm(Uimm(i))>>)
    BY <1>6 DEF RunsIType
  <2>2. ListsIType(i, name) = ListsImmediate(i, name)
    BY <1>6 DEF ListsIType, NameOnly
  <2> QED
    BY <1>1, <1>6, <2>1, <2>2 DEF Listing, Alike, ListsImmediate
<1>7. CASE name \in {"lui", "lwc1", "ldc1", "swc1", "sdc1"}
  <2>1. RunsIType(i, name) = ListsIType(i, name)
    BY <1>7 DEF RunsIType, ListsIType, NameOnly, ListsFpMemory
  <2> QED
    BY <1>1, <1>7, <2>1 DEF Listing, Alike
<1>8. CASE name \notin NameOnly \cup {"beq", "bne", "beql", "bnel", "blez", "bgtz", "blezl", "bgtzl", "addi",
                 "slti", "addiu", "sltiu", "andi", "ori", "xori", "lui", "lwc1", "ldc1", "swc1", "sdc1"}
  <2>1. RunsIType(i, name) = Of(name, <<Rt(i), Imm(Simm(i)), Rs(i)>>)
    BY <1>8 DEF RunsIType
  <2>2. ListsIType(i, name) = Of(name, <<Rt(i), Imm(Simm(i)), Rs(i)>>)
    BY <1>8 DEF ListsIType, ListsMemory
  <2> QED
    BY <1>1, <1>8, <2>1, <2>2 DEF Listing, Alike
<1> QED
  BY <1>2, <1>3, <1>4, <1>5, <1>6, <1>7, <1>8

(* Coprocessor 1: its branches and transfers.                              *)
LEMMA Bc1Listed ==
    ASSUME NEW i \in Instructions, i.op = 17, i.rs = 8, pc \in Nat
    PROVE  Listing(i, RunsCoproc1(i), decodeCoproc1(i))
<1>1. PICK k \in 0 .. 3 : k = i.rt % 4
  BY Fetched
<1>2. Bc1[k + 1] \in {"bc1f", "bc1t", "bc1fl", "bc1tl"}
  BY DEF Bc1
<1>3. RunsCoproc1(i) = Of(Bc1[k + 1], <<<<"fcc", i.rt \div 4>>, Target(i)>>)
  BY <1>1 DEF RunsCoproc1
<1>4. decodeCoproc1(i) = ListsBranch(i, Bc1[k + 1], <<<<"fcc", i.rt \div 4>>>>)
  BY <1>1 DEF decodeCoproc1, ListsBc1, Bc1
<1>5. decodeCoproc1(i) = Of(Bc1[k + 1], <<<<"fcc", i.rt \div 4>>, Target(i)>>)
  BY <1>4, BranchListed
<1> QED
  BY <1>2, <1>3, <1>5 DEF Listing, Alike, Of

(* Moves between the two register files.                                   *)
LEMMA FpTransferListed ==
    ASSUME NEW i \in Instructions, i.op = 17, i.rs \in {0, 4}, i.sa = 0, i.funct = 0
    PROVE  Listing(i, RunsCoproc1(i), decodeCoproc1(i))
<1>1. RunsCoproc1(i) = decodeCoproc1(i)
  BY DEF RunsCoproc1, decodeCoproc1, ListsFpTransfer
<1>2. RunsCoproc1(i).name \in {"mfc1", "mtc1"}
  BY DEF RunsCoproc1, Of
<1> QED
  BY <1>1, <1>2 DEF Listing, Alike

(* What a handler that knows a format lists.                               *)
LEMMA FormatListed ==
    ASSUME NEW i \in Instructions, i.op = 17, NEW formats, NEW name, NEW args, name \notin {"addiu", "sltiu", "clz"},
           InFormats(i, formats, name, args) # Exits
    PROVE  /\ InFormats(i, formats, name, args).name = name
           /\ FormatOf(i) \in formats
           /\ Listing(i, InFormats(i, formats, name, args), Shown(i, formats, name, args))
<1>1. FormatOf(i) \in formats
  BY DEF InFormats
<1>2. InFormats(i, formats, name, args) = [name |-> name, fmt |-> FormatOf(i), args |-> args]
  BY <1>1 DEF InFormats
<1>3. Shown(i, formats, name, args) = [name |-> name, fmt |-> FormatOf(i), args |-> args]
  BY <1>1 DEF Shown
<1> QED
  BY <1>1, <1>2, <1>3 DEF Listing, Alike

(* Floating point of one operand, where some print their name alone.       *)
LEMMA UnaryListed ==
    ASSUME NEW i \in Instructions, i.op = 17, NEW name, name \notin {"addiu", "sltiu", "clz"},
           InFormats(i, {"s", "d"}, name, <<Fd(i), Fs(i)>>) # Exits
    PROVE  Listing(i, InFormats(i, {"s", "d"}, name, <<Fd(i), Fs(i)>>), ListsFpUnary(i, name))
<1>1. CASE name \in NameOnly
  <2>1. InFormats(i, {"s", "d"}, name, <<Fd(i), Fs(i)>>).name = name
    BY FormatListed
  <2>2. ListsFpUnary(i, name) = Of(name, << >>)
    BY <1>1 DEF ListsFpUnary
  <2> QED
    BY <1>1, <2>1, <2>2 DEF Listing, NamedOnly
<1>2. CASE name \notin NameOnly
  BY <1>2, FormatListed DEF ListsFpUnary
<1> QED
  BY <1>1, <1>2

(* Comparisons: the listing has a condition the interpreter has not.       *)
LEMMA CompareListed ==
    ASSUME NEW i \in Instructions, i.op = 17, RunsCompare(i) # Exits
    PROVE  Listing(i, RunsCompare(i), ListsCompare(i))
<1> DEFINE args(c) == <<<<"cond", c>>, <<"fcc", i.sa \div 4>>, Fs(i), Ft(i)>>
<1>1. CASE i.funct % 16 = 1
  <2>1. RunsCompare(i) = InFormats(i, {"s", "d"}, "c", args(2))
    BY <1>1 DEF RunsCompare
  <2>2. FormatOf(i) \in {"s", "d"}
    BY <2>1 DEF InFormats
  <2>3. RunsCompare(i) = [name |-> "c", fmt |-> FormatOf(i), args |-> args(2)]
    BY <2>1, <2>2 DEF InFormats
  <2>4. ListsCompare(i) = [name |-> "c", fmt |-> FormatOf(i), args |-> args(1)]
    BY <1>1, <2>2 DEF ListsCompare, Shown
  <2> QED
    BY <2>2, <2>3, <2>4 DEF Listing, AsEqual
<1>2. CASE i.funct % 16 \in {2, 12, 14}
  <2>1. RunsCompare(i) = InFormats(i, {"s", "d"}, "c", args(i.funct % 16))
    BY <1>2 DEF RunsCompare
  <2>2. ListsCompare(i) = Shown(i, {"s", "d"}, "c", args(i.funct % 16))
    BY DEF ListsCompare
  <2> HIDE DEF args
  <2> QED
    BY <2>1, <2>2, FormatListed
<1>3. CASE i.funct % 16 # 1 /\ i.funct % 16 \notin {2, 12, 14}
  BY <1>3 DEF RunsCompare
<1> QED
  BY <1>1, <1>2, <1>3

(* All of coprocessor 1 that runs.                                         *)
LEMMA Coproc1Listed ==
    ASSUME NEW i \in Instructions, i.op = 17, RunsCoproc1(i) # Exits, pc \in Nat
    PROVE  Listing(i, RunsCoproc1(i), decodeCoproc1(i))
<1> DEFINE f == i.funct
           Transfer == i.rs \in {0, 4} /\ i.sa = 0 /\ f = 0
           r == RunsCoproc1(i)
           s == decodeCoproc1(i)
           Op(name, args) == InFormats(i, {"s", "d"}, name, args)
<1>1. f \in 0 .. 63
  BY Fetched
<1>2. CASE i.rs = 8
  BY <1>2, Bc1Listed
<1>3. CASE Transfer
  BY <1>3, FpTransferListed
<1>4. CASE i.rs # 8 /\ ~ Transfer
  <2>1. CASE f \in 48 .. 63
    <3>1. r = RunsCompare(i) /\ s = ListsCompare(i)
      BY <1>4, <2>1 DEF RunsCoproc1, decodeCoproc1
    <3> QED
      BY <3>1, CompareListed
  <2>2. CASE f \in 0 .. 3
    <3>1. PICK name \in {"add", "sub", "mul", "div"} : name = <<"add", "sub", "mul", "div">>[f + 1]
      BY <2>2
    <3>2. r = Op(name, <<Fd(i), Fs(i), Ft(i)>>)
      BY <1>4, <2>2, <3>1 DEF RunsCoproc1
    <3>3. s = Shown(i, {"s", "d"}, name, <<Fd(i), Fs(i), Ft(i)>>)
      BY <1>4, <2>2, <3>1 DEF decodeCoproc1, ListsFpBinary
    <3> QED
      BY <3>2, <3>3, FormatListed
  <2>3. CASE f \in 4 .. 7
    <3>1. PICK name \in {"sqrt", "abs", "mov", "neg"} : name = <<"sqrt", "abs", "mov", "neg">>[f - 3]
      BY <2>3
    <3>2. r = Op(name, <<Fd(i), Fs(i)>>)
      BY <1>4, <2>3, <3>1 DEF RunsCoproc1
    <3>3. s = ListsFpUnary(i, name)
      BY <1>4, <2>3, <3>1 DEF decodeCoproc1
    <3> QED
      BY <3>2, <3>3, UnaryListed
  <2>4. CASE f = 13
    <3>1. r = Op("truncw", <<Fd(i), Fs(i)>>) /\ s = ListsFpUnary(i, "truncw")
      BY <1>4, <2>4 DEF RunsCoproc1, decodeCoproc1
    <3> QED
      BY <3>1, UnaryListed
  <2>5. CASE f = 17
    <3>1. r = Op("movc", <<<<"fcc", i.rt \div 4>>, Fd(i), Fs(i)>>)
      BY <1>4, <2>5 DEF RunsCoproc1
    <3>2. s = Shown(i, {"s", "d"}, "movc", <<<<"fcc", i.rt \div 4>>, Fd(i), Fs(i)>>)
      BY <1>4, <2>5 DEF decodeCoproc1, ListsFpMove
    <3> QED
      BY <3>1, <3>2, FormatListed
  <2>6. CASE f \in {18, 19}
    <3>1. PICK name \in {"fmovz", "fmovn"} : name = IF f = 18 THEN "fmovz" ELSE "fmovn"
      OBVIOUS
    <3>2. r = Op(name, <<Fd(i), Fs(i), Rt(i)>>)
      BY <1>4, <2>6, <3>1 DEF RunsCoproc1
    <3>3. s = Exits
      BY <1>4, <2>6 DEF decodeCoproc1
    <3>4. r.name = name
      BY <3>2, FormatListed
    <3> QED
      BY <3>3, <3>4 DEF Listing, Ends
  <2>7. CASE f \in {21, 22}
    <3>1. PICK name \in {"recip", "rsqrt"} : name = IF f = 21 THEN "recip" ELSE "rsqrt"
      BY <2>7
    <3>2. r = Op(name, <<Fd(i), Fs(i)>>)
      BY <1>4, <2>7, <3>1 DEF RunsCoproc1
    <3>3. s = ListsFpUnary(i, name)
      BY <1>4, <2>7, <3>1 DEF decodeCoproc1
    <3> QED
      BY <3>2, <3>3, UnaryListed
  <2>8. CASE f = 32
    <3>1. r = InFormats(i, {"d", "w"}, "cvts", <<Fd(i), Fs(i)>>)
      BY <1>4, <2>8 DEF RunsCoproc1
    <3>2. s = Shown(i, {"d", "w"}, "cvts", <<Fd(i), Fs(i)>>)
      BY <1>4, <2>8 DEF decodeCoproc1, ListsConvert
    <3> QED
      BY <3>1, <3>2, FormatListed
  <2>9. CASE f = 33
    <3>1. r = InFormats(i, {"s", "w"}, "cvtd", <<Fd(i), Fs(i)>>)
      BY <1>4, <2>9 DEF RunsCoproc1
    <3>2. s = Shown(i, {"s", "w"}, "cvtd", <<Fd(i), Fs(i)>>)
      BY <1>4, <2>9 DEF decodeCoproc1, ListsConvert
    <3> QED
      BY <3>1, <3>2, FormatListed
  <2>10. CASE f \notin 48 .. 63 /\ f \notin 0 .. 3 /\ f \notin 4 .. 7 /\ f \notin {13, 17, 18, 19, 21, 22, 32, 33}
    BY <1>4, <2>10 DEF RunsCoproc1
  <2> HIDE DEF f, r, s
  <2> QED
    BY <2>1, <2>2, <2>3, <2>4, <2>5, <2>6, <2>7, <2>8, <2>9, <2>10
<1> QED
  BY <1>2, <1>3, <1>4

(* Every instruction that runs.                                            *)
LEMMA RunIsListed ==
    ASSUME NEW i \in Instructions, Runs(i) # Exits, pc \in Nat
    PROVE  Listing(i, Runs(i), getAsmString(i))
<1>1. i.op \in 0 .. 63 /\ i.funct \in 0 .. 63
  BY Fetched
<1>2. CASE i.op = 0
  <2> DEFINE name == RTypeSwitch[i.funct + 1]
  <2>1. Runs(i) = RunsRType(i, name) /\ getAsmString(i) = ListsRType(i, functTbl[i.funct + 1])
    BY <1>2 DEF Runs, getAsmString
  <2>2. name # "-"
    BY <2>1 DEF RunsRType
  <2>3. CASE functTbl[i.funct + 1] = "-" /\ name = "sync"
    <3>1. Runs(i) = Of("sync", << >>)
      BY <2>1, <2>3 DEF RunsRType
    <3>2. getAsmString(i) = Unknown
      BY <2>1, <2>3 DEF ListsRType, NameOnly
    <3> QED
      BY <3>1, <3>2 DEF Listing, Missing, Unlisted, Of
  <2>4. CASE functTbl[i.funct + 1] = name /\ name \notin {"sync", "sub", "tge", "syscall", "addiu", "sltiu", "clz"}
    <3>1. name \notin {"-", "sync", "sub", "tge", "syscall", "addiu", "sltiu", "clz"}
      BY <2>2, <2>4
    <3> HIDE DEF name
    <3> QED
      BY <1>2, <2>1, <2>4, <3>1, RTypeListed
  <2>5. \/ functTbl[i.funct + 1] = "-" /\ name = "sync"
        \/ functTbl[i.funct + 1] = name /\ name \notin {"sync", "sub", "tge", "syscall", "addiu", "sltiu", "clz"}
    BY <1>1, <2>2, RTypeNames
  <2> HIDE DEF name
  <2> QED
    BY <2>3, <2>4, <2>5
<1>3. CASE i.op = 28
  BY <1>3, Special2Listed DEF Runs, getAsmString
<1>4. CASE i.op = 31
  BY <1>4, Special3Listed DEF Runs, getAsmString
<1>5. CASE i.op \in {2, 3}
  <2>1. Runs(i) = getAsmString(i)
    BY <1>5 DEF Runs, getAsmString, ListsJump, JumpTarget
  <2>2. Runs(i).name \in {"j", "jal"}
    BY <1>5 DEF Runs, Of
  <2> QED
    BY <1>5, <2>1, <2>2 DEF Listing, Alike
<1>6. CASE i.op = 16
  BY <1>6, Coproc0Listed DEF Runs, getAsmString
<1>7. CASE i.op = 17
  BY <1>7, Coproc1Listed DEF Runs, getAsmString
<1>8. CASE i.op = 19
  <2>1. Runs(i) = RunsCoproc1x(i)
    BY <1>8 DEF Runs
  <2>2. getAsmString(i) = ListsIType(i, ITypeOpcodeTbl[20])
    BY <1>8 DEF getAsmString
  <2>3. ITypeOpcodeTbl[20] = "-"
    BY DEF ITypeOpcodeTbl
  <2>4. getAsmString(i) = Unknown
    BY <2>2, <2>3 DEF ListsIType, NameOnly
  <2> QED
    BY <1>8, <2>1, <2>4, Coproc1xListed
<1>9. CASE i.op \notin {0, 2, 3, 16, 17, 19, 28, 31}
  <2> DEFINE name == ITypeSwitch[i.op + 1]
             entry == ITypeOpcodeTbl[i.op + 1]
  <2>1. Runs(i) = RunsIType(i, name)
    BY <1>9 DEF Runs
  <2>2. name # "-"
    BY <2>1 DEF RunsIType
  <2>3. i.op # 18
    BY <2>2 DEF ITypeSwitch
  <2>4. getAsmString(i) = ListsIType(i, entry)
    BY <1>9, <2>3 DEF getAsmString
  <2>5. CASE i.op = 1 /\ name = "regimm" /\ entry = "bgez_bltz"
    <3>1. getAsmString(i) = ListsRegimm(i)
      BY <2>4, <2>5 DEF ListsIType, NameOnly
    <3> QED
      BY <2>1, <2>5, <3>1, RegimmListed
  <2>6. CASE entry = "-" /\ name \in {"ll", "sc"}
    <3>1. getAsmString(i) = Unknown
      BY <2>4, <2>6 DEF ListsIType, NameOnly
    <3>2. Runs(i).name = name
      BY <2>1, <2>6 DEF RunsIType, Of
    <3> QED
      BY <2>6, <3>1, <3>2 DEF Listing, Missing, Unlisted
  <2>7. CASE entry = name /\ i.op # 1 /\ name \notin {"regimm", "bgez_bltz", "ll", "sc", "clz", "abs", "break"}
    <3>1. name \notin {"-", "regimm", "bgez_bltz", "ll", "sc", "clz", "abs", "break"}
      BY <2>2, <2>7
    <3> HIDE DEF name, entry
    <3> QED
      BY <2>1, <2>4, <2>7, <3>1, ITypeListed
  <2>8. \/ i.op = 1 /\ name = "regimm" /\ entry = "bgez_bltz"
        \/ entry = "-" /\ name \in {"ll", "sc"}
        \/ entry = name /\ i.op # 1 /\ name \notin {"regimm", "bgez_bltz", "ll", "sc", "clz", "abs", "break"}
    BY <1>1, <2>2, ITypeNames
  <2> HIDE DEF name, entry
  <2> QED
    BY <2>5, <2>6, <2>7, <2>8
<1> QED
  BY <1>1, <1>2, <1>3, <1>4, <1>5, <1>6, <1>7, <1>8, <1>9

-----------------------------------------------------------------------------
(* Registers goes through the operands and keeps those of two kinds.       *)
Keep(s, a) == IF a[1] \in {"r", "f"} THEN Append(s, a) ELSE s
Filter(args, f, n) == IF n = 0 THEN << >> ELSE Keep(f[n - 1], args[n])

(* A recursive function: some function satisfies its equation.             *)
LEMMA RegistersFilter ==
    ASSUME NEW args, NEW f, Len(args) \in Nat,
           f = [n \in 0 .. Len(args) |-> Filter(args, f, n)]
    PROVE  \E g : g = [n \in 0 .. Len(args) |-> Filter(args, g, n)] /\ Registers(args) = g[Len(args)]
<1> DEFINE Body(g) == [n \in 0 .. Len(args) |-> Filter(args, g, n)]
           c == CHOOSE g : g = Body(g)
<1>1. Registers(args) = c[Len(args)]
  BY DEF Registers, Filter, Keep
<1>2. c = Body(c)
  <2>1. \E g : g = Body(g)
    OBVIOUS
  <2> HIDE DEF Body
  <2> QED
    BY <2>1
<1> QED
  BY <1>1, <1>2

(* Three operands, and four.                                               *)
LEMMA RegistersThree ==
    ASSUME NEW a, NEW b, NEW c
    PROVE  Registers(<<a, b, c>>) = Keep(Keep(Keep(<< >>, a), b), c)
<1> DEFINE args == <<a, b, c>>
           r1 == Keep(<< >>, a)
           r2 == Keep(r1, b)
           r3 == Keep(r2, c)
           f == [n \in 0 .. 3 |-> IF n = 0 THEN << >> ELSE IF n = 1 THEN r1 ELSE IF n = 2 THEN r2 ELSE r3]
<1>1. Len(args) = 3 /\ args[1] = a /\ args[2] = b /\ args[3] = c
  OBVIOUS
<1> HIDE DEF args
<1>2. f = [n \in 0 .. 3 |-> Filter(args, f, n)]
  <2> SUFFICES ASSUME NEW n \in 0 .. 3 PROVE f[n] = Filter(args, f, n)
    OBVIOUS
  <2>1. f[0] = << >> /\ f[1] = r1 /\ f[2] = r2 /\ f[3] = r3
    OBVIOUS
  <2> HIDE DEF f
  <2>2. CASE n = 0
    BY <2>1, <2>2 DEF Filter
  <2>3. CASE n = 1
    BY <1>1, <2>1, <2>3 DEF Filter
  <2>4. CASE n = 2
    BY <1>1, <2>1, <2>4 DEF Filter
  <2>5. CASE n = 3
    BY <1>1, <2>1, <2>5 DEF Filter
  <2> QED
    BY <2>2, <2>3, <2>4, <2>5
<1> HIDE DEF f
<1>3. PICK g : g = [n \in 0 .. 3 |-> Filter(args, g, n)] /\ Registers(args) = g[3]
  <2>1. Len(args) \in Nat /\ f = [n \in 0 .. Len(args) |-> Filter(args, f, n)]
    BY <1>1, <1>2
  <2>2. \E g : g = [n \in 0 .. Len(args) |-> Filter(args, g, n)] /\ Registers(args) = g[Len(args)]
    BY <2>1, RegistersFilter, Zenon
  <2> QED
    BY <1>1, <2>2
<1>4. \A n \in 0 .. 3 : g[n] = Filter(args, g, n)
  BY <1>3
<1>5. g[0] = << >>
  BY <1>4 DEF Filter
<1>6. g[1] = r1
  BY <1>1, <1>4, <1>5 DEF Filter
<1>7. g[2] = r2
  BY <1>1, <1>4, <1>6 DEF Filter
<1>8. g[3] = r3
  BY <1>1, <1>4, <1>7 DEF Filter
<1> QED
  BY <1>3, <1>8 DEF args

(* And of four operands.                                                   *)
LEMMA RegistersFour ==
    ASSUME NEW a, NEW b, NEW c, NEW d
    PROVE  Registers(<<a, b, c, d>>) = Keep(Keep(Keep(Keep(<< >>, a), b), c), d)
<1> DEFINE args == <<a, b, c, d>>
           r1 == Keep(<< >>, a)
           r2 == Keep(r1, b)
           r3 == Keep(r2, c)
           r4 == Keep(r3, d)
           f == [n \in 0 .. 4 |-> IF n = 0 THEN << >> ELSE IF n = 1 THEN r1 ELSE IF n = 2 THEN r2
                                      ELSE IF n = 3 THEN r3 ELSE r4]
<1>1. Len(args) = 4 /\ args[1] = a /\ args[2] = b /\ args[3] = c /\ args[4] = d
  OBVIOUS
<1> HIDE DEF args
<1>2. f = [n \in 0 .. 4 |-> Filter(args, f, n)]
  <2> SUFFICES ASSUME NEW n \in 0 .. 4 PROVE f[n] = Filter(args, f, n)
    OBVIOUS
  <2>1. f[0] = << >> /\ f[1] = r1 /\ f[2] = r2 /\ f[3] = r3 /\ f[4] = r4
    OBVIOUS
  <2> HIDE DEF f
  <2>2. CASE n = 0
    BY <2>1, <2>2 DEF Filter
  <2>3. CASE n = 1
    BY <1>1, <2>1, <2>3 DEF Filter
  <2>4. CASE n = 2
    BY <1>1, <2>1, <2>4 DEF Filter
  <2>5. CASE n = 3
    BY <1>1, <2>1, <2>5 DEF Filter
  <2>6. CASE n = 4
    BY <1>1, <2>1, <2>6 DEF Filter
  <2> QED
    BY <2>2, <2>3, <2>4, <2>5, <2>6
<1> HIDE DEF f
<1>3. PICK g : g = [n \in 0 .. 4 |-> Filter(args, g, n)] /\ Registers(args) = g[4]
  <2>1. Len(args) \in Nat /\ f = [n \in 0 .. Len(args) |-> Filter(args, f, n)]
    BY <1>1, <1>2
  <2>2. \E g : g = [n \in 0 .. Len(args) |-> Filter(args, g, n)] /\ Registers(args) = g[Len(args)]
    BY <2>1, RegistersFilter, Zenon
  <2> QED
    BY <1>1, <2>2
<1>4. \A n \in 0 .. 4 : g[n] = Filter(args, g, n)
  BY <1>3
<1>5. g[0] = << >>
  BY <1>4 DEF Filter
<1>6. g[1] = r1
  BY <1>1, <1>4, <1>5 DEF Filter
<1>7. g[2] = r2
  BY <1>1, <1>4, <1>6 DEF Filter
<1>8. g[3] = r3
  BY <1>1, <1>4, <1>7 DEF Filter
<1>9. g[4] = r4
  BY <1>1, <1>4, <1>8 DEF Filter
<1> QED
  BY <1>3, <1>9 DEF args

(* Operands of some kinds among three or four.                             *)
LEMMA ArgsThree ==
    ASSUME NEW name, NEW fmt, NEW a, NEW b, NEW c, NEW kinds
    PROVE  Args([name |-> name, fmt |-> fmt, args |-> <<a, b, c>>], kinds) = {y \in {a, b, c} : y[1] \in kinds}
<1>1. Range(<<a, b, c>>) = {a, b, c}
  BY DEF Range
<1> QED
  BY <1>1 DEF Args

(* And among four.                                                         *)
LEMMA ArgsFour ==
    ASSUME NEW name, NEW fmt, NEW a, NEW b, NEW c, NEW d, NEW kinds
    PROVE  Args([name |-> name, fmt |-> fmt, args |-> <<a, b, c, d>>], kinds)
              = {y \in {a, b, c, d} : y[1] \in kinds}
<1>1. Range(<<a, b, c, d>>) = {a, b, c, d}
  BY DEF Range
<1> QED
  BY <1>1 DEF Args

(* What the parts of ListedAsRun ask of i, run as r and listed as s.       *)
NamesOf(i, r, s) ==
    \/ s.name = r.name /\ (s.name \in NameOnly \/ s.fmt = r.fmt)
    \/ s.name = "nop" /\ r = Of("sll", <<<<"r", 0>>, <<"r", 0>>, Imm(0)>>)
    \/ s = Unknown /\ r.name \in Unlisted
    \/ s = Exits /\ (r.name \in {"seb", "fmovz", "fmovn"} \/ (i.op = 1 /\ i.rt > 3))
RegistersOf(r, s) ==
    s.name = r.name /\ s.name \notin NameOnly \cup {"clz"} =>
        /\ Registers(s.args) = Registers(r.args)
        /\ Args(s, {"fcc", "cp0"}) = Args(r, {"fcc", "cp0"})
        /\ \/ Args(s, {"cond"}) = Args(r, {"cond"})
           \/ Args(s, {"cond"}) = {<<"cond", 1>>} /\ Args(r, {"cond"}) = {<<"cond", 2>>}
ImmediatesOf(r, s) ==
    s.name = r.name /\ s.name \notin NameOnly =>
        \/ s.name \notin {"addiu", "sltiu"} /\ Args(s, {"imm"}) = Args(r, {"imm"})
        \/ s.name \in {"addiu", "sltiu"} /\ WithoutSign(s, r)
TargetsOf(r, s) == s # Exits /\ r.name \in Transfers => Args(s, {"to"}) = Args(r, {"to"})
SurvivesOf(i, r, s) == r.name \in Transfers => (s = Exits <=> (i.op = 1 /\ i.rt > 3))
AllOf(i, r, s) ==
    NamesOf(i, r, s) /\ RegistersOf(r, s) /\ ImmediatesOf(r, s) /\ TargetsOf(r, s) /\ SurvivesOf(i, r, s)

(* The low half of a word.                                                 *)
LEMMA UimmRange ==
    ASSUME NEW i \in Instructions
    PROVE  Uimm(i) \in Int /\ 0 <= Uimm(i) /\ Uimm(i) < 65536
<1>1. i.rd \in 0 .. 31 /\ i.sa \in 0 .. 31 /\ i.funct \in 0 .. 63
  BY Fetched
<1>2. PICK a \in 0 .. 31 : a = i.rd
  BY <1>1
<1>3. PICK b \in 0 .. 31 : b = i.sa
  BY <1>1
<1>4. PICK c \in 0 .. 63 : c = i.funct
  BY <1>1
<1>5. Uimm(i) = a * 2048 + b * 64 + c
  BY <1>2, <1>3, <1>4 DEF Uimm
<1>6. a * 2048 + b * 64 + c \in Int /\ 0 <= a * 2048 + b * 64 + c /\ a * 2048 + b * 64 + c < 65536
  OBVIOUS
<1> QED
  BY <1>5, <1>6

(* Another name, and no transfer: only the names are compared.             *)
LEMMA OtherNameAgrees ==
    ASSUME NEW i, NEW r, NEW s, NamesOf(i, r, s), s.name # r.name, r.name \notin Transfers
    PROVE  AllOf(i, r, s)
<1>1. RegistersOf(r, s)
  BY DEF RegistersOf
<1>2. ImmediatesOf(r, s)
  BY DEF ImmediatesOf
<1>3. TargetsOf(r, s)
  BY DEF TargetsOf
<1>4. SurvivesOf(i, r, s)
  BY DEF SurvivesOf
<1> QED
  BY <1>1, <1>2, <1>3, <1>4 DEF AllOf

(* One name, and no transfer: the operands are compared, by kind.          *)
LEMMA SameNameAgrees ==
    ASSUME NEW i, NEW r, NEW s, s.name = r.name, s.fmt = r.fmt, r.name \notin Transfers,
           RegistersOf(r, s), ImmediatesOf(r, s)
    PROVE  AllOf(i, r, s)
<1>1. NamesOf(i, r, s)
  BY DEF NamesOf
<1>2. TargetsOf(r, s)
  BY DEF TargetsOf
<1>3. SurvivesOf(i, r, s)
  BY DEF SurvivesOf
<1> QED
  BY <1>1, <1>2, <1>3 DEF AllOf

(* The outcomes with one name and one list of operands, or with no name.   *)
LEMMA AlikeAgrees ==
    ASSUME NEW i, NEW r, NEW s, r # Exits, Alike(i, r, s)
    PROVE  AllOf(i, r, s)
<1>1. s = r /\ r.name \notin {"addiu", "sltiu", "clz"} /\ ~ (i.op = 1 /\ i.rt > 3)
  BY DEF Alike
<1>2. NamesOf(i, r, s)
  BY <1>1 DEF NamesOf
<1>3. RegistersOf(r, s)
  BY <1>1 DEF RegistersOf
<1>4. ImmediatesOf(r, s)
  BY <1>1 DEF ImmediatesOf
<1>5. TargetsOf(r, s)
  BY <1>1 DEF TargetsOf
<1>6. SurvivesOf(i, r, s)
  BY <1>1 DEF SurvivesOf
<1> QED
  BY <1>2, <1>3, <1>4, <1>5, <1>6 DEF AllOf

(* The functions that print their name alone.                              *)
LEMMA NamedOnlyAgrees ==
    ASSUME NEW i, NEW r, NEW s, NamedOnly(r, s)
    PROVE  AllOf(i, r, s)
<1>1. s.name = r.name /\ s.name \in NameOnly
  BY DEF NamedOnly, Of
<1>2. r.name \notin Transfers
  BY <1>1 DEF NameOnly, Transfers
<1>3. NamesOf(i, r, s)
  BY <1>1 DEF NamesOf
<1>4. RegistersOf(r, s)
  BY <1>1 DEF RegistersOf
<1>5. ImmediatesOf(r, s)
  BY <1>1 DEF ImmediatesOf
<1>6. TargetsOf(r, s)
  BY <1>2 DEF TargetsOf
<1>7. SurvivesOf(i, r, s)
  BY <1>2 DEF SurvivesOf
<1> QED
  BY <1>3, <1>4, <1>5, <1>6, <1>7 DEF AllOf

(* sll of register 0 by 0.                                                 *)
LEMMA NopAgrees ==
    ASSUME NEW i, NEW r, NEW s, AsNop(r, s)
    PROVE  AllOf(i, r, s)
<1>1. s.name = "nop" /\ r.name = "sll" /\ r = Of("sll", <<<<"r", 0>>, <<"r", 0>>, Imm(0)>>)
  BY DEF AsNop, Of
<1>2. NamesOf(i, r, s)
  BY <1>1 DEF NamesOf
<1>3. r.name \notin Transfers
  BY <1>1 DEF Transfers
<1> QED
  BY <1>1, <1>2, <1>3, OtherNameAgrees

(* A name with no entry in the tables.                                     *)
LEMMA MissingAgrees ==
    ASSUME NEW i, NEW r, NEW s, Missing(r, s)
    PROVE  AllOf(i, r, s)
<1>1. s.name = "unknown" /\ s = Unknown /\ r.name \in Unlisted
  BY DEF Missing, Unknown, Of
<1>2. r.name # "unknown" /\ r.name \notin Transfers
  BY <1>1 DEF Unlisted, Transfers
<1>3. NamesOf(i, r, s)
  BY <1>1 DEF NamesOf
<1> QED
  BY <1>1, <1>2, <1>3, OtherNameAgrees

(* A listing that ends.                                                    *)
LEMMA EndsAgrees ==
    ASSUME NEW i, NEW r, NEW s, Ends(i, r, s)
    PROVE  AllOf(i, r, s)
<1>1. s.name = "exit" /\ s = Exits
  BY DEF Ends, Exits
<1>2. CASE r.name \in {"seb", "fmovz", "fmovn"}
  <2>1. r.name # "exit" /\ r.name \notin Transfers
    BY <1>2 DEF Transfers
  <2>2. NamesOf(i, r, s)
    BY <1>1, <1>2 DEF NamesOf
  <2> QED
    BY <1>1, <2>1, <2>2, OtherNameAgrees
<1>3. CASE i.op = 1 /\ i.rt > 3 /\ r.name \in {"bltz", "bgez", "bltzl", "bgezl"}
  <2>1. NamesOf(i, r, s)
    BY <1>1, <1>3 DEF NamesOf
  <2>2. s.name # r.name
    BY <1>1, <1>3
  <2>3. RegistersOf(r, s)
    BY <2>2 DEF RegistersOf
  <2>4. ImmediatesOf(r, s)
    BY <2>2 DEF ImmediatesOf
  <2>5. TargetsOf(r, s)
    BY <1>1 DEF TargetsOf
  <2>6. SurvivesOf(i, r, s)
    BY <1>1, <1>3 DEF SurvivesOf
  <2> QED
    BY <2>1, <2>3, <2>4, <2>5, <2>6 DEF AllOf
<1> QED
  BY <1>2, <1>3 DEF Ends

(* clz, the comparisons, and the immediates.                               *)
LEMMA SourceAgrees ==
    ASSUME NEW i, NEW r, NEW s, OtherSource(i, r, s)
    PROVE  AllOf(i, r, s)
<1>1. s.name = "clz" /\ r.name = "clz" /\ s.fmt = r.fmt
  BY DEF OtherSource, Of
<1>2. Args(r, {"imm"}) = {} /\ Args(s, {"imm"}) = {}
  <2>1. Range(r.args) = {Rd(i), Rs(i)} /\ Range(s.args) = {Rd(i), Rt(i)}
    BY DEF OtherSource, Of, Range
  <2> QED
    BY <2>1 DEF Args, Rd, Rs, Rt
<1>3. "clz" \notin NameOnly /\ "clz" \notin Transfers
  BY DEF NameOnly, Transfers
<1>4. RegistersOf(r, s)
  BY <1>1 DEF RegistersOf
<1>5. ImmediatesOf(r, s)
  BY <1>1, <1>2 DEF ImmediatesOf
<1> QED
  BY <1>1, <1>3, <1>4, <1>5, SameNameAgrees

(* c.un, run as c.eq.                                                      *)
LEMMA EqualAgrees ==
    ASSUME NEW i, NEW r, NEW s, AsEqual(i, r, s)
    PROVE  AllOf(i, r, s)
<1> DEFINE fcc == <<"fcc", i.sa \div 4>>
<1>1. PICK fmt : /\ r = [name |-> "c", fmt |-> fmt, args |-> <<<<"cond", 2>>, fcc, Fs(i), Ft(i)>>]
                 /\ s = [name |-> "c", fmt |-> fmt, args |-> <<<<"cond", 1>>, fcc, Fs(i), Ft(i)>>]
  BY DEF AsEqual
<1>2. s.name = "c" /\ r.name = "c" /\ s.fmt = r.fmt
  BY <1>1
<1>3. \A kinds : /\ Args(r, kinds) = {y \in {<<"cond", 2>>, fcc, Fs(i), Ft(i)} : y[1] \in kinds}
                 /\ Args(s, kinds) = {y \in {<<"cond", 1>>, fcc, Fs(i), Ft(i)} : y[1] \in kinds}
  BY <1>1, ArgsFour
<1>4. /\ <<"cond", 1>>[1] = "cond" /\ <<"cond", 2>>[1] = "cond"
      /\ fcc[1] = "fcc" /\ Fs(i)[1] = "f" /\ Ft(i)[1] = "f"
  BY DEF Fs, Ft
<1>5. Args(s, {"cond"}) = {<<"cond", 1>>} /\ Args(r, {"cond"}) = {<<"cond", 2>>}
  BY <1>3, <1>4
<1>6. Args(s, {"fcc", "cp0"}) = {fcc} /\ Args(r, {"fcc", "cp0"}) = {fcc}
  BY <1>3, <1>4
<1>7. Args(s, {"imm"}) = {} /\ Args(r, {"imm"}) = {}
  BY <1>3, <1>4
<1>8. Registers(s.args) = Registers(r.args)
  <2>1. Registers(s.args) = Keep(Keep(Keep(Keep(<< >>, <<"cond", 1>>), fcc), Fs(i)), Ft(i))
    BY <1>1, RegistersFour
  <2>2. Registers(r.args) = Keep(Keep(Keep(Keep(<< >>, <<"cond", 2>>), fcc), Fs(i)), Ft(i))
    BY <1>1, RegistersFour
  <2>3. Keep(<< >>, <<"cond", 1>>) = << >> /\ Keep(<< >>, <<"cond", 2>>) = << >>
    BY DEF Keep
  <2> QED
    BY <2>1, <2>2, <2>3
<1> QED
  <2>1. RegistersOf(r, s)
    BY <1>5, <1>6, <1>8 DEF RegistersOf
  <2>2. ImmediatesOf(r, s)
    BY <1>2, <1>7 DEF ImmediatesOf
  <2>3. r.name \notin Transfers
    BY <1>2 DEF Transfers
  <2> QED
    BY <1>2, <2>1, <2>2, <2>3, SameNameAgrees

(* Three operands of which the last two are swapped.                       *)
LEMMA ImmediateOperands ==
    ASSUME NEW i, NEW name, NEW m, NEW n, NEW r, NEW s,
           r = Of(name, <<Rt(i), Imm(m), Rs(i)>>), s = Of(name, <<Rt(i), Rs(i), Imm(n)>>)
    PROVE  /\ Registers(s.args) = Registers(r.args)
           /\ Args(s, {"fcc", "cp0"}) = Args(r, {"fcc", "cp0"}) /\ Args(s, {"cond"}) = Args(r, {"cond"})
           /\ Args(s, {"imm"}) = {Imm(n)} /\ Args(r, {"imm"}) = {Imm(m)}
<1>1. /\ r = [name |-> name, fmt |-> "-", args |-> <<Rt(i), Imm(m), Rs(i)>>]
      /\ s = [name |-> name, fmt |-> "-", args |-> <<Rt(i), Rs(i), Imm(n)>>]
  BY DEF Of
<1>2. \A kinds : /\ Args(r, kinds) = {y \in {Rt(i), Imm(m), Rs(i)} : y[1] \in kinds}
                 /\ Args(s, kinds) = {y \in {Rt(i), Rs(i), Imm(n)} : y[1] \in kinds}
  BY <1>1, ArgsThree
<1>3. Rt(i)[1] = "r" /\ Rs(i)[1] = "r" /\ Imm(m)[1] = "imm" /\ Imm(n)[1] = "imm"
  BY DEF Rt, Rs, Imm
<1>4. Args(s, {"imm"}) = {Imm(n)} /\ Args(r, {"imm"}) = {Imm(m)}
  BY <1>2, <1>3
<1>5. /\ Args(s, {"fcc", "cp0"}) = {} /\ Args(r, {"fcc", "cp0"}) = {}
      /\ Args(s, {"cond"}) = {} /\ Args(r, {"cond"}) = {}
  BY <1>2, <1>3
<1>6. Registers(s.args) = Registers(r.args)
  <2>1. Registers(s.args) = Keep(Keep(Keep(<< >>, Rt(i)), Rs(i)), Imm(n))
    BY <1>1, RegistersThree
  <2>2. Registers(r.args) = Keep(Keep(Keep(<< >>, Rt(i)), Imm(m)), Rs(i))
    BY <1>1, RegistersThree
  <2>3. \A x : Keep(x, Imm(n)) = x /\ Keep(x, Imm(m)) = x
    BY <1>3 DEF Keep
  <2> QED
    BY <2>1, <2>2, <2>3
<1> QED
  BY <1>4, <1>5, <1>6

(* addi and slti are listed with their immediate last.                     *)
LEMMA OrderAgrees ==
    ASSUME NEW i, NEW r, NEW s, OtherOrder(i, r, s)
    PROVE  AllOf(i, r, s)
<1>1. PICK name \in {"addi", "slti"} :
         r = Of(name, <<Rt(i), Imm(Simm(i)), Rs(i)>>) /\ s = Of(name, <<Rt(i), Rs(i), Imm(Simm(i))>>)
  BY DEF OtherOrder
<1>2. s.name = name /\ r.name = name /\ s.fmt = r.fmt
  BY <1>1 DEF Of
<1>3. /\ Registers(s.args) = Registers(r.args)
      /\ Args(s, {"fcc", "cp0"}) = Args(r, {"fcc", "cp0"}) /\ Args(s, {"cond"}) = Args(r, {"cond"})
      /\ Args(s, {"imm"}) = {Imm(Simm(i))} /\ Args(r, {"imm"}) = {Imm(Simm(i))}
  BY <1>1, ImmediateOperands
<1> QED
  <2>1. RegistersOf(r, s)
    BY <1>3 DEF RegistersOf
  <2>2. ImmediatesOf(r, s)
    BY <1>2, <1>3 DEF ImmediatesOf
  <2>3. r.name \notin Transfers
    BY <1>2 DEF Transfers
  <2> QED
    BY <1>2, <2>1, <2>2, <2>3, SameNameAgrees

(* And addiu and sltiu without its sign.                                   *)
LEMMA UnsignedAgrees ==
    ASSUME NEW i \in Instructions, NEW r, NEW s, Unsigned(i, r, s)
    PROVE  AllOf(i, r, s)
<1>1. PICK name \in {"addiu", "sltiu"} :
         r = Of(name, <<Rt(i), Imm(Simm(i)), Rs(i)>>) /\ s = Of(name, <<Rt(i), Rs(i), Imm(Uimm(i))>>)
  BY DEF Unsigned
<1>2. s.name = name /\ r.name = name /\ s.fmt = r.fmt
  BY <1>1 DEF Of
<1>3. /\ Registers(s.args) = Registers(r.args)
      /\ Args(s, {"fcc", "cp0"}) = Args(r, {"fcc", "cp0"}) /\ Args(s, {"cond"}) = Args(r, {"cond"})
      /\ Args(s, {"imm"}) = {Imm(Uimm(i))} /\ Args(r, {"imm"}) = {Imm(Simm(i))}
  BY <1>1, ImmediateOperands
<1>4. Imm(Uimm(i))[2] = Uimm(i)
  BY DEF Imm
<1>5. WithoutSign(s, r)
  BY <1>3, <1>4, UimmRange DEF WithoutSign, Simm
<1> QED
  <2>1. RegistersOf(r, s)
    BY <1>3 DEF RegistersOf
  <2>2. ImmediatesOf(r, s)
    BY <1>2, <1>5 DEF ImmediatesOf
  <2>3. r.name \notin Transfers
    BY <1>2 DEF Transfers
  <2> QED
    BY <1>2, <2>1, <2>2, <2>3, SameNameAgrees

(* So what is listed and what ran agree, whatever the outcome.             *)
LEMMA ListingAgrees ==
    ASSUME NEW i \in Instructions, NEW r, NEW s, r # Exits, Listing(i, r, s)
    PROVE  AllOf(i, r, s)
<1>1. CASE Alike(i, r, s)
  BY <1>1, AlikeAgrees
<1>2. CASE NamedOnly(r, s)
  BY <1>2, NamedOnlyAgrees
<1>3. CASE AsNop(r, s)
  BY <1>3, NopAgrees
<1>4. CASE Missing(r, s)
  BY <1>4, MissingAgrees
<1>5. CASE Ends(i, r, s)
  BY <1>5, EndsAgrees
<1>6. CASE OtherSource(i, r, s)
  BY <1>6, SourceAgrees
<1>7. CASE AsEqual(i, r, s)
  BY <1>7, EqualAgrees
<1>8. CASE OtherOrder(i, r, s)
  BY <1>8, OrderAgrees
<1>9. CASE Unsigned(i, r, s)
  BY <1>9, UnsignedAgrees
<1> QED
  BY <1>1, <1>2, <1>3, <1>4, <1>5, <1>6, <1>7, <1>8, <1>9 DEF Listing

-----------------------------------------------------------------------------
(* The names the switches run under, and which of them are transfers.      *)
LEMMA TableTransfers ==
    /\ \A f \in 0 .. 63 : RTypeSwitch[f + 1] \in Transfers <=> f \in {8, 9}
    /\ \A o \in 0 .. 63 : ITypeSwitch[o + 1] # "regimm" =>
          (ITypeSwitch[o + 1] \in Transfers <=> o \in {4, 5, 6, 7, 20, 21, 22, 23})
    /\ \A o \in 0 .. 63 : ITypeSwitch[o + 1] = "regimm" <=> o = 1
<1>1. \A f \in 0 .. 63 : RTypeSwitch[f + 1] \in Transfers <=> f \in {8, 9}
  BY DEF RTypeSwitch, Transfers
<1>2. \A o \in 0 .. 63 : ITypeSwitch[o + 1] # "regimm" =>
          (ITypeSwitch[o + 1] \in Transfers <=> o \in {4, 5, 6, 7, 20, 21, 22, 23})
  BY DEF ITypeSwitch, Transfers
<1>3. \A o \in 0 .. 63 : ITypeSwitch[o + 1] = "regimm" <=> o = 1
  BY DEF ITypeSwitch
<1> QED
  BY <1>1, <1>2, <1>3

(* The R-type switch runs under the name of its table.                     *)
LEMMA RTypeNamed ==
    ASSUME NEW i, NEW name, name # "-"
    PROVE  RunsRType(i, name).name = name
BY DEF RunsRType, Of

(* And the I-type switch, but for the REGIMM branches.                     *)
LEMMA ITypeNamed ==
    ASSUME NEW i, NEW name, name \notin {"-", "regimm"}
    PROVE  RunsIType(i, name).name = name
BY DEF RunsIType, Of

(* What the coprocessors and the special codes run is no transfer, but for *)
(* the branches on a condition of coprocessor 1.                           *)
LEMMA SpecialStays ==
    ASSUME NEW i
    PROVE  /\ RunsSpecial2(i) = Exits \/ RunsSpecial2(i).name \notin Transfers
           /\ RunsSpecial3(i) = Exits \/ RunsSpecial3(i).name \notin Transfers
           /\ RunsCoproc0(i) = Exits \/ RunsCoproc0(i).name \notin Transfers
           /\ RunsCoproc1x(i) = Exits \/ RunsCoproc1x(i).name \notin Transfers
<1>1. RunsSpecial2(i) = Exits \/ RunsSpecial2(i).name \in {"madd", "maddu", "mul", "msub", "clz"}
  BY DEF RunsSpecial2, Of
<1>2. RunsSpecial3(i) = Exits \/ RunsSpecial3(i).name \in {"seb", "seh", "ext", "ins"}
  BY DEF RunsSpecial3, Of
<1>3. RunsCoproc0(i) = Exits \/ RunsCoproc0(i).name \in {"mfc0", "mtc0"}
  BY DEF RunsCoproc0, Of
<1>4. RunsCoproc1x(i) = Exits \/ RunsCoproc1x(i).name \in {"lwxc1", "ldxc1", "fmadd", "fmsub"}
  <2>1. CASE i.funct \in {0, 1}
    <3>1. <<"lwxc1", "ldxc1">>[i.funct + 1] \in {"lwxc1", "ldxc1"}
      BY <2>1
    <3>2. RunsCoproc1x(i).name = <<"lwxc1", "ldxc1">>[i.funct + 1]
      BY <2>1 DEF RunsCoproc1x, Of
    <3> QED
      BY <3>1, <3>2
  <2>2. CASE i.funct \notin {0, 1} /\ i.funct % 8 \in {0, 1} /\ i.funct \div 8 \in {4, 5}
    BY <2>2 DEF RunsCoproc1x
  <2>3. CASE i.funct \notin {0, 1} /\ ~ (i.funct % 8 \in {0, 1} /\ i.funct \div 8 \in {4, 5})
    BY <2>3 DEF RunsCoproc1x
  <2> QED
    BY <2>1, <2>2, <2>3
<1> QED
  BY <1>1, <1>2, <1>3, <1>4 DEF Transfers

(* Instructions on formats keep their name or give up.                     *)
LEMMA FormatsStay ==
    ASSUME NEW i, NEW formats, NEW name, NEW args, name \notin Transfers
    PROVE  InFormats(i, formats, name, args) = Exits \/ InFormats(i, formats, name, args).name \notin Transfers
BY DEF InFormats

(* Coprocessor 1 without its branches.                                     *)
LEMMA Coproc1Stays ==
    ASSUME NEW i \in Instructions, i.rs # 8
    PROVE  RunsCoproc1(i) = Exits \/ RunsCoproc1(i).name \notin Transfers
<1> DEFINE f == i.funct
<1>1. f \in 0 .. 63
  BY Fetched
<1>2. CASE i.rs \in {0, 4} /\ i.sa = 0 /\ f = 0
  <2>1. RunsCoproc1(i).name \in {"mfc1", "mtc1"}
    BY <1>2 DEF RunsCoproc1, Of
  <2> QED
    BY <2>1 DEF Transfers
<1>3. CASE ~ (i.rs \in {0, 4} /\ i.sa = 0 /\ f = 0)
  <2>1. CASE f \in 48 .. 63
    <3>1. RunsCoproc1(i) = RunsCompare(i)
      BY <1>3, <2>1 DEF RunsCoproc1
    <3>2. RunsCompare(i) = Exits \/ RunsCompare(i).name = "c"
      BY DEF RunsCompare, InFormats
    <3> QED
      BY <3>1, <3>2 DEF Transfers
  <2>2. CASE f \in 0 .. 3
    <3>1. PICK name \in {"add", "sub", "mul", "div"} : name = <<"add", "sub", "mul", "div">>[f + 1]
      BY <2>2
    <3>2. RunsCoproc1(i) = InFormats(i, {"s", "d"}, name, <<Fd(i), Fs(i), Ft(i)>>)
      BY <1>3, <2>2, <3>1 DEF RunsCoproc1
    <3>3. name \notin Transfers
      BY DEF Transfers
    <3> QED
      BY <3>2, <3>3, FormatsStay
  <2>3. CASE f \in 4 .. 7
    <3>1. PICK name \in {"sqrt", "abs", "mov", "neg"} : name = <<"sqrt", "abs", "mov", "neg">>[f - 3]
      BY <2>3
    <3>2. RunsCoproc1(i) = InFormats(i, {"s", "d"}, name, <<Fd(i), Fs(i)>>)
      BY <1>3, <2>3, <3>1 DEF RunsCoproc1
    <3>3. name \notin Transfers
      BY DEF Transfers
    <3> QED
      BY <3>2, <3>3, FormatsStay
  <2>4. CASE f = 13
    <3>1. RunsCoproc1(i) = InFormats(i, {"s", "d"}, "truncw", <<Fd(i), Fs(i)>>)
      BY <1>3, <2>4 DEF RunsCoproc1
    <3>2. "truncw" \notin Transfers
      BY DEF Transfers
    <3> QED
      BY <3>1, <3>2, FormatsStay
  <2>5. CASE f = 17
    <3>1. RunsCoproc1(i) = InFormats(i, {"s", "d"}, "movc", <<<<"fcc", i.rt \div 4>>, Fd(i), Fs(i)>>)
      BY <1>3, <2>5 DEF RunsCoproc1
    <3>2. "movc" \notin Transfers
      BY DEF Transfers
    <3> QED
      BY <3>1, <3>2, FormatsStay
  <2>6. CASE f \in {18, 19}
    <3>1. PICK name \in {"fmovz", "fmovn"} : name = IF f = 18 THEN "fmovz" ELSE "fmovn"
      BY <2>6
    <3>2. RunsCoproc1(i) = InFormats(i, {"s", "d"}, name, <<Fd(i), Fs(i), Rt(i)>>)
      BY <1>3, <2>6, <3>1 DEF RunsCoproc1
    <3>3. name \notin Transfers
      BY DEF Transfers
    <3> QED
      BY <3>2, <3>3, FormatsStay
  <2>7. CASE f \in {21, 22}
    <3>1. PICK name \in {"recip", "rsqrt"} : name = IF f = 21 THEN "recip" ELSE "rsqrt"
      BY <2>7
    <3>2. RunsCoproc1(i) = InFormats(i, {"s", "d"}, name, <<Fd(i), Fs(i)>>)
      BY <1>3, <2>7, <3>1 DEF RunsCoproc1
    <3>3. name \notin Transfers
      BY DEF Transfers
    <3> QED
      BY <3>2, <3>3, FormatsStay
  <2>8. CASE f = 32
    <3>1. RunsCoproc1(i) = InFormats(i, {"d", "w"}, "cvts", <<Fd(i), Fs(i)>>)
      BY <1>3, <2>8 DEF RunsCoproc1
    <3>2. "cvts" \notin Transfers
      BY DEF Transfers
    <3> QED
      BY <3>1, <3>2, FormatsStay
  <2>9. CASE f = 33
    <3>1. RunsCoproc1(i) = InFormats(i, {"s", "w"}, "cvtd", <<Fd(i), Fs(i)>>)
      BY <1>3, <2>9 DEF RunsCoproc1
    <3>2. "cvtd" \notin Transfers
      BY DEF Transfers
    <3> QED
      BY <3>1, <3>2, FormatsStay
  <2>10. CASE f \notin (0 .. 7) \cup {13, 17, 18, 19, 21, 22, 32, 33} \cup (48 .. 63)
    <3>1. RunsCoproc1(i) = Exits
      BY <1>1, <1>3, <2>10 DEF RunsCoproc1
    <3> QED
      BY <3>1
  <2> QED
    BY <1>1, <2>1, <2>2, <2>3, <2>4, <2>5, <2>6, <2>7, <2>8, <2>9, <2>10
<1> QED
  BY <1>2, <1>3

(* isBranchOrJump tells the transfers among the instructions that run.     *)
LEMMA SlotsTold ==
    ASSUME NEW i \in Instructions, Runs(i) # Exits
    PROVE  isBranchOrJump(i) <=> Runs(i).name \in Transfers
<1>1. i.op \in 0 .. 63 /\ i.funct \in 0 .. 63 /\ i.rt \in 0 .. 31
  BY Fetched
<1>2. CASE i.op = 0
  <2> DEFINE name == RTypeSwitch[i.funct + 1]
  <2>1. Runs(i) = RunsRType(i, name)
    BY <1>2 DEF Runs
  <2>2. name # "-"
    BY <2>1 DEF RunsRType
  <2>3. name \in Transfers <=> i.funct \in {8, 9}
    BY <1>1, TableTransfers
  <2> HIDE DEF name
  <2>4. Runs(i).name = name
    BY <2>1, <2>2, RTypeNamed
  <2> QED
    BY <1>2, <2>3, <2>4 DEF isBranchOrJump
<1>3. CASE i.op \in {28, 31, 16, 19}
  <2>1. \/ Runs(i) = RunsSpecial2(i) \/ Runs(i) = RunsSpecial3(i)
        \/ Runs(i) = RunsCoproc0(i) \/ Runs(i) = RunsCoproc1x(i)
    BY <1>3 DEF Runs
  <2>2. Runs(i).name \notin Transfers
    BY <2>1, SpecialStays
  <2> QED
    BY <1>3, <2>2 DEF isBranchOrJump
<1>4. CASE i.op \in {2, 3}
  <2>1. Runs(i).name \in {"j", "jal"}
    BY <1>4 DEF Runs, Of
  <2> QED
    BY <1>4, <2>1 DEF isBranchOrJump, Transfers
<1>5. CASE i.op = 17 /\ i.rs = 8
  <2>1. PICK k \in 0 .. 3 : k = i.rt % 4
    BY <1>1
  <2>2. Runs(i).name = Bc1[k + 1]
    BY <1>5, <2>1 DEF Runs, RunsCoproc1, Of
  <2>3. Bc1[k + 1] \in Transfers
    BY DEF Bc1, Transfers
  <2> QED
    BY <1>5, <2>2, <2>3 DEF isBranchOrJump
<1>6. CASE i.op = 17 /\ i.rs # 8
  <2>1. Runs(i) = RunsCoproc1(i)
    BY <1>6 DEF Runs
  <2>2. Runs(i).name \notin Transfers
    BY <1>6, <2>1, Coproc1Stays
  <2> QED
    BY <1>6, <2>2 DEF isBranchOrJump
<1>7. CASE i.op = 1
  <2>1. PICK k \in 0 .. 3 : k = i.rt % 4
    BY <1>1
  <2>2. Runs(i) = RunsIType(i, "regimm")
    BY <1>1, <1>7, TableTransfers DEF Runs
  <2>3. Runs(i).name = Regimm[k + 1]
    BY <2>1, <2>2 DEF RunsIType, Of
  <2>4. Regimm[k + 1] \in Transfers
    BY DEF Regimm, Transfers
  <2> QED
    BY <1>7, <2>3, <2>4 DEF isBranchOrJump
<1>8. CASE i.op \notin {0, 1, 2, 3, 16, 17, 19, 28, 31}
  <2> DEFINE name == ITypeSwitch[i.op + 1]
  <2>1. Runs(i) = RunsIType(i, name)
    BY <1>8 DEF Runs
  <2>2. name # "-"
    BY <2>1 DEF RunsIType
  <2>3. name # "regimm" /\ (name \in Transfers <=> i.op \in {4, 5, 6, 7, 20, 21, 22, 23})
    BY <1>1, <1>8, TableTransfers
  <2> HIDE DEF name
  <2>4. Runs(i).name = name
    BY <2>1, <2>2, <2>3, ITypeNamed
  <2> QED
    BY <1>8, <2>3, <2>4 DEF isBranchOrJump
<1> QED
  BY <1>2, <1>3, <1>4, <1>5, <1>6, <1>7, <1>8

(* What ran is what the switch makes of inst, and what is listed is what   *)
(* the tables make of it, once it ran.                                     *)
DecodeInv ==
    /\ inst \in Instructions /\ pc \in Nat
    /\ ran \in {NotYet, Runs(inst)}
    /\ Listed => ran # NotYet /\ ran # Exits /\ shown = getAsmString(inst)

(* Holds of every instruction, from every address and in both byte orders. *)
THEOREM DecodeInvariant == DecodeSpec => []DecodeInv
<1>1. DecodeInit => DecodeInv
  BY DecoderAssumption DEF DecodeInit, DecodeInv, Listed
<1>2. DecodeInv /\ [DecodeNext]_decodeVars => DecodeInv'
  <2> SUFFICES ASSUME DecodeInv, [DecodeNext]_decodeVars PROVE DecodeInv'
    OBVIOUS
  <2>1. inst' = inst /\ pc' = pc /\ isMipsEL' = isMipsEL
    BY DEF DecodeNext, Execute, List, decodeVars
  <2>2. Runs(inst)' = Runs(inst)
    BY <2>1 DEF Runs, RunsIType, RunsCoproc1, JumpTarget, Target
  <2>3. getAsmString(inst)' = getAsmString(inst)
    BY <2>1 DEF getAsmString, ListsJump, ListsIType, ListsRegimm, ListsBranch, decodeCoproc1, ListsBc1
  <2>4. CASE Execute
    BY <2>1, <2>2, <2>3, <2>4 DEF Execute, DecodeInv, Listed
  <2>5. CASE List
    BY <2>1, <2>2, <2>3, <2>5 DEF List, DecodeInv, Listed
  <2>6. CASE UNCHANGED decodeVars
    BY <2>1, <2>2, <2>3, <2>6 DEF decodeVars, DecodeInv, Listed
  <2> QED
    BY <2>4, <2>5, <2>6 DEF DecodeNext
<1> QED
  BY <1>1, <1>2, PTL DEF DecodeSpec

(* Once an instruction is listed, the listing and the run agree.           *)
LEMMA InvariantAgrees == DecodeInv => ListedAsRun
<1> SUFFICES ASSUME DecodeInv PROVE ListedAsRun
  OBVIOUS
<1>1. CASE Listed
  <2>1. ran = Runs(inst) /\ Runs(inst) # Exits /\ shown = getAsmString(inst)
    BY <1>1 DEF DecodeInv
  <2>2. AllOf(inst, ran, shown)
    BY <2>1, RunIsListed, ListingAgrees DEF DecodeInv
  <2>3. NamesAgree
    BY <2>2 DEF AllOf, NamesOf, NamesAgree
  <2>4. RegistersAgree
    BY <2>2 DEF AllOf, RegistersOf, RegistersAgree
  <2>5. ImmediatesAgree
    BY <2>2 DEF AllOf, ImmediatesOf, ImmediatesAgree
  <2>6. TargetsAgree
    BY <2>2 DEF AllOf, TargetsOf, TargetsAgree
  <2>7. ReportSurvives
    BY <2>2 DEF AllOf, SurvivesOf, ReportSurvives
  <2>8. SlotsClassified
    BY <2>1, SlotsTold DEF DecodeInv, SlotsClassified
  <2> QED
    BY <2>3, <2>4, <2>5, <2>6, <2>7, <2>8 DEF ListedAsRun
<1>2. CASE ~Listed
  <2>1. NamesAgree /\ TargetsAgree /\ ReportSurvives
    BY <1>2 DEF NamesAgree, TargetsAgree, ReportSurvives
  <2>2. RegistersAgree
    BY <1>2 DEF RegistersAgree
  <2>3. ImmediatesAgree
    BY <1>2 DEF ImmediatesAgree
  <2>4. SlotsClassified
    BY SlotsTold DEF DecodeInv, SlotsClassified
  <2> QED
    BY <2>1, <2>2, <2>3, <2>4 DEF ListedAsRun
<1> QED
  BY <1>1, <1>2

(* What the report lists is what ran (parseMips.cc:270-351 and 752-1658,   *)
(* profileMips.cc:1346-1720), for every instruction.                       *)
THEOREM ListingIsRun == DecodeSpec => []ListedAsRun
BY DecodeInvariant, InvariantAgrees, PTL
=============================================================================
