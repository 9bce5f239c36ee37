------------------------------- MODULE Memory -------------------------------
(***************************************************************************)
(* The loads and stores of profileMips.cc, one action per handler.  The    *)
(* host is little-endian and memory holds the program's bytes as they are, *)
(* so every access of more than a byte goes through bswap<EL>; the         *)
(* unaligned ones merge with masks and shifts.  Each handler announces its *)
(* access to the data cache, globals::L1D.  ea stands for gpr[rs] + imm.   *)
(***************************************************************************)
EXTENDS ByteWords

CONSTANTS
    Addr,           \* addresses of memory, 0 .. 2^32 - 1: whole words
    Regs,           \* general registers
    FpRegs,         \* floating-point registers, 0 .. 31
    InitMem,        \* memories a run starts from
    InitReg,        \* values a register starts with
    MaxInstrs       \* bound: instructions executed

ASSUME MemoryAssumption ==
    /\ Addr \subseteq Nat
    /\ \A a \in Addr : (a - (a % 4)) .. (a - (a % 4) + 3) \subseteq Addr
    /\ InitMem \subseteq [Addr -> Byte]
    /\ InitReg \subseteq Word(4)

VARIABLES
    el,             \* globals::isMipsEL, the program is little-endian
    mem, gpr, cpr1,
    l1d,            \* the accesses the last handler announced to the cache
    last            \* the last handler; mem before it: history
vars == <<el, mem, gpr, cpr1, l1d, last>>

Span(ea, n) == ea .. ea + n - 1
WordOf(ea) == ea - (ea % 4)                                 \* ea & 0xfffffffc
Offset(ea) == IF el THEN 3 - (ea % 4) ELSE ea % 4           \* ma

(* A value read from the host's memory at mem + ea, and one assigned there. *)
HostRead(ea, n) == [l \in Lanes(n) |-> mem[ea + l]]
HostWrite(ea, n, w) == [a \in Addr |-> IF a \in Span(ea, n) THEN w[a - ea] ELSE mem[a]]

Access(kind, ea, n) == <<[kind |-> kind, at |-> Span(ea, n)]>>
NoAccess == << >>

Init ==
    /\ el \in BOOLEAN
    /\ mem \in InitMem
    /\ gpr \in [Regs -> InitReg]
    /\ cpr1 \in [FpRegs -> InitReg]
    /\ l1d = NoAccess
    /\ last = [op |-> "none", ea |-> 0, rt |-> 0, mem |-> mem, steps |-> 0]

(* The handler op runs on an n-byte access at ea.                          *)
Handler(op, ea, n, rt) ==
    /\ last.steps < MaxInstrs
    /\ Span(ea, n) \subseteq Addr
    /\ last' = [op |-> op, ea |-> ea, rt |-> rt, mem |-> mem, steps |-> last.steps + 1]
    /\ UNCHANGED el

-----------------------------------------------------------------------------
(* load<T, EL>, without its access to the cache.                           *)
Load(ea, n) == Bswap(el, HostRead(ea, n), n)

(* _lw (and ll), _lh, _lb: the value has a signed type.                    *)
LoadSigned(op, n, ea, rt) ==
    /\ Handler(op, ea, n, rt)
    /\ l1d' = Access("read", ea, n)
    /\ gpr' = [gpr EXCEPT ![rt] = SignExtended(Load(ea, n), n)]
    /\ UNCHANGED <<mem, cpr1>>

(* _lbu, _lhu: the value is loaded as int8_t or int16_t, and converting    *)
(* that to uint32_t extends its sign.                                      *)
LoadUnsigned(op, n, ea, rt) ==
    /\ Handler(op, ea, n, rt)
    /\ l1d' = Access("read", ea, n)
    /\ gpr' = [gpr EXCEPT ![rt] = SignExtended(Load(ea, n), n)]
    /\ UNCHANGED <<mem, cpr1>>

StoreWord(op, n, ea, rt) ==
    /\ Handler(op, ea, n, rt)
    /\ l1d' = Access("write", ea, n)
    /\ mem' = HostWrite(ea, n, Bswap(el, gpr[rt], n))

(* _sw, _sh, _sb.                                                          *)
Store(op, n, ea, rt) ==
    /\ StoreWord(op, n, ea, rt)
    /\ UNCHANGED <<gpr, cpr1>>

(* _sc always succeeds.                                                    *)
StoreConditional(ea, rt) ==
    /\ StoreWord("sc", 4, ea, rt)
    /\ gpr' = [gpr EXCEPT ![rt] = One]
    /\ UNCHANGED cpr1

(* The lanes of memory that ~((1U << 8 * (4 - ma)) - 1) keeps.  With ma = 0 *)
(* the shift is by 32 and undefined: a shifter that takes the amount       *)
(* modulo 32 gives a mask of ones, a wider one gives zero.                 *)
SwlKept(ma) == IF ma = 0 THEN {Lanes(4), {}} ELSE {Lanes(4) \ Below(4 - ma)}

Swl(ea, rt) ==
    LET ma == Offset(ea)
        r  == Load(WordOf(ea), 4)
    IN  /\ Handler("swl", ea, 1, rt)
        /\ \E m \in SwlKept(ma) :
              mem' = HostWrite(WordOf(ea), 4,
                               Bswap(el, Join(Keep(r, m), LanesDown(gpr[rt], ma)), 4))
        /\ l1d' = Access("write", WordOf(ea), 4)
        /\ UNCHANGED <<gpr, cpr1>>

(* Variant for the mutants: the byte order does not turn the offset.       *)
SwrBigEndian(ea, rt) ==
    LET ma == ea % 4
        r  == Load(WordOf(ea), 4)
    IN  /\ Handler("swr", ea, 1, rt)
        /\ mem' = HostWrite(WordOf(ea), 4,
                            Bswap(el, Join(LanesUp(gpr[rt], 3 - ma), Keep(r, Below(3 - ma))), 4))
        /\ l1d' = Access("write", WordOf(ea), 4)
        /\ UNCHANGED <<gpr, cpr1>>

(* Variant for the mutants: the cache sees one byte of a partial store.    *)
SwrNarrowAccess(ea, rt) ==
    LET ma == Offset(ea)
        r  == Load(WordOf(ea), 4)
    IN  /\ Handler("swr", ea, 1, rt)
        /\ mem' = HostWrite(WordOf(ea), 4,
                            Bswap(el, Join(LanesUp(gpr[rt], 3 - ma), Keep(r, Below(3 - ma))), 4))
        /\ l1d' = Access("write", ea, 1)
        /\ UNCHANGED <<gpr, cpr1>>

Swr(ea, rt) ==
    LET ma == Offset(ea)
        r  == Load(WordOf(ea), 4)
    IN  /\ Handler("swr", ea, 1, rt)
        /\ mem' = HostWrite(WordOf(ea), 4,
                            Bswap(el, Join(LanesUp(gpr[rt], 3 - ma), Keep(r, Below(3 - ma))), 4))
        /\ l1d' = Access("write", WordOf(ea), 4)
        /\ UNCHANGED <<gpr, cpr1>>

(* The lanes of memory that each case of _lwl keeps, before it shifts.     *)
LwlTaken(ma) == CASE ma = 0 -> Lanes(4) [] ma = 1 -> Below(3) [] ma = 2 -> Below(2) [] ma = 3 -> Below(3)

Lwl(ea, rt) ==
    LET ma == Offset(ea)
        r  == Load(WordOf(ea), 4)
    IN  /\ Handler("lwl", ea, 1, rt)
        /\ l1d' = Access("read", WordOf(ea), 4)
        /\ gpr' = [gpr EXCEPT ![rt] = Join(LanesUp(Keep(r, LwlTaken(ma)), ma), Keep(@, Below(ma)))]
        /\ UNCHANGED <<mem, cpr1>>

Lwr(ea, rt) ==
    LET ma == Offset(ea)
        r  == Load(WordOf(ea), 4)
    IN  /\ Handler("lwr", ea, 1, rt)
        /\ l1d' = Access("read", WordOf(ea), 4)
        /\ gpr' = [gpr EXCEPT ![rt] = Join(Keep(@, Lanes(4) \ Below(ma + 1)), LanesDown(r, 3 - ma))]
        /\ UNCHANGED <<mem, cpr1>>

-----------------------------------------------------------------------------
(* _lwc1, and lwxc1 of lxc1<EL, int32_t>, which does not tell the cache.   *)
LoadFp(op, ea, ft) ==
    /\ Handler(op, ea, 4, ft)
    /\ l1d' = IF op = "lwc1" THEN Access("read", ea, 4) ELSE NoAccess
    /\ cpr1' = [cpr1 EXCEPT ![ft] = Load(ea, 4)]
    /\ UNCHANGED <<mem, gpr>>

(* Variant for the mutants: a double is assigned over one register.        *)
LoadDoubleOneRegister(op, ea, ft) ==
    /\ Handler(op, ea, 8, ft)
    /\ ft + 1 \in FpRegs
    /\ l1d' = IF op = "ldc1" THEN Access("read", ea, 8) ELSE NoAccess
    /\ cpr1' = [cpr1 EXCEPT ![ft] = Load(ea, 8)]
    /\ UNCHANGED <<mem, gpr>>

(* _ldc1 and ldxc1: an int64_t assigned over two registers.                *)
LoadDouble(op, ea, ft) ==
    /\ Handler(op, ea, 8, ft)
    /\ ft + 1 \in FpRegs
    /\ l1d' = IF op = "ldc1" THEN Access("read", ea, 8) ELSE NoAccess
    /\ LET v == Load(ea, 8) IN
       cpr1' = [cpr1 EXCEPT ![ft] = [l \in Lanes(4) |-> v[l]],
                            ![ft + 1] = [l \in Lanes(4) |-> v[4 + l]]]
    /\ UNCHANGED <<mem, gpr>>

StoreFp(ea, ft) ==
    /\ Handler("swc1", ea, 4, ft)
    /\ l1d' = Access("write", ea, 4)
    /\ mem' = HostWrite(ea, 4, Bswap(el, cpr1[ft], 4))
    /\ UNCHANGED <<gpr, cpr1>>

StoreDouble(ea, ft) ==
    /\ Handler("sdc1", ea, 8, ft)
    /\ ft + 1 \in FpRegs
    /\ l1d' = Access("write", ea, 8)
    /\ LET v == [l \in Lanes(8) |-> IF l < 4 THEN cpr1[ft][l] ELSE cpr1[ft + 1][l - 4]] IN
       mem' = HostWrite(ea, 8, Bswap(el, v, 8))
    /\ UNCHANGED <<gpr, cpr1>>

Next ==
    \/ \E ea \in Addr, rt \in Regs :
          \/ LoadSigned("lb", 1, ea, rt) \/ LoadSigned("lh", 2, ea, rt) \/ LoadSigned("lw", 4, ea, rt)
          \/ LoadUnsigned("lbu", 1, ea, rt) \/ LoadUnsigned("lhu", 2, ea, rt)
          \/ Store("sb", 1, ea, rt) \/ Store("sh", 2, ea, rt) \/ Store("sw", 4, ea, rt)
          \/ StoreConditional(ea, rt)
          \/ Lwl(ea, rt) \/ Lwr(ea, rt) \/ Swl(ea, rt) \/ Swr(ea, rt)
    \/ \E ea \in Addr, ft \in FpRegs :
          \/ LoadFp("lwc1", ea, ft) \/ LoadFp("lwxc1", ea, ft)
          \/ LoadDouble("ldc1", ea, ft) \/ LoadDouble("ldxc1", ea, ft)
          \/ StoreFp(ea, ft) \/ StoreDouble(ea, ft)

Spec == Init /\ [][Next]_vars

-----------------------------------------------------------------------------
MemTypeOK ==
    /\ el \in BOOLEAN
    /\ mem \in [Addr -> Byte]
    /\ gpr \in [Regs -> Word(4)]
    /\ cpr1 \in [FpRegs -> Word(4)]
    /\ \A k \in DOMAIN l1d : l1d[k].kind \in {"read", "write"} /\ l1d[k].at \subseteq Addr

(* The loads and stores of profileMips.cc 438-676 and 819-867 are those of *)
(* the architecture in both byte orders, each handler the instruction it   *)
(* is named for with its own address and register, but for the two         *)
(* promises that ArchMemory leaves open.                                   *)
Arch == INSTANCE ArchMemory WITH instr <- [op |-> last.op, ea |-> last.ea, rt |-> last.rt]
ImplementsArchMemory == Arch!Spec

(* The instructions left and right are the two halves of an unaligned      *)
(* access: they name its most and its least significant byte.              *)
Halves(left, right) ==
    /\ left.rt = right.rt
    /\ IF el THEN left.ea = right.ea + 3 ELSE right.ea = left.ea + 3
Base(left, right) == IF el THEN right.ea ELSE left.ea

StoreHalves(left, right) ==
    /\ left.op = "swl" /\ right.op = "swr" /\ Halves(left, right)
LoadHalves(left, right) ==
    /\ left.op = "lwl" /\ right.op = "lwr" /\ Halves(left, right)

WordStored(base, w) ==
    mem' = [a \in Addr |-> IF a \in Span(base, 4) THEN Bswap(el, w, 4)[a - base] ELSE last.mem[a]]

(* swl and swr (profileMips.cc 562-607) together store one register at any *)
(* address and touch nothing else, and lwl and lwr (609-676) together load *)
(* it, in either order; but swr first, then swl of an aligned word, does   *)
(* not, because that swl may keep bits of memory.                          *)
UnalignedPairs ==
    [][/\ StoreHalves(last, last') => WordStored(Base(last, last'), gpr[last.rt])
       /\ StoreHalves(last', last) /\ Base(last', last) % 4 # 0 =>
              WordStored(Base(last', last), gpr[last.rt])
       /\ LoadHalves(last, last') => gpr'[last.rt] = Load(Base(last, last'), 4)
       /\ LoadHalves(last', last) => gpr'[last.rt] = Load(Base(last', last), 4)]_vars

StoreOps == {"sb", "sh", "sw", "sc", "swl", "swr", "swc1", "sdc1"}
UnalignedOps == {"lwl", "lwr", "swl", "swr"}
WidthOf(op) == CASE op \in {"lb", "lbu", "sb"} -> 1 [] op \in {"lh", "lhu", "sh"} -> 2
                 [] op \in {"ldc1", "sdc1"} -> 8 [] OTHER -> 4

(* The data cache hears of each load and store exactly once, whether or    *)
(* not it changes anything: of the bytes the instruction names, of the     *)
(* whole word for lwl, lwr, swl and swr (profileMips.cc 438-676, 819-867), *)
(* and so of every byte that changes.  It does not hear of lwxc1 and ldxc1 *)
(* (lxc1, 288-294).                                                        *)
CacheSeesAccesses ==
    [][LET op == last'.op
           named == IF op \in UnalignedOps THEN WordOf(last'.ea) ELSE last'.ea
       IN  /\ l1d' = IF op \in {"lwxc1", "ldxc1"} THEN NoAccess
                     ELSE Access(IF op \in StoreOps THEN "write" ELSE "read", named, WidthOf(op))
           /\ \A a \in Addr : mem'[a] # mem[a] => op \in StoreOps /\ a \in Span(named, WidthOf(op))]_vars

(* _lbu and _lhu name their value zExt (profileMips.cc:484, 497).          *)
UnsignedLoadsZeroExtend ==
    [][/\ last'.op = "lbu" => gpr'[last'.rt] = ZeroExtended(Load(last'.ea, 1), 1)
       /\ last'.op = "lhu" => gpr'[last'.rt] = ZeroExtended(Load(last'.ea, 2), 2)]_vars
=============================================================================
