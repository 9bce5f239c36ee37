------------------------------- MODULE Loader -------------------------------
(***************************************************************************)
(* How a program comes into memory: load_elf (loadelf.cc), the monitor     *)
(* vectors of mkMonitorVectors, or loadState from a file dumpState wrote   *)
(* (saveState.cc).                                                         *)
(*                                                                         *)
(* An address names one word.  A cell is an instruction or datum with the  *)
(* byte order it lies in; reading it in the other order gives something    *)
(* else, Garbled.  Zero is the same in both.                               *)
(***************************************************************************)
EXTENDS Integers, Sequences, FiniteSets

CONSTANTS
    NCells,         \* words of memory, 2^30
    PageCells,      \* words of a page of 4096 bytes
    HostPages,      \* pages the host may have, in words: getpagesize()
    VectorBase,     \* IDT_MONITOR_BASE
    NumVectors,     \* IDT_MONITOR_SIZE / 4
    Elfs            \* the files a program may come in

ProgramHeader == [load : BOOLEAN, vaddr : Nat, memsz : Nat, offset : Nat, filesz : Nat]
Section == [exec : BOOLEAN, addr : Nat, size : Nat]

Addr == 0 .. NCells - 1
Vectors == VectorBase .. VectorBase + NumVectors - 1

ASSUME PagesAssumption ==
    /\ PageCells \in Nat \ {0}
    /\ NCells \in Nat /\ NCells % PageCells = 0
ASSUME HostPagesAssumption == HostPages \subseteq Nat \ {0}
ASSUME VectorsAssumption ==
    VectorBase \in Nat /\ NumVectors \in Nat /\ VectorBase + NumVectors <= NCells
ASSUME ElfsAssumption ==
    \A e \in Elfs : e.segments \in Seq(ProgramHeader) /\ e.sections \in Seq(Section) /\ e.le \in BOOLEAN

(* What the ELF format promises: the entry and the code are in memory, and *)
(* a segment takes no less memory than it has bytes in the file.           *)
ASSUME FormatAssumption ==
    \A e \in Elfs :
       /\ e.entry \in Addr
       /\ \A k \in DOMAIN e.segments : e.segments[k].filesz <= e.segments[k].memsz
       /\ \A k \in DOMAIN e.sections :
             e.sections[k].exec => e.sections[k].addr + e.sections[k].size <= NCells

VARIABLES
    phase,          \* what main is doing
    elf,            \* the file
    todo,           \* program headers, then section headers, still to process
    isMipsEL, pc, mem,
    readonly,       \* addresses mprotect made read-only
    pgSize,
    disk,           \* the file dumpState wrote last
    restored        \* the run began from disk: history
loadVars == <<elf, todo, isMipsEL, pc, mem, readonly, pgSize, disk, restored>>

Zero == [kind |-> "zero", n |-> 0, le |-> FALSE]
Garbled == [kind |-> "garbled", n |-> 0]

(* bswap<el> of the word in a cell.                                        *)
Read(el, c) == IF c.kind = "zero" \/ c.le = el THEN [kind |-> c.kind, n |-> c.n] ELSE Garbled

NoDump ==
    LET blank == [a \in Addr |-> Zero]
    IN  [pages |-> {}, mem |-> blank, pc |-> 0, written |-> FALSE, was |-> [mem |-> blank, pc |-> 0]]

LoadInit ==
    /\ phase = "start"
    /\ elf \in Elfs
    /\ todo = << >>
    /\ isMipsEL = FALSE /\ pc = 0
    /\ mem = [a \in Addr |-> Zero]
    /\ readonly = {}
    /\ pgSize \in HostPages
    /\ disk = NoDump /\ restored = FALSE

Go(p) == phase' = p

(* load_elf up to the loops: identification, byte order, machine.          *)
OpenElf ==
    /\ phase = "start"
    /\ IF elf.class = 32 /\ elf.machine = 8
         THEN /\ Go("segments") /\ todo' = elf.segments
              /\ isMipsEL' = elf.le /\ pc' = elf.entry
         ELSE Go("exited") /\ UNCHANGED <<todo, isMipsEL, pc>>
    /\ restored' = FALSE
    /\ UNCHANGED <<elf, mem, readonly, pgSize, disk>>

(* Variant for the mutants: the rest of a segment is not cleared.          *)
CopiedOver(g) ==
    [a \in Addr |-> IF a - g.vaddr \in 0 .. g.filesz - 1 THEN elf.data[g.offset + a - g.vaddr] ELSE mem[a]]

(* memset of p_memsz bytes, then memcpy of p_filesz from the file.         *)
Copied(g) ==
    [a \in Addr |-> CASE a - g.vaddr \in 0 .. g.filesz - 1 -> elf.data[g.offset + a - g.vaddr]
                      [] a - g.vaddr \in g.filesz .. g.memsz - 1 -> Zero
                      [] OTHER -> mem[a]]

LoadSegment ==
    /\ phase = "segments"
    /\ IF todo = << >>
         THEN Go("sections") /\ todo' = elf.sections /\ UNCHANGED mem
         ELSE /\ todo' = Tail(todo)
              /\ mem' = IF Head(todo).load /\ Head(todo).memsz > 0 THEN Copied(Head(todo)) ELSE mem
              /\ UNCHANGED phase
    /\ UNCHANGED <<elf, isMipsEL, pc, readonly, pgSize, disk, restored>>

(* Variant for the mutants: the length is rounded up to whole pages.       *)
ProtectedRounded(h) ==
    LET size == ((h.size + pgSize - 1) \div pgSize) * pgSize
    IN  IF h.exec /\ h.addr % PageCells = 0 /\ h.addr % pgSize = 0
          THEN readonly \cup (h.addr .. h.addr + size - 1) ELSE readonly

(* mprotect of the whole host pages of an executable section that begins   *)
(* on a page of 4096 bytes; it fails, with a message, where a host page    *)
(* does not begin.                                                         *)
Protected(h) ==
    LET size == (h.size \div pgSize) * pgSize
    IN  IF h.exec /\ h.addr % PageCells = 0 /\ h.addr % pgSize = 0
          THEN readonly \cup (h.addr .. h.addr + size - 1) ELSE readonly

ProtectSection ==
    /\ phase = "sections" /\ todo # << >>
    /\ todo' = Tail(todo)
    /\ readonly' = Protected(Head(todo))
    /\ UNCHANGED <<phase, elf, isMipsEL, pc, mem, pgSize, disk, restored>>

(* mkMonitorVectors: the word at offset loop holds loop >> 2.              *)
MkMonitorVectors ==
    /\ phase = "sections" /\ todo = << >>
    /\ IF Vectors \cap readonly = {}
         THEN /\ Go("run")
              /\ mem' = [a \in Addr |-> IF a \in Vectors
                                          THEN [kind |-> "monitor", n |-> a - VectorBase, le |-> isMipsEL]
                                          ELSE mem[a]]
         ELSE Go("crashed") /\ UNCHANGED mem
    /\ UNCHANGED <<elf, todo, isMipsEL, pc, readonly, pgSize, disk, restored>>

-----------------------------------------------------------------------------
Pages == 0 .. (NCells \div PageCells) - 1
Cells(p) == p * PageCells .. (p + 1) * PageCells - 1

(* Variant for the mutants: a page is judged by its first word.            *)
PagesBegun == {p \in Pages : mem[p * PageCells] # Zero}

NonZeroPages == {p \in Pages : \E a \in Cells(p) : mem[a] # Zero}

(* dumpState, which no code of the program calls: a client's call, between *)
(* two instructions.  The byte order is not written.  The field was is     *)
(* history: the state that the dump is taken from.                         *)
DumpState ==
    /\ phase = "run"
    /\ disk' = [pages |-> NonZeroPages, pc |-> pc, written |-> TRUE, was |-> [mem |-> mem, pc |-> pc],
                mem |-> [a \in Addr |-> IF \E p \in NonZeroPages : a \in Cells(p) THEN mem[a] ELSE Zero]]
    /\ UNCHANGED <<phase, elf, todo, isMipsEL, pc, mem, readonly, pgSize, restored>>

(* The program ends and is started again with fresh memory.                *)
Restart ==
    /\ phase \in {"run", "stopped"} /\ disk.written
    /\ Go("start")
    /\ mem' = [a \in Addr |-> Zero] /\ readonly' = {}
    /\ isMipsEL' = FALSE /\ pc' = 0 /\ todo' = << >>
    /\ UNCHANGED <<elf, pgSize, disk, restored>>

(* Variant for the mutants: pages are placed one after the other.          *)
PagesPacked ==
    LET rank(p) == Cardinality({q \in disk.pages : q < p})
        from(q) == {p \in disk.pages : rank(p) = q}
    IN  [a \in Addr |-> IF from(a \div PageCells) = {} THEN mem[a]
                        ELSE LET p == CHOOSE p \in from(a \div PageCells) : TRUE
                             IN  disk.mem[p * PageCells + (a % PageCells)]]

(* Each page of the file goes to the address it carries.                   *)
PagesPlaced == [a \in Addr |-> IF \E p \in disk.pages : a \in Cells(p) THEN disk.mem[a] ELSE mem[a]]

(* loadState, with --dump.                                                 *)
LoadState ==
    /\ phase = "start" /\ disk.written
    /\ Go("run")
    /\ mem' = PagesPlaced
    /\ pc' = disk.pc
    /\ restored' = TRUE
    /\ UNCHANGED <<elf, todo, isMipsEL, readonly, pgSize, disk>>

LoadNext ==
    \/ OpenElf \/ LoadSegment \/ ProtectSection \/ MkMonitorVectors
    \/ DumpState \/ LoadState
=============================================================================
