-------------------------- MODULE LifecycleProofs --------------------------
(***************************************************************************)
(* Theorems about main.  While the machine runs (Lifecycle): protected     *)
(* pages, dumps, the fake clock, the image in memory, the monitor vectors  *)
(* and the report.  From its options to its teardown (Main): what exists   *)
(* when, and the cache that was asked for.  The checksum of --hash (Crc):  *)
(* a division of polynomials, a byte a step.                               *)
(***************************************************************************)
EXTENDS Lifecycle, Main, Crc, PredictorLemmas

(* A length rounded down to whole pages is no longer than it was.          *)
LEMMA RoundedDown ==
    ASSUME NEW s \in Nat, NEW p \in Nat \ {0}
    PROVE  (s \div p) * p \in Nat /\ (s \div p) * p <= s
  <1>1. s = p * (s \div p) + (s % p) /\ s % p \in 0 .. p - 1
    BY SMT
  <1>2. s \div p \in Nat
    BY SMT
  <1>3. (s \div p) * p = p * (s \div p)
    BY <1>2, SMT
  <1> QED
    BY <1>1, <1>2, <1>3, SMT

(* Every address lies in the page it is counted to.                        *)
LEMMA PageOf ==
    ASSUME NEW a \in Addr
    PROVE  \E p \in Pages : a \in Cells(p)
  <1> DEFINE p == a \div PageCells
             n == NCells \div PageCells
  <1>1. PageCells \in Nat \ {0} /\ NCells \in Nat /\ NCells % PageCells = 0 /\ a \in Nat /\ a < NCells
    BY PagesAssumption DEF Addr
  <1>2. NCells = n * PageCells /\ n \in Nat
    BY <1>1, SMT
  <1>3. a = p * PageCells + (a % PageCells) /\ a % PageCells \in 0 .. PageCells - 1 /\ p \in Nat
    BY <1>1, SMT
  <1> HIDE DEF p, n
  <1>4. p < n
    <2>1. SUFFICES ASSUME p >= n PROVE FALSE
      BY <1>2, <1>3, SMT
    <2>2. p * PageCells >= n * PageCells
      BY <1>1, <1>2, <1>3, <2>1, SMT
    <2>3. p * PageCells \in Nat /\ n * PageCells \in Nat
      BY <1>1, <1>2, <1>3, SMT
    <2> QED
      BY <1>1, <1>2, <1>3, <2>2, <2>3, SMT
  <1>5. (p + 1) * PageCells = p * PageCells + PageCells /\ p * PageCells \in Nat
    BY <1>1, <1>3, SMT
  <1>6. a \in Cells(p)
    BY <1>1, <1>3, <1>5, SMT DEF Cells
  <1>7. p \in Pages
    BY <1>2, <1>3, <1>4, SMT DEF Pages, n
  <1> QED
    BY <1>6, <1>7

-----------------------------------------------------------------------------
(* While sections are processed, what is left of them is the file's.       *)
SectionsLeft ==
    phase = "sections" =>
        \A k \in DOMAIN todo : \E j \in DOMAIN elf.sections : todo[k] = elf.sections[j]

ProtectInv ==
    /\ elf \in Elfs /\ pgSize \in HostPages
    /\ phase = "sections" => todo \in Seq(Section)
    /\ SectionsLeft
    /\ ProtectsOnlyCode

(* Before the first section nothing is read-only.                          *)
LEMMA ProtectInit == Init => ProtectInv
  BY DEF Init, LoadInit, ProtectInv, SectionsLeft, ProtectsOnlyCode

(* One section: every page it adds lies inside it.                         *)
LEMMA ProtectStep ==
    ASSUME ProtectInv, ProtectSection
    PROVE  ProtectInv'
  <1> DEFINE h == Head(todo)
             size == (h.size \div pgSize) * pgSize
  <1>1. /\ todo \in Seq(Section) /\ todo # << >> /\ phase = "sections" /\ phase' = "sections"
        /\ todo' = Tail(todo) /\ elf' = elf /\ pgSize' = pgSize
    BY DEF ProtectInv, ProtectSection
  <1>2. h \in Section /\ Len(todo) \in Nat /\ Len(todo) >= 1 /\ h = todo[1] /\ 1 \in DOMAIN todo
    BY <1>1
  <1>3. PICK i \in DOMAIN elf.sections : h = elf.sections[i]
    BY <1>1, <1>2 DEF ProtectInv, SectionsLeft
  <1>4. SectionsLeft' /\ todo' \in Seq(Section)
    <2>1. todo' \in Seq(Section) /\ \A k \in DOMAIN todo' : k + 1 \in DOMAIN todo /\ todo'[k] = todo[k + 1]
      BY <1>1, <1>2
    <2> QED
      BY <2>1, <1>1 DEF SectionsLeft, ProtectInv
  <1>5. size \in Nat /\ size <= h.size
    BY <1>2, RoundedDown, HostPagesAssumption DEF ProtectInv, Section
  <1>6. ASSUME NEW a \in readonly', a \notin readonly
        PROVE  h.exec /\ a \in h.addr .. h.addr + h.size - 1
    <2>1. readonly' = Protected(h)
      BY DEF ProtectSection
    <2>2. h.exec /\ a \in h.addr .. h.addr + size - 1
      BY <1>6, <2>1 DEF Protected
    <2> HIDE DEF size
    <2>3. h.addr \in Nat /\ h.size \in Nat
      BY <1>2 DEF Section
    <2> HIDE DEF h
    <2> QED
      BY <2>2, <2>3, <1>5
  <1>7. ProtectsOnlyCode'
    BY <1>1, <1>3, <1>6 DEF ProtectInv, ProtectsOnlyCode
  <1> QED
    BY <1>1, <1>4, <1>7 DEF ProtectInv

(* Each section processed protects pages of its own code only.             *)
LEMMA ProtectNext == ProtectInv /\ [Next]_vars => ProtectInv'
  <1> SUFFICES ASSUME ProtectInv, [Next]_vars PROVE ProtectInv'
    OBVIOUS
  <1> USE DEF ProtectInv, SectionsLeft, ProtectsOnlyCode
  <1>1. ASSUME Loading PROVE ProtectInv'
    <2>1. CASE OpenElf
      BY <2>1 DEF OpenElf, Go
    <2>2. CASE LoadSegment
      BY <2>2, ElfsAssumption DEF LoadSegment, Go
    <2>3. CASE ProtectSection
      BY <2>3, ProtectStep
    <2>4. CASE MkMonitorVectors
      BY <2>4 DEF MkMonitorVectors, Go
    <2>5. CASE DumpState
      BY <2>5 DEF DumpState
    <2>6. CASE LoadState
      BY <2>6 DEF LoadState, Go
    <2> QED
      BY <1>1, <2>1, <2>2, <2>3, <2>4, <2>5, <2>6 DEF Loading, LoadNext
  <1>2. ASSUME Rerun PROVE ProtectInv'
    BY <1>2 DEF Rerun, Restart, Go
  <1>3. ASSUME NEW a \in Addr, NEW n \in {1}, Store(a, n) PROVE ProtectInv'
    BY <1>3 DEF Store, Step, Go
  <1>4. ASSUME NEW r \in Calls, MonitorCall(r) PROVE ProtectInv'
    BY <1>4 DEF MonitorCall, Step, Go, GetTimeOfDay, HostCall
  <1>5. ASSUME NEW r \in Calls, MonitorMissing(r) PROVE ProtectInv'
    BY <1>5 DEF MonitorMissing, Step, Go, loadVars
  <1>6. ASSUME NEW a \in Addr, Mispredict(a) PROVE ProtectInv'
    BY <1>6 DEF Mispredict, Step, loadVars
  <1>7. ASSUME Stop PROVE ProtectInv'
    BY <1>7 DEF Stop, Go, loadVars
  <1>8. ASSUME PrintEntry PROVE ProtectInv'
    BY <1>8 DEF PrintEntry, Go, loadVars
  <1>9. ASSUME CloseReport PROVE ProtectInv'
    BY <1>9 DEF CloseReport, Go, loadVars
  <1>10. ASSUME UNCHANGED vars PROVE ProtectInv'
    BY <1>10 DEF vars, loadVars
  <1> QED
    BY <1>1, <1>2, <1>3, <1>4, <1>5, <1>6, <1>7, <1>8, <1>9, <1>10 DEF Next

(* Whatever the file's sections and the host's page size, load_elf         *)
(* (loadelf.cc:159-175) makes nothing read-only but executable sections.   *)
THEOREM ProtectCorrect == Spec => []ProtectsOnlyCode
  <1>1. Init => ProtectInv
    BY ProtectInit
  <1>2. ProtectInv /\ [Next]_vars => ProtectInv'
    BY ProtectNext
  <1>3. ProtectInv => ProtectsOnlyCode
    BY DEF ProtectInv
  <1> QED
    BY <1>1, <1>2, <1>3, PTL DEF Spec

-----------------------------------------------------------------------------
(* What loadState makes of the file, on a memory of zeroes.                *)
Restored(d) == [a \in Addr |-> IF \E p \in d.pages : a \in Cells(p) THEN d.mem[a] ELSE Zero]

(* A run begins with a memory of zeroes, and the file restores the state   *)
(* it was written from.                                                    *)
DumpInv ==
    /\ mem = [a \in Addr |-> mem[a]]
    /\ phase = "start" => mem = [a \in Addr |-> Zero]
    /\ disk.written => Restored(disk) = disk.was.mem /\ disk.pc = disk.was.pc

(* A first run starts on a memory of zeroes and without a file.            *)
LEMMA DumpInit == Init => DumpInv
  BY DEF Init, LoadInit, DumpInv, NoDump

(* The pages left out of the file hold nothing but zeroes.                 *)
LEMMA DumpWrites ==
    ASSUME DumpInv, DumpState
    PROVE  DumpInv'
  <1>1. /\ disk'.pages = NonZeroPages /\ disk'.was.mem = mem /\ disk'.pc = disk'.was.pc
        /\ disk'.mem = [a \in Addr |-> IF \E p \in NonZeroPages : a \in Cells(p) THEN mem[a] ELSE Zero]
        /\ mem' = mem /\ phase' = phase
    BY DEF DumpState
  <1>2. ASSUME NEW a \in Addr, ~ \E p \in NonZeroPages : a \in Cells(p)
        PROVE  mem[a] = Zero
    BY <1>2, PageOf DEF NonZeroPages
  <1>3. Restored(disk') = [a \in Addr |-> mem[a]]
    BY <1>1, <1>2 DEF Restored
  <1> QED
    BY <1>1, <1>3 DEF DumpInv

(* A dump keeps every page that is not zero, a restart reads them back.    *)
LEMMA DumpNext == DumpInv /\ [Next]_vars => DumpInv'
  <1> SUFFICES ASSUME DumpInv, [Next]_vars PROVE DumpInv'
    OBVIOUS
  <1> USE DEF DumpInv
  <1>1. ASSUME Loading PROVE DumpInv'
    <2>1. CASE OpenElf
      BY <2>1 DEF OpenElf, Go, Restored
    <2>2. CASE LoadSegment
      BY <2>2 DEF LoadSegment, Go, Copied, Restored
    <2>3. CASE ProtectSection
      BY <2>3 DEF ProtectSection, Restored
    <2>4. CASE MkMonitorVectors
      BY <2>4 DEF MkMonitorVectors, Go, Restored
    <2>5. CASE DumpState
      BY <2>5, DumpWrites
    <2>6. CASE LoadState
      BY <2>6 DEF LoadState, Go, PagesPlaced, Restored
    <2> QED
      BY <1>1, <2>1, <2>2, <2>3, <2>4, <2>5, <2>6 DEF Loading, LoadNext
  <1>2. ASSUME Rerun PROVE DumpInv'
    BY <1>2 DEF Rerun, Restart, Go, Restored
  <1>3. ASSUME NEW a \in Addr, NEW n \in {1}, Store(a, n) PROVE DumpInv'
    BY <1>3 DEF Store, Step, Go, Restored
  <1>4. ASSUME NEW r \in Calls, MonitorCall(r) PROVE DumpInv'
    BY <1>4 DEF MonitorCall, Step, Go, GetTimeOfDay, HostCall, Restored
  <1>5. ASSUME NEW r \in Calls, MonitorMissing(r) PROVE DumpInv'
    BY <1>5 DEF MonitorMissing, Step, Go, loadVars, Restored
  <1>6. ASSUME NEW a \in Addr, Mispredict(a) PROVE DumpInv'
    BY <1>6 DEF Mispredict, Step, loadVars, Restored
  <1>7. ASSUME Stop PROVE DumpInv'
    BY <1>7 DEF Stop, Go, loadVars, Restored
  <1>8. ASSUME PrintEntry PROVE DumpInv'
    BY <1>8 DEF PrintEntry, Go, loadVars, Restored
  <1>9. ASSUME CloseReport PROVE DumpInv'
    BY <1>9 DEF CloseReport, Go, loadVars, Restored
  <1>10. ASSUME UNCHANGED vars PROVE DumpInv'
    BY <1>10 DEF vars, loadVars, Restored
  <1> QED
    BY <1>1, <1>2, <1>3, <1>4, <1>5, <1>6, <1>7, <1>8, <1>9, <1>10 DEF Next

(* Only loadState goes from the start to the run.                          *)
LEMMA OnlyLoadState ==
    ASSUME [Next]_vars, phase = "start", phase' = "run"
    PROVE  LoadState
  <1>1. ~ UNCHANGED vars
    BY DEF vars
  <1>2. ~ (Rerun \/ Stop \/ PrintEntry \/ CloseReport)
    BY DEF Rerun, Restart, Stop, PrintEntry, CloseReport
  <1>3. \A a, n : ~ Store(a, n)
    BY DEF Store, Step
  <1>4. \A r : ~ MonitorCall(r) /\ ~ MonitorMissing(r)
    BY DEF MonitorCall, MonitorMissing, Step
  <1>5. \A a : ~ Mispredict(a)
    BY DEF Mispredict, Step
  <1>6. ~ (OpenElf \/ LoadSegment \/ ProtectSection \/ MkMonitorVectors \/ DumpState)
    BY DEF OpenElf, LoadSegment, ProtectSection, MkMonitorVectors, DumpState, Go
  <1> QED
    BY <1>1, <1>2, <1>3, <1>4, <1>5, <1>6 DEF Next, Loading, LoadNext

(* loadState (saveState.cc:69-92) gives back the memory and pc dumpState   *)
(* (28-67) found, for every memory and page size.                          *)
THEOREM DumpCorrect == Spec => DumpRestores
  <1>1. DumpInv /\ [Next]_vars =>
            (phase = "start" /\ phase' = "run" => mem' = disk.was.mem /\ pc' = disk.was.pc)
    <2> SUFFICES ASSUME DumpInv, [Next]_vars, phase = "start", phase' = "run"
                 PROVE  mem' = disk.was.mem /\ pc' = disk.was.pc
      OBVIOUS
    <2>1. LoadState
      BY OnlyLoadState
    <2>2. mem' = Restored(disk)
      BY <2>1 DEF DumpInv, LoadState, PagesPlaced, Restored
    <2> QED
      BY <2>1, <2>2 DEF DumpInv, LoadState
  <1>2. Init => DumpInv
    BY DumpInit
  <1>3. DumpInv /\ [Next]_vars => DumpInv'
    BY DumpNext
  <1> QED
    BY <1>1, <1>2, <1>3, PTL DEF Spec, DumpRestores

-----------------------------------------------------------------------------
(* Before the program has read the time nothing is known to it; after, a   *)
(* little-endian program has seen a time before the clock's.               *)
ClockInv ==
    /\ myTimeVal \in [sec : Nat, usec : Nat]
    /\ phase \in {"start", "segments", "sections"} => seen = <<-1, 0>>
    /\ isMipsEL => /\ seen[1] \in Int /\ seen[2] \in Int
                   /\ \/ seen[1] < myTimeVal.sec
                      \/ seen[1] = myTimeVal.sec /\ seen[2] < myTimeVal.usec

(* No time has been seen before the first call.                            *)
LEMMA ClockInit == Init => ClockInv
  BY DEF Init, LoadInit, Fresh, ClockInv

(* The carry of the microseconds moves the time forward.                   *)
LEMMA TickAdvances ==
    ASSUME myTimeVal \in [sec : Nat, usec : Nat]
    PROVE  /\ Tick \in [sec : Nat, usec : Nat]
           /\ \/ myTimeVal.sec < Tick.sec
              \/ myTimeVal.sec = Tick.sec /\ myTimeVal.usec < Tick.usec
  BY UsecLimitAssumption DEF Tick

(* Each call that gives the time gives a later one than the last.          *)
LEMMA ClockNext == ClockInv /\ [Next]_vars => ClockInv'
  <1> SUFFICES ASSUME ClockInv, [Next]_vars PROVE ClockInv'
    OBVIOUS
  <1> USE DEF ClockInv
  <1>1. ASSUME Loading PROVE ClockInv'
    <2>1. CASE OpenElf
      BY <1>1, <2>1 DEF Loading, runVars, OpenElf, Go
    <2>2. CASE LoadSegment
      BY <1>1, <2>2 DEF Loading, runVars, LoadSegment, Go
    <2>3. CASE ProtectSection
      BY <1>1, <2>3 DEF Loading, runVars, ProtectSection
    <2>4. CASE MkMonitorVectors
      BY <1>1, <2>4 DEF Loading, runVars, MkMonitorVectors, Go
    <2>5. CASE DumpState
      BY <1>1, <2>5 DEF Loading, runVars, DumpState
    <2>6. CASE LoadState
      BY <1>1, <2>6 DEF Loading, runVars, LoadState, Go
    <2> QED
      BY <1>1, <2>1, <2>2, <2>3, <2>4, <2>5, <2>6 DEF Loading, LoadNext
  <1>2. ASSUME Rerun PROVE ClockInv'
    BY <1>2 DEF Rerun, Restart, Go, Fresh
  <1>3. ASSUME NEW a \in Addr, NEW n \in {1}, Store(a, n) PROVE ClockInv'
    BY <1>3 DEF Store, Step, Go
  <1>4. ASSUME NEW r \in Calls, MonitorCall(r) PROVE ClockInv'
    <2>1. isMipsEL' = isMipsEL /\ phase' \in {"run", "exited"}
      BY <1>4 DEF MonitorCall, Step, Go, GetTimeOfDay, HostCall
    <2>2. CASE GetTimeOfDay
      BY <2>1, <2>2, TickAdvances DEF GetTimeOfDay, SeenByProgram
    <2>3. CASE UNCHANGED <<seen, myTimeVal>>
      BY <2>1, <2>3
    <2> QED
      BY <1>4, <2>2, <2>3 DEF MonitorCall, HostCall
  <1>5. ASSUME NEW r \in Calls, MonitorMissing(r) PROVE ClockInv'
    BY <1>5 DEF MonitorMissing, Step, Go, loadVars
  <1>6. ASSUME NEW a \in Addr, Mispredict(a) PROVE ClockInv'
    BY <1>6 DEF Mispredict, Step, loadVars
  <1>7. ASSUME Stop PROVE ClockInv'
    BY <1>7 DEF Stop, Go, loadVars, runVars
  <1>8. ASSUME PrintEntry PROVE ClockInv'
    BY <1>8 DEF PrintEntry, Go, loadVars, runVars
  <1>9. ASSUME CloseReport PROVE ClockInv'
    BY <1>9 DEF CloseReport, Go, loadVars, runVars
  <1>10. ASSUME UNCHANGED vars PROVE ClockInv'
    BY <1>10 DEF vars, loadVars, runVars
  <1> QED
    BY <1>1, <1>2, <1>3, <1>4, <1>5, <1>6, <1>7, <1>8, <1>9, <1>10 DEF Next

(* A reading is the clock's time, if one is made.                          *)
LEMMA ReadsTheClock ==
    ASSUME [Next]_vars, steps' # steps, seen' # seen, isMipsEL
    PROVE  seen' = <<myTimeVal.sec, myTimeVal.usec>>
  <1>1. ~ (UNCHANGED vars \/ Loading \/ Rerun \/ Stop \/ PrintEntry \/ CloseReport)
    BY DEF vars, runVars, Loading, Rerun, Stop, PrintEntry, CloseReport
  <1>2. \A a, n : ~ Store(a, n)
    BY DEF Store
  <1>3. \A r : ~ MonitorMissing(r)
    BY DEF MonitorMissing
  <1>4. \A a : ~ Mispredict(a)
    BY DEF Mispredict
  <1>5. PICK r \in Calls : MonitorCall(r)
    BY <1>1, <1>2, <1>3, <1>4 DEF Next
  <1>6. GetTimeOfDay
    BY <1>5 DEF MonitorCall, HostCall
  <1> QED
    BY <1>6 DEF GetTimeOfDay, SeenByProgram

(* A little-endian program never sees the fake clock run backwards, for    *)
(* every place where it carries (profileMips.cc:751-757).                  *)
THEOREM ClockCorrect == Spec => FakeClockMonotonic
  <1>1. ClockInv /\ [Next]_vars =>
            (steps' # steps /\ seen' # seen /\ isMipsEL =>
                \/ seen'[1] > seen[1]
                \/ seen'[1] = seen[1] /\ seen'[2] > seen[2])
    BY ReadsTheClock DEF ClockInv
  <1>2. Init => ClockInv
    BY ClockInit
  <1>3. ClockInv /\ [Next]_vars => ClockInv'
    BY ClockNext
  <1> QED
    BY <1>1, <1>2, <1>3, PTL DEF Spec, FakeClockMonotonic
-----------------------------------------------------------------------------
(* The types, with what keeps them: a count is no more than the steps, the *)
(* pc of the file is one, sections that are left are in memory.            *)
TypeInv ==
    /\ LcTypeOK /\ ProtectInv
    /\ disk.pc \in Addr
    /\ myTimeVal \in [sec : Nat, usec : Nat]
    /\ \A a \in Addr : histo[a] <= steps

(* Memory, pc and histogram have their types at the start.                 *)
LEMMA TypeInit == Init => TypeInv
  <1> SUFFICES ASSUME Init PROVE TypeInv
    OBVIOUS
  <1>1. elf.entry \in Addr
    BY FormatAssumption DEF Init, LoadInit
  <1>2. 0 \in Addr
    BY <1>1, PagesAssumption DEF Addr
  <1>3. /\ phase = "start" /\ isMipsEL = FALSE /\ pc = 0 /\ readonly = {} /\ steps = 0
        /\ myTimeVal = [sec |-> 0, usec |-> 0] /\ histo = [a \in Addr |-> 0] /\ disk.pc = 0
    BY DEF Init, LoadInit, Fresh, NoDump
  <1>4. LcTypeOK
    <2>1. myTimeVal.usec = 0 /\ 0 \in 0 .. UsecLimit - 1 /\ steps \in 0 .. MaxSteps
      BY <1>3, StepsAssumption, UsecLimitAssumption
    <2>2. histo \in [Addr -> 0 .. MaxSteps]
      BY <1>3, StepsAssumption
    <2> QED
      BY <1>2, <1>3, <2>1, <2>2 DEF LcTypeOK
  <1> QED
    BY <1>2, <1>3, <1>4, ProtectInit DEF TypeInv

(* A section left to process lies in memory, so what it protects does.     *)
LEMMA ProtectsMemory ==
    ASSUME TypeInv, ProtectSection
    PROVE  readonly' \subseteq Addr
  <1> DEFINE h == Head(todo)
             size == (h.size \div pgSize) * pgSize
  <1>1. /\ todo \in Seq(Section) /\ todo # << >> /\ readonly' = Protected(h) /\ phase = "sections"
        /\ elf \in Elfs /\ readonly \subseteq Addr
    BY DEF TypeInv, LcTypeOK, ProtectInv, ProtectSection
  <1>2. h \in Section /\ h = todo[1] /\ 1 \in DOMAIN todo
    BY <1>1
  <1>3. PICK i \in DOMAIN elf.sections : h = elf.sections[i]
    BY <1>1, <1>2 DEF TypeInv, ProtectInv, SectionsLeft
  <1>4. h.exec => h.addr + h.size <= NCells
    BY <1>1, <1>3, FormatAssumption
  <1>5. size \in Nat /\ size <= h.size
    BY <1>2, RoundedDown, HostPagesAssumption DEF TypeInv, ProtectInv, Section
  <1>6. h.addr \in Nat /\ h.size \in Nat
    BY <1>2 DEF Section
  <1>7. readonly' = IF h.exec /\ h.addr % PageCells = 0 /\ h.addr % pgSize = 0
                      THEN readonly \cup (h.addr .. h.addr + size - 1) ELSE readonly
    BY <1>1 DEF Protected
  <1> HIDE DEF size, h
  <1> SUFFICES ASSUME NEW a \in readonly', a \notin readonly PROVE a \in Addr
    BY <1>1
  <1>8. h.exec /\ a \in h.addr .. h.addr + size - 1
    BY <1>7
  <1> QED
    BY <1>4, <1>5, <1>6, <1>8, PagesAssumption DEF Addr

(* The pc after an instruction.                                            *)
LEMMA PcAdvances ==
    ASSUME pc \in Addr
    PROVE  (pc + 1) % NCells \in Addr
  <1>1. NCells \in Nat \ {0} /\ pc + 1 \in Nat
    BY PagesAssumption DEF Addr
  <1>2. (pc + 1) % NCells \in 0 .. NCells - 1
    BY <1>1, SMT
  <1> QED
    BY <1>2 DEF Addr

(* Every action keeps the types.                                           *)
LEMMA TypeNext == TypeInv /\ [Next]_vars => TypeInv'
  <1> SUFFICES ASSUME TypeInv, [Next]_vars PROVE TypeInv'
    OBVIOUS
  <1>0. ProtectInv'
    BY ProtectNext DEF TypeInv
  <1> USE <1>0 DEF TypeInv, LcTypeOK
  <1>1. ASSUME Loading PROVE TypeInv'
    <2>0. UNCHANGED runVars
      BY <1>1 DEF Loading
    <2>1. CASE OpenElf
      BY <2>0, <2>1, FormatAssumption, ElfsAssumption DEF runVars, OpenElf, Go, ProtectInv
    <2>2. CASE LoadSegment
      BY <2>0, <2>2 DEF runVars, LoadSegment, Go
    <2>3. CASE ProtectSection
      BY <2>0, <2>3, ProtectsMemory DEF runVars, ProtectSection
    <2>4. CASE MkMonitorVectors
      BY <2>0, <2>4 DEF runVars, MkMonitorVectors, Go
    <2>5. CASE DumpState
      BY <2>0, <2>5 DEF runVars, DumpState
    <2>6. CASE LoadState
      BY <2>0, <2>6 DEF runVars, LoadState, Go
    <2> QED
      BY <1>1, <2>1, <2>2, <2>3, <2>4, <2>5, <2>6 DEF Loading, LoadNext
  <1>2. ASSUME Rerun PROVE TypeInv'
    <2>1. 0 \in Addr
      BY PagesAssumption DEF Addr
    <2>2. /\ phase' = "start" /\ isMipsEL' = FALSE /\ pc' = 0 /\ readonly' = {} /\ steps' = steps
          /\ myTimeVal' = [sec |-> 0, usec |-> 0] /\ histo' = [a \in Addr |-> 0] /\ disk' = disk
      BY <1>2 DEF Rerun, Restart, Go, Fresh
    <2>3. myTimeVal'.usec = 0 /\ 0 \in 0 .. UsecLimit - 1 /\ steps \in Nat
      BY <2>2, UsecLimitAssumption, StepsAssumption
    <2>4. histo' \in [Addr -> 0 .. MaxSteps]
      BY <2>2, StepsAssumption
    <2>5. LcTypeOK'
      BY <2>1, <2>2, <2>3, <2>4
    <2>6. myTimeVal' \in [sec : Nat, usec : Nat] /\ disk'.pc \in Addr
      BY <2>2
    <2>7. \A a \in Addr : histo'[a] <= steps'
      BY <2>2, <2>3
    <2> HIDE DEF LcTypeOK
    <2> QED
      BY <2>5, <2>6, <2>7
  <1>3. ASSUME NEW a \in Addr, NEW n \in {1}, Store(a, n) PROVE TypeInv'
    BY <1>3, PcAdvances, StepsAssumption DEF Store, Step, Go
  <1>4. ASSUME NEW r \in Calls, MonitorCall(r) PROVE TypeInv'
    <2>1. /\ phase' \in {"run", "exited"} /\ pc' \in Addr /\ steps' = steps + 1 /\ steps' \in 0 .. MaxSteps
          /\ UNCHANGED <<isMipsEL, readonly, histo, disk>>
      BY <1>4, PcAdvances, StepsAssumption DEF MonitorCall, Step, Go, GetTimeOfDay, HostCall
    <2>2. myTimeVal' \in {myTimeVal, Tick}
      BY <1>4 DEF MonitorCall, GetTimeOfDay, HostCall
    <2>3. myTimeVal' \in [sec : Nat, usec : Nat] /\ myTimeVal'.usec \in 0 .. UsecLimit - 1
      BY <2>2, UsecLimitAssumption DEF Tick
    <2>4. LcTypeOK'
      BY <2>1, <2>3
    <2>5. \A a \in Addr : histo'[a] <= steps'
      BY <2>1, StepsAssumption
    <2>6. disk'.pc \in Addr
      BY <2>1
    <2> HIDE DEF LcTypeOK
    <2> QED
      BY <2>3, <2>4, <2>5, <2>6
  <1>5. ASSUME NEW r \in Calls, MonitorMissing(r) PROVE TypeInv'
    BY <1>5, StepsAssumption DEF MonitorMissing, Step, Go, loadVars
  <1>6. ASSUME NEW a \in Addr, Mispredict(a) PROVE TypeInv'
    BY <1>6, StepsAssumption DEF Mispredict, Step, loadVars
  <1>7. ASSUME Stop PROVE TypeInv'
    BY <1>7 DEF Stop, Go, loadVars, runVars
  <1>8. ASSUME PrintEntry PROVE TypeInv'
    BY <1>8 DEF PrintEntry, Go, loadVars, runVars
  <1>9. ASSUME CloseReport PROVE TypeInv'
    BY <1>9 DEF CloseReport, Go, loadVars, runVars
  <1>10. ASSUME UNCHANGED vars PROVE TypeInv'
    BY <1>10 DEF vars, loadVars, runVars
  <1> QED
    BY <1>1, <1>2, <1>3, <1>4, <1>5, <1>6, <1>7, <1>8, <1>9, <1>10 DEF Next
-----------------------------------------------------------------------------
(* What segment k puts at a, and that the cell holds what the last of the  *)
(* first n segments that covers it has put there.                          *)
FromSegment(k, a) ==
    LET g == elf.segments[k]
    IN  IF a < g.vaddr + g.filesz THEN elf.data[g.offset + a - g.vaddr] ELSE Zero

Decided(n, a) ==
    \/ (\A k \in Covering(a) : k > n) /\ mem[a] = Zero
    \/ \E k \in Covering(a) :
          k <= n /\ (\A j \in Covering(a) : j <= n => j <= k) /\ mem[a] = FromSegment(k, a)

Vector(a) == Read(isMipsEL, mem[a]) = [kind |-> "monitor", n |-> a - VectorBase]

NumSegments == Len(elf.segments)
Done == NumSegments - Len(todo)

(* The segments left to copy are the last of the file, and memory is       *)
(* decided by those before them.                                           *)
ImageInv ==
    /\ mem = [a \in Addr |-> mem[a]]
    /\ phase = "start" => mem = [a \in Addr |-> Zero]
    /\ phase = "segments" =>
          /\ todo \in Seq(ProgramHeader) /\ Len(todo) <= NumSegments
          /\ \A k \in 1 .. Len(todo) : todo[k] = elf.segments[Done + k]
          /\ \A a \in Addr : Decided(Done, a)
    /\ phase = "sections" => \A a \in Addr : Decided(NumSegments, a)
    /\ phase = "run" /\ steps = 0 /\ ~restored =>
          \A a \in Addr : IF a \in Vectors THEN Vector(a) ELSE Decided(NumSegments, a)

(* Before the first program header no word is decided.                     *)
LEMMA ImageInit == Init => ImageInv
  BY DEF Init, LoadInit, ImageInv

(* One segment: it decides the words it covers and leaves the others.      *)
LEMMA SegmentDecides ==
    ASSUME TypeInv, ImageInv, phase = "segments", todo # << >>, elf' = elf,
           todo' = Tail(todo),
           mem' = IF Head(todo).load /\ Head(todo).memsz > 0 THEN Copied(Head(todo)) ELSE mem,
           NEW n, n = Done, NEW g, g = Head(todo)
    PROVE  /\ todo' \in Seq(ProgramHeader) /\ Len(todo') <= NumSegments /\ Done' = n + 1
           /\ \A k \in 1 .. Len(todo') : todo'[k] = elf.segments[Done' + k]
           /\ mem' = [a \in Addr |-> mem'[a]]
           /\ \A a \in Addr : Decided(n + 1, a)'
  <1>1. /\ elf \in Elfs /\ elf.segments \in Seq(ProgramHeader) /\ NumSegments \in Nat
        /\ todo \in Seq(ProgramHeader) /\ Len(todo) \in Nat /\ Len(todo) >= 1 /\ Len(todo) <= NumSegments
    BY ElfsAssumption DEF TypeInv, ProtectInv, ImageInv, NumSegments
  <1>2. n \in Nat /\ n + 1 \in 1 .. NumSegments /\ n = NumSegments - Len(todo)
    BY <1>1 DEF Done
  <1>3. /\ todo' \in Seq(ProgramHeader) /\ Len(todo') = Len(todo) - 1
        /\ \A k \in 1 .. Len(todo') : todo'[k] = todo[k + 1]
    BY <1>1
  <1>4. NumSegments' = NumSegments /\ Done' = n + 1
    BY <1>1, <1>2, <1>3 DEF NumSegments, Done
  <1>5. g = todo[1] /\ g = elf.segments[n + 1] /\ g \in ProgramHeader
    BY <1>1, <1>2, SMTT(40) DEF ImageInv, NumSegments
  <1>6. g.filesz <= g.memsz /\ g.vaddr \in Nat /\ g.memsz \in Nat /\ g.filesz \in Nat
    <2>1. n + 1 \in DOMAIN elf.segments
      BY <1>1, <1>2 DEF NumSegments
    <2>2. elf.segments[n + 1].filesz <= elf.segments[n + 1].memsz
      BY <1>1, <2>1, FormatAssumption
    <2> QED
      BY <1>5, <2>2 DEF ProgramHeader
  <1>7. ASSUME NEW k \in 1 .. Len(todo') PROVE todo'[k] = elf.segments[Done' + k]
    <2>1. todo'[k] = todo[k + 1] /\ k + 1 \in 1 .. Len(todo) /\ k \in Nat
      BY <1>1, <1>3
    <2>2. todo[k + 1] = elf.segments[Done + (k + 1)]
      BY <2>1 DEF ImageInv
    <2>3. Done + (k + 1) = Done' + k
      BY <1>2, <1>4, <2>1
    <2> QED
      BY <2>1, <2>2, <2>3
  <1>8. mem' = [a \in Addr |-> mem'[a]]
    BY SMTT(40) DEF ImageInv, Copied
  <1>9. ASSUME NEW a \in Addr PROVE Decided(n + 1, a)'
    <2>1. Decided(n, a)
      BY DEF ImageInv
    <2>2. Covering(a)' = Covering(a) /\ Covering(a) \subseteq Nat /\ \A k : FromSegment(k, a)' = FromSegment(k, a)
      <3>1. DOMAIN elf.segments \subseteq Nat
        BY <1>1
      <3> QED
        BY <3>1 DEF Covering, FromSegment
    <2>3. a \in Int
      BY PagesAssumption DEF Addr
    <2>4. CASE n + 1 \in Covering(a)
      <3>1. g.load /\ a \in g.vaddr .. g.vaddr + g.memsz - 1
        BY <1>5, <2>4 DEF Covering
      <3>2. mem' = Copied(g)
        BY <1>6, <2>3, <3>1
      <3>3. mem'[a] = CASE a - g.vaddr \in 0 .. g.filesz - 1 -> elf.data[g.offset + a - g.vaddr]
                        [] a - g.vaddr \in g.filesz .. g.memsz - 1 -> Zero
                        [] OTHER -> mem[a]
        BY <3>2 DEF Copied
      <3>4. mem'[a] = IF a < g.vaddr + g.filesz THEN elf.data[g.offset + a - g.vaddr] ELSE Zero
        <4>1. CASE a < g.vaddr + g.filesz
          <5>1. a - g.vaddr \in 0 .. g.filesz - 1 /\ a - g.vaddr \notin g.filesz .. g.memsz - 1
            BY <4>1, <1>6, <2>3, <3>1
          <5> QED
            BY <3>3, <4>1, <5>1
        <4>2. CASE ~(a < g.vaddr + g.filesz)
          <5>1. a - g.vaddr \notin 0 .. g.filesz - 1 /\ a - g.vaddr \in g.filesz .. g.memsz - 1
            BY <4>2, <1>6, <2>3, <3>1
          <5> QED
            BY <3>3, <4>2, <5>1
        <4> QED
          BY <4>1, <4>2
      <3>5. mem'[a] = FromSegment(n + 1, a)
        BY <1>5, <3>4 DEF FromSegment
      <3> QED
        BY <1>2, <2>2, <2>4, <3>5 DEF Decided
    <2>5. CASE n + 1 \notin Covering(a)
      <3>1. ~(g.load /\ a \in g.vaddr .. g.vaddr + g.memsz - 1)
        BY <1>2, <1>5, <2>5 DEF Covering, NumSegments
      <3>2. mem'[a] = mem[a]
        <4>1. CASE ~(g.load /\ g.memsz > 0)
          BY <4>1
        <4>2. CASE g.load /\ g.memsz > 0
          <5>1. mem'[a] = CASE a - g.vaddr \in 0 .. g.filesz - 1 -> elf.data[g.offset + a - g.vaddr]
                            [] a - g.vaddr \in g.filesz .. g.memsz - 1 -> Zero
                            [] OTHER -> mem[a]
            BY <4>2 DEF Copied
          <5>2. a - g.vaddr \notin 0 .. g.filesz - 1 /\ a - g.vaddr \notin g.filesz .. g.memsz - 1
            BY <4>2, <1>6, <2>3, <3>1
          <5> QED
            BY <5>1, <5>2
        <4> QED
          BY <4>1, <4>2
      <3>3. \A k \in Covering(a) : k <= n + 1 <=> k <= n
        BY <1>2, <2>2, <2>5
      <3> QED
        BY <1>2, <2>1, <2>2, <3>2, <3>3 DEF Decided
    <2> QED
      BY <2>4, <2>5
  <1> QED
    BY <1>1, <1>3, <1>4, <1>7, <1>8, <1>9

(* The vectors take their words, the segments keep the others.             *)
LEMMA VectorsWritten ==
    ASSUME TypeInv, ImageInv, MkMonitorVectors, NEW a \in Addr, phase' = "run"
    PROVE  IF a \in Vectors THEN Vector(a)' ELSE Decided(NumSegments, a)'
  <1>1. /\ phase = "sections" /\ elf' = elf /\ isMipsEL' = isMipsEL
        /\ mem' = [b \in Addr |-> IF b \in Vectors
                                    THEN [kind |-> "monitor", n |-> b - VectorBase, le |-> isMipsEL]
                                    ELSE mem[b]]
    BY DEF MkMonitorVectors, Go
  <1>2. CASE a \in Vectors
    <2>1. mem'[a] = [kind |-> "monitor", n |-> a - VectorBase, le |-> isMipsEL]
      BY <1>1, <1>2
    <2> QED
      BY <1>1, <1>2, <2>1 DEF Vector, Read
  <1>3. CASE a \notin Vectors
    <2>1. mem'[a] = mem[a] /\ Decided(NumSegments, a)
      BY <1>1, <1>3 DEF ImageInv
    <2> QED
      BY <1>1, <1>3, <2>1 DEF Decided, Covering, FromSegment, NumSegments
  <1> QED
    BY <1>2, <1>3

(* A segment copied or zeroed decides the words it covers; the rest keep   *)
(* what decided them.                                                      *)
LEMMA ImageNext == TypeInv /\ ImageInv /\ [Next]_vars => ImageInv'
  <1> SUFFICES ASSUME TypeInv, ImageInv, [Next]_vars PROVE ImageInv'
    OBVIOUS
  <1>0. mem = [a \in Addr |-> mem[a]] /\ steps \in Nat
    BY StepsAssumption DEF ImageInv, TypeInv, LcTypeOK
  <1>a. ASSUME UNCHANGED <<elf, mem, isMipsEL, todo>>, phase' = phase, steps' = steps, restored' = restored
        PROVE  ImageInv'
    BY <1>a DEF ImageInv, Decided, Covering, FromSegment, Vector, NumSegments, Done
  <1>b. ASSUME phase' \notin {"start", "segments", "sections"}, mem' = [a \in Addr |-> mem'[a]],
               phase' = "run" => steps' # 0 \/ restored'
        PROVE  ImageInv'
    BY <1>b DEF ImageInv
  <1>1. ASSUME Loading PROVE ImageInv'
    <2>0. steps' = steps
      BY <1>1 DEF Loading, runVars
    <2>1. CASE OpenElf
      <3>1. CASE phase' = "segments"
        <4>1. todo' = elf.segments /\ elf' = elf /\ mem' = mem /\ mem = [a \in Addr |-> Zero]
          BY <2>1, <3>1 DEF OpenElf, Go, ImageInv
        <4>2. elf.segments \in Seq(ProgramHeader)
          BY ElfsAssumption DEF TypeInv, ProtectInv
        <4>3. NumSegments' = Len(todo') /\ Done' = 0 /\ Len(todo') \in Nat
          BY <4>1, <4>2 DEF NumSegments, Done
        <4>4. \A a \in Addr : \A k \in Covering(a)' : k > 0
          BY <4>1, <4>2 DEF Covering
        <4>5. \A a \in Addr : Decided(Done, a)'
          BY <4>1, <4>3, <4>4 DEF Decided
        <4>6. \A k \in 1 .. Len(todo') : todo'[k] = elf'.segments[Done' + k]
          BY <4>1, <4>3
        <4> QED
          BY <3>1, <4>1, <4>2, <4>3, <4>5, <4>6 DEF ImageInv
      <3>2. CASE phase' = "exited"
        BY <1>0, <1>b, <2>1, <3>2 DEF OpenElf
      <3> QED
        BY <2>1, <3>1, <3>2 DEF OpenElf, Go
    <2>2. CASE LoadSegment
      <3>1. phase = "segments" /\ elf' = elf
        BY <2>2 DEF LoadSegment
      <3>2. CASE todo = << >>
        <4>1. phase' = "sections" /\ mem' = mem
          BY <2>2, <3>2 DEF LoadSegment, Go
        <4>2. Done = NumSegments
          <5>1. NumSegments \in Nat
            BY ElfsAssumption DEF TypeInv, ProtectInv, NumSegments
          <5> QED
            BY <3>2, <5>1 DEF Done
        <4>3. \A a \in Addr : Decided(NumSegments, a)
          BY <3>1, <4>2 DEF ImageInv
        <4> QED
          BY <1>0, <3>1, <4>1, <4>3 DEF ImageInv, Decided, Covering, FromSegment, NumSegments
      <3>3. CASE todo # << >>
        <4>1. /\ phase' = "segments" /\ todo' = Tail(todo)
              /\ mem' = IF Head(todo).load /\ Head(todo).memsz > 0 THEN Copied(Head(todo)) ELSE mem
          BY <2>2, <3>1, <3>3 DEF LoadSegment
        <4>2. PICK n : n = Done
          OBVIOUS
        <4>3. /\ todo' \in Seq(ProgramHeader) /\ Len(todo') <= NumSegments /\ Done' = n + 1
              /\ \A k \in 1 .. Len(todo') : todo'[k] = elf.segments[Done' + k]
              /\ mem' = [a \in Addr |-> mem'[a]]
              /\ \A a \in Addr : Decided(n + 1, a)'
          BY <3>1, <3>3, <4>1, <4>2, SegmentDecides
        <4>4. NumSegments' = NumSegments
          BY <3>1 DEF NumSegments
        <4>5. \A a \in Addr : Decided(Done, a)'
          BY <4>3
        <4> QED
          BY <3>1, <4>1, <4>3, <4>4, <4>5 DEF ImageInv
      <3> QED
        BY <3>2, <3>3
    <2>3. CASE ProtectSection
      BY <1>0, <2>3 DEF ProtectSection, ImageInv, Decided, Covering, FromSegment, NumSegments
    <2>4. CASE MkMonitorVectors
      <3>1. mem' = [a \in Addr |-> mem'[a]]
        BY <1>0, <2>4 DEF MkMonitorVectors
      <3>2. CASE phase' = "run"
        <4>1. \A a \in Addr : IF a \in Vectors THEN Vector(a)' ELSE Decided(NumSegments, a)'
          BY <2>4, <3>2, VectorsWritten
        <4> QED
          BY <3>1, <3>2, <4>1 DEF ImageInv
      <3>3. CASE phase' = "crashed"
        BY <1>b, <3>1, <3>3
      <3> QED
        BY <2>4, <3>2, <3>3 DEF MkMonitorVectors, Go
    <2>5. CASE DumpState
      BY <1>a, <2>0, <2>5 DEF DumpState
    <2>6. CASE LoadState
      <3>1. phase' = "run" /\ restored' /\ mem' = [a \in Addr |-> mem'[a]]
        BY <2>6 DEF LoadState, Go, PagesPlaced
      <3> QED
        BY <1>b, <3>1
    <2> QED
      BY <1>1, <2>1, <2>2, <2>3, <2>4, <2>5, <2>6 DEF Loading, LoadNext
  <1>2. ASSUME Rerun PROVE ImageInv'
    BY <1>2 DEF Rerun, Restart, Go, ImageInv
  <1>3. ASSUME NEW a \in Addr, NEW n \in {1}, Store(a, n) PROVE ImageInv'
    <2>1. steps' # 0 /\ phase' \in {"run", "crashed"} /\ mem' = [b \in Addr |-> mem'[b]]
      BY <1>0, <1>3 DEF Store, Step, Go
    <2> QED
      BY <1>b, <2>1
  <1>4. ASSUME NEW r \in Calls, MonitorCall(r) PROVE ImageInv'
    <2>1. steps' # 0 /\ phase' \in {"run", "exited"} /\ mem' = mem
      BY <1>0, <1>4 DEF MonitorCall, Step, Go, GetTimeOfDay, HostCall
    <2> QED
      BY <1>0, <1>b, <2>1
  <1>5. ASSUME NEW r \in Calls, MonitorMissing(r) PROVE ImageInv'
    BY <1>0, <1>5, <1>b DEF MonitorMissing, Go, loadVars
  <1>6. ASSUME NEW a \in Addr, Mispredict(a) PROVE ImageInv'
    <2>1. steps' # 0 /\ phase' = "run" /\ mem' = mem
      BY <1>0, <1>6 DEF Mispredict, Step, loadVars
    <2> QED
      BY <1>0, <1>b, <2>1
  <1>7. ASSUME Stop PROVE ImageInv'
    BY <1>0, <1>7, <1>b DEF Stop, Go, loadVars
  <1>8. ASSUME PrintEntry PROVE ImageInv'
    <2>1. phase' \in {"report", "exited"} /\ mem' = mem
      BY <1>8 DEF PrintEntry, Go, loadVars
    <2> QED
      BY <1>0, <1>b, <2>1
  <1>9. ASSUME CloseReport PROVE ImageInv'
    BY <1>0, <1>9, <1>b DEF CloseReport, Go, loadVars
  <1>10. ASSUME UNCHANGED vars PROVE ImageInv'
    BY <1>10, <1>a DEF vars, loadVars, runVars
  <1> QED
    BY <1>1, <1>2, <1>3, <1>4, <1>5, <1>6, <1>7, <1>8, <1>9, <1>10 DEF Next

(* The last segment that covers a word is one.                             *)
LEMMA DecidedImage ==
    ASSUME TypeInv, NEW a \in Addr, Decided(NumSegments, a)
    PROVE  mem[a] = Image(a)
  <1>1. elf.segments \in Seq(ProgramHeader)
    BY ElfsAssumption DEF TypeInv, ProtectInv
  <1>2. Covering(a) \subseteq Nat /\ \A k \in Covering(a) : k <= NumSegments
    BY <1>1 DEF Covering, NumSegments
  <1>3. CASE Covering(a) = {}
    BY <1>3 DEF Decided, Image
  <1>4. CASE Covering(a) # {}
    <2>0. NumSegments \in Nat
      BY <1>1 DEF NumSegments
    <2>1. PICK k \in Covering(a) : (\A j \in Covering(a) : j <= k) /\ mem[a] = FromSegment(k, a)
      BY <1>2, <1>4, <2>0 DEF Decided
    <2>2. k = CHOOSE l \in Covering(a) : \A j \in Covering(a) : j <= l
      BY <1>2, <2>1
    <2> QED
      BY <1>4, <2>1, <2>2 DEF Image, FromSegment
  <1> QED
    BY <1>3, <1>4

(* When load_elf (loadelf.cc:138-154) and mkMonitorVectors have run, every *)
(* word of memory is the one that belongs there, for every file whose      *)
(* segments keep to the format, however they overlap.                      *)
THEOREM ImageCorrect == Spec => []LoadedImage
  <1>1. Init => TypeInv /\ ImageInv
    BY TypeInit, ImageInit
  <1>2. TypeInv /\ ImageInv /\ [Next]_vars => (TypeInv /\ ImageInv)'
    BY TypeNext, ImageNext
  <1>3. TypeInv /\ ImageInv => LoadedImage
    BY DecidedImage DEF TypeInv, ImageInv, LoadedImage, Vector
  <1> QED
    BY <1>1, <1>2, <1>3, PTL DEF Spec

-----------------------------------------------------------------------------
(* A vector's word: its number, in the file's byte order, or what the      *)
(* program has stored over it.                                             *)
VectorCell(a, c) ==
    c.kind = "datum" \/ c = [kind |-> "monitor", n |-> a - VectorBase, le |-> elf.le]

(* The vectors lie in the file's byte order, also in a dump; the program   *)
(* runs in that order unless it is restored, big-endian then.              *)
MonitorInv ==
    /\ restored \in BOOLEAN
    /\ phase = "start" => isMipsEL = FALSE
    /\ phase \in {"segments", "sections"} => isMipsEL = elf.le /\ ~restored
    /\ phase \in {"run", "astray"} =>
          /\ isMipsEL = IF restored THEN FALSE ELSE elf.le
          /\ \A a \in Vectors : VectorCell(a, mem[a])
    /\ disk.written => \A a \in Vectors : VectorCell(a, disk.was.mem[a])
    /\ MonitorReached

(* No monitor call has been served at the start.                           *)
LEMMA MonitorInit == Init => MonitorInv
  <1> SUFFICES ASSUME Init PROVE MonitorInv
    OBVIOUS
  <1>1. phase = "start" /\ isMipsEL = FALSE /\ restored = FALSE /\ disk.written = FALSE
    BY DEF Init, LoadInit, NoDump
  <1>2. served = [call |-> 0, reason |-> 0]
    BY DEF Init, Fresh
  <1> QED
    BY <1>1, <1>2 DEF MonitorInv, MonitorReached

(* Memory has room for the vectors.                                        *)
LEMMA VectorsInMemory == Vectors \subseteq Addr
  BY VectorsAssumption, PagesAssumption DEF Vectors, Addr

(* What a call of entry point r finds there.                               *)
LEMMA EntryPoint ==
    ASSUME MonitorInv, elf.le \in BOOLEAN, phase = "run", NEW r \in Calls, NEW ins, ins = Read(isMipsEL, mem[VectorBase + 2 * r])
    PROVE  /\ ins.kind = "monitor" => ReasonOf(ins) = r
           /\ ins.kind # "monitor" /\ Untouched => restored /\ elf.le
  <1> DEFINE a == VectorBase + 2 * r
  <1>1. r \in Nat /\ 2 * r < NumVectors /\ VectorBase \in Nat /\ NumVectors \in Nat
    BY CallsAssumption, VectorsAssumption
  <1>2. a \in Vectors /\ a - VectorBase = 2 * r
    BY <1>1 DEF Vectors
  <1>3. (2 * r) \div 2 = r
    BY <1>1
  <1> HIDE DEF a
  <1>4. VectorCell(a, mem[a]) /\ ins = Read(isMipsEL, mem[a])
    BY <1>2 DEF MonitorInv, a
  <1>5. CASE mem[a].kind = "datum"
    BY <1>2, <1>4, <1>5 DEF Read, Garbled, Untouched
  <1>6. CASE mem[a] = [kind |-> "monitor", n |-> 2 * r, le |-> elf.le]
    <2>1. ins = IF elf.le = isMipsEL THEN [kind |-> "monitor", n |-> 2 * r] ELSE Garbled
      BY <1>4, <1>6 DEF Read
    <2>2. isMipsEL = IF restored THEN FALSE ELSE elf.le
      BY DEF MonitorInv
    <2>3. CASE elf.le = isMipsEL
      BY <1>3, <2>1, <2>3 DEF ReasonOf
    <2>4. CASE elf.le # isMipsEL
      <3>1. restored = TRUE /\ isMipsEL = FALSE
        BY <2>2, <2>4 DEF MonitorInv
      <3>2. elf.le = TRUE
        BY <2>4, <3>1
      <3> QED
        BY <2>1, <2>4, <3>1, <3>2 DEF Garbled
    <2> QED
      BY <2>3, <2>4
  <1> QED
    BY <1>2, <1>4, <1>5, <1>6 DEF VectorCell

(* The byte order of the reader and what the vectors hold follow from what *)
(* was loaded, through dumps and restarts.                                 *)
LEMMA MonitorNext == TypeInv /\ DumpInv /\ MonitorInv /\ [Next]_vars => MonitorInv'
  <1> SUFFICES ASSUME TypeInv, DumpInv, MonitorInv, [Next]_vars PROVE MonitorInv'
    OBVIOUS
  <1>a. ASSUME UNCHANGED <<elf, isMipsEL, mem, disk, restored, served>>, phase' # "astray",
               phase' \in {phase, "report", "stopped", "exited"}
        PROVE  MonitorInv'
    BY <1>a DEF MonitorInv, MonitorReached, VectorCell
  <1>0. elf \in Elfs /\ elf.le \in BOOLEAN
    BY ElfsAssumption DEF TypeInv, ProtectInv
  <1>1. ASSUME Loading PROVE MonitorInv'
    <2>0. served' = served
      BY <1>1 DEF Loading, runVars
    <2>1. CASE OpenElf
      BY <2>0, <2>1 DEF OpenElf, Go, MonitorInv, MonitorReached, VectorCell
    <2>2. CASE LoadSegment
      BY <2>0, <2>2 DEF LoadSegment, Go, MonitorInv, MonitorReached, VectorCell
    <2>3. CASE ProtectSection
      BY <2>0, <2>3 DEF ProtectSection, MonitorInv, MonitorReached, VectorCell
    <2>4. CASE MkMonitorVectors
      <3>1. /\ phase' \in {"run", "crashed"} /\ UNCHANGED <<elf, isMipsEL, disk, restored, served>>
            /\ phase = "sections"
        BY <2>0, <2>4 DEF MkMonitorVectors, Go
      <3>2. ASSUME phase' = "run", NEW a \in Vectors PROVE VectorCell(a, mem'[a])
        <4>1. mem'[a] = [kind |-> "monitor", n |-> a - VectorBase, le |-> isMipsEL]
          BY <2>4, <3>2, VectorsInMemory DEF MkMonitorVectors, Go
        <4> QED
          BY <3>1, <4>1 DEF MonitorInv, VectorCell
      <3> QED
        BY <3>1, <3>2 DEF MonitorInv, MonitorReached, VectorCell
    <2>5. CASE DumpState
      BY <2>0, <2>5 DEF DumpState, MonitorInv, MonitorReached, Untouched, VectorCell
    <2>6. CASE LoadState
      <3>1. /\ phase = "start" /\ phase' = "run" /\ disk.written /\ restored' = TRUE
            /\ UNCHANGED <<elf, isMipsEL, disk, served>>
        BY <2>0, <2>6 DEF LoadState, Go
      <3>2. mem' = disk.was.mem
        BY <2>6 DEF LoadState, DumpInv, PagesPlaced, Restored
      <3> QED
        BY <3>1, <3>2 DEF MonitorInv, MonitorReached, VectorCell
    <2> QED
      BY <1>1, <2>1, <2>2, <2>3, <2>4, <2>5, <2>6 DEF Loading, LoadNext
  <1>2. ASSUME Rerun PROVE MonitorInv'
    BY <1>2 DEF Rerun, Restart, Go, Fresh, MonitorInv, MonitorReached, VectorCell
  <1>3. ASSUME NEW a \in Addr, NEW n \in {1}, Store(a, n) PROVE MonitorInv'
    <2>1. /\ phase = "run" /\ phase' \in {"run", "crashed"}
          /\ UNCHANGED <<elf, isMipsEL, disk, restored, served>>
      BY <1>3 DEF Store, Step, Go
    <2>2. ASSUME NEW b \in Vectors PROVE VectorCell(b, mem'[b])
      <3>1. mem'[b] = mem[b] \/ mem'[b] = [kind |-> "datum", n |-> n, le |-> isMipsEL]
        BY <1>3, VectorsInMemory DEF Store, DumpInv
      <3> QED
        BY <2>1, <3>1 DEF MonitorInv, VectorCell
    <2> QED
      BY <2>1, <2>2 DEF MonitorInv, MonitorReached, VectorCell
  <1>4. ASSUME NEW r \in Calls, MonitorCall(r) PROVE MonitorInv'
    <2> DEFINE ins == Read(isMipsEL, mem[VectorBase + 2 * r])
    <2>1. /\ phase = "run" /\ phase' \in {"run", "exited"} /\ served' = [call |-> r, reason |-> ReasonOf(ins)]
          /\ UNCHANGED <<elf, isMipsEL, mem, disk, restored>> /\ ins.kind = "monitor"
      BY <1>4 DEF MonitorCall, Step, Go, GetTimeOfDay, HostCall
    <2> HIDE DEF ins
    <2>2. ReasonOf(ins) = r
      BY <1>0, <2>1, EntryPoint DEF ins
    <2> QED
      BY <2>1, <2>2 DEF MonitorInv, MonitorReached, VectorCell
  <1>5. ASSUME NEW r \in Calls, MonitorMissing(r) PROVE MonitorInv'
    <2>1. /\ phase = "run" /\ phase' = "astray" /\ UNCHANGED <<elf, isMipsEL, mem, disk, restored, served>>
          /\ Read(isMipsEL, mem[VectorBase + 2 * r]).kind # "monitor"
      BY <1>5 DEF MonitorMissing, Step, Go, loadVars
    <2>2. Untouched => restored /\ elf.le
      BY <1>0, <2>1, EntryPoint
    <2>3. Untouched' = Untouched
      BY <2>1 DEF Untouched
    <2> QED
      BY <2>1, <2>2, <2>3 DEF MonitorInv, MonitorReached, VectorCell
  <1>6. ASSUME NEW a \in Addr, Mispredict(a) PROVE MonitorInv'
    BY <1>6, <1>a DEF Mispredict, Step, loadVars
  <1>7. ASSUME Stop PROVE MonitorInv'
    BY <1>7, <1>a DEF Stop, Go, loadVars, runVars
  <1>8. ASSUME PrintEntry PROVE MonitorInv'
    BY <1>8, <1>a DEF PrintEntry, Go, loadVars, runVars
  <1>9. ASSUME CloseReport PROVE MonitorInv'
    BY <1>9, <1>a DEF CloseReport, Go, loadVars, runVars
  <1>10. ASSUME UNCHANGED vars PROVE MonitorInv'
    BY <1>10 DEF vars, loadVars, runVars, MonitorInv, MonitorReached, Untouched, VectorCell
  <1> QED
    BY <1>1, <1>2, <1>3, <1>4, <1>5, <1>6, <1>7, <1>8, <1>9, <1>10 DEF Next

(* Every call of the monitor is served as the one that was made            *)
(* (profileMips.cc:145-156, 680-681), for all places and numbers of        *)
(* vectors, in both byte orders; only a restored little-endian program     *)
(* that has its vectors intact can miss one.                               *)
THEOREM MonitorCorrect == Spec => []MonitorReached
  <1>1. Init => TypeInv /\ DumpInv /\ MonitorInv
    BY TypeInit, DumpInit, MonitorInit
  <1>2. TypeInv /\ DumpInv /\ MonitorInv /\ [Next]_vars => (TypeInv /\ DumpInv /\ MonitorInv)'
    BY TypeNext, DumpNext, MonitorNext
  <1>3. MonitorInv => MonitorReached
    BY DEF MonitorInv
  <1> QED
    BY <1>1, <1>2, <1>3, PTL DEF Spec

-----------------------------------------------------------------------------
(* The entries come in the order of Greater, each one once.                *)
Before(e) == {f \in Mispredicted : Greater(f, e)}
Rank(e) == Cardinality(Before(e))

(* The entries of the histogram are finitely many, and count and address   *)
(* tell them apart.                                                        *)
LEMMA MispredictedType ==
    ASSUME TypeInv
    PROVE  /\ IsFiniteSet(Mispredicted)
           /\ \A e \in Mispredicted : e.count \in Nat /\ e.addr \in Addr /\ e.addr \in Int
           /\ \A e, f \in Mispredicted : e.count = f.count /\ e.addr = f.addr => e = f
  <1> DEFINE A == {b \in Addr : histo[b] > 0}
  <1>1. IsFiniteSet(A)
    <2>1. IsFiniteSet(Addr)
      BY PagesAssumption, FS_Interval DEF Addr
    <2> QED
      BY <2>1, FS_Subset
  <1>2. IsFiniteSet(Mispredicted)
    <2> DEFINE entry == [a \in A |-> [count |-> histo[a], addr |-> a]]
    <2>1. entry \in Surjection(A, Mispredicted)
      BY DEF Mispredicted, Surjection
    <2> HIDE DEF entry, A
    <2> QED
      BY <1>1, <2>1, FS_Surjection
  <1>3. \A a \in Addr : histo[a] \in Nat /\ a \in Int
    BY PagesAssumption, StepsAssumption DEF TypeInv, LcTypeOK, Addr
  <1> QED
    BY <1>2, <1>3 DEF Mispredicted

(* Greater is a strict order, total on the entries.                        *)
LEMMA GreaterOrders ==
    ASSUME TypeInv, NEW d \in Mispredicted, NEW e \in Mispredicted, NEW f \in Mispredicted
    PROVE  /\ ~ Greater(e, e)
           /\ Greater(d, e) /\ Greater(e, f) => Greater(d, f)
           /\ e # f => Greater(e, f) \/ Greater(f, e)
  BY MispredictedType DEF Greater

(* What sorts before another has the lower rank.                           *)
LEMMA RankOrders ==
    ASSUME TypeInv, NEW e \in Mispredicted, NEW f \in Mispredicted
    PROVE  /\ Rank(e) \in 0 .. Cardinality(Mispredicted) - 1
           /\ Greater(e, f) => Rank(e) < Rank(f)
  <1>1. IsFiniteSet(Mispredicted)
    BY MispredictedType
  <1>2. ASSUME NEW d \in Mispredicted
        PROVE  IsFiniteSet(Before(d)) /\ Rank(d) \in Nat
    <2>1. Before(d) \in SUBSET Mispredicted
      BY DEF Before
    <2>2. IsFiniteSet(Before(d))
      BY <1>1, <2>1, FS_Subset
    <2> QED
      BY <2>2, FS_CardinalityType DEF Rank
  <1>3. Rank(e) < Cardinality(Mispredicted)
    <2>1. Before(e) \in SUBSET Mispredicted /\ e \notin Before(e)
      BY GreaterOrders DEF Before
    <2>2. Rank(e) <= Cardinality(Mispredicted) /\ Rank(e) # Cardinality(Mispredicted)
      BY <1>1, <2>1, FS_Subset DEF Rank
    <2>3. Cardinality(Mispredicted) \in Nat
      BY <1>1, FS_CardinalityType
    <2> QED
      BY <1>2, <2>2, <2>3
  <1>4. ASSUME Greater(e, f) PROVE Rank(e) < Rank(f)
    <2>1. Before(e) \in SUBSET Before(f)
      BY <1>4, GreaterOrders DEF Before
    <2>2. e \in Before(f) /\ e \notin Before(e)
      BY <1>4, GreaterOrders DEF Before
    <2>3. IsFiniteSet(Before(f))
      BY <1>2
    <2>4. Rank(e) <= Rank(f) /\ Rank(e) # Rank(f)
      BY <2>1, <2>2, <2>3, FS_Subset DEF Rank
    <2> QED
      BY <1>2, <2>4
  <1>5. Cardinality(Mispredicted) \in Nat
    BY <1>1, FS_CardinalityType
  <1> QED
    BY <1>2, <1>3, <1>4, <1>5

(* Every place has its entry: the ranks are as many as the places.         *)
LEMMA RanksFill ==
    ASSUME TypeInv, NEW n \in 0 .. Cardinality(Mispredicted) - 1
    PROVE  \E e \in Mispredicted : Rank(e) = n
  <1> DEFINE S == Mispredicted
             N == Cardinality(S)
             rank == [e \in S |-> Rank(e)]
  <1>1. IsFiniteSet(S) /\ N \in Nat
    BY MispredictedType, FS_CardinalityType
  <1>2. IsFiniteSet(0 .. N - 1) /\ Cardinality(0 .. N - 1) = N
    BY <1>1, FS_Interval
  <1>3. rank \in Injection(S, 0 .. N - 1)
    <2>1. rank \in [S -> 0 .. N - 1]
      BY RankOrders
    <2>2. ASSUME NEW e \in S, NEW f \in S, e # f PROVE Rank(e) # Rank(f)
      <3>1. Rank(e) \in Int /\ Rank(f) \in Int
        BY <1>1, RankOrders
      <3>2. Greater(e, f) \/ Greater(f, e)
        BY <2>2, GreaterOrders
      <3> QED
        BY <3>1, <3>2, RankOrders
    <2>3. \A e, f \in S : rank[e] = rank[f] => e = f
      BY <2>2
    <2> HIDE DEF rank, S
    <2> QED
      BY <2>1, <2>3 DEF Injection, IsInjective
  <1>4. rank \in Surjection(S, 0 .. N - 1)
    <2> HIDE DEF rank, N, S
    <2> QED
      BY <1>1, <1>2, <1>3, FS_Injection DEF N
  <1> QED
    BY <1>4 DEF Surjection

(* Sorting gives a sequence of all entries, the greater before the         *)
(* smaller.                                                                *)
LEMMA EntriesSorted ==
    ASSUME TypeInv
    PROVE  /\ Entries \in Seq(Mispredicted)
           /\ \A j, k \in 1 .. Len(Entries) : j < k => Greater(Entries[j], Entries[k])
           /\ \A e \in Mispredicted : \E k \in 1 .. Len(Entries) : Entries[k] = e
  <1> DEFINE N == Cardinality(Mispredicted)
             Placed(k) == CHOOSE e \in Mispredicted : Rank(e) = k - 1
  <1>1. N \in Nat
    BY MispredictedType, FS_CardinalityType
  <1>2. Entries = [k \in 1 .. N |-> Placed(k)]
    BY DEF Entries, Ranked, Rank, Before
  <1>3. ASSUME NEW k \in 1 .. N PROVE Placed(k) \in Mispredicted /\ Rank(Placed(k)) = k - 1
    <2>1. k - 1 \in 0 .. N - 1
      BY <1>1
    <2> QED
      BY <2>1, RanksFill
  <1> HIDE DEF N, Placed
  <1>4. Entries \in [1 .. N -> Mispredicted]
    BY <1>2, <1>3
  <1>5. Entries \in Seq(Mispredicted) /\ Len(Entries) = N
    BY <1>1, <1>4
  <1>6. \A k \in 1 .. N : Entries[k] \in Mispredicted /\ Rank(Entries[k]) = k - 1
    BY <1>2, <1>3
  <1>7. ASSUME NEW j \in 1 .. N, NEW k \in 1 .. N, j < k PROVE Greater(Entries[j], Entries[k])
    <2>1. Rank(Entries[j]) < Rank(Entries[k]) /\ Entries[j] # Entries[k]
      BY <1>1, <1>6, <1>7
    <2>2. Rank(Entries[j]) \in Int /\ Rank(Entries[k]) \in Int
      BY <1>6
    <2>3. ~ Greater(Entries[k], Entries[j])
      BY <1>6, <2>1, <2>2, RankOrders
    <2> QED
      BY <1>6, <2>1, <2>3, GreaterOrders
  <1>8. ASSUME NEW e \in Mispredicted PROVE \E k \in 1 .. N : Entries[k] = e
    <2>1. Rank(e) \in 0 .. N - 1
      BY RankOrders DEF N
    <2> DEFINE k == Rank(e) + 1
    <2>2. k \in 1 .. N /\ k - 1 = Rank(e)
      BY <1>1, <2>1
    <2>3. Rank(Entries[k]) = Rank(e) /\ Entries[k] \in Mispredicted
      BY <1>6, <2>2
    <2>4. Entries[k] = e
      <3>1. Rank(e) \in Int
        BY <1>1, <2>1
      <3> QED
        BY <2>3, <3>1, GreaterOrders, RankOrders
    <2> QED
      BY <2>2, <2>4
  <1> QED
    BY <1>5, <1>7, <1>8

(* What dump_histo prints of an entry, and how far it is: the lines and    *)
(* the entries still to print are the sorted entries.                      *)
Printed(e) == [count |-> e.count, addr |-> e.addr, ins |-> Listed(e.addr)]

Printing ==
    /\ report \in Seq({Printed(e) : e \in Mispredicted}) /\ pending \in Seq(Mispredicted)
    /\ Len(report) + Len(pending) = Len(Entries)
    /\ \A k \in 1 .. Len(report) : report[k] = Printed(Entries[k])
    /\ \A k \in 1 .. Len(pending) : pending[k] = Entries[Len(report) + k]

(* What a big-endian program last executed or stored at an address is what *)
(* the report reads there.                                                 *)
Readable == \A a \in Addr : histo[a] > 0 => Listed(a) = known[a] /\ known[a].kind # "garbled"

ReportInv ==
    /\ phase \in {"start", "segments", "sections"} => histo = [a \in Addr |-> 0]
    /\ phase \in {"start", "segments", "sections", "run"} => pending = << >> /\ report = << >>
    /\ Reporting => Printing
    /\ phase = "stopped" => pending = << >>
    /\ (phase = "run" \/ Reporting) /\ ~isMipsEL => Readable
    /\ phase = "exited" /\ pending # << >> => MayGiveUp(Listed(Head(pending).addr))

(* Nothing of this depends on more than the counts and the memory.         *)
LEMMA SameReport ==
    ASSUME UNCHANGED histo
    PROVE  Mispredicted' = Mispredicted /\ Entries' = Entries
  <1>1. Mispredicted' = Mispredicted
    BY DEF Mispredicted
  <1> QED
    BY <1>1 DEF Entries, Ranked, Greater

(* What a line says depends on histogram and memory only, and whether it   *)
(* can be read on what is known besides.                                   *)
LEMMA SamePrinting ==
    ASSUME UNCHANGED <<histo, mem>>
    PROVE  /\ \A e : Printed(e)' = Printed(e)
           /\ UNCHANGED known => Readable' = Readable
  BY DEF Printed, Readable, Listed

(* A step that leaves the report alone leaves its lines what they were.    *)
LEMMA SameLines ==
    ASSUME UNCHANGED <<histo, known, mem, pending, report>>
    PROVE  Readable' = Readable /\ Printing' = Printing
  <1>1. Mispredicted' = Mispredicted /\ Entries' = Entries
    BY SameReport
  <1>2. (\A e : Printed(e)' = Printed(e)) /\ Readable' = Readable
    BY SamePrinting
  <1>3. report' = report /\ pending' = pending
    OBVIOUS
  <1>4. {Printed(e)' : e \in Mispredicted} = {Printed(e) : e \in Mispredicted}
    BY <1>2
  <1> QED
    BY <1>1, <1>2, <1>3, <1>4 DEF Printing

(* No line is printed or pending before the program ends.                  *)
LEMMA ReportInit == Init => ReportInv /\ DOMAIN known = Addr
  BY DEF Init, LoadInit, Fresh, ReportInv, Reporting

(* Every address has its instruction or datum.                             *)
LEMMA KnownDomain == DOMAIN known = Addr /\ [Next]_vars => DOMAIN known' = Addr
  <1> SUFFICES ASSUME DOMAIN known = Addr, [Next]_vars PROVE DOMAIN known' = Addr
    OBVIOUS
  <1>1. CASE Loading
    BY <1>1 DEF Loading, runVars
  <1>2. CASE Rerun
    BY <1>2 DEF Rerun, Fresh
  <1>3. ASSUME NEW a \in Addr, NEW n, Store(a, n) \/ Mispredict(a) PROVE DOMAIN known' = Addr
    BY <1>3 DEF Store, Mispredict
  <1>4. ASSUME NEW r, MonitorCall(r) \/ MonitorMissing(r) PROVE DOMAIN known' = Addr
    BY <1>4 DEF MonitorCall, MonitorMissing
  <1>5. CASE Stop \/ PrintEntry \/ CloseReport \/ UNCHANGED vars
    BY <1>5 DEF Stop, PrintEntry, CloseReport, runVars, vars
  <1> QED
    BY <1>1, <1>2, <1>3, <1>4, <1>5 DEF Next

(* One entry is printed.                                                   *)
LEMMA PrintsOne ==
    ASSUME TypeInv, Printing, pending # << >>, UNCHANGED <<histo, mem>>,
           report' = Append(report, Printed(Head(pending))), pending' = Tail(pending)
    PROVE  Printing'
  <1> DEFINE P == {Printed(e) : e \in Mispredicted}
             p == Printed(Head(pending))
  <1>1. /\ report \in Seq(P) /\ pending \in Seq(Mispredicted) /\ Len(pending) >= 1
        /\ Len(report) \in Nat /\ Len(pending) \in Nat /\ Head(pending) = pending[1]
        /\ Head(pending) \in Mispredicted
    BY DEF Printing
  <1>2. p \in P
    BY <1>1
  <1>3. P' = P /\ Mispredicted' = Mispredicted /\ Entries' = Entries /\ \A e : Printed(e)' = Printed(e)
    BY SameReport, SamePrinting
  <1> HIDE DEF P, p
  <1>4. /\ report' \in Seq(P) /\ Len(report') = Len(report) + 1
        /\ \A k \in 1 .. Len(report) : report'[k] = report[k]
        /\ report'[Len(report) + 1] = p
    BY <1>1, <1>2 DEF p
  <1>5. /\ pending' \in Seq(Mispredicted) /\ Len(pending') = Len(pending) - 1
        /\ \A k \in 1 .. Len(pending') : pending'[k] = pending[k + 1]
    BY <1>1
  <1>6. ASSUME NEW k \in 1 .. Len(report') PROVE report'[k] = Printed(Entries[k])
    <2>1. CASE k \in 1 .. Len(report)
      BY <1>4, <2>1 DEF Printing
    <2>2. CASE k = Len(report) + 1
      <3>1. pending[1] = Entries[Len(report) + 1]
        BY <1>1 DEF Printing
      <3> QED
        BY <1>1, <1>4, <2>2, <3>1 DEF p
    <2> QED
      BY <1>1, <1>4, <2>1, <2>2
  <1>7. ASSUME NEW k \in 1 .. Len(pending') PROVE pending'[k] = Entries[Len(report') + k]
    <2>1. k \in Nat /\ k + 1 \in 1 .. Len(pending) /\ pending'[k] = pending[k + 1]
      BY <1>1, <1>5
    <2>2. pending[k + 1] = Entries[Len(report) + (k + 1)]
      BY <2>1 DEF Printing
    <2>3. Len(report) + (k + 1) = Len(report') + k
      BY <1>1, <1>4, <2>1
    <2> QED
      BY <2>1, <2>2, <2>3
  <1>8. Len(report') + Len(pending') = Len(Entries)
    BY <1>1, <1>4, <1>5 DEF Printing
  <1> QED
    BY <1>3, <1>4, <1>5, <1>6, <1>7, <1>8 DEF Printing, P

(* A line printed is the first of those pending; the histogram and memory  *)
(* no longer change.                                                       *)
LEMMA ReportNext == TypeInv /\ DumpInv /\ ReportInv /\ DOMAIN known = Addr /\ [Next]_vars => ReportInv'
  <1> SUFFICES ASSUME TypeInv, DumpInv, ReportInv, DOMAIN known = Addr, [Next]_vars PROVE ReportInv'
    OBVIOUS
  <1>0. \A a \in Addr : histo[a] \in Nat
    BY StepsAssumption DEF TypeInv, LcTypeOK
  <1>a. ASSUME phase' \notin {"start", "segments", "sections", "run", "report", "stopped", "exited"}
        PROVE  ReportInv'
    BY <1>a DEF ReportInv, Reporting
  <1>b. ASSUME UNCHANGED <<histo, known, mem, isMipsEL, pending, report>>, phase' = phase
        PROVE  ReportInv'
    <2>1. Readable' = Readable /\ Printing' = Printing
      BY <1>b, SameLines
    <2> QED
      BY <1>b, <2>1 DEF ReportInv, Reporting, Listed
  <1>c. ASSUME UNCHANGED <<histo, pending, report>>, phase \in {"start", "sections"},
               phase' \in {"run", "crashed"}
        PROVE  ReportInv'
    <2>1. Readable'
      BY <1>c DEF ReportInv, Readable
    <2> QED
      BY <1>c, <2>1 DEF ReportInv, Reporting
  <1>1. ASSUME Loading PROVE ReportInv'
    <2>0. UNCHANGED <<histo, known, pending, report>>
      BY <1>1 DEF Loading, runVars
    <2>1. CASE OpenElf
      BY <2>0, <2>1 DEF OpenElf, Go, ReportInv, Reporting
    <2>2. CASE LoadSegment
      BY <2>0, <2>2 DEF LoadSegment, Go, ReportInv, Reporting
    <2>3. CASE ProtectSection
      BY <2>0, <2>3 DEF ProtectSection, ReportInv, Reporting
    <2>4. CASE MkMonitorVectors
      <3>1. phase \in {"start", "sections"} /\ phase' \in {"run", "crashed"}
        BY <2>4 DEF MkMonitorVectors, Go
      <3> QED
        BY <2>0, <3>1, <1>c
    <2>5. CASE DumpState
      BY <2>0, <2>5, <1>b DEF DumpState
    <2>6. CASE LoadState
      <3>1. phase \in {"start", "sections"} /\ phase' \in {"run", "crashed"}
        BY <2>6 DEF LoadState, Go
      <3> QED
        BY <2>0, <3>1, <1>c
    <2> QED
      BY <1>1, <2>1, <2>2, <2>3, <2>4, <2>5, <2>6 DEF Loading, LoadNext
  <1>2. ASSUME Rerun PROVE ReportInv'
    BY <1>2 DEF Rerun, Restart, Go, Fresh, ReportInv, Reporting
  <1>3. ASSUME NEW a \in Addr, NEW n \in {1}, Store(a, n) PROVE ReportInv'
    <2>1. /\ phase = "run" /\ phase' \in {"run", "crashed"}
          /\ UNCHANGED <<histo, isMipsEL, pending, report>>
      BY <1>3 DEF Store, Step, Go
    <2>2. ASSUME ~isMipsEL, NEW b \in Addr, histo[b] > 0
          PROVE  Read(FALSE, mem'[b]) = known'[b] /\ known'[b].kind # "garbled"
      <3>1. \/ mem'[b] = mem[b] /\ known'[b] = known[b]
            \/ mem'[b] = [kind |-> "datum", n |-> n, le |-> isMipsEL] /\ known'[b] = [kind |-> "datum", n |-> n]
        BY <1>3 DEF Store, DumpInv
      <3>2. CASE mem'[b] = mem[b] /\ known'[b] = known[b]
        BY <2>1, <2>2, <3>2 DEF ReportInv, Readable, Listed
      <3>3. CASE mem'[b] = [kind |-> "datum", n |-> n, le |-> isMipsEL] /\ known'[b] = [kind |-> "datum", n |-> n]
        <4>1. isMipsEL = FALSE
          BY <2>2 DEF TypeInv, LcTypeOK
        <4> QED
          BY <3>3, <4>1 DEF Read
      <3> QED
        BY <3>1, <3>2, <3>3
    <2> QED
      BY <2>1, <2>2 DEF ReportInv, Readable, Listed, Reporting
  <1>4. ASSUME NEW r \in Calls, MonitorCall(r) PROVE ReportInv'
    <2>1. /\ phase = "run" /\ phase' \in {"run", "exited"}
          /\ UNCHANGED <<histo, known, mem, isMipsEL, pending, report>>
      BY <1>4 DEF MonitorCall, Step, Go, GetTimeOfDay, HostCall
    <2> QED
      BY <2>1 DEF ReportInv, Readable, Listed, Reporting
  <1>5. ASSUME NEW r \in Calls, MonitorMissing(r) PROVE ReportInv'
    BY <1>5, <1>a DEF MonitorMissing, Go
  <1>6. ASSUME NEW a \in Addr, Mispredict(a) PROVE ReportInv'
    <2>1. /\ phase = "run" /\ phase' = phase /\ UNCHANGED <<mem, isMipsEL, pending, report>>
          /\ Read(isMipsEL, mem[a]).kind \in Transfers
          /\ histo' = [histo EXCEPT ![a] = @ + 1] /\ known' = [known EXCEPT ![a] = Read(isMipsEL, mem[a])]
      BY <1>6 DEF Mispredict, Step, loadVars
    <2>2. ASSUME ~isMipsEL, NEW b \in Addr, histo'[b] > 0
          PROVE  Read(FALSE, mem[b]) = known'[b] /\ known'[b].kind # "garbled"
      <3>1. CASE b = a
        <4>1. isMipsEL = FALSE
          BY <2>2 DEF TypeInv, LcTypeOK
        <4> QED
          BY <2>1, <3>1, <4>1 DEF Transfers
      <3>2. CASE b # a
        <4>1. histo[b] > 0 /\ known'[b] = known[b]
          BY <2>1, <2>2, <3>2 DEF TypeInv, LcTypeOK
        <4> QED
          BY <2>1, <2>2, <4>1 DEF ReportInv, Readable, Listed
      <3> QED
        BY <3>1, <3>2
    <2> QED
      BY <2>1, <2>2 DEF ReportInv, Readable, Listed, Reporting
  <1>7. ASSUME Stop PROVE ReportInv'
    <2>1. /\ phase = "run" /\ phase' = "report" /\ UNCHANGED <<histo, known, mem, isMipsEL, report>>
          /\ pending' = Entries /\ report = << >>
      BY <1>7 DEF Stop, Go, loadVars, runVars, ReportInv
    <2>2. Mispredicted' = Mispredicted /\ Entries' = Entries
      BY <2>1, SameReport
    <2>3. Entries \in Seq(Mispredicted) /\ Len(Entries) \in Nat
      BY EntriesSorted
    <2>4. Printing'
      BY <2>1, <2>2, <2>3 DEF Printing
    <2>5. Readable' = Readable
      BY <2>1 DEF Readable, Listed
    <2> QED
      BY <2>1, <2>4, <2>5 DEF ReportInv, Reporting
  <1>8. ASSUME PrintEntry PROVE ReportInv'
    <2> DEFINE e == Head(pending)
               ins == Listed(e.addr)
    <2>1. /\ phase = "report" /\ pending # << >> /\ UNCHANGED <<histo, known, mem, isMipsEL>> /\ Printing
          /\ ~isMipsEL => Readable
      BY <1>8 DEF PrintEntry, loadVars, runVars, ReportInv, Reporting
    <2>2. CASE phase' = phase /\ report' = Append(report, Printed(e)) /\ pending' = Tail(pending)
      <3>1. Printing'
        BY <2>1, <2>2, PrintsOne
      <3>2. Readable' = Readable
        BY <2>1 DEF Readable, Listed
      <3> QED
        BY <2>1, <2>2, <3>1, <3>2 DEF ReportInv, Reporting
    <2>3. CASE phase' = "exited" /\ UNCHANGED <<pending, report>> /\ MayGiveUp(ins)
      <3>1. Readable' = Readable /\ Printing' = Printing
        BY <2>1, <2>3, SameLines
      <3>2. MayGiveUp(Listed(Head(pending).addr))'
        BY <2>1, <2>3 DEF Listed
      <3> QED
        BY <2>1, <2>3, <3>1, <3>2 DEF ReportInv, Reporting
    <2> QED
      BY <1>8, <2>2, <2>3 DEF PrintEntry, Go, Printed
  <1>9. ASSUME CloseReport PROVE ReportInv'
    <2>1. /\ phase = "report" /\ pending = << >> /\ phase' = "stopped"
          /\ UNCHANGED <<histo, known, mem, isMipsEL, pending, report>>
      BY <1>9 DEF CloseReport, Go, loadVars, runVars
    <2>2. Readable' = Readable /\ Printing' = Printing
      BY <2>1, SameLines
    <2> QED
      BY <2>1, <2>2 DEF ReportInv, Reporting
  <1>10. ASSUME UNCHANGED vars PROVE ReportInv'
    BY <1>10, <1>b DEF vars, loadVars, runVars
  <1> QED
    BY <1>1, <1>2, <1>3, <1>4, <1>5, <1>6, <1>7, <1>8, <1>9, <1>10 DEF Next

(* What is printed and what is pending are the entries, sorted; what is    *)
(* printed of a big-endian program can be read.                            *)
LEMMA ReportLines ==
    ASSUME TypeInv, ReportInv, Reporting
    PROVE  /\ {[addr |-> e.addr, count |-> e.count] : e \in {report[k] : k \in DOMAIN report}}
                \cup {[addr |-> e.addr, count |-> e.count] : e \in {pending[k] : k \in DOMAIN pending}}
                = {[addr |-> a, count |-> histo[a]] : a \in {b \in Addr : histo[b] > 0}}
           /\ \A j, k \in DOMAIN report :
                j < k => report[j].count >= report[k].count /\ report[j].addr # report[k].addr
           /\ \A j \in DOMAIN report, k \in DOMAIN pending :
                report[j].count >= pending[k].count /\ report[j].addr # pending[k].addr
           /\ ~isMipsEL => \A k \in DOMAIN report : report[k].ins = known[report[k].addr]
           /\ pending # << >> => /\ Head(pending).addr \in Addr /\ histo[Head(pending).addr] > 0
  <1> DEFINE D == 1 .. Len(Entries)
             R == 1 .. Len(report)
             P == 1 .. Len(pending)
             A == {b \in Addr : histo[b] > 0}
             Pair(e) == [addr |-> e.addr, count |-> e.count]
  <1>1. Printing
    BY DEF ReportInv
  <1>2. /\ DOMAIN report = R /\ DOMAIN pending = P /\ Len(report) \in Nat /\ Len(pending) \in Nat
        /\ Len(report) + Len(pending) = Len(Entries)
    <2>1. \A S : \A s \in Seq(S) : DOMAIN s = 1 .. Len(s) /\ Len(s) \in Nat
      OBVIOUS
    <2>2. DOMAIN report = R /\ Len(report) \in Nat
      BY <1>1, <2>1, Zenon DEF Printing
    <2>3. DOMAIN pending = P /\ Len(pending) \in Nat
      BY <1>1, <2>1, Zenon DEF Printing
    <2> QED
      BY <1>1, <2>2, <2>3 DEF Printing
  <1>3. \A k \in R : report[k].addr = Entries[k].addr /\ report[k].count = Entries[k].count
                      /\ report[k].ins = Listed(Entries[k].addr)
    <2>1. \A k \in R : report[k] = Printed(Entries[k])
      BY <1>1 DEF Printing
    <2>2. \A x : Printed(x).addr = x.addr /\ Printed(x).count = x.count /\ Printed(x).ins = Listed(x.addr)
      BY DEF Printed
    <2> HIDE DEF R
    <2> QED
      BY <2>1, <2>2
  <1>4. \A k \in P : pending[k] = Entries[Len(report) + k]
    BY <1>1 DEF Printing
  <1>5. \A k \in D : Entries[k] \in Mispredicted
    BY EntriesSorted
  <1>6. \A e \in Mispredicted : e.addr \in A /\ e.count = histo[e.addr]
    BY DEF Mispredicted
  <1>7. /\ \A k \in R : k \in D
        /\ \A k \in P : Len(report) + k \in D
        /\ \A k \in D : k \in R \/ (k - Len(report) \in P /\ k = Len(report) + (k - Len(report)))
        /\ \A j \in R, k \in P : j < Len(report) + k
    BY <1>2
  <1>8. ASSUME NEW j \in D, NEW k \in D, j < k
        PROVE  Entries[j].count >= Entries[k].count /\ Entries[j].addr # Entries[k].addr
    <2>1. Greater(Entries[j], Entries[k])
      BY <1>8, EntriesSorted
    <2>2. Entries[j] \in Mispredicted /\ Entries[k] \in Mispredicted
      BY <1>5
    <2> QED
      BY <1>6, <2>1, <2>2, MispredictedType DEF Greater
  <1> HIDE DEF D, R, P
  <1>9. {Pair(e) : e \in {report[k] : k \in DOMAIN report}}
          \cup {Pair(e) : e \in {pending[k] : k \in DOMAIN pending}} = {[addr |-> a, count |-> histo[a]] : a \in A}
    <2>1. ASSUME NEW k \in R PROVE \E a \in A : Pair(report[k]) = [addr |-> a, count |-> histo[a]]
      BY <1>3, <1>5, <1>6, <1>7
    <2>2. ASSUME NEW k \in P PROVE \E a \in A : Pair(pending[k]) = [addr |-> a, count |-> histo[a]]
      BY <1>4, <1>5, <1>6, <1>7
    <2>3. ASSUME NEW a \in A
          PROVE  \/ \E k \in R : Pair(report[k]) = [addr |-> a, count |-> histo[a]]
                 \/ \E k \in P : Pair(pending[k]) = [addr |-> a, count |-> histo[a]]
      <3>1. [count |-> histo[a], addr |-> a] \in Mispredicted
        BY DEF Mispredicted
      <3>2. PICK k \in D : Entries[k] = [count |-> histo[a], addr |-> a]
        BY <3>1, EntriesSorted DEF D
      <3>3. CASE k \in R
        BY <1>3, <3>2, <3>3
      <3>4. CASE k - Len(report) \in P /\ k = Len(report) + (k - Len(report))
        BY <1>4, <3>2, <3>4
      <3> QED
        BY <1>7, <3>3, <3>4
    <2> HIDE DEF A, Pair
    <2> QED
      BY <1>2, <2>1, <2>2, <2>3
  <1>10. ASSUME ~isMipsEL, NEW k \in R PROVE report[k].ins = known[report[k].addr]
    <2>1. Entries[k].addr \in Addr /\ histo[Entries[k].addr] > 0
      BY <1>5, <1>6, <1>7
    <2> QED
      BY <1>3, <1>10, <2>1 DEF ReportInv, Readable
  <1>11. ASSUME pending # << >> PROVE Head(pending).addr \in Addr /\ histo[Head(pending).addr] > 0
    <2>1. Head(pending) \in Mispredicted
      BY <1>1, <1>11 DEF Printing
    <2> QED
      BY <1>6, <2>1
  <1>12. ASSUME NEW j \in R, NEW k \in R, j < k
         PROVE  report[j].count >= report[k].count /\ report[j].addr # report[k].addr
    BY <1>3, <1>7, <1>8, <1>12
  <1>13. ASSUME NEW j \in R, NEW k \in P
         PROVE  report[j].count >= pending[k].count /\ report[j].addr # pending[k].addr
    BY <1>3, <1>4, <1>7, <1>8
  <1> QED
    BY <1>2, <1>9, <1>10, <1>11, <1>12, <1>13

(* mispredicts.txt of a big-endian program (dump_histo, main.cc:41-65):    *)
(* what has been printed at any moment, and what is still to come, is      *)
(* every mispredicted address once, the most frequent first; each line     *)
(* shows the instruction executed there or what the program has stored     *)
(* over it since; only a linking branch ends the program before the last   *)
(* line.                                                                   *)
THEOREM ReportCorrect == Spec => []ReportComplete
  <1>1. Init => TypeInv /\ DumpInv /\ ReportInv /\ DOMAIN known = Addr
    BY TypeInit, DumpInit, ReportInit
  <1>2. TypeInv /\ DumpInv /\ ReportInv /\ DOMAIN known = Addr /\ [Next]_vars =>
          (TypeInv /\ DumpInv /\ ReportInv /\ DOMAIN known = Addr)'
    BY TypeNext, DumpNext, ReportNext, KnownDomain
  <1>3. TypeInv /\ ReportInv => ReportComplete
    <2> SUFFICES ASSUME TypeInv, ReportInv, Reporting, ~isMipsEL PROVE ReportComplete
      BY DEF ReportComplete
    <2>1. ASSUME phase = "exited"
          PROVE  known[Head(pending).addr].kind = "regimm" /\ known[Head(pending).addr].n > 3
      <3>1. MayGiveUp(Listed(Head(pending).addr)) /\ Head(pending).addr \in Addr /\ histo[Head(pending).addr] > 0
        BY <2>1, ReportLines DEF ReportInv, Reporting
      <3> QED
        BY <3>1 DEF ReportInv, Readable, MayGiveUp
    <2>2. phase = "stopped" => pending = << >>
      BY DEF ReportInv
    <2> QED
      BY <2>1, <2>2, ReportLines DEF ReportComplete
  <1> QED
    BY <1>1, <1>2, <1>3, PTL DEF Spec

-----------------------------------------------------------------------------
Half == WordBits \div 2

(* Words have a power of two of bits, an address half of them.             *)
LEMMA Halves ==
    /\ WordBits \in Nat /\ Half \in Nat \ {0} /\ WordBits = 2 * Half
    /\ \E k \in 1 .. WordBits : WordBits = 2^k
<1>1. PICK k \in 1 .. WordBits : WordBits \in Nat /\ WordBits = 2^k
  BY WordAssumption
<1>2. PICK m \in Nat : m = k - 1
  BY <1>1
<1>3. 2^(m + 1) = 2 * 2^m
  BY <1>2, PowerStep
<1>4. 2^m \in Nat /\ 2^m > 0
  BY <1>2, PowerPositive
<1>5. k = m + 1
  BY <1>1, <1>2
<1>6. WordBits = 2 * 2^m
  BY <1>1, <1>3, <1>5
<1> QED
  BY <1>1, <1>4, <1>6 DEF Half

(* Powers differ as their exponents do.                                    *)
LEMMA PowerRises ==
    ASSUME NEW m \in Nat, NEW n \in Nat, m < n
    PROVE  2^m < 2^n
<1>1. 2^m \in Nat /\ 2^m > 0 /\ 2^n \in Nat
  BY PowerPositive
<1>2. 2^(m + 1) = 2 * 2^m
  BY PowerStep
<1>3. m + 1 \in Nat /\ m + 1 <= n
  OBVIOUS
<1>4. 2^(m + 1) <= 2^n
  BY <1>3, PowerGrows
<1> QED
  BY <1>1, <1>2, <1>4

(* A number is less than its power.                                        *)
LEMMA PowerAbove == \A n \in Nat : n < 2^n
<1> DEFINE T == {n \in Nat : n < 2^n}
<1>1. 0 \in T
  BY PowerZero
<1>2. ASSUME NEW n \in T PROVE n + 1 \in T
  <2>1. n \in Nat /\ n < 2^n
    OBVIOUS
  <2>2. 2^n < 2^(n + 1) /\ 2^n \in Nat /\ 2^(n + 1) \in Nat
    BY <2>1, PowerRises, PowerPositive
  <2> QED
    BY <2>1, <2>2
<1>3. T = Nat
  <2> HIDE DEF T
  <2>1. T \in SUBSET Nat
    BY DEF T
  <2> QED
    BY <1>1, <1>2, <2>1, SetInduction
<1> QED
  BY <1>3

(* A least member is the one that Min chooses.                             *)
LEMMA MinIs ==
    ASSUME NEW S, S \subseteq Nat, NEW k \in S, \A n \in S : k <= n
    PROVE  Min(S) = k
<1>1. \E x \in S : \A y \in S : x <= y
  OBVIOUS
<1>2. Min(S) \in S /\ \A y \in S : Min(S) <= y
  BY <1>1, Zenon DEF Min
<1>3. PICK m : m = Min(S)
  OBVIOUS
<1>4. m \in S /\ m <= k /\ k <= m
  BY <1>2, <1>3
<1>5. m \in Nat /\ k \in Nat
  BY <1>4
<1>6. m = k
  BY <1>4, <1>5
<1> QED
  BY <1>3, <1>6

(* The loop of the constructor finds the least power that is no less.      *)
LEMMA Ln2Power ==
    ASSUME NEW k \in 0 .. WordBits
    PROVE  Ln2(2^k) = k
<1>1. WordBits \in Nat /\ k \in Nat
  BY Halves
<1> DEFINE S == {n \in 0 .. WordBits : 2^k <= 2^n}
<1>2. k \in S
  BY <1>1, PowerPositive
<1>3. ASSUME NEW n \in S PROVE k <= n
  <2> SUFFICES ASSUME n < k PROVE FALSE
    BY <1>1
  <2>1. 2^n < 2^k /\ 2^n \in Nat /\ 2^k \in Nat
    BY <1>1, PowerRises, PowerPositive
  <2> QED
    BY <2>1
<1>4. S \subseteq Nat
  BY <1>1
<1>5. Ln2(2^k) = Min(S)
  BY DEF Ln2
<1> HIDE DEF S
<1> QED
  BY <1>2, <1>3, <1>4, <1>5, MinIs

(* Nothing is a line of one byte, or one set, to it.                       *)
LEMMA Ln2Zero == Ln2(0) = 0
<1> DEFINE S == {n \in 0 .. WordBits : 0 <= 2^n}
<1>1. 0 \in S /\ \A n \in S : n \in Nat /\ 0 <= n
  BY Halves, PowerZero
<1>2. Ln2(0) = Min(S)
  BY DEF Ln2
<1> HIDE DEF S
<1>3. S \subseteq Nat
  BY <1>1
<1> QED
  BY <1>1, <1>2, <1>3, MinIs

(* A table whose bits do not fill their words has fewer than a word.       *)
LEMMA FewerThanAWord ==
    ASSUME NEW lg \in Nat, ~CountsValid(lg)
    PROVE  lg < Ln2(WordBits)
<1>1. PICK k \in 1 .. WordBits : WordBits = 2^k
  BY Halves
<1>2. k \in Nat /\ Ln2(WordBits) = k
  BY <1>1, Halves, Ln2Power
<1> SUFFICES ASSUME k <= lg PROVE FALSE
  BY <1>2
<1>3. PICK d \in Nat : lg = k + d
  BY <1>2
<1>4. 2^lg = 2^k * 2^d /\ 2^d \in Nat /\ 2^k \in Nat /\ 2^k > 0
  BY <1>2, <1>3, PowerAdds, PowerPositive
<1>5. (0 + 2^k * 2^d) % 2^k = 0
  BY <1>4, Quotient, SMTT(40)
<1> QED
  BY <1>1, <1>4, <1>5 DEF CountsValid

(* A positive number has a highest bit.                                    *)
LEMMA HighestBit ==
    ASSUME NEW x \in Nat \ {0}
    PROVE  \E k \in Nat : 2^k <= x /\ x < 2^(k + 1)
<1> DEFINE S == {n \in Nat : x < 2^(n + 1)}
<1>1. x \in S
  <2>1. x < 2^x /\ 2^x < 2^(x + 1) /\ 2^x \in Nat /\ 2^(x + 1) \in Nat
    BY PowerAbove, PowerRises, PowerPositive
  <2> QED
    BY <2>1
<1>2. PICK k \in S : \A n \in S : k <= n
  <2> HIDE DEF S
  <2>1. S \in SUBSET Nat /\ S # {}
    BY <1>1 DEF S
  <2> QED
    BY <2>1, LeastExists
<1>3. CASE k = 0
  <2>1. k \in Nat /\ x < 2^(k + 1) /\ 2^k = 1
    BY <1>2, <1>3, PowerZero
  <2> QED
    BY <2>1
<1>4. CASE k # 0
  <2>1. PICK m \in Nat : k = m + 1
    BY <1>2, <1>4
  <2>2. m \notin S
    BY <1>2, <2>1
  <2>3. 2^k \in Nat /\ 2^k <= x
    BY <2>1, <2>2, PowerPositive
  <2> QED
    BY <1>2, <2>3
<1> QED
  BY <1>3, <1>4

(* isPow2 lets zero pass, and the powers of two.                           *)
LEMMA PowersPass ==
    ASSUME NEW x \in 0 .. 2^WordBits - 1, IsPow2(x), x # 0
    PROVE  \E k \in 0 .. WordBits - 1 : x = 2^k
<1>1. WordBits \in Nat /\ 2^WordBits \in Nat
  BY Halves, PowerPositive
<1>2. PICK k \in Nat : 2^k <= x /\ x < 2^(k + 1)
  <2>1. x \in Nat \ {0}
    BY <1>1
  <2> QED
    BY <2>1, HighestBit
<1>3. 2^k \in Nat /\ 2^k > 0 /\ 2^(k + 1) = 2 * 2^k
  BY PowerPositive, PowerStep
<1>4. k < WordBits
  <2> SUFFICES ASSUME WordBits <= k PROVE FALSE
    BY <1>1
  <2>1. 2^WordBits <= 2^k
    BY <1>1, PowerGrows
  <2> QED
    BY <1>1, <1>2, <1>3, <2>1
<1> SUFFICES ASSUME x # 2^k PROVE FALSE
  BY <1>1, <1>4
<1>5. PICK p \in Nat : p = 2^k
  BY <1>3
<1>6. ASSUME NEW y \in Nat, p <= y, y < 2 * p PROVE (y \div p) % 2 = 1
  <2>1. y = (y - p) + p * 1 /\ y - p \in 0 .. p - 1
    BY <1>3, <1>5, <1>6
  <2>2. PICK d \in 0 .. p - 1 : d = y - p
    BY <2>1
  <2>3. (d + p * 1) \div p = 1
    BY <1>3, <1>5, Quotient
  <2> QED
    BY <2>1, <2>2, <2>3
<1>7. (x \div p) % 2 = 1 /\ ((x - 1) \div p) % 2 = 1
  BY <1>1, <1>2, <1>3, <1>5, <1>6
<1>8. SizeT(x - 1) = x - 1
  BY <1>1 DEF SizeT
<1>9. k \in SizeBits(x) /\ k \in SizeBits(SizeT(x - 1))
  <2>1. k \in Mask(WordBits)
    BY <1>1, <1>4 DEF Mask
  <2>2. (x \div 2^k) % 2 = 1 /\ ((x - 1) \div 2^k) % 2 = 1
    BY <1>5, <1>7
  <2> QED
    BY <1>8, <2>1, <2>2 DEF SizeBits
<1> QED
  BY <1>9 DEF IsPow2

(* The mask of 2^s sets has the bits below s.                              *)
LEMMA BitsOfMask ==
    ASSUME NEW s \in 0 .. WordBits
    PROVE  SizeBits(2^s - 1) = Mask(s)
<1>1. WordBits \in Nat /\ s \in Nat
  BY Halves
<1>2. ASSUME NEW b \in Nat, b < s PROVE ((2^s - 1) \div 2^b) % 2 = 1
  <2>1. PICK d \in Nat : s = (b + 1) + d
    BY <1>1, <1>2
  <2>2. 2^s = 2^(b + 1) * 2^d /\ 2^(b + 1) = 2 * 2^b
    BY <2>1, PowerAdds, PowerStep
  <2>3. PICK p \in Nat, q \in Nat : p = 2^b /\ q = 2^d /\ p > 0 /\ q > 0
    BY PowerPositive
  <2>4. 2^s - 1 = (p - 1) + p * (2 * q - 1)
    <3>1. (2 * p) * q = p * (2 * q)
      BY <2>3
    <3>2. p * (2 * q - 1) = p * (2 * q) - p /\ p * (2 * q) \in Nat
      BY <2>3
    <3> QED
      BY <2>2, <2>3, <3>1, <3>2
  <2>5. p - 1 \in 0 .. p - 1 /\ 2 * q - 1 \in Nat
    BY <2>3
  <2>6. ((p - 1) + p * (2 * q - 1)) \div p = 2 * q - 1
    BY <2>3, <2>5, Quotient
  <2>7. (2 * q - 1) % 2 = 1
    BY <2>3
  <2> QED
    BY <2>3, <2>4, <2>6, <2>7
<1>3. ASSUME NEW b \in Nat, s <= b PROVE ((2^s - 1) \div 2^b) % 2 = 0
  <2>1. PICK p \in Nat, q \in Nat : p = 2^s /\ q = 2^b /\ 0 < p /\ p <= q
    BY <1>1, <1>3, PowerPositive, PowerGrows
  <2>2. ((p - 1) + q * 0) \div q = 0
    BY <2>1, Quotient
  <2>3. (p - 1) + q * 0 = p - 1
    BY <2>1
  <2> QED
    BY <2>1, <2>2, <2>3
<1>4. ASSUME NEW b \in Mask(WordBits)
      PROVE  ((2^s - 1) \div 2^b) % 2 = 1 <=> b \in Mask(s)
  <2>1. b \in Nat
    BY <1>1 DEF Mask
  <2>2. CASE b < s
    BY <1>1, <1>2, <2>1, <2>2 DEF Mask
  <2>3. CASE s <= b
    BY <1>1, <1>3, <2>1, <2>3 DEF Mask
  <2> QED
    BY <1>1, <2>1, <2>2, <2>3
<1>5. Mask(s) \subseteq Mask(WordBits)
  BY <1>1 DEF Mask
<1> QED
  BY <1>4, <1>5 DEF SizeBits

(* When each thing is made, and when it is freed.                          *)
Born == [rsb |-> 2, sysArgv |-> 4, state |-> 5, bpred |-> 6, bhr |-> 7, mem |-> 8, L1D |-> 10]
Gone == [mem |-> 15, sysArgv |-> 16, state |-> 17, bhr |-> 18, bpred |-> 19, rsb |-> 20, L1D |-> 21]
LiveAt(k) == {x \in Created : Born[x] < k /\ k <= Gone[x]}

(* Small tables abort bimodal's destructor.                                *)
SmallTables ==
    /\ BpredImpl = "bimodal"
    /\ opts.lg_c_pht_sz < Ln2(WordBits) \/ opts.lg_pht_sz < Ln2(WordBits)

MainInv ==
    /\ opts \in OptionSets /\ masks \in BOOLEAN /\ stmt \in 1 .. 22
    /\ outcome = "running" => live = LiveAt(stmt)
    /\ Written(IF stmt > 14 THEN "complete" ELSE IF stmt = 14 /\ outcome = "-1" THEN "cut" ELSE "none")
    /\ outcome = "-1" => stmt <= 11 \/ stmt = 14
    /\ outcome = "abort" /\ stmt > 11 => stmt = 19 /\ SmallTables
    /\ outcome = "0" => (stmt = 22 /\ live = {}) \/ (stmt = 1 /\ opts.help)
    /\ L1D = NoCache \/ (L1D = NewCache /\ Accepts(NewCache))

(* Where each statement of main is.                                        *)
LEMMA Places ==
    /\ Len(Order) = 21 /\ DOMAIN Order = 1 .. 21
    /\ \A k \in 1 .. 21 :
          /\ Order[k] = "options" <=> k = 1
          /\ Order[k] = "rsb" <=> k = 2
          /\ Order[k] = "file" <=> k = 3
          /\ Order[k] = "sysArgv" <=> k = 4
          /\ Order[k] = "state" <=> k = 5
          /\ Order[k] = "bpred" <=> k = 6
          /\ Order[k] = "bhr" <=> k = 7
          /\ Order[k] = "mem" <=> k = 8
          /\ Order[k] = "load" <=> k = 9
          /\ Order[k] = "L1D" <=> k = 10
          /\ Order[k] = "run" <=> k = 11
          /\ Order[k] = "hash" <=> k = 12
          /\ Order[k] = "counters" <=> k = 13
          /\ Order[k] = "histo" <=> k = 14
          /\ Order[k] = "~mem" <=> k = 15
          /\ Order[k] = "~sysArgv" <=> k = 16
          /\ Order[k] = "~state" <=> k = 17
          /\ Order[k] = "~bhr" <=> k = 18
          /\ Order[k] = "~bpred" <=> k = 19
          /\ Order[k] = "~rsb" <=> k = 20
          /\ Order[k] = "~L1D" <=> k = 21
  BY DEF Order

(* What is made and not freed changes where something is made or freed.    *)
LEMMA LiveChanges ==
    /\ Created = {"rsb", "sysArgv", "state", "bpred", "bhr", "mem", "L1D"}
    /\ LiveAt(1) = {} /\ LiveAt(22) = {}
    /\ \A k \in 1 .. 21 : (\A x \in Created : Born[x] # k /\ Gone[x] # k) => LiveAt(k + 1) = LiveAt(k)
    /\ \A x \in Created : /\ LiveAt(Born[x] + 1) = LiveAt(Born[x]) \cup {x}
                          /\ LiveAt(Gone[x] + 1) = LiveAt(Gone[x]) \ {x}
<1>1. Created = {"rsb", "sysArgv", "state", "bpred", "bhr", "mem", "L1D"}
  BY DEF Created, FreedBy
<1>2. \A x \in Created : Born[x] \in 2 .. 10 /\ Gone[x] \in 15 .. 21
  BY <1>1 DEF Born, Gone
<1>3. \A x, y \in Created : x # y => Born[x] # Born[y] /\ Gone[x] # Gone[y]
  BY <1>1 DEF Born, Gone
<1>4. LiveAt(1) = {} /\ LiveAt(22) = {}
  BY <1>2 DEF LiveAt
<1>5. ASSUME NEW k \in 1 .. 21, \A x \in Created : Born[x] # k /\ Gone[x] # k
      PROVE  LiveAt(k + 1) = LiveAt(k)
  BY <1>2, <1>5 DEF LiveAt
<1>6. ASSUME NEW x \in Created
      PROVE  LiveAt(Born[x] + 1) = LiveAt(Born[x]) \cup {x}
  BY <1>2, <1>3 DEF LiveAt
<1>7. ASSUME NEW x \in Created
      PROVE  LiveAt(Gone[x] + 1) = LiveAt(Gone[x]) \ {x}
  BY <1>2, <1>3 DEF LiveAt
<1> QED
  BY <1>1, <1>4, <1>5, <1>6, <1>7

(* What hangs on the options alone does not change.                        *)
LEMMA OptionsKept ==
    ASSUME opts' = opts
    PROVE  /\ NewCache' = NewCache /\ Accepts(NewCache)' = Accepts(NewCache)
           /\ SmallTables' = SmallTables
<1>1. NewCache' = NewCache
  BY DEF NewCache
<1>2. BpredImpl' = BpredImpl
  BY DEF BpredImpl
<1> QED
  BY <1>1, <1>2 DEF Accepts, SmallTables

(* main starts with nothing made (main.cc:100-118).                        *)
LEMMA MainInitInv == MainInit => MainInv
  BY LiveChanges DEF MainInit, MainInv, Written

(* Every statement of main keeps it.                                       *)
LEMMA MainNextInv ==
    ASSUME MainInv, [MainNext]_mainVars
    PROVE  MainInv'
<1> USE DEF Fixed, Written
<1>0. opts \in OptionSets /\ masks \in BOOLEAN /\ stmt \in 1 .. 22
  BY DEF MainInv
<1>1. CASE Options
  <2>1. stmt = 1 /\ outcome = "running"
    BY <1>0, <1>1, Places DEF Options, At
  <2>2. LiveAt(2) = LiveAt(1)
    BY LiveChanges DEF Born, Gone
  <2> QED
    BY <1>0, <1>1, <2>1, <2>2, OptionsKept DEF MainInv, Options, Unmade, End, Advance
<1>2. CASE File
  <2>1. stmt = 3 /\ outcome = "running"
    BY <1>0, <1>2, Places DEF File, At
  <2>2. LiveAt(4) = LiveAt(3)
    BY LiveChanges DEF Born, Gone
  <2> QED
    BY <1>0, <1>2, <2>1, <2>2, OptionsKept DEF MainInv, File, Unmade, End, Advance
<1>3. CASE Make
  <2>1. PICK x \in {"rsb", "sysArgv", "state", "bpred"} : At(x) /\ live' = live \cup {x}
    BY <1>3 DEF Make
  <2>2. stmt = Born[x] /\ stmt < 14 /\ outcome = "running" /\ x \in Created
    BY <1>0, <2>1, Places, LiveChanges DEF At, Born
  <2>3. LiveAt(stmt + 1) = live'
    BY <2>1, <2>2, LiveChanges DEF MainInv
  <2> QED
    BY <1>0, <1>3, <2>2, <2>3, OptionsKept DEF MainInv, Make, Advance
<1>4. CASE MakeHistory
  <2>1. stmt = 7 /\ outcome = "running"
    BY <1>0, <1>4, Places DEF MakeHistory, At
  <2>2. LiveAt(8) = LiveAt(7) \cup {"bhr"}
    BY LiveChanges DEF Born
  <2> QED
    BY <1>0, <1>4, <2>1, <2>2, OptionsKept DEF MainInv, MakeHistory, Advance
<1>5. CASE Load
  <2>1. stmt = 9 /\ outcome = "running"
    BY <1>0, <1>5, Places DEF Load, At
  <2>2. LiveAt(10) = LiveAt(9)
    BY LiveChanges DEF Born, Gone
  <2> QED
    BY <1>0, <1>5, <2>1, <2>2, OptionsKept DEF MainInv, Load, Unmade, End, Advance
<1>6. CASE MakeCache
  <2>1. stmt = 10 /\ outcome = "running"
    BY <1>0, <1>6, Places DEF MakeCache, At
  <2>2. LiveAt(11) = LiveAt(10) \cup {"L1D"}
    BY LiveChanges DEF Born
  <2> QED
    BY <1>0, <1>6, <2>1, <2>2, OptionsKept DEF MainInv, MakeCache, End, Advance
<1>7. CASE Run
  <2>1. stmt = 11 /\ outcome = "running"
    BY <1>0, <1>7, Places DEF Run, At
  <2>2. LiveAt(12) = LiveAt(11)
    BY LiveChanges DEF Born, Gone
  <2> QED
    BY <1>0, <1>7, <2>1, <2>2, OptionsKept DEF MainInv, Run, Unmade, End, Advance
<1>8. CASE PrintCounters
  <2>1. stmt \in 12 .. 13 /\ outcome = "running"
    BY <1>0, <1>8, Places DEF PrintCounters, At
  <2>2. LiveAt(stmt + 1) = LiveAt(stmt)
    BY <2>1, LiveChanges DEF Born, Gone
  <2> QED
    BY <1>0, <1>8, <2>1, <2>2, OptionsKept DEF MainInv, PrintCounters, Unmade, Advance
<1>9. CASE DumpHisto
  <2>1. stmt = 14 /\ outcome = "running"
    BY <1>0, <1>9, Places DEF DumpHisto, At
  <2>2. LiveAt(15) = LiveAt(14)
    BY LiveChanges DEF Born, Gone
  <2> QED
    BY <1>0, <1>9, <2>1, <2>2, OptionsKept DEF MainInv, DumpHisto, End, Advance
<1>10. CASE Free
  <2>1. PICK x \in Created :
           /\ At(FreedBy[x])
           /\ IF x = "bpred" /\ BpredImpl = "bimodal"
                   /\ ~(CountsValid(opts.lg_c_pht_sz) /\ CountsValid(opts.lg_pht_sz))
                THEN End("abort") /\ live' = live
                ELSE Advance /\ live' = live \ {x}
    BY <1>10 DEF Free
  <2>2. stmt = Gone[x] /\ outcome = "running" /\ stmt \in 15 .. 21
    BY <1>0, <2>1, Places, LiveChanges DEF At, Gone, FreedBy
  <2>3. LiveAt(stmt + 1) = LiveAt(stmt) \ {x}
    BY <2>2, LiveChanges
  <2>4. opts' = opts /\ masks' = masks /\ writable' = writable /\ listing' = listing /\ L1D' = L1D
    BY <1>10 DEF Free
  <2>5. CASE End("abort")
    <3>1. x = "bpred" /\ BpredImpl = "bimodal"
          /\ ~(CountsValid(opts.lg_c_pht_sz) /\ CountsValid(opts.lg_pht_sz))
      BY <2>1, <2>2, <2>5 DEF End, Advance
    <3>2. stmt = 19
      BY <2>2, <3>1 DEF Gone
    <3>3. SmallTables
      BY <1>0, <3>1, FewerThanAWord, OptionsAssumption DEF SmallTables
    <3> QED
      BY <1>0, <2>2, <2>4, <2>5, <3>2, <3>3, OptionsKept DEF MainInv, End
  <2>6. CASE Advance /\ live' = live \ {x}
    BY <1>0, <2>2, <2>3, <2>4, <2>6, OptionsKept DEF MainInv, Advance
  <2> QED
    BY <2>1, <2>5, <2>6
<1>11. CASE Return
  <2>1. stmt = 22 /\ outcome = "running" /\ live = {}
    BY <1>0, <1>11, Places, LiveChanges DEF MainInv, Return
  <2> QED
    BY <1>0, <1>11, <2>1, OptionsKept DEF MainInv, Return, Unmade, End
<1>12. CASE UNCHANGED mainVars
  BY <1>0, <1>12, OptionsKept DEF MainInv, mainVars
<1>13. CASE MapMemory
  <2>1. stmt = 8 /\ outcome = "running"
    BY <1>0, <1>13, Places DEF MapMemory, At
  <2>2. LiveAt(9) = LiveAt(8) \cup {"mem"}
    BY LiveChanges DEF Born
  <2> QED
    BY <1>0, <1>13, <2>1, <2>2, OptionsKept DEF MainInv, MapMemory, End, Advance
<1> QED
  BY <1>1, <1>2, <1>3, <1>4, <1>5, <1>6, <1>7, <1>8, <1>9, <1>10, <1>11, <1>12, <1>13 DEF MainNext

(* What it says of the listing and of what is alive then.                  *)
LEMMA MainInvReport == MainInv => ReportBeforeEnd
<1> SUFFICES ASSUME MainInv PROVE ReportBeforeEnd
  OBVIOUS
<1>0. stmt \in 1 .. 22
  BY DEF MainInv
<1>1. NothingDangles
  <2> SUFFICES ASSUME outcome = "running", stmt \in 1 .. 21 PROVE Needs(Order[stmt]) \subseteq live
    BY Places DEF NothingDangles
  <2>1. live = LiveAt(stmt)
    BY DEF MainInv
  <2> QED
    BY <2>1, Places, LiveChanges, SMTT(40) DEF Needs, LiveAt, Born, Gone, FreedBy
<1>2. \A k \in 1 .. 21 : Passed(Order[k]) <=> stmt > k
  BY <1>0, Places DEF Passed
<1>3. Passed("histo") <=> stmt > 14
  BY <1>2, Places
<1>4. Passed("run") <=> stmt > 11
  BY <1>2, Places
<1> QED
  BY <1>0, <1>1, <1>3, <1>4 DEF ReportBeforeEnd, MainInv, SmallTables, Written

(* What ReportBeforeEnd says (main.cc:100-287).                            *)
THEOREM ReportBeforeEndCorrect == MainSpec => []ReportBeforeEnd
<1>1. MainSpec => []MainInv
  BY MainInitInv, MainNextInv, PTL DEF MainSpec
<1> QED
  BY <1>1, MainInvReport, PTL

(* What the constructor takes for a size is zero or a power of two, and    *)
(* the option as it was given.                                             *)
LEMMA ParameterIs ==
    ASSUME NEW n \in -2^(Half - 1) .. 2^(Half - 1) - 1, IsPow2(SizeT(n))
    PROVE  /\ n \in Nat /\ SizeT(n) = n
           /\ n # 0 => \E k \in 0 .. Half - 1 : n = 2^k
<1>1. /\ WordBits \in Nat /\ Half \in Nat \ {0} /\ WordBits = 2 * Half
      /\ Half - 1 \in Nat /\ WordBits - 1 \in Nat /\ Half - 1 < WordBits - 1
  BY Halves
<1>2. PICK L \in Nat, T \in Nat, M \in Nat :
         /\ L = 2^(Half - 1) /\ M = 2^(WordBits - 1) /\ T = 2^WordBits
         /\ L > 0 /\ L < M
  BY <1>1, PowerPositive, PowerRises
<1>3. T = 2 * M
  <2>1. 2^((WordBits - 1) + 1) = 2 * 2^(WordBits - 1)
    BY <1>1, PowerStep
  <2>2. (WordBits - 1) + 1 = WordBits
    BY <1>1
  <2> QED
    BY <1>2, <2>1, <2>2
<1>4. n \in Int /\ -L <= n /\ n < L
  BY <1>2
<1>5. SizeT(n) = n % T
  BY <1>2 DEF SizeT
<1>6. CASE n < 0
  <2>1. n % T = n + T
    <3>1. PICK m \in Nat : m = n + T /\ m < T /\ M < m
      BY <1>2, <1>3, <1>4, <1>6
    <3> QED
      BY <1>2, <1>3, <1>4, <1>6, <3>1
  <2>2. PICK x \in 0 .. T - 1 : x = SizeT(n) /\ x # 0 /\ M < x
    BY <1>2, <1>3, <1>4, <1>5, <1>6, <2>1
  <2>3. PICK k \in 0 .. WordBits - 1 : x = 2^k
    BY <1>2, <2>2, PowersPass
  <2>4. 2^k <= 2^(WordBits - 1)
    BY <1>1, PowerGrows
  <2> QED
    BY <1>2, <2>2, <2>3, <2>4
<1>7. CASE 0 <= n
  <2>1. n \in Nat /\ n \in 0 .. T - 1
    BY <1>2, <1>3, <1>4, <1>7
  <2>2. n % T = n
    BY <1>2, <2>1
  <2>3. SizeT(n) = n
    BY <1>5, <2>2
  <2>4. ASSUME n # 0 PROVE \E k \in 0 .. Half - 1 : n = 2^k
    <3>1. IsPow2(n) /\ n \in 0 .. 2^WordBits - 1
      BY <1>2, <2>1, <2>3
    <3>2. PICK k \in 0 .. WordBits - 1 : n = 2^k
      BY <2>4, <3>1, PowersPass
    <3>3. k \in Nat /\ (Half - 1 <= k => 2^(Half - 1) <= 2^k)
      BY <1>1, PowerGrows
    <3>4. k <= Half - 1
      BY <1>1, <1>2, <1>4, <3>2, <3>3
    <3> QED
      BY <1>1, <3>2, <3>3, <3>4
  <2> QED
    BY <2>1, <2>3, <2>4
<1> QED
  BY <1>4, <1>6, <1>7

(* The sets of a mask of 2^s - 1.                                          *)
LEMMA SetIs ==
    ASSUME NEW c, NEW l \in 0 .. Half - 1, Ln2(c.line) = l,
           NEW s \in 0 .. WordBits, SizeT(c.sets - 1) = 2^s - 1, NEW a \in Addresses
    PROVE  SetOf(c, a) = (a \div 2^l) % 2^s
<1>1. WordBits \in Nat /\ Half \in Nat \ {0} /\ WordBits = 2 * Half /\ l \in Nat /\ s \in Nat
  BY Halves
<1>2. ShiftedAddr(a, l) = a \div 2^l
  BY <1>1 DEF ShiftedAddr, Half
<1>3. PICK p \in Nat, T \in Nat : p = 2^l /\ p > 0 /\ T = 2^Half /\ a \in 0 .. T - 1
  BY <1>1, PowerPositive DEF Addresses, Half
<1>4. PICK x \in 0 .. T - 1 : x = a \div p
  BY <1>3
<1>5. Bits(x) \in SUBSET Mask(Half) /\ Number(Bits(x)) = x
  <2>1. Bits(x) = {b \in Mask(Half) : (x \div 2^b) % 2 = 1}
    BY DEF Bits, Half
  <2>2. x \in 0 .. 2^Half - 1
    BY <1>3
  <2> QED
    BY <1>1, <2>1, <2>2, BitsOfNumber
<1>6. Bits(x) \cap Mask(s) = {b \in Bits(x) : b < s}
  BY <1>1, <1>5 DEF Mask
<1>7. Number(Bits(x)) % 2^s = Number({b \in Bits(x) : b < s})
  BY <1>1, <1>5, NumberBits
<1>8. SetOf(c, a) = Number(Bits(x) \cap Mask(s))
  BY <1>2, <1>3, <1>4, BitsOfMask DEF SetOf
<1> QED
  BY <1>3, <1>4, <1>5, <1>6, <1>7, <1>8

(* A cache that counts has the shape that was asked for, in powers of two, *)
(* but for lines of no bytes or no sets.                                   *)
LEMMA CacheShape ==
    ASSUME MainInv, Counts
    PROVE  /\ L1D.sets = opts.sets /\ L1D.ways = opts.assoc
           /\ \E l \in 0 .. Half - 1 : Ln2(L1D.line) = l /\ 2^l = IF L1D.line = 0 THEN 1 ELSE L1D.line
           /\ L1D.sets = 0 \/ \E s \in 0 .. Half - 1 : L1D.sets = 2^s /\ Ln2(L1D.sets) = s
<1> DEFINE R == -2^(Half - 1) .. 2^(Half - 1) - 1
<1>1. opts.assoc \in R /\ opts.sets \in R /\ opts.line_len \in R
  BY OptionsAssumption DEF MainInv, Half
<1>2. L1D = NewCache /\ Accepts(L1D)
  <2>1. L1D # NoCache
    BY DEF Counts, NoCache
  <2> QED
    BY <2>1 DEF MainInv
<1>3. /\ WordBits \in Nat /\ Half \in Nat \ {0} /\ WordBits = 2 * Half
      /\ Half - 1 \in Nat
  BY Halves
<1>4. PICK L \in Nat, T \in Nat : L = 2^(Half - 1) /\ T = 2^WordBits /\ L > 0 /\ L < T
  BY <1>3, PowerPositive, PowerRises
<1>5. SizeT(1) = 1
  BY <1>4 DEF SizeT
<1>6. /\ opts.assoc > 0 /\ L1D.line = SizeT(opts.line_len)
      /\ L1D.sets = SizeT(opts.sets) /\ L1D.ways = SizeT(opts.assoc)
  <2>1. opts.assoc \in Int /\ opts.sets \in Int
    BY <1>1, <1>4
  <2>2. opts.assoc > 0
    BY <1>2, <2>1 DEF NewCache, Counts
  <2> QED
    BY <1>2, <1>5, <2>1, <2>2 DEF NewCache
<1>7. IsPow2(SizeT(opts.line_len)) /\ IsPow2(SizeT(opts.sets)) /\ IsPow2(SizeT(opts.assoc))
  BY <1>2, <1>6 DEF Accepts
<1> HIDE DEF R
<1>8. /\ \A n \in {opts.line_len, opts.sets, opts.assoc} :
            /\ n \in Nat /\ SizeT(n) = n
            /\ n # 0 => \E k \in 0 .. Half - 1 : n = 2^k
  BY <1>1, <1>7, ParameterIs DEF R
<1>9. L1D.sets = opts.sets /\ L1D.ways = opts.assoc /\ L1D.line = opts.line_len
  BY <1>6, <1>8
<1>10. \E l \in 0 .. Half - 1 : Ln2(L1D.line) = l /\ 2^l = IF L1D.line = 0 THEN 1 ELSE L1D.line
  <2>1. CASE L1D.line = 0
    <3>1. 0 \in 0 .. Half - 1
      BY <1>3
    <3> QED
      BY <2>1, <3>1, Ln2Zero, PowerZero
  <2>2. CASE L1D.line # 0
    <3>1. PICK k \in 0 .. Half - 1 : L1D.line = 2^k
      BY <1>8, <1>9, <2>2
    <3>2. k \in 0 .. WordBits
      BY <1>3
    <3>3. Ln2(L1D.line) = k
      BY <3>1, <3>2, Ln2Power
    <3> QED
      BY <2>2, <3>1, <3>3
  <2> QED
    BY <2>1, <2>2
<1>11. ASSUME L1D.sets # 0 PROVE \E s \in 0 .. Half - 1 : L1D.sets = 2^s /\ Ln2(L1D.sets) = s
  <2>1. PICK k \in 0 .. Half - 1 : L1D.sets = 2^k
    BY <1>8, <1>9, <1>11
  <2>2. k \in 0 .. WordBits
    BY <1>3
  <2>3. Ln2(L1D.sets) = k
    BY <2>1, <2>2, Ln2Power
  <2> QED
    BY <2>1, <2>3
<1> QED
  BY <1>9, <1>10, <1>11

(* What it says of the cache.                                              *)
LEMMA MainInvCache == MainInv => CacheAsAsked
<1> SUFFICES ASSUME MainInv PROVE CacheAsAsked
  OBVIOUS
<1> SUFFICES ASSUME Counts PROVE CacheAsAsked
  BY DEF CacheAsAsked, ShapeAsAsked, LinesKept
<1>1. L1D.sets = opts.sets /\ L1D.ways = opts.assoc
  BY CacheShape
<1>2. PICK l \in 0 .. Half - 1 : Ln2(L1D.line) = l /\ 2^l = IF L1D.line = 0 THEN 1 ELSE L1D.line
  BY CacheShape
<1>3. /\ WordBits \in Nat /\ Half \in Nat \ {0} /\ WordBits = 2 * Half
      /\ l \in Nat /\ l < Half
  BY Halves
<1>4. PICK p \in Nat, H \in Nat : p = 2^l /\ p > 0 /\ H = 2^Half /\ H > 0
  BY <1>3, PowerPositive
<1>5. /\ \A a \in Addresses : a \in Nat /\ a < H /\ LineOf(a) = a \div p /\ a \div p \in Nat
      /\ 0 \in Addresses
  BY <1>2, <1>4 DEF Addresses, Half, LineOf
<1>6. CASE L1D.sets = 0
  <2>1. SizeT(L1D.sets - 1) = 2^WordBits - 1
    <3>1. PICK T \in Nat : T = 2^WordBits /\ T > 0
      BY <1>3, PowerPositive
    <3>2. (0 - 1) % T = T - 1
      BY <3>1
    <3> QED
      BY <1>6, <3>1, <3>2 DEF SizeT
  <2>2. ASSUME NEW a \in Addresses PROVE SetOf(L1D, a) = a \div p /\ TagOf(L1D, a) = a \div p
    <3>1. SetOf(L1D, a) = (a \div 2^l) % 2^WordBits
      BY <1>2, <1>3, <2>1, SetIs
    <3>2. PICK T \in Nat : T = 2^WordBits /\ H <= T
      BY <1>3, <1>4, PowerPositive, PowerGrows
    <3>3. PICK x \in Nat : x = a \div p /\ x < T
      BY <1>4, <1>5, <3>2
    <3>4. x % T = x
      BY <3>3
    <3>5. OffsetBits(L1D) = l
      BY <1>2, <1>3, <1>6, Ln2Zero DEF OffsetBits
    <3>6. TagOf(L1D, a) = a \div 2^l
      BY <1>3, <3>5 DEF TagOf, ShiftedAddr, Half
    <3> QED
      BY <1>4, <3>1, <3>2, <3>3, <3>4, <3>6
  <2>3. ShapeAsAsked
    <3>1. SetOf(L1D, 0) = 0 \div p
      BY <1>5, <2>2
    <3>2. 0 \div p = 0
      BY <1>4
    <3> QED
      BY <1>1, <1>5, <1>6, <3>1, <3>2 DEF ShapeAsAsked
  <2>4. LinesKept
    BY <1>5, <2>2 DEF LinesKept
  <2> QED
    BY <2>3, <2>4 DEF CacheAsAsked
<1>7. CASE L1D.sets # 0
  <2>1. PICK s \in 0 .. Half - 1 : L1D.sets = 2^s /\ Ln2(L1D.sets) = s
    BY <1>7, CacheShape
  <2>2. s \in Nat /\ s \in 0 .. WordBits /\ s < WordBits
    BY <1>3
  <2>3. PICK q \in Nat, T \in Nat : q = 2^s /\ q > 0 /\ T = 2^WordBits /\ q < T
    BY <1>3, <2>2, PowerPositive, PowerRises
  <2>4. SizeT(L1D.sets - 1) = 2^s - 1
    <3>1. (q - 1) % T = q - 1
      BY <2>3
    <3> QED
      BY <2>1, <2>3, <3>1 DEF SizeT
  <2>5. ASSUME NEW a \in Addresses PROVE SetOf(L1D, a) = (a \div p) % q
    BY <1>2, <1>4, <2>2, <2>3, <2>4, SetIs
  <2>6. ShapeAsAsked
    <3>1. \A a \in Addresses : SetOf(L1D, a) < q
      BY <1>5, <2>3, <2>5
    <3> QED
      BY <1>1, <1>7, <2>1, <2>3, <3>1 DEF ShapeAsAsked
  <2>7. OffsetBits(L1D) = l + s
    BY <1>2, <2>1 DEF OffsetBits
  <2>8. ASSUME l + s < Half, NEW a \in Addresses, NEW b \in Addresses
        PROVE  LineOf(a) = LineOf(b) <=> SetOf(L1D, a) = SetOf(L1D, b) /\ TagOf(L1D, a) = TagOf(L1D, b)
    <3>1. ASSUME NEW c \in Addresses PROVE TagOf(L1D, c) = (c \div p) \div q
      <4>1. TagOf(L1D, c) = c \div 2^(l + s)
        BY <1>3, <2>7, <2>8 DEF TagOf, ShiftedAddr, Half
      <4>2. 2^(l + s) = p * q
        BY <1>3, <1>4, <2>2, <2>3, PowerAdds
      <4>3. (c \div p) \div q = c \div (p * q)
        BY <1>4, <1>5, <2>3, NestedQuotient
      <4> QED
        BY <4>1, <4>2, <4>3
    <3>2. PICK x \in Nat, y \in Nat : x = a \div p /\ y = b \div p
      BY <1>5
    <3>3. x = y <=> x % q = y % q /\ x \div q = y \div q
      BY <2>3, FromQuotient
    <3> QED
      BY <1>5, <2>5, <3>1, <3>2, <3>3
  <2>9. ASSUME Half <= l + s, ~masks, NEW a \in Addresses, NEW b \in Addresses
        PROVE  LineOf(a) = LineOf(b) <=> SetOf(L1D, a) = SetOf(L1D, b) /\ TagOf(L1D, a) = TagOf(L1D, b)
    <3>1. ASSUME NEW c \in Addresses PROVE TagOf(L1D, c) = 0
      BY <1>3, <2>2, <2>7, <2>9 DEF TagOf, ShiftedAddr, Half
    <3>2. ASSUME NEW c \in Addresses PROVE (c \div p) % q = c \div p
      <4>1. H <= p * q
        <5>1. 2^(l + s) = p * q
          BY <1>3, <1>4, <2>2, <2>3, PowerAdds
        <5>2. 2^Half <= 2^(l + s)
          BY <1>3, <2>2, <2>9, PowerGrows
        <5> QED
          BY <1>4, <5>1, <5>2
      <4>2. PICK x \in Nat, r \in 0 .. p - 1 : x = c \div p /\ c = p * x + r
        BY <1>4, <1>5
      <4>3. x < q
        <5> SUFFICES ASSUME q <= x PROVE FALSE
          BY <2>3, <4>2
        <5>1. p * q <= p * x
          BY <1>4, <2>3, <4>2
        <5> QED
          BY <1>4, <1>5, <2>3, <4>1, <4>2, <5>1
      <4>4. x % q = x
        BY <2>3, <4>2, <4>3
      <4> QED
        BY <4>2, <4>4
    <3> QED
      BY <1>5, <2>5, <3>1, <3>2
  <2>10. LinesKept
    BY <1>3, <2>2, <2>7, <2>8, <2>9 DEF LinesKept, Half
  <2> QED
    BY <2>6, <2>10 DEF CacheAsAsked
<1> QED
  BY <1>6, <1>7

(* What CacheAsAsked says (main.cc:224-235, simCache::index).              *)
THEOREM CacheAsAskedCorrect == MainSpec => []CacheAsAsked
<1>1. MainSpec => []MainInv
  BY MainInitInv, MainNextInv, PTL DEF MainSpec
<1> QED
  BY <1>1, MainInvCache, PTL

-----------------------------------------------------------------------------
(* One step of the division, at exponent d.                                *)
Reduce(S, d) == IF d >= Width /\ d \in S THEN Xor(S, Times(Generator, d - Width)) ELSE S

(* The constants of the checksum.                                          *)
LEMMA CrcNumbers ==
    /\ Width \in Nat /\ ByteBits \in Nat \ {0} /\ ByteBits <= Width /\ MaxBuf \in Nat
    /\ POLY \subseteq AllOnes /\ Width - 1 \in POLY
    /\ \A e \in Generator : e \in 0 .. Width
  BY CrcAssumption DEF AllOnes, Generator

(* Dividing keeps exponents natural.                                       *)
LEMMA ReduceType ==
    ASSUME NEW S, S \subseteq Nat, NEW d \in Nat
    PROVE  Reduce(S, d) \subseteq Nat
<1>1. ASSUME d >= Width PROVE Times(Generator, d - Width) \subseteq Nat
  BY <1>1, CrcNumbers DEF Times
<1> QED
  BY <1>1, CrcNumbers DEF Reduce, Xor

(* The division of S by the generator, step by step from exponent top.     *)
Dividing(f, S, top) ==
    /\ f \in [0 .. top + 1 -> SUBSET Nat] /\ f[0] = S
    /\ \A k \in 1 .. top + 1 : f[k] = Reduce(f[k - 1], top + 1 - k)

(* There is such a division.                                               *)
LEMMA Divides ==
    ASSUME NEW S, S \subseteq Nat, NEW top \in Nat
    PROVE  \E f : Dividing(f, S, top)
<1> DEFINE T == SUBSET Nat
           n == top + 1
           F == [k \in 1 .. n |-> [y \in T |-> Reduce(y, n - k)]]
<1>1. StepsWithin(F, n, T)
  <2> SUFFICES ASSUME NEW k \in 1 .. n, NEW y \in T PROVE F[k][y] \in T
    BY DEF StepsWithin
  <2>1. n - k \in Nat /\ y \subseteq Nat
    OBVIOUS
  <2>2. Reduce(y, n - k) \subseteq Nat
    BY <2>1, ReduceType
  <2> QED
    BY <2>2
<1>2. n \in Nat /\ S \in T
  OBVIOUS
<1>3. PICK f : Iterated(f, F, n, T, S)
  <2> HIDE DEF T, F, n
  <2> QED
    BY <1>1, <1>2, Iterates
<1>4. f \in [0 .. n -> T] /\ f[0] = S /\ \A k \in 1 .. n : f[k] = F[k][f[k - 1]]
  <2> HIDE DEF T, F, n
  <2> QED
    BY <1>3 DEF Iterated
<1>5. ASSUME NEW k \in 1 .. n PROVE f[k] = Reduce(f[k - 1], top + 1 - k)
  <2>1. k - 1 \in 0 .. n
    OBVIOUS
  <2>2. f[k - 1] \in T
    BY <1>4, <2>1
  <2>3. F[k] = [y \in T |-> Reduce(y, n - k)]
    OBVIOUS
  <2>4. F[k][f[k - 1]] = Reduce(f[k - 1], n - k)
    BY <2>2, <2>3
  <2> QED
    BY <1>4, <2>4
<1> HIDE DEF F
<1> QED
  BY <1>4, <1>5 DEF Dividing

(* What divides step by step, from top down, ends in the remainder.        *)
LEMMA RemainderOf ==
    ASSUME NEW S, S \subseteq Nat, NEW top \in Nat, NEW g, g[0] = S,
           \A k \in 1 .. top + 1 : g[k] = Reduce(g[k - 1], top + 1 - k)
    PROVE  Remainder(S, top) = g[top + 1]
<1> DEFINE n == top + 1
           Body(f) == [k \in 0 .. top + 1 |->
                         IF k = 0 THEN S
                         ELSE LET d == top + 1 - k
                                  r == f[k - 1]
                              IN IF d >= Width /\ d \in r THEN Xor(r, Times(Generator, d - Width)) ELSE r]
           left == CHOOSE f : f = Body(f)
<1>0. PICK f : Dividing(f, S, top)
  <2> HIDE DEF n, Body, left
  <2> QED
    BY Divides
<1>1. /\ f \in [0 .. top + 1 -> SUBSET Nat] /\ f[0] = S
      /\ \A k \in 1 .. top + 1 : f[k] = Reduce(f[k - 1], top + 1 - k)
  BY <1>0 DEF Dividing
<1>2. f = Body(f)
  <2>1. ASSUME NEW k \in 0 .. top + 1 PROVE f[k] = Body(f)[k]
    <3>1. CASE k = 0
      BY <1>1, <3>1
    <3>2. CASE k # 0
      <4>1. k \in 1 .. n
        BY <3>2
      <4>2. f[k] = Reduce(f[k - 1], top + 1 - k)
        BY <1>1, <4>1
      <4> QED
        BY <3>2, <4>2 DEF Reduce
    <3> QED
      BY <3>1, <3>2
  <2> QED
    BY <1>1, <2>1
<1>6. left = Body(left)
  BY <1>2
<1>7. Remainder(S, top) = left[top + 1]
  BY DEF Remainder
<1> HIDE DEF left
<1>8. left[0] = S
  BY <1>6
<1>9. ASSUME NEW k \in 1 .. n PROVE left[k] = Reduce(left[k - 1], n - k)
  <2>1. k \in 0 .. top + 1 /\ k # 0
    OBVIOUS
  <2>2. left[k] = Body(left)[k]
    BY <1>6
  <2> QED
    BY <2>1, <2>2 DEF Reduce
<1> DEFINE Same == {m \in Nat : m <= n => left[m] = g[m]}
<1>10. 0 \in Same
  BY <1>8
<1>11. ASSUME NEW m \in Same PROVE m + 1 \in Same
  <2>1. m \in Nat
    OBVIOUS
  <2> SUFFICES ASSUME m + 1 <= n PROVE left[m + 1] = g[m + 1]
    BY <2>1
  <2>2. m + 1 \in 1 .. n /\ (m + 1) - 1 = m /\ left[m] = g[m]
    BY <2>1
  <2> QED
    BY <1>9, <2>2
<1>12. Same = Nat
  <2>1. Same \in SUBSET Nat
    OBVIOUS
  <2> HIDE DEF Same
  <2> QED
    BY <1>10, <1>11, <2>1, SetInduction
<1>13. n \in Same
  BY <1>12
<1> QED
  BY <1>7, <1>13

(* The division, as a function of its steps.                               *)
LEMMA Division ==
    ASSUME NEW S, S \subseteq Nat, NEW top \in Nat
    PROVE  \E f : /\ f[0] = S /\ \A k \in 0 .. top + 1 : f[k] \subseteq Nat
                  /\ \A k \in 1 .. top + 1 : f[k] = Reduce(f[k - 1], top + 1 - k)
                  /\ Remainder(S, top) = f[top + 1]
<1>0. PICK f : Dividing(f, S, top)
  BY Divides
<1>1. /\ f \in [0 .. top + 1 -> SUBSET Nat] /\ f[0] = S
      /\ \A k \in 1 .. top + 1 : f[k] = Reduce(f[k - 1], top + 1 - k)
  BY <1>0 DEF Dividing
<1>2. Remainder(S, top) = f[top + 1]
  BY <1>1, RemainderOf
<1>3. \A k \in 0 .. top + 1 : f[k] \subseteq Nat
  BY <1>1
<1> QED
  BY <1>1, <1>2, <1>3

(* Sums of polynomials.                                                    *)
LEMMA XorLaws ==
    ASSUME NEW R, NEW S, NEW T
    PROVE  /\ Xor(Xor(R, S), T) = Xor(Xor(R, T), S)
           /\ Xor(Xor(R, S), T) = Xor(R, Xor(S, T))
           /\ Xor(R, S) = Xor(S, R) /\ Xor(Xor(R, S), S) = R
  BY DEF Xor

(* A polynomial over two elements, by its exponents.                       *)
Polynomial(S) == S \subseteq Nat

(* The exponents of a product by a power of x.                             *)
LEMMA TimesIn ==
    ASSUME NEW S, S \subseteq Nat, NEW k \in Nat
    PROVE  Times(S, k) \subseteq Nat /\ \A e \in Nat : e \in Times(S, k) <=> e - k \in S
<1>1. \A x \in S : x \in Nat /\ x + k \in Nat
  OBVIOUS
<1>2. ASSUME NEW e \in Nat, e - k \in S PROVE e \in Times(S, k)
  <2>1. e = (e - k) + k
    OBVIOUS
  <2> QED
    BY <1>2, <2>1 DEF Times
<1>3. ASSUME NEW e \in Nat, e \in Times(S, k) PROVE e - k \in S
  <2>1. PICK x \in S : e = x + k
    BY <1>3 DEF Times
  <2>2. e - k = x
    BY <1>1, <2>1
  <2> QED
    BY <2>2
<1> QED
  BY <1>1, <1>2, <1>3 DEF Times

(* Powers of x distribute over sums.                                       *)
LEMMA TimesXor ==
    ASSUME NEW S, Polynomial(S), NEW T, Polynomial(T), NEW k \in Nat
    PROVE  Times(Xor(S, T), k) = Xor(Times(S, k), Times(T, k)) /\ Polynomial(Xor(S, T))
<1> USE DEF Polynomial
<1>1. Xor(S, T) \subseteq Nat
  BY DEF Xor
<1>2. Times(Xor(S, T), k) \subseteq Nat /\ \A e \in Nat : e \in Times(Xor(S, T), k) <=> e - k \in Xor(S, T)
  BY <1>1, TimesIn
<1>3. Times(S, k) \subseteq Nat /\ \A e \in Nat : e \in Times(S, k) <=> e - k \in S
  BY TimesIn
<1>4. Times(T, k) \subseteq Nat /\ \A e \in Nat : e \in Times(T, k) <=> e - k \in T
  BY TimesIn
<1>5. Times(Xor(S, T), k) = Xor(Times(S, k), Times(T, k))
  BY <1>2, <1>3, <1>4 DEF Xor
<1> QED
  BY <1>1, <1>5

(* Powers of x add up.                                                     *)
LEMMA TimesAdd ==
    ASSUME NEW S, Polynomial(S), NEW j \in Nat, NEW k \in Nat
    PROVE  Times(Times(S, j), k) = Times(S, j + k) /\ Times(S, 0) = S /\ Polynomial(Times(S, k))
<1> USE DEF Polynomial
<1>1. Times(S, j) \subseteq Nat /\ \A e \in Int : e \in Times(S, j) => e - j \in S
  BY TimesIn
<1>2. \A e \in Nat : e \in Times(S, j) <=> e - j \in S
  BY TimesIn
<1>3. Times(Times(S, j), k) \subseteq Nat /\ \A e \in Nat : e \in Times(Times(S, j), k) <=> e - k \in Times(S, j)
  BY <1>1, TimesIn
<1>4. j + k \in Nat
  OBVIOUS
<1>5. Times(S, j + k) \subseteq Nat /\ \A e \in Nat : e \in Times(S, j + k) <=> e - (j + k) \in S
  BY <1>4, TimesIn
<1>6. ASSUME NEW e \in Nat PROVE e \in Times(Times(S, j), k) <=> e \in Times(S, j + k)
  <2>1. PICK d \in Int : d = e - k /\ d - j = e - (j + k)
    OBVIOUS
  <2>2. CASE d \in Nat
    BY <1>2, <1>3, <1>5, <2>1, <2>2
  <2>3. CASE d \notin Nat
    <3>1. d \notin Times(S, j) /\ d - j \notin Nat
      BY <1>1, <2>1, <2>3
    <3> QED
      BY <1>3, <1>5, <2>1, <3>1
  <2> QED
    BY <2>2, <2>3
<1>7. Times(S, 0) = S
  <2>1. Times(S, 0) \subseteq Nat /\ \A e \in Nat : e \in Times(S, 0) <=> e - 0 \in S
    BY TimesIn
  <2>2. \A e \in Nat : e - 0 = e
    OBVIOUS
  <2> QED
    BY <2>1, <2>2
<1>8. Times(Times(S, j), k) = Times(S, j + k)
  BY <1>3, <1>5, <1>6
<1>9. Times(S, k) \subseteq Nat
  BY TimesIn
<1> QED
  BY <1>7, <1>8, <1>9

(* Below the generator's degree, a sum does not disturb the division.      *)
LEMMA RemainderAdds ==
    ASSUME NEW S, S \subseteq Nat, NEW T, T \subseteq AllOnes, NEW top \in Nat
    PROVE  Remainder(Xor(S, T), top) = Xor(Remainder(S, top), T)
<1>1. PICK f : /\ f[0] = S /\ \A k \in 0 .. top + 1 : f[k] \subseteq Nat
               /\ \A k \in 1 .. top + 1 : f[k] = Reduce(f[k - 1], top + 1 - k)
               /\ Remainder(S, top) = f[top + 1]
  BY Division
<1> DEFINE g == [k \in 0 .. top + 1 |-> Xor(f[k], T)]
<1>2. T \subseteq Nat /\ \A d \in T : d < Width
  BY CrcNumbers DEF AllOnes
<1>3. Xor(S, T) \subseteq Nat
  BY <1>2 DEF Xor
<1>4. ASSUME NEW R, NEW d \in Nat PROVE Xor(Reduce(R, d), T) = Reduce(Xor(R, T), d)
  <2>1. CASE d >= Width
    <3>1. d \notin T
      BY <1>2, <2>1, CrcNumbers
    <3>2. d \in Xor(R, T) <=> d \in R
      BY <3>1 DEF Xor
    <3> QED
      BY <2>1, <3>2, XorLaws DEF Reduce
  <2>2. CASE ~(d >= Width)
    BY <2>2 DEF Reduce
  <2> QED
    BY <2>1, <2>2
<1>5. ASSUME NEW k \in 1 .. top + 1 PROVE g[k] = Reduce(g[k - 1], top + 1 - k)
  <2>1. k \in 0 .. top + 1 /\ k - 1 \in 0 .. top + 1 /\ top + 1 - k \in Nat
    OBVIOUS
  <2>2. g[k] = Xor(f[k], T) /\ g[k - 1] = Xor(f[k - 1], T)
    BY <2>1
  <2>3. f[k] = Reduce(f[k - 1], top + 1 - k)
    BY <1>1
  <2> QED
    BY <1>4, <2>1, <2>2, <2>3
<1>6. g[0] = Xor(S, T) /\ g[top + 1] = Xor(Remainder(S, top), T)
  BY <1>1
<1> HIDE DEF g
<1> QED
  BY <1>3, <1>5, <1>6, RemainderOf

(* A step of the division, one power up.                                   *)
LEMMA ReduceUp ==
    ASSUME NEW R, R \subseteq Nat, NEW d \in Nat, d >= Width
    PROVE  Times(Reduce(R, d), 1) = Reduce(Times(R, 1), d + 1)
<1>1. d + 1 \in Times(R, 1) <=> d \in R
  <2>1. d + 1 \in Nat /\ (d + 1) - 1 = d
    OBVIOUS
  <2>2. \A e \in Nat : e \in Times(R, 1) <=> e - 1 \in R
    BY TimesIn
  <2> QED
    BY <2>1, <2>2
<1>2. PICK z \in Nat : z = d - Width /\ z + 1 = (d + 1) - Width
  BY CrcNumbers
<1>3. Polynomial(Generator) /\ Polynomial(R)
  BY CrcNumbers DEF Polynomial
<1>4. Polynomial(Times(Generator, z))
  BY <1>3, TimesAdd
<1>5. Times(Times(Generator, z), 1) = Times(Generator, z + 1)
  BY <1>3, TimesAdd
<1>6. Times(Xor(R, Times(Generator, z)), 1) = Xor(Times(R, 1), Times(Times(Generator, z), 1))
  BY <1>3, <1>4, TimesXor
<1>7. d + 1 >= Width
  BY CrcNumbers
<1> QED
  BY <1>1, <1>2, <1>5, <1>6, <1>7 DEF Reduce

(* One power more is one step more.                                        *)
LEMMA RemainderUp ==
    ASSUME NEW S, S \subseteq Nat, NEW top \in Nat, top >= Width
    PROVE  Remainder(Times(S, 1), top + 1) = Reduce(Times(Remainder(S, top), 1), Width)
<1>1. PICK f : /\ f[0] = S /\ \A k \in 0 .. top + 1 : f[k] \subseteq Nat
               /\ \A k \in 1 .. top + 1 : f[k] = Reduce(f[k - 1], top + 1 - k)
               /\ Remainder(S, top) = f[top + 1]
  BY Division
<1>2. PICK m \in Nat : m = top + 1 - Width /\ m <= top + 1
  BY CrcNumbers
(* From exponent Width down nothing is left to do.                         *)
<1> DEFINE M == {j \in Nat : m + j <= top + 1 => f[m + j] = f[m]}
<1>3. 0 \in M
  BY <1>2
<1>4. ASSUME NEW j \in M PROVE j + 1 \in M
  <2>1. j \in Nat
    OBVIOUS
  <2> SUFFICES ASSUME m + (j + 1) <= top + 1 PROVE f[m + (j + 1)] = f[m]
    BY <2>1
  <2>2. PICK k \in 1 .. top + 1 : k = m + (j + 1) /\ k - 1 = m + j
    BY <1>2, <2>1
  <2>3. top + 1 - k < Width
    BY <1>2, <2>1, <2>2, CrcNumbers
  <2>4. f[k] = f[k - 1]
    BY <1>1, <2>2, <2>3, CrcNumbers DEF Reduce
  <2>5. f[m + j] = f[m]
    BY <1>2, <2>1, <2>2
  <2> QED
    BY <2>2, <2>4, <2>5
<1>5. M = Nat
  <2>1. M \in SUBSET Nat
    OBVIOUS
  <2> HIDE DEF M
  <2> QED
    BY <1>3, <1>4, <2>1, SetInduction
<1>6. f[top + 1] = f[m]
  <2>1. Width \in M /\ m + Width = top + 1
    BY <1>2, <1>5, CrcNumbers
  <2> QED
    BY <2>1
<1> HIDE DEF M
<1> DEFINE last == Reduce(Times(f[m], 1), Width)
           g == [k \in 0 .. top + 2 |-> IF k <= m THEN Times(f[k], 1) ELSE last]
<1>7. ASSUME NEW R, R \subseteq Nat, NEW d \in Nat, d >= Width
      PROVE  Times(Reduce(R, d), 1) = Reduce(Times(R, 1), d + 1)
  BY <1>7, ReduceUp
<1>8. ASSUME NEW k \in 1 .. top + 2 PROVE g[k] = Reduce(g[k - 1], top + 2 - k)
  <2>1. k \in 0 .. top + 2 /\ k - 1 \in 0 .. top + 2
    OBVIOUS
  <2>2. CASE k <= m
    <3>1. k \in 1 .. top + 1 /\ k - 1 \in 0 .. top + 1 /\ k - 1 <= m
      BY <1>2, <2>2
    <3>2. PICK d \in Nat : d = top + 1 - k /\ d >= Width /\ d + 1 = top + 2 - k
      BY <1>2, <2>2, <3>1, CrcNumbers
    <3>3. f[k] = Reduce(f[k - 1], d) /\ f[k - 1] \subseteq Nat
      BY <1>1, <3>1, <3>2
    <3>4. g[k] = Times(f[k], 1) /\ g[k - 1] = Times(f[k - 1], 1)
      BY <2>1, <2>2, <3>1
    <3> QED
      BY <1>7, <3>2, <3>3, <3>4
  <2>3. CASE k = m + 1
    <3>1. g[k] = last /\ g[k - 1] = Times(f[m], 1) /\ top + 2 - k = Width
      BY <1>2, <2>1, <2>3, CrcNumbers
    <3> QED
      BY <3>1
  <2>4. CASE k > m + 1
    <3>1. g[k] = last /\ g[k - 1] = last
      BY <1>2, <2>1, <2>4
    <3>2. top + 2 - k < Width
      BY <1>2, <2>4, CrcNumbers
    <3> QED
      BY <3>1, <3>2, CrcNumbers DEF Reduce
  <2> QED
    BY <1>2, <2>2, <2>3, <2>4
<1>9. g[0] = Times(S, 1) /\ g[top + 2] = last
  BY <1>1, <1>2, CrcNumbers
<1> HIDE DEF g
<1>10. Times(S, 1) \subseteq Nat
  BY DEF Times
<1>11. PICK up \in Nat : up = top + 1 /\ up + 1 = top + 2
  OBVIOUS
<1>12. Remainder(Times(S, 1), up) = g[up + 1]
  <2>1. up \in Nat /\ g[0] = Times(S, 1)
    BY <1>9
  <2>2. \A k \in 1 .. up + 1 : g[k] = Reduce(g[k - 1], up + 1 - k)
    BY <1>8, <1>11
  <2> DEFINE T == Times(S, 1)
  <2>3. T \subseteq Nat /\ g[0] = T
    BY <1>10, <2>1
  <2> HIDE DEF T
  <2>4. Remainder(T, up) = g[up + 1]
    BY <2>2, <2>3, RemainderOf
  <2> QED
    BY <2>4 DEF T
<1> QED
  BY <1>1, <1>6, <1>9, <1>11, <1>12

(* A word, as the polynomial whose highest power is its lowest bit.        *)
Rev(x) == {Width - 1 - b : b \in x}

(* Turning a word around.                                                  *)
LEMMA RevIn ==
    ASSUME NEW x, x \subseteq AllOnes
    PROVE  Rev(x) \subseteq AllOnes /\ \A e \in AllOnes : e \in Rev(x) <=> Width - 1 - e \in x
<1>1. \A b \in x : b \in 0 .. Width - 1 /\ Width - 1 - b \in 0 .. Width - 1
  BY CrcNumbers DEF AllOnes
<1>2. ASSUME NEW e \in AllOnes, e \in Rev(x) PROVE Width - 1 - e \in x
  <2>1. PICK b \in x : e = Width - 1 - b
    BY <1>2 DEF Rev
  <2>2. Width - 1 - e = b
    BY <1>1, <2>1, CrcNumbers
  <2> QED
    BY <2>2
<1>3. ASSUME NEW e \in AllOnes, Width - 1 - e \in x PROVE e \in Rev(x)
  <2>1. e = Width - 1 - (Width - 1 - e)
    BY CrcNumbers DEF AllOnes
  <2> QED
    BY <1>3, <2>1 DEF Rev
<1> QED
  BY <1>1, <1>2, <1>3 DEF Rev, AllOnes

(* Sums may be taken before or after.                                      *)
LEMMA RevXor ==
    ASSUME NEW x, x \subseteq AllOnes, NEW y, y \subseteq AllOnes
    PROVE  Rev(Xor(x, y)) = Xor(Rev(x), Rev(y)) /\ Xor(x, y) \subseteq AllOnes
<1>1. Xor(x, y) \subseteq AllOnes
  BY DEF Xor
<1>2. Rev(Xor(x, y)) \subseteq AllOnes /\ \A e \in AllOnes : e \in Rev(Xor(x, y)) <=> Width - 1 - e \in Xor(x, y)
  BY <1>1, RevIn
<1>3. Rev(x) \subseteq AllOnes /\ \A e \in AllOnes : e \in Rev(x) <=> Width - 1 - e \in x
  BY RevIn
<1>4. Rev(y) \subseteq AllOnes /\ \A e \in AllOnes : e \in Rev(y) <=> Width - 1 - e \in y
  BY RevIn
<1> QED
  BY <1>1, <1>2, <1>3, <1>4 DEF Xor

(* A step of update_crc is one of the division.                            *)
LEMMA StepBitIs ==
    ASSUME NEW x, x \subseteq AllOnes
    PROVE  StepBit(x) \subseteq AllOnes /\ Rev(StepBit(x)) = Reduce(Times(Rev(x), 1), Width)
<1> DEFINE y == Down(x, 1)
           R == Times(Rev(x), 1)
<1>0. Width \in Nat \ {0}
  BY CrcAssumption
<1>1. y \subseteq AllOnes /\ \A b \in AllOnes : b \in y <=> b + 1 \in x
  <2>1. ASSUME NEW b \in AllOnes, b + 1 \in x PROVE b \in y
    <3>1. b = (b + 1) - 1 /\ b + 1 >= 1
      BY DEF AllOnes
    <3> QED
      BY <2>1, <3>1 DEF Down
  <2>2. ASSUME NEW b \in y PROVE b \in AllOnes /\ b + 1 \in x
    <3>1. PICK c \in x : c >= 1 /\ b = c - 1
      BY DEF Down
    <3>2. b + 1 = c /\ b \in AllOnes
      BY <1>0, <3>1 DEF AllOnes
    <3> QED
      BY <3>2
  <2> QED
    BY <2>1, <2>2
<1>2. Rev(y) \subseteq AllOnes /\ \A e \in AllOnes : e \in Rev(y) <=> (Width - 1 - e) + 1 \in x
  <2>1. Rev(y) \subseteq AllOnes /\ \A e \in AllOnes : e \in Rev(y) <=> Width - 1 - e \in y
    BY <1>1, RevIn
  <2>2. \A e \in AllOnes : Width - 1 - e \in AllOnes
    BY <1>0 DEF AllOnes
  <2> QED
    BY <1>1, <2>1, <2>2
<1>3. R \subseteq 0 .. Width /\ \A e \in 0 .. Width : e \in R <=> Width - e \in x
  <2>1. Rev(x) \subseteq AllOnes /\ \A e \in AllOnes : e \in Rev(x) <=> Width - 1 - e \in x
    BY RevIn
  <2>2. Rev(x) \subseteq Nat
    BY <2>1 DEF AllOnes
  <2>3. R \subseteq Nat /\ \A e \in Nat : e \in R <=> e - 1 \in Rev(x)
    BY <2>2, TimesIn
  <2>4. ASSUME NEW e \in 0 .. Width PROVE e \in R <=> Width - e \in x
    <3>1. CASE e = 0
      <4>1. e - 1 \notin AllOnes /\ Width - e \notin AllOnes
        BY <1>0, <3>1 DEF AllOnes
      <4> QED
        BY <2>1, <2>3, <4>1
    <3>2. CASE e # 0
      <4>1. e - 1 \in AllOnes /\ Width - 1 - (e - 1) = Width - e
        BY <1>0, <3>2 DEF AllOnes
      <4> QED
        BY <2>1, <2>3, <4>1
    <3> QED
      BY <3>1, <3>2
  <2>5. ASSUME NEW e \in R PROVE e \in 0 .. Width
    <3>1. e \in Nat /\ e - 1 \in AllOnes
      BY <2>1, <2>3
    <3> QED
      BY <1>0, <3>1 DEF AllOnes
  <2> QED
    BY <2>4, <2>5
<1>4. Width \in R <=> 0 \in x
  <2>1. Width \in 0 .. Width /\ Width - Width = 0
    BY <1>0
  <2> QED
    BY <1>3, <2>1
<1>5. \A e \in AllOnes : e \in 0 .. Width /\ (Width - 1 - e) + 1 = Width - e
  BY <1>0 DEF AllOnes
<1>6. Rev(y) = R \ {Width}
  <2>1. ASSUME NEW e \in AllOnes PROVE e \in Rev(y) <=> e \in R
    BY <1>2, <1>3, <1>5
  <2>2. \A e \in 0 .. Width : e \in AllOnes <=> e # Width
    BY <1>0 DEF AllOnes
  <2> QED
    BY <1>2, <1>3, <2>1, <2>2
<1> HIDE DEF y, R
<1>7. CASE 0 \notin x
  <2>1. StepBit(x) = y
    BY <1>7 DEF StepBit, y
  <2>2. R \ {Width} = R
    BY <1>4, <1>7
  <2>3. Reduce(R, Width) = R
    BY <1>4, <1>7 DEF Reduce
  <2> QED
    BY <1>1, <1>6, <2>1, <2>2, <2>3 DEF R
<1>8. CASE 0 \in x
  <2>1. StepBit(x) = Xor(y, POLY)
    BY <1>8 DEF StepBit, y
  <2>2. POLY \subseteq AllOnes
    BY CrcNumbers
  <2>3. Rev(StepBit(x)) = Xor(Rev(y), Rev(POLY)) /\ StepBit(x) \subseteq AllOnes
    BY <1>1, <2>1, <2>2, RevXor
  <2>4. Rev(POLY) \subseteq AllOnes /\ Generator = {Width} \cup Rev(POLY)
    BY <2>2, RevIn DEF Generator, Rev
  <2>5. Width \notin AllOnes
    BY <1>0 DEF AllOnes
  <2>6. Xor(R \ {Width}, Rev(POLY)) = Xor(R, Generator)
    BY <1>4, <1>8, <2>4, <2>5 DEF Xor
  <2>7. Width >= Width /\ Width - Width = 0
    BY <1>0
  <2>8. Times(Generator, 0) = Generator
    <3>1. Polynomial(Generator) /\ 0 \in Nat
      BY CrcNumbers DEF Polynomial
    <3> QED
      BY <3>1, TimesAdd
  <2>9. Reduce(R, Width) = Xor(R, Generator)
    BY <1>4, <1>8, <2>7, <2>8 DEF Reduce
  <2> QED
    BY <1>6, <2>3, <2>6, <2>9 DEF R
<1> QED
  BY <1>7, <1>8

(* The eight steps of a byte.                                              *)
Stepping(f, x, byte) ==
    /\ f[0] = Xor(x, byte) /\ \A k \in 0 .. ByteBits : f[k] \subseteq AllOnes
    /\ \A k \in 1 .. ByteBits : f[k] = StepBit(f[k - 1])
    /\ StepByte(x, byte) = f[ByteBits]

(* update_crc does them.                                                   *)
LEMMA StepByteSteps ==
    ASSUME NEW x, x \subseteq AllOnes, NEW byte \in Bytes
    PROVE  \E f : Stepping(f, x, byte)
<1> DEFINE T == SUBSET AllOnes
           n == ByteBits
           F == [k \in 1 .. n |-> [y \in T |-> StepBit(y)]]
           s == Xor(x, byte)
           Body(f) == [k \in 0 .. ByteBits |-> IF k = 0 THEN Xor(x, byte) ELSE StepBit(f[k - 1])]
           after == CHOOSE f : f = Body(f)
<1>0. n \in Nat \ {0}
  BY CrcNumbers
<1>1. StepsWithin(F, n, T)
  <2> SUFFICES ASSUME NEW k \in 1 .. n, NEW y \in T PROVE F[k][y] \in T
    BY DEF StepsWithin
  <2>1. y \subseteq AllOnes
    OBVIOUS
  <2>2. StepBit(y) \subseteq AllOnes
    BY <2>1, StepBitIs
  <2> QED
    BY <2>2
<1>2. n \in Nat /\ s \in T
  <2>1. byte \subseteq AllOnes
    BY CrcNumbers DEF Bytes, AllOnes
  <2> QED
    BY <1>0, <2>1, RevXor
<1>3. PICK f : Iterated(f, F, n, T, s)
  <2> HIDE DEF T, F, n, s
  <2> QED
    BY <1>1, <1>2, Iterates
<1>4. f \in [0 .. n -> T] /\ f[0] = s /\ \A k \in 1 .. n : f[k] = F[k][f[k - 1]]
  <2> HIDE DEF T, F, n, s
  <2> QED
    BY <1>3 DEF Iterated
<1>5. ASSUME NEW k \in 1 .. n PROVE f[k] = StepBit(f[k - 1])
  <2>1. k - 1 \in 0 .. n
    BY <1>0
  <2>2. f[k - 1] \in T
    BY <1>4, <2>1
  <2>3. F[k] = [y \in T |-> StepBit(y)]
    OBVIOUS
  <2>4. F[k][f[k - 1]] = StepBit(f[k - 1])
    BY <2>2, <2>3
  <2> QED
    BY <1>4, <2>4
<1> HIDE DEF F
<1>6. f = Body(f)
  <2>1. ASSUME NEW k \in 0 .. ByteBits PROVE f[k] = Body(f)[k]
    <3>1. CASE k = 0
      BY <1>4, <3>1
    <3>2. CASE k # 0
      <4>1. k \in 1 .. n
        BY <1>0, <3>2
      <4> QED
        BY <1>5, <3>2, <4>1
    <3> QED
      BY <3>1, <3>2
  <2> QED
    BY <1>4, <2>1
<1>7. after = Body(after)
  BY <1>6
<1>8. StepByte(x, byte) = after[ByteBits]
  BY DEF StepByte
<1> HIDE DEF after
<1>9. after[0] = s /\ \A k \in 1 .. n : after[k] = StepBit(after[k - 1])
  <2>1. after[0] = s
    BY <1>0, <1>7
  <2>2. ASSUME NEW k \in 1 .. n PROVE after[k] = StepBit(after[k - 1])
    <3>1. after[k] = Body(after)[k] /\ k \in 0 .. ByteBits /\ k # 0
      BY <1>0, <1>7
    <3> QED
      BY <3>1
  <2> QED
    BY <2>1, <2>2
<1> DEFINE M == {m \in Nat : m <= n => after[m] = f[m]}
<1>10. 0 \in M
  BY <1>4, <1>9
<1>11. ASSUME NEW m \in M PROVE m + 1 \in M
  <2>1. m \in Nat
    OBVIOUS
  <2> SUFFICES ASSUME m + 1 <= n PROVE after[m + 1] = f[m + 1]
    BY <2>1
  <2>2. m + 1 \in 1 .. n /\ (m + 1) - 1 = m /\ after[m] = f[m]
    BY <1>0, <2>1
  <2> QED
    BY <1>5, <1>9, <2>2
<1>12. M = Nat
  <2>1. M \in SUBSET Nat
    OBVIOUS
  <2> HIDE DEF M
  <2> QED
    BY <1>10, <1>11, <2>1, SetInduction
<1>13. after[n] = f[n]
  BY <1>0, <1>12
<1>14. \A k \in 0 .. n : f[k] \subseteq AllOnes
  BY <1>4
<1> QED
  BY <1>4, <1>5, <1>8, <1>13, <1>14 DEF Stepping

(* What the division of S leaves is the sum x.                             *)
Leaves(S, top, x) == S \subseteq Nat /\ x \subseteq AllOnes /\ Remainder(S, top) = Rev(x)

(* What is left of a message after a byte more, when the sum holds what is *)
(* left of it so far (update_crc).                                         *)
LEMMA StepByteDivides ==
    ASSUME NEW S, NEW top \in Nat, top >= Width, NEW x, Leaves(S, top, x), NEW byte \in Bytes
    PROVE  Leaves(Times(Xor(S, Rev(byte)), ByteBits), top + ByteBits, StepByte(x, byte))
<1> USE DEF Leaves
<1>0. byte \subseteq AllOnes /\ Rev(byte) \subseteq AllOnes /\ ByteBits \in Nat
  <2>1. byte \subseteq AllOnes
    BY CrcNumbers DEF Bytes, AllOnes
  <2> QED
    BY <2>1, CrcNumbers, RevIn
<1>1. PICK f : Stepping(f, x, byte)
  BY StepByteSteps
<1>2. /\ f[0] = Xor(x, byte) /\ \A k \in 0 .. ByteBits : f[k] \subseteq AllOnes
      /\ \A k \in 1 .. ByteBits : f[k] = StepBit(f[k - 1])
      /\ StepByte(x, byte) = f[ByteBits]
  BY <1>1 DEF Stepping
<1> DEFINE A == Xor(S, Rev(byte))
           M == {m \in Nat : m <= ByteBits => Remainder(Times(A, m), top + m) = Rev(f[m])}
<1>3. A \subseteq Nat
  <2>1. \A e \in AllOnes : e \in Nat
    BY CrcNumbers DEF AllOnes
  <2>2. Rev(byte) \subseteq Nat
    BY <1>0, <2>1
  <2> QED
    BY <2>2 DEF Xor
<1>4. Remainder(A, top) = Rev(f[0])
  <2>1. Remainder(A, top) = Xor(Rev(x), Rev(byte))
    <3>1. \A T : T \subseteq AllOnes => Remainder(Xor(S, T), top) = Xor(Remainder(S, top), T)
      BY RemainderAdds
    <3> QED
      BY <1>0, <3>1
  <2>2. Rev(f[0]) = Xor(Rev(x), Rev(byte))
    BY <1>0, <1>2, RevXor
  <2> QED
    BY <2>1, <2>2
<1> HIDE DEF A
<1>5. Polynomial(A)
  BY <1>3 DEF Polynomial
<1>6. 0 \in M
  <2>1. Times(A, 0) = A /\ top + 0 = top
    BY <1>5, TimesAdd
  <2> QED
    BY <1>4, <2>1
<1>7. ASSUME NEW m \in M PROVE m + 1 \in M
  <2>1. m \in Nat
    OBVIOUS
  <2> SUFFICES ASSUME m + 1 <= ByteBits PROVE Remainder(Times(A, m + 1), top + (m + 1)) = Rev(f[m + 1])
    BY <2>1
  <2>2. Remainder(Times(A, m), top + m) = Rev(f[m])
    BY <1>0, <2>1
  <2>3. Times(Times(A, m), 1) = Times(A, m + 1) /\ Polynomial(Times(A, m))
    <3>1. Polynomial(Times(A, m))
      BY <1>5, <2>1, TimesAdd
    <3>2. 1 \in Nat /\ Times(Times(A, m), 1) = Times(A, m + 1)
      BY <1>5, <2>1, TimesAdd
    <3> QED
      BY <3>1, <3>2
  <2>4. PICK t \in Nat : t = top + m /\ t + 1 = top + (m + 1) /\ t >= Width
    BY <2>1, CrcNumbers
  <2>5. Times(A, m) \subseteq Nat
    BY <2>3 DEF Polynomial
  <2>6. Remainder(Times(Times(A, m), 1), t + 1) = Reduce(Times(Remainder(Times(A, m), t), 1), Width)
    BY <2>4, <2>5, RemainderUp
  <2>7. m + 1 \in 1 .. ByteBits /\ m \in 0 .. ByteBits /\ (m + 1) - 1 = m
    BY <1>0, <2>1
  <2>8. f[m + 1] = StepBit(f[m]) /\ f[m] \subseteq AllOnes
    BY <1>2, <2>7
  <2>9. Rev(StepBit(f[m])) = Reduce(Times(Rev(f[m]), 1), Width)
    BY <2>8, StepBitIs
  <2> QED
    BY <2>2, <2>3, <2>4, <2>6, <2>8, <2>9
<1>8. M = Nat
  <2>1. M \in SUBSET Nat
    OBVIOUS
  <2> HIDE DEF M
  <2> QED
    BY <1>6, <1>7, <2>1, SetInduction
<1>9. Remainder(Times(A, ByteBits), top + ByteBits) = Rev(f[ByteBits])
  BY <1>0, <1>8
<1>10. f[ByteBits] \subseteq AllOnes
  BY <1>0, <1>2
<1>11. Times(A, ByteBits) \subseteq Nat
  BY <1>0, <1>5, TimesAdd DEF Polynomial
<1> QED
  BY <1>2, <1>9, <1>10, <1>11 DEF A

(* A step of update_crc loses nothing: its highest bit tells what the      *)
(* lowest was.                                                             *)
LEMMA StepBitInjective ==
    ASSUME NEW x, x \subseteq AllOnes, NEW y, y \subseteq AllOnes, StepBit(x) = StepBit(y)
    PROVE  x = y
<1>0. Width \in Nat \ {0} /\ Width - 1 \in POLY /\ POLY \subseteq AllOnes
  BY CrcAssumption DEF AllOnes
<1>1. ASSUME NEW z, z \subseteq AllOnes
      PROVE  /\ Width - 1 \in StepBit(z) <=> 0 \in z
             /\ \A b \in AllOnes : b + 1 \in z <=> b \in Down(z, 1)
  <2>1. ASSUME NEW b \in AllOnes, b + 1 \in z PROVE b \in Down(z, 1)
    <3>1. b = (b + 1) - 1 /\ b + 1 >= 1
      BY DEF AllOnes
    <3> QED
      BY <2>1, <3>1 DEF Down
  <2>2. ASSUME NEW b \in Down(z, 1) PROVE b + 1 \in z /\ b # Width - 1
    <3>1. PICK c \in z : c >= 1 /\ b = c - 1
      BY <2>2 DEF Down
    <3>2. b + 1 = c /\ b # Width - 1
      BY <1>0, <1>1, <3>1 DEF AllOnes
    <3> QED
      BY <3>2
  <2>3. Width - 1 \notin Down(z, 1)
    BY <2>2
  <2>4. Width - 1 \in StepBit(z) <=> 0 \in z
    BY <1>0, <2>3 DEF StepBit, Xor
  <2> QED
    BY <2>1, <2>2, <2>4
<1>2. 0 \in x <=> 0 \in y
  BY <1>1
<1>3. Down(x, 1) = Down(y, 1)
  <2>1. CASE 0 \in x
    <3>1. Xor(Down(x, 1), POLY) = Xor(Down(y, 1), POLY)
      BY <1>2, <2>1 DEF StepBit
    <3> QED
      BY <3>1, XorLaws
  <2>2. CASE 0 \notin x
    BY <1>2, <2>2 DEF StepBit
  <2> QED
    BY <2>1, <2>2
<1>4. ASSUME NEW c \in AllOnes PROVE c \in x <=> c \in y
  <2>1. CASE c = 0
    BY <1>2, <2>1
  <2>2. CASE c # 0
    <3>1. PICK b \in AllOnes : c = b + 1
      <4>1. c - 1 \in AllOnes /\ c = (c - 1) + 1
        BY <1>0, <2>2 DEF AllOnes
      <4> QED
        BY <4>1
    <3>2. b + 1 \in x <=> b \in Down(x, 1)
      BY <1>1
    <3>3. b + 1 \in y <=> b \in Down(y, 1)
      BY <1>1
    <3> QED
      BY <1>3, <3>1, <3>2, <3>3
  <2> QED
    BY <2>1, <2>2
<1> QED
  BY <1>4

(* Nor does a byte.                                                        *)
LEMMA StepByteInjective ==
    ASSUME NEW x, x \subseteq AllOnes, NEW y, y \subseteq AllOnes,
           NEW a \in Bytes, NEW b \in Bytes, StepByte(x, a) = StepByte(y, b)
    PROVE  Xor(x, a) = Xor(y, b)
<1>1. PICK f : Stepping(f, x, a)
  BY StepByteSteps
<1>2. PICK g : Stepping(g, y, b)
  BY StepByteSteps
<1>3. /\ f[0] = Xor(x, a) /\ \A k \in 0 .. ByteBits : f[k] \subseteq AllOnes
      /\ \A k \in 1 .. ByteBits : f[k] = StepBit(f[k - 1])
      /\ StepByte(x, a) = f[ByteBits]
  BY <1>1 DEF Stepping
<1>4. /\ g[0] = Xor(y, b) /\ \A k \in 0 .. ByteBits : g[k] \subseteq AllOnes
      /\ \A k \in 1 .. ByteBits : g[k] = StepBit(g[k - 1])
      /\ StepByte(y, b) = g[ByteBits]
  BY <1>2 DEF Stepping
<1>5. ByteBits \in Nat
  BY CrcNumbers
<1> DEFINE M == {m \in Nat : m <= ByteBits => f[ByteBits - m] = g[ByteBits - m]}
<1>6. 0 \in M
  <2>1. f[ByteBits] = g[ByteBits]
    BY <1>3, <1>4
  <2>2. ByteBits - 0 = ByteBits
    BY <1>5
  <2> QED
    BY <2>1, <2>2
<1>7. ASSUME NEW m \in M PROVE m + 1 \in M
  <2>1. m \in Nat
    OBVIOUS
  <2> SUFFICES ASSUME m + 1 <= ByteBits PROVE f[ByteBits - (m + 1)] = g[ByteBits - (m + 1)]
    BY <2>1
  <2>2. PICK k \in 1 .. ByteBits : k = ByteBits - m /\ k - 1 = ByteBits - (m + 1) /\ k - 1 \in 0 .. ByteBits
    BY <1>5, <2>1
  <2>3. f[k] = g[k]
    BY <1>5, <2>1, <2>2
  <2>4. StepBit(f[k - 1]) = StepBit(g[k - 1]) /\ f[k - 1] \subseteq AllOnes /\ g[k - 1] \subseteq AllOnes
    BY <1>3, <1>4, <2>2, <2>3
  <2>5. f[k - 1] = g[k - 1]
    BY <2>4, StepBitInjective
  <2> QED
    BY <2>2, <2>5
<1>8. M = Nat
  <2>1. M \in SUBSET Nat
    OBVIOUS
  <2> HIDE DEF M
  <2> QED
    BY <1>6, <1>7, <2>1, SetInduction
<1>9. f[ByteBits - ByteBits] = g[ByteBits - ByteBits] /\ ByteBits - ByteBits = 0
  BY <1>5, <1>8
<1> QED
  BY <1>3, <1>4, <1>9

(* The polynomial of the first n bytes times x^Width, with the ones in     *)
(* front.                                                                  *)
Whole(n) == Xor(Times(OnesOf(n), Width), Times(AllOnes, n * ByteBits))

(* A byte, its lowest bit the highest power.                               *)
Low(byte) == {ByteBits - 1 - b : b \in byte}

(* Where a bit of the buffer lies.                                         *)
LEMMA BitPlace ==
    ASSUME NEW n \in Nat, NEW k \in 0 .. n - 1, NEW b \in 0 .. ByteBits - 1
    PROVE  n * ByteBits - 1 - (k * ByteBits + b) \in Nat
<1>1. ByteBits \in Nat
  BY CrcNumbers
<1>2. PICK j \in Nat : n = k + 1 + j
  <2>1. n - k - 1 \in Nat /\ n = k + 1 + (n - k - 1)
    OBVIOUS
  <2> QED
    BY <2>1
<1>3. k \in Nat /\ k * ByteBits \in Nat /\ j * ByteBits \in Nat
  BY <1>1
<1>4. n * ByteBits = k * ByteBits + ByteBits + j * ByteBits
  BY <1>1, <1>2, <1>3
<1> QED
  BY <1>1, <1>3, <1>4

(* The powers of the first bytes.                                          *)
LEMMA OnesIn ==
    ASSUME NEW n \in Nat
    PROVE  /\ OnesOf(n) \subseteq Nat
           /\ \A e : e \in OnesOf(n) <=>
                \E k \in 0 .. n - 1, b \in 0 .. ByteBits - 1 :
                    b \in buf[k + 1] /\ e = n * ByteBits - 1 - (k * ByteBits + b)
<1>1. ASSUME NEW e, e \in OnesOf(n)
      PROVE  \E k \in 0 .. n - 1, b \in 0 .. ByteBits - 1 :
                    b \in buf[k + 1] /\ e = n * ByteBits - 1 - (k * ByteBits + b)
  <2>1. PICK p \in (0 .. n - 1) \X (0 .. ByteBits - 1) :
               p[2] \in buf[p[1] + 1] /\ e = n * ByteBits - 1 - (p[1] * ByteBits + p[2])
    BY <1>1 DEF OnesOf
  <2>2. p[1] \in 0 .. n - 1 /\ p[2] \in 0 .. ByteBits - 1
    OBVIOUS
  <2> QED
    BY <2>1, <2>2
<1>2. ASSUME NEW e, NEW k \in 0 .. n - 1, NEW b \in 0 .. ByteBits - 1, b \in buf[k + 1],
             e = n * ByteBits - 1 - (k * ByteBits + b)
      PROVE  e \in OnesOf(n)
  <2> DEFINE p == <<k, b>>
  <2>1. p \in (0 .. n - 1) \X (0 .. ByteBits - 1) /\ p[1] = k /\ p[2] = b
    OBVIOUS
  <2> HIDE DEF p
  <2>2. p[2] \in buf[p[1] + 1] /\ e = n * ByteBits - 1 - (p[1] * ByteBits + p[2])
    BY <1>2, <2>1
  <2> QED
    BY <2>1, <2>2 DEF OnesOf
<1>3. ASSUME NEW e \in OnesOf(n) PROVE e \in Nat
  BY <1>1, BitPlace
<1> QED
  BY <1>1, <1>2, <1>3

(* A byte more (main --hash sums the memory byte by byte).                 *)
LEMMA OnesGrow ==
    ASSUME NEW n \in Nat, buf[n + 1] \in Bytes
    PROVE  OnesOf(n + 1) = Xor(Times(OnesOf(n), ByteBits), Low(buf[n + 1]))
<1> DEFINE B == ByteBits
           last == buf[n + 1]
           Moved == Times(OnesOf(n), B)
<1>1. B \in Nat \ {0} /\ n + 1 \in Nat /\ n * B \in Nat /\ (n + 1) * B = n * B + B
  BY CrcNumbers
<1>2. \A b \in last : b \in 0 .. B - 1
  BY DEF Bytes
<1>3. \A e : e \in OnesOf(n) <=>
        \E k \in 0 .. n - 1, b \in 0 .. B - 1 : b \in buf[k + 1] /\ e = n * B - 1 - (k * B + b)
  BY OnesIn
<1>4. \A e : e \in OnesOf(n + 1) <=>
        \E k \in 0 .. (n + 1) - 1, b \in 0 .. B - 1 : b \in buf[k + 1] /\ e = (n + 1) * B - 1 - (k * B + b)
  BY <1>1, OnesIn
<1>5. OnesOf(n) \subseteq Nat
  BY OnesIn
<1>6. ASSUME NEW e, e \in Moved PROVE e \in OnesOf(n + 1) /\ e \in Int /\ e >= B
  <2>1. PICK d \in OnesOf(n) : e = d + B
    BY <1>6 DEF Times
  <2>2. PICK k \in 0 .. n - 1, b \in 0 .. B - 1 : b \in buf[k + 1] /\ d = n * B - 1 - (k * B + b)
    BY <1>3
  <2>3. k \in 0 .. (n + 1) - 1 /\ k * B \in Nat /\ d \in Nat
    BY <1>1, <1>5
  <2>4. e = (n + 1) * B - 1 - (k * B + b)
    BY <1>1, <2>1, <2>2, <2>3
  <2>5. e \in Int /\ e >= B
    BY <1>1, <2>1, <2>3
  <2> QED
    BY <1>4, <2>2, <2>3, <2>4, <2>5
<1>7. ASSUME NEW e, e \in Low(last) PROVE e \in OnesOf(n + 1) /\ e \in Int /\ e < B
  <2>1. PICK b \in last : e = B - 1 - b
    BY <1>7 DEF Low
  <2>2. b \in 0 .. B - 1 /\ n \in 0 .. (n + 1) - 1
    BY <1>2
  <2>3. e = (n + 1) * B - 1 - (n * B + b) /\ e \in Int /\ e < B
    BY <1>1, <2>1, <2>2
  <2> QED
    BY <1>4, <2>2, <2>3
<1>8. ASSUME NEW e, e \in OnesOf(n + 1) PROVE e \in Moved \/ e \in Low(last)
  <2>1. PICK k \in 0 .. (n + 1) - 1, b \in 0 .. B - 1 :
               b \in buf[k + 1] /\ e = (n + 1) * B - 1 - (k * B + b)
    BY <1>4, <1>8
  <2>2. CASE k = n
    <3>1. e = B - 1 - b
      BY <1>1, <2>1, <2>2
    <3> QED
      BY <2>1, <2>2, <3>1 DEF Low
  <2>3. CASE k # n
    <3>1. k \in 0 .. n - 1 /\ k * B \in Nat
      BY <1>1, <2>3
    <3> DEFINE d == n * B - 1 - (k * B + b)
    <3>2. d \in OnesOf(n)
      BY <1>3, <2>1, <3>1
    <3>3. e = d + B
      BY <1>1, <2>1, <3>1
    <3> QED
      BY <3>2, <3>3 DEF Times
  <2> QED
    BY <2>2, <2>3
<1> HIDE DEF Moved, last
<1>9. OnesOf(n + 1) = Moved \cup Low(last)
  BY <1>6, <1>7, <1>8
<1>10. \A e : ~(e \in Moved /\ e \in Low(last))
  BY <1>1, <1>6, <1>7
<1>11. Moved \cup Low(last) = Xor(Moved, Low(last))
  BY <1>10 DEF Xor
<1> QED
  BY <1>9, <1>11 DEF Moved, last

(* So the whole is the one before and the byte, times x^ByteBits.          *)
LEMMA WholeGrows ==
    ASSUME NEW n \in Nat, buf[n + 1] \in Bytes
    PROVE  /\ Whole(n) \subseteq Nat
           /\ Whole(n + 1) = Times(Xor(Whole(n), Rev(buf[n + 1])), ByteBits)
<1> DEFINE B == ByteBits
           W == Width
           last == buf[n + 1]
           ones == OnesOf(n)
           nB == n * B
<1>1. B \in Nat \ {0} /\ W \in Nat /\ B <= W /\ nB \in Nat /\ (n + 1) * B = nB + B /\ B + W = W + B
  BY CrcNumbers
<1>2. \A b \in last : b \in 0 .. B - 1
  BY DEF Bytes
<1>3. Polynomial(ones)
  BY OnesIn DEF Polynomial
<1>4. Polynomial(AllOnes)
  BY CrcNumbers DEF Polynomial, AllOnes
<1>5. Polynomial(Low(last))
  <2>1. \A b \in last : B - 1 - b \in Nat
    BY <1>1, <1>2
  <2> QED
    BY <2>1 DEF Low, Polynomial
<1>6. Polynomial(Rev(last))
  <2>1. \A b \in last : W - 1 - b \in Nat
    BY <1>1, <1>2
  <2> QED
    BY <2>1 DEF Rev, Polynomial
<1>7. Times(Low(last), W) = Times(Rev(last), B)
  <2>1. ASSUME NEW b \in last PROVE (B - 1 - b) + W = (W - 1 - b) + B
    BY <1>1, <1>2
  <2>2. Times(Low(last), W) = {(B - 1 - b) + W : b \in last}
    BY DEF Times, Low
  <2>3. Times(Rev(last), B) = {(W - 1 - b) + B : b \in last}
    BY DEF Times, Rev
  <2> QED
    BY <2>1, <2>2, <2>3
<1>8. OnesOf(n + 1) = Xor(Times(ones, B), Low(last))
  BY OnesGrow
<1> HIDE DEF last, ones, nB
<1>9. Polynomial(Times(ones, B)) /\ Polynomial(Times(ones, W)) /\ Polynomial(Times(AllOnes, nB))
  BY <1>1, <1>3, <1>4, TimesAdd
<1>10. Times(OnesOf(n + 1), W) = Xor(Times(Times(ones, B), W), Times(Low(last), W))
  BY <1>1, <1>5, <1>8, <1>9, TimesXor
<1>11. Times(Times(ones, B), W) = Times(Times(ones, W), B)
  <2>1. Times(Times(ones, B), W) = Times(ones, B + W)
    BY <1>1, <1>3, TimesAdd
  <2>2. Times(Times(ones, W), B) = Times(ones, W + B)
    BY <1>1, <1>3, TimesAdd
  <2> QED
    BY <1>1, <2>1, <2>2
<1>12. Times(AllOnes, nB + B) = Times(Times(AllOnes, nB), B)
  BY <1>1, <1>4, TimesAdd
<1>13. Whole(n) = Xor(Times(ones, W), Times(AllOnes, nB)) /\ Polynomial(Whole(n))
  <2>1. Whole(n) = Xor(Times(ones, W), Times(AllOnes, nB))
    BY DEF Whole, ones, nB
  <2>2. Polynomial(Xor(Times(ones, W), Times(AllOnes, nB)))
    BY <1>1, <1>9, TimesXor
  <2> QED
    BY <2>1, <2>2
<1>14. Times(Xor(Whole(n), Rev(last)), B) = Xor(Times(Whole(n), B), Times(Rev(last), B))
  BY <1>1, <1>6, <1>13, TimesXor
<1>15. Times(Whole(n), B) = Xor(Times(Times(ones, W), B), Times(Times(AllOnes, nB), B))
  BY <1>1, <1>9, <1>13, TimesXor
<1>16. Whole(n + 1) = Xor(Times(OnesOf(n + 1), W), Times(AllOnes, nB + B))
  BY <1>1 DEF Whole, nB
<1>17. Whole(n + 1) = Xor(Xor(Times(Times(ones, W), B), Times(Rev(last), B)), Times(Times(AllOnes, nB), B))
  BY <1>7, <1>10, <1>11, <1>12, <1>16
<1>18. Whole(n + 1) = Xor(Xor(Times(Times(ones, W), B), Times(Times(AllOnes, nB), B)), Times(Rev(last), B))
  BY <1>17, XorLaws
<1>19. Whole(n + 1) = Times(Xor(Whole(n), Rev(last)), B)
  BY <1>14, <1>15, <1>18
<1>20. Whole(n) \subseteq Nat
  BY <1>13 DEF Polynomial
<1> QED
  BY <1>19, <1>20 DEF last

(* Before the first byte the whole is the initial ones.                    *)
LEMMA WholeStarts == Rev(AllOnes) = Remainder(Whole(0), Width)
<1>0. Width \in Nat /\ ByteBits \in Nat
  BY CrcNumbers
<1>1. OnesOf(0) = {}
  <2>1. ASSUME NEW e \in OnesOf(0) PROVE FALSE
    <3>1. PICK k \in 0 .. 0 - 1 : TRUE
      BY OnesIn
    <3> QED
      BY <3>1
  <2> QED
    BY <2>1
<1>2. Times(OnesOf(0), Width) = {}
  BY <1>1 DEF Times
<1>3. Times(AllOnes, 0 * ByteBits) = AllOnes
  <2>1. 0 * ByteBits = 0 /\ Polynomial(AllOnes)
    BY <1>0 DEF Polynomial, AllOnes
  <2> QED
    BY <2>1, TimesAdd
<1>4. Whole(0) = Xor({}, AllOnes)
  BY <1>2, <1>3 DEF Whole
<1>5. Remainder({}, Width) = {}
  <2> DEFINE g == [k \in 0 .. Width + 1 |-> {}]
  <2>1. ASSUME NEW k \in 1 .. Width + 1 PROVE g[k] = Reduce(g[k - 1], Width + 1 - k)
    <3>1. g[k] = {} /\ g[k - 1] = {}
      BY <1>0
    <3> QED
      BY <3>1 DEF Reduce
  <2>2. g[0] = {} /\ g[Width + 1] = {} /\ {} \subseteq Nat
    BY <1>0
  <2> HIDE DEF g
  <2> QED
    BY <1>0, <2>1, <2>2, RemainderOf
<1>6. Remainder(Xor({}, AllOnes), Width) = Xor({}, AllOnes)
  <2>1. {} \subseteq Nat /\ AllOnes \subseteq AllOnes
    OBVIOUS
  <2>2. Remainder(Xor({}, AllOnes), Width) = Xor(Remainder({}, Width), AllOnes)
    BY <1>0, <2>1, RemainderAdds
  <2> QED
    BY <1>5, <2>2
<1>7. Rev(AllOnes) = AllOnes
  <2>1. Rev(AllOnes) \subseteq AllOnes /\ \A e \in AllOnes : e \in Rev(AllOnes) <=> Width - 1 - e \in AllOnes
    BY RevIn
  <2>2. \A e \in AllOnes : Width - 1 - e \in AllOnes
    BY <1>0 DEF AllOnes
  <2> QED
    BY <2>1, <2>2
<1>8. Xor({}, AllOnes) = AllOnes
  BY DEF Xor
<1> QED
  BY <1>4, <1>6, <1>7, <1>8

(* The inductive invariant: the buffer's bytes, how far they are read, and *)
(* the sum as the remainder of what is read (update_crc).                  *)
CrcInv ==
    /\ Len(buf) \in Nat /\ \A k \in 1 .. Len(buf) : buf[k] \in Bytes
    /\ read \in 0 .. Len(buf) /\ crc \subseteq AllOnes
    /\ SumIsRemainder

(* The summing of what is left, with byte next.                            *)
Summing(f, byte) ==
    /\ f[0] = crc /\ \A k \in 0 .. Len(buf) - read : f[k] \subseteq AllOnes
    /\ f[1] = StepByte(crc, byte)
    /\ \A k \in 2 .. Len(buf) - read : f[k] = StepByte(f[k - 1], buf[read + k])
    /\ SumWith(byte) = crc32(f[Len(buf) - read])

(* SumWith does it.                                                        *)
LEMMA SumWithSteps ==
    ASSUME CrcInv, read < Len(buf), NEW byte \in Bytes
    PROVE  \E f : Summing(f, byte)
<1> DEFINE T == SUBSET AllOnes
           n == Len(buf) - read
           Fed(k) == IF k = 1 THEN byte ELSE buf[read + k]
           F == [k \in 1 .. n |-> [y \in T |-> StepByte(y, Fed(k))]]
           Body(f) == [k \in read .. Len(buf) |->
                         IF k = read THEN crc
                         ELSE StepByte(f[k - 1], IF k = read + 1 THEN byte ELSE buf[k])]
           after == CHOOSE f : f = Body(f)
<1>0. /\ Len(buf) \in Nat /\ \A k \in 1 .. Len(buf) : buf[k] \in Bytes
      /\ read \in Nat /\ n \in Nat \ {0} /\ crc \subseteq AllOnes /\ n = Len(buf) - read
  BY DEF CrcInv
<1>1. ASSUME NEW k \in 1 .. n PROVE Fed(k) \in Bytes
  <2>1. read + k \in 1 .. Len(buf)
    BY <1>0
  <2> QED
    BY <1>0, <2>1
<1>2. StepsWithin(F, n, T)
  <2> SUFFICES ASSUME NEW k \in 1 .. n, NEW y \in T PROVE F[k][y] \in T
    BY DEF StepsWithin
  <2>1. y \subseteq AllOnes /\ Fed(k) \in Bytes
    BY <1>1
  <2> DEFINE b == Fed(k)
  <2>2. StepByte(y, b) \subseteq AllOnes
    <3>1. y \subseteq AllOnes /\ b \in Bytes
      BY <2>1
    <3> HIDE DEF b
    <3>2. PICK f : Stepping(f, y, b)
      BY <3>1, StepByteSteps
    <3>3. ByteBits \in 0 .. ByteBits
      BY CrcNumbers
    <3> QED
      BY <3>2, <3>3 DEF Stepping
  <2> QED
    BY <2>2
<1>3. n \in Nat /\ crc \in T
  BY <1>0
<1>4. PICK f : Iterated(f, F, n, T, crc)
  <2> HIDE DEF T, F, n
  <2> QED
    BY <1>2, <1>3, Iterates
<1>5. f \in [0 .. n -> T] /\ f[0] = crc /\ \A k \in 1 .. n : f[k] = F[k][f[k - 1]]
  <2> HIDE DEF T, F, n
  <2> QED
    BY <1>4 DEF Iterated
<1> HIDE DEF n
<1>6. ASSUME NEW k \in 1 .. n PROVE f[k] = StepByte(f[k - 1], Fed(k))
  <2>1. k - 1 \in 0 .. n
    BY <1>0
  <2>2. f[k - 1] \in T
    BY <1>5, <2>1
  <2>3. F[k] = [y \in T |-> StepByte(y, Fed(k))]
    OBVIOUS
  <2>4. F[k][f[k - 1]] = StepByte(f[k - 1], Fed(k))
    BY <2>2, <2>3
  <2> QED
    BY <1>5, <2>4
<1> HIDE DEF F
<1> DEFINE h == [k \in read .. Len(buf) |-> f[k - read]]
<1>7. h = Body(h)
  <2>1. ASSUME NEW k \in read .. Len(buf) PROVE h[k] = Body(h)[k]
    <3>1. CASE k = read
      <4>1. k - read = 0
        BY <1>0, <3>1
      <4> QED
        BY <1>5, <3>1, <4>1
    <3>2. CASE k # read
      <4>1. PICK j \in 1 .. n : j = k - read /\ j - 1 = (k - 1) - read /\ k = read + j
        BY <1>0, <3>2
      <4>2. k - 1 \in read .. Len(buf)
        BY <1>0, <3>2
      <4>3. h[k] = f[j] /\ h[k - 1] = f[j - 1]
        BY <4>1, <4>2
      <4>4. j = 1 <=> k = read + 1
        BY <1>0, <4>1
      <4>5. Fed(j) = IF k = read + 1 THEN byte ELSE buf[k]
        BY <4>1, <4>4
      <4>6. f[j] = StepByte(f[j - 1], Fed(j))
        BY <1>6
      <4>7. Body(h)[k] = StepByte(h[k - 1], IF k = read + 1 THEN byte ELSE buf[k])
        BY <3>2
      <4> QED
        BY <4>3, <4>5, <4>6, <4>7
    <3> QED
      BY <3>1, <3>2
  <2> QED
    BY <2>1
<1> HIDE DEF h
<1>8. after = Body(after)
  BY <1>7
<1>9. SumWith(byte) = crc32(after[Len(buf)])
  BY DEF SumWith
<1> HIDE DEF after
<1> DEFINE M == {m \in Nat : m <= n => after[read + m] = f[m]}
<1>10. 0 \in M
  <2>1. read + 0 = read /\ read \in read .. Len(buf)
    BY <1>0
  <2>2. after[read] = crc
    BY <1>8, <2>1
  <2> QED
    BY <1>5, <2>1, <2>2
<1>11. ASSUME NEW m \in M PROVE m + 1 \in M
  <2>1. m \in Nat
    OBVIOUS
  <2> SUFFICES ASSUME m + 1 <= n PROVE after[read + (m + 1)] = f[m + 1]
    BY <2>1
  <2>2. PICK k \in read .. Len(buf) : k = read + (m + 1) /\ k # read /\ k - 1 = read + m
    BY <1>0, <2>1
  <2>3. after[k] = StepByte(after[k - 1], IF k = read + 1 THEN byte ELSE buf[k])
    BY <1>8, <2>2
  <2>4. after[k - 1] = f[m]
    BY <1>0, <2>1, <2>2
  <2>5. m + 1 \in 1 .. n /\ (m + 1) - 1 = m
    BY <1>0, <2>1
  <2>6. f[m + 1] = StepByte(f[m], Fed(m + 1))
    BY <1>6, <2>5
  <2>7. m + 1 = 1 <=> k = read + 1
    BY <1>0, <2>1, <2>2
  <2>8. Fed(m + 1) = IF k = read + 1 THEN byte ELSE buf[k]
    BY <2>2, <2>7
  <2> QED
    BY <2>2, <2>3, <2>4, <2>6, <2>8
<1>12. M = Nat
  <2>1. M \in SUBSET Nat
    OBVIOUS
  <2> HIDE DEF M
  <2> QED
    BY <1>10, <1>11, <2>1, SetInduction
<1>13. after[Len(buf)] = f[n]
  <2>1. read + n = Len(buf) /\ n \in M /\ n <= n
    BY <1>0, <1>12
  <2> QED
    BY <2>1
<1>14. \A k \in 0 .. n : f[k] \subseteq AllOnes
  BY <1>5
<1>15. f[1] = StepByte(crc, byte)
  <2>1. 1 \in 1 .. n /\ 1 - 1 = 0
    BY <1>0
  <2> QED
    BY <1>5, <1>6, <2>1
<1>16. ASSUME NEW k \in 2 .. n PROVE f[k] = StepByte(f[k - 1], buf[read + k])
  <2>1. k \in 1 .. n /\ k # 1
    BY <1>0
  <2> QED
    BY <1>6, <2>1
<1> QED
  BY <1>5, <1>9, <1>13, <1>14, <1>15, <1>16 DEF Summing, n

(* A different byte leads to a different sum (crc32).                      *)
LEMMA OneByteTells == ASSUME CrcInv PROVE OneByteShows
<1> SUFFICES ASSUME read < Len(buf), NEW byte \in Bytes, byte # buf[read + 1],
                    SumWith(byte) = SumWith(buf[read + 1])
             PROVE  FALSE
  BY DEF OneByteShows
<1> DEFINE n == Len(buf) - read
           next == buf[read + 1]
<1>0. /\ Len(buf) \in Nat /\ \A k \in 1 .. Len(buf) : buf[k] \in Bytes
      /\ read \in Nat /\ n \in Nat \ {0} /\ crc \subseteq AllOnes /\ n = Len(buf) - read
  BY DEF CrcInv
<1>1. next \in Bytes
  <2>1. read + 1 \in 1 .. Len(buf)
    BY <1>0
  <2> QED
    BY <1>0, <2>1
<1>2. PICK f : Summing(f, byte)
  BY SumWithSteps
<1>3. PICK g : Summing(g, next)
  <2> HIDE DEF next
  <2> QED
    BY <1>1, SumWithSteps
<1> HIDE DEF n
<1>4. /\ \A k \in 0 .. n : f[k] \subseteq AllOnes
      /\ f[1] = StepByte(crc, byte)
      /\ \A k \in 2 .. n : f[k] = StepByte(f[k - 1], buf[read + k])
      /\ SumWith(byte) = crc32(f[n])
  BY <1>2 DEF Summing, n
<1>5. /\ \A k \in 0 .. n : g[k] \subseteq AllOnes
      /\ g[1] = StepByte(crc, next)
      /\ \A k \in 2 .. n : g[k] = StepByte(g[k - 1], buf[read + k])
      /\ SumWith(next) = crc32(g[n])
  <2> HIDE DEF next
  <2> QED
    BY <1>3 DEF Summing, n
<1> DEFINE M == {m \in Nat : m + 1 <= n => f[m + 1] # g[m + 1]}
<1>6. 0 \in M
  <2>1. f[1] # g[1]
    <3> SUFFICES ASSUME StepByte(crc, byte) = StepByte(crc, next) PROVE FALSE
      BY <1>4, <1>5
    <3>1. Xor(crc, byte) = Xor(crc, next)
      <4> HIDE DEF next
      <4> QED
        BY <1>0, <1>1, StepByteInjective
    <3>2. Xor(byte, crc) = Xor(next, crc)
      BY <3>1, XorLaws
    <3>3. byte = next
      BY <3>2, XorLaws
    <3> QED
      BY <3>3
  <2>2. 0 + 1 = 1
    OBVIOUS
  <2> QED
    BY <2>1, <2>2
<1>7. ASSUME NEW m \in M PROVE m + 1 \in M
  <2>1. m \in Nat
    OBVIOUS
  <2> SUFFICES ASSUME (m + 1) + 1 <= n PROVE f[(m + 1) + 1] # g[(m + 1) + 1]
    BY <2>1
  <2>2. PICK k \in 2 .. n : k = (m + 1) + 1 /\ k - 1 = m + 1 /\ k - 1 \in 0 .. n
    BY <1>0, <2>1
  <2>3. f[k - 1] # g[k - 1]
    BY <1>0, <2>1, <2>2
  <2>4. buf[read + k] \in Bytes
    <3>1. read + k \in 1 .. Len(buf)
      BY <1>0, <2>2
    <3> QED
      BY <1>0, <3>1
  <2>5. f[k - 1] \subseteq AllOnes /\ g[k - 1] \subseteq AllOnes
    BY <1>4, <1>5, <2>2
  <2>6. f[k] # g[k]
    <3> SUFFICES ASSUME f[k] = g[k] PROVE FALSE
      OBVIOUS
    <3>1. StepByte(f[k - 1], buf[read + k]) = StepByte(g[k - 1], buf[read + k])
      BY <1>4, <1>5
    <3>2. Xor(f[k - 1], buf[read + k]) = Xor(g[k - 1], buf[read + k])
      BY <2>4, <2>5, <3>1, StepByteInjective
    <3>3. /\ Xor(Xor(f[k - 1], buf[read + k]), buf[read + k]) = f[k - 1]
          /\ Xor(Xor(g[k - 1], buf[read + k]), buf[read + k]) = g[k - 1]
      BY XorLaws
    <3> QED
      BY <2>3, <3>2, <3>3
  <2> QED
    BY <2>2, <2>6
<1>8. M = Nat
  <2>1. M \in SUBSET Nat
    OBVIOUS
  <2> HIDE DEF M
  <2> QED
    BY <1>6, <1>7, <2>1, SetInduction
<1>9. f[n] # g[n]
  <2>1. PICK m \in Nat : m + 1 = n
    <3>1. n - 1 \in Nat /\ (n - 1) + 1 = n
      BY <1>0
    <3> QED
      BY <3>1
  <2>2. m \in M
    BY <1>8
  <2>3. m + 1 <= n => f[m + 1] # g[m + 1]
    BY <2>2
  <2>4. n <= n
    BY <1>0
  <2> QED
    BY <2>1, <2>3, <2>4
<1>10. Xor(f[n], AllOnes) = Xor(g[n], AllOnes)
  BY <1>4, <1>5 DEF crc32
<1> QED
  BY <1>9, <1>10, XorLaws

(* crc32 starts from all ones.                                             *)
LEMMA CrcInitInv == CrcInit => CrcInv
<1> SUFFICES ASSUME CrcInit PROVE CrcInv
  OBVIOUS
<1>1. PICK len \in 0 .. MaxBuf : buf \in [1 .. len -> Bytes]
  BY DEF CrcInit
<1>2. len \in Nat
  BY CrcNumbers
<1>3. Len(buf) = len
  BY <1>1, <1>2
<1>4. read = 0 /\ crc = AllOnes
  BY DEF CrcInit
<1>5. SumIsRemainder
  <2>1. Width + 0 * ByteBits = Width /\ Width + 0 = Width
    BY CrcNumbers
  <2>2. Rev(AllOnes) = Remainder(Whole(0), Width + 0 * ByteBits)
    BY <2>1, WholeStarts
  <2> QED
    BY <1>4, <2>2 DEF SumIsRemainder, Whole, Rev
<1>6. \A k \in 1 .. Len(buf) : buf[k] \in Bytes
  BY <1>1, <1>3
<1> QED
  BY <1>2, <1>3, <1>4, <1>5, <1>6 DEF CrcInv

(* Each byte keeps the sum (update_crc).                                   *)
LEMMA CrcNextInv == CrcInv /\ [CrcNext]_crcVars => CrcInv'
<1> SUFFICES ASSUME CrcInv, [CrcNext]_crcVars PROVE CrcInv'
  OBVIOUS
<1>1. CASE CrcNext
  <2>1. read' = read + 1 /\ crc' = StepByte(crc, buf[read + 1]) /\ buf' = buf /\ read < Len(buf)
    BY <1>1 DEF CrcNext
  <2>2. /\ Len(buf) \in Nat /\ \A k \in 1 .. Len(buf) : buf[k] \in Bytes
        /\ read \in 0 .. Len(buf) /\ crc \subseteq AllOnes
    BY DEF CrcInv
  <2>3. read \in Nat /\ buf[read + 1] \in Bytes
    <3>1. read + 1 \in 1 .. Len(buf)
      BY <2>1, <2>2
    <3> QED
      BY <2>2, <3>1
  <2>4. PICK top \in Nat : top = Width + read * ByteBits /\ top >= Width
                           /\ top + ByteBits = Width + (read + 1) * ByteBits
    <3>1. PICK p \in Nat : p = read * ByteBits /\ (read + 1) * ByteBits = p + ByteBits
      BY <2>3, CrcNumbers
    <3> QED
      BY <3>1, CrcNumbers
  <2>5. Remainder(Whole(read), top) = Rev(crc)
    BY <2>4 DEF CrcInv, SumIsRemainder, Whole, Rev
  <2>6. /\ Whole(read) \subseteq Nat
        /\ Whole(read + 1) = Times(Xor(Whole(read), Rev(buf[read + 1])), ByteBits)
    BY <2>3, WholeGrows
  <2>7. /\ StepByte(crc, buf[read + 1]) \subseteq AllOnes
        /\ Remainder(Times(Xor(Whole(read), Rev(buf[read + 1])), ByteBits), top + ByteBits)
             = Rev(StepByte(crc, buf[read + 1]))
    <3>1. Leaves(Whole(read), top, crc)
      BY <2>2, <2>5, <2>6 DEF Leaves
    <3>2. Leaves(Times(Xor(Whole(read), Rev(buf[read + 1])), ByteBits), top + ByteBits,
                 StepByte(crc, buf[read + 1]))
      BY <2>3, <2>4, <3>1, StepByteDivides
    <3> QED
      BY <3>2 DEF Leaves
  <2>8. Rev(crc') = Remainder(Whole(read + 1), Width + (read + 1) * ByteBits)
    BY <2>1, <2>4, <2>6, <2>7
  <2>9. SumIsRemainder'
    <3>1. OnesOf(read)' = OnesOf(read + 1)
      BY <2>1 DEF OnesOf
    <3> QED
      BY <2>1, <2>8, <3>1 DEF SumIsRemainder, Whole, Rev
  <2>10. read' \in 0 .. Len(buf)
    BY <2>1, <2>2
  <2> QED
    BY <2>1, <2>2, <2>7, <2>9, <2>10 DEF CrcInv
<1>2. CASE UNCHANGED crcVars
  <2>1. buf' = buf /\ read' = read /\ crc' = crc
    BY <1>2 DEF crcVars
  <2>2. OnesOf(read)' = OnesOf(read)
    BY <2>1 DEF OnesOf
  <2>3. SumIsRemainder'
    BY <2>1, <2>2 DEF CrcInv, SumIsRemainder
  <2> QED
    BY <2>1, <2>3 DEF CrcInv
<1> QED
  BY <1>1, <1>2

(* HashCorrect in every state (crc32, update_crc; main --hash): the sum is *)
(* the remainder its name promises, for words, bytes and generators of any *)
(* width and for memories of any length, and a changed byte always shows.  *)
THEOREM HashAlwaysCorrect == CrcSpec => []HashCorrect
<1>1. CrcInv => HashCorrect
  BY OneByteTells DEF CrcInv, HashCorrect
<1> QED
  BY <1>1, CrcInitInv, CrcNextInv, PTL DEF CrcSpec
=============================================================================
