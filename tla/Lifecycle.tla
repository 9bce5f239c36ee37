----------------------------- MODULE Lifecycle -----------------------------
(***************************************************************************)
(* A run of the program from its start to its report: the loader, the      *)
(* calls the simulated program makes to the monitor (_monitorBody,         *)
(* profileMips.cc), its stores, the mispredictions counted at its          *)
(* branches, and mispredicts.txt, which dump_histo of main.cc writes.      *)
(***************************************************************************)
EXTENDS Loader

CONSTANTS
    Calls,          \* the monitor's calls a program makes
    MonTime,        \* reason 33, the time of day
    MonHost,        \* the other reasons _monitorBody knows
    ByteValues,     \* values of a byte, 256
    UsecLimit,      \* where the fake clock carries, 2^20
    MaxSteps        \* bound: steps of the simulated program

ASSUME UsecLimitAssumption == UsecLimit \in Nat \ {0}
ASSUME StepsAssumption == MaxSteps \in Nat
ASSUME CallsAssumption == \A r \in Calls : r \in Nat /\ 2 * r < NumVectors

VARIABLES
    steps,          \* counts against MaxSteps
    served,         \* the last monitor call: what was called, what ran
    myTimeVal,      \* the fake clock
    seen,           \* the time of day the program read last: history
    histo,          \* the predictor's mispredict_map
    known,          \* what the program last stored, or mispredicted, at an address: history
    pending, report         \* entries to print and printed
runVars == <<steps, served, myTimeVal, seen, histo, known>>
vars == <<phase, loadVars, runVars, pending, report>>

Fresh ==
    [served |-> [call |-> 0, reason |-> 0], time |-> [sec |-> 0, usec |-> 0],
     seen |-> <<-1, 0>>, histo |-> [a \in Addr |-> 0],
     known |-> [a \in Addr |-> [kind |-> "none", n |-> 0]], list |-> << >>]

Init ==
    /\ LoadInit
    /\ steps = 0
    /\ served = Fresh.served /\ myTimeVal = Fresh.time /\ seen = Fresh.seen
    /\ histo = Fresh.histo /\ known = Fresh.known /\ pending = Fresh.list /\ report = Fresh.list

Loading == LoadNext /\ UNCHANGED <<runVars, pending, report>>

(* The program is run again, with --dump or not.                           *)
Rerun ==
    /\ Restart
    /\ steps' = steps
    /\ served' = Fresh.served /\ myTimeVal' = Fresh.time /\ seen' = Fresh.seen
    /\ histo' = Fresh.histo /\ known' = Fresh.known /\ pending' = Fresh.list /\ report' = Fresh.list

-----------------------------------------------------------------------------
(* One instruction of the program.                                         *)
Step == phase = "run" /\ steps < MaxSteps /\ steps' = steps + 1

(* A store by the simulated program; the host traps it on a read-only page. *)
Store(a, n) ==
    /\ Step
    /\ IF a \in readonly
         THEN Go("crashed") /\ UNCHANGED <<mem, pc, known>>
         ELSE /\ mem' = [mem EXCEPT ![a] = [kind |-> "datum", n |-> n, le |-> isMipsEL]]
              /\ known' = [known EXCEPT ![a] = [kind |-> "datum", n |-> n]]
              /\ pc' = (pc + 1) % NCells
              /\ UNCHANGED phase
    /\ UNCHANGED <<elf, todo, isMipsEL, readonly, pgSize, disk, restored, served, myTimeVal,
                   seen, histo, pending, report>>

(* What the program reads where the host wrote a word unswapped.           *)
SeenByProgram(w) == IF isMipsEL THEN w ELSE (w % ByteValues) * ByteValues + (w \div ByteValues)

(* Variant for the mutants: the seconds do not advance.                    *)
TickWithoutCarry ==
    [sec |-> myTimeVal.sec, usec |-> IF myTimeVal.usec + 1 = UsecLimit THEN 0 ELSE myTimeVal.usec + 1]

Tick ==
    IF myTimeVal.usec + 1 = UsecLimit
      THEN [sec |-> myTimeVal.sec + 1, usec |-> 0]
      ELSE [myTimeVal EXCEPT !.usec = @ + 1]

(* gettimeofday, without --clock: the fake time goes to memory as it is.   *)
GetTimeOfDay ==
    /\ seen' = <<SeenByProgram(myTimeVal.sec), SeenByProgram(myTimeVal.usec)>>
    /\ myTimeVal' = Tick
    /\ UNCHANGED phase

(* The calls that pass on to the host: what they put into the registers    *)
(* and buffers of the program is left out.                                 *)
HostCall == UNCHANGED <<phase, seen, myTimeVal>>

(* Variant for the mutants: the reason is the index of the word.           *)
ReasonUnshifted(ins) == ins.n

ReasonOf(ins) == ins.n \div 2

(* The program calls the monitor's entry point of call r, two words each,  *)
(* and returns behind the call.                                            *)
MonitorCall(r) ==
    LET ins == Read(isMipsEL, mem[VectorBase + 2 * r]) IN
    /\ Step
    /\ ins.kind = "monitor"
    /\ served' = [call |-> r, reason |-> ReasonOf(ins)]
    /\ \/ ReasonOf(ins) = MonTime /\ GetTimeOfDay
       \/ ReasonOf(ins) \in MonHost /\ HostCall
       \/ ReasonOf(ins) \notin MonHost \cup {MonTime} /\ Go("exited") /\ UNCHANGED <<seen, myTimeVal>>
    /\ pc' = (pc + 1) % NCells
    /\ UNCHANGED <<elf, todo, isMipsEL, mem, readonly, pgSize, disk, restored, histo, known,
                   pending, report>>

(* There is no monitor instruction at the entry point.                     *)
MonitorMissing(r) ==
    /\ Step
    /\ Read(isMipsEL, mem[VectorBase + 2 * r]).kind # "monitor"
    /\ Go("astray")
    /\ UNCHANGED <<loadVars, served, myTimeVal, seen, histo, known, pending, report>>

Transfers == {"branch", "regimm", "return"}

(* A branch, or jr $31, is executed at a and found mispredicted.           *)
Mispredict(a) ==
    /\ Step
    /\ Read(isMipsEL, mem[a]).kind \in Transfers
    /\ histo' = [histo EXCEPT ![a] = @ + 1]
    /\ known' = [known EXCEPT ![a] = Read(isMipsEL, mem[a])]
    /\ UNCHANGED <<phase, loadVars, served, myTimeVal, seen, pending, report>>

-----------------------------------------------------------------------------
(* The mispredicted addresses with their counts.                           *)
Mispredicted == {[count |-> histo[a], addr |-> a] : a \in {b \in Addr : histo[b] > 0}}

(* S as a sequence: e is where as many come before it as its place says.   *)
Ranked(S, Before(_, _)) ==
    [k \in 1 .. Cardinality(S) |-> CHOOSE e \in S : Cardinality({f \in S : Before(f, e)}) = k - 1]

(* The order of pairs of a count and an address.                           *)
Greater(e, f) == e.count > f.count \/ (e.count = f.count /\ e.addr > f.addr)

(* The pairs, sorted, from the greatest down.                              *)
Entries == Ranked(Mispredicted, Greater)

Stop ==
    /\ phase = "run"
    /\ Go("report")
    /\ pending' = Entries
    /\ UNCHANGED <<loadVars, runVars, report>>

(* getAsmString gives up on a REGIMM branch it does not know, although     *)
(* execMips ran it; a garbled word may be anything.                        *)
MayGiveUp(ins) == ins.kind = "garbled" \/ (ins.kind = "regimm" /\ ins.n > 3)
MayDecode(ins) == ins.kind = "garbled" \/ ~MayGiveUp(ins)

(* Variant for the mutants: the word behind is decoded, the delay slot.    *)
ListedBehind(a) == Read(FALSE, mem[(a + 1) % NCells])

(* The word at an address, read in big-endian order.                       *)
Listed(a) == Read(FALSE, mem[a])

(* dump_histo, one entry.                                                  *)
PrintEntry ==
    /\ phase = "report" /\ pending # << >>
    /\ LET e == Head(pending)
           ins == Listed(e.addr)
       IN  \/ /\ MayDecode(ins)
              /\ report' = Append(report, [count |-> e.count, addr |-> e.addr, ins |-> ins])
              /\ pending' = Tail(pending)
              /\ UNCHANGED phase
           \/ /\ MayGiveUp(ins)
              /\ Go("exited")
              /\ UNCHANGED <<pending, report>>
    /\ UNCHANGED <<loadVars, runVars>>

CloseReport ==
    /\ phase = "report" /\ pending = << >>
    /\ Go("stopped")
    /\ UNCHANGED <<loadVars, runVars, pending, report>>

Next ==
    \/ Loading \/ Rerun
    \/ \E a \in Addr, n \in {1} : Store(a, n)
    \/ \E r \in Calls : MonitorCall(r) \/ MonitorMissing(r)
    \/ \E a \in Addr : Mispredict(a)
    \/ Stop \/ PrintEntry \/ CloseReport

Spec == Init /\ [][Next]_vars

-----------------------------------------------------------------------------
LcTypeOK ==
    /\ phase \in {"start", "segments", "sections", "run", "report", "stopped", "exited", "crashed", "astray"}
    /\ isMipsEL \in BOOLEAN /\ pc \in Addr
    /\ readonly \subseteq Addr
    /\ steps \in 0 .. MaxSteps
    /\ myTimeVal.usec \in 0 .. UsecLimit - 1
    /\ histo \in [Addr -> 0 .. MaxSteps]

(* The segment of elf that decides what lies at a: the last loadable one   *)
(* that covers it.                                                         *)
Covering(a) ==
    {k \in DOMAIN elf.segments : LET g == elf.segments[k] IN g.load /\ a \in g.vaddr .. g.vaddr + g.memsz - 1}
Image(a) ==
    IF Covering(a) = {} THEN Zero
    ELSE LET g == elf.segments[CHOOSE k \in Covering(a) : \A j \in Covering(a) : j <= k]
         IN  IF a < g.vaddr + g.filesz THEN elf.data[g.offset + a - g.vaddr] ELSE Zero

(* The state is well formed, and when load_elf (loadelf.cc:138-154) and    *)
(* mkMonitorVectors have run, every word is the vector, the file's word or *)
(* the zero that belongs there, whatever segments overlap and however they *)
(* are ordered.                                                            *)
LoadedImage ==
    /\ LcTypeOK
    /\ phase = "run" /\ steps = 0 /\ ~restored =>
          \A a \in Addr :
              IF a \in Vectors THEN Read(isMipsEL, mem[a]) = [kind |-> "monitor", n |-> a - VectorBase]
                               ELSE mem[a] = Image(a)

(* The pages made read-only hold code and nothing else (loadelf.cc         *)
(* 159-175): no store to data beside the code of a program can trap.       *)
ProtectsOnlyCode ==
    \A a \in readonly : \E k \in DOMAIN elf.sections :
        LET h == elf.sections[k] IN h.exec /\ a \in h.addr .. h.addr + h.size - 1

(* A call of the monitor's r-th entry point is served as r (mkMonitor-     *)
(* Vectors, profileMips.cc:145-156, and _monitorBody, 680-681), in both    *)
(* byte orders and after any load but that of a little-endian dump, whose  *)
(* byte order loadState does not restore.  A program that overwrites the   *)
(* vectors is on its own.                                                  *)
Untouched == \A a \in Vectors : mem[a].kind # "datum"
MonitorReached ==
    /\ served.call = served.reason
    /\ (phase = "astray" /\ Untouched) => (restored /\ elf.le)

(* A run restored from a dump continues with the memory and the pc that    *)
(* the dumping run had (saveState.cc: only non-zero pages are written, and *)
(* each goes back to its own address in a fresh memory).                   *)
DumpRestores ==
    [][phase = "start" /\ phase' = "run" => mem' = disk.was.mem /\ pc' = disk.was.pc]_vars

(* The fake clock never runs backwards for a little-endian program (the    *)
(* words are not swapped for the others: profileMips.cc:751-758).          *)
FakeClockMonotonic ==
    [][steps' # steps /\ seen' # seen /\ isMipsEL =>
         \/ seen'[1] > seen[1]
         \/ seen'[1] = seen[1] /\ seen'[2] > seen[2]]_vars

(* The report of a big-endian program lists every mispredicted address     *)
(* once, the most frequent first, as the instruction that was executed     *)
(* there, or as what the program has stored over it since (dump_histo,     *)
(* main.cc:41-65).  The program ends before it is finished only at a       *)
(* linking branch (REGIMM, rt > 3); the lines printed by then are those of *)
(* the most frequent.                                                      *)
Reporting == phase \in {"report", "stopped"} \/ (phase = "exited" /\ pending # << >>)
ReportComplete ==
    LET Pairs(list) == {[addr |-> e.addr, count |-> e.count] : e \in {list[k] : k \in DOMAIN list}}
        Falls(e, f) == e.count >= f.count /\ e.addr # f.addr
    IN  Reporting /\ ~isMipsEL =>
          /\ Pairs(report) \cup Pairs(pending) = {[addr |-> a, count |-> histo[a]] : a \in {b \in Addr : histo[b] > 0}}
          /\ \A j, k \in DOMAIN report : j < k => Falls(report[j], report[k])
          /\ \A j \in DOMAIN report, k \in DOMAIN pending : Falls(report[j], pending[k])
          /\ \A k \in DOMAIN report : report[k].ins = known[report[k].addr]
          /\ phase = "stopped" => pending = << >>
          /\ phase = "exited" => LET ins == known[Head(pending).addr] IN ins.kind = "regimm" /\ ins.n > 3
=============================================================================
