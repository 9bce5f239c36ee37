-------------------------------- MODULE Main --------------------------------
(***************************************************************************)
(* main() (main.cc:100-287): what it creates, in which order it uses and   *)
(* frees it, the ways out, and the cache that its options make             *)
(* (simCache::simCache, simCache.cc:41-73).  The program's run and the     *)
(* listing of mispredicts.txt are one step each; Interp and Lifecycle      *)
(* model them.  An int32_t has half the bits of a size_t.                  *)
(***************************************************************************)
EXTENDS MachineWords, Sequences

CONSTANTS
    OptionSets,     \* what the command line may say: records
    TageHistory     \* table_lengths[0] of tage, 256

ASSUME WordAssumption == WordBits \in Nat /\ \E k \in 1 .. WordBits : WordBits = 2^k

ASSUME OptionsAssumption ==
    \A o \in OptionSets :
       /\ {o.bad, o.help, o.file} \subseteq BOOLEAN
       /\ {o.assoc, o.sets, o.line_len} \subseteq -2^(WordBits \div 2 - 1) .. 2^(WordBits \div 2 - 1) - 1
       /\ {o.lg_pht_sz, o.lg_c_pht_sz, o.bhr_len} \subseteq Nat

VARIABLES
    opts,
    masks,          \* whether the build's shift by too many bits masks its count
    writable,       \* whether the host lets mispredicts.txt be opened
    stmt,           \* how far main is, in Order
    live,           \* what exists
    bhr_len,
    L1D,
    listing,        \* mispredicts.txt: "none", "cut", "complete"
    outcome         \* "running", what main or exit() returned, or "abort"

mainVars == <<opts, masks, writable, stmt, live, bhr_len, L1D, listing, outcome>>

(* Variant for the mutants: the memory is unmapped before the listing.     *)
OrderUnmapsEarly ==
    <<"options", "rsb", "file", "sysArgv", "state", "bpred", "bhr", "mem", "load", "L1D",
      "run", "hash", "counters", "~mem", "histo", "~sysArgv", "~state", "~bhr", "~bpred", "~rsb",
      "~L1D">>

(* The statements of main.                                                 *)
Order ==
    <<"options", "rsb", "file", "sysArgv", "state", "bpred", "bhr", "mem", "load", "L1D",
      "run", "hash", "counters", "histo", "~mem", "~sysArgv", "~state", "~bhr", "~bpred", "~rsb",
      "~L1D">>

(* What main makes, and the statement that frees it.                       *)
FreedBy ==
    [rsb |-> "~rsb", sysArgv |-> "~sysArgv", state |-> "~state", bpred |-> "~bpred",
     bhr |-> "~bhr", mem |-> "~mem", L1D |-> "~L1D"]

Created == DOMAIN FreedBy

(* What a statement dereferences: a predictor keeps a reference to         *)
(* state->icnt, which the counters' operator<< reads.                      *)
Needs(step) ==
    CASE step = "bpred" -> {"state"}
      [] step = "bhr" -> {"bpred"}
      [] step = "mem" -> {"state"}
      [] step \in {"load", "hash"} -> {"state", "mem"}
      [] step = "run" -> Created
      [] step = "counters" -> {"state", "bpred"}
      [] step = "histo" -> {"state", "mem", "bpred"}
      [] \E x \in Created : step = FreedBy[x] -> {x \in Created : step = FreedBy[x]}
      [] OTHER -> {}

NoCache == [class |-> "none", line |-> 0, sets |-> 0, ways |-> 0]

MainInit ==
    /\ opts \in OptionSets /\ masks \in BOOLEAN /\ writable \in BOOLEAN
    /\ stmt = 1 /\ live = {} /\ bhr_len = 0 /\ L1D = NoCache
    /\ listing = "none" /\ outcome = "running"

At(step) == outcome = "running" /\ stmt \in DOMAIN Order /\ Order[stmt] = step
Advance == stmt' = stmt + 1 /\ outcome' = outcome
End(s) == outcome' = s /\ stmt' = stmt
Fixed == UNCHANGED <<opts, masks, writable>>
Unmade == UNCHANGED <<live, bhr_len, L1D, listing>>

-----------------------------------------------------------------------------
Options ==
    /\ At("options") /\ Fixed /\ Unmade
    /\ \/ opts.bad /\ End("-1")
       \/ ~opts.bad /\ opts.help /\ End("0")
       \/ ~opts.bad /\ ~opts.help /\ Advance

File ==
    /\ At("file") /\ Fixed /\ Unmade
    /\ IF opts.file THEN Advance ELSE End("-1")

(* What cannot fail, or is not checked.                                    *)
Make ==
    \E x \in {"rsb", "sysArgv", "state", "bpred"} :
       /\ At(x) /\ Fixed /\ Advance
       /\ live' = live \cup {x}
       /\ UNCHANGED <<bhr_len, L1D, listing>>

(* mmap and madvise are asserted to succeed, and a map at 0 ends the run.  *)
MapMemory ==
    /\ At("mem") /\ Fixed
    /\ \/ Advance /\ live' = live \cup {"mem"}
       \/ (End("abort") \/ End("-1")) /\ live' = live
    /\ UNCHANGED <<bhr_len, L1D, listing>>

(* lookup_impl, and the default of main's switch.                          *)
BpredImpl ==
    IF opts.bpred_impl \in {"bimodal", "gtagged", "uberhistory", "tage"} THEN opts.bpred_impl ELSE "gshare"

needed_history_length == IF BpredImpl = "tage" THEN TageHistory ELSE 0

MakeHistory ==
    /\ At("bhr") /\ Fixed /\ Advance
    /\ bhr_len' = IF needed_history_length # 0 THEN needed_history_length ELSE opts.bhr_len
    /\ live' = live \cup {"bhr"}
    /\ UNCHANGED <<L1D, listing>>

(* load_elf or loadState, which may refuse the file or fail an assertion.  *)
Load ==
    /\ At("load") /\ Fixed /\ Unmade
    /\ Advance \/ End("-1") \/ End("abort")

-----------------------------------------------------------------------------
(* Conversions and shifts of the cache's parameters.                       *)
SizeT(n) == n % 2^WordBits
SizeBits(n) == {b \in Mask(WordBits) : (n \div 2^b) % 2 = 1}
IsPow2(x) == SizeBits(SizeT(x - 1)) \cap SizeBits(x) = {}

(* while((1 << n) < x) n++                                                 *)
Ln2(x) == Min({n \in 0 .. WordBits : x <= 2^n})

NewCache ==
    LET line == SizeT(opts.line_len)  sets == SizeT(opts.sets)  assoc == SizeT(opts.assoc) IN
    IF opts.assoc <= 0 THEN [class |-> "simCache", line |-> line, sets |-> sets, ways |-> 1]
    ELSE IF opts.assoc = 1 THEN [class |-> "direct", line |-> line, sets |-> sets, ways |-> 1]
    ELSE IF opts.sets = 1 THEN [class |-> "full", line |-> line, sets |-> 1, ways |-> assoc]
    ELSE [class |-> "set", line |-> line, sets |-> sets, ways |-> assoc]

Accepts(c) == IsPow2(c.line) /\ IsPow2(c.sets) /\ IsPow2(c.ways)

MakeCache ==
    /\ At("L1D") /\ Fixed
    /\ UNCHANGED <<bhr_len, listing>>
    /\ IF Accepts(NewCache)
         THEN Advance /\ L1D' = NewCache /\ live' = live \cup {"L1D"}
         ELSE End("-1") /\ UNCHANGED <<L1D, live>>

(* index(addr, l, t).  A shift by the width or more has no defined value:  *)
(* the host's instruction masks the count, a compiler may know better.     *)
OffsetBits(c) == Ln2(c.line) + Ln2(c.sets)
ShiftedAddr(a, n) ==
    CASE n < WordBits \div 2 -> a \div 2^n
      [] n >= WordBits \div 2 /\ masks -> a \div 2^(n % (WordBits \div 2))
      [] OTHER -> 0

(* Variant for the mutants: the tag starts a bit too high.                 *)
TagOfTooHigh(c, a) == ShiftedAddr(a, OffsetBits(c) + 1)

SetOf(c, a) == Number(Bits(ShiftedAddr(a, Ln2(c.line))) \cap SizeBits(SizeT(c.sets - 1)))
TagOf(c, a) == ShiftedAddr(a, OffsetBits(c))

-----------------------------------------------------------------------------
(* Budget or break ends the loop; an instruction or a call nobody knows,   *)
(* a failed assertion or a signal ends the process.                        *)
Run ==
    /\ At("run") /\ Fixed /\ Unmade
    /\ Advance \/ End("-1") \/ End("abort")

PrintCounters ==
    /\ At("hash") \/ At("counters")
    /\ Advance /\ Fixed /\ Unmade

(* dump_histo; getAsmString exits at a branch it does not know.  A file    *)
(* that does not open swallows what is written to it, and nobody asks.     *)
DumpHisto ==
    /\ At("histo") /\ Fixed
    /\ \/ Advance /\ listing' = IF writable THEN "complete" ELSE listing
       \/ End("-1") /\ listing' = IF writable THEN "cut" ELSE listing
    /\ UNCHANGED <<live, bhr_len, L1D>>

(* count_valid() of a table dies unless its bits fill their words.         *)
CountsValid(lg) == 2^lg % WordBits = 0

Free ==
    \E x \in Created :
       /\ At(FreedBy[x]) /\ Fixed
       /\ IF x = "bpred" /\ BpredImpl = "bimodal"
                /\ ~(CountsValid(opts.lg_c_pht_sz) /\ CountsValid(opts.lg_pht_sz))
            THEN End("abort") /\ live' = live
            ELSE Advance /\ live' = live \ {x}
       /\ UNCHANGED <<bhr_len, L1D, listing>>

Return ==
    /\ outcome = "running" /\ stmt = Len(Order) + 1
    /\ End("0") /\ Fixed /\ Unmade

MainNext ==
    \/ Options \/ File \/ Make \/ MapMemory \/ MakeHistory \/ Load \/ MakeCache
    \/ Run \/ PrintCounters \/ DumpHisto \/ Free \/ Return

MainSpec == MainInit /\ [][MainNext]_mainVars

-----------------------------------------------------------------------------
(* No statement uses what is not created yet or freed already: creation    *)
(* order, the listing's use of memory and predictor, and the teardown      *)
(* (main.cc:145-284).                                                      *)
NothingDangles == outcome = "running" /\ stmt \in DOMAIN Order => Needs(Order[stmt]) \subseteq live

Passed(step) == \E k \in 1 .. stmt - 1 : Order[k] = step

Written(much) == listing = IF writable THEN much ELSE "none"

(* No statement uses what does not exist.  A run that left the loop loses  *)
(* its report only in the listing itself: nothing before can fail,         *)
(* bimodal's destructor aborts with small tables, but only after it was    *)
(* written, and 0 is returned only with the report complete and everything *)
(* freed (or after --help).  A file that cannot be opened stays empty and  *)
(* changes nothing else (main.cc:55-65, 270).                              *)
ReportBeforeEnd ==
    /\ NothingDangles
    /\ Passed("histo") => Written("complete")
    /\ Passed("run") /\ outcome = "-1" => Written("cut")
    /\ Passed("run") /\ outcome = "abort" =>
          /\ Written("complete") /\ BpredImpl = "bimodal"
          /\ opts.lg_c_pht_sz < Ln2(WordBits) \/ opts.lg_pht_sz < Ln2(WordBits)
    /\ outcome = "0" /\ ~opts.help => Written("complete") /\ live = {}

Addresses == 0 .. 2^(WordBits \div 2) - 1
LineOf(a) == a \div (IF L1D.line = 0 THEN 1 ELSE L1D.line)
Counts == L1D.class \in {"direct", "full", "set"}

(* Set and tag tell lines apart, and nothing else (index): for every shape *)
(* main accepts, but where sets and line take all the address's bits and   *)
(* the host's shift makes the tag the address.                             *)
LinesKept ==
    Counts /\ (OffsetBits(L1D) < WordBits \div 2 \/ ~masks) =>
        \A a, b \in Addresses :
           LineOf(a) = LineOf(b) <=> SetOf(L1D, a) = SetOf(L1D, b) /\ TagOf(L1D, a) = TagOf(L1D, b)

(* The cache has the sets and ways that were asked for, whichever class    *)
(* main picks, and no address names a set it does not have, unless it has  *)
(* none at all: --sets 0 is accepted, and every set of it is out of range. *)
ShapeAsAsked ==
    Counts =>
        /\ L1D.sets = opts.sets /\ L1D.ways = opts.assoc
        /\ opts.sets # 0 <=> \A a \in Addresses : SetOf(L1D, a) < L1D.sets

(* The cache that is made is the one asked for, and finds by set and tag   *)
(* the lines it was asked for (main.cc:224-235, simCache::index).          *)
CacheAsAsked == ShapeAsAsked /\ LinesKept
=============================================================================
