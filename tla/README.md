# A verification project for the MIPS interpreter and its branch predictors

The program is an interpreter for MIPS binaries that feeds its branches to a
branch predictor and its loads and stores to a simulated data cache, and
reports how often each was right. It is one thread; everything hard about it is
in the order of state changes inside one instruction and over long sequences of
instructions. Paths below are under `src/`.

## The system

| Component | State | Operations | Hard behaviour | What makes it correct |
| --- | --- | --- | --- | --- |
| Run loop and control (`main.cc` 237-247, `execMips`, `branch` in `profileMips.cc`) | `pc`, `gpr[31]`, `brk`, `icnt`, `last_pc`; the C++ stack of pending `execMips` calls | fetch, branches (plain and likely), `j jal jr jalr`, `break`, `syscall`, monitor calls | a delay slot is a recursive call made before the target is written; the loop tests budget and break between outermost calls only | the instructions executed are those of a delayed-branch machine; the loop ends; budget and break are respected but for the calls pending |
| Return-address predictor (`globals.hh` 17-19) | `rsb`, `rsb_tos`, counters of `jr $31` | push (`jal`, `jalr`), pop (`jr $31`) | wraps on overflow and underflow; popped before the delay slot | holds the newest calls in progress; a return to one of them is predicted |
| Bit vectors, the branch history among them (`sim_bitvec.hh`) | words of 64 bits | `shift_left`, `set_bit`, `xor_fold`, `to_integer`, `as_string`; `popcount` | in-place carry between words; lengths that are or are not whole words; bits left past the end | is a bit string; a hash depends on the outcomes it should |
| Counter arrays (`counter2b.hh`) | packed two-bit counters, valid bits | `get_value`, `update`, `count_valid` | packing, saturation | an update changes one counter by one step |
| gshare, gtagged, uberhistory, bimodal (`branch_predictor.cc`) | counters by index or in a map; `sidx` | `predict`, `update` | history moves between the two | implement tables of counters indexed by address and history |
| tage | three tagged tables, untagged counters, `hashes`, `pred`, `pred_valid` | `predict`, `update` with allocation, aging, reset | hashes kept from predict; provider and allocation; lengths 256, 32, 0 | implements a tagged predictor; the useful counters do nothing |
| Data cache (`simCache.cc`, `simCache.hh`) | tags and valid bits, or a list per set; counts | `access` by every load and store, `flush` by every monitor call | LRU order; eviction; flush; masks and shifts from the options | LRU of its shape; a flushed cache works; set and tag tell lines apart |
| `mylist.hh` | doubly linked list over a pool | `push_front`, `pop_back`, `find`, `move_to_head`, `clear` | one, first, last entries; reused cells | head, tail, links and count agree; no cell is lost |
| ALU and floating point (`execMips`, `execSpecial2/3`, `execCoproc1`) | `gpr`, `hi`, `lo`, `cpr0`, `cpr1`, condition codes | one case per opcode | signs, widths, the accumulator, undefined shifts | the sequences compilers emit compute what they are for |
| Loads and stores (`profileMips.cc` 438-676, 819-867) | `mem`, `gpr`, `cpr1` | one handler per opcode | byte order, unaligned halves, doubles over two registers | the architecture's loads and stores, each announced to the cache |
| ELF loader and monitor vectors (`loadelf.cc`, `mkMonitorVectors`) | `mem`, `pc`, `isMipsEL`, page protection | once at start | overlapping segments, host page size, byte order | the image is the file's; only code is read-only |
| Saved state (`saveState.cc`) | a file of non-zero pages | `dumpState` (called by nobody), `loadState` | pages placed by address; the byte order is not saved | a restored run continues the dumped one |
| Monitor calls (`_monitorBody`) | registers, memory, host files, a fake clock | one case per reason | two tables of open flags; descriptors shared with the simulator; byte order and width of what is written; the clock's carry | a program gets the file service its own library names; it reads the host's values; the clock does not run backwards |
| Report (`dump_histo`, `parseMips.cc`) | `mispredicts.txt` | once at the end | order of entries; a second decoder that must agree with the first; instructions it gives up on | every mispredicted instruction, once, most frequent first, listed as it was executed |
| `main` (`main.cc`) | the objects of the run | once | creation and teardown by hand; ways out; the shape of the cache from signed options | nothing is used before it exists or after it is freed; the report is written before anything can abort |
| Helpers (`helper.cc`, `helper.hh`) | none | `crc32`, `bswap`, `isPow2`, `ln2`, `remapIOFlags` | widths and bit orders | each is modelled where it is used, the checksum for itself |

How they interact: the run loop calls `execMips`, which calls itself for delay
slots. `branch` calls `predict`, evaluates the condition, shifts the global
history, then calls `update`; jumps shift a 1 into the same history. `jal`/`jalr`
and `jr $31` use the return stack, and a mispredicted return is entered into the
map of the predictor object. Loads and stores call the cache, monitor calls flush
it. At the end `main` prints the counters and dumps the map.

## Modules

| Module | Models | Notes |
| --- | --- | --- |
| `ReturnStack` | `rsb`, `rsb_tos`: `RsbPush`, `RsbPop`, `RsbTop` | `calls` is a history variable: the calls in progress a buffer of that size can know |
| `Interp` | run loop, `execMips`, `branch`, with `ReturnStack` composed in | one step is one `execMips` body up to its recursive call (`Fetch` and an instruction), the rest of a pending call (`Resume`), or the exit of the loop (`Stop`); `frames` is the C++ stack |
| `DelaySlot` | abstract: pc and next pc | what MIPS programs see |
| `InterpDelaySlot` | refinement mapping from `Interp` to `DelaySlot` | |
| `SimBitvec` | `sim_bitvec_template`; `shift_left` one loop iteration per step | `bits` is a history variable, the string it stands for |
| `TwobitCounterArray` | `twobit_counter_array` as operators on a record | used by the predictors |
| `MachineWords` | masks, shifts and exclusive or on words as sets of bits | |
| `Predictors` | four predictor classes; `Predict`, `Resolve`, `Update` are the three moments of `branch` | `impl` is the class `main` created |
| `PredictorSpec` | abstract: one step per branch on counters named by address and outcomes | no packing, folding, hashing or string keys |
| `Tage`, `TageSpec` | the same for tage | the abstract one has no useful counters |
| `MyList` | the methods of `mylist` that the caches call, and its pool, as operators on a record | the pool is boost's, modelled from how the list uses it: cells in address order, the free list threaded through the first word of each cell, which is `next` |
| `SimCache` | three cache classes on it; `DirectAccess`, `ListAccess`, `DirectFlush`, `ListFlush`, `ListHangs` | `fault` and `status` say that a loop does not end or null is followed |
| `LruCache` | abstract: the newest tags of each set | |
| `Simulator` | `Interp` with `Predictors` and the direct-mapped `SimCache`: `branch` in the three steps predict, resolve and train; loads; monitor calls that flush | the history is kept twice, as `Interp`'s outcomes and as the predictors' words |
| `Main` | `main` as a list of statements with a program counter, and what each needs, makes and frees; the constructor and `index` of the cache | the run and the listing are one statement each; the host may refuse the memory, or the file of the listing (`writable`); an `int32_t` is half a `size_t` |
| `Decoder` | the switches of `execMips` and the tables of `getAsmString`, each giving a name and operands; `isBranchOrJump` | one instruction a behaviour: fetched, run, listed |
| `HostCalls` | one action per reason of `_monitorBody` | a byte the host gives is the pair of its value and its lane, so that a wrong byte order or width shows; `asked`, the arguments of a call on a file, is history |
| `HostFiles` | the host's open, read, write, lseek, close, chdir | external |
| `FileService` | abstract: calls with the flags of the program's library, streams that are never lost | `call` and `asked` label each step with what the program asked: a name and flags, a descriptor, a count, an offset |
| `Crc` | `update_crc`, a byte a step, and `crc32` | the portable loop, in whose place amd64 builds use an instruction; words are sets of bits |
| `ByteWords`, `Memory` | every load and store; a register is four lanes of bytes | `l1d` is the accesses the last handler announced to the cache; `last`, the handler with its address and register, is history |
| `ArchMemory` | abstract: which byte of memory is which lane of the register, instruction by instruction | `instr` labels each step with instruction, address and register, and the refinement takes them from the handler, so no step passes as that of another instruction; two promises are left open, where the code does not keep them: the sign of an unsigned load, and the bits of memory that an aligned `swl` may leave |
| `Datapath` | every opcode that computes on registers, one disjunct each | what the host's floating point returns is a constant operator |
| `CompilerIdioms` | straight-line programs of `Datapath` and what each must have computed | not code of the repository: the programs are the test bench |
| `Loader` | `load_elf`, `mkMonitorVectors`, `dumpState`, `loadState` | a cell is a word with the byte order it lies in |
| `Lifecycle` | `Loader` with monitor calls, stores, mispredictions, and the report | a run may be dumped, ended and started again, with `--dump` or without; `known` is history: the instruction last mispredicted at an address, or what was stored there since |
| `*Proofs` | theorems, see Proofs | |
| `MC*` | instances for TLC | `MCContainers`, `MCPredictors` and `MCMain` hold parts that share no state; a behaviour runs one of them |

What is abstracted: addresses count words in `Interp` and instructions in the
predictors; which instruction stands at an address, whether a branch is taken,
where a jump goes and what `$31` holds are free, so one run covers every program
of that size. In `Interp` the prediction is free too, which covers every
predictor. In `Predictors` and `Tage` the words have 8 or 4 bits instead of 64
and addresses half of that, so that a history of more than one word, the fold of
a word and both kinds of aliasing happen within the bounds. Cache addresses count
lines. `Datapath` has words of four bits, so bytes of one and half-words of two.
`Memory` has bytes of two bits, of which one is the sign: it moves bytes and
looks inside them only for the sign. In `Lifecycle` an address names a word, and
what the simulated program does between monitor calls is a store anywhere, or a
misprediction of any branch in memory. `HostCalls` leaves out the text of paths
(a directory and a name are model values) and the values of the host's
structures, which are names whose bytes can be followed. `Decoder` leaves out
spelling and punctuation; its numbers have their real width. `Main` counts in
words of eight bits and `int32_t`s of four, so that an `int32_t` that becomes a
`size_t` keeps its sign in the model too.

Names ending a definition such as `FetchPastBudget` or `RsbPushMovesFirst`, each
marked "Variant for the mutants", are faulty forms of the definition after them.
Substituting one must make the named property fail; no specification uses them.

## Runs

| Run | Bounds | What it shows |
| --- | --- | --- |
| `simulator` | 2 words of code, 3 instructions, chains of 2 transfers, return stack of 1, gshare and bimodal, 2 lines of one set, 3 accesses | `BudgetInv`: the budget is exceeded by the pending slots at most; `BreakUnwinds`; `Termination`; `HistoriesAgree`; `ReportAddsUp`: what is printed at the end fits together; `HitsAreFresh`; `PredictorInContext`: the predictors implement `PredictorSpec` when the interpreter drives them |
| `delay_slots` | 3 words, 6 instructions, no transfer in a slot, return stack of 2 | `ImplementsDelaySlot`; `RsbHoldsCalls`, `MatchedReturnPredicted` |
| `containers` | a vector of 7 bits in words of 3; 2 sets of 4 ways, 6 lines, 6 accesses, 1 write among them | `LoopInv`, `Represents`, `FoldSpan`; `ListsIntact`, `ImplementsLru` |
| `predictors` | tage: words of 4 bits, lengths 8, 2, 0, 5 branches, 1 jump; the others: words of 8 bits, history of 3, 4 branches, 2 jumps | `TageTypeOK`, `NothingUseful`, `AllocatesNext`, `ImplementsTage`; `ImplementsPredictor` |
| `memory` | 2 words of memory, 2 registers of each kind, 2 handlers | `ImplementsArchMemory`: each handler is its own instruction at its own address; `UnalignedPairs`; `CacheSeesAccesses`: exactly one access each, of the bytes named |
| `datapath` | words of 4 bits, all pairs of operands, every program of `CompilerIdioms` | `IntegerIdioms`, `ProductIdioms`, `FpIdioms` |
| `lifecycle` | 14 words, pages of 2, hosts with pages of 2 or 4, 8 files, 3 steps | `LoadedImage`, `ProtectsOnlyCode`, `MonitorReached`, `DumpRestores`, `FakeClockMonotonic`; `ReportComplete`: the lines printed and those to come are all entries, in order, each with the instruction of its own address |
| `host_calls` | 4 calls; one name in 2 directories, 2 descriptors above the streams, files of 2 bytes, 14 words of flags, 2 words of `--args` copied | `ImplementsService`: each call does what the program asked of its own descriptor, name and flags; `ResultsReadable`: structures and arguments arrive |
| `main` | every shape of -1 to 4 ways, -8 to 4 sets and bytes of a line; every predictor with tables below, at and above a word; every opcode and function, the formats that are told apart, 6 choices of the other fields, the last words of a region and of memory; sums of 4 bits, bytes of 2, every buffer of up to 4 | `ReportBeforeEnd`, `CacheAsAsked`; `ListedAsRun`: the report lists what was executed; `HashCorrect` |
| `cache_flush` | 2 ways | violated: miss, flush, miss, flush, and the second flush never returns |
| `unsigned_load` | as `memory` | violated: `lbu` extends a sign |
| `report_order` | the instructions of `main`, little-endian | violated: the report decodes the bytes of a little-endian program in the wrong order |

Why the bounds suffice. The interpreter's control repeats after one transfer and
its slot. In `simulator` three instructions are a branch with a branch in its
slot and the slot of that, or a load, a monitor call and the load again; two
lines of one set can evict each other, and a return stack of one overflows at the
second call. Six instructions of `delay_slots` are three transfers with their
slots, so two calls and a return, or an overflow of the stack of two and a
return. The bit vector has no bound on the sequence of calls; three words have a
first, a last and one between. Six accesses fill a set of four, evict and hit
again at the head, in the middle and at the tail; writes differ from reads only
in the counter they increment, so one is enough. Four branches take a counter
from its first value to both ends and let the history reach every index; five let
tage allocate in each table. Two handlers are an unaligned pair, or a store and
the load that reads it, at every alignment. A sequence of instructions meets
every combination of signs, carries and shift amounts at four bits; nothing in
the handlers depends on the width but the ratio of word, half and byte. Three
steps of `lifecycle` are a clock that carries, a store that breaks a vector
before a call, or two mispredictions of one branch and one of another; the files
have overlapping, unordered, empty and unloaded segments, code that ends inside
a page, and a segment under the monitor vectors. Four monitor calls open two
files, or open, write, seek and read one; two directories are enough for `chdir`
to matter. Each flag is passed alone and in the combinations programs use, on a
file that exists and on one that does not, so that two entries of the tables
exchanged show. The decoders branch on opcode, function, format and a few values of
the registers, all of which are among the fields. Eight bits hold every size of
table and cache for which `main` branches. A buffer of four bytes is twice the
width of the sum. Every bound is a constant with "bound" in its comment; each
sits in the guard of an action.

Deadlock is not checked: every model stops at its bounds or at the end of the
program, as the program does. That the interpreter does not stop before is
`Termination`, and that a list does not loop is `AccessReturns`.

Fairness. Only `simulator` assumes any: weak fairness of the whole next-state
relation. The interpreter is a single thread that never blocks in what is
modelled, so it takes its next step whenever it has one. Host calls that wait
for input are outside the model.

## Findings

* `cache_flush`: `pop_back` leaves `head` on a freed entry. After a flush and one
  miss the list has an entry that is its own successor and no tail; the next
  flush cannot empty it. Monitor calls flush, so a program that makes two of
  them hangs with `--assoc` of 2 or more. The `containers` run therefore leaves
  `ListFlush` out: its claims are about what happens between flushes and about
  the direct-mapped class.
* `unsigned_load`: `lbu` and `lhu` load a signed type, and converting it to
  `uint32_t zExt` extends the sign (`profileMips.cc:484, 497`). `ArchMemory`
  leaves the upper lanes of such a load open, so that the rest is still checked.
* `report_order`: `getAsmString` says of its argument "We assume inst is little
  endian" (`parseMips.cc:442`), but `dump_histo` swaps the word of memory whatever
  the program's byte order is. For a little-endian program the report lists other
  instructions than those executed; `ReportComplete` and `ListedAsRun` are about
  big-endian programs.

Smaller divergences from what the repository says of itself, met while modelling
and left to the reader: `--bhr_len` is the "branch history length"
(`main.cc:129`) and `shift_left` claims to "shift off top bits", but bits past the
length stay in the last word, and the indices of gshare, gtagged and bimodal use
the whole first word, so that a length below 64 makes no difference to them (the
models keep those bits: `Represents`, `ImplementsPredictor`); "all cache
parameters must be a power of 2" (`simCache.cc:51`), but `isPow2` holds of 0, and
with `--sets 0` every access is outside the arrays (`CacheAsAsked` excepts it);
`get_mem_info` stores `K1SIZE`, 2048 MBytes, under the comment "256 MBytes of
DRAM" (`profileMips.cc:802`). `--maxicnt` is "max instructions to execute"
(`main.cc:128`); `BudgetInv` says by how much a chain of delay slots exceeds it,
and that nothing else does.

No document says otherwise, but the runs show it, or a property has it as the
condition under which it holds:

* Predictors. Tage's useful counters never leave 0 (`NothingUseful`); a table
  that asks for whole words of history gets one word less (`FoldSpan`); its third
  table, whose length is 0 because `table_lengths` names two, is indexed like the
  first. Bimodal with tables below 64 counters aborts in its destructor, after
  the report is written (`ReportBeforeEnd`). `--bhr_len 0` makes a history without
  words, which the first taken transfer writes to.
* Instructions. `swr` followed by the `swl` of an aligned word may keep bits of
  memory, because its mask is a shift by 32 (`UnalignedPairs` asks for the other
  order there). `madd`, `maddu` and `msub` lose `hi` when `lo` is negative
  (`ProductIdioms`).
* The report stops at a linking REGIMM branch (`ReportComplete`, `ListedAsRun`).
  `addiu` and `sltiu` are listed with unsigned immediates, `c.un` is computed and
  listed as `c.eq`, `clz` is listed with another source (`ListedAsRun`).
* Byte order. A dump of a little-endian program comes back big-endian and finds no
  monitor (`MonitorReached`); the fake clock is not swapped for a big-endian
  program (`FakeClockMonotonic`); the device number `fstat` gives a big-endian
  program is swapped with 32 bits and cut to 16 afterwards (`ResultsReadable`).
* A `mispredicts.txt` that cannot be opened is noticed by nobody: `main` returns 0
  with nothing written (`ReportBeforeEnd`).
* Monitor calls. When `fstat` fails, the structure is filled from uninitialised
  memory all the same; `getargs` may return one more argument than it copies
  (`ResultsReadable`); closing a negative descriptor succeeds (`FileService`).
* Caches whose sets and lines take 32 bits or more shift by the whole width
  (`CacheAsAsked`).

## Proofs

TLAPS checks every theorem for all values of the constants under the named
assumptions beside them (`RsbSizeAssumption`, `NWordsAssumption`, ...). These only say
that sizes are positive numbers; of `Memory` that it is made of whole words
(`MemoryAssumption`); of `Tage` that histories are whole words, the first the
longest, and that addresses have half the bits of a word (`TageAssumption`), as in
`branch_predictor.hh`; of `Predictors` that a word has four equal parts, two of
which hold an address, that there is a history, and that widths are numbers
(`PredictorsAssumption`, which TLC evaluates for the constants of `predictors` and of `simulator`); of `SimCache`
that sets and ways are powers of two, that a set fits the pool, and that a class of
lists has more than one way, as `simCache.cc:50-53` and `main.cc:224-235` see to
(`ShapeAssumption`); of `Loader` that memory is whole pages (`PagesAssumption`) and holds
the vectors (`VectorsAssumption`), and what the ELF format promises of a file:
headers hold numbers that are not negative (`ElfsAssumption`), the entry and the code
lie in memory, and a segment takes no less memory than it has bytes
(`FormatAssumption`); of `Decoder` that an instruction is six
fields of 5 and 6 bits and addresses are numbers (`DecoderAssumption`); of `Main` that
a word has a power of two of bits (`WordAssumption`) and that `--assoc`, `--sets` and `--line_len` are an `int32_t` of
half a word (`OptionsAssumption`); of `Crc` that a byte is no wider than the sum
and that the generator has a constant term (`CrcAssumption`), as 0x82f63b78 has; of
the host that there is a descriptor above the streams, that the terminal is not in
a directory and that files are bytes (`HostFilesAssumption`), and that times,
offsets and arguments are numbers and words (`HostCallsAssumption`).

* `ContainersProofs`, in two parts. The loop invariant of `shift_left` (words above
  the loop variable final, the next one lacking its carry, the rest unshifted) is
  inductive for every word width and length; `BvTypeCorrect`, `BvLoopCorrect`,
  `BvCorrect`. `FoldCorrect`, that a hash depends on the outcomes that `FoldReach`
  names, from a bijection between the words that have a bit and the positions at
  which the string has it (`WordsArePlaces`), and from where the masked word begins
  (`LastWord`).

  The second part is the data cache, for everything but the flush of the list
  classes, after which nothing holds. That a list is intact speaks of walks along
  its links, which no step keeps by itself; `Rep` says it without walks: the n
  cells of a list have an order `u`, one to one, whose neighbours are each other's
  `next` and `prev` with `head` and `tail` at its ends, and the pool links every
  other cell, by address, from `free` on. `WalkEntries` and `WalkFree` bring the
  walks back (`RepIntact`). One lemma per method of the list says what becomes of
  `u`: `PushRep`, `PopRep` (with the search of `release` for its place,
  `ReleaseSearch`), `FindRep`, `MoveRep`; and one what becomes of the data:
  `PushShows`, `PopShows`, `FindShows`, `HitShows`. `CacheInv` adds that a set
  holds a tag once and no more than its ways, and the types: `ListsCorrect`. On
  top of it `CacheRefinesLru`: the data of a list, newest first, is the content of
  the abstract set (`Shown`), the place at which `find` met the tag is the depth
  counted, and a direct mapped set is an abstract one of a single way
  (`ListTouch`, `DirectTouch`).
* `PredictorLemmas`: words and counters, for every width. `Number` reads a set of
  bits as a number by summing in an order `CHOOSE` gives. That the sum exists,
  takes any bit first, is below the power of two of its width, splits into a
  quotient and a remainder and is one to one are inductions; as an induction
  theorem with a predicate for a parameter cannot be used, they go over a set of
  numbers that is shown to hold 0 and every successor (`SetInduction`). Of the
  counters, an update steps the one it names and no other (`UpdateCounterCorrect`),
  a new array is weakly not taken (`NewCountersCorrect`), two equal outcomes decide
  a prediction (`TwoOutcomesTeach`). The induction is done once, for sums of any
  terms over a finite set (`Total`): any term may be taken first (`TotalTakes`), sums
  of equal terms agree (`TotalAgrees`), one more in one place is one more in the sum
  (`TotalCounts`).
* `PredictorsProofs`: `PredictorRefinement`, that the four other classes implement
  `PredictorSpec`. `RefInv` has the shape of tage's: between `predict` and `update`
  the index, or the key left in the object, and the prediction are those of the
  history that `predict` saw, although `branch` has shifted it since; without that
  the counter trained need not be the one looked up. Each class then needs that its
  index names the abstract counter and no other. gshare's: folding in half twice is
  the parity of each four outcomes a quarter apart (`FoldIsParity`). gtagged's:
  address and history do not overlap in the key (`GtaggedKey`). uberhistory's: the
  history has a fixed length, so two equal strings have equal halves, and equal
  hexadecimal digits are those of one address (`UberKey`, `DigitsDiffer`). Bimodal's:
  the words and their numbers correspond one to one, so an update of a packed
  array is one of a counter per word (`BimodalTrains`). A counter missing from a map
  is one of value 0, so the entry that uberhistory's `predict` makes does not show.
  Steps are stated without the bounds of the runs (`RefNext`), so that the proof
  serves inside the simulator too.
* `TageProofs`: `TypeInv` holds that hashes are indices of their tables:
  `TageTypeCorrect`. `TageInv` says that no entry is useful and that `pred_valid` is
  false for every table: `update` raises a useful counter only under `pred_valid`,
  which nothing sets, so neither half is inductive alone (`NothingEverUseful`).
  From it, that the search for a useless entry ends at its first table
  (`AllocationNext`). `TageRefinement`, that tage implements `TageSpec`, needs
  `RefInv`: between `predict` and `update` the hashes, the table and the entry are
  those of the history that `predict` saw (`seen`), although the history has moved
  on. The rest are lemmas on how the two sides name things: `FoldParity` (a bit of
  `xor_fold` is the parity of the outcomes whose number has that remainder, but for
  those of the word that is masked away), `HashIsIndex`, `TagsDiffer`, `AbstractChoice`
  (the longest match is the same table), `UpdateMaps`.
* `SimulatorProofs` begins with the control core, in three parts. `RsbInv`, the type invariant with `RsbHoldsCalls`,
  is inductive; the argument is arithmetic of the wrap: the k-th entry seen from
  a moved top is the (k+1)-th or (k-1)-th from the old one (`WrapAbove`,
  `WrapBelow`), and a push overwrites only an entry `calls` no longer names:
  `RsbCorrect`, `RsbTypeCorrect`. `InterpInv` joins the types, `BudgetInv` and
  `RsbInv`. `BudgetOverrun` alone is not inductive: inside a chain one needs to
  know how many calls are pending, hence the second part of `BudgetInv`. One lemma
  per action: `TypeCorrect`, `BudgetCorrect`, `ReturnStackCorrect`, and from them the
  action property `MatchedReturnCorrect`. Last `BreakUnwindsCorrect`, and
  `DelaySlotRefinement`, that for programs without a transfer in a delay slot
  (`MaxNest = 1`, which MIPS demands) every step of the interpreter is a step of
  the pc/next-pc machine or a stutter.

  What follows is about the simulator as a whole: `HistoryInv` says that the two copies of the history agree,
  or, between the shift of the outcome and the training, that `Interp`'s is one
  outcome behind (`Ahead`): `HistoriesAlwaysAgree`, for every length, program and
  class of predictor. `FreshInv` says that a valid way holds the tag of a line
  accessed since the last flush and that the way of such a line is valid:
  `HitsAlwaysFresh`, for every number of sets and lines. The last part puts the
  components together. The simulator's predictor is the one of `PredictorsProofs`,
  operator by operator (`SameOperations`), and each step of the program is one
  around the predictor (`SimStepIsRefNext`) and one of the interpreter or none:
  `PredictorInContextCorrect`, and `SimulatorIsInterp`, by which what is proved of
  `Interp` holds of the program. `ReportAlwaysAddsUp` needs the types of both and
  `FreshInv`; that the histogram's entries are in sum the mispredictions is
  `TotalCounts`.
* `MemoryProofs`, in two parts. In the first, every handler is worked out byte by byte against the table of
  `ArchMemory` that says which byte of memory is which lane of the register
  (`LeftStored`, `RightStored` and their like for loads), in both byte orders, from
  lemmas on the helpers of `ByteWords`; every step lemma ends in the instruction's
  own label (`HandlerNamed`), so that `MemoryRefinement` matches handlers with
  their instructions. For `swl` with all lanes, that every bit of the register is
  stored whichever mask the shift by 32 makes is `FullLeftStored`. The only invariant this
  needs is `BytesOK`, the types. `UnalignedPairs` relates two handlers, so
  `PairInv` says what the first of a pair has left: the memory before it with one
  half stored, or the lanes of one half loaded. `HalvesCover` says that the two
  halves cover the word, and `StoredWhole` and `LoadedWhole` put them together:
  `UnalignedPairsCorrect`. `CacheSeesCorrect` is one lemma for loads and one for stores (`LoadTold`,
  `StoreTold`): what is announced is named by the instruction, and a store changes
  nothing beside it (`WritesWithin`).

  The second part is `HostCalls`. `HcInv` adds to `ResultsReadable` that every
  descriptor above the streams is an open file and no stream is one (`FilesInv`),
  without which a `write` to descriptor 1 could move the place in a file; one lemma
  per call. That structures are readable is that swapping twice swaps back, and that
  every field but `st_dev` is cut before it is swapped (`SwapTwice`, `StatRead`).
  That arguments are is an induction over `--args`: what `buildArgcArgv` takes, one
  word more than it copies, begins like what was given (`ArgumentsTaken`), and
  each word has a pointer of its own (`PointerIs`): `ResultsCorrect`.
  `ServiceRefinement`, that the calls implement `FileService`, rests on `FlagsMean`:
  the host's flags mean to the host what the program's mean to the program, for
  every set of bits. A step of the service is labelled with the arguments of the
  call, so the flags that mean the same are those of the same call.
* `LifecycleProofs`, in three parts. The first has six invariants of `Lifecycle`,
  each with one step per action.
  `ProtectInv` says that the sections still to process are sections of the file,
  so that a page made read-only can be traced to one, and the length of a section
  rounded down to pages is no more than it was (`RoundedDown`):
  `ProtectCorrect`. `DumpInv` says that the file, put on a memory of zeroes,
  gives the state it was written from (a page left out of it holds only zeroes,
  and every address lies in a page, `PageOf`), and that memory is zero when a run
  begins: `DumpCorrect`. `ClockInv` says that a little-endian program has only
  seen times before the clock's: `ClockCorrect`, for every limit of the
  microseconds (`UsecLimitAssumption`). `ImageInv` says that the program headers
  left are the last of the file and that those before them decide every word: the
  last of them that covers it, or none (`Decided`, `SegmentDecides`):
  `ImageCorrect`. `MonitorInv` follows the byte order of the vectors and of the
  reader through dumps and restarts: `MonitorCorrect`. `ReportInv` says that the
  lines printed and the entries pending are together the sorted entries, and that `known` is what memory holds at every
  address that was mispredicted; that
  sorting ranks every entry once is `EntriesSorted`, from a strict total order
  (`GreaterOrders`) and a count of what comes before each (`RankOrders`,
  `RanksFill`): `ReportCorrect`.

  The second part is `Main`. `NothingDangles` is not inductive: `MainInv` says what
  is alive at each statement, from the statements that make and free each thing
  (`Born`, `Gone`, `LiveAt`), and how far a run that ended had come:
  `ReportBeforeEndCorrect`. That only small tables abort is arithmetic: a table of
  a power of two of bits that does not fill its words is smaller than one
  (`FewerThanAWord`). For the cache, that `isPow2` lets no negative option pass
  (`ParameterIs`), that what it passes is zero or one bit (`PowersPass`, by
  `HighestBit`), and that a mask is a remainder and a shift a quotient
  (`BitsOfMask`): `CacheAsAskedCorrect`.

  The third part is `Crc`. `CrcInv` is `SumIsRemainder` with the types. A step of
  `update_crc` is a step of the long division (`StepBitIs`), so eight of them go
  from the remainder of a polynomial to that of its product by x^8
  (`StepByteDivides`), because a sum below the generator's degree does not disturb
  a division (`RemainderAdds`) and one power more is one step more (`RemainderUp`);
  the polynomial of a longer memory is such a product and a byte (`WholeGrows`).
  That a changed byte shows is another induction, over the rest of the memory:
  the generator's constant term makes each step one to one (`StepBitInjective`,
  `StepByteInjective`, `OneByteTells`). `HashAlwaysCorrect` joins the two.

* `DecoderProofs`: what is listed of an instruction is one of nine outcomes of what it
  ran as (`Listing`): the same, its name alone, `nop`, no entry, the end of the
  program, `clz` with its other source, `c.un` as `c.eq`, the immediate last, and the
  immediate last without its sign. `RunIsListed` finds the outcome, switch by switch,
  the tables compared entry by entry (`RTypeNames`, `ITypeNames`); `ListingAgrees`
  works out what each outcome says of names, registers, immediates and targets;
  `SlotsTold` compares `isBranchOrJump` with the names that ran. The invariant only
  says that what is listed did run (`DecodeInv`): `ListingIsRun`. TLC's run tells
  6 choices of the fields apart; the proof takes every word. It also showed that
  guards of the model's tables overlapped, where TLC takes the first and the
  language leaves the choice open; they are disjoint now, in the order of the code.

Only model-checked: `Termination` (liveness is outside TLAPS's reach here) and the
three properties of `datapath`, which run sequences of instructions.

## Not modelled

The value of host floating point; the text of instructions, paths and printed
counters; the miss rates and access times of `getStats` and `computeAMAT`; the
reports of the predictors' destructors (but not whether they abort); time, host
name and string helpers and the disabled backtrace; `osx_elf.h`, a vendored
header. Nobody calls the find functions, `hash` and `operator==` of bit vectors
(nor `clear_and_resize`, which makes what the constructor makes), `push_back`,
`move_to_tail` and `erase` of lists, `isFloatingPoint`, `getInstTypeStr` and
`getGPRName`. The caches can keep a stack of reuse distances, but
`enableStackDepth` is false and nothing sets it. A `read` into a
page that `load_elf` protected fails on the host with an error the program does
not look at; `HostCalls` gives every program a writable buffer. The registers
that `dumpState` copies beside memory and pc are one `memcpy` each. The default
cache (`--assoc` not given) is the base class, which counts nothing. Register 0
is an ordinary register of the state; the programs of `CompilerIdioms` do not
write it, as compilers do not. Fields of `ext` and `ins` that leave the word are
not among the programs: the architecture does not define them.

There is no fault model beyond restart from a dump (`Lifecycle`) and host calls
that fail (`HostFiles`): the program has one thread, sends no messages and
retries nothing.

## Plan

Done, in this order: return stack; interpreter and its refinement with proofs;
bit vector with proofs; counter arrays with proofs; predictors; tage; cache;
loads and stores; the datapath; the loader, dumps, monitor and report, with
proofs; the decoder; host calls; the whole simulator with proofs; `main` and the
checksum; proofs about tage, about loads and stores and about the report; proofs
about the four other predictors, alone and inside the simulator, about the
hash of the history, about the lists and caches, about `main` and the checksum,
about the monitor's calls, and about the two decoders.

Next:

1. `Datapath` composed with `Memory`, so that the programs of `CompilerIdioms`
   load their operands, and with register 0 among them.
2. `Simulator` with the caches of more than one way, up to their first flush.
