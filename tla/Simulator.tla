----------------------------- MODULE Simulator -----------------------------
(***************************************************************************)
(* The interpreter (Interp) with the predictor and the cache its           *)
(* instructions use: what branch, execMips and _monitorBody                *)
(* (profileMips.cc) do to globals::bpred, globals::bhr and globals::L1D on *)
(* the way.  The counters and the map of the predictor are one object here *)
(* and in Interp; the history is kept twice, as Interp's outcomes and as   *)
(* the words the predictors read, and so can be compared.                  *)
(***************************************************************************)
EXTENDS Interp

CONSTANTS
    WordBits, LgPht, LgCPht, PcShift, LgInsn, LgDigit,  \* as in Predictors
    NumSets, Lines, MaxAccesses                         \* as in SimCache

ASSUME SimAssumption ==
    /\ WordBits \in Nat \ {0}
    /\ NumSets \in Nat \ {0} /\ Lines \subseteq Nat

VARIABLES
    words,                                          \* *globals::bhr
    tables, phase, addr, idx, bp, taken, seen,      \* of Predictors
    tags, valid, hits, misses, rw_hits, rw_misses,  \* of SimCache
    fresh           \* history: the lines accessed since the last monitor call

bpVars == <<tables, phase, addr, idx, bp, taken, seen>>
l1dVars == <<tags, valid, hits, misses, rw_hits, rw_misses, fresh>>
simVars == <<vars, words, bpVars, l1dVars>>

P == INSTANCE Predictors WITH
        Impls <- BpredImpls, impl <- bpred_impl, BhrLen <- HistLen, bhr <- words,
        MaxBranches <- MaxIcnt + MaxNest, MaxJumps <- 0, n_jumps <- 0

(* Options and addresses as PredictorsProofs takes them.                   *)
ASSUME SimPredictorsAssumption == P!PredictorsAssumption

C == INSTANCE SimCache WITH
        Impls <- {"direct"}, impl <- "direct", Assoc <- 1, PoolCells <- 1, Garbage <- {0},
        MaxWrites <- 0, sets <- << >>, hitdepth <- << >>, status <- "ok"

SimInit ==
    /\ Init
    /\ words = {} /\ seen = {}
    /\ tables = P!NewTables(bpred_impl)
    /\ phase = "idle" /\ addr = 0 /\ idx = 0 /\ bp = FALSE /\ taken = FALSE
    /\ tags = [w \in 0 .. NumSets - 1 |-> 0] /\ valid = [w \in 0 .. NumSets - 1 |-> FALSE]
    /\ hits = 0 /\ misses = 0
    /\ rw_hits = [o \in C!opType |-> 0] /\ rw_misses = [o \in C!opType |-> 0]
    /\ fresh = {}

-----------------------------------------------------------------------------
(* A branch: branch() calls predict, evaluates its condition, trains; only *)
(* then does it call execMips for the slot, whose own branches come here.  *)
Fetching == status = "running" /\ ~returning /\ (frames = << >> => ~brk /\ icnt < MaxIcnt)

SimPredict ==
    /\ Fetching
    /\ P!Predict(pc)
    /\ UNCHANGED <<vars, words, l1dVars>>

SimResolve ==
    /\ \E t \in BOOLEAN :
          /\ t => Len(frames) < MaxNest      \* bound, as in Interp
          /\ P!Resolve(t)
    /\ UNCHANGED <<vars, l1dVars>>

SimBranch ==
    /\ P!Update
    /\ \/ \E op \in {"branch", "likely"}, target \in Addr : Branch(op, bp, taken, target)
       \/ ~taken /\ AnnulSlot(bp)
    /\ UNCHANGED l1dVars

(* The other instructions, between two branches.                           *)
Between == phase = "idle" /\ UNCHANGED bpVars

(* Variant for the mutants: jumps leave the history alone.                 *)
SimJumpSilent ==
    /\ Between
    /\ (\E target \in Addr : Jump(target) \/ Call(target)) \/ JumpRegister31
    /\ UNCHANGED <<words, l1dVars>>

(* Jumps, calls and returns set a bit of the history too.                  *)
SimJump ==
    /\ Between
    /\ (\E target \in Addr : Jump(target) \/ Call(target)) \/ JumpRegister31
    /\ words' = P!ShiftedBhr(TRUE)
    /\ UNCHANGED l1dVars

SimLoad ==
    /\ Between
    /\ Plain(gpr31)
    /\ \E line \in Lines : C!DirectAccess(line, "READ") /\ fresh' = fresh \cup {line}
    /\ UNCHANGED words

(* Variant for the mutants: the call does not flush the cache.             *)
SimMonitorUnflushed ==
    /\ Between
    /\ MonitorCall
    /\ fresh' = {}
    /\ UNCHANGED <<words, tags, valid, hits, misses, rw_hits, rw_misses>>

SimMonitor ==
    /\ Between
    /\ MonitorCall
    /\ C!DirectFlush
    /\ fresh' = {}
    /\ UNCHANGED words

SimOther ==
    /\ Between
    /\ (\E ra \in Addr : Plain(ra)) \/ Break \/ Exit \/ Resume \/ Stop
    /\ UNCHANGED <<words, l1dVars>>

SimNext ==
    \/ SimPredict \/ SimResolve \/ SimBranch \/ SimJump
    \/ SimLoad \/ SimMonitor \/ SimOther

SimSpec == SimInit /\ [][SimNext]_simVars

(* One thread, which nothing modelled here makes wait.                     *)
SimFairSpec == SimSpec /\ WF_simVars(SimNext)

-----------------------------------------------------------------------------
(* Between two branches the words the predictors read hold the outcomes of *)
(* the program's transfers, the newest first, those of branches and of     *)
(* every kind of jump (profileMips.cc:394-397, 1392, 1405, 1571).          *)
HistoriesAgree ==
    phase = "idle" => \A k \in 1 .. HistLen : bhr[k] <=> (k - 1 \in words)

(* In the interpreter too, with branches in the slots of branches, jumps   *)
(* between them, and returns that write to its map, the predictor is the   *)
(* abstract one (predict, update).                                         *)
PredictorInContext == P!ImplementsPredictor

(* An access hits only what the program has accessed since its last        *)
(* monitor call, and misses what it has only where two such lines share a  *)
(* set (_monitorBody, profileMips.cc:690).                                 *)
HitsAreFresh ==
    [][ /\ hits' # hits => fresh' = fresh
        /\ misses' # misses /\ fresh' = fresh =>
              \E l, m \in fresh : l # m /\ C!SetIndex(l) = C!SetIndex(m) ]_simVars

(* What main prints at the end fits together: branches counted by the      *)
(* predictor are those executed, the histogram holds the mispredictions of *)
(* both kinds, and accesses are hits or misses.                            *)
ReportAddsUp ==
    /\ MispredictAccounting
    /\ n_mispredicts <= n_branches
    /\ n_branches + num_jr_r31 + hits + misses <= icnt
=============================================================================
