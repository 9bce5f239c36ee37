----------------------------- MODULE Predictors -----------------------------
(***************************************************************************)
(* The predictors of branch_predictor.cc, but for tage, as branch() uses   *)
(* them (profileMips.cc:346, 394-398): predict reads the history and       *)
(* leaves an index (or sidx, a member) for update; the history is shifted  *)
(* in between; update trains what the old index names and never looks at   *)
(* the history again.                                                      *)
(*                                                                         *)
(* impl is the class of the object main created; the virtual methods       *)
(* dispatch on it.                                                         *)
(***************************************************************************)
EXTENDS MachineWords, TwobitCounterArray, Sequences

CONSTANTS
    Addr,           \* branch addresses, in instructions
    Impls,          \* the classes main may create
    BhrLen,         \* --bhr_len
    LgPht, LgCPht,  \* --lg_pht_sz, --lg_c_pht_sz
    PcShift,        \* --pc_shift
    LgInsn,         \* byte address = instruction address * 2^LgInsn (2)
    LgDigit,        \* bits of a digit of sidx (4, it is printed in hex)
    MaxBranches,    \* bound: branches predicted
    MaxJumps        \* bound: jumps between them

(* The classes main creates; options that main takes, as numbers; an       *)
(* address has half the bits of a word, and a word is whole quarters.      *)
PredictorsAssumption ==
    /\ Impls \subseteq {"gshare", "gtagged", "uberhistory", "bimodal"}
    /\ WordBits \in Nat \ {0} /\ WordBits % 4 = 0
    /\ BhrLen \in Nat \ {0}
    /\ {LgPht, LgCPht, PcShift, LgInsn} \subseteq Nat /\ LgDigit \in Nat \ {0}
    /\ Addr \subseteq 0 .. 2^(WordBits \div 2) - 1

VARIABLES
    impl,               \* the class of *globals::bpred
    bhr,                \* *globals::bhr, the words' one bits
    tables,             \* the class's tables
    phase,              \* "idle", "predicted", "resolved": where branch() is
    addr, idx, bp, taken,   \* its locals s->pc, idx (and sidx), bp, takeBranch
    n_branches, n_mispredicts, mispredict_map,
    seen,               \* history: bhr when predict was called
    n_jumps             \* history: jumps executed, for the bound

pdVars == <<impl, bhr, tables, phase, addr, idx, bp, taken,
            n_branches, n_mispredicts, mispredict_map, seen, n_jumps>>

-----------------------------------------------------------------------------
StoredBits == ((BhrLen + WordBits - 1) \div WordBits) * WordBits

(* shift_left(1), then set_bit(0) if taken: bits past BhrLen stay.         *)
ShiftedBhr(t) == (Up(bhr, 1) \cap Mask(StoredBits)) \cup (IF t THEN {0} ELSE {})

ToInteger == bhr \cap Mask(WordBits)

(* as_string(): the BhrLen newest outcomes, the oldest first.              *)
AsString(h) == [k \in 1 .. BhrLen |-> IF BhrLen - k \in h THEN 1 ELSE 0]

(* operator<< with std::hex: no leading zeros.                             *)
HexString(n) ==
    LET weight(k) == 2^(LgDigit * k)
        len == CHOOSE k \in 1 .. WordBits : n < weight(k) /\ (k = 1 \/ n >= weight(k - 1))
    IN [k \in 1 .. len |-> (n \div weight(len - k)) % 2^LgDigit]

(* (x >> k) ^ (x & ((1 << k) - 1))                                         *)
FoldAt(S, k) == Xor(Down(S, k), S \cap Mask(k))

GshareIndex(a) ==
    LET fold_bhr == FoldAt(FoldAt(ToInteger, WordBits \div 2), WordBits \div 4) IN
    Number(Xor(Up(Bits(a), LgInsn + PcShift), fold_bhr) \cap Mask(LgPht))

GtaggedIndex(a, h) ==
    Bits(a) \cup Up(h \cap Mask(WordBits \div 2), WordBits \div 2)

UberIndex(a, h) == HexString(a) \o AsString(h)

BimodalIndex(a) == Number(Xor(Bits(a), ToInteger) \cap Mask(LgPht))

ChoiceIndex(a) == Number(Bits(a) \cap Mask(LgCPht))

Index(a) ==
    CASE impl = "gshare" -> GshareIndex(a)
      [] impl = "gtagged" -> GtaggedIndex(a, ToInteger)
      [] impl = "uberhistory" -> UberIndex(a, bhr)
      [] impl = "bimodal" -> BimodalIndex(a)

-----------------------------------------------------------------------------
(* std::map's find and operator[]: a missing counter is 0.                 *)
Lookup(m, k) == IF k \in DOMAIN m THEN m[k] ELSE 0
Assign(m, k, v) == [j \in DOMAIN m \cup {k} |-> IF j = k THEN v ELSE m[j]]

(* The bank that the choice counter of the branch selects.                 *)
Bank(a) == IF GetValue(tables.c_pht, ChoiceIndex(a)) < 2 THEN "nt_pht" ELSE "t_pht"

Counter(a, i) ==
    CASE impl = "gshare" -> GetValue(tables.pht, i)
      [] impl \in {"gtagged", "uberhistory"} -> Lookup(tables.pht, i)
      [] impl = "bimodal" -> GetValue(tables[Bank(a)], i)

Mispredicted == bp # taken

(* The choice is not trained if it chose against the outcome and the bank  *)
(* predicted right.                                                        *)
BimodalUpdate ==
    LET c_idx == ChoiceIndex(addr)
        nt == Bank(addr) = "nt_pht"
        keep == IF nt THEN taken /\ GetValue(tables.nt_pht, idx) > 1
                      ELSE ~taken /\ GetValue(tables.t_pht, idx) < 2
    IN [tables EXCEPT
          !.c_pht = IF keep THEN @ ELSE UpdateCounter(@, c_idx, taken),
          !.nt_pht = IF nt THEN UpdateCounter(@, idx, taken) ELSE @,
          !.t_pht = IF nt THEN @ ELSE UpdateCounter(@, idx, taken)]

(* Variant for the mutants: update computes the index again.               *)
TrainedTablesReindexed ==
    LET now == Index(addr) IN
    CASE impl = "gshare" -> [tables EXCEPT !.pht = UpdateCounter(@, now, taken)]
      [] impl \in {"gtagged", "uberhistory"} ->
            [tables EXCEPT !.pht = Assign(@, now, Saturate(Lookup(@, now), taken))]
      [] impl = "bimodal" -> BimodalUpdate

TrainedTables ==
    CASE impl = "gshare" -> [tables EXCEPT !.pht = UpdateCounter(@, idx, taken)]
      [] impl \in {"gtagged", "uberhistory"} ->
            [tables EXCEPT !.pht = Assign(@, idx, Saturate(Lookup(@, idx), taken))]
      [] impl = "bimodal" -> BimodalUpdate

NewTables(class) ==
    CASE class = "gshare" -> [pht |-> NewCounters(2^LgPht)]
      [] class \in {"gtagged", "uberhistory"} -> [pht |-> << >>]
      [] class = "bimodal" -> [c_pht |-> NewCounters(2^LgCPht),
                               nt_pht |-> NewCounters(2^LgPht),
                               t_pht |-> NewCounters(2^LgPht)]

PdInit ==
    /\ impl \in Impls
    /\ bhr = {} /\ seen = {}
    /\ tables = NewTables(impl)
    /\ phase = "idle"
    /\ addr = 0 /\ idx = 0 /\ bp = FALSE /\ taken = FALSE
    /\ n_branches = 0 /\ n_mispredicts = 0
    /\ mispredict_map = [a \in Addr |-> 0]
    /\ n_jumps = 0

(* predict(s->pc, idx).  uberhistory's lookup inserts the missing counter. *)
Predict(a) ==
    /\ phase = "idle" /\ n_branches < MaxBranches
    /\ phase' = "predicted"
    /\ addr' = a
    /\ idx' = Index(a)
    /\ bp' = (Counter(a, idx') > 1)
    /\ tables' = IF impl = "uberhistory" /\ idx' \notin DOMAIN tables.pht
                   THEN [tables EXCEPT !.pht = Assign(@, idx', 0)] ELSE tables
    /\ seen' = bhr
    /\ UNCHANGED <<impl, bhr, taken, n_branches, n_mispredicts, mispredict_map, n_jumps>>

(* branch() evaluates the condition and shifts the outcome in.             *)
Resolve(t) ==
    /\ phase = "predicted"
    /\ phase' = "resolved"
    /\ taken' = t
    /\ bhr' = ShiftedBhr(t)
    /\ UNCHANGED <<impl, tables, addr, idx, bp, n_branches, n_mispredicts, mispredict_map,
                   seen, n_jumps>>

(* update(s->pc, idx, bp, takeBranch); the locals of branch() end here,    *)
(* and predict writes sidx before it is read again.                        *)
Update ==
    /\ phase = "resolved"
    /\ phase' = "idle"
    /\ tables' = TrainedTables
    /\ n_branches' = n_branches + 1
    /\ n_mispredicts' = n_mispredicts + (IF Mispredicted THEN 1 ELSE 0)
    /\ mispredict_map' = IF Mispredicted /\ impl \in {"gshare", "uberhistory"}
                           THEN [mispredict_map EXCEPT ![addr] = @ + 1] ELSE mispredict_map
    /\ addr' = 0 /\ idx' = 0 /\ bp' = FALSE /\ taken' = FALSE /\ seen' = {}
    /\ UNCHANGED <<impl, bhr, n_jumps>>

(* A jump between two branches.                                            *)
JumpOutcome ==
    /\ phase = "idle" /\ n_jumps < MaxJumps
    /\ n_jumps' = n_jumps + 1
    /\ bhr' = ShiftedBhr(TRUE)
    /\ UNCHANGED <<impl, tables, phase, addr, idx, bp, taken,
                   n_branches, n_mispredicts, mispredict_map, seen>>

PdNext ==
    \/ \E a \in Addr : Predict(a)
    \/ \E t \in BOOLEAN : Resolve(t)
    \/ Update \/ JumpOutcome

PdSpec == PdInit /\ [][PdNext]_pdVars
-----------------------------------------------------------------------------
(* Where the counters are kept, as the abstract predictors name them.      *)
CounterOf ==
    CASE impl = "gshare" -> [c \in SUBSET Mask(LgPht) |-> GetValue(tables.pht, Number(c))]
      [] impl = "gtagged" ->
            [c \in Addr \X SUBSET Mask(WordBits \div 2) |->
                Lookup(tables.pht, GtaggedIndex(c[1], c[2]))]
      [] impl = "uberhistory" ->
            [c \in Addr \X SUBSET Mask(BhrLen) |-> Lookup(tables.pht, UberIndex(c[1], c[2]))]
      [] impl = "bimodal" ->
            [c \in ({"choice"} \X SUBSET Mask(LgCPht)) \cup ({"nt", "t"} \X SUBSET Mask(LgPht)) |->
                GetValue(CASE c[1] = "choice" -> tables.c_pht [] c[1] = "nt" -> tables.nt_pht
                           [] c[1] = "t" -> tables.t_pht, Number(c[2]))]

PS == INSTANCE PredictorSpec WITH
        kind <- impl, ctr <- CounterOf, branches <- n_branches, mispredicts <- n_mispredicts,
        hist <- IF phase = "resolved" THEN seen ELSE bhr, Shift <- LgInsn + PcShift

(* Predicting, shifting and training one after the other is the one step   *)
(* of the abstract predictor: the counter trained is the one that          *)
(* predicted, although the history has moved on; no two contexts that the  *)
(* predictor promises to tell apart share a counter; the packing, the      *)
(* missing map entries and the folding of the history do not show.         *)
ImplementsPredictor == PS!PSSpec
=============================================================================
