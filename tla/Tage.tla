-------------------------------- MODULE Tage --------------------------------
(***************************************************************************)
(* The tage predictor (branch_predictor.hh:67-116, branch_predictor.cc     *)
(* 65-217) as branch() uses it.  predict leaves the hashes of the history  *)
(* it saw, and what each table would predict, in members of the object;    *)
(* update trains and allocates by these members after the history has been *)
(* shifted.                                                                *)
(***************************************************************************)
EXTENDS MachineWords, TwobitCounterArray, Sequences

CONSTANTS
    Addr,           \* branch addresses, in instructions
    TableLengths,   \* table_lengths, the history each table asks for
    LgPht,          \* --lg_pht_sz
    TagLen,         \* TAG_LEN (12)
    AddrShift,      \* shift of the instruction address in a hash (4)
    ResetPeriod,    \* branches between two resets of useful (2^20)
    MaxBranches,    \* bound: branches predicted
    MaxJumps        \* bound: jumps between them

ASSUME TageAssumption ==
    /\ WordBits \in Nat \ {0}
    /\ TableLengths \in Seq(Nat) /\ TableLengths # << >> /\ TableLengths[1] > 0
    /\ TableLengths[1] % WordBits = 0
    /\ {LgPht, TagLen} \subseteq 1 .. WordBits \div 2
    /\ AddrShift \in Nat /\ ResetPeriod \in Nat \ {0}
    /\ Addr \subseteq 0 .. 2^(WordBits \div 2) - 1

VARIABLES
    bhr,                        \* *globals::bhr, the words' one bits
    tage_tables, pht,           \* the tagged entries, the untagged counters
    hashes, pred, pred_valid,   \* members that predict leaves to update
    pred_table, corr_pred_table,    \* predictions per table, 0 is pht
    phase,                      \* "idle", "predicted", "resolved"
    addr, table, entry, bp, taken,  \* locals of branch; idx is <<table, entry>>
    n_branches, n_mispredicts,
    seen, n_jumps               \* history: bhr at predict; jumps, for the bound

tageVars == <<bhr, tage_tables, pht, hashes, pred, pred_valid, pred_table, corr_pred_table,
              phase, addr, table, entry, bp, taken, n_branches, n_mispredicts, seen, n_jumps>>

n_tables == Len(TableLengths)
Tables == 0 .. n_tables - 1
Entries == 0 .. 2^LgPht - 1

(* main gives bhr the length tage needs, a whole number of words.          *)
needed_history_length == TableLengths[1]

ShiftedBhr(t) ==
    (Up(bhr, 1) \cap Mask(needed_history_length)) \cup (IF t THEN {0} ELSE {})

Word(w) == {b \in Mask(WordBits) : w * WordBits + b \in bhr}

(* sim_bitvec::xor_fold: the last word is masked with the bits left over.  *)
XorFold(len) ==
    LET bits == IF len = 0 \/ len > needed_history_length THEN needed_history_length ELSE len
        last == (bits + WordBits - 1) \div WordBits - 1
        h == {b \in Mask(WordBits) : Cardinality({w \in 0 .. last - 1 : b \in Word(w)}) % 2 = 1}
    IN Xor(h, Word(last) \cap Mask(bits % WordBits))

Hash(t, a) ==
    Number(Xor(XorFold(TableLengths[t + 1]), Up(Bits(a), AddrShift)) \cap Mask(LgPht))

pc_hash(a) == Number(Bits(a) \cap Mask(TagLen))

ClearEntry == [pred |-> 0, useful |-> 0, tag |-> 0]

First(S) == CHOOSE t \in S : \A u \in S : t <= u

-----------------------------------------------------------------------------
TageInit ==
    /\ bhr = {} /\ seen = {} /\ n_jumps = 0
    /\ tage_tables = [t \in Tables |-> [e \in Entries |-> ClearEntry]]
    /\ pht = NewCounters(2^LgPht)
    /\ hashes = [t \in Tables |-> 0]
    /\ pred = [t \in Tables |-> FALSE] /\ pred_valid = [t \in Tables |-> FALSE]
    /\ pred_table = [t \in 0 .. n_tables |-> 0] /\ corr_pred_table = [t \in 0 .. n_tables |-> 0]
    /\ phase = "idle"
    /\ addr = 0 /\ table = 0 /\ entry = 0 /\ bp = FALSE /\ taken = FALSE
    /\ n_branches = 0 /\ n_mispredicts = 0

(* A table whose entry has the branch's tag would predict by its counter.  *)
Hit(t, hs, a) == tage_tables[t][hs[t]].tag = pc_hash(a)
Says(t, hs) == tage_tables[t][hs[t]].pred > 1

(* Variant for the mutants: pred_valid records the hits.                   *)
PredValidOnHit(hs, a) == [t \in Tables |-> Hit(t, hs, a)]

(* pred_valid is cleared here and set nowhere.                             *)
PredValid(hs, a) == [t \in Tables |-> FALSE]

TagePredict(a) ==
    LET hs == [t \in Tables |-> Hash(t, a)]
        matching == {t \in Tables : Hit(t, hs, a)}
        t == First(matching)
        i == pc_hash(a) % 2^LgPht
    IN /\ phase = "idle" /\ n_branches < MaxBranches
       /\ phase' = "predicted" /\ addr' = a /\ seen' = bhr
       /\ hashes' = hs
       /\ pred_valid' = PredValid(hs, a)
       /\ pred' = [u \in Tables |-> IF Hit(u, hs, a) THEN Says(u, hs) ELSE pred[u]]
       /\ IF matching = {}
            THEN table' = 0 /\ entry' = i /\ bp' = (GetValue(pht, i) > 1)
            ELSE table' = t + 1 /\ entry' = hs[t] /\ bp' = Says(t, hs)
       /\ UNCHANGED <<bhr, tage_tables, pht, pred_table, corr_pred_table, taken,
                      n_branches, n_mispredicts, n_jumps>>

TageResolve(t) ==
    /\ phase = "predicted"
    /\ phase' = "resolved" /\ taken' = t
    /\ bhr' = ShiftedBhr(t)
    /\ UNCHANGED <<tage_tables, pht, hashes, pred, pred_valid, pred_table, corr_pred_table,
                   addr, table, entry, bp, n_branches, n_mispredicts, seen, n_jumps>>

Correct == bp = taken

(* The provider learns; it is useful if another table said otherwise.      *)
Learned ==
    IF table = 0 THEN tage_tables
    ELSE LET rivals == {t \in Tables \ {table - 1} : pred_valid[t] /\ pred[t] # bp}
         IN [tage_tables EXCEPT
               ![table - 1][entry].pred = Saturate(@, taken),
               ![table - 1][entry].useful = IF rivals = {} THEN @ ELSE Saturate(@, Correct)]

(* Variant for the mutants: the table after the provider is passed over.   *)
LaterSkipsOne == {t \in Tables : t > table}

(* The tables after the provider, in the order they are tried.             *)
Later == {t \in Tables : t >= table}

(* Variant for the mutants: the hashes are computed again.                 *)
AllocatedRehashed(tabs) ==
    LET New(t, e) == IF t = First(Later) /\ e = Hash(t, addr)
                       THEN [tabs[t][e] EXCEPT !.pred = 1, !.tag = pc_hash(addr)]
                       ELSE tabs[t][e]
    IN IF Correct \/ Later = {} THEN tabs
       ELSE [t \in Tables |-> [e \in Entries |-> New(t, e)]]

(* A misprediction takes the first entry that is not useful, or ages them. *)
Allocated(tabs) ==
    LET useless == {t \in Later : tabs[t][hashes[t]].useful = 0}
        New(t, e) == IF t = First(useless) /\ e = hashes[t]
                       THEN [tabs[t][e] EXCEPT !.pred = 1, !.tag = pc_hash(addr)]
                       ELSE tabs[t][e]
        Aged(t, e) == IF t \in Later /\ e = hashes[t]
                        THEN [tabs[t][e] EXCEPT !.useful = IF @ = 0 THEN 0 ELSE @ - 1]
                        ELSE tabs[t][e]
    IN IF Correct THEN tabs
       ELSE [t \in Tables |-> [e \in Entries |->
                IF useless # {} THEN New(t, e) ELSE Aged(t, e)]]

Reset(tabs) ==
    IF (n_branches + 1) % ResetPeriod # 0 THEN tabs
    ELSE [t \in Tables |-> [e \in Entries |->
            IF t \in Later /\ e = hashes[t] THEN [tabs[t][e] EXCEPT !.useful = 0] ELSE tabs[t][e]]]

TageUpdate ==
    /\ phase = "resolved"
    /\ phase' = "idle"
    /\ pred_table' = [pred_table EXCEPT ![table] = @ + 1]
    /\ corr_pred_table' = [corr_pred_table EXCEPT ![table] = @ + (IF Correct THEN 1 ELSE 0)]
    /\ pht' = IF table = 0 THEN UpdateCounter(pht, entry, taken) ELSE pht
    /\ tage_tables' = Reset(Allocated(Learned))
    /\ n_branches' = n_branches + 1
    /\ n_mispredicts' = n_mispredicts + (IF Correct THEN 0 ELSE 1)
    /\ addr' = 0 /\ table' = 0 /\ entry' = 0 /\ bp' = FALSE /\ taken' = FALSE /\ seen' = {}
    /\ UNCHANGED <<bhr, hashes, pred, pred_valid, n_jumps>>

TageJump ==
    /\ phase = "idle" /\ n_jumps < MaxJumps
    /\ n_jumps' = n_jumps + 1
    /\ bhr' = ShiftedBhr(TRUE)
    /\ UNCHANGED <<tage_tables, pht, hashes, pred, pred_valid, pred_table, corr_pred_table,
                   phase, addr, table, entry, bp, taken, n_branches, n_mispredicts, seen>>

TageNext ==
    \/ \E a \in Addr : TagePredict(a)
    \/ \E t \in BOOLEAN : TageResolve(t)
    \/ TageUpdate \/ TageJump

TageSpecification == TageInit /\ [][TageNext]_tageVars

-----------------------------------------------------------------------------
TageTypeOK ==
    /\ bhr \subseteq Mask(needed_history_length) /\ seen \subseteq Mask(needed_history_length)
    /\ tage_tables \in [Tables -> [Entries ->
          [pred : 0 .. 3, useful : 0 .. 3, tag : 0 .. 2^TagLen - 1]]]
    /\ CountersTypeOK(pht, 2^LgPht)
    /\ hashes \in [Tables -> Entries]
    /\ pred \in [Tables -> BOOLEAN] /\ pred_valid \in [Tables -> BOOLEAN]
    /\ table \in 0 .. n_tables /\ entry \in Entries
    /\ {bp, taken} \subseteq BOOLEAN /\ phase \in {"idle", "predicted", "resolved"}
    /\ phase # "idle" => addr \in Addr

(* The useful counters, their aging and their reset are inert: no entry is *)
(* ever useful.                                                            *)
NothingUseful == \A t \in Tables, e \in Entries : tage_tables[t][e].useful = 0

(* So a misprediction takes the entry of the table after the provider,     *)
(* whatever is in it, and no other entry changes its tag: the search of    *)
(* update (branch_predictor.cc:174-201) for a useless entry never goes on. *)
AllocatesNext ==
    [][\A t \in Tables, e \in Entries :
          LET new == phase = "resolved" /\ ~Correct /\ t = table /\ e = hashes[t] IN
          tage_tables'[t][e].tag = IF new THEN pc_hash(addr) ELSE tage_tables[t][e].tag]_tageVars

(* The history an index depends on: a whole number of words leaves out the *)
(* oldest of them; length 0 asks for all of them.                          *)
ReachOf(t) ==
    LET len == TableLengths[t + 1]
        bits == IF len = 0 \/ len > needed_history_length THEN needed_history_length ELSE len
    IN IF bits % WordBits = 0 THEN bits - WordBits ELSE bits

TS == INSTANCE TageSpec WITH
        Reach <- [t \in Tables |-> ReachOf(t)], Stored <- needed_history_length,
        hist <- IF phase = "resolved" THEN seen ELSE bhr,
        tagged <- [t \in Tables |-> [x \in SUBSET Mask(LgPht) |->
                    [pred |-> tage_tables[t][Number(x)].pred,
                     tag |-> {b \in Mask(TagLen) : (tage_tables[t][Number(x)].tag \div 2^b) % 2 = 1}]]],
        base <- [x \in SUBSET Mask(LgPht) |-> GetValue(pht, Number(x))],
        branches <- n_branches, mispredicts <- n_mispredicts

(* predict, the shift of the history and update make one step of the       *)
(* abstract predictor: the hashes kept in the object are those of the      *)
(* history predict saw, and an allocation never hits the provider's entry. *)
ImplementsTage == TS!TSSpec
=============================================================================
