----------------------------- MODULE TageProofs -----------------------------
(***************************************************************************)
(* The tage predictor for every number of tables, lengths of history and   *)
(* addresses: its types, its useful counters that never count, where a     *)
(* misprediction allocates, and that it implements TageSpec.               *)
(***************************************************************************)
EXTENDS Tage, PredictorLemmas

(* A tagged entry that is not useful, whatever its tag and prediction.     *)
Entry(p, g) == [pred |-> p, useful |-> 0, tag |-> g]

(* tabs is a family of tables of such entries.                             *)
Useless(tabs) ==
    tabs = [t \in Tables |-> [e \in Entries |-> Entry(tabs[t][e].pred, tabs[t][e].tag)]]

(* No table was ever valid as a rival of the provider, the hashes name     *)
(* entries of the tables that are searched, and the tables are useless.    *)
TageInv ==
    /\ Useless(tage_tables)
    /\ \A t \in Tables : pred_valid[t] = FALSE
    /\ table \in 0 .. n_tables

(* Aging and resetting the useful counter of an entry that is not useful   *)
(* change nothing; an allocated entry is not useful.                       *)
LEMMA EntryKeeps ==
    ASSUME NEW r, NEW g, r = Entry(r.pred, r.tag)
    PROVE  /\ [r EXCEPT !.pred = 1, !.tag = g] = Entry(1, g)
           /\ [r EXCEPT !.useful = 0] = r
           /\ [r EXCEPT !.useful = IF @ = 0 THEN 0 ELSE @ - 1] = r
<1>1. r.useful = 0
  BY DEF Entry
<1>2. [Entry(r.pred, r.tag) EXCEPT !.pred = 1, !.tag = g] = Entry(1, g)
  <2>1. [Entry(r.pred, r.tag) EXCEPT !.pred = 1] = Entry(1, r.tag)
    BY DEF Entry
  <2>2. [Entry(1, r.tag) EXCEPT !.tag = g] = Entry(1, g)
    BY DEF Entry
  <2> QED
    BY <2>1, <2>2
<1>3. [Entry(r.pred, r.tag) EXCEPT !.useful = 0] = Entry(r.pred, r.tag)
  BY DEF Entry
<1>4. [r EXCEPT !.useful = IF @ = 0 THEN 0 ELSE @ - 1] = [r EXCEPT !.useful = 0]
  BY <1>1
<1> QED
  BY <1>2, <1>3, <1>4

(* Tables are numbered.                                                    *)
LEMMA TablesAreNat == n_tables \in Nat /\ Tables \subseteq Nat
  BY TageAssumption DEF Tables, n_tables

(* The provider has no rival, so its useful counter stays as it was.       *)
LEMMA LearnedUseless ==
    ASSUME TageInv
    PROVE  /\ Useless(Learned)
           /\ \A t \in Tables, e \in Entries :
                 /\ Learned[t][e].tag = tage_tables[t][e].tag
                 /\ Learned[t][e].pred = IF t = table - 1 /\ e = entry
                                           THEN Saturate(tage_tables[t][e].pred, taken)
                                           ELSE tage_tables[t][e].pred
<1> DEFINE T == tage_tables
           s == table - 1
           rivals == {t \in Tables \ {s} : pred_valid[t] /\ pred[t] # bp}
           Old(t, e) == Entry(T[t][e].pred, T[t][e].tag)
           New(t, e) == Entry(IF t = s /\ e = entry THEN Saturate(T[t][e].pred, taken) ELSE T[t][e].pred,
                              T[t][e].tag)
<1>1. T = [t \in Tables |-> [e \in Entries |-> Old(t, e)]]
  BY DEF TageInv, Useless
<1>2. CASE table = 0
  <2>1. Learned = tage_tables /\ \A t \in Tables : t # table - 1
    BY <1>2, TablesAreNat DEF Learned
  <2> QED
    BY <1>1, <2>1 DEF Useless
<1>3. CASE table # 0
  <2>1. rivals = {}
    BY DEF TageInv
  <2>2. Learned = [T EXCEPT ![s][entry].pred = Saturate(@, taken), ![s][entry].useful = @]
    BY <1>3, <2>1 DEF Learned
  <2>3. Learned = [t \in Tables |-> [e \in Entries |-> New(t, e)]]
    <3> DEFINE x == Saturate(T[s][entry].pred, taken)
               M == [T EXCEPT ![s][entry].pred = x]
               MNew(t, e) == [pred |-> IF t = s /\ e = entry THEN x ELSE T[t][e].pred,
                              useful |-> 0, tag |-> T[t][e].tag]
    <3>1. M = [t \in Tables |-> [e \in Entries |-> MNew(t, e)]]
      <4>1. \A t \in Tables : T[t] = [e \in Entries |-> Old(t, e)]
        BY <1>1
      <4>2. \A t \in Tables, e \in Entries : T[t][e] = Old(t, e)
        BY <4>1
      <4>3. ASSUME s \in Tables, entry \in Entries
            PROVE  [T[s][entry] EXCEPT !.pred = x] = MNew(s, entry)
        <5>1. T[s][entry] = Old(s, entry)
          BY <4>2, <4>3, Zenon
        <5>2. [Old(s, entry) EXCEPT !.pred = x] = MNew(s, entry)
          BY DEF Entry
        <5> QED
          BY <5>1, <5>2
      <4>4. ASSUME s \in Tables
            PROVE  [T[s] EXCEPT ![entry] = [T[s][entry] EXCEPT !.pred = x]]
                      = [e \in Entries |-> MNew(s, e)]
        BY <4>1, <4>2, <4>3, <4>4 DEF Entry
      <4>5. ASSUME NEW t \in Tables, t # s
            PROVE  T[t] = [e \in Entries |-> MNew(t, e)]
        BY <4>1, <4>2, <4>5 DEF Entry
      <4>6. M = [T EXCEPT ![s] = [T[s] EXCEPT ![entry] = [T[s][entry] EXCEPT !.pred = x]]]
        OBVIOUS
      <4>7. \A t \in Tables : M[t] = [e \in Entries |-> MNew(t, e)]
        <5> HIDE DEF MNew, M
        <5> QED
          BY <1>1, <4>4, <4>5, <4>6
      <4>8. M = [t \in Tables |-> M[t]]
        BY <1>1, <4>6
      <4> QED
        BY <4>7, <4>8
    <3>2. Learned = [M EXCEPT ![s][entry].useful = @]
      BY <2>2
    <3> HIDE DEF M
    <3>3. Learned = M
      BY <3>1, <3>2, ZenonT(30)
    <3> QED
      BY <3>1, <3>3 DEF Entry
  <2>4. \A t \in Tables, e \in Entries : Learned[t][e] = New(t, e)
    BY <2>3
  <2> HIDE DEF New
  <2>5. \A t \in Tables, e \in Entries :
          /\ New(t, e) = Entry(New(t, e).pred, New(t, e).tag) /\ New(t, e).tag = T[t][e].tag
          /\ New(t, e).pred = IF t = s /\ e = entry THEN Saturate(T[t][e].pred, taken) ELSE T[t][e].pred
    BY DEF New, Entry
  <2> QED
    BY <2>3, <2>4, <2>5 DEF Useless
<1> QED
  BY <1>2, <1>3

(* The first of a set of tables is its least.                              *)
LEMMA FirstIsLeast ==
    ASSUME NEW S \in SUBSET Nat, S # {}
    PROVE  First(S) \in S /\ \A t \in S : First(S) <= t
BY LeastExists DEF First

(* An allocation keeps every useful counter.                               *)
LEMMA AllocatedUseless ==
    ASSUME NEW tabs, Useless(tabs)
    PROVE  Useless(Allocated(tabs))
<1> DEFINE useless == {t \in Later : tabs[t][hashes[t]].useful = 0}
           New(t, e) == IF t = First(useless) /\ e = hashes[t]
                          THEN [tabs[t][e] EXCEPT !.pred = 1, !.tag = pc_hash(addr)]
                          ELSE tabs[t][e]
           Aged(t, e) == IF t \in Later /\ e = hashes[t]
                           THEN [tabs[t][e] EXCEPT !.useful = IF @ = 0 THEN 0 ELSE @ - 1]
                           ELSE tabs[t][e]
           Out(t, e) == IF useless # {} THEN New(t, e) ELSE Aged(t, e)
<1>1. \A t \in Tables, e \in Entries : tabs[t][e] = Entry(tabs[t][e].pred, tabs[t][e].tag)
  BY DEF Useless
<1>2. CASE Correct
  BY <1>2 DEF Allocated
<1>3. CASE ~Correct
  <2>1. Allocated(tabs) = [t \in Tables |-> [e \in Entries |-> Out(t, e)]]
    BY <1>3 DEF Allocated
  <2>2. ASSUME NEW t \in Tables, NEW e \in Entries
        PROVE  Out(t, e) = Entry(Out(t, e).pred, Out(t, e).tag)
    <3>1. New(t, e) = tabs[t][e] \/ New(t, e) = Entry(1, pc_hash(addr))
      <4>1. [tabs[t][e] EXCEPT !.pred = 1, !.tag = pc_hash(addr)] = Entry(1, pc_hash(addr))
        <5> DEFINE r == tabs[t][e]
        <5>1. r = Entry(r.pred, r.tag)
          BY <1>1
        <5> HIDE DEF r
        <5>2. [r EXCEPT !.pred = 1, !.tag = pc_hash(addr)] = Entry(1, pc_hash(addr))
          BY <5>1, EntryKeeps
        <5> QED
          BY <5>2 DEF r
      <4> QED
        BY <4>1
    <3>2. Aged(t, e) = tabs[t][e]
      BY <1>1, EntryKeeps
    <3>3. Entry(1, pc_hash(addr)) = Entry(Entry(1, pc_hash(addr)).pred, Entry(1, pc_hash(addr)).tag)
      BY DEF Entry
    <3> HIDE DEF New, Aged
    <3> QED
      BY <1>1, <3>1, <3>2, <3>3
  <2> HIDE DEF Out
  <2>3. \A t \in Tables, e \in Entries : Allocated(tabs)[t][e] = Out(t, e)
    BY <2>1
  <2>4. \A t \in Tables :
          [e \in Entries |-> Out(t, e)]
            = [e \in Entries |-> Entry(Allocated(tabs)[t][e].pred, Allocated(tabs)[t][e].tag)]
    BY <2>2, <2>3
  <2> QED
    BY <2>1, <2>4 DEF Useless
<1> QED
  BY <1>2, <1>3

(* It takes the entry of the table after the provider.                     *)
LEMMA AllocatedEntry ==
    ASSUME NEW tabs, Useless(tabs), table \in Nat, hashes \in [Tables -> Entries],
           NEW t \in Tables, NEW e \in Entries
    PROVE  /\ Allocated(tabs)[t][e].tag =
                 IF ~Correct /\ t = table /\ e = hashes[t] THEN pc_hash(addr) ELSE tabs[t][e].tag
           /\ Allocated(tabs)[t][e].pred =
                 IF ~Correct /\ t = table /\ e = hashes[t] THEN 1 ELSE tabs[t][e].pred
<1> DEFINE useless == {u \in Later : tabs[u][hashes[u]].useful = 0}
           New(u, f) == IF u = First(useless) /\ f = hashes[u]
                          THEN [tabs[u][f] EXCEPT !.pred = 1, !.tag = pc_hash(addr)]
                          ELSE tabs[u][f]
           Aged(u, f) == IF u \in Later /\ f = hashes[u]
                           THEN [tabs[u][f] EXCEPT !.useful = IF @ = 0 THEN 0 ELSE @ - 1]
                           ELSE tabs[u][f]
<1>1. \A u \in Tables, f \in Entries : tabs[u][f] = Entry(tabs[u][f].pred, tabs[u][f].tag)
  BY DEF Useless
<1>2. CASE Correct
  BY <1>2 DEF Allocated
<1>3. CASE ~Correct
  <2>1. useless = Later
    <3>1. ASSUME NEW u \in Later PROVE tabs[u][hashes[u]].useful = 0
      <4>1. tabs[u][hashes[u]] = Entry(tabs[u][hashes[u]].pred, tabs[u][hashes[u]].tag)
        BY <1>1 DEF Later
      <4> QED
        BY <4>1 DEF Entry
    <3> QED
      BY <3>1
  <2>2. Allocated(tabs)[t][e] = IF useless # {} THEN New(t, e) ELSE Aged(t, e)
    BY <1>3 DEF Allocated
  <2>3. /\ New(t, e).tag = IF t = First(useless) /\ e = hashes[t] THEN pc_hash(addr) ELSE tabs[t][e].tag
        /\ New(t, e).pred = IF t = First(useless) /\ e = hashes[t] THEN 1 ELSE tabs[t][e].pred
    BY <1>1 DEF Entry
  <2>4. CASE Later = {}
    <3>1. t # table /\ t \notin Later
      BY <2>4, TablesAreNat DEF Later
    <3> QED
      BY <2>1, <2>2, <2>4, <3>1
  <2>5. CASE Later # {}
    <3>1. Later \in SUBSET Nat /\ First(Later) \in Later /\ \A u \in Later : First(Later) <= u
      BY <2>5, FirstIsLeast, TablesAreNat DEF Later
    <3>2. table \in Later
      BY <2>5, TablesAreNat DEF Later, Tables
    <3>3. First(Later) = table
      BY <3>1, <3>2 DEF Later
    <3> HIDE DEF New, useless
    <3> QED
      BY <1>3, <2>1, <2>2, <2>3, <2>5, <3>3
  <2> QED
    BY <2>4, <2>5
<1> QED
  BY <1>2, <1>3

(* The reset of useful counters that are all 0 changes nothing else.       *)
LEMMA ResetUseless ==
    ASSUME NEW tabs, Useless(tabs)
    PROVE  /\ Useless(Reset(tabs))
           /\ \A t \in Tables, e \in Entries :
                 Reset(tabs)[t][e].tag = tabs[t][e].tag /\ Reset(tabs)[t][e].pred = tabs[t][e].pred
<1> DEFINE New(t, e) == IF t \in Later /\ e = hashes[t] THEN [tabs[t][e] EXCEPT !.useful = 0] ELSE tabs[t][e]
<1>1. \A t \in Tables, e \in Entries : tabs[t][e] = Entry(tabs[t][e].pred, tabs[t][e].tag)
  BY DEF Useless
<1>2. CASE (n_branches + 1) % ResetPeriod # 0
  BY <1>2 DEF Reset
<1>3. CASE ~((n_branches + 1) % ResetPeriod # 0)
  <2>1. Reset(tabs) = [t \in Tables |-> [e \in Entries |-> New(t, e)]]
    BY <1>3 DEF Reset
  <2>2. \A t \in Tables, e \in Entries : New(t, e) = tabs[t][e]
    BY <1>1, EntryKeeps
  <2> HIDE DEF New
  <2>3. Reset(tabs) = tabs
    BY <2>1, <2>2 DEF Useless
  <2> QED
    BY <2>3
<1> QED
  BY <1>2, <1>3

-----------------------------------------------------------------------------
(* As created, no entry is useful and no prediction is marked valid.       *)
LEMMA TageInvStart == TageInit => TageInv
<1> SUFFICES ASSUME TageInit PROVE TageInv
  OBVIOUS
<1>1. tage_tables = [t \in Tables |-> [e \in Entries |-> ClearEntry]]
  BY DEF TageInit
<1>2. \A t \in Tables, e \in Entries : tage_tables[t][e] = Entry(0, 0)
  BY <1>1 DEF ClearEntry, Entry
<1>3. \A t \in Tables : [e \in Entries |-> ClearEntry]
          = [e \in Entries |-> Entry(tage_tables[t][e].pred, tage_tables[t][e].tag)]
  BY <1>2 DEF ClearEntry, Entry
<1>4. Useless(tage_tables)
  BY <1>1, <1>3 DEF Useless
<1>5. table = 0 /\ \A t \in Tables : pred_valid[t] = FALSE
  BY DEF TageInit
<1> QED
  BY <1>4, <1>5, TablesAreNat DEF TageInv

(* Nothing sets pred_valid, so nothing becomes useful.                     *)
LEMMA TageInvStep == TageInv /\ [TageNext]_tageVars => TageInv'
<1> SUFFICES ASSUME TageInv, [TageNext]_tageVars PROVE TageInv'
  OBVIOUS
<1>1. ASSUME NEW a \in Addr, TagePredict(a)
      PROVE  TageInv'
  <2> DEFINE hs == [t \in Tables |-> Hash(t, a)]
             matching == {t \in Tables : Hit(t, hs, a)}
  <2>1. tage_tables' = tage_tables /\ pred_valid' = [t \in Tables |-> FALSE]
    BY <1>1 DEF TagePredict, PredValid
  <2>2. table' = IF matching = {} THEN 0 ELSE First(matching) + 1
    BY <1>1 DEF TagePredict
  <2>3. matching # {} => First(matching) \in Tables
    <3>1. matching \in SUBSET Nat
      BY TablesAreNat
    <3> QED
      BY <3>1, FirstIsLeast
  <2> HIDE DEF matching
  <2>4. table' \in 0 .. n_tables
    BY <2>2, <2>3, TablesAreNat DEF Tables
  <2> QED
    BY <2>1, <2>4 DEF TageInv, Useless
<1>2. ASSUME NEW t \in BOOLEAN, TageResolve(t)
      PROVE  TageInv'
  BY <1>2 DEF TageResolve, TageInv, Useless
<1>3. CASE TageUpdate
  <2>1. Useless(Reset(Allocated(Learned)))
    BY LearnedUseless, AllocatedUseless, ResetUseless
  <2>2. tage_tables' = Reset(Allocated(Learned)) /\ pred_valid' = pred_valid /\ table' = 0
    BY <1>3 DEF TageUpdate
  <2> QED
    BY <2>1, <2>2, TablesAreNat DEF TageInv, Useless
<1>4. CASE TageJump
  BY <1>4 DEF TageJump, TageInv, Useless
<1>5. CASE UNCHANGED tageVars
  BY <1>5 DEF tageVars, TageInv, Useless
<1> QED
  BY <1>1, <1>2, <1>3, <1>4, <1>5 DEF TageNext

(* The useful counters of tage stay 0 for ever, whatever the program, the  *)
(* tables and the period of their reset.                                   *)
THEOREM NothingEverUseful == TageSpecification => []NothingUseful
<1>1. TageInv => NothingUseful
  <2> SUFFICES ASSUME TageInv, NEW t \in Tables, NEW e \in Entries
               PROVE  tage_tables[t][e].useful = 0
    BY DEF NothingUseful
  <2>1. tage_tables[t][e] = Entry(tage_tables[t][e].pred, tage_tables[t][e].tag)
    BY DEF TageInv, Useless
  <2> QED
    BY <2>1 DEF Entry
<1> QED
  BY <1>1, TageInvStart, TageInvStep, PTL DEF TageSpecification

-----------------------------------------------------------------------------
(* What the assumptions say of the widths of words, tags and tables.       *)
LEMMA Widths ==
    /\ WordBits \in Nat \ {0} /\ AddrShift \in Nat
    /\ LgPht \in Nat \ {0} /\ TagLen \in Nat \ {0} /\ 2^LgPht \in Nat \ {0}
    /\ LgPht <= WordBits /\ LgPht <= WordBits \div 2 /\ TagLen <= WordBits \div 2
    /\ needed_history_length \in Nat \ {0}
<1>1. LgPht \in 1 .. WordBits \div 2 /\ TagLen \in 1 .. WordBits \div 2 /\ WordBits \in Nat \ {0}
  BY TageAssumption
<1>2. 2^LgPht \in Nat \ {0}
  BY <1>1, PowerPositive
<1>3. needed_history_length \in Nat \ {0}
  <2>1. 1 \in 1 .. Len(TableLengths)
    BY TageAssumption
  <2> QED
    BY <2>1, TageAssumption DEF needed_history_length
<1> QED
  BY <1>1, <1>2, <1>3, TageAssumption

(* A hash is an index of its table, the tag of a branch has TagLen bits.   *)
LEMMA HashInEntries ==
    ASSUME NEW t, NEW a
    PROVE  Hash(t, a) \in Entries
  BY NumberBound, Widths DEF Hash, Entries

(* The hash of the address gives a tag and an index in range.              *)
LEMMA TagInRange ==
    ASSUME NEW a
    PROVE  pc_hash(a) \in 0 .. 2^TagLen - 1 /\ pc_hash(a) % 2^LgPht \in Entries
<1>1. pc_hash(a) \in 0 .. 2^TagLen - 1
  BY NumberBound, Widths DEF pc_hash
<1>2. 2^TagLen \in Nat
  BY PowerPositive, Widths
<1> DEFINE n == pc_hash(a)
           p == 2^LgPht
<1>3. n \in Nat /\ p \in Nat /\ p > 0
  BY <1>1, <1>2, Widths
<1> HIDE DEF n, p
<1>4. n % p \in 0 .. p - 1
  BY <1>3
<1> QED
  BY <1>1, <1>4 DEF n, p, Entries

(* A shift keeps the history to the bits that are stored.                  *)
LEMMA ShiftedIn ==
    ASSUME NEW t \in BOOLEAN
    PROVE  ShiftedBhr(t) \subseteq Mask(needed_history_length)
<1>1. 0 \in Mask(needed_history_length)
  BY Widths DEF Mask
<1> QED
  BY <1>1 DEF ShiftedBhr

TageTables == [Tables -> [Entries -> [pred : 0 .. 3, useful : 0 .. 3, tag : 0 .. 2^TagLen - 1]]]

(* What an update leaves of one entry.                                     *)
LEMMA UpdatedEntry ==
    ASSUME TageInv, hashes \in [Tables -> Entries], NEW t \in Tables, NEW e \in Entries
    PROVE  Reset(Allocated(Learned))[t][e] =
              IF ~Correct /\ t = table /\ e = hashes[t] THEN Entry(1, pc_hash(addr))
              ELSE Entry(IF t = table - 1 /\ e = entry THEN Saturate(tage_tables[t][e].pred, taken)
                                                       ELSE tage_tables[t][e].pred,
                         tage_tables[t][e].tag)
<1>1. table \in Nat
  BY TablesAreNat DEF TageInv
<1>2. /\ Useless(Learned)
      /\ Learned[t][e].tag = tage_tables[t][e].tag
      /\ Learned[t][e].pred = IF t = table - 1 /\ e = entry
                                THEN Saturate(tage_tables[t][e].pred, taken)
                                ELSE tage_tables[t][e].pred
  BY LearnedUseless
<1> DEFINE A == Allocated(Learned)
           R == Reset(A)
           new == ~Correct /\ t = table /\ e = hashes[t]
<1>3. /\ Useless(A)
      /\ A[t][e].tag = IF new THEN pc_hash(addr) ELSE Learned[t][e].tag
      /\ A[t][e].pred = IF new THEN 1 ELSE Learned[t][e].pred
  BY <1>1, <1>2, AllocatedUseless, AllocatedEntry
<1> HIDE DEF A, new
<1>4. Useless(R) /\ R[t][e].tag = A[t][e].tag /\ R[t][e].pred = A[t][e].pred
  BY <1>3, ResetUseless
<1> HIDE DEF R
<1>5. R[t][e] = Entry(R[t][e].pred, R[t][e].tag)
  BY <1>4 DEF Useless
<1>6. CASE new
  BY <1>3, <1>4, <1>5, <1>6 DEF new, R, A
<1>7. CASE ~new
  BY <1>2, <1>3, <1>4, <1>5, <1>7 DEF new, R, A
<1> QED
  BY <1>6, <1>7

(* The inductive invariant: the types, and the useless tables.             *)
TypeInv ==
    /\ TageInv /\ TageTypeOK
    /\ pht \in CounterArrays(2^LgPht)

(* An update leaves well-formed tables.                                    *)
LEMMA UpdatedTables ==
    ASSUME TypeInv, addr \in Addr
    PROVE  Reset(Allocated(Learned)) \in TageTables
<1> DEFINE R == Reset(Allocated(Learned))
<1>1. TageInv /\ hashes \in [Tables -> Entries] /\ tage_tables \in TageTables /\ taken \in BOOLEAN
  BY DEF TypeInv, TageTypeOK, TageTables
<1>2. Useless(R)
  BY <1>1, LearnedUseless, AllocatedUseless, ResetUseless
<1>3. ASSUME NEW t \in Tables, NEW e \in Entries
      PROVE  R[t][e].pred \in 0 .. 3 /\ R[t][e].tag \in 0 .. 2^TagLen - 1
  <2> DEFINE p == tage_tables[t][e].pred
             g == tage_tables[t][e].tag
             new == ~Correct /\ t = table /\ e = hashes[t]
             mine == t = table - 1 /\ e = entry
  <2>1. p \in 0 .. 3 /\ g \in 0 .. 2^TagLen - 1
    <3>1. tage_tables[t][e] \in [pred : 0 .. 3, useful : 0 .. 3, tag : 0 .. 2^TagLen - 1]
      BY <1>1 DEF TageTables
    <3> QED
      BY <3>1
  <2>2. Saturate(p, taken) \in 0 .. 3
    BY <1>1, <2>1, SaturateInRange
  <2>3. R[t][e] = IF new THEN Entry(1, pc_hash(addr))
                  ELSE Entry(IF mine THEN Saturate(p, taken) ELSE p, g)
    BY <1>1, UpdatedEntry
  <2>4. pc_hash(addr) \in 0 .. 2^TagLen - 1
    BY TagInRange
  <2> HIDE DEF p, g, new, mine, R
  <2> QED
    BY <2>1, <2>2, <2>3, <2>4 DEF Entry
<1> HIDE DEF R
<1>4. R = [t \in Tables |-> [e \in Entries |-> Entry(R[t][e].pred, R[t][e].tag)]]
  BY <1>2 DEF Useless
<1>5. \A t \in Tables, e \in Entries :
        Entry(R[t][e].pred, R[t][e].tag) \in [pred : 0 .. 3, useful : 0 .. 3, tag : 0 .. 2^TagLen - 1]
  BY <1>3 DEF Entry
<1>6. R \in TageTables
  BY <1>4, <1>5 DEF TageTables
<1> QED
  BY <1>6 DEF R

(* The tables as created are well-formed.                                  *)
LEMMA TypeInvStart == TageInit => TypeInv
<1> SUFFICES ASSUME TageInit PROVE TypeInv
  OBVIOUS
<1>1. TageInv
  BY TageInvStart
<1>2. 0 \in Entries /\ 0 \in 0 .. n_tables
  BY Widths, TablesAreNat DEF Entries
<1>3. pht \in CounterArrays(2^LgPht) /\ CountersTypeOK(pht, 2^LgPht)
  BY NewCountersCorrect, CountersTyped, Widths DEF TageInit
<1>4. tage_tables \in TageTables
  <2>1. 0 \in 0 .. 2^TagLen - 1
    BY PowerPositive, Widths
  <2>2. ClearEntry \in [pred : 0 .. 3, useful : 0 .. 3, tag : 0 .. 2^TagLen - 1]
    BY <2>1 DEF ClearEntry
  <2> QED
    BY <2>2 DEF TageInit, TageTables
<1>5. TageTypeOK
  <2>1. /\ bhr \subseteq Mask(needed_history_length) /\ seen \subseteq Mask(needed_history_length)
        /\ hashes \in [Tables -> Entries]
        /\ pred \in [Tables -> BOOLEAN] /\ pred_valid \in [Tables -> BOOLEAN]
        /\ table \in 0 .. n_tables /\ entry \in Entries
        /\ {bp, taken} \subseteq BOOLEAN /\ phase = "idle"
    BY <1>2 DEF TageInit
  <2> QED
    BY <1>3, <1>4, <2>1 DEF TageTypeOK, TageTables
<1> QED
  BY <1>1, <1>3, <1>5 DEF TypeInv

(* Every step keeps tables, hashes and history in range.                   *)
LEMMA TypeInvStep == TypeInv /\ [TageNext]_tageVars => TypeInv'
<1> SUFFICES ASSUME TypeInv, [TageNext]_tageVars PROVE TypeInv'
  OBVIOUS
<1>0. TageInv'
  BY TageInvStep DEF TypeInv
<1> USE DEF TypeInv
<1>1. ASSUME NEW a \in Addr, TagePredict(a)
      PROVE  TageTypeOK' /\ pht' \in CounterArrays(2^LgPht)
  <2> DEFINE hs == [t \in Tables |-> Hash(t, a)]
             i == pc_hash(a) % 2^LgPht
             matching == {t \in Tables : Hit(t, hs, a)}
  <2>1. hs \in [Tables -> Entries] /\ hashes' = hs
    BY <1>1, HashInEntries DEF TagePredict
  <2>2. pred_valid' \in [Tables -> BOOLEAN]
    BY <1>1 DEF TagePredict, PredValid
  <2>3. pred' \in [Tables -> BOOLEAN]
    <3>1. pred' = [u \in Tables |-> IF Hit(u, hs, a) THEN Says(u, hs) ELSE pred[u]]
      BY <1>1 DEF TagePredict
    <3>2. \A u \in Tables : Says(u, hs) \in BOOLEAN
      BY DEF Says
    <3>3. \A u \in Tables : pred[u] \in BOOLEAN
      BY DEF TageTypeOK
    <3> HIDE DEF hs
    <3> QED
      BY <3>1, <3>2, <3>3
  <2>4. table' \in 0 .. n_tables
    BY <1>0 DEF TageInv
  <2>5. entry' \in Entries /\ bp' \in BOOLEAN
    <3>1. CASE matching = {}
      BY <1>1, <3>1, TagInRange DEF TagePredict
    <3>2. CASE matching # {}
      <4>1. First(matching) \in Tables
        <5>1. matching \in SUBSET Nat /\ matching \in SUBSET Tables
          BY TablesAreNat
        <5> HIDE DEF matching
        <5> QED
          BY <3>2, <5>1, FirstIsLeast
      <4>2. entry' = hs[First(matching)] /\ bp' = Says(First(matching), hs)
        BY <1>1, <3>2 DEF TagePredict
      <4> HIDE DEF hs, matching
      <4> QED
        BY <2>1, <4>1, <4>2 DEF Says
    <3> QED
      BY <3>1, <3>2
  <2>6. phase' = "predicted" /\ addr' \in Addr /\ seen' = bhr
        /\ UNCHANGED <<bhr, tage_tables, pht, taken>>
    BY <1>1 DEF TagePredict
  <2> HIDE DEF hs, matching, i
  <2> QED
    BY <2>1, <2>2, <2>3, <2>4, <2>5, <2>6 DEF TageTypeOK
<1>2. ASSUME NEW t \in BOOLEAN, TageResolve(t)
      PROVE  TageTypeOK' /\ pht' \in CounterArrays(2^LgPht)
  <2>1. bhr' \subseteq Mask(needed_history_length)
    BY <1>2, ShiftedIn DEF TageResolve
  <2>2. phase = "predicted" /\ phase' = "resolved" /\ taken' = t
        /\ UNCHANGED <<tage_tables, pht, hashes, pred, pred_valid, addr, table, entry, bp, seen>>
    BY <1>2 DEF TageResolve
  <2> QED
    BY <2>1, <2>2 DEF TageTypeOK
<1>3. CASE TageUpdate
  <2>1. phase = "resolved" /\ addr \in Addr /\ entry \in Entries /\ taken \in BOOLEAN
    BY <1>3 DEF TageUpdate, TageTypeOK
  <2>2. tage_tables' \in TageTables
    BY <1>3, <2>1, UpdatedTables DEF TageUpdate
  <2>3. pht' \in CounterArrays(2^LgPht)
    <3>1. UpdateCounter(pht, entry, taken) \in CounterArrays(2^LgPht)
      BY <2>1, UpdateCounterCorrect, Widths DEF Entries
    <3> QED
      BY <1>3, <3>1 DEF TageUpdate
  <2>4. CountersTypeOK(pht', 2^LgPht)
    BY <2>3, CountersTyped, Widths
  <2>5. 0 \in Entries /\ 0 \in 0 .. n_tables
    BY Widths, TablesAreNat DEF Entries
  <2>6. /\ phase' = "idle" /\ table' = 0 /\ entry' = 0 /\ bp' = FALSE /\ taken' = FALSE
        /\ seen' = {} /\ UNCHANGED <<bhr, hashes, pred, pred_valid>>
    BY <1>3 DEF TageUpdate
  <2>7. (CountersTypeOK(pht, 2^LgPht))'
    BY <2>4 DEF CountersTypeOK
  <2>8. /\ bhr' \subseteq Mask(needed_history_length) /\ seen' \subseteq Mask(needed_history_length)
        /\ hashes' \in [Tables -> Entries]
        /\ pred' \in [Tables -> BOOLEAN] /\ pred_valid' \in [Tables -> BOOLEAN]
        /\ table' \in 0 .. n_tables /\ entry' \in Entries
        /\ {bp', taken'} \subseteq BOOLEAN /\ phase' = "idle"
    BY <2>5, <2>6 DEF TageTypeOK
  <2> QED
    BY <1>0, <2>2, <2>3, <2>7, <2>8 DEF TageTypeOK, TageTables
<1>4. CASE TageJump
  <2>1. bhr' \subseteq Mask(needed_history_length)
    BY <1>4, ShiftedIn DEF TageJump
  <2>2. UNCHANGED <<tage_tables, pht, hashes, pred, pred_valid, phase, addr, table, entry, bp,
                    taken, seen>>
    BY <1>4 DEF TageJump
  <2> QED
    BY <1>0, <2>1, <2>2 DEF TageTypeOK, CountersTypeOK
<1>5. CASE UNCHANGED tageVars
  BY <1>0, <1>5 DEF tageVars, TageTypeOK, CountersTypeOK
<1> QED
  BY <1>0, <1>1, <1>2, <1>3, <1>4, <1>5 DEF TageNext

(* The invariant of the types holds throughout.                            *)
LEMMA TypeInductive == TageSpecification => []TypeInv
  BY TypeInvStart, TypeInvStep, PTL DEF TageSpecification

(* Every member of the predictor keeps its range: the indices that the     *)
(* hashes make never leave the tables, the counters their two bits, the    *)
(* tags their TAG_LEN bits, for every width, history and program.          *)
THEOREM TageTypeCorrect == TageSpecification => []TageTypeOK
<1>1. TypeInv => TageTypeOK
  BY DEF TypeInv
<1> QED
  BY <1>1, TypeInductive, PTL

(* An allocation after a misprediction always takes the table after the    *)
(* provider, and only it changes a tag.                                    *)
THEOREM AllocationNext == TageSpecification => AllocatesNext
<1> DEFINE NextTag(t, e) ==
              LET new == phase = "resolved" /\ ~Correct /\ t = table /\ e = hashes[t] IN
              tage_tables'[t][e].tag = IF new THEN pc_hash(addr) ELSE tage_tables[t][e].tag
           Step == \A t \in Tables, e \in Entries : NextTag(t, e)
<1>1. TypeInv /\ [TageNext]_tageVars => [Step]_tageVars
  <2> SUFFICES ASSUME TypeInv, TageNext, NEW t \in Tables, NEW e \in Entries
               PROVE  NextTag(t, e)
    OBVIOUS
  <2>1. CASE TageUpdate
    <3>1. hashes \in [Tables -> Entries] /\ phase = "resolved" /\ TageInv
      BY <2>1 DEF TageUpdate, TypeInv, TageTypeOK
    <3>2. tage_tables' = Reset(Allocated(Learned))
      BY <2>1 DEF TageUpdate
    <3> DEFINE new == ~Correct /\ t = table /\ e = hashes[t]
               p == IF t = table - 1 /\ e = entry THEN Saturate(tage_tables[t][e].pred, taken)
                                                 ELSE tage_tables[t][e].pred
    <3>3. tage_tables'[t][e] = IF new THEN Entry(1, pc_hash(addr)) ELSE Entry(p, tage_tables[t][e].tag)
      BY <3>1, <3>2, UpdatedEntry
    <3>4. \A q, g : Entry(q, g).tag = g
      BY DEF Entry
    <3> HIDE DEF p
    <3>5. tage_tables'[t][e].tag = IF new THEN pc_hash(addr) ELSE tage_tables[t][e].tag
      BY <3>3, <3>4
    <3> QED
      BY <3>1, <3>5
  <2>2. CASE ~TageUpdate
    <3>1. tage_tables' = tage_tables
      BY <2>2 DEF TageNext, TagePredict, TageResolve, TageJump
    <3>2. phase # "resolved"
      BY <2>2 DEF TageNext, TagePredict, TageResolve, TageJump
    <3> QED
      BY <3>1, <3>2
  <2> QED
    BY <2>1, <2>2
<1> QED
  BY <1>1, TypeInductive, PTL DEF TageSpecification, AllocatesNext

-----------------------------------------------------------------------------
(* Folding a history: the last word that is touched, and what its mask     *)
(* leaves of it.                                                           *)
LastIn(bits, W) == (bits + W - 1) \div W - 1
RestOf(bits, W) == bits % W

(* Where the masked word of a fold begins.                                 *)
LEMMA LastWord ==
    ASSUME NEW W \in Nat \ {0}, NEW bits \in Nat \ {0}
    PROVE  /\ LastIn(bits, W) \in Nat /\ RestOf(bits, W) \in 0 .. W - 1
           /\ W * LastIn(bits, W) = IF RestOf(bits, W) = 0 THEN bits - W ELSE bits - RestOf(bits, W)
<1> SUFFICES ASSUME NEW last, last = (bits + W - 1) \div W - 1, NEW r, r = bits % W
             PROVE  /\ last \in Nat /\ r \in 0 .. W - 1
                    /\ W * last = IF r = 0 THEN bits - W ELSE bits - r
  BY DEF LastIn, RestOf
<1> DEFINE q == bits \div W
<1>1. q \in Nat /\ r \in 0 .. W - 1 /\ bits = W * q + r
  OBVIOUS
<1>2. CASE r = 0
  <2>1. W - 1 \in 0 .. W - 1 /\ W > 0
    OBVIOUS
  <2>2. ((W - 1) + W * q) \div W = q
    BY <1>1, <2>1, Quotient
  <2>3. bits + W - 1 = (W - 1) + W * q
    <3> HIDE DEF q
    <3> QED
      BY <1>1, <1>2
  <2>4. last = q - 1
    BY <2>2, <2>3
  <2>5. q # 0
    <3> HIDE DEF q
    <3> SUFFICES ASSUME q = 0 PROVE FALSE
      OBVIOUS
    <3>1. W * 0 = 0
      OBVIOUS
    <3> QED
      BY <1>1, <1>2, <3>1
  <2> HIDE DEF q
  <2>6. W * (q - 1) = W * q - W
    BY <1>1
  <2>7. W * last = W * q - W
    BY <2>4, <2>6
  <2>8. bits = W * q
    BY <1>1, <1>2
  <2>9. q - 1 \in Nat
    BY <1>1, <2>5
  <2> QED
    BY <1>1, <1>2, <2>4, <2>7, <2>8, <2>9, Zenon
<1>3. CASE r # 0
  <2>1. r - 1 \in 0 .. W - 1 /\ W > 0 /\ q + 1 \in Nat
    BY <1>1, <1>3
  <2>2. ((r - 1) + W * (q + 1)) \div W = q + 1
    <3> HIDE DEF q
    <3> QED
      BY <2>1, Quotient
  <2>3. bits + W - 1 = (r - 1) + W * (q + 1)
    <3> HIDE DEF q
    <3> QED
      BY <1>1
  <2>4. last = q
    BY <1>1, <2>2, <2>3
  <2> HIDE DEF q
  <2>5. W * last = bits - r
    BY <1>1, <2>4
  <2>6. last \in Nat /\ r \in 0 .. W - 1 /\ W * last = IF r = 0 THEN bits - W ELSE bits - r
    BY <1>1, <1>3, <2>4, <2>5
  <2> QED
    BY <2>6
<1> QED
  BY <1>2, <1>3

(* The positions of one bit in the words below last.                       *)
PlacesBelow(H, W, last, b) == {p \in H : p < W * last /\ p % W = b}
WordsBelow(H, W, last, b) == {w \in 0 .. last - 1 : w * W + b \in H}

(* The positions of one bit of the fold are as many as the words that hold *)
(* an outcome there.                                                       *)
LEMMA WordsOfBit ==
    ASSUME NEW W \in Nat \ {0}, NEW last \in Nat, NEW b \in 0 .. W - 1, NEW H \in SUBSET Nat
    PROVE  /\ IsFiniteSet(PlacesBelow(H, W, last, b))
           /\ Cardinality(PlacesBelow(H, W, last, b)) = Cardinality(WordsBelow(H, W, last, b))
<1> DEFINE P == {p \in H : p < W * last /\ p % W = b}
           A == {w \in 0 .. last - 1 : w * W + b \in H}
           place == [w \in A |-> w * W + b]
<1>1. IsFiniteSet(A)
  <2>1. IsFiniteSet(0 .. last - 1)
    BY FS_Interval
  <2> QED
    BY <2>1, FS_Subset
<1>2. ASSUME NEW w \in Nat
      PROVE  (w * W + b) \div W = w /\ (w * W + b) % W = b
  <2>1. (b + W * w) \div W = w /\ (b + W * w) % W = b
    BY Quotient
  <2>2. b + W * w = w * W + b
    OBVIOUS
  <2> QED
    BY <2>1, <2>2
<1>3. ASSUME NEW w \in 0 .. last - 1 PROVE w * W + b < W * last
  <2>1. w + 1 <= last /\ w \in Nat
    OBVIOUS
  <2>2. W * (w + 1) <= W * last
    BY <2>1
  <2>3. W * (w + 1) = w * W + W
    BY <2>1
  <2> QED
    BY <2>1, <2>2, <2>3
<1>4. \A w \in A : place[w] = w * W + b /\ place[w] \in P /\ w \in Nat
  <2> SUFFICES ASSUME NEW w \in A PROVE place[w] = w * W + b /\ place[w] \in P /\ w \in Nat
    OBVIOUS
  <2>1. w \in 0 .. last - 1 /\ w \in Nat /\ w * W + b \in H
    OBVIOUS
  <2>2. w * W + b < W * last /\ (w * W + b) % W = b
    BY <1>2, <1>3, <2>1
  <2>3. place[w] = w * W + b
    OBVIOUS
  <2> HIDE DEF place, A
  <2>4. w * W + b \in P
    BY <2>1, <2>2
  <2> QED
    BY <2>1, <2>3, <2>4
<1>5. \A p \in P : \E w \in A : place[w] = p
  <2> SUFFICES ASSUME NEW p \in P PROVE \E w \in A : place[w] = p
    OBVIOUS
  <2> DEFINE q == p \div W
             r == p % W
  <2>0. p \in Nat /\ p \in H /\ p < W * last /\ r = b
    OBVIOUS
  <2>a. q \in Nat /\ r \in 0 .. W - 1 /\ p = W * q + r
    BY <2>0
  <2> HIDE DEF q, r, P
  <2>1. p = W * q + b /\ q \in Nat
    BY <2>0, <2>a
  <2>2. p = q * W + b
    BY <2>1
  <2>3. q < last
    <3> SUFFICES ASSUME last <= q PROVE FALSE
      BY <2>1
    <3>1. W * last <= W * q
      BY <2>1
    <3> DEFINE x == W * last
               y == W * q
    <3>2. x \in Nat /\ y \in Nat /\ x <= y /\ p = y + b /\ p < x
      BY <2>0, <2>1, <3>1
    <3> HIDE DEF x, y
    <3> QED
      BY <3>2
  <2>4. q \in A
    <3>1. q \in 0 .. last - 1
      BY <2>1, <2>3
    <3>2. q * W + b \in H
      BY <2>0, <2>2
    <3> QED
      BY <3>1, <3>2
  <2> QED
    BY <2>2, <2>4
<1>6. \A v, w \in A : place[v] = place[w] => v = w
  <2> SUFFICES ASSUME NEW v \in A, NEW w \in A, place[v] = place[w] PROVE v = w
    OBVIOUS
  <2>1. v * W + b = w * W + b /\ v \in Nat /\ w \in Nat
    BY <1>4
  <2> QED
    BY <1>2, <2>1
<1>7. place \in [A -> P]
  <2>1. \A w \in A : w * W + b \in P
    BY <1>4
  <2> HIDE DEF A, P
  <2> QED
    BY <2>1
<1> HIDE DEF place, A, P
<1>8. place \in Surjection(A, P) /\ place \in Injection(A, P)
  <2>1. place \in Injection(A, P)
    BY <1>6, <1>7 DEF Injection, IsInjective
  <2>2. place \in Surjection(A, P)
    BY <1>5, <1>7 DEF Surjection
  <2> QED
    BY <2>1, <2>2
<1>9. IsFiniteSet(P) /\ Cardinality(P) = Cardinality(A)
  BY <1>1, <1>8, FS_Surjection
<1> QED
  BY <1>9 DEF A, P, PlacesBelow, WordsBelow

Odd(S) == Cardinality(S) % 2 = 1

(* The outcomes that bit b of a table's index depends on.                  *)
Seen(h, t, b) == {p \in h : p < ReachOf(t) /\ p % WordBits = b}

(* The words xored, the last of them masked, are the parities of the       *)
(* outcomes the fold reaches.                                              *)
LEMMA FoldParity ==
    ASSUME bhr \subseteq Mask(needed_history_length), NEW t \in Tables, NEW b \in Mask(WordBits)
    PROVE  b \in XorFold(TableLengths[t + 1]) <=> Odd(Seen(bhr, t, b))
<1> DEFINE len == TableLengths[t + 1]
           W == WordBits
           bits == IF len = 0 \/ len > needed_history_length THEN needed_history_length ELSE len
           last == (bits + W - 1) \div W - 1
           r == bits % W
           A == {w \in 0 .. last - 1 : b \in Word(w)}
           B == {w \in 0 .. last - 1 : w * W + b \in bhr}
           P == {p \in bhr : p < W * last /\ p % W = b}
           kept == b < r /\ last * W + b \in bhr
           top == last * W + b
<1>1. len \in Nat
  <2>1. t + 1 \in 1 .. Len(TableLengths)
    BY TageAssumption DEF Tables, n_tables
  <2> QED
    BY <2>1, TageAssumption
<1>2. bits \in Nat \ {0} /\ W \in Nat \ {0} /\ b \in 0 .. W - 1 /\ b \in Nat
  BY <1>1, Widths DEF Mask
<1>3. bhr \in SUBSET Nat
  BY Widths DEF Mask
<1>4. b \in XorFold(len) <=> ~(Cardinality(A) % 2 = 1 <=> kept)
  <2> DEFINE h == {c \in Mask(WordBits) : Cardinality({w \in 0 .. last - 1 : c \in Word(w)}) % 2 = 1}
             m == Word(last) \cap Mask(r)
  <2>1. XorFold(len) = Xor(h, m)
    BY DEF XorFold
  <2>2. b \in h <=> Cardinality(A) % 2 = 1
    OBVIOUS
  <2>3. b \in m <=> kept
    BY <1>2 DEF Word, Mask
  <2> HIDE DEF h, m, A, kept
  <2> QED
    BY <2>1, <2>2, <2>3 DEF Xor
<1>5. A = B
  BY DEF Word
<1>6. ReachOf(t) = IF r = 0 THEN bits - W ELSE bits
  BY DEF ReachOf
<1> HIDE DEF len, bits
<1>7. /\ last \in Nat /\ r \in 0 .. W - 1
      /\ W * last = IF r = 0 THEN bits - W ELSE bits - r
  <2>1. last = LastIn(bits, W) /\ r = RestOf(bits, W)
    BY DEF LastIn, RestOf
  <2> HIDE DEF W, last, r
  <2> QED
    BY <1>2, <2>1, LastWord
<1> HIDE DEF last, r
<1>8. IsFiniteSet(P) /\ Cardinality(P) = Cardinality(B) /\ Cardinality(P) \in Nat
  <2>1. IsFiniteSet(P) /\ Cardinality(P) = Cardinality(B)
    <3>1. P = PlacesBelow(bhr, W, last, b) /\ B = WordsBelow(bhr, W, last, b)
      BY DEF PlacesBelow, WordsBelow
    <3>2. last \in Nat
      BY <1>7
    <3> HIDE DEF P, B, W
    <3> QED
      BY <1>2, <1>3, <3>1, <3>2, WordsOfBit
  <2> QED
    BY <2>1, FS_CardinalityType
<1>9. CASE ~kept
  <2>1. Seen(bhr, t, b) = P
    <3>1. ASSUME NEW p \in bhr, p % W = b
          PROVE  p < ReachOf(t) <=> p < W * last
      <4>1. p \in Nat /\ W * last \in Nat
        BY <1>2, <1>3, <1>7
      <4>2. CASE r = 0
        BY <1>6, <1>7, <4>2
      <4>3. CASE r # 0
        <5> DEFINE q == p \div W
                   x == W * last
        <5>1. q \in Nat /\ p = W * q + b
          <6>1. p % W = b
            BY <3>1
          <6> QED
            BY <1>2, <4>1, <6>1
        <5>2. ReachOf(t) = x + r
          BY <1>2, <1>6, <1>7, <4>3
        <5>3. ASSUME p < x + r, x <= p PROVE FALSE
          <6>1. last <= q
            <7> SUFFICES ASSUME q + 1 <= last PROVE FALSE
              BY <1>7, <5>1
            <7> HIDE DEF q
            <7>1. W * (q + 1) <= W * last
              BY <1>2, <1>7, <5>1
            <7>2. W * (q + 1) = W * q + W
              BY <1>2, <5>1
            <7> DEFINE y == W * q
            <7>3. y \in Nat /\ y + W <= x /\ p = y + b /\ x \in Nat /\ b < W
              BY <1>2, <4>1, <5>1, <7>1, <7>2
            <7> HIDE DEF x, y
            <7> QED
              BY <1>2, <4>1, <5>3, <7>3
          <6>2. q <= last
            <7> SUFFICES ASSUME last + 1 <= q PROVE FALSE
              BY <1>7, <5>1
            <7> HIDE DEF q
            <7>1. W * (last + 1) <= W * q
              BY <1>2, <1>7, <5>1
            <7>2. W * (last + 1) = W * last + W
              BY <1>2, <1>7
            <7> DEFINE y == W * q
            <7>3. y \in Nat /\ x + W <= y /\ p = y + b /\ x \in Nat /\ r < W /\ r \in Nat
              BY <1>2, <1>7, <4>1, <5>1, <7>1, <7>2
            <7> HIDE DEF x, y
            <7> QED
              BY <1>2, <4>1, <5>3, <7>3
          <6>3. q = last
            BY <1>7, <5>1, <6>1, <6>2
          <6> HIDE DEF q
          <6>4. p = x + b /\ p = last * W + b
            BY <1>2, <1>7, <5>1, <6>3
          <6>5. b < r
            <7>1. x \in Nat /\ r \in Nat
              BY <1>7, <4>1
            <7> HIDE DEF x
            <7> QED
              BY <1>2, <4>1, <5>3, <6>4, <7>1
          <6> QED
            BY <1>9, <3>1, <6>4, <6>5
        <5> HIDE DEF x
        <5>4. x \in Nat /\ r \in Nat
          BY <1>7, <4>1 DEF x
        <5>5. p < x + r <=> p < x
          BY <4>1, <5>3, <5>4
        <5> QED
          BY <5>2, <5>5 DEF x
      <4> QED
        BY <4>2, <4>3
    <3> QED
      BY <3>1 DEF Seen
  <2> QED
    BY <1>4, <1>5, <1>8, <1>9, <2>1 DEF Odd, len
<1>10. CASE kept
  <2>1. Seen(bhr, t, b) = P \cup {top} /\ top \notin P
    <3> DEFINE x == W * last
    <3>0. r # 0 /\ b < r /\ top \in bhr /\ r \in Nat /\ x \in Nat /\ top = x + b
      BY <1>2, <1>7, <1>10
    <3>1. top % W = b /\ top \in Nat
      <4>1. (b + W * last) % W = b
        BY <1>2, <1>7, Quotient
      <4>2. top = b + W * last /\ top \in Nat
        BY <1>2, <1>7
      <4> QED
        BY <4>1, <4>2
    <3>2. ReachOf(t) = x + r
      BY <1>2, <1>6, <1>7, <3>0
    <3> HIDE DEF top
    <3>3. top \in Seen(bhr, t, b) /\ top \notin P
      <4> HIDE DEF x
      <4>1. top < x + r /\ ~(top < x)
        BY <1>2, <3>0, <3>1
      <4> QED
        BY <3>0, <3>1, <3>2, <4>1 DEF Seen, x
    <3>4. ASSUME NEW p \in bhr, p % W = b, p < x + r, ~(p < x) PROVE p = top
      <4> DEFINE q == p \div W
      <4>1. p \in Nat /\ q \in Nat /\ p = W * q + b
        <5>1. p % W = b /\ p \in Nat
          BY <1>3, <3>4
        <5> QED
          BY <1>2, <5>1
      <4> HIDE DEF q
      <4>2. last <= q
        <5> SUFFICES ASSUME q + 1 <= last PROVE FALSE
          BY <1>7, <4>1
        <5>1. W * (q + 1) <= W * last
          BY <1>2, <1>7, <4>1
        <5>2. W * (q + 1) = W * q + W
          BY <1>2, <4>1
        <5> DEFINE y == W * q
        <5>3. y \in Nat /\ y + W <= x /\ p = y + b /\ b < W
          BY <1>2, <4>1, <5>1, <5>2
        <5> HIDE DEF x, y
        <5> QED
          BY <1>2, <3>0, <3>4, <4>1, <5>3
      <4>3. q <= last
        <5> SUFFICES ASSUME last + 1 <= q PROVE FALSE
          BY <1>7, <4>1
        <5>1. W * (last + 1) <= W * q
          BY <1>2, <1>7, <4>1
        <5>2. W * (last + 1) = W * last + W
          BY <1>2, <1>7
        <5> DEFINE y == W * q
        <5>3. y \in Nat /\ x + W <= y /\ p = y + b /\ r < W
          BY <1>2, <1>7, <4>1, <5>1, <5>2
        <5> HIDE DEF x, y
        <5> QED
          BY <1>2, <3>0, <3>4, <4>1, <5>3
      <4>4. q = last
        BY <1>7, <4>1, <4>2, <4>3
      <4> QED
        BY <3>0, <4>1, <4>4
    <3>5. ASSUME NEW p \in bhr, p < x PROVE p < x + r
      <4>1. p \in Nat
        BY <1>3
      <4> HIDE DEF x
      <4> QED
        BY <3>0, <3>5, <4>1
    <3> HIDE DEF x
    <3>6. P = {p \in bhr : p < x /\ p % W = b}
      BY DEF x
    <3>7. Seen(bhr, t, b) = {p \in bhr : p < x + r /\ p % W = b}
      BY <3>2 DEF Seen
    <3> HIDE DEF P
    <3> QED
      BY <3>3, <3>4, <3>5, <3>6, <3>7
  <2> HIDE DEF P, top
  <2>2. Cardinality(Seen(bhr, t, b)) = Cardinality(P) + 1
    BY <1>8, <2>1, FS_AddElement
  <2>3. (Cardinality(P) + 1) % 2 = 1 <=> ~(Cardinality(P) % 2 = 1)
    <3> DEFINE c == Cardinality(P)
    <3>1. c \in Nat
      BY <1>8
    <3> HIDE DEF c
    <3>2. (c + 1) % 2 = 1 <=> ~(c % 2 = 1)
      BY <3>1
    <3> QED
      BY <3>2 DEF c
  <2> HIDE DEF A, B
  <2> QED
    BY <1>4, <1>5, <1>8, <1>10, <2>2, <2>3 DEF Odd, len
<1> QED
  BY <1>9, <1>10

-----------------------------------------------------------------------------
(* The words whose numbers the hashes are, as functions of a history.      *)
IndexOf(h, t, a) == {b \in Mask(LgPht) : ~(b - AddrShift \in Bits(a) <=> Odd(Seen(h, t, b)))}
TagWord(a) == Bits(a) \cap Mask(TagLen)
BaseWord(a) == {b \in TagWord(a) : b < LgPht}
ShiftOf(h, t) == (Up(h, 1) \cap Mask(needed_history_length)) \cup (IF t THEN {0} ELSE {})

(* The hash of a table is the number of the word that the outcomes and the *)
(* address fold to.                                                        *)
LEMMA HashIsIndex ==
    ASSUME bhr \subseteq Mask(needed_history_length), NEW t \in Tables, NEW a
    PROVE  Hash(t, a) = Number(IndexOf(bhr, t, a))
<1> DEFINE U == Up(Bits(a), AddrShift)
           X == XorFold(TableLengths[t + 1])
<1>1. ASSUME NEW b \in Mask(LgPht) PROVE b \in X <=> Odd(Seen(bhr, t, b))
  <2>1. b \in Mask(WordBits)
    BY Widths DEF Mask
  <2> QED
    BY <2>1, FoldParity
<1>2. ASSUME NEW b \in Mask(LgPht) PROVE b \in U <=> b - AddrShift \in Bits(a)
  <2>1. \A c \in Bits(a) : c \in Int
    BY DEF Bits, Mask
  <2>2. b \in Int /\ AddrShift \in Int
    BY Widths DEF Mask
  <2> HIDE DEF U
  <2>3. U = {c + AddrShift : c \in Bits(a)}
    BY DEF U, Up
  <2>4. ASSUME NEW c \in Bits(a), b = c + AddrShift PROVE b - AddrShift \in Bits(a)
    <3>1. b - AddrShift = c
      BY <2>1, <2>2, <2>4
    <3> QED
      BY <3>1
  <2>5. ASSUME b - AddrShift \in Bits(a) PROVE b \in {c + AddrShift : c \in Bits(a)}
    <3>1. (b - AddrShift) + AddrShift = b
      BY <2>2
    <3> QED
      BY <2>5, <3>1
  <2> QED
    BY <2>3, <2>4, <2>5
<1> HIDE DEF U, X
<1>3. Xor(X, U) \cap Mask(LgPht) = IndexOf(bhr, t, a)
  BY <1>1, <1>2 DEF Xor, IndexOf
<1> QED
  BY <1>3 DEF Hash, U, X

(* The tag as the word of its bits, and the untagged counter's index.      *)
LEMMA TagBits ==
    ASSUME NEW a
    PROVE  /\ pc_hash(a) = Number(TagWord(a)) /\ TagWord(a) \in SUBSET Mask(TagLen)
           /\ {b \in Mask(TagLen) : (pc_hash(a) \div 2^b) % 2 = 1} = TagWord(a)
           /\ pc_hash(a) % 2^LgPht = Number(BaseWord(a)) /\ BaseWord(a) \in SUBSET Mask(LgPht)
<1>1. pc_hash(a) = Number(TagWord(a)) /\ TagWord(a) \in SUBSET Mask(TagLen)
  BY DEF pc_hash, TagWord
<1>2. \A b \in Mask(TagLen) : (pc_hash(a) \div 2^b) % 2 = 1 <=> b \in TagWord(a)
  <2> SUFFICES ASSUME NEW b \in Mask(TagLen)
               PROVE  (pc_hash(a) \div 2^b) % 2 = 1 <=> b \in TagWord(a)
    OBVIOUS
  <2>1. b \in Nat
    BY Widths, MaskFinite
  <2>2. TagLen \in Nat
    BY Widths
  <2>3. (Number(TagWord(a)) \div 2^b) % 2 = 1 <=> b \in TagWord(a)
    BY <1>1, <2>1, <2>2, NumberBits
  <2> QED
    BY <1>1, <2>3
<1>3. pc_hash(a) % 2^LgPht = Number(BaseWord(a))
  BY <1>1, NumberBits, Widths DEF BaseWord
<1>4. BaseWord(a) \in SUBSET Mask(LgPht)
  <2>1. \A b \in Mask(TagLen) : b \in Nat
    BY Widths, MaskFinite
  <2>2. \A b \in Nat : b < LgPht => b \in Mask(LgPht)
    BY Widths DEF Mask
  <2> QED
    BY <1>1, <2>1, <2>2 DEF BaseWord
<1>5. {b \in Mask(TagLen) : (pc_hash(a) \div 2^b) % 2 = 1} = TagWord(a)
  BY <1>1, <1>2
<1> QED
  BY <1>1, <1>3, <1>4, <1>5

(* Two tags are the same if their bits are.                                *)
LEMMA TagsDiffer ==
    ASSUME NEW g \in 0 .. 2^TagLen - 1, NEW a
    PROVE  g = pc_hash(a) <=> {b \in Mask(TagLen) : (g \div 2^b) % 2 = 1} = TagWord(a)
<1>1. Number({b \in Mask(TagLen) : (g \div 2^b) % 2 = 1}) = g
  BY BitsOfNumber, Widths
<1> QED
  BY <1>1, TagBits

-----------------------------------------------------------------------------
(* Between predict and update the locals of branch and the members of the  *)
(* object are what the abstract predictor computes from the history that   *)
(* predict saw, although the history has moved on.                         *)
RefInv ==
    /\ TypeInv
    /\ phase = "predicted" => seen = bhr
    /\ phase = "resolved" => bhr = ShiftOf(seen, taken)
    /\ phase # "idle" =>
          LET matching == {t \in Tables : Hit(t, hashes, addr)} IN
          /\ hashes = [t \in Tables |-> Number(IndexOf(seen, t, addr))]
          /\ matching = {} => /\ table = 0 /\ entry = pc_hash(addr) % 2^LgPht
                              /\ bp = (GetValue(pht, entry) > 1)
          /\ matching # {} => /\ table = First(matching) + 1
                              /\ entry = hashes[First(matching)]
                              /\ bp = Says(First(matching), hashes)

(* Between predict and update what was looked up stays that of the history *)
(* that predict saw.                                                       *)
LEMMA RefInvStep == RefInv /\ [TageNext]_tageVars => RefInv'
<1> SUFFICES ASSUME RefInv, [TageNext]_tageVars PROVE RefInv'
  OBVIOUS
<1>0. TypeInv /\ TypeInv'
  BY TypeInvStep DEF RefInv
<1>1. ASSUME NEW a \in Addr, TagePredict(a)
      PROVE  RefInv'
  <2> DEFINE hs == [t \in Tables |-> Hash(t, a)]
             i == pc_hash(a) % 2^LgPht
             matching == {t \in Tables : Hit(t, hs, a)}
             now == {t \in Tables : tage_tables'[t][hashes'[t]].tag = pc_hash(addr')}
  <2>1. /\ phase' = "predicted" /\ addr' = a /\ seen' = bhr /\ bhr' = bhr /\ hashes' = hs
        /\ tage_tables' = tage_tables /\ pht' = pht
        /\ matching = {} => table' = 0 /\ entry' = i /\ bp' = (GetValue(pht, i) > 1)
        /\ matching # {} => /\ table' = First(matching) + 1 /\ entry' = hs[First(matching)]
                            /\ bp' = Says(First(matching), hs)
    BY <1>1 DEF TagePredict
  <2>2. hs = [t \in Tables |-> Number(IndexOf(bhr, t, a))]
    <3>1. \A t \in Tables : Hash(t, a) = Number(IndexOf(bhr, t, a))
      BY <1>0, HashIsIndex DEF TypeInv, TageTypeOK
    <3> QED
      BY <3>1
  <2> HIDE DEF hs
  <2>3. hashes' = [t \in Tables |-> Number(IndexOf(seen', t, addr'))]
    BY <2>1, <2>2
  <2>4. now = matching
    BY <2>1 DEF Hit
  <2>5. First(now) = First(matching)
    BY <2>4
  <2>6. matching = {} => /\ table' = 0 /\ entry' = pc_hash(addr') % 2^LgPht
                         /\ bp' = (GetValue(pht', entry') > 1)
    BY <2>1
  <2>7. matching # {} => /\ table' = First(now) + 1 /\ entry' = hashes'[First(now)]
                         /\ bp' = (tage_tables'[First(now)][hashes'[First(now)]].pred > 1)
    BY <2>1, <2>5 DEF Says
  <2> DEFINE none == now = {} => /\ table' = 0 /\ entry' = pc_hash(addr') % 2^LgPht
                                /\ bp' = (GetValue(pht', entry') > 1)
             some == now # {} => /\ table' = First(now) + 1 /\ entry' = hashes'[First(now)]
                                 /\ bp' = (tage_tables'[First(now)][hashes'[First(now)]].pred > 1)
  <2>8. none /\ some
    <3> HIDE DEF matching, now, i
    <3> QED
      BY <2>4, <2>6, <2>7
  <2>9. phase' = "predicted" /\ seen' = bhr'
    BY <2>1
  <2> HIDE DEF matching, i
  <2> QED
    BY <1>0, <2>3, <2>8, <2>9, Zenon DEF RefInv, Hit, Says
<1>2. ASSUME NEW t \in BOOLEAN, TageResolve(t)
      PROVE  RefInv'
  <2>1. /\ phase = "predicted" /\ phase' = "resolved" /\ taken' = t /\ bhr' = ShiftedBhr(t)
        /\ UNCHANGED <<tage_tables, pht, hashes, addr, table, entry, bp, seen>>
    BY <1>2 DEF TageResolve
  <2>2. bhr' = ShiftOf(seen', taken')
    BY <2>1 DEF RefInv, ShiftOf, ShiftedBhr
  <2> QED
    BY <1>0, <2>1, <2>2 DEF RefInv, Hit, Says, IndexOf, Seen, Odd, GetValue, ShiftOf
<1>3. CASE TageUpdate
  BY <1>0, <1>3 DEF TageUpdate, RefInv
<1>4. CASE TageJump
  BY <1>0, <1>4 DEF TageJump, RefInv
<1>5. CASE UNCHANGED tageVars
  BY <1>0, <1>5 DEF tageVars, RefInv, Hit, Says, IndexOf, Seen, Odd, GetValue, ShiftOf
<1> QED
  BY <1>1, <1>2, <1>3, <1>4, <1>5 DEF TageNext

(* The invariant of the refinement holds throughout.                       *)
LEMMA RefInductive == TageSpecification => []RefInv
<1>1. TageInit => RefInv
  BY TypeInvStart DEF RefInv, TageInit
<1> QED
  BY <1>1, RefInvStep, PTL DEF TageSpecification

-----------------------------------------------------------------------------
(* The abstract predictor's operators, at a resolved branch.               *)
AbstractEntry(r) == [pred |-> r.pred, tag |-> {b \in Mask(TagLen) : (r.tag \div 2^b) % 2 = 1}]

(* Both sides take the same tag and the same index of the base table from  *)
(* an address.                                                             *)
LEMMA AbstractTag ==
    ASSUME NEW a
    PROVE  TS!TagOf(a) = TagWord(a) /\ TS!BaseIndex(a) = BaseWord(a)
<1>1. TS!TagOf(a) = TagWord(a)
  <2>1. \A b \in Mask(TagLen) : b \in Mask(WordBits \div 2) /\ b >= 0
    BY Widths DEF Mask
  <2>2. TS!TagOf(a) = {b \in Mask(TagLen) : b >= 0 /\ (a \div 2^b) % 2 = 1}
    BY DEF TS!TagOf, TS!BitOf, Mask
  <2> QED
    BY <2>1, <2>2 DEF TagWord, Bits
<1> QED
  BY <1>1 DEF TS!BaseIndex, BaseWord

(* FiniteSets, as TageSpec extends it and as this module does.             *)
LEMMA SameCardinality == \A S : TS!Cardinality(S) = Cardinality(S)
  BY DEF TS!Cardinality, Cardinality

(* Both sides have the same two-bit counters.                              *)
LEMMA SameSaturate == \A v, incr : TS!Saturate(v, incr) = Saturate(v, incr)
  BY DEF TS!Saturate, Saturate

(* Both sides look in the same entry of a table.                           *)
LEMMA AbstractIndex ==
    ASSUME phase = "resolved", NEW t \in Tables, NEW a
    PROVE  TS!TableIndex(t, a) = IndexOf(seen, t, a)
<1>1. ASSUME NEW b \in Mask(LgPht)
      PROVE  TS!BitOf(a, b - AddrShift) <=> b - AddrShift \in Bits(a)
  <2>1. /\ b \in Nat /\ AddrShift \in Nat /\ LgPht \in Nat /\ WordBits \div 2 \in Nat
        /\ b < LgPht /\ LgPht <= WordBits \div 2
    BY Widths DEF Mask
  <2>2. b - AddrShift >= 0 <=> b - AddrShift \in Mask(WordBits \div 2)
    <3>1. PICK half \in Nat : half = WordBits \div 2
      BY <2>1
    <3>2. b < half
      BY <2>1, <3>1
    <3>3. b - AddrShift >= 0 <=> b - AddrShift \in 0 .. half - 1
      BY <2>1, <3>2
    <3> QED
      BY <3>1, <3>3 DEF Mask
  <2> QED
    BY <2>2 DEF TS!BitOf, Bits
<1> DEFINE hist == IF phase = "resolved" THEN seen ELSE bhr
<1>2. TS!TableIndex(t, a) =
        {b \in Mask(LgPht) :
            TS!BitOf(a, b - AddrShift) #
            (TS!Cardinality({p \in hist : p < [u \in Tables |-> ReachOf(u)][t] /\ p % WordBits = b}) % 2 = 1)}
  BY DEF TS!TableIndex, Mask
<1>6. hist = seen
  OBVIOUS
<1> HIDE DEF hist
<1>3. [u \in Tables |-> ReachOf(u)][t] = ReachOf(t)
  OBVIOUS
<1>4. TS!TableIndex(t, a) = {b \in Mask(LgPht) : TS!BitOf(a, b - AddrShift) # Odd(Seen(seen, t, b))}
  <2>1. \A b : {p \in seen : p < [u \in Tables |-> ReachOf(u)][t] /\ p % WordBits = b} = Seen(seen, t, b)
    BY <1>3 DEF Seen
  <2> QED
    BY <1>2, <1>6, <2>1, SameCardinality DEF Odd
<1>5. \A b : TS!BitOf(a, b) \in BOOLEAN /\ Odd(b) \in BOOLEAN
  BY DEF TS!BitOf, Odd
<1> QED
  BY <1>1, <1>4, <1>5 DEF IndexOf

(* The concrete state behind the abstract predictor's choice.              *)
LEMMA AbstractChoice ==
    ASSUME RefInv, phase = "resolved", NEW a \in Addr, a = addr
    PROVE  /\ \A t \in Tables : /\ TS!TableIndex(t, a) \in SUBSET Mask(LgPht)
                                /\ hashes[t] = Number(TS!TableIndex(t, a))
           /\ TS!Provider(a) = table - 1
           /\ table = 0 => entry = Number(BaseWord(a))
           /\ table # 0 => table - 1 \in Tables /\ entry = hashes[table - 1]
           /\ TS!Predicted(a) = bp
<1> DEFINE matching == {t \in Tables : Hit(t, hashes, addr)}
           T == [t \in Tables |-> [x \in SUBSET Mask(LgPht) |->
                    [pred |-> tage_tables[t][Number(x)].pred,
                     tag |-> {b \in Mask(TagLen) : (tage_tables[t][Number(x)].tag \div 2^b) % 2 = 1}]]]
<1>1. /\ hashes = [t \in Tables |-> Number(IndexOf(seen, t, addr))]
      /\ matching = {} => /\ table = 0 /\ entry = pc_hash(addr) % 2^LgPht
                          /\ bp = (GetValue(pht, entry) > 1)
      /\ matching # {} => /\ table = First(matching) + 1
                          /\ entry = hashes[First(matching)]
                          /\ bp = Says(First(matching), hashes)
  BY DEF RefInv
<1>2. \A t \in Tables : /\ TS!TableIndex(t, a) \in SUBSET Mask(LgPht)
                        /\ hashes[t] = Number(TS!TableIndex(t, a))
  <2>1. \A t \in Tables : TS!TableIndex(t, a) = IndexOf(seen, t, a)
    BY AbstractIndex
  <2>2. \A t \in Tables : IndexOf(seen, t, a) \in SUBSET Mask(LgPht)
    BY DEF IndexOf
  <2> QED
    BY <1>1, <2>1, <2>2
<1>3. tage_tables \in TageTables /\ hashes \in [Tables -> Entries]
  BY DEF RefInv, TypeInv, TageTypeOK, TageTables
<1>4. \A t \in Tables : T[t][TS!TableIndex(t, a)] = AbstractEntry(tage_tables[t][hashes[t]])
  BY <1>2 DEF AbstractEntry
<1>5. ASSUME NEW t \in Tables
      PROVE  T[t][TS!TableIndex(t, a)].tag = TagWord(a) <=> Hit(t, hashes, addr)
  <2>1. tage_tables[t][hashes[t]].tag \in 0 .. 2^TagLen - 1
    <3>1. tage_tables[t][hashes[t]] \in [pred : 0 .. 3, useful : 0 .. 3, tag : 0 .. 2^TagLen - 1]
      BY <1>3 DEF TageTables
    <3> QED
      BY <3>1
  <2>2. T[t][TS!TableIndex(t, a)].tag =
          {b \in Mask(TagLen) : (tage_tables[t][hashes[t]].tag \div 2^b) % 2 = 1}
    <3> DEFINE r == tage_tables[t][hashes[t]]
    <3>1. T[t][TS!TableIndex(t, a)] = AbstractEntry(r)
      BY <1>4
    <3> HIDE DEF T, r
    <3>2. T[t][TS!TableIndex(t, a)].tag = {b \in Mask(TagLen) : (r.tag \div 2^b) % 2 = 1}
      BY <3>1 DEF AbstractEntry
    <3> QED
      BY <3>2 DEF r
  <2> HIDE DEF T
  <2> QED
    BY <2>1, <2>2, TagsDiffer DEF Hit
<1>6. TS!Matching(a) = matching
  <2>1. TS!Tables = Tables
    BY DEF TS!Tables
  <2>2. TS!Matching(a) = {t \in Tables : T[t][TS!TableIndex(t, a)].tag = TS!TagOf(a)}
    BY <2>1 DEF TS!Matching
  <2> HIDE DEF T
  <2> QED
    BY <1>5, <2>2, AbstractTag
<1>7. TS!First(matching) = First(matching)
  BY DEF TS!First, First
<1>8. TS!Provider(a) = IF matching = {} THEN -1 ELSE First(matching)
  BY <1>6, <1>7 DEF TS!Provider
<1>9. matching # {} => First(matching) \in matching /\ First(matching) \in Tables /\ First(matching) \in Nat
  <2>1. matching \in SUBSET Nat /\ matching \in SUBSET Tables
    BY TablesAreNat
  <2> HIDE DEF matching
  <2> QED
    BY <2>1, FirstIsLeast
<1>10. pc_hash(a) % 2^LgPht = Number(BaseWord(a)) /\ BaseWord(a) \in SUBSET Mask(LgPht)
  BY TagBits
<1> DEFINE base == [x \in SUBSET Mask(LgPht) |-> GetValue(pht, Number(x))]
<1>11. TS!Predicted(a) = IF TS!Provider(a) = -1 THEN base[TS!BaseIndex(a)] > 1
                         ELSE T[TS!Provider(a)][TS!TableIndex(TS!Provider(a), a)].pred > 1
  BY DEF TS!Predicted
<1>12. base[TS!BaseIndex(a)] = GetValue(pht, Number(BaseWord(a)))
  BY <1>10, AbstractTag
<1>13. \A t \in Tables : T[t][TS!TableIndex(t, a)].pred = tage_tables[t][hashes[t]].pred
  <2>1. \A r : AbstractEntry(r).pred = r.pred
    BY DEF AbstractEntry
  <2> HIDE DEF T
  <2> QED
    BY <1>4, <2>1
<1> HIDE DEF T, base, matching
<1>14. CASE matching = {}
  BY <1>1, <1>2, <1>8, <1>10, <1>11, <1>12, <1>14
<1>15. CASE matching # {}
  <2> DEFINE f == First(matching)
  <2>1. f \in Tables /\ f \in Nat /\ TS!Provider(a) = f /\ table = f + 1 /\ entry = hashes[f]
        /\ bp = Says(f, hashes) /\ f # -1
    BY <1>1, <1>8, <1>9, <1>15
  <2> HIDE DEF f
  <2>2. TS!Predicted(a) = (tage_tables[f][hashes[f]].pred > 1)
    BY <1>11, <1>13, <2>1
  <2>3. TS!Predicted(a) = bp
    BY <2>1, <2>2 DEF Says
  <2>4. table - 1 = f /\ table # 0
    BY <2>1
  <2> QED
    BY <1>2, <2>1, <2>3, <2>4
<1> QED
  BY <1>14, <1>15

-----------------------------------------------------------------------------
(* update makes the step of the abstract predictor.                        *)
LEMMA TaggedMaps ==
    ASSUME RefInv, TageUpdate, NEW a \in Addr, a = addr, NEW out \in BOOLEAN, out = taken,
           NEW t \in Tables, NEW x \in SUBSET Mask(LgPht)
    PROVE  AbstractEntry(tage_tables'[t][Number(x)]) =
              LET old == AbstractEntry(tage_tables[t][Number(x)]) IN
              IF TS!Predicted(a) # out /\ t = TS!Provider(a) + 1 /\ x = TS!TableIndex(t, a)
                THEN [pred |-> 1, tag |-> TS!TagOf(a)]
              ELSE IF t = TS!Provider(a) /\ x = TS!TableIndex(t, a)
                THEN [old EXCEPT !.pred = Saturate(@, out)] ELSE old
<1> DEFINE e == Number(x)
           r == tage_tables[t][e]
           new == ~Correct /\ t = table /\ e = hashes[t]
           mine == t = table - 1 /\ e = entry
<1>1. phase = "resolved" /\ TypeInv /\ TageInv /\ hashes \in [Tables -> Entries]
  BY DEF TageUpdate, RefInv, TypeInv, TageTypeOK
<1>2. e \in Entries
  BY NumberBound, Widths DEF Entries
<1>3. tage_tables'[t][e] = IF new THEN Entry(1, pc_hash(addr))
                           ELSE Entry(IF mine THEN Saturate(r.pred, taken) ELSE r.pred, r.tag)
  <2>1. tage_tables' = Reset(Allocated(Learned))
    BY DEF TageUpdate
  <2> QED
    BY <1>1, <1>2, <2>1, UpdatedEntry
<1>4. /\ TS!TableIndex(t, a) \in SUBSET Mask(LgPht)
      /\ hashes[t] = Number(TS!TableIndex(t, a))
      /\ TS!Provider(a) = table - 1
      /\ table # 0 => table - 1 \in Tables /\ entry = hashes[table - 1]
      /\ TS!Predicted(a) = bp
  BY <1>1, AbstractChoice
<1>5. e = hashes[t] <=> x = TS!TableIndex(t, a)
  BY <1>4, NumberInjective, Widths
<1>6. table \in Nat /\ t \in Nat
  BY <1>1, TablesAreNat DEF TageInv
<1>7. new <=> TS!Predicted(a) # out /\ t = TS!Provider(a) + 1 /\ x = TS!TableIndex(t, a)
  <2>1. TS!Provider(a) + 1 = table
    BY <1>4, <1>6
  <2>2. Correct <=> TS!Predicted(a) = out
    BY <1>4 DEF Correct
  <2> HIDE DEF e
  <2> QED
    BY <1>5, <2>1, <2>2
<1>8. mine <=> t = TS!Provider(a) /\ x = TS!TableIndex(t, a)
  <2>1. t = table - 1 => table # 0
    BY <1>6
  <2> HIDE DEF e
  <2> QED
    BY <1>4, <1>5, <2>1
<1>9. \A p, g : AbstractEntry(Entry(p, g)) = [pred |-> p, tag |-> {b \in Mask(TagLen) : (g \div 2^b) % 2 = 1}]
  BY DEF AbstractEntry, Entry
<1>10. AbstractEntry(Entry(1, pc_hash(addr))) = [pred |-> 1, tag |-> TS!TagOf(a)]
  BY <1>9, TagBits, AbstractTag
<1>11. AbstractEntry(Entry(r.pred, r.tag)) = AbstractEntry(r)
  BY <1>9 DEF AbstractEntry
<1>12. AbstractEntry(Entry(Saturate(r.pred, taken), r.tag))
          = [AbstractEntry(r) EXCEPT !.pred = Saturate(@, out)]
  <2> DEFINE g == {b \in Mask(TagLen) : (r.tag \div 2^b) % 2 = 1}
  <2>1. AbstractEntry(Entry(Saturate(r.pred, taken), r.tag)) = [pred |-> Saturate(r.pred, taken), tag |-> g]
    BY <1>9
  <2>2. AbstractEntry(r) = [pred |-> r.pred, tag |-> g]
    BY DEF AbstractEntry
  <2> HIDE DEF g
  <2>3. [AbstractEntry(r) EXCEPT !.pred = Saturate(@, out)] = [pred |-> Saturate(r.pred, out), tag |-> g]
    BY <2>2
  <2> QED
    BY <2>1, <2>3
<1> HIDE DEF e, r, new, mine
<1>13. CASE new
  BY <1>3, <1>7, <1>10, <1>13 DEF e
<1>14. CASE ~new /\ mine
  BY <1>3, <1>7, <1>8, <1>12, <1>14 DEF e, r
<1>15. CASE ~new /\ ~mine
  BY <1>3, <1>7, <1>8, <1>11, <1>15 DEF e, r
<1> QED
  BY <1>13, <1>14, <1>15

(* The untagged counters are trained where no table provides.              *)
LEMMA BaseMaps ==
    ASSUME RefInv, TageUpdate, NEW a \in Addr, a = addr, NEW out \in BOOLEAN, out = taken,
           NEW x \in SUBSET Mask(LgPht)
    PROVE  GetValue(pht', Number(x)) =
              IF TS!Provider(a) = -1 /\ x = BaseWord(a) THEN Saturate(GetValue(pht, Number(x)), out)
              ELSE GetValue(pht, Number(x))
<1>1. phase = "resolved" /\ TypeInv /\ TageInv /\ entry \in Entries /\ pht \in CounterArrays(2^LgPht)
  BY DEF TageUpdate, RefInv, TypeInv, TageTypeOK
<1>2. Number(x) \in 0 .. 2^LgPht - 1 /\ entry \in 0 .. 2^LgPht - 1
  BY <1>1, NumberBound, Widths DEF Entries
<1>3. TS!Provider(a) = table - 1 /\ (table = 0 => entry = Number(BaseWord(a)))
  BY <1>1, AbstractChoice
<1>4. BaseWord(a) \in SUBSET Mask(LgPht)
  BY TagBits
<1>5. Number(x) = Number(BaseWord(a)) <=> x = BaseWord(a)
  BY <1>4, NumberInjective, Widths
<1>6. pht' = IF table = 0 THEN UpdateCounter(pht, entry, taken) ELSE pht
  BY DEF TageUpdate
<1>7. table \in Nat
  BY <1>1, TablesAreNat DEF TageInv
<1>8. TS!Provider(a) = -1 <=> table = 0
  BY <1>3, <1>7
<1>9. CASE table = 0
  <2>1. GetValue(UpdateCounter(pht, entry, out), Number(x)) =
          IF Number(x) = entry THEN Saturate(GetValue(pht, entry), out) ELSE GetValue(pht, Number(x))
    BY <1>1, <1>2, UpdateCounterCorrect, Widths
  <2> QED
    BY <1>3, <1>5, <1>6, <1>8, <1>9, <2>1
<1>10. CASE table # 0
  BY <1>6, <1>8, <1>10
<1> QED
  BY <1>9, <1>10

(* The shift on words is the shift of the outcomes.                        *)
LEMMA HistoryMaps ==
    ASSUME NEW h \in SUBSET Mask(needed_history_length), NEW t \in BOOLEAN
    PROVE  ShiftOf(h, t) =
              {p \in 1 .. needed_history_length - 1 : p - 1 \in h} \cup (IF t THEN {0} ELSE {})
<1> DEFINE n == needed_history_length
<1>1. n \in Nat /\ h \in SUBSET (0 .. n - 1)
  BY Widths DEF Mask
<1> HIDE DEF n
<1>2. {b + 1 : b \in h} \cap (0 .. n - 1) = {p \in 1 .. n - 1 : p - 1 \in h}
  <2>1. ASSUME NEW p \in {b + 1 : b \in h}, p \in 0 .. n - 1 PROVE p \in 1 .. n - 1 /\ p - 1 \in h
    <3>1. PICK b \in h : p = b + 1
      BY <2>1
    <3>2. b \in Nat /\ p - 1 = b
      BY <1>1, <3>1
    <3> QED
      BY <1>1, <2>1, <3>1, <3>2
  <2>2. ASSUME NEW p \in 1 .. n - 1, p - 1 \in h PROVE p \in {b + 1 : b \in h} /\ p \in 0 .. n - 1
    <3>1. (p - 1) + 1 = p
      BY <1>1
    <3> QED
      BY <1>1, <2>2, <3>1
  <2> QED
    BY <2>1, <2>2
<1>3. ShiftOf(h, t) = ({b + 1 : b \in h} \cap (0 .. n - 1)) \cup (IF t THEN {0} ELSE {})
  BY DEF ShiftOf, Up, Mask, n
<1>4. ShiftOf(h, t) = {p \in 1 .. n - 1 : p - 1 \in h} \cup (IF t THEN {0} ELSE {})
  BY <1>2, <1>3
<1> QED
  BY <1>4 DEF n

-----------------------------------------------------------------------------
(* As created, tage is the abstract predictor as created.                  *)
LEMMA RefStart == TageInit => TS!TSInit
<1> SUFFICES ASSUME TageInit PROVE TS!TSInit
  OBVIOUS
<1>1. /\ bhr = {} /\ phase = "idle" /\ n_branches = 0 /\ n_mispredicts = 0
      /\ tage_tables = [t \in Tables |-> [e \in Entries |-> ClearEntry]]
      /\ pht = NewCounters(2^LgPht)
  BY DEF TageInit
<1>2. \A x \in SUBSET Mask(LgPht) : Number(x) \in Entries
  BY NumberBound, Widths DEF Entries
<1>3. \A x \in SUBSET Mask(LgPht) : GetValue(pht, Number(x)) = 1
  BY <1>1, <1>2, NewCountersCorrect, Widths DEF Entries
<1>4. AbstractEntry(ClearEntry) = [pred |-> 0, tag |-> {}]
  <2>1. {b \in Mask(TagLen) : (0 \div 2^b) % 2 = 1} = {}
    <3>1. \A b \in Mask(TagLen) : (Number({}) \div 2^b) % 2 = 1 <=> b \in {}
      <4> SUFFICES ASSUME NEW b \in Mask(TagLen) PROVE (Number({}) \div 2^b) % 2 = 1 <=> b \in {}
        OBVIOUS
      <4>1. b \in Nat /\ {} \in SUBSET Mask(TagLen)
        BY Widths, MaskFinite
      <4> QED
        BY <4>1, NumberBits, Widths
    <3> QED
      BY <3>1, NumberEmpty
  <2> QED
    BY <2>1 DEF AbstractEntry, ClearEntry
<1>5. \A t \in Tables, x \in SUBSET Mask(LgPht) :
        AbstractEntry(tage_tables[t][Number(x)]) = [pred |-> 0, tag |-> {}]
  BY <1>1, <1>2, <1>4
<1>6. [t \in Tables |-> [x \in SUBSET Mask(LgPht) |-> AbstractEntry(tage_tables[t][Number(x)])]]
        = [t \in Tables |-> [x \in SUBSET Mask(LgPht) |-> [pred |-> 0, tag |-> {}]]]
  BY <1>5
<1>7. TS!Tables = Tables
  BY DEF TS!Tables
<1>8. [x \in SUBSET Mask(LgPht) |-> GetValue(pht, Number(x))] = [x \in SUBSET Mask(LgPht) |-> 1]
  BY <1>3
<1>9. (IF phase = "resolved" THEN seen ELSE bhr) = {}
  BY <1>1
<1> QED
  BY <1>1, <1>6, <1>7, <1>8, <1>9 DEF TS!TSInit, AbstractEntry, Mask

(* One update is one branch of the abstract predictor.                     *)
LEMMA UpdateMaps ==
    ASSUME RefInv, TageUpdate, NEW a \in Addr, a = addr, NEW out \in BOOLEAN, out = taken
    PROVE  TS!TSBranch(a, out)
<1>1. phase = "resolved" /\ phase' = "idle" /\ bhr' = bhr /\ TypeInv
      /\ n_branches' = n_branches + 1
      /\ n_mispredicts' = n_mispredicts + (IF Correct THEN 0 ELSE 1)
  BY DEF TageUpdate, RefInv
<1>2. seen \in SUBSET Mask(needed_history_length) /\ bhr = ShiftOf(seen, out)
  BY <1>1 DEF RefInv, TypeInv, TageTypeOK
<1>3. bhr' = {p \in 1 .. needed_history_length - 1 : p - 1 \in seen} \cup (IF out THEN {0} ELSE {})
  BY <1>1, <1>2, HistoryMaps
<1>4. (IF phase' = "resolved" THEN seen' ELSE bhr') = TS!Shifted(out)
  <2>1. (IF phase' = "resolved" THEN seen' ELSE bhr') = bhr'
    BY <1>1
  <2>2. (IF phase = "resolved" THEN seen ELSE bhr) = seen
    BY <1>1
  <2>3. TS!Shifted(out) = {p \in 1 .. needed_history_length - 1 :
                              p - 1 \in (IF phase = "resolved" THEN seen ELSE bhr)}
                          \cup (IF out THEN {0} ELSE {})
    BY DEF TS!Shifted
  <2> QED
    BY <1>3, <2>1, <2>2, <2>3
<1>5. TS!Predicted(a) = bp
  BY <1>1, AbstractChoice
<1>6. Correct <=> TS!Predicted(a) = out
  BY <1>5 DEF Correct
<1>7. TS!Tables = Tables
  BY DEF TS!Tables
<1> DEFINE T == [t \in Tables |-> [x \in SUBSET Mask(LgPht) |->
                    [pred |-> tage_tables[t][Number(x)].pred,
                     tag |-> {b \in Mask(TagLen) : (tage_tables[t][Number(x)].tag \div 2^b) % 2 = 1}]]]
           TN == [t \in Tables |-> [x \in SUBSET Mask(LgPht) |->
                    [pred |-> tage_tables'[t][Number(x)].pred,
                     tag |-> {b \in Mask(TagLen) : (tage_tables'[t][Number(x)].tag \div 2^b) % 2 = 1}]]]
           New(t, x) == IF TS!Predicted(a) # out /\ t = TS!Provider(a) + 1 /\ x = TS!TableIndex(t, a)
                          THEN [pred |-> 1, tag |-> TS!TagOf(a)]
                        ELSE IF t = TS!Provider(a) /\ x = TS!TableIndex(t, a)
                          THEN [T[t][x] EXCEPT !.pred = TS!Saturate(@, out)] ELSE T[t][x]
<1>8. ASSUME NEW t \in Tables, NEW x \in SUBSET Mask(LgPht)
      PROVE  TN[t][x] = New(t, x)
  <2> DEFINE old == AbstractEntry(tage_tables[t][Number(x)])
  <2>1. T[t][x] = old
    BY DEF AbstractEntry
  <2>2. TN[t][x] = AbstractEntry(tage_tables'[t][Number(x)])
    BY DEF AbstractEntry
  <2> HIDE DEF T, TN, old
  <2>3. AbstractEntry(tage_tables'[t][Number(x)]) =
          IF TS!Predicted(a) # out /\ t = TS!Provider(a) + 1 /\ x = TS!TableIndex(t, a)
            THEN [pred |-> 1, tag |-> TS!TagOf(a)]
          ELSE IF t = TS!Provider(a) /\ x = TS!TableIndex(t, a)
            THEN [old EXCEPT !.pred = Saturate(@, out)] ELSE old
    BY TaggedMaps DEF old
  <2> QED
    BY <2>1, <2>2, <2>3, SameSaturate, Zenon
<1>9. TN = [t \in TS!Tables |-> [x \in SUBSET (0 .. LgPht - 1) |-> New(t, x)]]
  <2>1. TN = [t \in Tables |-> [x \in SUBSET Mask(LgPht) |-> TN[t][x]]]
    OBVIOUS
  <2> HIDE DEF TN, New, T
  <2>2. TN = [t \in Tables |-> [x \in SUBSET Mask(LgPht) |-> New(t, x)]]
    BY <1>8, <2>1
  <2> QED
    BY <1>7, <2>2 DEF Mask
<1> DEFINE B == [x \in SUBSET Mask(LgPht) |-> GetValue(pht, Number(x))]
           BN == [x \in SUBSET Mask(LgPht) |-> GetValue(pht', Number(x))]
           NewBase == IF TS!Provider(a) = -1
                        THEN [B EXCEPT ![TS!BaseIndex(a)] = TS!Saturate(@, out)] ELSE B
<1>10. BN = NewBase
  <2>1. TS!BaseIndex(a) = BaseWord(a) /\ BaseWord(a) \in SUBSET Mask(LgPht)
    BY AbstractTag, TagBits
  <2>2. ASSUME NEW x \in SUBSET Mask(LgPht)
        PROVE  BN[x] = IF TS!Provider(a) = -1 /\ x = BaseWord(a) THEN TS!Saturate(B[x], out) ELSE B[x]
    BY BaseMaps, SameSaturate
  <2>3. BN = [x \in SUBSET Mask(LgPht) |-> BN[x]] /\ B = [x \in SUBSET Mask(LgPht) |-> B[x]]
    OBVIOUS
  <2> HIDE DEF BN, B
  <2> QED
    BY <2>1, <2>2, <2>3
<1>11. n_mispredicts' = n_mispredicts + (IF TS!Predicted(a) # out THEN 1 ELSE 0)
  BY <1>1, <1>6
<1> QED
  BY <1>1, <1>4, <1>9, <1>10, <1>11, Zenon DEF TS!TSBranch

(* predict and the shift are stutters or shifts of the abstract predictor, *)
(* update is its step.                                                     *)
LEMMA RefStep == RefInv /\ [TageNext]_tageVars => [TS!TSNext]_(TS!tsVars)
<1> SUFFICES ASSUME RefInv, [TageNext]_tageVars PROVE [TS!TSNext]_(TS!tsVars)
  OBVIOUS
<1> DEFINE Hist == IF phase = "resolved" THEN seen ELSE bhr
           HistN == IF phase' = "resolved" THEN seen' ELSE bhr'
           Rest == UNCHANGED <<tage_tables, pht, n_branches, n_mispredicts>>
<1>0. HistN = Hist /\ Rest => UNCHANGED TS!tsVars
  BY DEF TS!tsVars
<1>1. ASSUME NEW a \in Addr, TagePredict(a)
      PROVE  HistN = Hist /\ Rest
  BY <1>1 DEF TagePredict
<1>2. ASSUME NEW t \in BOOLEAN, TageResolve(t)
      PROVE  HistN = Hist /\ Rest
  BY <1>2 DEF TageResolve, RefInv
<1>3. CASE TageUpdate
  <2>1. addr \in Addr /\ taken \in BOOLEAN
    BY <1>3 DEF TageUpdate, RefInv, TypeInv, TageTypeOK
  <2>2. PICK a \in Addr, out \in BOOLEAN : a = addr /\ out = taken
    BY <2>1
  <2>3. TS!TSBranch(a, out)
    BY <1>3, <2>2, UpdateMaps
  <2> QED
    BY <2>3 DEF TS!TSNext
<1>4. CASE TageJump
  <2>1. /\ phase = "idle" /\ phase' = "idle" /\ bhr' = ShiftOf(bhr, TRUE) /\ Rest
    BY <1>4 DEF TageJump, ShiftedBhr, ShiftOf
  <2>2. bhr \in SUBSET Mask(needed_history_length)
    BY DEF RefInv, TypeInv, TageTypeOK
  <2>3. bhr' = {p \in 1 .. needed_history_length - 1 : p - 1 \in bhr} \cup {0}
    BY <2>1, <2>2, HistoryMaps
  <2>4. Hist = bhr /\ HistN = bhr'
    BY <2>1
  <2>5. TS!Shifted(TRUE) = {p \in 1 .. needed_history_length - 1 : p - 1 \in Hist} \cup {0}
    BY DEF TS!Shifted
  <2> HIDE DEF Hist, HistN
  <2>6. HistN = TS!Shifted(TRUE)
    BY <2>3, <2>4, <2>5
  <2> QED
    BY <2>1, <2>6 DEF HistN, TS!TSJump, TS!TSNext
<1>5. ASSUME UNCHANGED tageVars
      PROVE  HistN = Hist /\ Rest
  BY <1>5 DEF tageVars
<1> HIDE DEF Hist, HistN, Rest
<1> QED
  BY <1>0, <1>1, <1>2, <1>3, <1>4, <1>5 DEF TageNext

(* tage is TageSpec for every number of tables, lengths of history, widths *)
(* and addresses: predict, the shift of the history and update make one    *)
(* step of it, although update goes by hashes of the history before.       *)
THEOREM TageRefinement == TageSpecification => ImplementsTage
<1>1. TageSpecification => []RefInv
  BY RefInductive
<1>2. RefInv /\ [TageNext]_tageVars => [TS!TSNext]_(TS!tsVars)
  BY RefStep
<1> QED
  BY <1>1, <1>2, RefStart, PTL DEF TageSpecification, ImplementsTage, TS!TSSpec
=============================================================================
