------------------------------ MODULE TageSpec ------------------------------
(***************************************************************************)
(* What is left of TAGE in branch_predictor.cc: tables of tagged counters  *)
(* in the order of their histories above one untagged table.  The first    *)
(* table with the branch's tag predicts and learns; a misprediction puts a *)
(* fresh entry into the table after it (the first, if none had the tag).   *)
(* Entries have no useful counter here: nothing ever protects one.         *)
(***************************************************************************)
EXTENDS TwobitCounterArray, FiniteSets

CONSTANTS
    Addr, WordBits,
    Reach,          \* outcomes that each table's index depends on
    Stored,         \* outcomes of history kept
    LgPht, TagLen, AddrShift

VARIABLES
    hist,           \* positions of the taken outcomes, 0 the newest
    tagged,         \* the tables: a counter and a tag for each index
    base,           \* the untagged counters
    branches, mispredicts

tsVars == <<hist, tagged, base, branches, mispredicts>>

Tables == DOMAIN Reach

BitOf(a, b) == b >= 0 /\ (a \div 2^b) % 2 = 1

(* Bit b is the parity of the outcomes at positions b modulo a word, xored *)
(* with bit b - AddrShift of the address.                                  *)
TableIndex(t, a) ==
    {b \in 0 .. LgPht - 1 :
        BitOf(a, b - AddrShift) #
        (Cardinality({p \in hist : p < Reach[t] /\ p % WordBits = b}) % 2 = 1)}

TagOf(a) == {b \in 0 .. TagLen - 1 : BitOf(a, b)}

Matching(a) == {t \in Tables : tagged[t][TableIndex(t, a)].tag = TagOf(a)}

First(S) == CHOOSE t \in S : \A u \in S : t <= u

(* -1 stands for the untagged table.                                       *)
Provider(a) == IF Matching(a) = {} THEN -1 ELSE First(Matching(a))

BaseIndex(a) == {b \in TagOf(a) : b < LgPht}

Predicted(a) ==
    IF Provider(a) = -1 THEN base[BaseIndex(a)] > 1
    ELSE tagged[Provider(a)][TableIndex(Provider(a), a)].pred > 1

TSInit ==
    /\ hist = {}
    /\ tagged = [t \in Tables |-> [x \in SUBSET (0 .. LgPht - 1) |-> [pred |-> 0, tag |-> {}]]]
    /\ base = [x \in SUBSET (0 .. LgPht - 1) |-> 1]
    /\ branches = 0 /\ mispredicts = 0

Shifted(taken) ==
    {p \in 1 .. Stored - 1 : p - 1 \in hist} \cup (IF taken THEN {0} ELSE {})

TSBranch(a, taken) ==
    LET from == Provider(a)
        wrong == Predicted(a) # taken
        Learned(t, x) ==
            IF t = from /\ x = TableIndex(t, a)
              THEN [tagged[t][x] EXCEPT !.pred = Saturate(@, taken)] ELSE tagged[t][x]
        Allocated(t, x) == wrong /\ t = from + 1 /\ x = TableIndex(t, a)
    IN /\ tagged' = [t \in Tables |-> [x \in SUBSET (0 .. LgPht - 1) |->
                        IF Allocated(t, x) THEN [pred |-> 1, tag |-> TagOf(a)] ELSE Learned(t, x)]]
       /\ base' = IF from = -1 THEN [base EXCEPT ![BaseIndex(a)] = Saturate(@, taken)] ELSE base
       /\ branches' = branches + 1
       /\ mispredicts' = mispredicts + (IF wrong THEN 1 ELSE 0)
       /\ hist' = Shifted(taken)

TSJump == hist' = Shifted(TRUE) /\ UNCHANGED <<tagged, base, branches, mispredicts>>

TSNext == (\E a \in Addr, taken \in BOOLEAN : TSBranch(a, taken)) \/ TSJump

TSSpec == TSInit /\ [][TSNext]_tsVars
=============================================================================
