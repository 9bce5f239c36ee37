--------------------------- MODULE PredictorSpec ---------------------------
(***************************************************************************)
(* What each predictor of branch_predictor.cc promises, as the books give  *)
(* it: a branch is resolved in one step, from counters that are indexed by *)
(* contexts of a branch address and the outcomes before it.                *)
(*                                                                         *)
(*   gshare       the address xored with the folded history                *)
(*   gtagged      the address and the newest half word of history, exactly *)
(*   uberhistory  the address and all of the history, exactly              *)
(*   bimodal      a bank of counters for branches biased each way, and a   *)
(*                choice between the banks by address                      *)
(***************************************************************************)
EXTENDS TwobitCounterArray, FiniteSets

CONSTANTS
    Addr,           \* branch addresses, in instructions
    WordBits,       \* bits of to_integer()
    BhrLen,         \* --bhr_len
    LgPht, LgCPht,  \* --lg_pht_sz, --lg_c_pht_sz
    Shift           \* distance the address is shifted by in gshare's xor

VARIABLES
    kind,           \* the predictor
    hist,           \* positions of the taken outcomes, 0 the newest
    ctr,            \* the counter of each context
    branches, mispredicts

psVars == <<kind, hist, ctr, branches, mispredicts>>

Stored == ((BhrLen + WordBits - 1) \div WordBits) * WordBits

BitsOf(a) == {b \in 0 .. WordBits \div 2 - 1 : (a \div 2^b) % 2 = 1}

Newest(h, n) == {p \in h : p < n}

(* Bit b of gshare's index is the parity of address bit b - Shift and of   *)
(* every outcome whose position is b modulo a quarter word.                *)
FoldedIndex(a, h) ==
    {b \in 0 .. LgPht - 1 :
        (b - Shift \in BitsOf(a)) #
        (Cardinality({p \in Newest(h, WordBits) : p % (WordBits \div 4) = b}) % 2 = 1)}

(* Bit b of bimodal's index is address bit b and the outcome b ago.        *)
BankIndex(a, h) == {b \in 0 .. LgPht - 1 : (b \in BitsOf(a)) # (b \in Newest(h, WordBits))}

Choice(a) == <<"choice", {b \in BitsOf(a) : b < LgCPht}>>

Contexts ==
    CASE kind = "gshare" -> SUBSET (0 .. LgPht - 1)
      [] kind = "gtagged" -> Addr \X SUBSET (0 .. WordBits \div 2 - 1)
      [] kind = "uberhistory" -> Addr \X SUBSET (0 .. BhrLen - 1)
      [] kind = "bimodal" ->
            ({"choice"} \X SUBSET (0 .. LgCPht - 1)) \cup
            ({"nt", "t"} \X SUBSET (0 .. LgPht - 1))

(* The context whose counter predicts the branch at a.                     *)
Provider(a) ==
    CASE kind = "gshare" -> FoldedIndex(a, hist)
      [] kind = "gtagged" -> <<a, Newest(hist, WordBits \div 2)>>
      [] kind = "uberhistory" -> <<a, Newest(hist, BhrLen)>>
      [] kind = "bimodal" ->
            <<IF ctr[Choice(a)] < 2 THEN "nt" ELSE "t", BankIndex(a, hist)>>

Predicted(a) == ctr[Provider(a)] > 1

(* The provider learns the outcome; the choice learns it too, unless it    *)
(* chose the other bank and that bank was right all the same.              *)
Trained(a, taken) ==
    {Provider(a)} \cup
    IF kind = "bimodal" /\ ~((ctr[Choice(a)] < 2) = taken /\ Predicted(a) = taken)
      THEN {Choice(a)} ELSE {}

Shifted(taken) ==
    {p \in 1 .. Stored - 1 : p - 1 \in hist} \cup (IF taken THEN {0} ELSE {})

(* The tables of counters start weakly, the maps strongly not taken.       *)
PSInit ==
    /\ kind \in {"gshare", "gtagged", "uberhistory", "bimodal"}
    /\ hist = {}
    /\ ctr = [c \in Contexts |-> IF kind \in {"gtagged", "uberhistory"} THEN 0 ELSE 1]
    /\ branches = 0 /\ mispredicts = 0

PSBranch(a, taken) ==
    /\ branches' = branches + 1
    /\ hist' = Shifted(taken)
    /\ mispredicts' = mispredicts + (IF Predicted(a) # taken THEN 1 ELSE 0)
    /\ ctr' = [c \in Contexts |->
                 IF c \in Trained(a, taken) THEN Saturate(ctr[c], taken) ELSE ctr[c]]
    /\ UNCHANGED kind

(* j, jal, jr and jalr count as taken outcomes in the history.             *)
PSJump == hist' = Shifted(TRUE) /\ UNCHANGED <<kind, ctr, branches, mispredicts>>

PSNext == (\E a \in Addr, taken \in BOOLEAN : PSBranch(a, taken)) \/ PSJump

PSSpec == PSInit /\ [][PSNext]_psVars
=============================================================================
