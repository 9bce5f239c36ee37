----------------------------- MODULE SimBitvec -----------------------------
(***************************************************************************)
(* sim_bitvec_template (sim_bitvec.hh): a bit vector in an array of words  *)
(* of BPW bits.  It is the global branch history (globals::bhr, written    *)
(* with shift_left(1) and set_bit(0)) and the valid bits of a counter      *)
(* array.                                                                  *)
(*                                                                         *)
(* shift_left works in place, from the top word down; each iteration of    *)
(* its loop is a step, so that what the loop maintains can be stated.  The *)
(* object is idle when i is -1.                                            *)
(*                                                                         *)
(* bits is the vector as its users see it: position 0 is the newest        *)
(* outcome of the branch history.                                          *)
(***************************************************************************)
EXTENDS Integers, FiniteSets

CONSTANTS
    BPW,        \* bpw, bits per word (64)
    NBits       \* n_bits, the length asked for

ASSUME BPWAssumption == BPW \in Nat \ {0}
ASSUME NBitsAssumption == NBits \in Nat \ {0}

VARIABLES
    arr,        \* the words
    i, amt,     \* the loop variable and the argument of shift_left
    bits        \* history: the bit string the words stand for

bvVars == <<arr, i, amt, bits>>

NumWords == (NBits + BPW - 1) \div BPW
Words == 0 .. NumWords - 1
WordBits == 0 .. BPW - 1
Positions == 0 .. NumWords * BPW - 1

(* get_bit(idx)                                                            *)
GetBit(idx) == arr[idx \div BPW][idx % BPW]

-----------------------------------------------------------------------------
Zero == [b \in WordBits |-> FALSE]

BvInit ==
    /\ arr = [w \in Words |-> Zero]
    /\ i = -1 /\ amt = 1
    /\ bits = [p \in Positions |-> FALSE]

Idle == i = -1

(* Variant for the mutants: the word is shifted down one bit too few.      *)
OverflowOffByOne(word, a) == [b \in WordBits |-> b < a /\ word[b + BPW - a - 1]]

(* word << a, word >> (bpw - a) and the bitwise or                         *)
ShiftedUp(word, a) == [b \in WordBits |-> b >= a /\ word[b - a]]
Overflow(word, a) == [b \in WordBits |-> b < a /\ word[b + BPW - a]]
Or(u, v) == [b \in WordBits |-> u[b] \/ v[b]]

(* shift_left(a) up to its loop: the top word loses its a top bits.        *)
ShiftLeft(a) ==
    /\ Idle
    /\ arr' = [arr EXCEPT ![NumWords - 1] = ShiftedUp(@, a)]
    /\ i' = NumWords - 2
    /\ amt' = a
    /\ bits' = [p \in Positions |-> p >= a /\ bits[p - a]]

(* Variant for the mutants: word i is shifted before its overflow is taken. *)
ShiftWordFirst ==
    /\ ~Idle
    /\ arr' = [arr EXCEPT ![i + 1] = Or(@, Overflow(ShiftedUp(arr[i], amt), amt)),
                          ![i] = ShiftedUp(@, amt)]
    /\ i' = i - 1
    /\ UNCHANGED <<amt, bits>>

(* One iteration: the overflow of word i enters word i + 1.                *)
ShiftWord ==
    /\ ~Idle
    /\ arr' = [arr EXCEPT ![i + 1] = Or(@, Overflow(arr[i], amt)),
                          ![i] = ShiftedUp(@, amt)]
    /\ i' = i - 1
    /\ UNCHANGED <<amt, bits>>

SetBit(idx) ==
    /\ Idle
    /\ arr' = [arr EXCEPT ![idx \div BPW][idx % BPW] = TRUE]
    /\ bits' = [bits EXCEPT ![idx] = TRUE]
    /\ UNCHANGED <<i, amt>>

ClearBit(idx) ==
    /\ Idle
    /\ arr' = [arr EXCEPT ![idx \div BPW][idx % BPW] = FALSE]
    /\ bits' = [bits EXCEPT ![idx] = FALSE]
    /\ UNCHANGED <<i, amt>>

Clear ==
    /\ Idle
    /\ arr' = [w \in Words |-> Zero]
    /\ bits' = [p \in Positions |-> FALSE]
    /\ UNCHANGED <<i, amt>>

(* An index at or past n_bits ends the program (die, assert).              *)
BvNext ==
    \/ \E a \in 1 .. BPW - 1 : ShiftLeft(a)
    \/ ShiftWord
    \/ \E idx \in 0 .. NBits - 1 : SetBit(idx) \/ ClearBit(idx)
    \/ Clear

BvSpec == BvInit /\ [][BvNext]_bvVars

-----------------------------------------------------------------------------
(* xor_fold(len): all the words of the newest len bits xored into one, the *)
(* last of them masked with (1 << len % bpw) - 1.                          *)
FoldLength(len) == IF len = 0 \/ len > NBits THEN NBits ELSE len

Odd(S) == Cardinality(S) % 2 = 1

(* Variant for the mutants: the loop runs over the last word too.          *)
XorFoldAll(len) ==
    LET n == FoldLength(len)
        last == (n + BPW - 1) \div BPW - 1
        masked == [b \in WordBits |-> b < n % BPW /\ arr[last][b]]
    IN [b \in WordBits |-> Odd({w \in 0 .. last : arr[w][b]}) # masked[b]]

XorFold(len) ==
    LET n == FoldLength(len)
        last == (n + BPW - 1) \div BPW - 1
        masked == [b \in WordBits |-> b < n % BPW /\ arr[last][b]]
    IN [b \in WordBits |->
          Odd({w \in 0 .. last - 1 : arr[w][b]}) # masked[b]]
-----------------------------------------------------------------------------
BvTypeOK ==
    /\ arr \in [Words -> [WordBits -> BOOLEAN]]
    /\ i \in -1 .. NumWords - 2
    /\ amt \in 1 .. BPW
    /\ bits \in [Positions -> BOOLEAN]

(* Between calls get_bit reads the bit string the calls have written:      *)
(* shift_left carries every bit across the word boundaries, loses none of  *)
(* the array's and duplicates none, although it works in place.            *)
Represents == Idle => \A p \in Positions : GetBit(p) = bits[p]

(* The same inside the loop: the words above i + 1 are final, word i + 1   *)
(* still lacks the overflow of word i, the words up to i are not shifted.  *)
Flat(w, b) == w * BPW + b

LoopInv ==
    /\ \A w \in Words, b \in WordBits :
          arr[w][b] = IF Idle \/ w > i + 1 THEN bits[Flat(w, b)]
                      ELSE IF w = i + 1 THEN b >= amt /\ bits[Flat(w, b)]
                      ELSE bits[Flat(w, b) + amt]
    /\ ~Idle => amt < BPW /\ \A p \in 0 .. amt - 1 : ~bits[p]

(* What a predictor that folds the newest len outcomes really depends on:  *)
(* each of them, except that a length of whole words leaves out the oldest *)
(* of these words, whose mask is empty.                                    *)
FoldReach(len) ==
    LET n == FoldLength(len) IN IF n % BPW = 0 THEN n - BPW ELSE n

FoldSpan ==
    Idle => \A len \in 0 .. NBits + 1 :
        XorFold(len) = [b \in WordBits |->
            Odd({p \in 0 .. FoldReach(len) - 1 : p % BPW = b /\ bits[p]})]
=============================================================================
