-------------------------- MODULE ContainersProofs --------------------------
(***************************************************************************)
(* The bit vector stands for the bit string its users wrote, for every     *)
(* word width and every length: the invariant of the in-place loop of      *)
(* shift_left, what it gives get_bit, and what a hash made by xor_fold     *)
(* depends on.                                                             *)
(*                                                                         *)
(* The lists of the data cache stay lists, for every number of sets and    *)
(* ways, and the three classes simulate an LRU cache: the cells of a list  *)
(* are named in order, the pool's free cells are described by their        *)
(* addresses, and each method of mylist is shown to keep both, then to do  *)
(* to the sequence of data what it is for.                                 *)
(***************************************************************************)
EXTENDS SimBitvec, SimCache, FiniteSetTheorems, SequenceTheorems, TLAPS

BvInv == BvTypeOK /\ LoopInv

(* (n_bits + bpw - 1) / bpw words hold every index the methods accept.     *)
LEMMA WordCount == NumWords \in Nat \ {0} /\ NBits <= NumWords * BPW
  BY BPWAssumption, NBitsAssumption DEF NumWords

(* Positions and (word, bit) pairs are the same thing.                     *)
LEMMA FlatPosition ==
    ASSUME NEW w \in Words, NEW b \in WordBits
    PROVE  Flat(w, b) \in Positions
<1>1. w + 1 <= NumWords /\ w \in Nat /\ b \in Nat /\ b < BPW
  BY WordCount, BPWAssumption DEF Words, WordBits
<1>2. (w + 1) * BPW <= NumWords * BPW
  BY <1>1, WordCount, BPWAssumption
<1>3. (w + 1) * BPW = w * BPW + BPW
  BY <1>1, BPWAssumption
<1> QED
  BY <1>1, <1>2, <1>3, WordCount, BPWAssumption DEF Flat, Positions

(* The other direction: every position is in one word, at one bit of it.   *)
LEMMA PositionFlat ==
    ASSUME NEW p \in Positions
    PROVE  /\ p \div BPW \in Words
           /\ p % BPW \in WordBits
           /\ p = Flat(p \div BPW, p % BPW)
<1>1. p \in Nat /\ p < NumWords * BPW
  BY WordCount, BPWAssumption DEF Positions
<1>2. /\ p \div BPW \in Nat /\ p % BPW \in 0 .. BPW - 1
      /\ p = (p \div BPW) * BPW + (p % BPW)
  BY <1>1, BPWAssumption
<1>3. p \div BPW < NumWords
  BY <1>1, <1>2, WordCount, BPWAssumption
<1> QED
  BY <1>2, <1>3, WordCount DEF Words, WordBits, Flat

(* No two (word, bit) pairs name one position.                             *)
LEMMA FlatInverse ==
    ASSUME NEW w \in Words, NEW b \in WordBits
    PROVE  Flat(w, b) \div BPW = w /\ Flat(w, b) % BPW = b
<1>1. w \in Nat /\ b \in 0 .. BPW - 1
  BY WordCount, BPWAssumption DEF Words, WordBits
<1> QED
  BY <1>1, BPWAssumption DEF Flat

(* A position a bits higher, in the same word or in the next one.          *)
LEMMA FlatShift ==
    ASSUME NEW w \in Words, NEW b \in WordBits, NEW a \in 1 .. BPW
    PROVE  /\ Flat(w, b) \in Nat /\ Flat(w, b) >= b
           /\ b >= a => b - a \in WordBits /\ Flat(w, b - a) = Flat(w, b) - a
           /\ w + 1 \in Words => /\ Flat(w, b) + a \in Positions
                                 /\ b < a => /\ b + BPW - a \in WordBits
                                             /\ Flat(w, b + BPW - a) + a = Flat(w + 1, b)
<1>1. w \in Nat /\ b \in 0 .. BPW - 1 /\ w * BPW \in Nat
  BY WordCount, BPWAssumption DEF Words, WordBits
<1>2. Flat(w, b) \in Nat /\ Flat(w, b) >= b
  BY <1>1, BPWAssumption DEF Flat
<1>3. ASSUME b >= a
      PROVE  b - a \in WordBits /\ Flat(w, b - a) = Flat(w, b) - a
  BY <1>1, <1>3, BPWAssumption DEF Flat, WordBits
<1>4. ASSUME w + 1 \in Words
      PROVE  /\ Flat(w, b) + a \in Positions
             /\ b < a => /\ b + BPW - a \in WordBits
                         /\ Flat(w, b + BPW - a) + a = Flat(w + 1, b)
  <2>1. (w + 1) * BPW = w * BPW + BPW
    BY <1>1, BPWAssumption
  <2>2. BPW - 1 \in WordBits /\ Flat(w + 1, BPW - 1) \in Positions
    BY <1>4, FlatPosition, BPWAssumption DEF WordBits
  <2>3. Flat(w, b) + a <= Flat(w + 1, BPW - 1)
    BY <1>1, <2>1, BPWAssumption DEF Flat
  <2>4. Flat(w, b) + a \in Positions
    BY <1>2, <2>2, <2>3, WordCount, BPWAssumption DEF Positions
  <2>5. ASSUME b < a
        PROVE  b + BPW - a \in WordBits /\ Flat(w, b + BPW - a) + a = Flat(w + 1, b)
    BY <1>1, <2>1, <2>5, BPWAssumption DEF Flat, WordBits
  <2> QED
    BY <2>4, <2>5
<1> QED
  BY <1>2, <1>3, <1>4

-----------------------------------------------------------------------------
(* A new vector represents the empty bit string.                           *)
LEMMA BvInitInv == BvInit => BvInv
<1> SUFFICES ASSUME BvInit PROVE BvInv
  OBVIOUS
<1>1. BvTypeOK
  BY WordCount, BPWAssumption DEF BvInit, BvTypeOK, Zero
<1>2. LoopInv
  BY FlatPosition DEF BvInit, LoopInv, Idle, Zero
<1> QED
  BY <1>1, <1>2 DEF BvInv

(* Entering shift_left establishes the invariant of its loop.              *)
LEMMA ShiftLeftInv ==
    ASSUME BvInv, NEW a \in 1 .. BPW - 1, ShiftLeft(a)
    PROVE  BvInv'
<1>0. /\ BvTypeOK /\ Idle
      /\ a \in 1 .. BPW /\ a < BPW
      /\ \A w \in Words, b \in WordBits : arr[w][b] = bits[Flat(w, b)]
  BY BPWAssumption DEF BvInv, LoopInv, ShiftLeft
<1>1. i' = NumWords - 2 /\ NumWords - 1 \in Words /\ i' \in -1 .. NumWords - 2 /\ amt' = a
  BY WordCount DEF ShiftLeft, Words
<1>2. /\ bits' \in [Positions -> BOOLEAN]
      /\ \A p \in Positions : bits'[p] = (p >= a /\ bits[p - a])
  <2>1. ASSUME NEW p \in Positions, p >= a PROVE bits[p - a] \in BOOLEAN
    BY <1>0, <2>1, WordCount, BPWAssumption DEF BvTypeOK, Positions
  <2> QED
    BY <2>1 DEF ShiftLeft
<1>3. ASSUME NEW w \in Words
      PROVE  arr'[w] = IF w = NumWords - 1 THEN ShiftedUp(arr[w], a) ELSE arr[w]
  BY <1>0 DEF ShiftLeft, BvTypeOK
<1>4. ShiftedUp(arr[NumWords - 1], a) \in [WordBits -> BOOLEAN]
  BY <1>0, <1>1, FlatShift DEF ShiftedUp, BvTypeOK
<1>5. BvTypeOK'
  <2>1. arr' \in [Words -> [WordBits -> BOOLEAN]]
    BY <1>0, <1>1, <1>4 DEF ShiftLeft, BvTypeOK
  <2> QED
    BY <1>0, <1>1, <1>2, <2>1 DEF BvTypeOK
<1>6. ASSUME NEW w \in Words, NEW b \in WordBits
      PROVE  arr'[w][b] = IF i' = -1 \/ w > i' + 1 THEN bits'[Flat(w, b)]
                          ELSE IF w = i' + 1 THEN b >= amt' /\ bits'[Flat(w, b)]
                          ELSE bits'[Flat(w, b) + amt']
  <2>1. w \in Nat /\ b \in Nat /\ w <= NumWords - 1
    BY WordCount, BPWAssumption DEF Words, WordBits
  <2>2. CASE w = NumWords - 1
    <3>1. arr'[w][b] = (b >= a /\ arr[w][b - a])
      BY <1>3, <2>2 DEF ShiftedUp
    <3>2. b >= a => arr[w][b - a] = bits[Flat(w, b) - a]
      BY <1>0, FlatShift
    <3>3. bits'[Flat(w, b)] = (Flat(w, b) >= a /\ bits[Flat(w, b) - a])
      BY <1>2, FlatPosition
    <3>4. b >= a => Flat(w, b) >= a
      BY <1>0, <2>1, FlatShift
    <3>5. arr'[w][b] = (b >= a /\ bits'[Flat(w, b)])
      BY <3>1, <3>2, <3>3, <3>4
    <3>6. CASE NumWords = 1
      <4>1. Flat(w, b) = b
        BY <2>1, <2>2, <3>6, BPWAssumption DEF Flat
      <4>2. ~(b >= a) => ~bits'[Flat(w, b)]
        BY <3>3, <4>1
      <4>3. arr'[w][b] = bits'[Flat(w, b)]
        <5>1. bits'[Flat(w, b)] \in BOOLEAN
          BY <1>2, FlatPosition
        <5> QED
          BY <3>5, <4>2, <5>1
      <4> QED
        BY <1>1, <3>6, <4>3
    <3>7. CASE NumWords # 1
      BY <1>1, <2>2, <3>5, <3>7, WordCount
    <3> QED
      BY <3>6, <3>7
  <2>3. CASE w # NumWords - 1
    <3>1. w + 1 \in Words /\ w < i' + 1 /\ i' # -1
      BY <1>1, <2>1, <2>3, WordCount DEF Words
    <3>2. arr'[w][b] = bits[Flat(w, b)]
      BY <1>0, <1>3, <2>3
    <3>3. Flat(w, b) + a \in Positions /\ Flat(w, b) \in Nat
      BY <1>0, <3>1, FlatShift
    <3>4. bits'[Flat(w, b) + a] = bits[Flat(w, b)]
      <4>1. Flat(w, b) + a >= a /\ (Flat(w, b) + a) - a = Flat(w, b)
        BY <1>0, <3>3
      <4>2. bits[Flat(w, b)] \in BOOLEAN
        BY <1>0, FlatPosition DEF BvTypeOK
      <4> QED
        BY <1>2, <3>3, <4>1, <4>2
    <3> QED
      BY <1>1, <2>1, <3>1, <3>2, <3>4
  <2> QED
    BY <2>2, <2>3
<1>7. ASSUME NEW p \in 0 .. a - 1 PROVE ~bits'[p]
  <2>1. p \in Positions /\ ~(p >= a)
    <3>1. p = Flat(0, p) /\ 0 \in Words /\ p \in WordBits
      BY <1>0, WordCount, BPWAssumption DEF Flat, Words, WordBits
    <3> QED
      BY <1>0, <3>1, FlatPosition
  <2> QED
    BY <1>2, <2>1
<1> QED
  BY <1>0, <1>1, <1>5, <1>6, <1>7 DEF BvInv, LoopInv, Idle

(* One iteration of shift_left keeps the invariant of its loop, and the    *)
(* last one leaves the whole string shifted.                               *)
LEMMA ShiftWordInv ==
    ASSUME BvInv, ShiftWord
    PROVE  BvInv'
<1>0. /\ BvTypeOK /\ ~Idle
      /\ i \in Nat /\ i + 1 \in Words /\ i \in Words
      /\ amt \in 1 .. BPW /\ amt < BPW
      /\ \A p \in 0 .. amt - 1 : ~bits[p]
  BY WordCount DEF BvInv, LoopInv, BvTypeOK, ShiftWord, Idle, Words
<1>1. i' = i - 1 /\ amt' = amt /\ bits' = bits
  BY DEF ShiftWord
<1>2. /\ arr' = [arr EXCEPT ![i + 1] = Or(arr[i + 1], Overflow(arr[i], amt)),
                            ![i] = ShiftedUp(arr[i], amt)]
      /\ arr \in [Words -> [WordBits -> BOOLEAN]]
  BY <1>0 DEF ShiftWord, BvTypeOK
<1>3. /\ Or(arr[i + 1], Overflow(arr[i], amt)) \in [WordBits -> BOOLEAN]
      /\ ShiftedUp(arr[i], amt) \in [WordBits -> BOOLEAN]
  BY DEF Or, ShiftedUp
<1>4. /\ arr' \in [Words -> [WordBits -> BOOLEAN]]
      /\ arr'[i + 1] = Or(arr[i + 1], Overflow(arr[i], amt))
      /\ arr'[i] = ShiftedUp(arr[i], amt)
      /\ \A w \in Words : w # i /\ w # i + 1 => arr'[w] = arr[w]
  BY <1>0, <1>2, <1>3
<1>5. BvTypeOK'
  BY <1>0, <1>1, <1>4, WordCount DEF BvTypeOK
<1>6. ASSUME NEW w \in Words, NEW b \in WordBits
      PROVE  arr'[w][b] = IF i' = -1 \/ w > i' + 1 THEN bits'[Flat(w, b)]
                          ELSE IF w = i' + 1 THEN b >= amt' /\ bits'[Flat(w, b)]
                          ELSE bits'[Flat(w, b) + amt']
  <2>0. w \in Nat /\ b \in Nat /\ bits[Flat(w, b)] \in BOOLEAN
    BY <1>0, FlatPosition, WordCount, BPWAssumption DEF Words, WordBits, BvTypeOK
  <2>1. CASE w > i + 1
    <3>1. arr[w][b] = bits[Flat(w, b)]
      BY <2>1 DEF BvInv, LoopInv
    <3> QED
      BY <1>0, <1>1, <1>4, <2>0, <2>1, <3>1
  <2>2. CASE w = i + 1
    <3>1. arr[w][b] = (b >= amt /\ bits[Flat(w, b)])
      BY <1>0, <2>0, <2>2 DEF BvInv, LoopInv, Idle
    <3>2. b < amt => Overflow(arr[i], amt)[b] = bits[Flat(w, b)]
      <4>1. SUFFICES ASSUME b < amt PROVE Overflow(arr[i], amt)[b] = bits[Flat(w, b)]
        OBVIOUS
      <4>2. Overflow(arr[i], amt)[b] = arr[i][b + BPW - amt]
        BY <1>0, <1>4, <4>1, FlatShift DEF Overflow, BvTypeOK
      <4>3. /\ b + BPW - amt \in WordBits
            /\ Flat(i, b + BPW - amt) + amt = Flat(w, b)
        BY <1>0, <2>2, <4>1, FlatShift
      <4>4. arr[i][b + BPW - amt] = bits[Flat(i, b + BPW - amt) + amt]
        BY <1>0, <4>3 DEF BvInv, LoopInv, Idle
      <4> QED
        BY <4>2, <4>3, <4>4
    <3>3. ~(b < amt) => ~Overflow(arr[i], amt)[b]
      BY DEF Overflow
    <3>4. arr'[w][b] = (arr[w][b] \/ Overflow(arr[i], amt)[b])
      BY <1>4, <2>2 DEF Or
    <3>5. arr'[w][b] = bits[Flat(w, b)]
      BY <1>0, <2>0, <3>1, <3>2, <3>3, <3>4
    <3> QED
      BY <1>0, <1>1, <2>0, <2>2, <3>5
  <2>3. CASE w = i
    <3>1. arr'[w][b] = (b >= amt /\ arr[w][b - amt])
      BY <1>4, <2>3 DEF ShiftedUp
    <3>2. b >= amt => arr[w][b - amt] = bits[Flat(w, b)]
      <4>1. SUFFICES ASSUME b >= amt PROVE arr[w][b - amt] = bits[Flat(w, b)]
        OBVIOUS
      <4>2. b - amt \in WordBits /\ Flat(w, b - amt) = Flat(w, b) - amt /\ Flat(w, b) \in Nat
        BY <1>0, <4>1, FlatShift
      <4>3. arr[w][b - amt] = bits[Flat(w, b - amt) + amt]
        BY <1>0, <2>0, <2>3, <4>2 DEF BvInv, LoopInv, Idle
      <4> QED
        BY <1>0, <4>2, <4>3
    <3>3. arr'[w][b] = (b >= amt /\ bits[Flat(w, b)])
      BY <3>1, <3>2
    <3>4. CASE i = 0
      <4>1. Flat(w, b) = b
        BY <2>0, <2>3, <3>4, BPWAssumption DEF Flat
      <4>2. ~(b >= amt) => ~bits[Flat(w, b)]
        BY <1>0, <2>0, <4>1
      <4>3. arr'[w][b] = bits[Flat(w, b)]
        BY <2>0, <3>3, <4>2
      <4> QED
        BY <1>1, <3>4, <4>3
    <3>5. CASE i # 0
      BY <1>0, <1>1, <2>3, <3>3, <3>5
    <3> QED
      BY <3>4, <3>5
  <2>4. CASE w < i
    <3>1. arr[w][b] = bits[Flat(w, b) + amt]
      BY <1>0, <2>0, <2>4 DEF BvInv, LoopInv, Idle
    <3> QED
      BY <1>0, <1>1, <1>4, <2>0, <2>4, <3>1
  <2> QED
    BY <1>0, <2>0, <2>1, <2>2, <2>3, <2>4
<1> QED
  BY <1>0, <1>1, <1>5, <1>6 DEF BvInv, LoopInv, Idle

(* set_bit and clear_bit write one position.                               *)
LEMMA WriteBitInv ==
    ASSUME BvInv, NEW idx \in 0 .. NBits - 1, NEW v \in BOOLEAN,
           Idle, UNCHANGED <<i, amt>>,
           arr' = [arr EXCEPT ![idx \div BPW][idx % BPW] = v],
           bits' = [bits EXCEPT ![idx] = v]
    PROVE  BvInv'
<1>1. /\ BvTypeOK
      /\ \A w \in Words, b \in WordBits : arr[w][b] = bits[Flat(w, b)]
  BY DEF BvInv, LoopInv
<1>2. idx \in Positions
  BY WordCount, NBitsAssumption, BPWAssumption DEF Positions
<1>3. idx \div BPW \in Words /\ idx % BPW \in WordBits /\ idx = Flat(idx \div BPW, idx % BPW)
  BY <1>2, PositionFlat
<1>4. BvTypeOK'
  BY <1>1, <1>2, <1>3 DEF BvTypeOK
<1>5. ASSUME NEW w \in Words, NEW b \in WordBits
      PROVE  arr'[w][b] = bits'[Flat(w, b)]
  <2>1. Flat(w, b) \in Positions
    BY FlatPosition
  <2>2. CASE Flat(w, b) = idx
    <3>1. w = idx \div BPW /\ b = idx % BPW
      BY <2>2, FlatInverse
    <3> QED
      BY <1>1, <1>2, <2>2, <3>1 DEF BvTypeOK
  <2>3. CASE Flat(w, b) # idx
    <3>1. ~(w = idx \div BPW /\ b = idx % BPW)
      BY <1>3, <2>3
    <3>2. arr'[w][b] = arr[w][b]
      BY <1>1, <1>3, <3>1 DEF BvTypeOK
    <3> QED
      BY <1>1, <2>1, <2>3, <3>2 DEF BvTypeOK
  <2> QED
    BY <2>2, <2>3
<1> QED
  BY <1>4, <1>5 DEF BvInv, LoopInv, Idle

(* clear() leaves the empty bit string.                                    *)
LEMMA ClearInv == BvInv /\ Clear => BvInv'
<1> SUFFICES ASSUME BvInv, Clear PROVE BvInv'
  OBVIOUS
<1>1. BvTypeOK'
  BY DEF BvInv, BvTypeOK, Clear, Zero
<1>2. LoopInv'
  BY FlatPosition DEF LoopInv, Clear, Zero, Idle
<1> QED
  BY <1>1, <1>2 DEF BvInv

(* Every method keeps the invariant.                                       *)
LEMMA BvNextInv == BvInv /\ [BvNext]_bvVars => BvInv'
<1> SUFFICES ASSUME BvInv, [BvNext]_bvVars PROVE BvInv'
  OBVIOUS
<1>1. ASSUME NEW a \in 1 .. BPW - 1, ShiftLeft(a) PROVE BvInv'
  BY <1>1, ShiftLeftInv
<1>2. CASE ShiftWord
  BY <1>2, ShiftWordInv
<1>3. ASSUME NEW idx \in 0 .. NBits - 1, SetBit(idx) PROVE BvInv'
  BY <1>3, WriteBitInv DEF SetBit
<1>4. ASSUME NEW idx \in 0 .. NBits - 1, ClearBit(idx) PROVE BvInv'
  BY <1>4, WriteBitInv DEF ClearBit
<1>5. CASE Clear
  BY <1>5, ClearInv
<1>6. CASE UNCHANGED bvVars
  BY <1>6 DEF BvInv, BvTypeOK, LoopInv, Idle, bvVars
<1> QED
  BY <1>1, <1>2, <1>3, <1>4, <1>5, <1>6 DEF BvNext

(* The words, the loop variable and the bit string keep their shapes.      *)
THEOREM BvTypeCorrect == BvSpec => []BvTypeOK
<1>1. BvInv => BvTypeOK
  BY DEF BvInv
<1> QED
  BY <1>1, BvInitInv, BvNextInv, PTL DEF BvSpec

(* The loop of shift_left keeps its invariant for every number of words.   *)
THEOREM BvLoopCorrect == BvSpec => []LoopInv
<1>1. BvInv => LoopInv
  BY DEF BvInv
<1> QED
  BY <1>1, BvInitInv, BvNextInv, PTL DEF BvSpec

(* get_bit reads what set_bit, clear_bit and shift_left have written, for  *)
(* every word width, length and sequence of calls.                         *)
THEOREM BvCorrect == BvSpec => []Represents
<1>1. BvInv => Represents
  <2> SUFFICES ASSUME BvInv, Idle, NEW p \in Positions
               PROVE  arr[p \div BPW][p % BPW] = bits[p]
    BY DEF Represents, GetBit
  <2> QED
    BY PositionFlat DEF BvInv, LoopInv
<1> QED
  BY <1>1, BvInitInv, BvNextInv, PTL DEF BvSpec
-----------------------------------------------------------------------------
LastOf(len) == (FoldLength(len) + BPW - 1) \div BPW - 1
RestOf(len) == FoldLength(len) % BPW

(* Where the masked word of a fold is: the words below it are folded whole,*)
(* and FoldReach is what they and the bits under the mask make together.   *)
LEMMA LastWord ==
    ASSUME NEW len \in 0 .. NBits + 1
    PROVE  /\ LastOf(len) \in Words /\ LastOf(len) \in Nat
           /\ RestOf(len) \in 0 .. BPW - 1
           /\ FoldReach(len) = LastOf(len) * BPW + RestOf(len)
<1> DEFINE n == FoldLength(len)
           q == n \div BPW
           r == n % BPW
<1>1. n \in Nat /\ 1 <= n /\ n <= NBits
  BY NBitsAssumption DEF FoldLength
<1> HIDE DEF n
<1>2. q \in Nat /\ r \in 0 .. BPW - 1 /\ n = q * BPW + r
  BY <1>1, BPWAssumption
<1>3. LastOf(len) = (n + BPW - 1) \div BPW - 1 /\ RestOf(len) = r
      /\ FoldReach(len) = IF r = 0 THEN n - BPW ELSE n
  BY DEF LastOf, RestOf, FoldReach, n
<1> HIDE DEF q, r
<1>4. \A k \in Nat, m \in 0 .. BPW - 1 : (k * BPW + m) \div BPW = k
  BY BPWAssumption
<1>5. \A k \in Nat : k * BPW \in Nat /\ (k + 1) * BPW = k * BPW + BPW
  BY BPWAssumption
<1>6. LastOf(len) \in Nat /\ FoldReach(len) = LastOf(len) * BPW + r /\ LastOf(len) * BPW < n
  <2>1. CASE r = 0
    <3>1. PICK k \in Nat : q = k + 1
      <4>1. q # 0
        BY <1>1, <1>2, <2>1, BPWAssumption
      <4>2. q - 1 \in Nat /\ q = (q - 1) + 1
        BY <1>2, <4>1
      <4> QED
        BY <4>2
    <3>2. n = k * BPW + BPW /\ k * BPW \in Nat
      BY <1>2, <1>5, <2>1, <3>1
    <3>3. n + BPW - 1 = (k + 1) * BPW + (BPW - 1) /\ BPW - 1 \in 0 .. BPW - 1
      BY <1>5, <3>2, BPWAssumption
    <3>4. LastOf(len) = k
      BY <1>3, <1>4, <3>3
    <3> QED
      BY <1>3, <2>1, <3>2, <3>4, BPWAssumption
  <2>2. CASE r # 0
    <3>1. n + BPW - 1 = (q + 1) * BPW + (r - 1) /\ r - 1 \in 0 .. BPW - 1 /\ q + 1 \in Nat
      BY <1>2, <1>5, <2>2, BPWAssumption
    <3>2. LastOf(len) = q
      BY <1>2, <1>3, <1>4, <3>1
    <3> QED
      BY <1>2, <1>3, <1>5, <2>2, <3>2
  <2> QED
    BY <2>1, <2>2
<1>7. LastOf(len) < NumWords
  <2>1. n <= NumWords * BPW /\ NumWords * BPW \in Nat
    BY <1>1, WordCount, NBitsAssumption, BPWAssumption
  <2>2. PICK k \in Nat : k = LastOf(len) /\ k * BPW < n /\ k * BPW \in Nat
    BY <1>5, <1>6
  <2>3. k * BPW < NumWords * BPW
    BY <1>1, <2>1, <2>2
  <2> QED
    BY <2>2, <2>3, WordCount, BPWAssumption
<1> QED
  BY <1>2, <1>3, <1>6, <1>7, WordCount DEF Words

PlacesBelow(last, b) == {p \in 0 .. last * BPW - 1 : p % BPW = b /\ bits[p]}
WordsBelow(last, b) == {w \in 0 .. last - 1 : arr[w][b]}

(* The words that have a bit set are as many as the positions at which they*)
(* have it.                                                                *)
LEMMA WordsArePlaces ==
    ASSUME BvInv, Idle, NEW last \in Words, NEW b \in WordBits
    PROVE  /\ IsFiniteSet(PlacesBelow(last, b))
           /\ Odd(WordsBelow(last, b)) <=> Odd(PlacesBelow(last, b))
<1> DEFINE S == WordsBelow(last, b)
           T == PlacesBelow(last, b)
           f == [w \in S |-> Flat(w, b)]
<1>1. last \in Nat /\ last < NumWords /\ 0 .. last - 1 \subseteq Words
  BY WordCount DEF Words
<1>2. \A w \in S : w \in Words /\ w < last /\ w \in Nat /\ arr[w][b]
  BY <1>1 DEF WordsBelow
<1>3. IsFiniteSet(S)
  <2>1. IsFiniteSet(0 .. last - 1)
    BY <1>1, FS_Interval
  <2> QED
    BY <2>1, FS_Subset DEF WordsBelow
<1>4. \A w \in Words : arr[w][b] = bits[Flat(w, b)]
  BY DEF BvInv, LoopInv
<1>5. ASSUME NEW w \in S PROVE Flat(w, b) \in T
  <2>1. w \in Words /\ w \in Nat /\ w + 1 <= last /\ b \in 0 .. BPW - 1 /\ bits[Flat(w, b)]
    BY <1>1, <1>2, <1>4 DEF WordBits
  <2>2. (w + 1) * BPW <= last * BPW /\ (w + 1) * BPW = w * BPW + BPW /\ w * BPW \in Nat /\ last * BPW \in Nat
    BY <1>1, <2>1, BPWAssumption
  <2>3. Flat(w, b) \in 0 .. last * BPW - 1
    BY <2>1, <2>2, BPWAssumption DEF Flat
  <2>4. Flat(w, b) % BPW = b
    BY <2>1, FlatInverse
  <2> QED
    BY <2>1, <2>3, <2>4 DEF PlacesBelow
<1>6. ASSUME NEW w \in S, NEW v \in S, Flat(w, b) = Flat(v, b) PROVE w = v
  BY <1>2, <1>6, FlatInverse
<1>7. ASSUME NEW p \in T PROVE \E w \in S : Flat(w, b) = p
  <2>1. p \in 0 .. last * BPW - 1 /\ p % BPW = b /\ bits[p]
    BY DEF PlacesBelow
  <2>2. last * BPW \in Nat /\ last * BPW <= NumWords * BPW
    BY <1>1, WordCount, BPWAssumption
  <2>3. p \in Positions
    BY <2>1, <2>2, WordCount, BPWAssumption DEF Positions
  <2>4. PICK w \in Words : w = p \div BPW /\ p = Flat(w, b)
    BY <2>1, <2>3, PositionFlat
  <2>5. w < last
    <3>1. w \in Nat /\ w * BPW \in Nat /\ w * BPW <= p /\ p < last * BPW
      BY <2>1, <2>2, <2>4, WordCount, BPWAssumption DEF Words, Flat, WordBits
    <3>2. w * BPW < last * BPW
      BY <2>1, <2>2, <3>1
    <3> QED
      BY <1>1, <3>1, <3>2, BPWAssumption
  <2>6. w \in 0 .. last - 1 /\ arr[w][b]
    BY <1>1, <1>4, <2>1, <2>4, <2>5 DEF Words
  <2> QED
    BY <2>4, <2>6 DEF WordsBelow
<1> HIDE DEF S, T
<1>8. f \in Bijection(S, T)
  <2>1. f \in [S -> T]
    BY <1>5
  <2>2. \A w, v \in S : f[w] = f[v] => w = v
    BY <1>6
  <2>3. \A p \in T : \E w \in S : f[w] = p
    BY <1>7
  <2> HIDE DEF f
  <2> QED
    BY <2>1, <2>2, <2>3 DEF Bijection, Injection, Surjection, IsInjective
<1>9. IsFiniteSet(T) /\ Cardinality(T) = Cardinality(S)
  BY <1>3, <1>8, FS_Bijection DEF ExistsBijection
<1> QED
  BY <1>9 DEF Odd, S, T

(* One bit of the hash: the words below the last, and the last one's bit   *)
(* when the mask lets it through.                                          *)
LEMMA FoldedBits ==
    ASSUME BvInv, Idle, NEW len \in 0 .. NBits + 1, NEW b \in WordBits
    PROVE  XorFold(len)[b] = Odd({p \in 0 .. FoldReach(len) - 1 : p % BPW = b /\ bits[p]})
<1>1. PICK last \in Words, r \in 0 .. BPW - 1 :
          last = LastOf(len) /\ r = RestOf(len) /\ FoldReach(len) = last * BPW + r
  BY LastWord
<1> DEFINE Q == PlacesBelow(last, b)
           P == {p \in 0 .. last * BPW + r - 1 : p % BPW = b /\ bits[p]}
           top == Flat(last, b)
<1>2. last \in Nat /\ b \in Nat /\ b < BPW /\ last * BPW \in Nat /\ r \in Nat
  BY <1>1, WordCount, BPWAssumption DEF Words, WordBits
<1>3. arr[last][b] = bits[top] /\ arr[last][b] \in BOOLEAN /\ top \in Nat /\ top = last * BPW + b /\ top % BPW = b
  BY <1>2, FlatInverse, BPWAssumption DEF BvInv, LoopInv, BvTypeOK, Flat
<1>4. XorFold(len)[b] <=> ~ (Odd(WordsBelow(last, b)) <=> b < r /\ bits[top])
  <2>1. XorFold(len)[b] = (Odd(WordsBelow(last, b)) # (b < r /\ arr[last][b]))
    BY <1>1 DEF XorFold, WordsBelow, LastOf, RestOf
  <2> QED
    BY <1>3, <2>1 DEF Odd
<1>5. IsFiniteSet(Q) /\ (Odd(WordsBelow(last, b)) <=> Odd(Q))
  BY WordsArePlaces
<1>6. \A p \in Nat : p \in Q <=> p < last * BPW /\ p % BPW = b /\ bits[p]
  BY <1>2 DEF PlacesBelow
<1>7. \A p \in Nat : p \in P <=> p < last * BPW + r /\ p % BPW = b /\ bits[p]
  BY <1>2
<1>8. P \subseteq Nat /\ Q \subseteq Nat
  BY <1>2 DEF PlacesBelow
<1>9. ASSUME NEW p \in Nat, p >= last * BPW, p < last * BPW + BPW, p % BPW = b PROVE p = top
  <2>1. p - last * BPW \in 0 .. BPW - 1 /\ p = last * BPW + (p - last * BPW)
    BY <1>2, <1>9, BPWAssumption
  <2>2. \A m \in 0 .. BPW - 1 : (last * BPW + m) % BPW = m
    BY <1>2, BPWAssumption
  <2>3. p - last * BPW = b
    BY <1>9, <2>1, <2>2
  <2> QED
    BY <1>2, <1>3, <2>1, <2>3
<1>10. \A p \in Nat : /\ p < last * BPW => p < last * BPW + r
                      /\ p < last * BPW + r => p < last * BPW + BPW
                      /\ ~ (p < last * BPW) => p >= last * BPW
  BY <1>2, BPWAssumption
<1>11. P = {p \in 0 .. FoldReach(len) - 1 : p % BPW = b /\ bits[p]}
  <2>1. FoldReach(len) - 1 = last * BPW + r - 1
    BY <1>1, <1>2, BPWAssumption
  <2> QED
    BY <2>1, Zenon
<1>12. SUFFICES XorFold(len)[b] <=> Odd(P)
  <2>1. XorFold(len)[b] \in BOOLEAN /\ Odd(P) \in BOOLEAN
    BY DEF XorFold, Odd
  <2> QED
    BY <1>11, <2>1, Zenon
<1> HIDE DEF P, Q, top
<1>13. CASE b < r /\ bits[top]
  <2>1. P = Q \cup {top}
    <3>1. ASSUME NEW p \in Nat PROVE p \in P <=> p \in Q \/ p = top
      <4>1. p \in P => p \in Q \/ p = top
        BY <1>10, <1>6, <1>7, <1>9
      <4>2. p \in Q => p \in P
        BY <1>10, <1>6, <1>7
      <4>3. top \in P
        BY <1>2, <1>3, <1>7, <1>13
      <4> QED
        BY <4>1, <4>2, <4>3
    <3> QED
      BY <1>3, <1>8, <3>1
  <2>2. top \notin Q
    BY <1>2, <1>3, <1>6
  <2>3. Cardinality(P) = Cardinality(Q) + 1 /\ Cardinality(Q) \in Nat
    BY <1>5, <2>1, <2>2, FS_AddElement, FS_CardinalityType
  <2>4. \A k \in Nat : (k + 1) % 2 = 1 <=> ~ (k % 2 = 1)
    OBVIOUS
  <2>5. Odd(P) <=> ~ Odd(Q)
    BY <2>3, <2>4 DEF Odd
  <2> QED
    BY <1>4, <1>5, <1>13, <2>5, Zenon
<1>14. CASE ~ (b < r /\ bits[top])
  <2>1. P = Q
    <3>1. ASSUME NEW p \in Nat PROVE p \in P <=> p \in Q
      <4>1. p \in Q => p \in P
        BY <1>10, <1>6, <1>7
      <4>2. p \in P => p \in Q \/ p = top
        BY <1>10, <1>6, <1>7, <1>9
      <4>3. top \notin P
        BY <1>2, <1>3, <1>7, <1>14
      <4> QED
        BY <4>1, <4>2, <4>3
    <3> QED
      BY <1>8, <3>1
  <2> QED
    BY <1>4, <1>5, <1>14, <2>1, Zenon
<1> QED
  BY <1>13, <1>14

(* A hash of the newest outcomes depends on each of them, but for the      *)
(* oldest word of a length of whole words, for every width and length.     *)
THEOREM FoldCorrect == BvSpec => []FoldSpan
<1>1. BvInv => FoldSpan
  <2> SUFFICES ASSUME BvInv, Idle, NEW len \in 0 .. NBits + 1
               PROVE  XorFold(len) = [b \in WordBits |->
                          Odd({p \in 0 .. FoldReach(len) - 1 : p % BPW = b /\ bits[p]})]
    BY DEF FoldSpan
  <2>1. XorFold(len) = [b \in WordBits |-> XorFold(len)[b]]
    BY DEF XorFold
  <2> QED
    BY <2>1, FoldedBits
<1> QED
  BY <1>1, BvInitInv, BvNextInv, PTL DEF BvSpec

-----------------------------------------------------------------------------
(* Induction, over a set instead of a predicate.                           *)
LEMMA SetInduction ==
    ASSUME NEW T \in SUBSET Nat, 0 \in T, \A n \in T : n + 1 \in T
    PROVE  T = Nat
  <1> DEFINE out == Nat \ T
  <1> SUFFICES ASSUME out # {} PROVE FALSE
    OBVIOUS
  <1>1. PICK m \in out : \A n \in out : ~(<<n, m>> \in OpToRel(<, Nat))
    BY WFMin, NatLessThanWellFounded
  <1>2. m \in Nat /\ m # 0 /\ m - 1 \in Nat /\ m - 1 < m /\ (m - 1) + 1 = m
    OBVIOUS
  <1>3. <<m - 1, m>> \in OpToRel(<, Nat)
    BY <1>2 DEF OpToRel
  <1>4. m - 1 \in T
    BY <1>1, <1>2, <1>3
  <1> QED
    BY <1>2, <1>4

(* A set of numbers has a least one.                                       *)
LEMMA LeastExists ==
    ASSUME NEW S \in SUBSET Nat, S # {}
    PROVE  \E t \in S : \A u \in S : t <= u
<1>1. \E t \in S : \A u \in S : ~(<<u, t>> \in OpToRel(<, Nat))
  BY WFMin, NatLessThanWellFounded
<1>2. OpToRel(<, Nat) = {ss \in Nat \X Nat : ss[1] < ss[2]}
  BY DEF OpToRel
<1>3. ASSUME NEW t \in S, NEW u \in S, ~(<<u, t>> \in OpToRel(<, Nat))
      PROVE  t <= u
  <2>1. t \in Nat /\ u \in Nat /\ <<u, t>> \in Nat \X Nat
    OBVIOUS
  <2>2. ~(u < t)
    BY <1>2, <1>3, <2>1
  <2> QED
    BY <2>1, <2>2
<1> QED
  BY <1>1, <1>3

(* A pointer: a cell or null.                                              *)
Pointers == Cells \cup {Null}

(* A walk starts at p and follows next, and stays at null.                 *)
LEMMA WalkSteps ==
    ASSUME NEW l, NEW p \in Pointers, l.next \in [Cells -> Pointers]
    PROVE  /\ Walk(l, p)[0] = p
           /\ \A k \in 0 .. PoolCells - 1 :
                 Walk(l, p)[k + 1] = IF Walk(l, p)[k] = Null THEN Null ELSE l.next[Walk(l, p)[k]]
  <1> DEFINE step(q) == IF q = Null THEN Null ELSE l.next[q]
             Walks(f, n) == f[0] = p /\ \A k \in 0 .. n - 1 : f[k + 1] = step(f[k])
             T == {n \in Nat : \E f \in [0 .. n -> Pointers] : Walks(f, n)}
             Body(f) == [k \in 0 .. PoolCells |->
                           IF k = 0 THEN p ELSE IF f[k - 1] = Null THEN Null ELSE l.next[f[k - 1]]]
             at == CHOOSE f : f = Body(f)
  <1>1. 0 \in T
    <2>1. [k \in 0 .. 0 |-> p] \in [0 .. 0 -> Pointers] /\ Walks([k \in 0 .. 0 |-> p], 0)
      OBVIOUS
    <2> QED
      BY <2>1
  <1>2. ASSUME NEW n \in T PROVE n + 1 \in T
    <2>1. PICK f \in [0 .. n -> Pointers] : Walks(f, n)
      OBVIOUS
    <2> DEFINE g == [k \in 0 .. n + 1 |-> IF k = n + 1 THEN step(f[n]) ELSE f[k]]
    <2>2. n \in Nat /\ f[n] \in Pointers
      OBVIOUS
    <2>3. step(f[n]) \in Pointers
      BY <2>2 DEF Pointers
    <2>4. g \in [0 .. n + 1 -> Pointers]
      BY <2>2, <2>3
    <2>5. Walks(g, n + 1)
      <3>1. g[0] = p
        BY <2>1, <2>2
      <3>2. ASSUME NEW k \in 0 .. (n + 1) - 1 PROVE g[k + 1] = step(g[k])
        <4>1. CASE k = n
          BY <2>2, <4>1
        <4>2. CASE k # n
          <5>1. k \in 0 .. n - 1 /\ k + 1 # n + 1 /\ k # n + 1 /\ k + 1 \in 0 .. n + 1 /\ k \in 0 .. n + 1
            BY <2>2, <4>2
          <5> QED
            BY <2>1, <5>1
        <4> QED
          BY <4>1, <4>2
      <3> QED
        BY <3>1, <3>2
    <2> HIDE DEF g, step
    <2>6. \E h \in [0 .. n + 1 -> Pointers] : Walks(h, n + 1)
      BY <2>4, <2>5
    <2>7. n + 1 \in Nat
      BY <2>2
    <2> QED
      BY <2>6, <2>7
  <1>3. T = Nat
    <2>1. T \in SUBSET Nat
      OBVIOUS
    <2> HIDE DEF T
    <2> QED
      BY <1>1, <1>2, <2>1, SetInduction
  <1>4. PICK f \in [0 .. PoolCells -> Pointers] : Walks(f, PoolCells)
    <2>1. PoolCells \in T
      BY <1>3, PoolCellsAssumption
    <2> QED
      BY <2>1
  <1>5. f = Body(f)
    <2>1. ASSUME NEW k \in 0 .. PoolCells PROVE f[k] = Body(f)[k]
      <3>1. CASE k = 0
        BY <1>4, <3>1
      <3>2. CASE k # 0
        <4>1. k - 1 \in 0 .. PoolCells - 1 /\ (k - 1) + 1 = k
          BY <3>2, PoolCellsAssumption
        <4>2. f[(k - 1) + 1] = step(f[k - 1])
          BY <1>4, <4>1
        <4> QED
          BY <3>2, <4>1, <4>2
      <3> QED
        BY <3>1, <3>2
    <2> QED
      BY <2>1
  <1>6. at = Body(at)
    BY <1>5
  <1>7. Walk(l, p) = at
    BY DEF Walk
  <1> HIDE DEF at
  <1>8. at[0] = p
    BY <1>6, PoolCellsAssumption
  <1>9. ASSUME NEW k \in 0 .. PoolCells - 1 PROVE at[k + 1] = step(at[k])
    <2>1. k + 1 \in 0 .. PoolCells /\ k + 1 # 0 /\ (k + 1) - 1 = k
      BY PoolCellsAssumption
    <2>2. at[k + 1] = Body(at)[k + 1]
      BY <1>6
    <2> QED
      BY <2>1, <2>2
  <1> QED
    BY <1>7, <1>8, <1>9

-----------------------------------------------------------------------------
(* q follows c in the set F: the least of its cells above c, or null.      *)
After(F, c, q) ==
    IF q = Null THEN \A x \in F : x <= c
    ELSE q \in F /\ c < q /\ \A x \in F : c < x => q <= x

(* The cells of the list's first n entries, and the others.                *)
InUse(u, n) == {u[k] : k \in 0 .. n - 1}
Unused(u, n) == Cells \ InUse(u, n)

ListType ==
    [cnt : 0 .. PoolCells, head : Pointers, tail : Pointers, fault : {"none"},
     next : [Cells -> Pointers], prev : [Cells -> Pointers],
     data : [Cells -> Nat \cup Garbage], free : Pointers]

(* u names the cells of the list from head on, all different; head, tail   *)
(* and the two links of each agree with it.                                *)
EntriesOK(l, u, n) ==
    /\ l \in ListType /\ n \in Nat /\ l.cnt = n
    /\ u \in [0 .. n - 1 -> Cells]
    /\ \A j, k \in 0 .. n - 1 : u[j] = u[k] => j = k
    /\ l.head = IF n = 0 THEN Null ELSE u[0]
    /\ l.tail = IF n = 0 THEN Null ELSE u[n - 1]
    /\ \A k \in 0 .. n - 1 :
          /\ l.next[u[k]] = IF k = n - 1 THEN Null ELSE u[k + 1]
          /\ l.prev[u[k]] = IF k = 0 THEN Null ELSE u[k - 1]

(* The pool links the cells of F, from free on, by their addresses.        *)
FreeOK(l, F) ==
    /\ F \subseteq Cells
    /\ After(F, Null, l.free)
    /\ \A c \in F : After(F, c, l.next[c])

Rep(l, u, n) == EntriesOK(l, u, n) /\ FreeOK(l, Unused(u, n))

(* The cells are numbers, as many as the pool has, and none is null.       *)
LEMMA CellsFinite ==
    /\ PoolCells \in Nat \ {0}
    /\ \A c \in Cells : c \in Nat /\ c # Null /\ Null < c
    /\ Null = 0
    /\ IsFiniteSet(Cells) /\ Cardinality(Cells) = PoolCells
<1>1. PoolCells \in Nat \ {0}
  BY PoolCellsAssumption
<1>2. IsFiniteSet(1 .. PoolCells) /\ Cardinality(1 .. PoolCells) = PoolCells
  BY <1>1, FS_Interval
<1> QED
  BY <1>1, <1>2 DEF Cells, Null

(* n different entries leave the other cells of the pool.                  *)
LEMMA UnusedCount ==
    ASSUME NEW n \in Nat, NEW u \in [0 .. n - 1 -> Cells],
           \A j, k \in 0 .. n - 1 : u[j] = u[k] => j = k
    PROVE  /\ IsFiniteSet(Unused(u, n)) /\ Cardinality(Unused(u, n)) = PoolCells - n
           /\ n <= PoolCells
  <1> DEFINE S == 0 .. n - 1
             R == InUse(u, n)
  <1>1. IsFiniteSet(S) /\ Cardinality(S) = n
    BY FS_Interval
  <1>2. u \in Surjection(S, R) /\ u \in Injection(S, R)
    <2>1. u \in [S -> R] /\ \A t \in R : \E s \in S : u[s] = t
      BY DEF InUse
    <2>2. u \in Surjection(S, R)
      BY <2>1 DEF Surjection
    <2>3. \A a, b \in S : u[a] = u[b] => a = b
      OBVIOUS
    <2> HIDE DEF S, R
    <2>4. u \in Injection(S, R)
      BY <2>1, <2>3 DEF Injection, IsInjective
    <2> QED
      BY <2>2, <2>4
  <1>3. IsFiniteSet(R) /\ Cardinality(R) = n
    BY <1>1, <1>2, FS_Surjection
  <1>4. R \subseteq Cells
    BY DEF InUse
  <1> HIDE DEF R
  <1>5. Cells \cap R = R
    BY <1>4
  <1>6. IsFiniteSet(Cells \ R) /\ Cardinality(Cells \ R) = PoolCells - n
    BY <1>3, <1>5, CellsFinite, FS_Difference
  <1>7. n <= PoolCells
    BY <1>3, <1>4, CellsFinite, FS_Subset
  <1> QED
    BY <1>6, <1>7 DEF Unused, R

(* From head on, a walk meets the entries one after the other, then null.  *)
LEMMA WalkEntries ==
    ASSUME NEW l, NEW u, NEW n, EntriesOK(l, u, n)
    PROVE  \A k \in 0 .. PoolCells : Walk(l, l.head)[k] = IF k < n THEN u[k] ELSE Null
  <1> DEFINE at == Walk(l, l.head)
             T == {k \in Nat : k <= PoolCells => at[k] = IF k < n THEN u[k] ELSE Null}
  <1>0. /\ n \in Nat /\ l.head \in Pointers /\ l.next \in [Cells -> Pointers]
        /\ \A k \in 0 .. n - 1 : u[k] \in Cells /\ u[k] # Null
        /\ l.head = IF n = 0 THEN Null ELSE u[0]
        /\ \A k \in 0 .. n - 1 : l.next[u[k]] = IF k = n - 1 THEN Null ELSE u[k + 1]
    BY CellsFinite DEF EntriesOK, ListType
  <1>1. /\ at[0] = l.head
        /\ \A k \in 0 .. PoolCells - 1 : at[k + 1] = IF at[k] = Null THEN Null ELSE l.next[at[k]]
    BY <1>0, WalkSteps
  <1> HIDE DEF at
  <1>2. 0 \in T
    BY <1>0, <1>1
  <1>3. ASSUME NEW k \in T PROVE k + 1 \in T
    <2> SUFFICES ASSUME k + 1 <= PoolCells PROVE at[k + 1] = IF k + 1 < n THEN u[k + 1] ELSE Null
      OBVIOUS
    <2>1. k \in 0 .. PoolCells - 1 /\ k \in Nat /\ at[k] = IF k < n THEN u[k] ELSE Null
      BY CellsFinite
    <2>2. at[k + 1] = IF at[k] = Null THEN Null ELSE l.next[at[k]]
      BY <1>1, <2>1
    <2>3. CASE k < n
      <3>1. k \in 0 .. n - 1
        BY <1>0, <2>1, <2>3
      <3>2. at[k + 1] = IF k = n - 1 THEN Null ELSE u[k + 1]
        BY <1>0, <2>1, <2>2, <2>3, <3>1
      <3> QED
        BY <1>0, <2>1, <2>3, <3>2
    <2>4. CASE ~(k < n)
      BY <1>0, <2>1, <2>2, <2>4
    <2> QED
      BY <2>3, <2>4
  <1>4. T = Nat
    <2>1. T \in SUBSET Nat
      OBVIOUS
    <2> HIDE DEF T
    <2> QED
      BY <1>2, <1>3, <2>1, SetInduction
  <1>5. ASSUME NEW k \in 0 .. PoolCells PROVE at[k] = IF k < n THEN u[k] ELSE Null
    <2>1. k \in T
      BY <1>4, CellsFinite
    <2> QED
      BY <2>1
  <1> QED
    BY <1>5 DEF at

(* From free on, a walk meets the free cells in ascending order, each once. *)
LEMMA WalkFree ==
    ASSUME NEW l, NEW F, FreeOK(l, F), l.free \in Pointers, l.next \in [Cells -> Pointers],
           NEW m \in Nat, IsFiniteSet(F), Cardinality(F) = m, m <= PoolCells
    PROVE  /\ Walk(l, l.free)[m] = Null
           /\ {Walk(l, l.free)[k] : k \in 0 .. m - 1} = F
  <1> DEFINE at == Walk(l, l.free)
             V(k) == {at[j] : j \in 0 .. k - 1}
             Met(k) == /\ V(k) \subseteq F
                       /\ IsFiniteSet(V(k)) /\ Cardinality(V(k)) = k
                       /\ at[k] = Null => V(k) = F
                       /\ at[k] # Null => /\ at[k] \in F
                                          /\ \A x \in V(k) : x < at[k]
                                          /\ \A x \in F : x < at[k] => x \in V(k)
             T == {k \in Nat : k <= m => Met(k)}
  <1>0. /\ After(F, Null, l.free) /\ \A c \in F : After(F, c, l.next[c])
        /\ \A c \in F : c \in Nat /\ c # Null /\ Null < c
        /\ Null = 0
    BY CellsFinite DEF FreeOK
  <1>1. /\ at[0] = l.free
        /\ \A k \in 0 .. PoolCells - 1 : at[k + 1] = IF at[k] = Null THEN Null ELSE l.next[at[k]]
    BY WalkSteps
  <1> HIDE DEF at
  <1>2. 0 \in T
    <2>1. V(0) = {}
      OBVIOUS
    <2>2. IsFiniteSet(V(0)) /\ Cardinality(V(0)) = 0
      BY <2>1, FS_EmptySet
    <2>3. at[0] = Null => F = {}
      BY <1>0, <1>1 DEF After
    <2>4. at[0] # Null => at[0] \in F /\ \A x \in F : ~(x < at[0])
      <3>1. \A x \in F : Null < x
        BY <1>0
      <3> QED
        BY <1>0, <1>1, <3>1 DEF After
    <2> QED
      BY <2>1, <2>2, <2>3, <2>4
  <1>3. ASSUME NEW k \in T PROVE k + 1 \in T
    <2> SUFFICES ASSUME k + 1 <= m PROVE Met(k + 1)
      OBVIOUS
    <2>1. k \in Nat /\ k \in 0 .. PoolCells - 1 /\ k # m /\ Met(k)
      BY CellsFinite
    <2>2. at[k] # Null
      BY <2>1
    <2>3. at[k + 1] = l.next[at[k]] /\ at[k] \in F /\ After(F, at[k], at[k + 1])
      BY <1>0, <1>1, <2>1, <2>2
    <2>4. V(k + 1) = V(k) \cup {at[k]}
      <3>1. ASSUME NEW x PROVE x \in V(k + 1) <=> x \in V(k) \cup {at[k]}
        BY <2>1
      <3> QED
        BY <3>1
    <2> DEFINE A == V(k)
               B == V(k + 1)
    <2>5. A \subseteq F /\ (\A x \in A : x < at[k]) /\ (\A x \in F : x < at[k] => x \in A)
          /\ IsFiniteSet(A) /\ Cardinality(A) = k /\ B = A \cup {at[k]}
      BY <2>1, <2>2, <2>4
    <2>6. at[k] \notin A /\ at[k] \in Nat
      BY <1>0, <2>3, <2>5
    <2> HIDE DEF A, B
    <2>7. IsFiniteSet(B) /\ Cardinality(B) = k + 1
      <3>1. IsFiniteSet(A \cup {at[k]}) /\ Cardinality(A \cup {at[k]}) = Cardinality(A) + 1
        BY <2>5, <2>6, FS_AddElement
      <3> QED
        BY <2>5, <3>1
    <2>8. B \subseteq F
      BY <2>3, <2>5
    <2>9. at[k + 1] = Null => B = F
      <3>1. ASSUME at[k + 1] = Null, NEW x \in F PROVE x \in B
        BY <1>0, <2>3, <2>5, <2>6, <3>1 DEF After
      <3> QED
        BY <2>8, <3>1
    <2>10. ASSUME at[k + 1] # Null
           PROVE  /\ at[k + 1] \in F
                  /\ \A x \in B : x < at[k + 1]
                  /\ \A x \in F : x < at[k + 1] => x \in B
      <3>1. at[k + 1] \in F /\ at[k] < at[k + 1] /\ \A x \in F : at[k] < x => at[k + 1] <= x
        BY <2>3, <2>10 DEF After
      <3>2. ASSUME NEW x \in B PROVE x < at[k + 1]
        BY <1>0, <2>5, <2>6, <2>8, <3>1
      <3>3. ASSUME NEW x \in F, x < at[k + 1] PROVE x \in B
        BY <1>0, <2>5, <2>6, <3>1, <3>3
      <3> QED
        BY <3>1, <3>2, <3>3
    <2> QED
      BY <2>7, <2>8, <2>9, <2>10 DEF B
  <1>4. T = Nat
    <2>1. T \in SUBSET Nat
      OBVIOUS
    <2> HIDE DEF T
    <2> QED
      BY <1>2, <1>3, <2>1, SetInduction
  <1>5. Met(m)
    <2>1. m \in T
      BY <1>4
    <2> QED
      BY <2>1
  <1>6. V(m) = F
    BY <1>5, FS_Subset
  <1>7. at[m] = Null
    <2> HIDE DEF V
    <2>1. at[m] # Null => at[m] \in F /\ \A x \in F : x < at[m]
      BY <1>5, <1>6
    <2>2. at[m] \in F => at[m] \in Nat /\ ~(at[m] < at[m])
      BY <1>0
    <2> QED
      BY <2>1, <2>2
  <1> QED
    BY <1>6, <1>7 DEF at

(* What the invariant says of a list is what its users rely on.            *)
LEMMA RepIntact ==
    ASSUME NEW l, NEW u, NEW n, Rep(l, u, n)
    PROVE  Intact(l)
  <1> DEFINE used == Walk(l, l.head)
             F == Unused(u, n)
             m == PoolCells - n
  <1>0. EntriesOK(l, u, n) /\ FreeOK(l, F)
    BY DEF Rep
  <1>1. /\ l \in ListType /\ n \in Nat /\ l.cnt = n /\ u \in [0 .. n - 1 -> Cells]
        /\ \A j, k \in 0 .. n - 1 : u[j] = u[k] => j = k
        /\ \A k \in 0 .. n - 1 : u[k] # Null
        /\ l.tail = IF n = 0 THEN Null ELSE u[n - 1]
        /\ \A k \in 0 .. n - 1 : l.prev[u[k]] = IF k = 0 THEN Null ELSE u[k - 1]
    BY <1>0, CellsFinite DEF EntriesOK
  <1>2. IsFiniteSet(F) /\ Cardinality(F) = m /\ n <= PoolCells /\ m \in Nat /\ m <= PoolCells
    <2>1. IsFiniteSet(Unused(u, n)) /\ Cardinality(Unused(u, n)) = PoolCells - n /\ n <= PoolCells
      BY <1>1, UnusedCount
    <2> QED
      BY <1>1, <2>1, CellsFinite
  <1>3. /\ Walk(l, l.free)[m] = Null
        /\ {Walk(l, l.free)[k] : k \in 0 .. m - 1} = F
    <2>1. l.free \in Pointers /\ l.next \in [Cells -> Pointers]
      BY <1>1 DEF ListType
    <2> HIDE DEF F, m
    <2> QED
      BY <1>0, <1>2, <2>1, WalkFree
  <1>4. \A k \in 0 .. PoolCells : used[k] = IF k < n THEN u[k] ELSE Null
    BY <1>0, WalkEntries
  <1> HIDE DEF used
  <1>5. used[n] = Null
    BY <1>1, <1>2, <1>4
  <1>6. \A k \in 0 .. n - 1 : used[k] = u[k]
    BY <1>1, <1>2, <1>4, CellsFinite
  <1>7. {used[k] : k \in 0 .. n - 1} = InUse(u, n)
    BY <1>6 DEF InUse
  <1>8. \A k \in 0 .. n - 1 : used[k] # Null /\ l.prev[used[k]] = IF k = 0 THEN Null ELSE used[k - 1]
    <2>1. ASSUME NEW k \in 0 .. n - 1 PROVE l.prev[used[k]] = IF k = 0 THEN Null ELSE used[k - 1]
      <3>1. k # 0 => k - 1 \in 0 .. n - 1
        BY <1>1
      <3> QED
        BY <1>1, <1>6, <3>1
    <2> QED
      BY <1>1, <1>6, <2>1
  <1>9. l.tail = IF n = 0 THEN Null ELSE used[n - 1]
    <2>1. n # 0 => n - 1 \in 0 .. n - 1
      BY <1>1
    <2> QED
      BY <1>1, <1>6, <2>1
  <1>10. l.cnt \in 0 .. PoolCells /\ l.cnt = n /\ F = Cells \ InUse(u, n)
    BY <1>1, <1>2, CellsFinite DEF Unused
  <1> HIDE DEF F
  <1>11. /\ Walk(l, l.free)[PoolCells - l.cnt] = Null
         /\ {Walk(l, l.free)[k] : k \in 0 .. PoolCells - l.cnt - 1} = Cells \ {used[k] : k \in 0 .. l.cnt - 1}
    BY <1>3, <1>7, <1>10
  <1> QED
    BY <1>5, <1>8, <1>9, <1>10, <1>11 DEF Intact, used

-----------------------------------------------------------------------------
(* A list without entries has all its cells free.                          *)
LEMMA EmptyRep ==
    ASSUME NEW g \in Garbage
    PROVE  Rep(EmptyList(g), [k \in 0 .. -1 |-> 1], 0)
  <1> DEFINE l == EmptyList(g)
             u == [k \in 0 .. -1 |-> 1]
  <1>1. l \in ListType
    <2>1. [c \in Cells |-> IF c = PoolCells THEN Null ELSE c + 1] \in [Cells -> Pointers]
      BY PoolCellsAssumption DEF Cells, Pointers, Null
    <2>2. 1 \in Pointers /\ Null \in Pointers /\ 0 \in 0 .. PoolCells
      BY PoolCellsAssumption DEF Cells, Pointers
    <2> QED
      BY <2>1, <2>2 DEF EmptyList, ListType
  <1>2. EntriesOK(l, u, 0)
    <2>1. l.cnt = 0 /\ l.head = Null /\ l.tail = Null
      BY DEF EmptyList
    <2>2. u \in [0 .. 0 - 1 -> Cells] /\ 0 .. 0 - 1 = {}
      OBVIOUS
    <2> QED
      BY <1>1, <2>1, <2>2 DEF EntriesOK
  <1>3. Unused(u, 0) = Cells
    BY DEF Unused, InUse
  <1>4. After(Cells, Null, l.free)
    BY PoolCellsAssumption DEF EmptyList, Cells, After, Null
  <1>5. ASSUME NEW c \in Cells PROVE After(Cells, c, l.next[c])
    BY PoolCellsAssumption DEF EmptyList, Cells, After, Null
  <1> QED
    BY <1>2, <1>3, <1>4, <1>5 DEF Rep, FreeOK

(* The entries after push_front: a new one before the others.              *)
Pushed(u, n, e) == [k \in 0 .. n |-> IF k = 0 THEN e ELSE u[k - 1]]

(* push_front takes the first free cell and links it before head.          *)
LEMMA PushRep ==
    ASSUME NEW l, NEW u, NEW n, Rep(l, u, n), n < PoolCells, NEW v \in Nat
    PROVE  /\ Rep(PushFront(l, v), Pushed(u, n, l.free), n + 1)
           /\ l.free \in Unused(u, n)
           /\ \A c \in Cells : PushFront(l, v).data[c] = IF c = l.free THEN v ELSE l.data[c]
  <1> DEFINE e == l.free
             F == Unused(u, n)
             G == F \ {e}
             w == Pushed(u, n, e)
             x == PushFront(l, v)
  <1>0. /\ l \in ListType /\ n \in Nat /\ l.cnt = n
        /\ u \in [0 .. n - 1 -> Cells]
        /\ \A j, k \in 0 .. n - 1 : u[j] = u[k] => j = k
        /\ l.head = IF n = 0 THEN Null ELSE u[0]
        /\ l.tail = IF n = 0 THEN Null ELSE u[n - 1]
        /\ \A k \in 0 .. n - 1 : l.next[u[k]] = IF k = n - 1 THEN Null ELSE u[k + 1]
        /\ \A k \in 0 .. n - 1 : l.prev[u[k]] = IF k = 0 THEN Null ELSE u[k - 1]
    BY DEF Rep, EntriesOK
  <1>1. /\ F \subseteq Cells /\ After(F, Null, l.free)
        /\ \A c \in F : After(F, c, l.next[c])
    BY DEF Rep, FreeOK
  <1>2. F # {}
    <2>1. IsFiniteSet(F) /\ Cardinality(F) = PoolCells - n
      BY <1>0, UnusedCount
    <2>2. PoolCells - n # 0
      BY <1>0, CellsFinite
    <2> HIDE DEF F
    <2> QED
      BY <2>1, <2>2, FS_EmptySet
  <1>3. e \in F /\ e \in Cells /\ e # Null
    <2>1. \A c \in F : Null < c /\ c \in Nat
      BY <1>1, CellsFinite
    <2> HIDE DEF F
    <2>2. e # Null
      BY <1>1, <1>2, <2>1, CellsFinite DEF After
    <2> QED
      BY <1>1, <2>2 DEF After
  <1>4. \A k \in 0 .. n - 1 : u[k] # e /\ u[k] \in Cells /\ u[k] # Null
    BY <1>0, <1>3, CellsFinite DEF Unused, InUse
  <1> HIDE DEF F, e
  <1>5. /\ l.cnt \in Nat /\ l.next \in [Cells -> Pointers] /\ l.prev \in [Cells -> Pointers]
        /\ l.data \in [Cells -> Nat \cup Garbage] /\ l.free = e /\ l.fault = "none"
        /\ l.head \in Pointers /\ l.tail \in Pointers
    BY <1>0 DEF ListType, e
  <1>6. n = 0 <=> l.head = Null /\ l.tail = Null
    <2>1. n # 0 => 0 \in 0 .. n - 1
      BY <1>0
    <2> QED
      BY <1>0, <1>4, <2>1
  <1>7. /\ x \in ListType /\ x.cnt = n + 1 /\ x.head = e
        /\ x.tail = IF n = 0 THEN e ELSE l.tail
        /\ x.free = l.next[e]
        /\ \A c \in Cells : x.next[c] = IF c = e THEN l.head ELSE l.next[c]
        /\ \A c \in Cells : x.prev[c] = IF c = e THEN Null ELSE IF n # 0 /\ c = l.head THEN e ELSE l.prev[c]
        /\ \A c \in Cells : x.data[c] = IF c = e THEN v ELSE l.data[c]
    <2>1. e \in Pointers /\ Null \in Pointers /\ n + 1 \in 0 .. PoolCells /\ l.next[e] \in Pointers
      BY <1>0, <1>3, <1>5, CellsFinite DEF Pointers
    <2> DEFINE a == [Construct(l, v) EXCEPT !.cnt = @ + 1, !.head = e]
    <2>2. /\ a \in ListType /\ a.cnt = n + 1 /\ a.head = e /\ a.tail = l.tail /\ a.free = l.next[e]
          /\ a.next = [l.next EXCEPT ![e] = Null] /\ a.prev = [l.prev EXCEPT ![e] = Null]
          /\ a.data = [l.data EXCEPT ![e] = v]
      BY <1>0, <1>3, <1>5, <2>1 DEF Construct, ListType
    <2>3. x = IF n = 0 THEN [a EXCEPT !.tail = e]
              ELSE [a EXCEPT !.prev[l.head] = e, !.next[e] = l.head]
      BY <1>6 DEF PushFront, e
    <2> HIDE DEF a, x
    <2>4. CASE n = 0
      <3>1. /\ x \in ListType /\ x.cnt = a.cnt /\ x.head = e /\ x.tail = e /\ x.free = a.free
            /\ x.next = a.next /\ x.prev = a.prev /\ x.data = a.data
        BY <2>1, <2>2, <2>3, <2>4 DEF ListType
      <3> QED
        BY <1>3, <1>5, <1>6, <2>2, <2>4, <3>1
    <2>5. CASE n # 0
      <3>1. l.head \in Cells /\ l.head # e
        <4>1. 0 \in 0 .. n - 1
          BY <1>0, <2>5
        <4> QED
          BY <1>0, <1>4, <2>5, <4>1
      <3>2. /\ x \in ListType /\ x.cnt = a.cnt /\ x.head = e /\ x.tail = a.tail /\ x.free = a.free
            /\ x.next = [a.next EXCEPT ![e] = l.head] /\ x.prev = [a.prev EXCEPT ![l.head] = e]
            /\ x.data = a.data
        BY <1>5, <2>1, <2>2, <2>3, <2>5, <3>1 DEF ListType
      <3> QED
        BY <1>3, <1>5, <2>2, <2>5, <3>1, <3>2
    <2> QED
      BY <1>0, <2>4, <2>5
  <1> HIDE DEF x
  <1>8. EntriesOK(x, w, n + 1)
    <2>1. w \in [0 .. (n + 1) - 1 -> Cells]
      <3>1. ASSUME NEW k \in 0 .. n PROVE (IF k = 0 THEN e ELSE u[k - 1]) \in Cells
        <4>1. k # 0 => k - 1 \in 0 .. n - 1
          BY <1>0
        <4> QED
          BY <1>3, <1>4, <4>1
      <3>2. (n + 1) - 1 = n
        BY <1>0
      <3> QED
        BY <3>1, <3>2 DEF Pushed
    <2>2. w[0] = e /\ \A k \in 1 .. n : w[k] = u[k - 1] /\ k - 1 \in 0 .. n - 1
      BY <1>0 DEF Pushed
    <2> HIDE DEF w
    <2>3. ASSUME NEW j \in 0 .. (n + 1) - 1, NEW k \in 0 .. (n + 1) - 1, w[j] = w[k] PROVE j = k
      <3>1. j = 0 \/ j \in 1 .. n
        BY <1>0
      <3>2. k = 0 \/ k \in 1 .. n
        BY <1>0
      <3> QED
        BY <1>0, <1>4, <2>2, <2>3, <3>1, <3>2
    <2>4. x.tail = w[n]
      <3>1. n # 0 => n \in 1 .. n
        BY <1>0
      <3> QED
        BY <1>0, <1>7, <2>2, <3>1
    <2>5. ASSUME NEW k \in 0 .. (n + 1) - 1
          PROVE  /\ x.next[w[k]] = IF k = (n + 1) - 1 THEN Null ELSE w[k + 1]
                 /\ x.prev[w[k]] = IF k = 0 THEN Null ELSE w[k - 1]
      <3>1. CASE k = 0
        <4>1. x.next[e] = l.head /\ x.prev[e] = Null
          BY <1>3, <1>7
        <4>2. n # 0 => 1 \in 1 .. n
          BY <1>0
        <4> QED
          BY <1>0, <2>2, <3>1, <4>1, <4>2
      <3>2. CASE k # 0
        <4> DEFINE j == k - 1
        <4>1. k \in 1 .. n /\ j \in 0 .. n - 1 /\ w[k] = u[j] /\ (j # 0 => k - 1 \in 1 .. n)
          BY <1>0, <2>2, <3>2
        <4>2. u[j] # e /\ u[j] \in Cells /\ (u[j] = l.head <=> j = 0)
          <5>1. 0 \in 0 .. n - 1 /\ n # 0
            BY <1>0, <4>1
          <5> QED
            BY <1>0, <1>4, <4>1, <5>1
        <4>3. x.next[w[k]] = IF j = n - 1 THEN Null ELSE u[j + 1]
          BY <1>0, <1>7, <4>1, <4>2
        <4>4. x.prev[w[k]] = IF j = 0 THEN e ELSE u[j - 1]
          BY <1>0, <1>7, <4>1, <4>2
        <4>5. j # n - 1 => k + 1 \in 1 .. n /\ w[k + 1] = u[j + 1]
          BY <1>0, <2>2, <4>1
        <4>6. j # 0 => w[k - 1] = u[j - 1]
          BY <1>0, <2>2, <4>1
        <4> QED
          BY <1>0, <2>2, <3>2, <4>1, <4>3, <4>4, <4>5, <4>6
      <3> QED
        BY <3>1, <3>2
    <2> QED
      BY <1>0, <1>7, <2>1, <2>2, <2>3, <2>4, <2>5 DEF EntriesOK
  <1>9. FreeOK(x, G)
    <2>1. \A c \in F : c \in Nat /\ c \in Cells /\ Null < c
      BY <1>1, CellsFinite
    <2>2. \A c \in F : e <= c
      BY <1>1, <1>3, <2>1 DEF After, e
    <2>3. After(G, Null, x.free)
      BY <1>1, <1>3, <1>7, <2>1, <2>2, CellsFinite DEF After
    <2>4. ASSUME NEW c \in G PROVE After(G, c, x.next[c])
      <3>1. x.next[c] = l.next[c] /\ c \in F /\ c # e
        BY <1>7, <2>1
      <3>2. e \in Nat /\ c \in Nat /\ e < c
        BY <1>3, <2>1, <2>2, <3>1
      <3>3. After(F, c, x.next[c])
        BY <1>1, <3>1
      <3> DEFINE q == x.next[c]
      <3> HIDE DEF q
      <3>4. q # Null => q \in F /\ q # e
        BY <2>1, <3>2, <3>3 DEF After, q
      <3> QED
        BY <3>3, <3>4 DEF After, q
    <2> QED
      BY <1>1, <2>3, <2>4 DEF FreeOK
  <1>10. Unused(w, n + 1) = G
    <2>1. InUse(w, n + 1) = InUse(u, n) \cup {e}
      <3>1. ASSUME NEW c \in InUse(u, n) PROVE c \in InUse(w, n + 1)
        <4>1. PICK k \in 0 .. n - 1 : c = u[k]
          BY DEF InUse
        <4>2. k + 1 \in 0 .. n /\ w[k + 1] = u[k]
          BY <1>0 DEF Pushed
        <4> QED
          BY <1>0, <4>1, <4>2 DEF InUse
      <3>2. w[0] = e /\ 0 \in 0 .. (n + 1) - 1
        BY <1>0 DEF Pushed
      <3>3. ASSUME NEW k \in 0 .. (n + 1) - 1 PROVE w[k] = e \/ w[k] \in InUse(u, n)
        <4>1. k # 0 => k - 1 \in 0 .. n - 1
          BY <1>0
        <4> QED
          BY <1>0, <4>1 DEF Pushed, InUse
      <3> HIDE DEF w
      <3> QED
        BY <3>1, <3>2, <3>3 DEF InUse
    <2> QED
      BY <2>1 DEF Unused, F
  <1> QED
    BY <1>3, <1>7, <1>8, <1>9, <1>10 DEF Rep, x, e, F

-----------------------------------------------------------------------------
(* Where the search of free stops.                                         *)
GapStep(l, c) ==
    LET at == Walk(l, l.free)
    IN FirstStep(at, LAMBDA f : f = Null \/ l.next[f] = Null \/ l.next[f] > c)

(* The search of free: it ends at the last free cell below c.              *)
LEMMA ReleaseSearch ==
    ASSUME NEW l, NEW F, FreeOK(l, F), l.free \in Pointers, l.next \in [Cells -> Pointers],
           NEW c \in Cells, c \notin F, l.free # Null, ~(l.free > c)
    PROVE  LET p == Walk(l, l.free)[GapStep(l, c)]
           IN /\ GapStep(l, c) \in 0 .. PoolCells
              /\ p \in F /\ p < c
              /\ l.next[p] = Null \/ l.next[p] > c
  <1> DEFINE at == Walk(l, l.free)
             W(f) == f = Null \/ l.next[f] = Null \/ l.next[f] > c
             found == {k \in 0 .. PoolCells : W(at[k])}
             T == {j \in Nat : j <= PoolCells /\ (\A z \in 0 .. j - 1 : ~W(at[z]))
                               => at[j] \in F /\ at[j] < c /\ at[j] > j}
  <1>0. /\ After(F, Null, l.free) /\ \A d \in F : After(F, d, l.next[d])
        /\ \A d \in F : d \in Nat /\ d # Null /\ d \in Cells /\ d # c
        /\ Null = 0 /\ c \in Nat
    BY CellsFinite DEF FreeOK
  <1>1. /\ at[0] = l.free
        /\ \A k \in 0 .. PoolCells - 1 : at[k + 1] = IF at[k] = Null THEN Null ELSE l.next[at[k]]
    BY WalkSteps
  <1> HIDE DEF at
  <1>2. 0 \in T
    <2>1. at[0] \in F
      BY <1>0, <1>1 DEF After
    <2>2. at[0] \in Nat /\ at[0] # c /\ at[0] # 0
      BY <1>0, <2>1
    <2> QED
      BY <1>0, <1>1, <2>1, <2>2
  <1>3. ASSUME NEW j \in T PROVE j + 1 \in T
    <2> SUFFICES ASSUME j + 1 <= PoolCells, \A z \in 0 .. (j + 1) - 1 : ~W(at[z])
                 PROVE  at[j + 1] \in F /\ at[j + 1] < c /\ at[j + 1] > j + 1
      OBVIOUS
    <2>1. j \in Nat /\ j \in 0 .. PoolCells - 1 /\ j \in 0 .. (j + 1) - 1
      BY CellsFinite
    <2>2. \A z \in 0 .. j - 1 : z \in 0 .. (j + 1) - 1
      BY <2>1
    <2>3. \A z \in 0 .. j - 1 : ~W(at[z])
      BY <2>2
    <2>4. at[j] \in F /\ at[j] < c /\ at[j] > j /\ ~W(at[j])
      BY <2>1, <2>3, CellsFinite
    <2> DEFINE p == at[j]
               q == at[j + 1]
    <2>5. q = l.next[p] /\ q # Null /\ ~(q > c)
      BY <1>1, <2>1, <2>4
    <2>6. q \in F /\ p < q
      <3>1. After(F, p, q)
        BY <1>0, <2>4, <2>5
      <3> QED
        BY <2>5, <3>1 DEF After
    <2>7. q \in Nat /\ q # c /\ p \in Nat
      BY <1>0, <2>4, <2>6
    <2> HIDE DEF p, q
    <2>8. q < c /\ q > j + 1
      <3>1. p > j
        BY <2>4 DEF p
      <3> QED
        BY <1>0, <2>1, <2>5, <2>6, <2>7, <3>1
    <2> QED
      BY <2>6, <2>8 DEF q
  <1>4. T = Nat
    <2>1. T \in SUBSET Nat
      OBVIOUS
    <2> HIDE DEF T
    <2> QED
      BY <1>2, <1>3, <2>1, SetInduction
  <1>5. ASSUME NEW j \in 0 .. PoolCells, \A z \in 0 .. j - 1 : ~W(at[z])
        PROVE  at[j] \in F /\ at[j] < c /\ at[j] > j
    <2>1. j \in T /\ j <= PoolCells
      BY <1>4, CellsFinite
    <2> HIDE DEF W
    <2> QED
      BY <1>5, <2>1
  <1>6. found # {}
    <2> SUFFICES ASSUME found = {} PROVE FALSE
      OBVIOUS
    <2>1. PoolCells \in 0 .. PoolCells /\ \A z \in 0 .. PoolCells - 1 : z \in 0 .. PoolCells
      BY CellsFinite
    <2>2. \A z \in 0 .. PoolCells - 1 : ~W(at[z])
      BY <2>1
    <2> HIDE DEF W
    <2>3. at[PoolCells] \in F /\ at[PoolCells] > PoolCells
      BY <1>5, <2>1, <2>2
    <2>4. at[PoolCells] \in 1 .. PoolCells
      BY <1>0, <2>3 DEF Cells
    <2> QED
      BY <2>3, <2>4, CellsFinite
  <1> DEFINE k == CHOOSE k \in found : \A j \in found : k <= j
  <1>7. k \in found /\ \A j \in found : k <= j
    <2>1. found \in SUBSET Nat
      BY CellsFinite
    <2> HIDE DEF found
    <2>2. \E t \in found : \A j \in found : t <= j
      BY <1>6, <2>1, LeastExists
    <2> QED
      BY <2>2
  <1>8. GapStep(l, c) = k
    BY <1>6 DEF FirstStep, GapStep, at
  <1> HIDE DEF k
  <1>9. k \in 0 .. PoolCells /\ W(at[k])
    BY <1>7
  <1>10. \A z \in 0 .. k - 1 : ~W(at[z])
    <2>1. ASSUME NEW z \in 0 .. k - 1 PROVE z \in 0 .. PoolCells /\ ~(k <= z)
      BY <1>9, CellsFinite
    <2> QED
      BY <1>7, <2>1
  <1>11. at[k] \in F /\ at[k] < c /\ at[k] # Null
    <2> HIDE DEF W
    <2>1. at[k] \in F /\ at[k] < c
      BY <1>5, <1>9, <1>10
    <2> QED
      BY <1>0, <2>1
  <1>12. l.next[at[k]] = Null \/ l.next[at[k]] > c
    BY <1>9, <1>11
  <1> QED
    BY <1>8, <1>9, <1>11, <1>12 DEF at

(* free links the cell between the free ones around it.                    *)
LEMMA ReleaseRep ==
    ASSUME NEW l \in ListType, NEW F, FreeOK(l, F), NEW c \in Cells, c \notin F
    PROVE  /\ Release(l, c) \in ListType
           /\ FreeOK(Release(l, c), F \cup {c})
           /\ \A d \in Cells : d \notin F /\ d # c => Release(l, c).next[d] = l.next[d]
           /\ Release(l, c).cnt = l.cnt /\ Release(l, c).head = l.head /\ Release(l, c).tail = l.tail
           /\ Release(l, c).prev = l.prev /\ Release(l, c).data = l.data
  <1> DEFINE x == Release(l, c)
             G == F \cup {c}
  <1>0. /\ After(F, Null, l.free) /\ \A d \in F : After(F, d, l.next[d])
        /\ \A d \in F : d \in Nat /\ d # Null /\ Null < d /\ d \in Cells /\ d # c
        /\ Null = 0 /\ c \in Nat /\ c # Null
    BY CellsFinite DEF FreeOK
  <1>1. /\ l.cnt \in Nat /\ l.next \in [Cells -> Pointers] /\ l.free \in Pointers
    BY CellsFinite DEF ListType
  <1>2. c \in Pointers
    BY DEF Pointers
  <1>3. CASE l.free = Null \/ l.free > c
    <2>1. x = [l EXCEPT !.next[c] = l.free, !.free = c]
      BY <1>3 DEF Release
    <2> HIDE DEF x
    <2>2. /\ x \in ListType /\ x.next = [l.next EXCEPT ![c] = l.free] /\ x.free = c
          /\ x.cnt = l.cnt /\ x.head = l.head /\ x.tail = l.tail /\ x.prev = l.prev /\ x.data = l.data
      BY <1>1, <1>2, <2>1 DEF ListType
    <2>3. \A d \in F : c < d
      BY <1>0, <1>3 DEF After
    <2>4. After(G, Null, x.free)
      BY <1>0, <2>2, <2>3 DEF After
    <2>5. After(G, c, x.next[c])
      <3>1. x.next[c] = l.free
        BY <1>1, <2>2
      <3> QED
        BY <1>0, <1>3, <2>3, <3>1 DEF After
    <2>6. ASSUME NEW d \in F PROVE After(G, d, x.next[d])
      <3>1. x.next[d] = l.next[d] /\ c < d /\ d \in Nat
        BY <1>0, <1>1, <2>2, <2>3
      <3>2. After(F, d, x.next[d])
        BY <1>0, <3>1
      <3> QED
        BY <1>0, <3>1, <3>2 DEF After
    <2>7. G \subseteq Cells
      BY <1>0
    <2>8. FreeOK(x, G)
      BY <2>4, <2>5, <2>6, <2>7 DEF FreeOK
    <2> QED
      BY <1>1, <2>2, <2>8 DEF x
  <1>4. CASE l.free # Null /\ ~(l.free > c)
    <2> DEFINE at == Walk(l, l.free)
               k == GapStep(l, c)
               p == at[k]
               q == l.next[p]
    <2>1. k \in 0 .. PoolCells /\ p \in F /\ p < c /\ (q = Null \/ q > c)
      BY <1>1, <1>4, ReleaseSearch
    <2>2. x = IF k > PoolCells THEN [l EXCEPT !.fault = "hang"]
              ELSE [l EXCEPT !.next[c] = q, !.next[p] = c]
      BY <1>4 DEF Release, GapStep
    <2> HIDE DEF x, k, at
    <2>3. ~(k > PoolCells)
      BY <2>1, CellsFinite
    <2>4. x = [l EXCEPT !.next[c] = q, !.next[p] = c]
      BY <2>2, <2>3
    <2>5. p \in Nat /\ p \in Cells /\ p # c /\ After(F, p, q) /\ q \in Pointers
      BY <1>0, <1>1, <2>1
    <2> HIDE DEF p, q
    <2>6. /\ x \in ListType /\ x.next = [[l.next EXCEPT ![c] = q] EXCEPT ![p] = c] /\ x.free = l.free
          /\ x.cnt = l.cnt /\ x.head = l.head /\ x.tail = l.tail /\ x.prev = l.prev /\ x.data = l.data
      BY <1>1, <1>2, <2>4, <2>5 DEF ListType
    <2>7. x.next[c] = q /\ x.next[p] = c /\ \A d \in Cells : d # c /\ d # p => x.next[d] = l.next[d]
      BY <1>1, <2>5, <2>6
    <2>8. After(G, Null, x.free)
      <3>1. l.free \in F /\ l.free <= c
        BY <1>0, <1>4 DEF After
      <3> QED
        BY <1>0, <2>6, <3>1 DEF After
    <2>9. q # Null => q \in F /\ p < q /\ q \in Nat /\ c < q /\ \A y \in F : p < y => q <= y
      BY <1>0, <2>1, <2>5 DEF After
    <2>10. q = Null => \A y \in F : y <= p
      BY <2>5 DEF After
    <2>11. After(G, c, x.next[c])
      <3>1. q = Null => \A y \in G : y <= c
        BY <1>0, <2>1, <2>5, <2>10
      <3>2. q # Null => \A y \in G : c < y => q <= y
        BY <1>0, <2>1, <2>5, <2>9
      <3> QED
        BY <2>7, <2>9, <3>1, <3>2 DEF After
    <2>12. After(G, p, x.next[p])
      <3>1. \A y \in G : p < y => c <= y
        <4>1. ASSUME NEW y \in F, p < y PROVE c <= y
          <5>1. y \in Nat
            BY <1>0
          <5> QED
            BY <1>0, <2>5, <2>9, <2>10, <4>1, <5>1
        <4> QED
          BY <1>0, <4>1
      <3> QED
        BY <1>0, <2>1, <2>7, <3>1 DEF After
    <2>13. ASSUME NEW d \in F, d # p PROVE After(G, d, x.next[d])
      <3> DEFINE r == x.next[d]
      <3>1. d \in Nat /\ r = l.next[d] /\ After(F, d, r)
        BY <1>0, <2>7, <2>13
      <3> HIDE DEF r
      <3>2. d < p \/ c < d
        BY <1>0, <2>5, <2>9, <2>10, <2>13, <3>1
      <3>3. CASE r = Null
        <4>1. \A y \in F : y <= d
          BY <3>1, <3>3 DEF After
        <4>2. c <= d
          BY <1>0, <2>1, <2>5, <3>1, <3>2, <4>1
        <4> QED
          BY <3>3, <4>1, <4>2 DEF After, r
      <3>4. CASE r # Null
        <4>1. r \in F /\ d < r /\ \A y \in F : d < y => r <= y
          BY <3>1, <3>4 DEF After
        <4>2. r \in Nat
          BY <1>0, <4>1
        <4>3. d < c => r <= c
          BY <1>0, <2>1, <2>5, <3>1, <3>2, <4>1, <4>2
        <4> QED
          BY <3>4, <4>1, <4>3 DEF After, r
      <3> QED
        BY <3>3, <3>4
    <2>14. G \subseteq Cells
      BY <1>0
    <2>15. FreeOK(x, G)
      BY <2>8, <2>11, <2>12, <2>13, <2>14 DEF FreeOK
    <2>16. \A d \in Cells : d \notin F /\ d # c => x.next[d] = l.next[d]
      BY <2>1, <2>7 DEF p
    <2> QED
      BY <2>6, <2>15, <2>16 DEF x
  <1> QED
    BY <1>3, <1>4

(* pop_back frees the last entry's cell; head stays right because another  *)
(* entry is left.                                                          *)
LEMMA PopRep ==
    ASSUME NEW l, NEW u, NEW n, Rep(l, u, n), n > 1
    PROVE  /\ Rep(PopBack(l), [k \in 0 .. n - 2 |-> u[k]], n - 1)
           /\ PopBack(l).data = l.data
  <1> DEFINE t == u[n - 1]
             s == u[n - 2]
             a == Unlink(l, t)
             F == Unused(u, n)
             r == Release(a, t)
             x == PopBack(l)
             w == [k \in 0 .. n - 2 |-> u[k]]
  <1>0. /\ l \in ListType /\ n \in Nat /\ l.cnt = n
        /\ u \in [0 .. n - 1 -> Cells]
        /\ \A j, k \in 0 .. n - 1 : u[j] = u[k] => j = k
        /\ l.head = IF n = 0 THEN Null ELSE u[0]
        /\ l.tail = IF n = 0 THEN Null ELSE u[n - 1]
        /\ \A k \in 0 .. n - 1 : l.next[u[k]] = IF k = n - 1 THEN Null ELSE u[k + 1]
        /\ \A k \in 0 .. n - 1 : l.prev[u[k]] = IF k = 0 THEN Null ELSE u[k - 1]
        /\ FreeOK(l, F)
    BY DEF Rep, EntriesOK
  <1>1. /\ n - 1 \in 0 .. n - 1 /\ n - 2 \in 0 .. n - 1 /\ n - 1 # 0 /\ n - 1 # n - 2 /\ (n - 1) - 1 = n - 2
        /\ 0 \in 0 .. n - 1 /\ n # 0 /\ 0 # n - 1
    BY <1>0
  <1>2. /\ t \in Cells /\ s \in Cells /\ t # s /\ t # Null /\ s # Null /\ l.tail = t
        /\ l.next[t] = Null /\ l.prev[t] = s
    BY <1>0, <1>1, CellsFinite
  <1>3. t \notin F /\ s \notin F
    BY <1>1 DEF Unused, InUse
  <1>4. l.next \in [Cells -> Pointers] /\ l.prev \in [Cells -> Pointers] /\ Null \in Pointers
    BY <1>0 DEF ListType, Pointers
  <1> HIDE DEF t, s, F
  <1>5. /\ a \in ListType /\ a.next = [l.next EXCEPT ![s] = Null] /\ a.prev = l.prev /\ a.free = l.free
        /\ a.cnt = l.cnt /\ a.head = l.head /\ a.tail = l.tail /\ a.data = l.data
    <2>1. a = [l EXCEPT !.prev = @, !.next = [@ EXCEPT ![s] = Null]]
      BY <1>2 DEF Unlink
    <2> HIDE DEF a
    <2> QED
      BY <1>0, <1>2, <1>4, <2>1 DEF ListType
  <1> HIDE DEF a
  <1>6. FreeOK(a, F)
    <2>1. \A c \in F : a.next[c] = l.next[c]
      BY <1>0, <1>3, <1>4, <1>5 DEF FreeOK
    <2> QED
      BY <1>0, <1>5, <2>1 DEF FreeOK
  <1>7. /\ r \in ListType /\ FreeOK(r, F \cup {t})
        /\ \A d \in Cells : d \notin F /\ d # t => r.next[d] = a.next[d]
        /\ r.cnt = n /\ r.head = l.head /\ r.prev = l.prev /\ r.data = l.data
    <2>1. /\ Release(a, t) \in ListType /\ FreeOK(Release(a, t), F \cup {t})
          /\ \A d \in Cells : d \notin F /\ d # t => Release(a, t).next[d] = a.next[d]
          /\ Release(a, t).cnt = a.cnt /\ Release(a, t).head = a.head
          /\ Release(a, t).prev = a.prev /\ Release(a, t).data = a.data
      <3>1. a \in ListType /\ FreeOK(a, F) /\ t \in Cells /\ t \notin F
        BY <1>2, <1>3, <1>5, <1>6
      <3> HIDE DEF r
      <3> QED
        BY ONLY <3>1, ReleaseRep
    <2> QED
      BY <1>0, <1>5, <2>1
  <1>8. x = [r EXCEPT !.tail = s, !.cnt = @ - 1]
    BY <1>2, <1>5 DEF PopBack, a
  <1> HIDE DEF r, x
  <1>9. /\ x \in ListType /\ x.cnt = n - 1 /\ x.tail = s /\ x.head = l.head /\ x.prev = l.prev /\ x.data = l.data
        /\ x.next = r.next /\ x.free = r.free
    <2>1. s \in Pointers /\ n - 1 \in 0 .. PoolCells
      <3>1. n \in 0 .. PoolCells
        BY <1>0 DEF ListType
      <3> QED
        BY <1>1, <1>2, <3>1, CellsFinite DEF Pointers
    <2> QED
      BY <1>7, <1>8, <2>1 DEF ListType
  <1>10. \A k \in 0 .. n - 2 : k \in 0 .. n - 1 /\ w[k] = u[k] /\ u[k] \in Cells /\ u[k] \notin F /\ u[k] # t
    <2>1. \A k \in 0 .. n - 2 : k \in 0 .. n - 1 /\ k # n - 1
      BY <1>0
    <2> QED
      BY <1>0, <1>1, <2>1 DEF F, Unused, InUse, t
  <1>11. EntriesOK(x, w, n - 1)
    <2>1. w \in [0 .. (n - 1) - 1 -> Cells]
      BY <1>1, <1>10
    <2>2. \A j, k \in 0 .. (n - 1) - 1 : w[j] = w[k] => j = k
      BY <1>0, <1>1, <1>10
    <2>3. x.head = w[0] /\ x.tail = w[(n - 1) - 1]
      BY <1>0, <1>1, <1>9, <1>10 DEF s
    <2>4. ASSUME NEW k \in 0 .. (n - 1) - 1
          PROVE  /\ x.next[w[k]] = IF k = (n - 1) - 1 THEN Null ELSE w[k + 1]
                 /\ x.prev[w[k]] = IF k = 0 THEN Null ELSE w[k - 1]
      <3>1. k \in 0 .. n - 2 /\ k \in 0 .. n - 1
        BY <1>1, <1>10
      <3>2. x.next[w[k]] = IF u[k] = s THEN Null ELSE l.next[u[k]]
        BY <1>4, <1>5, <1>7, <1>9, <1>10, <3>1
      <3>3. u[k] = s <=> k = n - 2
        BY <1>0, <1>1, <3>1 DEF s
      <3>4. k # n - 2 => k + 1 \in 0 .. n - 2 /\ k # n - 1
        BY <1>0, <3>1
      <3>5. k # 0 => k - 1 \in 0 .. n - 2
        BY <1>0, <3>1
      <3> QED
        BY <1>0, <1>1, <1>9, <1>10, <3>1, <3>2, <3>3, <3>4, <3>5
    <2> HIDE DEF w
    <2> QED
      BY <1>0, <1>1, <1>9, <2>1, <2>2, <2>3, <2>4 DEF EntriesOK
  <1>12. Unused(w, n - 1) = F \cup {t}
    <2>1. InUse(u, n) = InUse(w, n - 1) \cup {t}
      <3>1. ASSUME NEW k \in 0 .. n - 1 PROVE u[k] = t \/ u[k] \in InUse(w, n - 1)
        <4>1. k # n - 1 => k \in 0 .. (n - 1) - 1 /\ k \in 0 .. n - 2
          BY <1>0
        <4> QED
          BY <1>10, <4>1 DEF InUse, t
      <3>2. ASSUME NEW k \in 0 .. (n - 1) - 1 PROVE w[k] \in InUse(u, n)
        BY <1>1, <1>10 DEF InUse
      <3>3. t \in InUse(u, n)
        BY <1>1 DEF InUse, t
      <3> HIDE DEF w
      <3> QED
        BY <3>1, <3>2, <3>3 DEF InUse
    <2>2. t \notin InUse(w, n - 1)
      BY <1>1, <1>10 DEF InUse
    <2> QED
      BY <1>2, <2>1, <2>2 DEF Unused, F
  <1>13. FreeOK(x, F \cup {t})
    BY <1>7, <1>9 DEF FreeOK
  <1> QED
    BY <1>9, <1>11, <1>12, <1>13 DEF Rep, x

-----------------------------------------------------------------------------
(* Where the loop of find stops.                                           *)
FindStep(l, v) ==
    LET at == Walk(l, l.head)
    IN FirstStep(at, LAMBDA p : p = Null \/ l.data[p] = v)

(* find ends, at the first entry with the value or at none.                *)
LEMMA FindRep ==
    ASSUME NEW l, NEW u, NEW n \in Nat, EntriesOK(l, u, n), NEW v
    PROVE  LET it == Find(l, v)
           IN /\ ~it.hangs
              /\ it.ptr = Null => \A k \in 0 .. n - 1 : l.data[u[k]] # v
              /\ it.ptr # Null => /\ it.dist \in 0 .. n - 1
                                  /\ it.ptr = u[it.dist] /\ l.data[it.ptr] = v
                                  /\ \A k \in 0 .. n - 1 : k < it.dist => l.data[u[k]] # v
  <1> DEFINE at == Walk(l, l.head)
             W(p) == p = Null \/ l.data[p] = v
             found == {k \in 0 .. PoolCells : W(at[k])}
             d == CHOOSE k \in found : \A j \in found : k <= j
  <1>0. /\ n \in 0 .. PoolCells /\ n \in Nat
        /\ \A k \in 0 .. n - 1 : u[k] # Null
    BY CellsFinite DEF EntriesOK, ListType
  <1>1. \A k \in 0 .. PoolCells : at[k] = IF k < n THEN u[k] ELSE Null
    BY WalkEntries
  <1> HIDE DEF at
  <1>2. n \in found
    BY <1>0, <1>1
  <1>3. d \in found /\ \A j \in found : d <= j
    <2>1. found \in SUBSET Nat /\ found # {}
      BY <1>2, CellsFinite
    <2> HIDE DEF found
    <2>2. \E t \in found : \A j \in found : t <= j
      BY <2>1, LeastExists
    <2> QED
      BY <2>2
  <1> DEFINE it == Find(l, v)
  <1>4. /\ it.ptr = IF d > PoolCells THEN Null ELSE at[d]
        /\ it.dist = d /\ it.hangs = (d > PoolCells)
    <2>1. found # {}
      BY <1>2
    <2>2. FindStep(l, v) = d
      BY <2>1 DEF FindStep, FirstStep, at
    <2> HIDE DEF d, found
    <2> QED
      BY <2>2 DEF Find, FindStep, at
  <1> HIDE DEF d, it
  <1>5. d \in 0 .. PoolCells /\ W(at[d]) /\ d <= n /\ ~(d > PoolCells)
    BY <1>2, <1>3, CellsFinite
  <1>6. ASSUME NEW k \in 0 .. n - 1, k < d PROVE l.data[u[k]] # v
    <2>1. k \in 0 .. PoolCells /\ k < n /\ ~(d <= k)
      BY <1>0, <1>5, <1>6, CellsFinite
    <2>2. ~W(at[k])
      BY <1>3, <2>1
    <2> QED
      BY <1>1, <2>1, <2>2
  <1>7. at[d] = Null <=> d = n
    BY <1>0, <1>1, <1>5, CellsFinite
  <1> DEFINE Found == /\ ~it.hangs
                      /\ it.ptr = Null => \A k \in 0 .. n - 1 : l.data[u[k]] # v
                      /\ it.ptr # Null => /\ it.dist \in 0 .. n - 1
                                          /\ it.ptr = u[it.dist] /\ l.data[it.ptr] = v
                                          /\ \A k \in 0 .. n - 1 : k < it.dist => l.data[u[k]] # v
  <1>8. d = n => Found
    <2> SUFFICES ASSUME d = n PROVE Found
      OBVIOUS
    <2>1. \A k \in 0 .. n - 1 : k < d
      BY <1>0
    <2> QED
      BY <1>4, <1>5, <1>6, <1>7, <2>1
  <1>9. d # n => Found
    <2> SUFFICES ASSUME d # n PROVE Found
      OBVIOUS
    <2>1. d \in 0 .. n - 1 /\ d < n
      BY <1>0, <1>5
    <2>2. at[d] = u[d] /\ at[d] # Null /\ l.data[at[d]] = v
      BY <1>0, <1>1, <1>5, <2>1
    <2> QED
      BY <1>4, <1>5, <1>6, <2>1, <2>2
  <1> QED
    BY <1>8, <1>9 DEF it

(* The entries after move_to_head.                                         *)
Fronted(u, n, j) ==
    [k \in 0 .. n - 1 |-> IF k = 0 THEN u[j] ELSE IF k <= j THEN u[k - 1] ELSE u[k]]

(* The order of the entries changes, and nothing else.                     *)
LEMMA FrontedEntries ==
    ASSUME NEW n \in Nat \ {0}, NEW u \in [0 .. n - 1 -> Cells], NEW j \in 0 .. n - 1,
           \A z, k \in 0 .. n - 1 : u[z] = u[k] => z = k
    PROVE  LET w == Fronted(u, n, j)
           IN /\ w \in [0 .. n - 1 -> Cells]
              /\ \A z, k \in 0 .. n - 1 : w[z] = w[k] => z = k
              /\ Unused(w, n) = Unused(u, n)
              /\ w[0] = u[j]
              /\ \A k \in 1 .. n - 1 : w[k] = IF k <= j THEN u[k - 1] ELSE u[k]
  <1> DEFINE w == Fronted(u, n, j)
             from(k) == IF k = 0 THEN j ELSE IF k <= j THEN k - 1 ELSE k
  <1>1. \A k \in 0 .. n - 1 : from(k) \in 0 .. n - 1
    OBVIOUS
  <1>2. \A k \in 0 .. n - 1 : w[k] = u[from(k)]
    BY DEF Fronted
  <1>3. w \in [0 .. n - 1 -> Cells]
    <2>1. w = [k \in 0 .. n - 1 |-> u[from(k)]]
      BY DEF Fronted
    <2> HIDE DEF w, from
    <2> QED
      BY <1>1, <2>1
  <1>4. \A z, k \in 0 .. n - 1 : from(z) = from(k) => z = k
    OBVIOUS
  <1>5. \A k \in 0 .. n - 1 : \E z \in 0 .. n - 1 : from(z) = k
    <2>1. ASSUME NEW k \in 0 .. n - 1 PROVE \E z \in 0 .. n - 1 : from(z) = k
      <3>1. CASE k = j
        <4>1. 0 \in 0 .. n - 1 /\ from(0) = k
          BY <3>1
        <4> QED
          BY <4>1
      <3>2. CASE k < j
        <4>1. k + 1 \in 0 .. n - 1 /\ from(k + 1) = k
          BY <3>2
        <4> QED
          BY <4>1
      <3>3. CASE k > j
        <4>1. from(k) = k
          BY <3>3
        <4> QED
          BY <4>1
      <3> QED
        BY <3>1, <3>2, <3>3
    <2> QED
      BY <2>1
  <1>6. w[0] = u[j] /\ \A k \in 1 .. n - 1 : w[k] = IF k <= j THEN u[k - 1] ELSE u[k]
    BY <1>2
  <1> HIDE DEF w, from
  <1>7. \A z, k \in 0 .. n - 1 : w[z] = w[k] => z = k
    BY <1>1, <1>2, <1>4
  <1>8. InUse(w, n) = InUse(u, n)
    <2>1. ASSUME NEW k \in 0 .. n - 1 PROVE w[k] \in InUse(u, n)
      <3>1. PICK z \in 0 .. n - 1 : w[k] = u[z]
        BY <1>1, <1>2
      <3> QED
        BY <3>1 DEF InUse
    <2>2. ASSUME NEW k \in 0 .. n - 1 PROVE u[k] \in InUse(w, n)
      <3>1. PICK z \in 0 .. n - 1 : from(z) = k
        BY <1>5
      <3>2. w[z] = u[k]
        BY <1>2, <3>1
      <3> QED
        BY <3>2 DEF InUse
    <2>3. ASSUME NEW c \in InUse(w, n) PROVE c \in InUse(u, n)
      <3>1. PICK k \in 0 .. n - 1 : c = w[k]
        BY DEF InUse
      <3> QED
        BY <2>1, <3>1
    <2>4. ASSUME NEW c \in InUse(u, n) PROVE c \in InUse(w, n)
      <3>1. PICK k \in 0 .. n - 1 : c = u[k]
        BY DEF InUse
      <3> QED
        BY <2>2, <3>1
    <2> QED
      BY <2>3, <2>4
  <1> QED
    BY <1>3, <1>6, <1>7, <1>8 DEF Unused, w

(* move_to_head unlinks the entry, wherever it is, and links it again      *)
(* before the head.                                                        *)
LEMMA MoveRep ==
    ASSUME NEW l, NEW u, NEW n \in Nat, Rep(l, u, n), NEW j \in 0 .. n - 1
    PROVE  /\ Rep(MoveToHead(l, u[j]), Fronted(u, n, j), n)
           /\ MoveToHead(l, u[j]).data = l.data
  <1> DEFINE p == u[j]
             nx == IF j = n - 1 THEN Null ELSE u[j + 1]
             pv == IF j = 0 THEN Null ELSE u[j - 1]
             h == IF j = 0 THEN u[1] ELSE u[0]
             t == IF j = n - 1 THEN u[n - 2] ELSE u[n - 1]
             a == Unlink(l, p)
             x == MoveToHead(l, p)
             w == Fronted(u, n, j)
             F == Unused(u, n)
  <1>0. /\ l \in ListType /\ n \in Nat /\ n # 0 /\ l.cnt = n
        /\ u \in [0 .. n - 1 -> Cells]
        /\ \A z, k \in 0 .. n - 1 : u[z] = u[k] => z = k
        /\ \A k \in 0 .. n - 1 : u[k] \in Cells /\ u[k] # Null /\ u[k] \in Pointers
        /\ l.head = u[0] /\ l.tail = u[n - 1]
        /\ \A k \in 0 .. n - 1 : l.next[u[k]] = IF k = n - 1 THEN Null ELSE u[k + 1]
        /\ \A k \in 0 .. n - 1 : l.prev[u[k]] = IF k = 0 THEN Null ELSE u[k - 1]
        /\ FreeOK(l, F)
    <2> HIDE DEF p, nx, pv, h, t, a, x, w
    <2>1. EntriesOK(l, u, n) /\ FreeOK(l, F)
      BY DEF Rep
    <2>2. n # 0
      OBVIOUS
    <2> HIDE DEF F
    <2>3. \A k \in 0 .. n - 1 : u[k] \in Cells
      BY <2>1 DEF EntriesOK
    <2>4. \A k \in 0 .. n - 1 : u[k] # Null /\ u[k] \in Pointers
      BY <2>3, CellsFinite DEF Pointers
    <2>5. \A k \in 0 .. n - 1 : u[k] \in Cells /\ u[k] # Null /\ u[k] \in Pointers
      BY <2>3, <2>4
    <2> QED
      BY <2>1, <2>2, <2>5 DEF EntriesOK
  <1>1. /\ w \in [0 .. n - 1 -> Cells]
        /\ \A z, k \in 0 .. n - 1 : w[z] = w[k] => z = k
        /\ Unused(w, n) = F
        /\ w[0] = p
        /\ \A k \in 1 .. n - 1 : w[k] = IF k <= j THEN u[k - 1] ELSE u[k]
    <2>1. n \in Nat \ {0} /\ u \in [0 .. n - 1 -> Cells]
          /\ \A z, k \in 0 .. n - 1 : u[z] = u[k] => z = k
      BY <1>0
    <2> HIDE DEF p, w, F
    <2> QED
      BY <2>1, FrontedEntries DEF p, w, F
  <1> HIDE DEF w
  <1>2. CASE n = 1
    <2>1. x = l
      BY <1>0, <1>2 DEF MoveToHead
    <2>2. w = u
      <3>1. 0 .. n - 1 = {0} /\ j = 0
        BY <1>2
      <3>2. \A k \in 0 .. n - 1 : w[k] = u[k]
        BY <1>1, <3>1
      <3> HIDE DEF F, p
      <3> QED
        BY <1>0, <1>1, <3>2
    <2> QED
      BY <2>1, <2>2 DEF w
  <1>3. CASE n # 1
    <2>1. /\ j = 0 => 1 \in 0 .. n - 1
          /\ j # 0 => j - 1 \in 0 .. n - 1
          /\ j # n - 1 => j + 1 \in 0 .. n - 1
          /\ 0 \in 0 .. n - 1 /\ n - 1 \in 0 .. n - 1 /\ n - 2 \in 0 .. n - 1
          /\ n - 1 # n - 2 /\ 0 # 1 /\ (j = n - 1 => j # 0 /\ j - 1 = n - 2) /\ (j = 0 => j # n - 1)
          /\ ~(n <= 1)
      BY <1>0, <1>3
    <2>2. /\ l.next \in [Cells -> Pointers] /\ l.prev \in [Cells -> Pointers]
          /\ l.next[p] = nx /\ l.prev[p] = pv
          /\ p \in Cells /\ p # Null /\ h \in Cells /\ h # Null /\ h # p /\ t \in Cells
          /\ nx \in Pointers /\ pv \in Pointers /\ Null \in Pointers
          /\ h \in Pointers /\ t \in Pointers /\ p \in Pointers
          /\ (nx # Null => nx \in Cells) /\ (pv # Null => pv \in Cells)
          /\ (p = l.head <=> j = 0) /\ (p = l.tail <=> j = n - 1)
      BY <1>0, <2>1 DEF ListType, Pointers
    <2>3. /\ a \in ListType /\ a.cnt = n /\ a.free = l.free /\ a.data = l.data
          /\ a.next = IF pv = Null THEN l.next ELSE [l.next EXCEPT ![pv] = nx]
          /\ a.prev = IF nx = Null THEN l.prev ELSE [l.prev EXCEPT ![nx] = pv]
      <3>1. a = [l EXCEPT !.prev = IF nx = Null THEN @ ELSE [@ EXCEPT ![nx] = pv],
                          !.next = IF pv = Null THEN @ ELSE [@ EXCEPT ![pv] = nx]]
        BY <2>2 DEF Unlink
      <3> HIDE DEF a, nx, pv, p, h, t, F
      <3> QED
        BY <1>0, <2>2, <3>1 DEF ListType
    <2>4. j = 0 => pv = Null /\ nx = h
      BY <2>1
    <2>5. j = n - 1 => nx = Null /\ pv = t
      BY <2>1
    <2>6. h = IF p = l.head THEN a.next[p] ELSE l.head
      BY <1>0, <2>2, <2>3, <2>4
    <2>7. t = IF p = l.tail THEN a.prev[p] ELSE l.tail
      BY <1>0, <2>2, <2>3, <2>5
    <2>8. x = [a EXCEPT !.prev = [@ EXCEPT ![p] = Null, ![h] = p], !.next[p] = h, !.head = p, !.tail = t]
      <3> HIDE DEF p, h, t, nx, pv, F
      <3> QED
        BY <1>0, <2>1, <2>2, <2>6, <2>7 DEF MoveToHead
    <2> HIDE DEF a, x
    <2>9. /\ x \in ListType /\ x.cnt = n /\ x.head = p /\ x.tail = t /\ x.free = l.free /\ x.data = l.data
          /\ x.next = [a.next EXCEPT ![p] = h]
          /\ x.prev = [[a.prev EXCEPT ![p] = Null] EXCEPT ![h] = p]
      <3> HIDE DEF nx, pv, p, h, t, F
      <3> QED
        BY <2>2, <2>3, <2>8 DEF ListType
    <2>10. \A c \in Cells : x.next[c] = IF c = p THEN h ELSE IF pv # Null /\ c = pv THEN nx ELSE l.next[c]
      <3> HIDE DEF nx, pv, p, h, t, F
      <3>1. a.next \in [Cells -> Pointers]
        BY <2>3 DEF ListType
      <3> QED
        BY <2>2, <2>3, <2>9, <3>1
    <2>11. \A c \in Cells : x.prev[c] = IF c = h THEN p ELSE IF c = p THEN Null
                                        ELSE IF nx # Null /\ c = nx THEN pv ELSE l.prev[c]
      <3> HIDE DEF nx, pv, p, h, t, F
      <3>1. a.prev \in [Cells -> Pointers]
        BY <2>3 DEF ListType
      <3> QED
        BY <2>2, <2>3, <2>9, <3>1
    <2>12. ASSUME NEW k \in 0 .. n - 1
           PROVE  /\ x.next[u[k]] = IF k = j THEN h ELSE IF k = j - 1 THEN nx
                                    ELSE IF k = n - 1 THEN Null ELSE u[k + 1]
                  /\ x.prev[u[k]] = IF (j = 0 /\ k = 1) \/ (j # 0 /\ k = 0) THEN p
                                    ELSE IF k = j THEN Null ELSE IF k = j + 1 THEN pv
                                    ELSE IF k = 0 THEN Null ELSE u[k - 1]
      <3>1. /\ u[k] = p <=> k = j
            /\ (pv # Null /\ u[k] = pv) <=> (j # 0 /\ k = j - 1)
            /\ (nx # Null /\ u[k] = nx) <=> (j # n - 1 /\ k = j + 1)
            /\ u[k] = h <=> ((j = 0 /\ k = 1) \/ (j # 0 /\ k = 0))
        <4>1. u[k] = p <=> k = j
          BY <1>0
        <4>2. (pv # Null /\ u[k] = pv) <=> (j # 0 /\ k = j - 1)
          BY <1>0, <2>1
        <4>3. (nx # Null /\ u[k] = nx) <=> (j # n - 1 /\ k = j + 1)
          <5>1. CASE j = n - 1
            BY <5>1
          <5>2. CASE j # n - 1
            <6>1. nx = u[j + 1] /\ j + 1 \in 0 .. n - 1 /\ nx # Null
              BY <1>0, <2>1, <5>2
            <6> QED
              BY <1>0, <5>2, <6>1
          <5> QED
            BY <5>1, <5>2
        <4>4. u[k] = h <=> ((j = 0 /\ k = 1) \/ (j # 0 /\ k = 0))
          <5>1. CASE j = 0
            BY <1>0, <2>1, <5>1
          <5>2. CASE j # 0
            BY <1>0, <2>1, <5>2
          <5> QED
            BY <5>1, <5>2
        <4> QED
          BY <4>1, <4>2, <4>3, <4>4
      <3>2. u[k] \in Cells /\ (k = j - 1 => j # 0) /\ (k = j + 1 => j # n - 1)
        BY <1>0
      <3> HIDE DEF nx, pv, p, h, t, F
      <3> QED
        BY <1>0, <2>10, <2>11, <3>1, <3>2
    <2>13. ASSUME NEW k \in 0 .. n - 1
           PROVE  x.next[w[k]] = IF k = n - 1 THEN Null ELSE w[k + 1]
      <3>1. CASE k = 0
        <4>1. x.next[w[k]] = h /\ k # n - 1 /\ 1 \in 1 .. n - 1
          BY <1>0, <1>1, <1>3, <2>12, <3>1
        <4>2. w[1] = h
          <5>1. 1 <= j <=> j # 0
            OBVIOUS
          <5> QED
            BY <1>1, <4>1, <5>1
        <4> QED
          BY <3>1, <4>1, <4>2
      <3>2. CASE k # 0 /\ k <= j
        <4>1. k \in 1 .. n - 1 /\ k - 1 \in 0 .. n - 1 /\ w[k] = u[k - 1] /\ k - 1 # j /\ k - 1 # n - 1 /\ (k - 1) + 1 = k
          BY <1>1, <3>2
        <4>2. x.next[w[k]] = IF k = j THEN nx ELSE u[k]
          <5>1. k - 1 = j - 1 <=> k = j
            OBVIOUS
          <5> QED
            BY <2>12, <4>1, <5>1
        <4>3. CASE k = j
          <5>1. j # n - 1 => j + 1 \in 1 .. n - 1 /\ ~(j + 1 <= j)
            OBVIOUS
          <5> QED
            BY <1>1, <4>2, <4>3, <5>1
        <4>4. CASE k # j
          <5>1. k + 1 \in 1 .. n - 1 /\ k + 1 <= j /\ (k + 1) - 1 = k /\ k # n - 1
            BY <3>2, <4>4
          <5> QED
            BY <1>1, <4>2, <4>4, <5>1
        <4> QED
          BY <4>3, <4>4
      <3>3. CASE k > j
        <4>1. k \in 1 .. n - 1 /\ ~(k <= j) /\ k # j /\ k # j - 1 /\ w[k] = u[k]
          BY <1>1, <3>3
        <4>2. x.next[w[k]] = IF k = n - 1 THEN Null ELSE u[k + 1]
          BY <2>12, <4>1
        <4>3. k # n - 1 => k + 1 \in 1 .. n - 1 /\ ~(k + 1 <= j)
          BY <3>3
        <4> QED
          BY <1>1, <4>2, <4>3
      <3> QED
        BY <3>1, <3>2, <3>3
    <2>14. ASSUME NEW k \in 0 .. n - 1
           PROVE  x.prev[w[k]] = IF k = 0 THEN Null ELSE w[k - 1]
      <3>1. CASE k = 0
        <4>1. ~(j = 0 /\ j = 1) /\ ~(j # 0 /\ j = 0)
          OBVIOUS
        <4> QED
          BY <1>1, <2>12, <3>1, <4>1
      <3>2. CASE k # 0 /\ k <= j
        <4>1. /\ k \in 1 .. n - 1 /\ k - 1 \in 0 .. n - 1 /\ w[k] = u[k - 1]
              /\ k - 1 # j /\ k - 1 # j + 1 /\ j # 0 /\ (k - 1) - 1 = k - 2
          BY <1>1, <3>2
        <4>2. x.prev[w[k]] = IF k = 1 THEN p ELSE u[k - 2]
          <5>1. k - 1 = 0 <=> k = 1
            OBVIOUS
          <5> QED
            BY <2>12, <4>1, <5>1
        <4>3. k # 1 => k - 1 \in 1 .. n - 1 /\ k - 1 <= j
          BY <3>2
        <4> QED
          BY <1>1, <3>2, <4>1, <4>2, <4>3
      <3>3. CASE k > j
        <4>1. k \in 1 .. n - 1 /\ ~(k <= j) /\ k # j /\ k # 0 /\ w[k] = u[k]
          BY <1>1, <3>3
        <4>2. x.prev[w[k]] = IF j = 0 /\ k = 1 THEN p ELSE IF k = j + 1 THEN pv ELSE u[k - 1]
          <5>1. ~(j # 0 /\ k = 0) /\ (((j = 0 /\ k = 1) \/ (j # 0 /\ k = 0)) <=> (j = 0 /\ k = 1))
            BY <4>1
          <5> HIDE DEF p, pv
          <5> QED
            BY <2>12, <4>1, <5>1
        <4>3. CASE k = j + 1
          <5>1. j = 0 <=> k = 1
            BY <4>3
          <5>2. k # 1 => j \in 1 .. n - 1 /\ j <= j /\ k - 1 = j
            BY <4>3
          <5> QED
            BY <1>1, <4>1, <4>2, <4>3, <5>1, <5>2
        <4>4. CASE k # j + 1
          <5>1. k - 1 \in 1 .. n - 1 /\ ~(k - 1 <= j) /\ ~(j = 0 /\ k = 1)
            BY <3>3, <4>4
          <5> QED
            BY <1>1, <4>1, <4>2, <4>4, <5>1
        <4> QED
          BY <4>3, <4>4
      <3> QED
        BY <3>1, <3>2, <3>3
    <2>15. x.tail = w[n - 1]
      <3>1. n - 1 \in 1 .. n - 1 /\ (n - 1 <= j <=> j = n - 1) /\ (n - 1) - 1 = n - 2
        BY <1>0, <1>3
      <3> QED
        BY <1>1, <2>9, <3>1
    <2>16. EntriesOK(x, w, n)
      BY <1>0, <1>1, <2>9, <2>13, <2>14, <2>15 DEF EntriesOK
    <2>17. FreeOK(x, F)
      <3>1. ASSUME NEW c \in F PROVE x.next[c] = l.next[c]
        <4>1. c \in Cells /\ c # p /\ (pv # Null => c # pv)
          BY <2>1 DEF Unused, InUse
        <4> QED
          BY <2>10, <4>1
      <3> HIDE DEF F
      <3> QED
        BY <1>0, <2>9, <3>1 DEF FreeOK
    <2> QED
      BY <1>1, <2>9, <2>16, <2>17 DEF Rep, x, w
  <1> QED
    BY <1>2, <1>3

-----------------------------------------------------------------------------
(* The list holds the data s, from head on.                                *)
Shows(l, s) ==
    \E u : Rep(l, u, Len(s)) /\ \A k \in 0 .. Len(s) - 1 : l.data[u[k]] = s[k + 1]

Distinct(s) == \A j, k \in 1 .. Len(s) : s[j] = s[k] => j = k

(* A list that holds s is intact and its contents are s.                   *)
LEMMA ShowsContents ==
    ASSUME NEW l, NEW s \in Seq(Nat), Shows(l, s)
    PROVE  /\ Contents(l) = s /\ Intact(l)
           /\ l \in ListType /\ l.cnt = Len(s) /\ l.fault = "none"
<1>1. PICK u : Rep(l, u, Len(s)) /\ \A k \in 0 .. Len(s) - 1 : l.data[u[k]] = s[k + 1]
  BY DEF Shows
<1>2. Intact(l)
  BY <1>1, RepIntact
<1>3. l \in ListType /\ l.cnt = Len(s) /\ Len(s) \in Nat /\ EntriesOK(l, u, Len(s))
  BY <1>1 DEF Rep, EntriesOK
<1>4. l.fault = "none" /\ l.cnt \in 0 .. PoolCells
  BY <1>3 DEF ListType
<1>5. Contents(l) = s
  <2>1. Contents(l) = [k \in 1 .. Len(s) |-> l.data[Walk(l, l.head)[k - 1]]]
    BY <1>3 DEF Contents
  <2>2. ASSUME NEW k \in 1 .. Len(s) PROVE l.data[Walk(l, l.head)[k - 1]] = s[k]
    <3>1. k - 1 \in 0 .. PoolCells /\ k - 1 < Len(s) /\ k - 1 \in 0 .. Len(s) - 1 /\ (k - 1) + 1 = k
      BY <1>3, <1>4, CellsFinite
    <3>2. Walk(l, l.head)[k - 1] = u[k - 1]
      BY <1>3, <3>1, WalkEntries
    <3> QED
      BY <1>1, <3>1, <3>2
  <2>3. s = [k \in 1 .. Len(s) |-> s[k]]
    OBVIOUS
  <2> QED
    BY <2>1, <2>2, <2>3
<1> QED
  BY <1>2, <1>3, <1>4, <1>5

(* A list that was never used holds nothing.                               *)
LEMMA EmptyShows ==
    ASSUME NEW g \in Garbage
    PROVE  Shows(EmptyList(g), << >>)
<1>1. Len(<< >>) = 0
  OBVIOUS
<1>2. Rep(EmptyList(g), [k \in 0 .. -1 |-> 1], 0)
  BY EmptyRep
<1>3. \A k \in 0 .. 0 - 1 : FALSE
  OBVIOUS
<1> QED
  BY <1>1, <1>2, <1>3 DEF Shows

(* find answers the place of the value, or that it is not there.           *)
LEMMA FindShows ==
    ASSUME NEW l, NEW s \in Seq(Nat), Shows(l, s), NEW v
    PROVE  LET it == Find(l, v)
           IN /\ ~it.hangs
              /\ it.ptr = Null => \A k \in 1 .. Len(s) : s[k] # v
              /\ it.ptr # Null => it.dist \in 0 .. Len(s) - 1 /\ s[it.dist + 1] = v
  <1> DEFINE it == Find(l, v)
             n == Len(s)
  <1>1. PICK u : Rep(l, u, Len(s)) /\ \A k \in 0 .. Len(s) - 1 : l.data[u[k]] = s[k + 1]
    BY DEF Shows
  <1>2. EntriesOK(l, u, n) /\ n \in Nat
    BY <1>1 DEF Rep
  <1>3. /\ ~it.hangs
        /\ it.ptr = Null => \A k \in 0 .. n - 1 : l.data[u[k]] # v
        /\ it.ptr # Null => /\ it.dist \in 0 .. n - 1
                            /\ it.ptr = u[it.dist] /\ l.data[it.ptr] = v
    <2> HIDE DEF n
    <2> QED
      BY <1>2, FindRep
  <1> HIDE DEF it
  <1>4. ASSUME it.ptr = Null, NEW k \in 1 .. n PROVE s[k] # v
    <2>1. k - 1 \in 0 .. n - 1 /\ (k - 1) + 1 = k
      OBVIOUS
    <2> QED
      BY <1>1, <1>3, <1>4, <2>1
  <1>5. ASSUME it.ptr # Null PROVE it.dist \in 0 .. n - 1 /\ s[it.dist + 1] = v
    BY <1>1, <1>3, <1>5
  <1> QED
    BY <1>3, <1>4, <1>5 DEF it

(* s with its p-th element first.                                          *)
Newest(s, p) == [k \in 1 .. Len(s) |-> IF k = 1 THEN s[p] ELSE IF k <= p THEN s[k - 1] ELSE s[k]]

(* A hit puts the value first.                                             *)
LEMMA HitShows ==
    ASSUME NEW l, NEW s \in Seq(Nat), Shows(l, s), NEW v, Find(l, v).ptr # Null
    PROVE  Shows(Moved(l, Find(l, v)), Newest(s, Find(l, v).dist + 1))
  <1> DEFINE it == Find(l, v)
             n == Len(s)
             d == it.dist
             x == MoveToHead(l, it.ptr)
             r == Newest(s, d + 1)
  <1>1. PICK u : Rep(l, u, n) /\ \A k \in 0 .. n - 1 : l.data[u[k]] = s[k + 1]
    BY DEF Shows
  <1>2. EntriesOK(l, u, n) /\ n \in Nat /\ u \in [0 .. n - 1 -> Cells]
        /\ \A z, k \in 0 .. n - 1 : u[z] = u[k] => z = k
    BY <1>1 DEF Rep, EntriesOK
  <1> HIDE DEF n
  <1>3. d \in 0 .. n - 1 /\ it.ptr = u[d]
    BY <1>2, FindRep
  <1> HIDE DEF d
  <1>4. n \in Nat \ {0}
    BY <1>2, <1>3
  <1> DEFINE w == Fronted(u, n, d)
  <1>5. Rep(x, w, n) /\ x.data = l.data
    <2> HIDE DEF it
    <2>1. ASSUME NEW j \in 0 .. n - 1
          PROVE  Rep(MoveToHead(l, u[j]), Fronted(u, n, j), n) /\ MoveToHead(l, u[j]).data = l.data
      <3>1. n \in Nat /\ Rep(l, u, n)
        BY <1>1, <1>2
      <3> QED
        BY <3>1, MoveRep
    <2> QED
      BY <1>3, <2>1
  <1>6. w[0] = u[d] /\ \A k \in 1 .. n - 1 : w[k] = IF k <= d THEN u[k - 1] ELSE u[k]
    <2> HIDE DEF it
    <2>1. 0 \in 0 .. n - 1 /\ \A k \in 1 .. n - 1 : k \in 0 .. n - 1 /\ k # 0
      BY <1>4
    <2> QED
      BY <2>1 DEF Fronted
  <1>7. r = [k \in 1 .. n |-> IF k = 1 THEN s[d + 1] ELSE IF k <= d + 1 THEN s[k - 1] ELSE s[k]]
    BY DEF Newest, n, d
  <1>8. Len(r) = n
    BY <1>2, <1>7
  <1> HIDE DEF x, w, r
  <1>9. ASSUME NEW k \in 0 .. n - 1 PROVE x.data[w[k]] = r[k + 1]
    <2>1. CASE k = 0
      <3>1. 1 \in 1 .. n
        BY <1>4
      <3> QED
        BY <1>1, <1>3, <1>5, <1>6, <1>7, <2>1, <3>1
    <2>2. CASE k # 0 /\ k <= d
      <3>1. k \in 1 .. n - 1 /\ k - 1 \in 0 .. n - 1 /\ k + 1 \in 1 .. n /\ k + 1 # 1 /\ k + 1 <= d + 1
            /\ (k + 1) - 1 = k /\ (k - 1) + 1 = k
        BY <1>2, <1>3, <2>2
      <3>2. r[k + 1] = s[k]
        BY <1>7, <3>1
      <3> QED
        BY <1>1, <1>5, <1>6, <2>2, <3>1, <3>2
    <2>3. CASE ~(k <= d)
      <3>1. k \in 1 .. n - 1 /\ k + 1 \in 1 .. n /\ k + 1 # 1 /\ ~(k + 1 <= d + 1)
        BY <1>2, <1>3, <2>3
      <3>2. r[k + 1] = s[k + 1]
        BY <1>7, <3>1
      <3> QED
        BY <1>1, <1>5, <1>6, <2>3, <3>1, <3>2
    <2> QED
      BY <2>1, <2>2, <2>3
  <1> QED
    BY <1>5, <1>8, <1>9 DEF Shows, Moved, x, r, d

(* A new value goes before the others.                                     *)
LEMMA PushShows ==
    ASSUME NEW l, NEW s \in Seq(Nat), Shows(l, s), NEW v \in Nat, Len(s) < PoolCells
    PROVE  Shows(PushFront(l, v), <<v>> \o s)
  <1> DEFINE n == Len(s)
             x == PushFront(l, v)
             r == <<v>> \o s
             e == l.free
  <1>1. PICK u : Rep(l, u, n) /\ \A k \in 0 .. n - 1 : l.data[u[k]] = s[k + 1]
    BY DEF Shows
  <1>2. n \in Nat /\ n < PoolCells /\ \A k \in 0 .. n - 1 : u[k] \in Cells /\ u[k] \in InUse(u, n)
    BY <1>1 DEF Rep, EntriesOK, InUse
  <1>3. Len(r) = n + 1 /\ r[1] = v /\ \A k \in 1 .. n : r[k + 1] = s[k]
    BY <1>2
  <1> HIDE DEF n, r
  <1> DEFINE w == Pushed(u, n, e)
  <1>4. /\ Rep(x, w, n + 1) /\ e \in Unused(u, n)
        /\ \A c \in Cells : x.data[c] = IF c = e THEN v ELSE l.data[c]
    BY <1>1, <1>2, PushRep
  <1>5. \A k \in 0 .. n : w[k] = IF k = 0 THEN e ELSE u[k - 1]
    BY DEF Pushed
  <1>6. e \in Cells /\ e \notin InUse(u, n)
    BY <1>4 DEF Unused
  <1> HIDE DEF x, w, e
  <1>7. ASSUME NEW k \in 0 .. (n + 1) - 1 PROVE x.data[w[k]] = r[k + 1]
    <2>1. CASE k = 0
      <3>1. 0 \in 0 .. n
        BY <1>2
      <3> QED
        BY <1>3, <1>4, <1>5, <1>6, <2>1, <3>1
    <2>2. CASE k # 0
      <3>1. k \in 0 .. n /\ k \in 1 .. n /\ k - 1 \in 0 .. n - 1 /\ (k - 1) + 1 = k
        BY <1>2, <2>2
      <3>2. w[k] = u[k - 1] /\ u[k - 1] \in Cells /\ u[k - 1] # e
        BY <1>2, <1>5, <1>6, <2>2, <3>1
      <3> QED
        BY SMTT(40), <1>1, <1>3, <1>4, <3>1, <3>2
    <2> QED
      BY <2>1, <2>2
  <1> QED
    BY <1>3, <1>4, <1>7 DEF Shows, x, r

(* The oldest value goes.                                                  *)
LEMMA PopShows ==
    ASSUME NEW l, NEW s \in Seq(Nat), Shows(l, s), Len(s) > 1
    PROVE  Shows(PopBack(l), SubSeq(s, 1, Len(s) - 1))
  <1> DEFINE n == Len(s)
             x == PopBack(l)
             r == SubSeq(s, 1, n - 1)
  <1>1. PICK u : Rep(l, u, n) /\ \A k \in 0 .. n - 1 : l.data[u[k]] = s[k + 1]
    BY DEF Shows
  <1>2. n \in Nat /\ n > 1
    OBVIOUS
  <1>3. Len(r) = n - 1 /\ \A k \in 1 .. n - 1 : r[k] = s[k]
    BY <1>2
  <1> HIDE DEF n, r
  <1> DEFINE w == [k \in 0 .. n - 2 |-> u[k]]
  <1>4. Rep(x, w, n - 1) /\ x.data = l.data
    BY <1>1, <1>2, PopRep
  <1> HIDE DEF x
  <1>5. ASSUME NEW k \in 0 .. (n - 1) - 1 PROVE x.data[w[k]] = r[k + 1]
    <2>1. k \in 0 .. n - 2 /\ k \in 0 .. n - 1 /\ k + 1 \in 1 .. n - 1
      BY <1>2
    <2> QED
      BY <1>1, <1>3, <1>4, <2>1
  <1> HIDE DEF w
  <1> QED
    BY <1>3, <1>4, <1>5 DEF Shows, x, r, n

-----------------------------------------------------------------------------
(* The data of a set of m ways after an access to v: v, then what is kept. *)
Without(s, p) == SubSeq(s, 1, p - 1) \o SubSeq(s, p + 1, Len(s))
Young(s, m) == SubSeq(s, 1, IF Len(s) = m THEN Len(s) - 1 ELSE Len(s))

(* Moving the p-th element to the front is removing it and adding it there. *)
LEMMA NewestIs ==
    ASSUME NEW s \in Seq(Nat), NEW p \in 1 .. Len(s)
    PROVE  /\ Newest(s, p) = <<s[p]>> \o Without(s, p)
           /\ Newest(s, p) \in Seq(Nat) /\ Len(Newest(s, p)) = Len(s)
           /\ Distinct(s) => Distinct(Newest(s, p))
  <1> DEFINE n == Len(s)
             r == Newest(s, p)
             a == SubSeq(s, 1, p - 1)
             b == SubSeq(s, p + 1, n)
             q == <<s[p]>> \o (a \o b)
  <1>1. n \in Nat /\ p \in 1 .. n /\ s \in [1 .. n -> Nat]
    OBVIOUS
  <1>2. /\ a \in Seq(Nat) /\ Len(a) = p - 1 /\ \A k \in 1 .. p - 1 : a[k] = s[k]
        /\ b \in Seq(Nat) /\ Len(b) = n - p /\ \A k \in 1 .. n - p : b[k] = s[k + p]
    <2>1. /\ p - 1 \in Int /\ p + 1 \in Int /\ n \in Int /\ 1 \in Int
          /\ \A k \in 1 .. p - 1 : s[k] \in Nat
          /\ \A k \in p + 1 .. n : s[k] \in Nat
      <3>1. \A k \in 1 .. n : s[k] \in Nat
        BY <1>1
      <3>2. \A k \in 1 .. p - 1 : k \in 1 .. n
        BY <1>1
      <3>3. \A k \in p + 1 .. n : k \in 1 .. n
        BY <1>1
      <3> QED
        BY <1>1, <3>1, <3>2, <3>3
    <2> HIDE DEF n
    <2>2. /\ a \in Seq(Nat) /\ Len(a) = IF 1 <= p - 1 THEN (p - 1) - 1 + 1 ELSE 0
          /\ \A k \in 1 .. (p - 1) - 1 + 1 : a[k] = s[1 + k - 1]
      BY <2>1, SubSeqProperties
    <2>3. /\ b \in Seq(Nat) /\ Len(b) = IF p + 1 <= n THEN n - (p + 1) + 1 ELSE 0
          /\ \A k \in 1 .. n - (p + 1) + 1 : b[k] = s[p + 1 + k - 1]
      BY <2>1, SubSeqProperties
    <2> HIDE DEF a, b
    <2>4. \A k \in 1 .. p - 1 : k \in 1 .. (p - 1) - 1 + 1 /\ 1 + k - 1 = k
      BY <1>1
    <2>5. \A k \in 1 .. n - p : k \in 1 .. n - (p + 1) + 1 /\ p + 1 + k - 1 = k + p
      BY <1>1
    <2>6. Len(a) = p - 1 /\ Len(b) = n - p
      BY <1>1, <2>2, <2>3
    <2> QED
      BY <2>2, <2>3, <2>4, <2>5, <2>6
  <1> DEFINE c == a \o b
  <1>3. c \in Seq(Nat) /\ Len(c) = n - 1
        /\ \A k \in 1 .. n - 1 : c[k] = IF k <= p - 1 THEN a[k] ELSE b[k - (p - 1)]
    <2> HIDE DEF a, b
    <2>1. c \in Seq(Nat) /\ Len(c) = Len(a) + Len(b)
          /\ \A k \in 1 .. Len(a) + Len(b) : c[k] = IF k <= Len(a) THEN a[k] ELSE b[k - Len(a)]
      BY <1>2, ConcatProperties
    <2>2. Len(a) + Len(b) = n - 1
      BY <1>1, <1>2
    <2> HIDE DEF c
    <2> QED
      BY <1>2, <2>1, <2>2
  <1>4. \A k \in 1 .. n - 1 : c[k] = IF k <= p - 1 THEN s[k] ELSE s[k + 1]
    <2> HIDE DEF a, b, c
    <2>1. ASSUME NEW k \in 1 .. n - 1 PROVE c[k] = IF k <= p - 1 THEN s[k] ELSE s[k + 1]
      <3>1. CASE k <= p - 1
        <4>1. k \in 1 .. p - 1
          BY <1>1, <3>1
        <4> QED
          BY <1>2, <1>3, <3>1, <4>1
      <3>2. CASE ~(k <= p - 1)
        <4>1. k - (p - 1) \in 1 .. n - p /\ (k - (p - 1)) + p = k + 1
          BY <1>1, <3>2
        <4> QED
          BY <1>2, <1>3, <3>2, <4>1
      <3> QED
        BY <3>1, <3>2
    <2> QED
      BY <2>1
  <1>5. s[p] \in Nat
    BY <1>1
  <1>6. q \in Seq(Nat) /\ Len(q) = n /\ q[1] = s[p] /\ \A k \in 2 .. n : q[k] = c[k - 1]
    <2> HIDE DEF c
    <2>1. q = <<s[p]>> \o c
      BY DEF c
    <2>2. <<s[p]>> \in Seq(Nat) /\ Len(<<s[p]>>) = 1 /\ <<s[p]>>[1] = s[p]
      BY <1>5
    <2>3. q \in Seq(Nat) /\ Len(q) = 1 + Len(c)
          /\ \A k \in 1 .. 1 + Len(c) : q[k] = IF k <= 1 THEN <<s[p]>>[k] ELSE c[k - 1]
      <3> DEFINE e == <<s[p]>>
      <3>1. e \in Seq(Nat) /\ c \in Seq(Nat) /\ Len(e) = 1 /\ q = e \o c /\ e[1] = s[p]
        BY <1>3, <2>1, <2>2
      <3> HIDE DEF e, q
      <3>2. /\ e \o c \in Seq(Nat) /\ Len(e \o c) = Len(e) + Len(c)
            /\ \A k \in 1 .. Len(e) + Len(c) : (e \o c)[k] = IF k <= Len(e) THEN e[k] ELSE c[k - Len(e)]
        BY <3>1, ConcatProperties
      <3> QED
        BY <3>1, <3>2 DEF e
    <2> HIDE DEF q, n
    <2>4. 1 + Len(c) = n /\ 1 \in 1 .. n /\ \A k \in 2 .. n : k \in 1 .. n /\ ~(k <= 1)
      BY <1>1, <1>3
    <2> QED
      BY SMTT(40), <2>2, <2>3, <2>4
  <1> HIDE DEF c, q
  <1>7. r = [k \in 1 .. n |-> IF k = 1 THEN s[p] ELSE IF k <= p THEN s[k - 1] ELSE s[k]]
    BY DEF Newest
  <1> HIDE DEF r
  <1>8. r = q
    <2>1. ASSUME NEW k \in 1 .. n PROVE r[k] = q[k]
      <3>1. k # 1 => k - 1 \in 1 .. n - 1 /\ k \in 2 .. n /\ (k <= p <=> k - 1 <= p - 1) /\ (k - 1) + 1 = k
        BY <1>1
      <3> QED
        BY <1>4, <1>6, <1>7, <3>1
    <2>2. q \in [1 .. n -> Nat]
      BY <1>6
    <2> HIDE DEF n
    <2>3. q = [k \in 1 .. n |-> q[k]] /\ r = [k \in 1 .. n |-> r[k]]
      BY <1>7, <2>2
    <2> QED
      BY <2>1, <2>3
  <1>9. ASSUME Distinct(s) PROVE Distinct(r)
    <2> SUFFICES ASSUME NEW z \in 1 .. n, NEW k \in 1 .. n, r[z] = r[k] PROVE z = k
      BY <1>6, <1>8 DEF Distinct
    <2> DEFINE from(y) == IF y = 1 THEN p ELSE IF y <= p THEN y - 1 ELSE y
    <2>1. \A y \in 1 .. n : from(y) \in 1 .. n /\ r[y] = s[from(y)]
      BY <1>1, <1>7
    <2>2. from(z) = from(k)
      <3> HIDE DEF from
      <3> QED
        BY <1>9, <2>1 DEF Distinct
    <2> QED
      BY <1>1, <2>2
  <1> QED
    BY <1>6, <1>8, <1>9 DEF Without, q, r

(* An access puts v first, whether v was there or not.                     *)
LEMMA AccessShows ==
    ASSUME NEW l, NEW s \in Seq(Nat), Shows(l, s), Distinct(s), NEW v \in Nat,
           NEW m \in Nat, Len(s) <= m, m > 1, m <= PoolCells
    PROVE  LET it == Find(l, v)
               x == IF it.ptr # Null THEN Moved(l, it)
                    ELSE PushFront(IF l.cnt = m THEN PopBack(l) ELSE l, v)
               r == <<v>> \o IF it.ptr # Null THEN Without(s, it.dist + 1) ELSE Young(s, m)
           IN Shows(x, r) /\ r \in Seq(Nat) /\ Distinct(r) /\ Len(r) <= m
  <1> DEFINE it == Find(l, v)
             x == IF it.ptr # Null THEN Moved(l, it)
                  ELSE PushFront(IF l.cnt = m THEN PopBack(l) ELSE l, v)
             r == <<v>> \o IF it.ptr # Null THEN Without(s, it.dist + 1) ELSE Young(s, m)
             n == Len(s)
  <1>1. /\ it.ptr = Null => \A k \in 1 .. n : s[k] # v
        /\ it.ptr # Null => it.dist \in 0 .. n - 1 /\ s[it.dist + 1] = v
    BY FindShows
  <1>2. n \in Nat /\ l.cnt = n
    BY ShowsContents
  <1>3. CASE it.ptr # Null
    <2> DEFINE p == it.dist + 1
    <2>1. p \in 1 .. n /\ s[p] = v
      BY <1>1, <1>2, <1>3
    <2>2. Shows(Moved(l, it), Newest(s, p))
      BY <1>3, HitShows
    <2> HIDE DEF it, p
    <2>3. /\ Newest(s, p) = <<s[p]>> \o Without(s, p)
          /\ Newest(s, p) \in Seq(Nat) /\ Len(Newest(s, p)) = Len(s)
          /\ Distinct(Newest(s, p))
      BY <2>1, NewestIs
    <2>4. x = Moved(l, it) /\ r = Newest(s, p)
      BY <1>3, <2>1, <2>3 DEF p
    <2> QED
      BY <2>2, <2>3, <2>4 DEF it
  <1>4. CASE it.ptr = Null
    <2> DEFINE y == IF l.cnt = m THEN PopBack(l) ELSE l
               a == Young(s, m)
    <2>1. /\ a \in Seq(Nat) /\ Len(a) = IF n = m THEN n - 1 ELSE n
          /\ \A k \in 1 .. Len(a) : a[k] = s[k] /\ k \in 1 .. n
      BY <1>2 DEF Young
    <2>2. Shows(y, a)
      <3>1. CASE n = m
        <4>1. Shows(PopBack(l), SubSeq(s, 1, n - 1))
          BY <3>1, PopShows
        <4> QED
          BY <1>2, <3>1, <4>1 DEF Young
      <3>2. CASE n # m
        <4>1. SubSeq(s, 1, n) = s
          OBVIOUS
        <4> QED
          BY <1>2, <3>2, <4>1 DEF Young
      <3> QED
        BY <3>1, <3>2
    <2> HIDE DEF a, y, it
    <2>3. Len(a) < m /\ Len(a) < PoolCells /\ Len(a) \in Nat
      BY <1>2, <2>1, CellsFinite
    <2>4. Shows(PushFront(y, v), <<v>> \o a)
      BY <2>1, <2>2, <2>3, PushShows
    <2>5. x = PushFront(y, v) /\ r = <<v>> \o a
      BY <1>4 DEF a, y
    <2> DEFINE b == <<v>> \o a
    <2>6. b \in Seq(Nat) /\ Len(b) = Len(a) + 1 /\ b[1] = v /\ \A k \in 2 .. Len(b) : b[k] = a[k - 1] /\ k - 1 \in 1 .. Len(a)
      BY <2>1, <2>3
    <2> HIDE DEF b
    <2>7. Distinct(b)
      <3> SUFFICES ASSUME NEW z \in 1 .. Len(b), NEW k \in 1 .. Len(b), b[z] = b[k] PROVE z = k
        BY DEF Distinct
      <3>1. \A j \in 1 .. Len(a) : a[j] # v
        BY <1>1, <1>4, <2>1
      <3>2. z = 1 \/ z \in 2 .. Len(b)
        BY <2>3, <2>6
      <3>3. k = 1 \/ k \in 2 .. Len(b)
        BY <2>3, <2>6
      <3>4. CASE z = 1
        BY <2>6, <3>1, <3>3, <3>4
      <3>5. CASE z \in 2 .. Len(b)
        <4>1. k \in 2 .. Len(b) /\ a[z - 1] = a[k - 1] /\ z - 1 \in 1 .. Len(a) /\ k - 1 \in 1 .. Len(a)
          BY <2>6, <3>1, <3>3, <3>5
        <4>2. z - 1 = k - 1
          BY <2>1, <4>1 DEF Distinct
        <4> QED
          BY <4>2
      <3> QED
        BY <3>2, <3>4, <3>5
    <2>8. Len(b) <= m
      BY <2>3, <2>6
    <2> HIDE DEF x, r
    <2> QED
      BY <2>4, <2>5, <2>6, <2>7, <2>8 DEF b, x, r, it
  <1> QED
    BY <1>3, <1>4

-----------------------------------------------------------------------------
(* The sets of a list class: each one's list holds its tags, all different *)
(* and no more than there are ways.                                        *)
SetsOK ==
    /\ sets \in [0 .. SetCount - 1 -> ListType]
    /\ \A w \in 0 .. SetCount - 1 :
          LET s == Contents(sets[w])
          IN s \in Seq(Nat) /\ Shows(sets[w], s) /\ Distinct(s) /\ Len(s) <= Ways

CountsOK ==
    /\ hits \in Nat /\ misses \in Nat /\ hits + misses <= MaxAccesses
    /\ rw_hits \in [opType -> Nat] /\ rw_misses \in [opType -> Nat]
    /\ hitdepth \in [0 .. Assoc - 1 -> Nat]

CacheInv ==
    /\ impl \in Impls /\ status = "ok"
    /\ tags \in [0 .. SetCount - 1 -> Nat] /\ valid \in [0 .. SetCount - 1 -> BOOLEAN]
    /\ SetsOK /\ CountsOK

(* Sets and ways of every class main creates.                              *)
LEMMA CacheShape ==
    ASSUME impl \in Impls
    PROVE  /\ SetCount \in Nat \ {0} /\ Ways \in 1 .. Assoc
           /\ Assoc \in Nat \ {0} /\ Assoc <= PoolCells
           /\ impl \in {"full", "set"} => Ways = Assoc /\ Ways > 1
           /\ impl \in {"direct", "full", "set"}
  BY ShapeAssumption DEF SetCount, Ways

(* A line has a set, and a tag there.                                      *)
LEMMA IndexAndTag ==
    ASSUME impl \in Impls, NEW line \in Lines
    PROVE  SetIndex(line) \in 0 .. SetCount - 1 /\ Tag(line) \in Nat
<1>1. SetCount \in Nat \ {0} /\ line \in Nat
  BY CacheShape, ShapeAssumption
<1>2. ASSUME NEW n \in Nat \ {0} PROVE line % n \in 0 .. n - 1 /\ line \div n \in Nat
  BY <1>1
<1> QED
  BY <1>1, <1>2 DEF SetIndex, Tag

(* A new cache satisfies the invariant.                                    *)
LEMMA CacheInitInv == CacheInit => CacheInv
<1> SUFFICES ASSUME CacheInit PROVE CacheInv
  OBVIOUS
<1>1. impl \in Impls /\ SetCount \in Nat \ {0} /\ Ways \in Nat /\ Assoc \in Nat
  BY CacheShape DEF CacheInit
<1>2. PICK g \in Garbage : sets = [w \in 0 .. SetCount - 1 |-> EmptyList(g)]
  BY DEF CacheInit
<1>3. Shows(EmptyList(g), << >>) /\ << >> \in Seq(Nat) /\ Len(<< >>) = 0
  BY EmptyShows
<1>4. Contents(EmptyList(g)) = << >> /\ EmptyList(g) \in ListType
  BY <1>3, ShowsContents
<1>5. Distinct(<< >>)
  BY DEF Distinct
<1>6. ASSUME NEW w \in 0 .. SetCount - 1 PROVE sets[w] = EmptyList(g)
  BY <1>2
<1>7. SetsOK
  <2>1. sets \in [0 .. SetCount - 1 -> ListType]
    BY <1>2, <1>4
  <2>2. ASSUME NEW w \in 0 .. SetCount - 1
        PROVE  LET s == Contents(sets[w])
               IN s \in Seq(Nat) /\ Shows(sets[w], s) /\ Distinct(s) /\ Len(s) <= Ways
    <3>1. Len(<< >>) <= Ways
      BY <1>1, <1>3
    <3> QED
      BY <1>3, <1>4, <1>5, <1>6, <3>1
  <2> QED
    BY <2>1, <2>2 DEF SetsOK
<1>8. CountsOK
  <2>1. MaxAccesses \in Nat
    BY ShapeAssumption
  <2> QED
    BY <1>1, <2>1 DEF CacheInit, CountsOK
<1> QED
  BY <1>1, <1>7, <1>8 DEF CacheInit, CacheInv

(* A set after an access: what the refinement needs of a step.             *)
LEMMA ListAccessStep ==
    ASSUME CacheInv, NEW line \in Lines, NEW o \in opType, ListAccess(line, o)
    PROVE  LET w == SetIndex(line)
               s == Contents(sets[w])
               t == Tag(line)
               it == Find(sets[w], t)
               r == <<t>> \o IF it.ptr # Null THEN Without(s, it.dist + 1) ELSE Young(s, Ways)
           IN /\ w \in 0 .. SetCount - 1 /\ t \in Nat
              /\ sets' = [sets EXCEPT ![w] = sets'[w]] /\ sets'[w] \in ListType /\ status' = "ok"
              /\ Shows(sets'[w], r) /\ r \in Seq(Nat) /\ Distinct(r) /\ Len(r) <= Ways
              /\ Contents(sets'[w]) = r
              /\ it.ptr = Null => \A k \in 1 .. Len(s) : s[k] # t
              /\ it.ptr # Null => it.dist \in 0 .. Len(s) - 1 /\ s[it.dist + 1] = t
  <1> DEFINE w == SetIndex(line)
             l == sets[w]
             s == Contents(l)
             t == Tag(line)
             it == Find(l, t)
             hit == it.ptr # Null
             x == IF hit THEN Moved(l, it) ELSE Inserted(l, t)
             r == <<t>> \o IF hit THEN Without(s, it.dist + 1) ELSE Young(s, Ways)
  <1>1. impl \in Impls /\ impl \in {"full", "set"} /\ sets' = [sets EXCEPT ![w] = x]
        /\ status' = IF sets'[w].fault = "none" THEN "ok" ELSE sets'[w].fault
    BY DEF ListAccess, CacheInv
  <1>2. w \in 0 .. SetCount - 1 /\ t \in Nat
    BY <1>1, IndexAndTag
  <1>3. s \in Seq(Nat) /\ Shows(l, s) /\ Distinct(s) /\ Len(s) <= Ways
        /\ sets \in [0 .. SetCount - 1 -> ListType]
    BY <1>2 DEF CacheInv, SetsOK
  <1>4. Ways \in Nat /\ Ways > 1 /\ Ways <= PoolCells
    <2>1. Ways = Assoc /\ Ways > 1 /\ Assoc \in Nat /\ Assoc <= PoolCells
      BY <1>1, CacheShape
    <2> QED
      BY <2>1
  <1> HIDE DEF w, l, s, t
  <1>5. /\ it.ptr = Null => \A k \in 1 .. Len(s) : s[k] # t
        /\ it.ptr # Null => it.dist \in 0 .. Len(s) - 1 /\ s[it.dist + 1] = t
    BY <1>3, FindShows
  <1>6. Shows(x, r) /\ r \in Seq(Nat) /\ Distinct(r) /\ Len(r) <= Ways
    BY <1>2, <1>3, <1>4, AccessShows DEF Inserted
  <1> HIDE DEF x, r, it
  <1>7. x \in ListType /\ Contents(x) = r /\ x.fault = "none"
    BY <1>6, ShowsContents
  <1>8. sets'[w] = x
    BY <1>1, <1>2, <1>3
  <1>9. status' = "ok"
    BY <1>1, <1>7, <1>8
  <1>10. sets' = [sets EXCEPT ![w] = sets'[w]]
    BY <1>1, <1>8
  <1> QED
    BY <1>2, <1>5, <1>6, <1>7, <1>8, <1>9, <1>10 DEF w, l, s, t, it, r, hit

(* An access keeps the counters of its kind numbers.                       *)
LEMMA CountStep ==
    ASSUME CountsOK, NEW o \in opType, Ready(o), CountHit(o) \/ CountMiss(o)
    PROVE  /\ hits' \in Nat /\ misses' \in Nat /\ hits' + misses' <= MaxAccesses
           /\ rw_hits' \in [opType -> Nat] /\ rw_misses' \in [opType -> Nat]
<1>1. MaxAccesses \in Nat
  BY ShapeAssumption
<1>2. /\ rw_hits[o] + 1 \in Nat /\ rw_misses[o] + 1 \in Nat
      /\ hits \in Nat /\ misses \in Nat /\ hits + misses < MaxAccesses
  BY DEF CountsOK, Ready
<1>3. CASE CountHit(o)
  BY <1>1, <1>2, <1>3 DEF CountsOK, CountHit
<1>4. CASE CountMiss(o)
  BY <1>1, <1>2, <1>4 DEF CountsOK, CountMiss
<1> QED
  BY <1>3, <1>4

(* An access to any class, and the flush of a direct mapped cache, keep    *)
(* the invariant.                                                          *)
LEMMA CacheNextInv == CacheInv /\ [NextNoListFlush]_cacheVars => CacheInv'
<1> SUFFICES ASSUME CacheInv, [NextNoListFlush]_cacheVars PROVE CacheInv'
  OBVIOUS
<1>0. /\ impl \in Impls /\ SetsOK /\ CountsOK
      /\ tags \in [0 .. SetCount - 1 -> Nat] /\ valid \in [0 .. SetCount - 1 -> BOOLEAN]
  BY DEF CacheInv
<1>1. ASSUME impl' = impl PROVE SetCount' = SetCount /\ Ways' = Ways
  BY <1>1 DEF SetCount, Ways
<1>2. ASSUME NEW line \in Lines, NEW o \in opType, DirectAccess(line, o) PROVE CacheInv'
  <2>1. SetIndex(line) \in 0 .. SetCount - 1 /\ Tag(line) \in Nat
    BY <1>0, IndexAndTag
  <2>2. /\ impl' = impl /\ sets' = sets /\ hitdepth' = hitdepth /\ status' = status
        /\ Ready(o) /\ (CountHit(o) \/ CountMiss(o))
    BY <1>2 DEF DirectAccess
  <2>3. tags' \in [0 .. SetCount - 1 -> Nat] /\ valid' \in [0 .. SetCount - 1 -> BOOLEAN]
    BY <1>0, <1>2, <2>1 DEF DirectAccess
  <2>4. CountsOK'
    BY <1>0, <2>2, CountStep DEF CountsOK
  <2>5. SetsOK'
    BY <1>0, <1>1, <2>2 DEF SetsOK
  <2> QED
    BY <1>0, <1>1, <2>2, <2>3, <2>4, <2>5 DEF CacheInv
<1>3. ASSUME NEW line \in Lines, NEW o \in opType, ListAccess(line, o) PROVE CacheInv'
  <2> DEFINE w == SetIndex(line)
             it == Find(sets[w], Tag(line))
  <2>1. /\ impl' = impl /\ tags' = tags /\ valid' = valid
        /\ Ready(o) /\ (CountHit(o) \/ CountMiss(o)) /\ impl \in {"full", "set"}
        /\ hitdepth' = IF it.ptr # Null /\ impl = "full" THEN [hitdepth EXCEPT ![it.dist] = @ + 1] ELSE hitdepth
    BY <1>3 DEF ListAccess
  <2>2. PICK r : /\ w \in 0 .. SetCount - 1 /\ sets' = [sets EXCEPT ![w] = sets'[w]]
                 /\ sets'[w] \in ListType /\ status' = "ok"
                 /\ Shows(sets'[w], r) /\ r \in Seq(Nat) /\ Distinct(r) /\ Len(r) <= Ways
                 /\ Contents(sets'[w]) = r
                 /\ it.ptr # Null => it.dist \in 0 .. Len(Contents(sets[w])) - 1
    BY <1>3, ListAccessStep
  <2>3. SetsOK'
    <3>1. ASSUME NEW z \in 0 .. SetCount - 1
          PROVE  LET s == Contents(sets'[z])
                 IN /\ s \in Seq(Nat) /\ Shows(sets'[z], s) /\ Distinct(s) /\ Len(s) <= Ways
                    /\ sets'[z] \in ListType
      <4>1. CASE z = w
        BY <2>2, <4>1
      <4>2. CASE z # w
        <5>1. sets'[z] = sets[z]
          BY <1>0, <2>2, <4>2 DEF SetsOK
        <5> QED
          BY <1>0, <5>1 DEF SetsOK
      <4> QED
        BY <4>1, <4>2
    <3>2. sets' \in [0 .. SetCount - 1 -> ListType]
      <4>1. sets' = [z \in 0 .. SetCount - 1 |-> sets'[z]]
        BY <1>0, <2>2 DEF SetsOK
      <4> QED
        BY <3>1, <4>1
    <3> QED
      BY <1>1, <2>1, <3>1, <3>2 DEF SetsOK
  <2>4. CountsOK'
    <3>1. /\ hits' \in Nat /\ misses' \in Nat /\ hits' + misses' <= MaxAccesses
          /\ rw_hits' \in [opType -> Nat] /\ rw_misses' \in [opType -> Nat]
      BY <1>0, <2>1, CountStep
    <3>2. hitdepth' \in [0 .. Assoc - 1 -> Nat]
      <4>1. CASE it.ptr # Null /\ impl = "full"
        <5>1. Len(Contents(sets[w])) \in Nat /\ Len(Contents(sets[w])) <= Assoc /\ Assoc \in Nat
          BY <1>0, <2>1, <2>2, CacheShape DEF SetsOK
        <5>2. it.dist \in 0 .. Assoc - 1
          BY <2>2, <4>1, <5>1
        <5> HIDE DEF it
        <5> QED
          BY <1>0, <2>1, <4>1, <5>2 DEF CountsOK
      <4>2. CASE ~(it.ptr # Null /\ impl = "full")
        BY <1>0, <2>1, <4>2 DEF CountsOK
      <4> QED
        BY <4>1, <4>2
    <3> QED
      BY <3>1, <3>2 DEF CountsOK
  <2> QED
    BY <1>0, <1>1, <2>1, <2>2, <2>3, <2>4 DEF CacheInv
<1>4. ASSUME DirectFlush PROVE CacheInv'
  <2>1. /\ impl' = impl /\ sets' = sets /\ tags' = tags /\ status' = status
        /\ hits' = hits /\ misses' = misses /\ rw_hits' = rw_hits /\ rw_misses' = rw_misses
        /\ hitdepth' = hitdepth
    BY <1>4 DEF DirectFlush
  <2>2. valid' \in [0 .. SetCount - 1 -> BOOLEAN]
    BY <1>0, <1>4 DEF DirectFlush
  <2>3. SetsOK' /\ CountsOK'
    BY <1>0, <1>1, <2>1 DEF SetsOK, CountsOK
  <2> QED
    BY <1>0, <1>1, <2>1, <2>2, <2>3 DEF CacheInv
<1>5. ASSUME UNCHANGED cacheVars PROVE CacheInv'
  BY <1>5 DEF cacheVars, CacheInv, SetsOK, CountsOK, SetCount, Ways
<1> QED
  BY <1>2, <1>3, <1>4, <1>5 DEF NextNoListFlush, Access

(* The invariant gives what the runs check of the lists.                   *)
LEMMA CacheInvIntact == CacheInv => ListsIntact
<1> SUFFICES ASSUME CacheInv PROVE ListsIntact
  OBVIOUS
<1>1. impl \in Impls /\ SetsOK /\ CountsOK
  BY DEF CacheInv
<1>2. ASSUME NEW w \in 0 .. SetCount - 1
      PROVE  Intact(sets[w]) /\ sets[w] \in ListType /\ sets[w].cnt \in 0 .. Ways
  <2>1. PICK s \in Seq(Nat) : Shows(sets[w], s) /\ Len(s) <= Ways
    BY <1>1 DEF SetsOK
  <2>2. Intact(sets[w]) /\ sets[w] \in ListType /\ sets[w].cnt = Len(s)
    BY <2>1, ShowsContents
  <2>3. Ways \in Nat
    BY <1>1, CacheShape
  <2> QED
    BY <2>1, <2>2, <2>3
<1>3. CacheTypeOK
  <2>1. ASSUME NEW w \in 0 .. SetCount - 1
        PROVE  /\ sets[w].next \in [Cells -> Cells \cup {Null}]
               /\ sets[w].prev \in [Cells -> Cells \cup {Null}]
               /\ {sets[w].head, sets[w].tail, sets[w].free} \subseteq Cells \cup {Null}
               /\ sets[w].cnt \in 0 .. Ways
    BY <1>2 DEF ListType, Pointers
  <2> QED
    BY <1>1, <2>1 DEF CacheTypeOK, CacheInv, CountsOK
<1> QED
  BY <1>1, <1>2, <1>3 DEF ListsIntact, SetsOK

(* Whatever is hit, missed and evicted in caches of lists, head, tail,     *)
(* next, prev and cnt of each set describe one list, and its cells and the *)
(* pool's free ones are all the cells, none in both (mylist.hh).           *)
THEOREM ListsCorrect == SpecNoListFlush => []ListsIntact
<1>1. SpecNoListFlush => []CacheInv
  BY CacheInitInv, CacheNextInv, PTL DEF SpecNoListFlush
<1> QED
  BY <1>1, CacheInvIntact, PTL

-----------------------------------------------------------------------------
(* An access to tag t of set w, in terms of what is shown.                 *)
Touches(line, o, w, t, hit) ==
    /\ w = line % SetCount /\ t = line \div SetCount
    /\ hit <=> \E k \in 1 .. Len(Shown[w]) : Shown[w][k] = t
    /\ Shape' = Shape
    /\ Shown' = [Shown EXCEPT ![w] = <<t>> \o IF hit THEN Without(Shown[w], LRU!Place(Shown[w], t))
                                            ELSE Young(Shown[w], Ways)]
    /\ Counted' = [Counted EXCEPT ![<<IF hit THEN "hit" ELSE "miss", o>>] = @ + 1]
    /\ Depths' = IF hit /\ impl = "full" THEN [Depths EXCEPT ![LRU!Place(Shown[w], t) - 1] = @ + 1]
                 ELSE Depths

(* Such an access is one of the abstract cache.                            *)
LEMMA TouchIs ==
    ASSUME NEW line \in Lines, NEW o \in opType, NEW w, NEW t, NEW hit \in BOOLEAN,
           Touches(line, o, w, t, hit)
    PROVE  LRU!LruNext
<1>1. Shape.sets = SetCount /\ Shape.ways = Ways /\ Shape.depths = (impl = "full")
  BY DEF Shape
<1>2. hit <=> LRU!Contains(Shown[w], t)
  BY DEF Touches, LRU!Contains
<1>3. LRU!RemoveAt(Shown[w], LRU!Place(Shown[w], t)) = Without(Shown[w], LRU!Place(Shown[w], t))
  BY DEF LRU!RemoveAt, Without
<1>4. LRU!Touch(line, o)
  BY <1>1, <1>2, <1>3 DEF Touches, LRU!Touch, Young
<1> QED
  BY <1>4 DEF LRU!LruNext, opType

(* The counters of an access are those of the abstract cache.              *)
LEMMA CountedStep ==
    ASSUME CacheInv, NEW o \in opType, NEW hit \in BOOLEAN,
           IF hit THEN CountHit(o) ELSE CountMiss(o)
    PROVE  Counted' = [Counted EXCEPT ![<<IF hit THEN "hit" ELSE "miss", o>>] = @ + 1]
  <1> DEFINE new == [Counted EXCEPT ![<<IF hit THEN "hit" ELSE "miss", o>>] = @ + 1]
             K == {"hit", "miss"} \X opType
  <1>1. rw_hits \in [opType -> Nat] /\ rw_misses \in [opType -> Nat]
    BY DEF CacheInv, CountsOK
  <1>2. /\ rw_hits' = IF hit THEN [rw_hits EXCEPT ![o] = @ + 1] ELSE rw_hits
        /\ rw_misses' = IF hit THEN rw_misses ELSE [rw_misses EXCEPT ![o] = @ + 1]
    BY DEF CountHit, CountMiss
  <1>3. ASSUME NEW k \in K
        PROVE  (IF k[1] = "hit" THEN rw_hits'[k[2]] ELSE rw_misses'[k[2]]) = new[k]
    <2>1. PICK e \in {"hit", "miss"}, a \in opType : k = <<e, a>>
      OBVIOUS
    <2>2. k[1] = e /\ k[2] = a
      BY <2>1
    <2>3. Counted[k] = IF e = "hit" THEN rw_hits[a] ELSE rw_misses[a]
      BY <2>2 DEF Counted
    <2>4. k = <<IF hit THEN "hit" ELSE "miss", o>> <=> (a = o /\ (e = "hit" <=> hit))
      BY <2>1
    <2>5. new[k] = IF a = o /\ (e = "hit" <=> hit) THEN Counted[k] + 1 ELSE Counted[k]
      <3>1. Counted = [j \in K |-> Counted[j]]
        BY DEF Counted
      <3> QED
        BY <2>4, <3>1
    <2> HIDE DEF new
    <2>6. CASE hit
      BY <1>1, <1>2, <2>2, <2>3, <2>5, <2>6
    <2>7. CASE ~hit
      BY <1>1, <1>2, <2>2, <2>3, <2>5, <2>7
    <2> QED
      BY <2>6, <2>7
  <1>4. new = [k \in K |-> new[k]]
    BY DEF Counted
  <1> HIDE DEF new
  <1>5. Counted' = [k \in K |-> IF k[1] = "hit" THEN rw_hits'[k[2]] ELSE rw_misses'[k[2]]]
    BY DEF Counted
  <1>6. Counted' = new
    BY <1>3, <1>4, <1>5
  <1> QED
    BY <1>6 DEF new

(* An access of the list classes is one of the abstract cache.             *)
LEMMA ListTouch ==
    ASSUME CacheInv, NEW line \in Lines, NEW o \in opType, ListAccess(line, o)
    PROVE  LRU!LruNext
  <1> DEFINE w == SetIndex(line)
             t == Tag(line)
             s == Contents(sets[w])
             it == Find(sets[w], t)
             d0 == it.dist
             p == d0 + 1
             r == <<t>> \o IF it.ptr # Null THEN Without(s, p) ELSE Young(s, Ways)
  <1>1. /\ impl' = impl /\ impl \in {"full", "set"} /\ impl # "direct"
        /\ IF it.ptr # Null THEN CountHit(o) ELSE CountMiss(o)
        /\ hitdepth' = IF it.ptr # Null /\ impl = "full" THEN [hitdepth EXCEPT ![d0] = @ + 1] ELSE hitdepth
    BY DEF ListAccess
  <1>2. /\ w \in 0 .. SetCount - 1 /\ t \in Nat
        /\ sets' = [sets EXCEPT ![w] = sets'[w]] /\ Contents(sets'[w]) = r
        /\ it.ptr = Null => \A k \in 1 .. Len(s) : s[k] # t
        /\ it.ptr # Null => d0 \in 0 .. Len(s) - 1 /\ s[p] = t
    BY ListAccessStep
  <1>3. /\ sets \in [0 .. SetCount - 1 -> ListType]
        /\ s \in Seq(Nat) /\ Distinct(s) /\ Len(s) <= Ways /\ Len(s) \in Nat
        /\ SetCount' = SetCount /\ Ways' = Ways /\ Ways \in Nat
        /\ hitdepth \in [0 .. Assoc - 1 -> Nat] /\ Ways = Assoc /\ Assoc \in Nat
    <2>1. Ways = Assoc /\ Assoc \in Nat /\ Ways \in Nat
      BY <1>1, CacheShape DEF CacheInv
    <2>2. SetCount' = SetCount /\ Ways' = Ways
      BY <1>1 DEF SetCount, Ways
    <2>3. /\ sets \in [0 .. SetCount - 1 -> ListType]
          /\ s \in Seq(Nat) /\ Distinct(s) /\ Len(s) <= Ways /\ hitdepth \in [0 .. Assoc - 1 -> Nat]
      <3> HIDE DEF w
      <3> QED
        BY <1>2 DEF CacheInv, SetsOK, CountsOK
    <2>4. Len(s) \in Nat
      BY <2>3
    <2> QED
      BY <2>1, <2>2, <2>3, <2>4
  <1>4. Shown[w] = s /\ DOMAIN Shown = 0 .. SetCount - 1
    BY <1>1, <1>2 DEF Shown
  <1> HIDE DEF w, t, it, s, r, d0
  <1>5. ASSUME it.ptr # Null PROVE p \in 1 .. Len(s) /\ LRU!Place(s, t) = p
    <2>1. p \in 1 .. Len(s) /\ s[p] = t
      BY SMTT(40), <1>2, <1>3, <1>5
    <2> HIDE DEF p
    <2>2. \A k \in 1 .. Len(s) : s[k] = t => k = p
      BY <1>3, <2>1 DEF Distinct
    <2> QED
      BY <2>1, <2>2 DEF LRU!Place
  <1>6. it.ptr # Null <=> \E k \in 1 .. Len(s) : s[k] = t
    BY <1>2, <1>5
  <1>7. Shape' = Shape
    BY <1>1, <1>3 DEF Shape
  <1>8. Shown' = [Shown EXCEPT ![w] = r]
    <2>1. Shown' = [z \in 0 .. SetCount - 1 |-> Contents(sets'[z])]
      BY <1>1, <1>3 DEF Shown
    <2>2. Shown = [z \in 0 .. SetCount - 1 |-> Contents(sets[z])]
      BY <1>1 DEF Shown
    <2>3. \A z \in 0 .. SetCount - 1 : z # w => sets'[z] = sets[z]
      BY <1>2, <1>3
    <2> QED
      BY <1>2, <2>1, <2>2, <2>3
  <1>9. Depths' = IF it.ptr # Null /\ impl = "full" THEN [Depths EXCEPT ![p - 1] = @ + 1] ELSE Depths
    <2>1. Depths' = [d \in 0 .. Ways - 1 |-> hitdepth'[d]] /\ Depths = [d \in 0 .. Ways - 1 |-> hitdepth[d]]
      BY <1>3 DEF Depths
    <2>2. CASE it.ptr # Null /\ impl = "full"
      <3>1. d0 \in 0 .. Ways - 1 /\ p - 1 = d0
        <4>1. d0 \in 0 .. Len(s) - 1
          BY <1>2, <2>2
        <4> DEFINE n == Len(s)
        <4>2. n \in Nat /\ n <= Ways /\ Ways \in Nat /\ d0 \in 0 .. n - 1
          BY <1>3, <4>1
        <4> HIDE DEF n
        <4> QED
          BY <4>2
      <3>2. hitdepth' = [hitdepth EXCEPT ![d0] = @ + 1]
        BY <1>1, <2>2
      <3> HIDE DEF p
      <3>4. \A d \in 0 .. Ways - 1 : hitdepth'[d] = IF d = d0 THEN hitdepth[d] + 1 ELSE hitdepth[d]
        BY <1>3, <3>1, <3>2
      <3>5. Depths' = [Depths EXCEPT ![d0] = @ + 1]
        BY <2>1, <3>1, <3>4
      <3> QED
        BY <2>2, <3>1, <3>5
    <2>3. CASE ~(it.ptr # Null /\ impl = "full")
      BY <1>1, <2>1, <2>3
    <2> QED
      BY <2>2, <2>3
  <1> DEFINE hit == it.ptr # Null
  <1>10. Counted' = [Counted EXCEPT ![<<IF hit THEN "hit" ELSE "miss", o>>] = @ + 1]
    BY <1>1, CountedStep
  <1>11. r = <<t>> \o IF hit THEN Without(Shown[w], LRU!Place(Shown[w], t)) ELSE Young(Shown[w], Ways)
    BY <1>4, <1>5 DEF r
  <1>12. w = line % SetCount /\ t = line \div SetCount
    BY DEF w, t, SetIndex, Tag
  <1>13. hit <=> \E k \in 1 .. Len(Shown[w]) : Shown[w][k] = t
    BY <1>4, <1>6
  <1>14. Depths' = IF hit /\ impl = "full" THEN [Depths EXCEPT ![LRU!Place(Shown[w], t) - 1] = @ + 1] ELSE Depths
    BY <1>4, <1>5, <1>9
  <1>15. Shown' = [Shown EXCEPT ![w] = <<t>> \o IF hit THEN Without(Shown[w], LRU!Place(Shown[w], t))
                                              ELSE Young(Shown[w], Ways)]
    BY <1>8, <1>11
  <1>16. hit \in BOOLEAN
    OBVIOUS
  <1> HIDE DEF hit, w, t
  <1>17. Touches(line, o, w, t, hit)
    BY <1>7, <1>10, <1>12, <1>13, <1>14, <1>15 DEF Touches
  <1> QED
    BY <1>16, <1>17, TouchIs

(* An access of the direct mapped class, one with a single way.            *)
LEMMA DirectTouch ==
    ASSUME CacheInv, NEW line \in Lines, NEW o \in opType, DirectAccess(line, o)
    PROVE  LRU!LruNext
  <1> DEFINE w == SetIndex(line)
             t == Tag(line)
             hit == tags[w] = t /\ valid[w]
             s == Shown[w]
  <1>1. /\ impl' = impl /\ impl = "direct" /\ hitdepth' = hitdepth
        /\ IF hit THEN CountHit(o) /\ UNCHANGED <<tags, valid>>
           ELSE /\ CountMiss(o) /\ valid' = [valid EXCEPT ![w] = TRUE] /\ tags' = [tags EXCEPT ![w] = t]
    BY DEF DirectAccess
  <1>2. w \in 0 .. SetCount - 1 /\ t \in Nat
        /\ tags \in [0 .. SetCount - 1 -> Nat] /\ valid \in [0 .. SetCount - 1 -> BOOLEAN]
    BY IndexAndTag DEF CacheInv
  <1>3. SetCount' = SetCount /\ Ways' = Ways /\ Ways = 1
    BY <1>1 DEF SetCount, Ways
  <1>4. s = IF valid[w] THEN <<tags[w]>> ELSE << >>
    BY <1>1, <1>2 DEF Shown
  <1> HIDE DEF w, t, s
  <1>5. hit <=> \E k \in 1 .. Len(s) : s[k] = t
    <2>1. CASE valid[w]
      <3>1. s = <<tags[w]>> /\ Len(<<tags[w]>>) = 1 /\ <<tags[w]>>[1] = tags[w]
        BY <1>4, <2>1
      <3> QED
        BY <2>1, <3>1
    <2>2. CASE ~valid[w]
      <3>1. Len(s) = 0
        BY <1>4, <2>2
      <3> QED
        BY <2>2, <3>1
    <2> QED
      BY <2>1, <2>2
  <1>6. hit => LRU!Place(s, t) = 1 /\ Without(s, 1) = << >>
    <2> SUFFICES ASSUME hit PROVE LRU!Place(s, t) = 1 /\ Without(s, 1) = << >>
      OBVIOUS
    <2>1. s = <<t>> /\ Len(s) = 1 /\ s[1] = t
      BY <1>4
    <2>2. LRU!Place(s, t) = 1
      BY <2>1 DEF LRU!Place
    <2>3. SubSeq(s, 1, 0) = << >> /\ SubSeq(s, 2, 1) = << >>
      BY SubSeqEmpty
    <2>4. << >> \o << >> = << >>
      <3>1. << >> \in Seq(Nat)
        OBVIOUS
      <3> QED
        BY <3>1, ConcatEmptySeq
    <2>5. Without(s, 1) = SubSeq(s, 1, 0) \o SubSeq(s, 2, 1)
      BY <2>1 DEF Without
    <2> QED
      BY <2>2, <2>3, <2>4, <2>5
  <1>7. Young(s, Ways) = << >>
    <2>1. Len(s) = 0 \/ Len(s) = 1
      BY <1>4
    <2>2. SubSeq(s, 1, 0) = << >>
      BY SubSeqEmpty
    <2>3. Young(s, Ways) = SubSeq(s, 1, 0)
      <3>1. (IF Len(s) = 1 THEN Len(s) - 1 ELSE Len(s)) = 0
        BY <2>1
      <3> QED
        BY <1>3, <3>1 DEF Young
    <2> QED
      BY <2>2, <2>3
  <1>8. <<t>> \o << >> = <<t>>
    <2>1. <<t>> \in Seq(Nat)
      BY <1>2
    <2> QED
      BY <2>1, ConcatEmptySeq
  <1>9. Shown' = [Shown EXCEPT ![w] = <<t>>]
    <2>1. Shown' = [z \in 0 .. SetCount - 1 |-> IF valid'[z] THEN <<tags'[z]>> ELSE << >>]
      BY <1>1, <1>3 DEF Shown
    <2>2. Shown = [z \in 0 .. SetCount - 1 |-> IF valid[z] THEN <<tags[z]>> ELSE << >>]
      BY <1>1 DEF Shown
    <2>3. valid'[w] /\ tags'[w] = t
      BY <1>1, <1>2
    <2>4. \A z \in 0 .. SetCount - 1 : z # w => valid'[z] = valid[z] /\ tags'[z] = tags[z]
      BY <1>1, <1>2
    <2> QED
      BY <1>2, <2>1, <2>2, <2>3, <2>4
  <1>10. Shape' = Shape /\ Depths' = Depths
    BY <1>1, <1>3 DEF Shape, Depths
  <1>11. hit \in BOOLEAN
    BY <1>2
  <1>12. IF hit THEN CountHit(o) ELSE CountMiss(o)
    BY <1>1
  <1>13. w = line % SetCount /\ t = line \div SetCount
    BY DEF w, t, SetIndex, Tag
  <1> HIDE DEF hit
  <1>14. Counted' = [Counted EXCEPT ![<<IF hit THEN "hit" ELSE "miss", o>>] = @ + 1]
    BY <1>11, <1>12, CountedStep
  <1>15. Shown' = [Shown EXCEPT ![w] = <<t>> \o IF hit THEN Without(Shown[w], LRU!Place(Shown[w], t))
                                              ELSE Young(Shown[w], Ways)]
    BY <1>6, <1>7, <1>8, <1>9 DEF s
  <1>16. hit <=> \E k \in 1 .. Len(Shown[w]) : Shown[w][k] = t
    BY <1>5 DEF s
  <1>17. Depths' = IF hit /\ impl = "full" THEN [Depths EXCEPT ![LRU!Place(Shown[w], t) - 1] = @ + 1] ELSE Depths
    BY <1>1, <1>10
  <1> HIDE DEF w, t
  <1>18. Touches(line, o, w, t, hit)
    BY <1>10, <1>13, <1>14, <1>15, <1>16, <1>17 DEF Touches
  <1> QED
    BY <1>11, <1>18, TouchIs

(* A new cache is an empty LRU cache.                                      *)
LEMMA CacheInitRefines == CacheInit => LRU!LruInit
<1> SUFFICES ASSUME CacheInit PROVE LRU!LruInit
  OBVIOUS
<1>1. CacheInv
  BY CacheInitInv
<1>2. impl \in Impls /\ SetCount \in Nat \ {0} /\ Ways \in 1 .. Assoc /\ Assoc \in Nat
  BY <1>1, CacheShape DEF CacheInv
<1>3. Shape \in [sets : Nat \ {0}, ways : Nat \ {0}, depths : BOOLEAN]
  BY <1>2 DEF Shape
<1>4. Shape.sets = SetCount /\ Shape.ways = Ways
  BY DEF Shape
<1>5. Shown = [w \in 0 .. SetCount - 1 |-> << >>]
  <2>1. PICK g \in Garbage : sets = [w \in 0 .. SetCount - 1 |-> EmptyList(g)]
    BY DEF CacheInit
  <2>2. Contents(EmptyList(g)) = << >>
    <3>1. << >> \in Seq(Nat)
      OBVIOUS
    <3> QED
      BY <3>1, EmptyShows, ShowsContents
  <2>3. ASSUME NEW w \in 0 .. SetCount - 1 PROVE ~valid[w] /\ Contents(sets[w]) = << >>
    BY <2>1, <2>2 DEF CacheInit
  <2> QED
    BY <2>3 DEF Shown
<1>6. Counted = [k \in {"hit", "miss"} \X {"READ", "WRITE"} |-> 0]
  BY DEF CacheInit, Counted, opType
<1>7. Depths = [d \in 0 .. Ways - 1 |-> 0]
  BY <1>2 DEF CacheInit, Depths
<1> QED
  BY <1>3, <1>4, <1>5, <1>6, <1>7 DEF LRU!LruInit

(* Every step of the cache is one of the LRU cache or changes nothing of   *)
(* it.                                                                     *)
LEMMA CacheNextRefines ==
    CacheInv /\ [NextNoListFlush]_cacheVars => [LRU!LruNext]_LRU!lruVars
<1> SUFFICES ASSUME CacheInv, [NextNoListFlush]_cacheVars PROVE [LRU!LruNext]_LRU!lruVars
  OBVIOUS
<1>1. ASSUME NEW line \in Lines, NEW o \in opType, DirectAccess(line, o) PROVE LRU!LruNext
  BY <1>1, DirectTouch
<1>2. ASSUME NEW line \in Lines, NEW o \in opType, ListAccess(line, o) PROVE LRU!LruNext
  BY <1>2, ListTouch
<1>3. ASSUME DirectFlush PROVE LRU!LruNext
  <2>1. impl' = impl /\ impl = "direct" /\ hitdepth' = hitdepth /\ rw_hits' = rw_hits /\ rw_misses' = rw_misses
    BY <1>3 DEF DirectFlush
  <2>2. SetCount' = SetCount /\ Ways' = Ways
    BY <2>1 DEF SetCount, Ways
  <2>3. Shape' = Shape /\ Depths' = Depths /\ Counted' = Counted
    BY <2>1, <2>2 DEF Shape, Depths, Counted
  <2>4. DOMAIN Shown = 0 .. SetCount - 1
    BY DEF Shown
  <2>5. \A w \in 0 .. SetCount - 1 : ~valid'[w]
    BY <1>3 DEF DirectFlush, CacheInv
  <2>6. Shown' = [w \in DOMAIN Shown |-> << >>]
    <3>1. Shown' = [w \in 0 .. SetCount - 1 |-> IF valid'[w] THEN <<tags'[w]>> ELSE << >>]
      BY <2>1, <2>2 DEF Shown
    <3> QED
      BY <2>4, <2>5, <3>1
  <2> QED
    BY <2>3, <2>6 DEF LRU!LruNext, LRU!LruFlush
<1>4. ASSUME UNCHANGED cacheVars PROVE UNCHANGED LRU!lruVars
  BY <1>4 DEF cacheVars, LRU!lruVars, Shape, Shown, Counted, Depths, SetCount, Ways
<1> QED
  BY <1>1, <1>2, <1>3, <1>4 DEF NextNoListFlush, Access

(* The direct mapped, the fully and the set associative cache simulate an  *)
(* LRU cache of their shape: the same hits, misses and depths, access by   *)
(* access (simCache.cc).                                                   *)
THEOREM CacheRefinesLru == SpecNoListFlush => ImplementsLru
<1>1. SpecNoListFlush => []CacheInv
  BY CacheInitInv, CacheNextInv, PTL DEF SpecNoListFlush
<1> QED
  BY <1>1, CacheInitRefines, CacheNextRefines, PTL DEF SpecNoListFlush, ImplementsLru, LRU!LruSpec
=============================================================================
