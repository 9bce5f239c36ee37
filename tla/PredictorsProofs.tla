-------------------------- MODULE PredictorsProofs --------------------------
(***************************************************************************)
(* gshare, gtagged, uberhistory and bimodal implement PredictorSpec, for   *)
(* every width of a word, length of history, size of the tables and set of *)
(* addresses.                                                              *)
(***************************************************************************)
EXTENDS Predictors, PredictorLemmas, SequenceTheorems

-----------------------------------------------------------------------------
(* What gshare's index folds: each bit of a quarter word is the parity of  *)
(* the four outcomes at that distance, for each quarter.                   *)
Odd(S) == Cardinality(S) % 2 = 1

(* A member added to a set changes the parity of its size.                 *)
LEMMA OneMore ==
    ASSUME NEW U, IsFiniteSet(U), NEW x, x \notin U, NEW S
    PROVE  /\ IsFiniteSet(U \cup ({x} \cap S))
           /\ Odd(U \cup ({x} \cap S)) <=> ~ (Odd(U) <=> x \in S)
<1>1. CASE x \in S
  <2>1. U \cup ({x} \cap S) = U \cup {x}
    BY <1>1
  <2>2. IsFiniteSet(U \cup {x}) /\ Cardinality(U \cup {x}) = Cardinality(U) + 1 /\ Cardinality(U) \in Nat
    BY FS_AddElement, FS_CardinalityType
  <2>3. \A n \in Nat : (n + 1) % 2 = 1 <=> ~ (n % 2 = 1)
    OBVIOUS
  <2>4. Odd(U \cup {x}) <=> ~ Odd(U)
    BY <2>2, <2>3 DEF Odd
  <2> QED
    BY <1>1, <2>1, <2>2, <2>4
<1>2. CASE x \notin S
  <2>1. U \cup ({x} \cap S) = U
    BY <1>2
  <2> QED
    BY <1>2, <2>1
<1> QED
  BY <1>1, <1>2

(* A bit of a word folded at k is that bit against the one k places up.    *)
LEMMA FoldAtBit ==
    ASSUME NEW S \in SUBSET Nat, NEW k \in Nat
    PROVE  /\ FoldAt(S, k) \in SUBSET Nat
           /\ \A b \in Nat : b \in FoldAt(S, k) <=> ~ (b + k \in S <=> b \in S /\ b < k)
<1>1. ASSUME NEW b PROVE b \in Down(S, k) <=> b \in Nat /\ b + k \in S
  <2>1. ASSUME b \in Down(S, k) PROVE b \in Nat /\ b + k \in S
    <3>1. PICK c \in S : c >= k /\ b = c - k
      BY <2>1 DEF Down
    <3>2. c \in Nat
      OBVIOUS
    <3>3. b \in Nat /\ b + k = c
      BY <3>1, <3>2
    <3> QED
      BY <3>1, <3>3
  <2>2. ASSUME b \in Nat, b + k \in S PROVE b \in Down(S, k)
    <3>1. b + k >= k /\ b = (b + k) - k
      BY <2>2
    <3> QED
      BY <2>2, <3>1 DEF Down
  <2> QED
    BY <2>1, <2>2
<1>2. \A b \in Nat : b \in S \cap Mask(k) <=> b \in S /\ b < k
  BY DEF Mask
<1>3. Down(S, k) \in SUBSET Nat
  BY <1>1
<1> QED
  BY <1>1, <1>2, <1>3 DEF FoldAt, Xor

(* A position below four quarters is in one of them.                       *)
LEMMA InQuarter ==
    ASSUME NEW q \in Nat \ {0}, NEW p \in Nat, p < 4 * q, NEW b \in Nat
    PROVE  p % q = b <=> b < q /\ p \in {b, b + q, b + 2 * q, b + 3 * q}
<1>1. \A m \in 0 .. q - 1 : m % q = m /\ (m + q) % q = m /\ (m + 2 * q) % q = m /\ (m + 3 * q) % q = m
  <2> SUFFICES ASSUME NEW m \in 0 .. q - 1
               PROVE  m % q = m /\ (m + q) % q = m /\ (m + 2 * q) % q = m /\ (m + 3 * q) % q = m
    OBVIOUS
  <2>1. (m + q * 0) % q = m /\ (m + q * 1) % q = m /\ (m + q * 2) % q = m /\ (m + q * 3) % q = m
    BY Quotient
  <2>2. q * 0 = 0 /\ q * 1 = q /\ q * 2 = 2 * q /\ q * 3 = 3 * q /\ m + 0 = m
    OBVIOUS
  <2> QED
    BY <2>1, <2>2
<1>2. \E m \in 0 .. q - 1 : p \in {m, m + q, m + 2 * q, m + 3 * q}
  <2>1. CASE p < q
    BY <2>1
  <2>2. CASE p >= q /\ p < 2 * q
    <3>1. p - q \in 0 .. q - 1 /\ p = (p - q) + q
      BY <2>2
    <3> QED
      BY <3>1
  <2>3. CASE p >= 2 * q /\ p < 3 * q
    <3>1. p - 2 * q \in 0 .. q - 1 /\ p = (p - 2 * q) + 2 * q
      BY <2>3
    <3> QED
      BY <3>1
  <2>4. CASE p >= 3 * q
    <3>1. p - 3 * q \in 0 .. q - 1 /\ p = (p - 3 * q) + 3 * q
      BY <2>4
    <3> QED
      BY <3>1
  <2> QED
    BY <2>1, <2>2, <2>3, <2>4
<1>3. PICK m \in 0 .. q - 1 : p \in {m, m + q, m + 2 * q, m + 3 * q}
  BY <1>2
<1>4. p % q = m
  BY <1>1, <1>3
<1>5. ASSUME b < q, p \in {b, b + q, b + 2 * q, b + 3 * q} PROVE p % q = b
  <2>1. b \in 0 .. q - 1
    BY <1>5
  <2> QED
    BY <1>1, <1>5, <2>1
<1> QED
  BY <1>3, <1>4, <1>5

(* Folded in halves twice, each bit is the parity of the four quarters.    *)
LEMMA FoldIsParity ==
    ASSUME NEW q \in Nat \ {0}, NEW S \in SUBSET Mask(4 * q), NEW b \in Nat
    PROVE  b \in FoldAt(FoldAt(S, 2 * q), q) <=> Odd({p \in S : p % q = b})
<1>0. S \in SUBSET Nat /\ 2 * q \in Nat /\ q \in Nat /\ \A p \in S : p \in Nat /\ p < 4 * q
  BY DEF Mask
<1> DEFINE F == FoldAt(S, 2 * q)
           T == {p \in S : p % q = b}
<1>1. F \in SUBSET Nat /\ \A c \in Nat : c \in F <=> ~ (c + 2 * q \in S <=> c \in S /\ c < 2 * q)
  BY <1>0, FoldAtBit
<1>2. b \in FoldAt(F, q) <=> ~ (b + q \in F <=> b \in F /\ b < q)
  BY <1>0, <1>1, FoldAtBit
<1>3. \A p \in S : p \in T <=> b < q /\ p \in {b, b + q, b + 2 * q, b + 3 * q}
  BY <1>0, InQuarter
<1> HIDE DEF F
<1>4. CASE b >= q
  <2>1. T = {}
    BY <1>3, <1>4
  <2>2. ~ Odd(T)
    BY <2>1, FS_EmptySet DEF Odd
  <2>3. b + q \notin F
    <3>1. b + q \in Nat /\ ~ (b + q < 2 * q) /\ ~ ((b + q) + 2 * q < 4 * q)
      BY <1>4
    <3>2. (b + q) + 2 * q \notin S
      BY <1>0, <3>1
    <3> QED
      BY <1>1, <3>1, <3>2
  <2> QED
    BY <1>2, <1>4, <2>2, <2>3 DEF F
<1>5. CASE b < q
  <2> DEFINE U1 == {} \cup ({b} \cap S)
             U2 == U1 \cup ({b + q} \cap S)
             U3 == U2 \cup ({b + 2 * q} \cap S)
             U4 == U3 \cup ({b + 3 * q} \cap S)
  <2>0. b # b + q /\ b # b + 2 * q /\ b # b + 3 * q /\ b + q # b + 2 * q /\ b + q # b + 3 * q /\ b + 2 * q # b + 3 * q
    OBVIOUS
  <2>1. IsFiniteSet(U1) /\ (Odd(U1) <=> b \in S)
    <3>1. IsFiniteSet({}) /\ ~ Odd({})
      BY FS_EmptySet DEF Odd
    <3>2. Odd(U1) <=> ~ (Odd({}) <=> b \in S)
      BY <3>1, OneMore
    <3> QED
      BY <3>1, <3>2, OneMore
  <2>2. IsFiniteSet(U2) /\ (Odd(U2) <=> ~ (Odd(U1) <=> b + q \in S))
    <3>1. b + q \notin U1
      BY <2>0
    <3> HIDE DEF U1
    <3> QED
      BY <2>1, <3>1, OneMore
  <2>3. IsFiniteSet(U3) /\ (Odd(U3) <=> ~ (Odd(U2) <=> b + 2 * q \in S))
    <3>1. b + 2 * q \notin U2
      BY <2>0
    <3> HIDE DEF U2
    <3> QED
      BY <2>2, <3>1, OneMore
  <2>4. IsFiniteSet(U4) /\ (Odd(U4) <=> ~ (Odd(U3) <=> b + 3 * q \in S))
    <3>1. b + 3 * q \notin U3
      BY <2>0
    <3> HIDE DEF U3
    <3> QED
      BY <2>3, <3>1, OneMore
  <2>5. T = U4
    <3>1. \A p \in S : p \in T <=> p \in {b, b + q, b + 2 * q, b + 3 * q}
      BY <1>3, <1>5
    <3> HIDE DEF T
    <3>2. T \subseteq S
      BY DEF T
    <3> QED
      BY <3>1, <3>2
  <2>6. b \in F <=> ~ (b + 2 * q \in S <=> b \in S)
    <3>1. b < 2 * q
      BY <1>5
    <3> QED
      BY <1>1, <3>1
  <2>7. b + q \in F <=> ~ (b + 3 * q \in S <=> b + q \in S)
    <3>1. b + q \in Nat /\ b + q < 2 * q /\ (b + q) + 2 * q = b + 3 * q
      BY <1>5
    <3> QED
      BY <1>1, <3>1
  <2> HIDE DEF T, U1, U2, U3, U4
  <2> QED
    BY <1>2, <1>5, <2>1, <2>2, <2>3, <2>4, <2>5, <2>6, <2>7 DEF T, F
<1> QED
  BY <1>4, <1>5

-----------------------------------------------------------------------------
(* The words that are hashed into an index, of any history.                *)
FoldOf(h) == FoldAt(FoldAt(h \cap Mask(WordBits), WordBits \div 2), WordBits \div 4)
GshareWord(a, h) == Xor(Up(Bits(a), LgInsn + PcShift), FoldOf(h)) \cap Mask(LgPht)
BimodalWord(a, h) == Xor(Bits(a), h \cap Mask(WordBits)) \cap Mask(LgPht)
ChoiceWord(a) == Bits(a) \cap Mask(LgCPht)

(* What the assumption says of the widths of words and tables.             *)
LEMMA Widths ==
    ASSUME PredictorsAssumption
    PROVE  /\ WordBits \in Nat \ {0} /\ BhrLen \in Nat \ {0}
           /\ LgPht \in Nat /\ LgCPht \in Nat /\ LgDigit \in Nat \ {0} /\ LgInsn + PcShift \in Nat
           /\ WordBits \div 2 \in Nat
           /\ 2^LgPht \in Nat \ {0} /\ 2^LgCPht \in Nat \ {0}
           /\ StoredBits \in Nat
<1>1. /\ WordBits \in Nat \ {0} /\ BhrLen \in Nat \ {0}
      /\ LgPht \in Nat /\ LgCPht \in Nat /\ LgDigit \in Nat \ {0} /\ LgInsn \in Nat /\ PcShift \in Nat
  BY DEF PredictorsAssumption
<1>2. 2^LgPht \in Nat \ {0} /\ 2^LgCPht \in Nat \ {0}
  BY <1>1, PowerPositive
<1>3. WordBits \div 2 \in Nat
  BY <1>1
<1>4. StoredBits \in Nat
  <2>1. PICK k \in Nat : k = (BhrLen + WordBits - 1) \div WordBits
    BY <1>1
  <2> QED
    BY <1>1, <2>1 DEF StoredBits
<1> QED
  BY <1>1, <1>2, <1>3, <1>4

(* A word has four equal quarters.                                         *)
LEMMA Quarters ==
    ASSUME PredictorsAssumption
    PROVE  \E q \in Nat \ {0} : WordBits = 4 * q /\ WordBits \div 2 = 2 * q /\ WordBits \div 4 = q
  BY DEF PredictorsAssumption

(* Both sides count alike.                                                 *)
LEMMA SameCardinality == \A S : PS!Cardinality(S) = Cardinality(S)
  BY DEF PS!Cardinality, Cardinality

(* Both sides have the same two-bit counters.                              *)
LEMMA SameSaturate == \A v, incr : PS!Saturate(v, incr) = Saturate(v, incr)
  BY DEF PS!Saturate, Saturate

(* gshare's index is the parity of the outcomes at each distance of a      *)
(* quarter word, against the address.                                      *)
LEMMA FoldedWord ==
    ASSUME PredictorsAssumption, NEW a, NEW h \in SUBSET Nat
    PROVE  PS!FoldedIndex(a, h) = GshareWord(a, h)
<1> DEFINE shift == LgInsn + PcShift
<1>1. LgPht \in Nat /\ shift \in Nat
  BY Widths
<1>2. Bits(a) = PS!BitsOf(a)
  BY DEF Bits, PS!BitsOf, Mask
<1>3. Bits(a) \in SUBSET Nat
  BY Widths DEF Bits, Mask
<1>4. PICK q \in Nat \ {0} : WordBits = 4 * q /\ WordBits \div 2 = 2 * q /\ WordBits \div 4 = q
  BY Quarters
<1>5. h \cap Mask(WordBits) = PS!Newest(h, WordBits) /\ h \cap Mask(WordBits) \in SUBSET Mask(4 * q)
  <2>1. \A p \in Nat : p \in Mask(WordBits) <=> p < WordBits
    BY Widths DEF Mask
  <2>2. h \cap Mask(WordBits) = PS!Newest(h, WordBits)
    BY <2>1 DEF PS!Newest
  <2> QED
    BY <1>4, <2>2
<1>6. ASSUME NEW b \in Nat
      PROVE  b \in FoldOf(h) <=>
                PS!Cardinality({p \in PS!Newest(h, WordBits) : p % (WordBits \div 4) = b}) % 2 = 1
  <2> DEFINE S == h \cap Mask(WordBits)
  <2> HIDE DEF S
  <2>1. b \in FoldAt(FoldAt(S, 2 * q), q) <=> Odd({p \in S : p % q = b})
    BY <1>5, FoldIsParity DEF S
  <2> QED
    BY <1>4, <1>5, <2>1, SameCardinality DEF FoldOf, Odd, S
<1>7. ASSUME NEW b \in Nat PROVE b \in Up(Bits(a), shift) <=> b - shift \in PS!BitsOf(a)
  <2> HIDE DEF shift
  <2>1. ASSUME b \in Up(Bits(a), shift) PROVE b - shift \in Bits(a)
    <3>1. PICK c \in Bits(a) : b = c + shift
      BY <2>1 DEF Up
    <3>2. b - shift = c
      BY <1>1, <1>3, <3>1
    <3> QED
      BY <3>2
  <2>2. ASSUME b - shift \in Bits(a) PROVE b \in Up(Bits(a), shift)
    <3>1. b = (b - shift) + shift
      BY <1>1
    <3> QED
      BY <2>2, <3>1 DEF Up
  <2> QED
    BY <1>2, <2>1, <2>2
<1> DEFINE Count(b) == PS!Cardinality({p \in PS!Newest(h, WordBits) : p % (WordBits \div 4) = b})
<1>8. \A b : b \in GshareWord(a, h) <=>
                b \in Mask(LgPht) /\ ~ (b \in Up(Bits(a), shift) <=> b \in FoldOf(h))
  BY DEF GshareWord, Xor
<1>9. \A b : b \in PS!FoldedIndex(a, h) <=>
                b \in Mask(LgPht) /\ (b - shift \in PS!BitsOf(a)) # (Count(b) % 2 = 1)
  BY DEF PS!FoldedIndex, Mask
<1>10. \A b \in Mask(LgPht) : b \in Nat
  BY <1>1 DEF Mask
<1> HIDE DEF shift, Count
<1>11. ASSUME NEW b \in Mask(LgPht)
       PROVE  ((b - shift \in PS!BitsOf(a)) # (Count(b) % 2 = 1)) <=>
              ~ (b \in Up(Bits(a), shift) <=> b \in FoldOf(h))
  <2>1. (b - shift \in PS!BitsOf(a)) <=> b \in Up(Bits(a), shift)
    BY <1>7, <1>10
  <2>2. (Count(b) % 2 = 1) <=> b \in FoldOf(h)
    BY <1>6, <1>10 DEF Count
  <2> QED
    BY <2>1, <2>2
<1> QED
  BY <1>8, <1>9, <1>11

(* bimodal's banks and choice counter are indexed as the abstract one's.   *)
LEMMA BankWord ==
    ASSUME PredictorsAssumption, NEW a, NEW h \in SUBSET Nat
    PROVE  PS!BankIndex(a, h) = BimodalWord(a, h) /\ PS!Choice(a) = <<"choice", ChoiceWord(a)>>
<1>1. Bits(a) = PS!BitsOf(a) /\ Bits(a) \in SUBSET Nat
  BY Widths DEF Bits, PS!BitsOf, Mask
<1>2. h \cap Mask(WordBits) = PS!Newest(h, WordBits)
  <2>1. \A p \in Nat : p \in Mask(WordBits) <=> p < WordBits
    BY Widths DEF Mask
  <2> QED
    BY <2>1 DEF PS!Newest
<1>3. \A b \in Nat : b \in Mask(LgCPht) <=> b < LgCPht
  BY Widths DEF Mask
<1>4. {b \in PS!BitsOf(a) : b < LgCPht} = ChoiceWord(a)
  BY <1>1, <1>3 DEF ChoiceWord
<1>5. PS!BankIndex(a, h) = {b \in Mask(LgPht) : (b \in PS!BitsOf(a)) # (b \in PS!Newest(h, WordBits))}
  BY DEF PS!BankIndex, Mask
<1>6. PS!BankIndex(a, h) = BimodalWord(a, h)
  BY <1>1, <1>2, <1>5 DEF BimodalWord, Xor
<1> QED
  BY <1>4, <1>6 DEF PS!Choice

-----------------------------------------------------------------------------
(* The keys of the maps tell contexts apart.                               *)
LEMMA BitsDiffer ==
    ASSUME PredictorsAssumption, NEW a \in Addr, NEW c \in Addr, Bits(a) = Bits(c)
    PROVE  a = c
<1>1. PICK half \in Nat : half = WordBits \div 2
  BY Widths
<1>2. a \in 0 .. 2^half - 1 /\ c \in 0 .. 2^half - 1
  BY <1>1 DEF PredictorsAssumption
<1>3. Number(Bits(a)) = a /\ Number(Bits(c)) = c
  BY <1>1, <1>2, BitsOfNumber DEF Bits
<1> QED
  BY <1>3

(* gtagged's key is the address below, the history above: both can be read *)
(* off it.                                                                 *)
LEMMA GtaggedKey ==
    ASSUME PredictorsAssumption, NEW a \in Addr, NEW c \in Addr,
           NEW h \in SUBSET Mask(WordBits \div 2), NEW g \in SUBSET Mask(WordBits \div 2),
           GtaggedIndex(a, h) = GtaggedIndex(c, g)
    PROVE  a = c /\ h = g
<1>1. PICK half \in Nat : half = WordBits \div 2
  BY Widths
<1>2. ASSUME NEW x \in Addr, NEW y \in SUBSET Mask(half)
      PROVE  /\ \A b \in Mask(half) : b \in GtaggedIndex(x, y) <=> b \in Bits(x)
             /\ \A b \in Mask(half) : b + half \in GtaggedIndex(x, y) <=> b \in y
  <2>1. GtaggedIndex(x, y) = Bits(x) \cup {b + half : b \in y}
    <3>1. y \cap Mask(half) = y
      OBVIOUS
    <3> QED
      BY <1>1, <3>1 DEF GtaggedIndex, Up
  <2>2. \A b \in Mask(half) : b \in Nat /\ b < half
    BY <1>1 DEF Mask
  <2>3. \A b \in Bits(x) : b \in Nat /\ b < half
    BY <1>1 DEF Bits, Mask
  <2>4. ASSUME NEW b \in Mask(half) PROVE b \in GtaggedIndex(x, y) <=> b \in Bits(x)
    BY <1>1, <2>1, <2>2
  <2>5. ASSUME NEW b \in Mask(half) PROVE b + half \in GtaggedIndex(x, y) <=> b \in y
    <3>1. b \in Nat /\ ~ (b + half < half)
      BY <1>1, <2>2
    <3>2. b + half \notin Bits(x)
      BY <2>3, <3>1
    <3>3. \A d \in y : d + half = b + half => d = b
      BY <1>1, <2>2
    <3> QED
      BY <2>1, <3>2, <3>3
  <2> QED
    BY <2>4, <2>5
<1>3. \A x : Bits(x) \in SUBSET Mask(half)
  BY <1>1 DEF Bits
<1>4. Bits(a) = Bits(c)
  <2>1. \A b \in Mask(half) : b \in Bits(a) <=> b \in Bits(c)
    BY <1>1, <1>2
  <2> QED
    BY <1>3, <2>1
<1>5. h = g
  <2>1. \A b \in Mask(half) : b \in h <=> b \in g
    BY <1>1, <1>2
  <2> QED
    BY <1>1, <2>1
<1> QED
  BY <1>4, <1>5, BitsDiffer

(* The key of uberhistory: the digits of the address, without leading      *)
(* zeros, and a character for each outcome of the history.                 *)
Weight(k) == 2^(LgDigit * k)
IsLength(n, k) == n < Weight(k) /\ (k = 1 \/ n >= Weight(k - 1))
HexLength(n) == CHOOSE k \in 1 .. WordBits : IsLength(n, k)
Digit(n, k) == (n \div Weight(k)) % 2^LgDigit

(* The weights of hexadecimal digits are the powers of their base.         *)
LEMMA Weights ==
    ASSUME PredictorsAssumption, NEW k \in Nat
    PROVE  /\ Weight(k) \in Nat /\ Weight(k) > 0
           /\ Weight(k + 1) = Weight(k) * 2^LgDigit
           /\ Weight(0) = 1
           /\ 2^LgDigit \in Nat /\ 2^LgDigit > 0
<1>1. LgDigit \in Nat
  BY Widths
<1>2. LgDigit * k \in Nat /\ LgDigit * (k + 1) = LgDigit * k + LgDigit /\ LgDigit * 0 = 0
  BY <1>1
<1> QED
  BY <1>1, <1>2, PowerPositive, PowerAdds, PowerZero DEF Weight

(* Every address is written in finitely many digits.                       *)
LEMMA HexLengthExists ==
    ASSUME PredictorsAssumption, NEW a \in Addr
    PROVE  a \in Nat /\ HexLength(a) \in 1 .. WordBits /\ a < Weight(HexLength(a))
<1>1. a \in Nat /\ a < 2^(WordBits \div 2)
  <2>1. PICK half \in Nat : half = WordBits \div 2
    BY Widths
  <2>2. 2^half \in Nat /\ a \in 0 .. 2^half - 1
    BY <2>1, PowerPositive DEF PredictorsAssumption
  <2> QED
    BY <2>1, <2>2
<1> DEFINE T == {k \in 1 .. WordBits : a < Weight(k)}
<1>2. WordBits \in T
  <2>1. PICK half \in Nat : half = WordBits \div 2 /\ half <= WordBits
    BY Widths
  <2>2. LgDigit * WordBits \in Nat /\ half <= LgDigit * WordBits
    BY <2>1, Widths
  <2>3. 2^half <= 2^(LgDigit * WordBits) /\ 2^half \in Nat /\ 2^(LgDigit * WordBits) \in Nat
    BY <2>2, PowerGrows, PowerPositive
  <2>4. WordBits \in 1 .. WordBits
    BY Widths
  <2> QED
    BY <1>1, <2>1, <2>3, <2>4 DEF Weight
<1>3. PICK k \in T : \A j \in T : k <= j
  <2>1. T \subseteq Nat /\ T # {}
    BY <1>2, Widths
  <2> HIDE DEF T
  <2> QED
    BY <2>1, LeastExists
<1>4. IsLength(a, k)
  <2>1. k \in 1 .. WordBits /\ a < Weight(k)
    OBVIOUS
  <2>2. ASSUME k # 1 PROVE a >= Weight(k - 1)
    <3>1. k - 1 \in 1 .. WordBits /\ ~ (k <= k - 1) /\ k - 1 \in Nat
      BY <2>1, <2>2, Widths
    <3>2. k - 1 \notin T
      BY <1>3, <3>1
    <3>3. ~ (a < Weight(k - 1)) /\ Weight(k - 1) \in Nat
      BY <3>1, <3>2, Weights
    <3> QED
      BY <1>1, <3>3
  <2> QED
    BY <2>1, <2>2 DEF IsLength
<1>5. k \in 1 .. WordBits
  OBVIOUS
<1>6. HexLength(a) \in 1 .. WordBits /\ IsLength(a, HexLength(a))
  BY <1>4, <1>5 DEF HexLength
<1> QED
  BY <1>1, <1>6 DEF IsLength

(* The digits of a string, from the first.                                 *)
LEMMA HexDigits ==
    ASSUME NEW n
    PROVE  HexString(n) = [k \in 1 .. HexLength(n) |-> Digit(n, HexLength(n) - k)]
BY DEF HexString, HexLength, IsLength, Weight, Digit

(* Addresses with the same digits are the same.                            *)
LEMMA DigitsDiffer ==
    ASSUME PredictorsAssumption, NEW a \in Addr, NEW c \in Addr, NEW n \in Nat,
           a < Weight(n), c < Weight(n), \A k \in 0 .. n - 1 : Digit(a, k) = Digit(c, k)
    PROVE  a = c
<1>1. a \in Nat /\ c \in Nat
  BY HexLengthExists
<1> DEFINE Agree(k) == a \div Weight(k) = c \div Weight(k)
           T == {j \in Nat : j <= n => Agree(n - j)}
<1>2. 0 \in T
  <2>1. Weight(n) \in Nat /\ Weight(n) > 0
    BY Weights
  <2>2. PICK w \in Nat \ {0} : w = Weight(n)
    BY <2>1
  <2>3. a \div w = 0 /\ c \div w = 0
    BY <1>1, <2>2
  <2>4. n - 0 = n
    OBVIOUS
  <2> QED
    BY <2>2, <2>3, <2>4
<1>3. ASSUME NEW j \in T PROVE j + 1 \in T
  <2> SUFFICES ASSUME j + 1 <= n PROVE Agree(n - (j + 1))
    OBVIOUS
  <2>1. PICK k \in 0 .. n - 1 : k = n - (j + 1) /\ k + 1 = n - j
    OBVIOUS
  <2>2. Agree(k + 1) /\ k \in Nat
    BY <2>1
  <2>3. PICK w \in Nat, q \in Nat : w > 0 /\ q > 0 /\ w = Weight(k) /\ q = 2^LgDigit /\ Weight(k + 1) = w * q
    BY <2>2, Weights
  <2>4. (a \div w) \div q = a \div (w * q) /\ (c \div w) \div q = c \div (w * q)
    BY <1>1, <2>3, NestedQuotient
  <2>5. (a \div w) \div q = (c \div w) \div q
    BY <2>2, <2>3, <2>4
  <2>6. (a \div w) % q = (c \div w) % q
    BY <2>3 DEF Digit
  <2>7. a \div w \in Nat /\ c \div w \in Nat
    BY <1>1, <2>3
  <2>8. a \div w = c \div w
    BY <2>3, <2>5, <2>6, <2>7, FromQuotient
  <2> QED
    BY <2>1, <2>3, <2>8
<1>4. T = Nat
  <2> HIDE DEF T
  <2>1. T \in SUBSET Nat
    BY DEF T
  <2> QED
    BY <1>2, <1>3, <2>1, SetInduction
<1>5. Agree(0)
  <2>1. n \in T
    BY <1>4
  <2>2. n - n = 0 /\ n <= n
    OBVIOUS
  <2> QED
    BY <2>1, <2>2
<1>6. a \div 1 = c \div 1
  <2>1. Weight(0) = 1
    BY Weights
  <2> QED
    BY <1>5, <2>1
<1> QED
  BY <1>1, <1>6

(* Two strings whose ends are of one length are the same in both parts.    *)
LEMMA SameParts ==
    ASSUME NEW s \in Seq(Nat), NEW t \in Seq(Nat), NEW u \in Seq(Nat), NEW v \in Seq(Nat),
           Len(t) = Len(v), s \o t = u \o v
    PROVE  s = u /\ t = v
<1>1. /\ Len(s \o t) = Len(s) + Len(t)
      /\ \A k \in 1 .. Len(s) + Len(t) : (s \o t)[k] = IF k <= Len(s) THEN s[k] ELSE t[k - Len(s)]
  BY ConcatProperties
<1>2. /\ Len(u \o v) = Len(u) + Len(v)
      /\ \A k \in 1 .. Len(u) + Len(v) : (u \o v)[k] = IF k <= Len(u) THEN u[k] ELSE v[k - Len(u)]
  BY ConcatProperties
<1> DEFINE whole == s \o t
<1>3. Len(whole) = Len(u) + Len(v)
      /\ \A k \in 1 .. Len(u) + Len(v) : whole[k] = IF k <= Len(u) THEN u[k] ELSE v[k - Len(u)]
  BY <1>2
<1> HIDE DEF whole
<1>4. Len(s) \in Nat /\ Len(t) \in Nat /\ Len(u) \in Nat
  OBVIOUS
<1>5. Len(s) = Len(u)
  BY <1>1, <1>3, <1>4 DEF whole
<1>6. ASSUME NEW k \in 1 .. Len(s) PROVE s[k] = u[k]
  <2>1. k \in 1 .. Len(s) + Len(t) /\ k <= Len(s)
    BY <1>4
  <2> QED
    BY <1>1, <1>3, <1>5, <2>1 DEF whole
<1>7. ASSUME NEW k \in 1 .. Len(t) PROVE t[k] = v[k]
  <2>1. k + Len(s) \in 1 .. Len(s) + Len(t) /\ ~ (k + Len(s) <= Len(s)) /\ (k + Len(s)) - Len(s) = k
    BY <1>4
  <2> QED
    BY <1>1, <1>3, <1>5, <2>1 DEF whole
<1>8. s = u
  BY <1>5, <1>6, SeqEqual
<1>9. t = v
  BY <1>7, SeqEqual
<1> QED
  BY <1>8, <1>9

(* Address and history are strings, the history's of fixed length.         *)
LEMMA UberStrings ==
    ASSUME PredictorsAssumption, NEW a \in Addr, NEW h
    PROVE  /\ HexString(a) \in Seq(Nat) /\ Len(HexString(a)) = HexLength(a)
           /\ AsString(h) \in Seq(Nat) /\ Len(AsString(h)) = BhrLen
<1>1. HexLength(a) \in Nat /\ a \in Nat
  BY HexLengthExists, Widths
<1>2. ASSUME NEW k \in 1 .. HexLength(a) PROVE Digit(a, HexLength(a) - k) \in Nat
  <2>1. HexLength(a) - k \in Nat
    BY <1>1
  <2>2. PICK w \in Nat, q \in Nat : w > 0 /\ q > 0 /\ w = Weight(HexLength(a) - k) /\ q = 2^LgDigit
    BY <2>1, Weights
  <2>3. (a \div w) % q \in Nat
    BY <1>1, <2>2
  <2> QED
    BY <2>2, <2>3 DEF Digit
<1>3. HexString(a) \in Seq(Nat) /\ Len(HexString(a)) = HexLength(a)
  BY <1>1, <1>2, HexDigits
<1>4. AsString(h) \in Seq(Nat) /\ Len(AsString(h)) = BhrLen
  <2>1. BhrLen \in Nat
    BY Widths
  <2>2. AsString(h) \in [1 .. BhrLen -> Nat]
    BY DEF AsString
  <2> HIDE DEF AsString
  <2> QED
    BY <2>1, <2>2
<1> QED
  BY <1>3, <1>4

(* uberhistory's key is the address and the history one after the other:   *)
(* the history has a fixed length, so both can be read off it.             *)
LEMMA UberKey ==
    ASSUME PredictorsAssumption, NEW a \in Addr, NEW c \in Addr,
           NEW h \in SUBSET Mask(BhrLen), NEW g \in SUBSET Mask(BhrLen),
           UberIndex(a, h) = UberIndex(c, g)
    PROVE  a = c /\ h = g
<1>1. HexString(a) = HexString(c) /\ AsString(h) = AsString(g)
  <2>1. /\ HexString(a) \in Seq(Nat) /\ HexString(c) \in Seq(Nat)
        /\ AsString(h) \in Seq(Nat) /\ AsString(g) \in Seq(Nat)
        /\ Len(AsString(h)) = Len(AsString(g))
    BY UberStrings
  <2>2. HexString(a) \o AsString(h) = HexString(c) \o AsString(g)
    BY DEF UberIndex
  <2>3. PICK s \in Seq(Nat), t \in Seq(Nat), u \in Seq(Nat), v \in Seq(Nat) :
            s = HexString(a) /\ t = AsString(h) /\ u = HexString(c) /\ v = AsString(g)
    BY <2>1
  <2>4. Len(t) = Len(v) /\ s \o t = u \o v
    BY <2>1, <2>2, <2>3
  <2>5. s = u /\ t = v
    BY <2>4, SameParts, ZenonT(30)
  <2> QED
    BY <2>3, <2>5
<1>2. HexLength(a) = HexLength(c)
  BY <1>1, UberStrings
<1> DEFINE n == HexLength(a)
<1>3. n \in Nat /\ a < Weight(n) /\ c < Weight(n)
  BY <1>2, HexLengthExists, Widths
<1>4. ASSUME NEW k \in 0 .. n - 1 PROVE Digit(a, k) = Digit(c, k)
  <2>1. n - k \in 1 .. n /\ n - (n - k) = k
    BY <1>3
  <2>2. HexString(a) = [j \in 1 .. n |-> Digit(a, n - j)] /\ HexString(c) = [j \in 1 .. n |-> Digit(c, n - j)]
    BY <1>2, HexDigits
  <2> HIDE DEF n
  <2>3. HexString(a)[n - k] = Digit(a, n - (n - k)) /\ HexString(c)[n - k] = Digit(c, n - (n - k))
    BY <2>1, <2>2
  <2> QED
    BY <1>1, <2>1, <2>3
<1>5. a = c
  <2> HIDE DEF n
  <2> QED
    BY <1>3, <1>4, DigitsDiffer
<1>6. ASSUME NEW b \in Mask(BhrLen) PROVE b \in h <=> b \in g
  <2>1. BhrLen - b \in 1 .. BhrLen /\ BhrLen - (BhrLen - b) = b
    BY Widths DEF Mask
  <2>2. AsString(h)[BhrLen - b] = IF b \in h THEN 1 ELSE 0
    BY <2>1 DEF AsString
  <2>3. AsString(g)[BhrLen - b] = IF b \in g THEN 1 ELSE 0
    BY <2>1 DEF AsString
  <2> QED
    BY <1>1, <2>2, <2>3
<1> QED
  BY <1>5, <1>6

-----------------------------------------------------------------------------
(* Between predict and update the index is that of the history predict     *)
(* saw, and the prediction is what its counter still says.                 *)
IndexAt(a, h) ==
    CASE impl = "gshare" -> Number(GshareWord(a, h))
      [] impl = "gtagged" -> GtaggedIndex(a, h \cap Mask(WordBits))
      [] impl = "uberhistory" -> UberIndex(a, h)
      [] impl = "bimodal" -> Number(BimodalWord(a, h))

ShiftOf(h, t) == (Up(h, 1) \cap Mask(StoredBits)) \cup (IF t THEN {0} ELSE {})

TablesOK ==
    /\ impl = "gshare" => tables \in [pht : CounterArrays(2^LgPht)]
    /\ impl \in {"gtagged", "uberhistory"} => tables = [pht |-> tables.pht]
    /\ impl = "bimodal" => tables \in [c_pht : CounterArrays(2^LgCPht),
                                       nt_pht : CounterArrays(2^LgPht),
                                       t_pht : CounterArrays(2^LgPht)]

RefInv ==
    /\ impl \in {"gshare", "gtagged", "uberhistory", "bimodal"}
    /\ phase \in {"idle", "predicted", "resolved"}
    /\ TablesOK
    /\ bhr \in SUBSET Mask(StoredBits) /\ seen \in SUBSET Mask(StoredBits)
    /\ bp \in BOOLEAN /\ taken \in BOOLEAN
    /\ phase # "idle" => /\ addr \in Addr
                         /\ idx = IndexAt(addr, seen)
                         /\ bp = (Counter(addr, idx) > 1)
    /\ phase = "predicted" => bhr = seen
    /\ phase = "resolved" => bhr = ShiftOf(seen, taken)

(* The index of an address depends on the history at the time.             *)
LEMMA IndexNow == ASSUME NEW a PROVE Index(a) = IndexAt(a, bhr)
BY DEF Index, IndexAt, GshareIndex, GshareWord, FoldOf, BimodalIndex, BimodalWord, UberIndex, ToInteger

(* A shift keeps the history to the bits that are stored.                  *)
LEMMA ShiftKeeps ==
    ASSUME PredictorsAssumption, NEW h \in SUBSET Mask(StoredBits), NEW t \in BOOLEAN
    PROVE  ShiftOf(h, t) \in SUBSET Mask(StoredBits)
<1>1. 0 \in Mask(StoredBits)
  <2>1. StoredBits > 0
    <3>1. PICK x \in Nat, w \in Nat \ {0} : x = BhrLen + WordBits - 1 /\ w = WordBits /\ x >= w
      BY Widths
    <3>2. PICK k \in Nat : k = x \div w
      BY <3>1
    <3>3. x = w * (x \div w) + (x % w) /\ x % w \in 0 .. w - 1
      BY <3>1
    <3>4. k # 0
      <4>1. w * 0 = 0
        BY <3>1
      <4> QED
        BY <3>1, <3>2, <3>3, <4>1
    <3>5. k * w > 0
      BY <3>1, <3>4
    <3> QED
      BY <3>1, <3>2, <3>5 DEF StoredBits
  <2> QED
    BY <2>1, Widths DEF Mask
<1> QED
  BY <1>1 DEF ShiftOf

(* Every index lies in its table.                                          *)
LEMMA WordsInRange ==
    ASSUME PredictorsAssumption, NEW a, NEW h
    PROVE  /\ GshareWord(a, h) \in SUBSET Mask(LgPht) /\ Number(GshareWord(a, h)) \in 0 .. 2^LgPht - 1
           /\ BimodalWord(a, h) \in SUBSET Mask(LgPht) /\ Number(BimodalWord(a, h)) \in 0 .. 2^LgPht - 1
           /\ ChoiceWord(a) \in SUBSET Mask(LgCPht) /\ Number(ChoiceWord(a)) \in 0 .. 2^LgCPht - 1
<1>1. LgPht \in Nat /\ LgCPht \in Nat
  BY Widths
<1>2. GshareWord(a, h) \in SUBSET Mask(LgPht) /\ BimodalWord(a, h) \in SUBSET Mask(LgPht)
      /\ ChoiceWord(a) \in SUBSET Mask(LgCPht)
  BY DEF GshareWord, BimodalWord, ChoiceWord
<1> QED
  BY <1>1, <1>2, NumberBound

(* std::map's operator[] assigns to one key.                               *)
LEMMA AssignOne ==
    ASSUME NEW m, NEW k, NEW v, NEW j
    PROVE  Lookup(Assign(m, k, v), j) = IF j = k THEN v ELSE Lookup(m, j)
BY DEF Lookup, Assign

-----------------------------------------------------------------------------
(* What update does to the tables of each class.                           *)
LEMMA GshareTrains ==
    ASSUME PredictorsAssumption, RefInv, Update, impl = "gshare",
           NEW a \in Addr, a = addr, NEW out \in BOOLEAN, out = taken
    PROVE  /\ tables' \in [pht : CounterArrays(2^LgPht)]
           /\ \A x \in SUBSET Mask(LgPht) :
                 GetValue(tables'.pht, Number(x)) =
                    IF x = GshareWord(a, seen) THEN Saturate(GetValue(tables.pht, Number(x)), out)
                    ELSE GetValue(tables.pht, Number(x))
<1> DEFINE w == GshareWord(a, seen)
<1>1. tables \in [pht : CounterArrays(2^LgPht)] /\ idx = Number(w)
  BY DEF RefInv, TablesOK, Update, IndexAt
<1>2. PICK t \in CounterArrays(2^LgPht) : tables = [pht |-> t]
  BY <1>1
<1>3. tables' = [pht |-> UpdateCounter(t, Number(w), out)]
  BY <1>1, <1>2 DEF Update, TrainedTables
<1>4. w \in SUBSET Mask(LgPht) /\ Number(w) \in 0 .. 2^LgPht - 1
  BY WordsInRange
<1> HIDE DEF w
<1>5. /\ UpdateCounter(t, Number(w), out) \in CounterArrays(2^LgPht)
      /\ \A j \in 0 .. 2^LgPht - 1 :
            GetValue(UpdateCounter(t, Number(w), out), j) =
               IF j = Number(w) THEN Saturate(GetValue(t, Number(w)), out) ELSE GetValue(t, j)
  BY <1>4, UpdateCounterCorrect, Widths
<1>6. ASSUME NEW x \in SUBSET Mask(LgPht)
      PROVE  Number(x) \in 0 .. 2^LgPht - 1 /\ (Number(x) = Number(w) <=> x = w)
  BY <1>4, NumberBound, NumberInjective, Widths
<1> QED
  BY <1>2, <1>3, <1>5, <1>6 DEF w

(* An update of a map steps one counter, a missing one from 0, and no      *)
(* other.                                                                  *)
LEMMA MapTrains ==
    ASSUME RefInv, Update, impl \in {"gtagged", "uberhistory"}, NEW out \in BOOLEAN, out = taken
    PROVE  /\ tables' = [pht |-> tables'.pht]
           /\ \A k : Lookup(tables'.pht, k) =
                        IF k = IndexAt(addr, seen) THEN Saturate(Lookup(tables.pht, k), out)
                        ELSE Lookup(tables.pht, k)
<1>1. tables = [pht |-> tables.pht] /\ idx = IndexAt(addr, seen)
  BY DEF RefInv, TablesOK, Update
<1>2. tables' = [tables EXCEPT !.pht = Assign(@, idx, Saturate(Lookup(@, idx), taken))]
  BY DEF Update, TrainedTables
<1>3. tables' = [pht |-> Assign(tables.pht, idx, Saturate(Lookup(tables.pht, idx), taken))]
  BY <1>1, <1>2
<1> QED
  BY <1>1, <1>3, AssignOne

(* The bank of the branch, named as the abstract predictor names it.       *)
BankOf(a) == IF GetValue(tables.c_pht, Number(ChoiceWord(a))) < 2 THEN "nt" ELSE "t"

(* Whether the choice learns the outcome too.                              *)
LearnsChoice(a, out) == ~ ((BankOf(a) = "nt") = out /\ bp = out)

(* bimodal steps the counter of the bank that predicted, the choice        *)
(* counter under the condition of the code, and no other.                  *)
LEMMA BimodalTrains ==
    ASSUME PredictorsAssumption, RefInv, Update, impl = "bimodal",
           NEW a \in Addr, a = addr, NEW out \in BOOLEAN, out = taken
    PROVE  /\ tables' \in [c_pht : CounterArrays(2^LgCPht), nt_pht : CounterArrays(2^LgPht),
                           t_pht : CounterArrays(2^LgPht)]
           /\ bp = (GetValue(IF BankOf(a) = "nt" THEN tables.nt_pht ELSE tables.t_pht,
                             Number(BimodalWord(a, seen))) > 1)
           /\ \A x \in SUBSET Mask(LgCPht) :
                 GetValue(tables'.c_pht, Number(x)) =
                    IF x = ChoiceWord(a) /\ LearnsChoice(a, out)
                      THEN Saturate(GetValue(tables.c_pht, Number(x)), out)
                    ELSE GetValue(tables.c_pht, Number(x))
           /\ \A x \in SUBSET Mask(LgPht) :
                 /\ GetValue(tables'.nt_pht, Number(x)) =
                       IF x = BimodalWord(a, seen) /\ BankOf(a) = "nt"
                         THEN Saturate(GetValue(tables.nt_pht, Number(x)), out)
                       ELSE GetValue(tables.nt_pht, Number(x))
                 /\ GetValue(tables'.t_pht, Number(x)) =
                       IF x = BimodalWord(a, seen) /\ BankOf(a) = "t"
                         THEN Saturate(GetValue(tables.t_pht, Number(x)), out)
                       ELSE GetValue(tables.t_pht, Number(x))
<1> DEFINE w == BimodalWord(a, seen)
           c == ChoiceWord(a)
           nt == BankOf(a) = "nt"
<1>1. /\ tables \in [c_pht : CounterArrays(2^LgCPht), nt_pht : CounterArrays(2^LgPht),
                     t_pht : CounterArrays(2^LgPht)]
      /\ idx = Number(w) /\ bp = (Counter(a, idx) > 1)
  BY DEF RefInv, TablesOK, Update, IndexAt
<1>2. PICK tc \in CounterArrays(2^LgCPht), tn \in CounterArrays(2^LgPht), tt \in CounterArrays(2^LgPht) :
         tables = [c_pht |-> tc, nt_pht |-> tn, t_pht |-> tt]
  BY <1>1
<1>3. w \in SUBSET Mask(LgPht) /\ Number(w) \in 0 .. 2^LgPht - 1
      /\ c \in SUBSET Mask(LgCPht) /\ Number(c) \in 0 .. 2^LgCPht - 1
  BY WordsInRange
<1>4. ChoiceIndex(a) = Number(c)
  BY DEF ChoiceIndex, ChoiceWord
<1>5. Bank(a) = (IF nt THEN "nt_pht" ELSE "t_pht") /\ (~ nt <=> BankOf(a) = "t")
      /\ (nt <=> GetValue(tc, Number(c)) < 2)
  BY <1>2, <1>4 DEF Bank, BankOf
<1> HIDE DEF w, c, nt
<1>6. bp = (GetValue(IF nt THEN tn ELSE tt, Number(w)) > 1)
  BY <1>1, <1>2, <1>5 DEF Counter
<1>7. /\ GetValue(tn, Number(w)) \in 0 .. 3 /\ GetValue(tt, Number(w)) \in 0 .. 3
      /\ 2^LgPht \in Nat \ {0} /\ 2^LgCPht \in Nat \ {0}
  BY <1>3, CountersTyped, Widths
<1> DEFINE keep == IF nt THEN out /\ GetValue(tn, Number(w)) > 1 ELSE ~ out /\ GetValue(tt, Number(w)) < 2
<1>8. keep <=> ~ LearnsChoice(a, out)
  <2>1. nt \in BOOLEAN
    BY DEF nt
  <2>2. CASE nt
    BY <1>6, <1>7, <2>2 DEF LearnsChoice, nt
  <2>3. CASE ~ nt
    BY <1>6, <1>7, <2>3 DEF LearnsChoice, nt
  <2> QED
    BY <2>1, <2>2, <2>3
<1>9. tables' = [c_pht |-> IF keep THEN tc ELSE UpdateCounter(tc, Number(c), out),
                 nt_pht |-> IF nt THEN UpdateCounter(tn, Number(w), out) ELSE tn,
                 t_pht |-> IF nt THEN tt ELSE UpdateCounter(tt, Number(w), out)]
  <2>1. tables' = BimodalUpdate
    BY DEF Update, TrainedTables
  <2>2. (Bank(a) = "nt_pht") <=> nt
    BY <1>5
  <2> QED
    BY <1>1, <1>2, <1>4, <2>1, <2>2 DEF BimodalUpdate
<1> HIDE DEF keep
<1>10. /\ UpdateCounter(tc, Number(c), out) \in CounterArrays(2^LgCPht)
       /\ \A j \in 0 .. 2^LgCPht - 1 :
             GetValue(UpdateCounter(tc, Number(c), out), j) =
                IF j = Number(c) THEN Saturate(GetValue(tc, Number(c)), out) ELSE GetValue(tc, j)
  BY <1>3, <1>7, UpdateCounterCorrect
<1>11. /\ UpdateCounter(tn, Number(w), out) \in CounterArrays(2^LgPht)
       /\ \A j \in 0 .. 2^LgPht - 1 :
             GetValue(UpdateCounter(tn, Number(w), out), j) =
                IF j = Number(w) THEN Saturate(GetValue(tn, Number(w)), out) ELSE GetValue(tn, j)
  BY <1>3, <1>7, UpdateCounterCorrect
<1>12. /\ UpdateCounter(tt, Number(w), out) \in CounterArrays(2^LgPht)
       /\ \A j \in 0 .. 2^LgPht - 1 :
             GetValue(UpdateCounter(tt, Number(w), out), j) =
                IF j = Number(w) THEN Saturate(GetValue(tt, Number(w)), out) ELSE GetValue(tt, j)
  BY <1>3, <1>7, UpdateCounterCorrect
<1>13. tables' \in [c_pht : CounterArrays(2^LgCPht), nt_pht : CounterArrays(2^LgPht),
                    t_pht : CounterArrays(2^LgPht)]
  BY <1>9, <1>10, <1>11, <1>12
<1>14. ASSUME NEW x \in SUBSET Mask(LgCPht)
       PROVE  GetValue(tables'.c_pht, Number(x)) =
                 IF x = c /\ LearnsChoice(a, out) THEN Saturate(GetValue(tc, Number(x)), out)
                 ELSE GetValue(tc, Number(x))
  <2>1. Number(x) \in 0 .. 2^LgCPht - 1 /\ (Number(x) = Number(c) <=> x = c)
    BY <1>3, NumberBound, NumberInjective, Widths
  <2>2. tables'.c_pht = IF keep THEN tc ELSE UpdateCounter(tc, Number(c), out)
    BY <1>9
  <2> QED
    BY <1>8, <1>10, <2>1, <2>2
<1>15. ASSUME NEW x \in SUBSET Mask(LgPht)
       PROVE  /\ GetValue(tables'.nt_pht, Number(x)) =
                    IF x = w /\ nt THEN Saturate(GetValue(tn, Number(x)), out) ELSE GetValue(tn, Number(x))
              /\ GetValue(tables'.t_pht, Number(x)) =
                    IF x = w /\ ~ nt THEN Saturate(GetValue(tt, Number(x)), out) ELSE GetValue(tt, Number(x))
  <2>1. Number(x) \in 0 .. 2^LgPht - 1 /\ (Number(x) = Number(w) <=> x = w)
    BY <1>3, NumberBound, NumberInjective, Widths
  <2>2. tables'.nt_pht = (IF nt THEN UpdateCounter(tn, Number(w), out) ELSE tn)
        /\ tables'.t_pht = (IF nt THEN tt ELSE UpdateCounter(tt, Number(w), out))
    BY <1>9
  <2> QED
    BY <1>11, <1>12, <2>1, <2>2
<1>16. tables.c_pht = tc /\ tables.nt_pht = tn /\ tables.t_pht = tt
  BY <1>2
<1> QED
  BY <1>5, <1>6, <1>13, <1>14, <1>15, <1>16 DEF w, c, nt

-----------------------------------------------------------------------------
(* The steps of a program around the predictor: those of a branch, a jump  *)
(* between two branches, and what does not touch it.                       *)
Turn ==
    /\ phase = "idle" /\ bhr' = ShiftedBhr(TRUE)
    /\ UNCHANGED <<impl, tables, phase, addr, idx, bp, taken, seen, n_branches, n_mispredicts>>

Quiet == UNCHANGED <<impl, bhr, tables, phase, addr, idx, bp, taken, seen,
                     n_branches, n_mispredicts>>

RefNext ==
    \/ \E a \in Addr : Predict(a)
    \/ \E t \in BOOLEAN : Resolve(t)
    \/ Update \/ Turn \/ Quiet

(* What moves in a step of Predictors, without its bounds.                 *)
LEMMA NextIsRefNext == [PdNext]_pdVars => RefNext
BY DEF PdNext, pdVars, RefNext, Turn, Quiet, JumpOutcome

(* As created, nothing has been looked up.                                 *)
LEMMA RefInvStart == PredictorsAssumption /\ PdInit => RefInv
<1> SUFFICES ASSUME PredictorsAssumption, PdInit PROVE RefInv
  OBVIOUS
<1>1. TablesOK
  <2>1. NewCounters(2^LgPht) \in CounterArrays(2^LgPht) /\ NewCounters(2^LgCPht) \in CounterArrays(2^LgCPht)
    BY NewCountersCorrect, Widths
  <2> QED
    BY <2>1 DEF PdInit, NewTables, TablesOK
<1>2. impl \in {"gshare", "gtagged", "uberhistory", "bimodal"}
  BY DEF PdInit, PredictorsAssumption
<1> QED
  BY <1>1, <1>2 DEF PdInit, RefInv

(* An update leaves well-formed tables.                                    *)
LEMMA TablesTyped ==
    ASSUME PredictorsAssumption, RefInv, Update
    PROVE  TablesOK'
<1>1. addr \in Addr /\ taken \in BOOLEAN /\ impl' = impl /\ impl \in {"gshare", "gtagged", "uberhistory", "bimodal"}
  BY DEF RefInv, Update
<1>2. PICK a \in Addr, out \in BOOLEAN : a = addr /\ out = taken
  BY <1>1
<1>3. CASE impl = "gshare"
  BY <1>1, <1>2, <1>3, GshareTrains DEF TablesOK
<1>4. CASE impl \in {"gtagged", "uberhistory"}
  BY <1>1, <1>2, <1>4, MapTrains DEF TablesOK
<1>5. CASE impl = "bimodal"
  BY <1>1, <1>2, <1>5, BimodalTrains DEF TablesOK
<1> QED
  BY <1>1, <1>3, <1>4, <1>5

(* Between predict and update, index and prediction stay those of the      *)
(* history that predict saw.                                               *)
LEMMA RefInvStep == PredictorsAssumption /\ RefInv /\ RefNext => RefInv'
<1> SUFFICES ASSUME PredictorsAssumption, RefInv, RefNext PROVE RefInv'
  OBVIOUS
<1>1. ASSUME NEW a \in Addr, Predict(a) PROVE RefInv'
  <2>1. /\ phase' = "predicted" /\ addr' = a /\ idx' = Index(a) /\ seen' = bhr
        /\ bp' = (Counter(a, idx') > 1) /\ bhr' = bhr /\ impl' = impl /\ taken' = taken
    BY <1>1 DEF Predict
  <2>2. idx' = IndexAt(a, seen')
    BY <2>1, IndexNow
  <2>3. IndexAt(a, seen') = IndexAt(addr, seen)'
    BY <2>1 DEF IndexAt
  <2>4. CASE tables' = tables
    <3>1. Counter(a, idx') = Counter(addr, idx)' /\ TablesOK'
      BY <2>1, <2>4 DEF Counter, Bank, RefInv, TablesOK
    <3> QED
      BY <2>1, <2>2, <2>3, <3>1 DEF RefInv
  <2>5. CASE impl = "uberhistory" /\ tables' = [tables EXCEPT !.pht = Assign(@, idx', 0)]
             /\ idx' \notin DOMAIN tables.pht
    <3>1. tables' = [pht |-> Assign(tables.pht, idx', 0)]
      BY <2>5 DEF RefInv, TablesOK
    <3>2. Lookup(tables'.pht, idx') = 0 /\ Lookup(tables.pht, idx') = 0
      BY <2>5, <3>1, AssignOne DEF Lookup
    <3>3. Counter(a, idx') = Counter(addr, idx)' /\ TablesOK'
      BY <2>1, <2>5, <3>1, <3>2 DEF Counter, TablesOK
    <3> QED
      BY <2>1, <2>2, <2>3, <3>3 DEF RefInv
  <2> QED
    BY <1>1, <2>4, <2>5 DEF Predict
<1>2. ASSUME NEW t \in BOOLEAN, Resolve(t) PROVE RefInv'
  <2>1. /\ phase = "predicted" /\ phase' = "resolved" /\ taken' = t /\ bhr' = ShiftOf(bhr, t)
        /\ UNCHANGED <<impl, tables, addr, idx, bp, seen>>
    BY <1>2 DEF Resolve, ShiftedBhr, ShiftOf
  <2>2. bhr' \in SUBSET Mask(StoredBits)
    BY <2>1, ShiftKeeps DEF RefInv
  <2>3. Counter(addr, idx)' = Counter(addr, idx) /\ IndexAt(addr, seen)' = IndexAt(addr, seen)
        /\ (TablesOK' <=> TablesOK)
    BY <2>1 DEF Counter, Bank, IndexAt, TablesOK
  <2>4. ShiftOf(seen, taken)' = ShiftOf(seen, t)
    BY <2>1 DEF ShiftOf
  <2> QED
    BY <2>1, <2>2, <2>3, <2>4 DEF RefInv
<1>3. CASE Update
  <2>1. /\ phase' = "idle" /\ bp' = FALSE /\ taken' = FALSE /\ seen' = {} /\ bhr' = bhr /\ impl' = impl
    BY <1>3 DEF Update
  <2>2. TablesOK'
    BY <1>3, TablesTyped
  <2> QED
    BY <2>1, <2>2 DEF RefInv
<1>4. CASE Turn
  <2>1. /\ phase = "idle" /\ bhr' = ShiftOf(bhr, TRUE)
        /\ UNCHANGED <<impl, tables, phase, addr, idx, bp, taken, seen>>
    BY <1>4 DEF Turn, ShiftedBhr, ShiftOf
  <2>2. bhr' \in SUBSET Mask(StoredBits)
    BY <2>1, ShiftKeeps DEF RefInv
  <2>3. TablesOK'
    BY <2>1 DEF TablesOK, RefInv
  <2> QED
    BY <2>1, <2>2, <2>3 DEF RefInv
<1>5. CASE Quiet
  <2>1. UNCHANGED <<impl, tables, phase, addr, idx, bp, taken, seen, bhr>>
    BY <1>5 DEF Quiet
  <2> QED
    BY <2>1 DEF RefInv, TablesOK, Counter, Bank, IndexAt, ShiftOf
<1> QED
  BY <1>1, <1>2, <1>3, <1>4, <1>5 DEF RefNext

-----------------------------------------------------------------------------
(* The abstract predictor's operators, at a resolved branch.               *)
Hist == IF phase = "resolved" THEN seen ELSE bhr

(* The shift on words is the shift of the outcomes.                        *)
LEMMA HistoryMaps ==
    ASSUME PredictorsAssumption, NEW h \in SUBSET Mask(StoredBits), NEW t \in BOOLEAN
    PROVE  ShiftOf(h, t) = {p \in 1 .. StoredBits - 1 : p - 1 \in h} \cup (IF t THEN {0} ELSE {})
<1> DEFINE n == StoredBits
<1>1. n \in Nat /\ h \in SUBSET (0 .. n - 1)
  BY Widths DEF Mask
<1> HIDE DEF n
<1>2. {b + 1 : b \in h} \cap (0 .. n - 1) = {p \in 1 .. n - 1 : p - 1 \in h}
  <2>1. ASSUME NEW p \in {b + 1 : b \in h}, p \in 0 .. n - 1 PROVE p \in 1 .. n - 1 /\ p - 1 \in h
    <3>1. PICK b \in h : p = b + 1
      BY <2>1
    <3>2. b \in Nat /\ p - 1 = b
      BY <1>1, <3>1
    <3> QED
      BY <1>1, <2>1, <3>1, <3>2
  <2>2. ASSUME NEW p \in 1 .. n - 1, p - 1 \in h PROVE p \in {b + 1 : b \in h} /\ p \in 0 .. n - 1
    <3>1. (p - 1) + 1 = p
      BY <1>1
    <3> QED
      BY <1>1, <2>2, <3>1
  <2> QED
    BY <2>1, <2>2
<1>3. ShiftOf(h, t) = ({b + 1 : b \in h} \cap (0 .. n - 1)) \cup (IF t THEN {0} ELSE {})
  BY DEF ShiftOf, Up, Mask, n
<1>4. ShiftOf(h, t) = {p \in 1 .. n - 1 : p - 1 \in h} \cup (IF t THEN {0} ELSE {})
  BY <1>2, <1>3
<1> QED
  BY <1>4 DEF n

(* The abstract history takes the same outcome.                            *)
LEMMA ShiftedMaps ==
    ASSUME PredictorsAssumption, RefInv, NEW t \in BOOLEAN
    PROVE  PS!Shifted(t) = ShiftOf(Hist, t)
<1>1. Hist \in SUBSET Mask(StoredBits)
  BY DEF RefInv, Hist
<1>2. PS!Stored = StoredBits
  BY DEF PS!Stored, StoredBits
<1>3. PS!Shifted(t) = {p \in 1 .. PS!Stored - 1 : p - 1 \in Hist} \cup (IF t THEN {0} ELSE {})
  BY DEF PS!Shifted, Hist
<1> QED
  BY <1>1, <1>2, <1>3, HistoryMaps

(* A resolved branch trains the counter that predicted it, and the choice. *)
Trains(a, out) ==
    /\ PS!Predicted(a) = bp
    /\ CounterOf' = [c \in PS!Contexts |->
                       IF c \in PS!Trained(a, out) THEN PS!Saturate(CounterOf[c], out) ELSE CounterOf[c]]

(* gshare trains the one counter that it read.                             *)
LEMMA GshareMaps ==
    ASSUME PredictorsAssumption, RefInv, Update, impl = "gshare",
           NEW a \in Addr, a = addr, NEW out \in BOOLEAN, out = taken
    PROVE  Trains(a, out)
<1> DEFINE w == GshareWord(a, seen)
<1>1. /\ seen \in SUBSET Nat /\ phase = "resolved" /\ impl' = impl
      /\ bp = (Counter(a, idx) > 1) /\ idx = Number(w)
  BY Widths DEF RefInv, Update, Mask, IndexAt
<1>2. PS!Contexts = SUBSET Mask(LgPht)
  BY DEF PS!Contexts, Mask
<1>3. PS!Provider(a) = w
  <2>1. PS!FoldedIndex(a, seen) = w
    BY <1>1, FoldedWord
  <2> QED
    BY <1>1, <2>1 DEF PS!Provider
<1>4. PS!Trained(a, out) = {w}
  BY <1>3 DEF PS!Trained
<1>5. w \in SUBSET Mask(LgPht)
  BY WordsInRange
<1>6. /\ CounterOf = [c \in SUBSET Mask(LgPht) |-> GetValue(tables.pht, Number(c))]
      /\ CounterOf' = [c \in SUBSET Mask(LgPht) |-> GetValue(tables'.pht, Number(c))]
  BY <1>1 DEF CounterOf
<1>7. \A x \in SUBSET Mask(LgPht) :
         GetValue(tables'.pht, Number(x)) =
            IF x = w THEN Saturate(GetValue(tables.pht, Number(x)), out)
            ELSE GetValue(tables.pht, Number(x))
  BY GshareTrains
<1> HIDE DEF w
<1>8. PS!Predicted(a) = bp
  BY <1>1, <1>3, <1>5, <1>6 DEF PS!Predicted, Counter
<1>9. CounterOf' = [c \in SUBSET Mask(LgPht) |->
                      IF c \in {w} THEN Saturate(CounterOf[c], out) ELSE CounterOf[c]]
  BY <1>6, <1>7
<1> QED
  BY <1>2, <1>4, <1>8, <1>9, SameSaturate DEF Trains

(* gtagged trains the one counter of its address and half a word of        *)
(* history.                                                                *)
LEMMA GtaggedMaps ==
    ASSUME PredictorsAssumption, RefInv, Update, impl = "gtagged",
           NEW a \in Addr, a = addr, NEW out \in BOOLEAN, out = taken
    PROVE  Trains(a, out)
<1> DEFINE half == WordBits \div 2
           new == PS!Newest(seen, half)
           C == Addr \X SUBSET Mask(half)
<1>1. /\ seen \in SUBSET Nat /\ phase = "resolved" /\ impl' = impl
      /\ bp = (Counter(a, idx) > 1) /\ idx = GtaggedIndex(a, seen \cap Mask(WordBits))
  BY Widths DEF RefInv, Update, Mask, IndexAt
<1>2. PS!Contexts = C
  BY DEF PS!Contexts, Mask
<1>3. PS!Provider(a) = <<a, new>>
  BY <1>1 DEF PS!Provider
<1>4. PS!Trained(a, out) = {<<a, new>>}
  BY <1>3 DEF PS!Trained
<1>5. new = seen \cap Mask(half) /\ new \in SUBSET Mask(half)
      /\ (seen \cap Mask(WordBits)) \cap Mask(half) = new
  <2>1. PICK hb \in Nat : hb = half /\ hb <= WordBits
    BY Widths
  <2>2. \A p \in Nat : (p \in Mask(hb) <=> p < hb) /\ (p \in Mask(WordBits) <=> p < WordBits)
    BY Widths DEF Mask
  <2>3. \A p \in Nat : p < hb => p < WordBits
    BY <2>1, Widths
  <2> QED
    BY <1>1, <2>1, <2>2, <2>3 DEF PS!Newest
<1>6. idx = GtaggedIndex(a, new)
  <2>1. new \cap Mask(half) = new
    BY <1>5
  <2> QED
    BY <1>1, <1>5, <2>1 DEF GtaggedIndex
<1>7. /\ CounterOf = [c \in C |-> Lookup(tables.pht, GtaggedIndex(c[1], c[2]))]
      /\ CounterOf' = [c \in C |-> Lookup(tables'.pht, GtaggedIndex(c[1], c[2]))]
  BY <1>1 DEF CounterOf
<1>8. \A k : Lookup(tables'.pht, k) =
                IF k = idx THEN Saturate(Lookup(tables.pht, k), out) ELSE Lookup(tables.pht, k)
  <2>1. idx = IndexAt(addr, seen)
    BY <1>1 DEF RefInv
  <2> QED
    BY <2>1, MapTrains
<1>9. ASSUME NEW c \in C PROVE GtaggedIndex(c[1], c[2]) = idx <=> c = <<a, new>>
  <2>1. PICK x \in Addr, h \in SUBSET Mask(half) : c = <<x, h>>
    OBVIOUS
  <2>2. GtaggedIndex(x, h) = GtaggedIndex(a, new) => x = a /\ h = new
    BY <1>5, GtaggedKey
  <2> QED
    BY <1>6, <2>1, <2>2
<1>10. <<a, new>> \in C
  BY <1>5
<1> HIDE DEF C, new
<1>11. PS!Predicted(a) = bp
  BY <1>1, <1>3, <1>6, <1>7, <1>10 DEF PS!Predicted, Counter
<1>12. CounterOf' = [c \in C |-> IF c \in {<<a, new>>} THEN Saturate(CounterOf[c], out) ELSE CounterOf[c]]
  BY <1>7, <1>8, <1>9
<1> QED
  BY <1>2, <1>4, <1>11, <1>12, SameSaturate DEF Trains

(* uberhistory trains the one counter of its address and its history.      *)
LEMMA UberMaps ==
    ASSUME PredictorsAssumption, RefInv, Update, impl = "uberhistory",
           NEW a \in Addr, a = addr, NEW out \in BOOLEAN, out = taken
    PROVE  Trains(a, out)
<1> DEFINE new == PS!Newest(seen, BhrLen)
           C == Addr \X SUBSET Mask(BhrLen)
<1>1. /\ seen \in SUBSET Nat /\ phase = "resolved" /\ impl' = impl
      /\ bp = (Counter(a, idx) > 1) /\ idx = UberIndex(a, seen)
  BY Widths DEF RefInv, Update, Mask, IndexAt
<1>2. PS!Contexts = C
  BY DEF PS!Contexts, Mask
<1>3. PS!Provider(a) = <<a, new>>
  BY <1>1 DEF PS!Provider
<1>4. PS!Trained(a, out) = {<<a, new>>}
  BY <1>3 DEF PS!Trained
<1>5. new = seen \cap Mask(BhrLen) /\ new \in SUBSET Mask(BhrLen)
  <2>1. \A p \in Nat : p \in Mask(BhrLen) <=> p < BhrLen
    BY Widths DEF Mask
  <2> QED
    BY <1>1, <2>1 DEF PS!Newest
<1>6. idx = UberIndex(a, new)
  <2>1. \A k \in 1 .. BhrLen : BhrLen - k \in Mask(BhrLen)
    BY Widths DEF Mask
  <2>2. AsString(seen) = AsString(new)
    BY <1>5, <2>1 DEF AsString
  <2> QED
    BY <1>1, <2>2 DEF UberIndex
<1>7. /\ CounterOf = [c \in C |-> Lookup(tables.pht, UberIndex(c[1], c[2]))]
      /\ CounterOf' = [c \in C |-> Lookup(tables'.pht, UberIndex(c[1], c[2]))]
  BY <1>1 DEF CounterOf
<1>8. \A k : Lookup(tables'.pht, k) =
                IF k = idx THEN Saturate(Lookup(tables.pht, k), out) ELSE Lookup(tables.pht, k)
  <2>1. idx = IndexAt(addr, seen)
    BY <1>1 DEF RefInv
  <2> QED
    BY <2>1, MapTrains
<1>9. ASSUME NEW c \in C PROVE UberIndex(c[1], c[2]) = idx <=> c = <<a, new>>
  <2>1. PICK x \in Addr, h \in SUBSET Mask(BhrLen) : c = <<x, h>>
    OBVIOUS
  <2>2. UberIndex(x, h) = UberIndex(a, new) => x = a /\ h = new
    BY <1>5, UberKey
  <2> QED
    BY <1>6, <2>1, <2>2
<1>10. <<a, new>> \in C
  BY <1>5
<1> HIDE DEF C, new
<1>11. PS!Predicted(a) = bp
  BY <1>1, <1>3, <1>6, <1>7, <1>10 DEF PS!Predicted, Counter
<1>12. CounterOf' = [c \in C |-> IF c \in {<<a, new>>} THEN Saturate(CounterOf[c], out) ELSE CounterOf[c]]
  BY <1>7, <1>8, <1>9
<1> QED
  BY <1>2, <1>4, <1>11, <1>12, SameSaturate DEF Trains

(* bimodal trains the counters of bank and choice that the abstract one    *)
(* trains.                                                                 *)
LEMMA BimodalMaps ==
    ASSUME PredictorsAssumption, RefInv, Update, impl = "bimodal",
           NEW a \in Addr, a = addr, NEW out \in BOOLEAN, out = taken
    PROVE  Trains(a, out)
<1> DEFINE w == BimodalWord(a, seen)
           ch == ChoiceWord(a)
           C == ({"choice"} \X SUBSET Mask(LgCPht)) \cup ({"nt", "t"} \X SUBSET Mask(LgPht))
           Value(c) == GetValue(CASE c[1] = "choice" -> tables.c_pht [] c[1] = "nt" -> tables.nt_pht
                                  [] c[1] = "t" -> tables.t_pht, Number(c[2]))
           ValueN(c) == GetValue(CASE c[1] = "choice" -> tables'.c_pht [] c[1] = "nt" -> tables'.nt_pht
                                   [] c[1] = "t" -> tables'.t_pht, Number(c[2]))
<1>1. seen \in SUBSET Nat /\ phase = "resolved" /\ impl' = impl
  BY Widths DEF RefInv, Update, Mask
<1>2. PS!Contexts = C
  BY DEF PS!Contexts, Mask
<1>3. CounterOf = [c \in C |-> Value(c)] /\ CounterOf' = [c \in C |-> ValueN(c)]
  BY <1>1 DEF CounterOf
<1>4. w \in SUBSET Mask(LgPht) /\ ch \in SUBSET Mask(LgCPht)
  BY WordsInRange
<1>5. PS!Choice(a) = <<"choice", ch>> /\ PS!BankIndex(a, seen) = w
  BY <1>1, BankWord
<1> HIDE DEF w, ch
<1>6. <<"choice", ch>> \in C /\ <<"nt", w>> \in C /\ <<"t", w>> \in C
  BY <1>4
<1>7. /\ Value(<<"choice", ch>>) = GetValue(tables.c_pht, Number(ch))
      /\ Value(<<"nt", w>>) = GetValue(tables.nt_pht, Number(w))
      /\ Value(<<"t", w>>) = GetValue(tables.t_pht, Number(w))
  OBVIOUS
<1> HIDE DEF Value, ValueN, C
<1>8. (CounterOf[PS!Choice(a)] < 2) <=> BankOf(a) = "nt"
  BY <1>3, <1>5, <1>6, <1>7 DEF BankOf, ch
<1>9. PS!Provider(a) = <<BankOf(a), w>>
  <2>1. PS!Provider(a) = <<IF CounterOf[PS!Choice(a)] < 2 THEN "nt" ELSE "t", PS!BankIndex(a, seen)>>
    BY <1>1 DEF PS!Provider
  <2>2. BankOf(a) = IF CounterOf[PS!Choice(a)] < 2 THEN "nt" ELSE "t"
    BY <1>8 DEF BankOf
  <2> QED
    BY <1>5, <2>1, <2>2
<1>10. BankOf(a) \in {"nt", "t"}
  BY DEF BankOf
<1>11. PS!Predicted(a) = bp
  <2>1. bp = (GetValue(IF BankOf(a) = "nt" THEN tables.nt_pht ELSE tables.t_pht, Number(w)) > 1)
    BY BimodalTrains DEF w
  <2>2. CounterOf[<<BankOf(a), w>>] = GetValue(IF BankOf(a) = "nt" THEN tables.nt_pht ELSE tables.t_pht, Number(w))
    BY <1>3, <1>6, <1>7, <1>10
  <2> QED
    BY <1>9, <2>1, <2>2 DEF PS!Predicted
<1>12. PS!Trained(a, out) = {<<BankOf(a), w>>} \cup (IF LearnsChoice(a, out) THEN {<<"choice", ch>>} ELSE {})
  <2>1. PS!Trained(a, out) =
           {PS!Provider(a)} \cup
           IF ~((CounterOf[PS!Choice(a)] < 2) = out /\ PS!Predicted(a) = out) THEN {PS!Choice(a)} ELSE {}
    BY DEF PS!Trained
  <2>2. LearnsChoice(a, out) <=> ~((CounterOf[PS!Choice(a)] < 2) = out /\ PS!Predicted(a) = out)
    BY <1>8, <1>11 DEF LearnsChoice
  <2> QED
    BY <1>5, <1>9, <2>1, <2>2
<1>13. ASSUME NEW c \in C
       PROVE  ValueN(c) = IF c \in PS!Trained(a, out) THEN Saturate(Value(c), out) ELSE Value(c)
  <2>1. CASE c \in {"choice"} \X SUBSET Mask(LgCPht)
    <3>1. PICK x \in SUBSET Mask(LgCPht) : c = <<"choice", x>>
      BY <2>1
    <3>2. c \in PS!Trained(a, out) <=> x = ch /\ LearnsChoice(a, out)
      BY <1>10, <1>12, <3>1
    <3>3. Value(c) = GetValue(tables.c_pht, Number(x)) /\ ValueN(c) = GetValue(tables'.c_pht, Number(x))
      BY <3>1 DEF Value, ValueN
    <3>4. GetValue(tables'.c_pht, Number(x)) =
             IF x = ch /\ LearnsChoice(a, out) THEN Saturate(GetValue(tables.c_pht, Number(x)), out)
             ELSE GetValue(tables.c_pht, Number(x))
      BY BimodalTrains DEF ch
    <3> QED
      BY <3>2, <3>3, <3>4
  <2>2. CASE c \in {"nt", "t"} \X SUBSET Mask(LgPht)
    <3>1. PICK bank \in {"nt", "t"}, x \in SUBSET Mask(LgPht) : c = <<bank, x>>
      BY <2>2
    <3>2. c \in PS!Trained(a, out) <=> x = w /\ BankOf(a) = bank
      BY <1>10, <1>12, <3>1
    <3>3. /\ GetValue(tables'.nt_pht, Number(x)) =
                IF x = w /\ BankOf(a) = "nt" THEN Saturate(GetValue(tables.nt_pht, Number(x)), out)
                ELSE GetValue(tables.nt_pht, Number(x))
          /\ GetValue(tables'.t_pht, Number(x)) =
                IF x = w /\ BankOf(a) = "t" THEN Saturate(GetValue(tables.t_pht, Number(x)), out)
                ELSE GetValue(tables.t_pht, Number(x))
      BY BimodalTrains DEF w
    <3>4. CASE bank = "nt"
      <4>1. Value(c) = GetValue(tables.nt_pht, Number(x)) /\ ValueN(c) = GetValue(tables'.nt_pht, Number(x))
        BY <3>1, <3>4 DEF Value, ValueN
      <4> QED
        BY <3>2, <3>3, <3>4, <4>1
    <3>5. CASE bank = "t"
      <4>1. Value(c) = GetValue(tables.t_pht, Number(x)) /\ ValueN(c) = GetValue(tables'.t_pht, Number(x))
        BY <3>1, <3>5 DEF Value, ValueN
      <4> QED
        BY <3>2, <3>3, <3>5, <4>1
    <3> QED
      BY <3>4, <3>5
  <2> QED
    BY <2>1, <2>2 DEF C
<1>14. CounterOf' = [c \in C |-> IF c \in PS!Trained(a, out) THEN Saturate(CounterOf[c], out) ELSE CounterOf[c]]
  BY <1>3, <1>13
<1> QED
  BY <1>2, <1>11, <1>14, SameSaturate DEF Trains

-----------------------------------------------------------------------------
(* As created, each class is the abstract predictor as created.            *)
LEMMA RefStart == PredictorsAssumption /\ PdInit => PS!PSInit
<1> SUFFICES ASSUME PredictorsAssumption, PdInit PROVE PS!PSInit
  OBVIOUS
<1>1. /\ impl \in {"gshare", "gtagged", "uberhistory", "bimodal"}
      /\ Hist = {} /\ n_branches = 0 /\ n_mispredicts = 0 /\ tables = NewTables(impl)
  BY DEF PdInit, PredictorsAssumption, Hist
<1>2. /\ \A x \in SUBSET Mask(LgPht) : GetValue(NewCounters(2^LgPht), Number(x)) = 1
      /\ \A x \in SUBSET Mask(LgCPht) : GetValue(NewCounters(2^LgCPht), Number(x)) = 1
  <2>1. /\ \A x \in SUBSET Mask(LgPht) : Number(x) \in 0 .. 2^LgPht - 1
        /\ \A x \in SUBSET Mask(LgCPht) : Number(x) \in 0 .. 2^LgCPht - 1
    BY NumberBound, Widths
  <2>2. /\ \A j \in 0 .. 2^LgPht - 1 : GetValue(NewCounters(2^LgPht), j) = 1
        /\ \A j \in 0 .. 2^LgCPht - 1 : GetValue(NewCounters(2^LgCPht), j) = 1
    BY NewCountersCorrect, Widths
  <2> QED
    BY <2>1, <2>2
<1>3. \A k : Lookup(<< >>, k) = 0
  BY DEF Lookup
<1>4. CounterOf = [c \in PS!Contexts |-> IF impl \in {"gtagged", "uberhistory"} THEN 0 ELSE 1]
  <2>1. CASE impl = "gshare"
    <3>1. CounterOf = [c \in SUBSET Mask(LgPht) |-> 1]
      BY <1>1, <1>2, <2>1 DEF CounterOf, NewTables
    <3> QED
      BY <2>1, <3>1 DEF PS!Contexts, Mask
  <2>2. CASE impl = "gtagged"
    <3>1. CounterOf = [c \in Addr \X SUBSET Mask(WordBits \div 2) |-> 0]
      BY <1>1, <1>3, <2>2 DEF CounterOf, NewTables
    <3> QED
      BY <2>2, <3>1 DEF PS!Contexts, Mask
  <2>3. CASE impl = "uberhistory"
    <3>1. CounterOf = [c \in Addr \X SUBSET Mask(BhrLen) |-> 0]
      BY <1>1, <1>3, <2>3 DEF CounterOf, NewTables
    <3> QED
      BY <2>3, <3>1 DEF PS!Contexts, Mask
  <2>4. CASE impl = "bimodal"
    <3> DEFINE A == {"choice"} \X SUBSET Mask(LgCPht)
               B == {"nt", "t"} \X SUBSET Mask(LgPht)
               t(c) == CASE c[1] = "choice" -> tables.c_pht [] c[1] = "nt" -> tables.nt_pht
                         [] c[1] = "t" -> tables.t_pht
    <3>1. tables.c_pht = NewCounters(2^LgCPht) /\ tables.nt_pht = NewCounters(2^LgPht)
          /\ tables.t_pht = NewCounters(2^LgPht)
      BY <1>1, <2>4 DEF NewTables
    <3>2. ASSUME NEW c \in A PROVE GetValue(t(c), Number(c[2])) = 1
      BY <1>2, <3>1
    <3>3. ASSUME NEW c \in B PROVE GetValue(t(c), Number(c[2])) = 1
      BY <1>2, <3>1
    <3>4. CounterOf = [c \in A \cup B |-> GetValue(t(c), Number(c[2]))]
      BY <2>4 DEF CounterOf
    <3>5. PS!Contexts = A \cup B
      BY <2>4 DEF PS!Contexts, Mask
    <3> HIDE DEF A, B, t
    <3> QED
      BY <2>4, <3>2, <3>3, <3>4, <3>5
  <2> QED
    BY <1>1, <2>1, <2>2, <2>3, <2>4
<1> QED
  BY <1>1, <1>4 DEF PS!PSInit, Hist

(* update is the abstract predictor's step for the branch, with the        *)
(* history that predict saw.                                               *)
LEMMA UpdateMaps ==
    ASSUME PredictorsAssumption, RefInv, Update, NEW a \in Addr, a = addr, NEW out \in BOOLEAN, out = taken
    PROVE  PS!PSBranch(a, out)
<1>1. /\ phase = "resolved" /\ phase' = "idle" /\ bhr' = bhr /\ impl' = impl
      /\ n_branches' = n_branches + 1
      /\ n_mispredicts' = n_mispredicts + (IF bp # out THEN 1 ELSE 0)
  BY DEF Update, Mispredicted
<1>2. Trains(a, out)
  BY GshareMaps, GtaggedMaps, UberMaps, BimodalMaps DEF RefInv
<1>3. Hist' = PS!Shifted(out)
  <2>1. Hist = seen /\ Hist' = bhr' /\ bhr = ShiftOf(seen, out)
    BY <1>1 DEF Hist, RefInv
  <2> QED
    BY <1>1, <2>1, ShiftedMaps
<1>4. n_mispredicts' = n_mispredicts + (IF PS!Predicted(a) # out THEN 1 ELSE 0)
  BY <1>1, <1>2 DEF Trains
<1> QED
  BY <1>1, <1>2, <1>3, <1>4 DEF PS!PSBranch, Trains, Hist

(* predict and the shift are stutters, a jump shifts, update is the step.  *)
LEMMA RefStep == PredictorsAssumption /\ RefInv /\ RefNext => [PS!PSNext]_(PS!psVars)
<1> SUFFICES ASSUME PredictorsAssumption, RefInv, RefNext PROVE [PS!PSNext]_(PS!psVars)
  OBVIOUS
<1> DEFINE Rest == UNCHANGED <<impl, n_branches, n_mispredicts>> /\ CounterOf' = CounterOf
<1>0. Hist' = Hist /\ Rest => UNCHANGED PS!psVars
  BY DEF PS!psVars, Hist
<1>1. ASSUME NEW a \in Addr, Predict(a) PROVE Hist' = Hist /\ Rest
  <2>1. phase = "idle" /\ phase' = "predicted" /\ bhr' = bhr /\ UNCHANGED <<impl, n_branches, n_mispredicts>>
    BY <1>1 DEF Predict
  <2>2. CASE tables' = tables
    BY <2>1, <2>2 DEF Hist, CounterOf
  <2>3. CASE impl = "uberhistory" /\ tables' = [tables EXCEPT !.pht = Assign(@, idx', 0)]
             /\ idx' \notin DOMAIN tables.pht
    <3>1. tables' = [pht |-> Assign(tables.pht, idx', 0)]
      BY <2>3 DEF RefInv, TablesOK
    <3>2. \A k : Lookup(tables'.pht, k) = Lookup(tables.pht, k)
      BY <2>3, <3>1, AssignOne DEF Lookup
    <3> QED
      BY <2>1, <2>3, <3>2 DEF Hist, CounterOf
  <2> QED
    BY <1>1, <2>2, <2>3 DEF Predict
<1>2. ASSUME NEW t \in BOOLEAN, Resolve(t) PROVE Hist' = Hist /\ Rest
  BY <1>2 DEF Resolve, RefInv, Hist, CounterOf
<1>3. CASE Update
  <2>1. addr \in Addr /\ taken \in BOOLEAN
    BY <1>3 DEF Update, RefInv
  <2>2. PICK a \in Addr, out \in BOOLEAN : a = addr /\ out = taken
    BY <2>1
  <2>3. PS!PSBranch(a, out)
    BY <1>3, <2>2, UpdateMaps
  <2> QED
    BY <2>3 DEF PS!PSNext
<1>4. CASE Turn
  <2>1. /\ phase = "idle" /\ phase' = "idle" /\ bhr' = ShiftOf(bhr, TRUE)
        /\ UNCHANGED <<impl, tables, n_branches, n_mispredicts>>
    BY <1>4 DEF Turn, ShiftedBhr, ShiftOf
  <2>2. Rest
    BY <2>1 DEF CounterOf
  <2>3. Hist' = PS!Shifted(TRUE)
    BY <2>1, ShiftedMaps DEF Hist
  <2> QED
    BY <2>2, <2>3 DEF PS!PSJump, PS!PSNext, Hist
<1>5. ASSUME Quiet PROVE Hist' = Hist /\ Rest
  BY <1>5 DEF Quiet, Hist, CounterOf
<1> HIDE DEF Rest
<1> QED
  BY <1>0, <1>1, <1>2, <1>3, <1>4, <1>5 DEF RefNext

(* Each predictor of branch_predictor.cc but tage is the abstract one it   *)
(* promises to be, for every size of tables, length of history, width of a *)
(* word and address: predict, the shift of the history and update make one *)
(* step of it; the packing, the missing entries of the maps, the string    *)
(* keys and the folded history do not show.                                *)
THEOREM PredictorRefinement ==
    ASSUME PredictorsAssumption
    PROVE  PdSpec => ImplementsPredictor
<1>1. PdInit => RefInv /\ PS!PSInit
  BY RefInvStart, RefStart
<1>2. RefInv /\ [PdNext]_pdVars => RefInv'
  BY RefInvStep, NextIsRefNext
<1>3. RefInv /\ [PdNext]_pdVars => [PS!PSNext]_(PS!psVars)
  BY RefStep, NextIsRefNext
<1> QED
  BY <1>1, <1>2, <1>3, PTL DEF PdSpec, ImplementsPredictor, PS!PSSpec
=============================================================================
