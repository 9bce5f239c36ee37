--------------------------- MODULE PredictorLemmas ---------------------------
(***************************************************************************)
(* What every predictor is built from, for every width: words, as numbers  *)
(* and as the sets of their one bits, two-bit counters packed in bytes, and*)
(* sums over finite sets, of which Number is one.  A sum is taken in the   *)
(* order of CHOOSE; that it exists, that any term may come first and that  *)
(* a word's number is its own is proved by induction over a set of sizes.  *)
(***************************************************************************)
EXTENDS MachineWords, TwobitCounterArray, FiniteSetTheorems, TLAPS

(* Induction, over a set instead of a predicate.                           *)
LEMMA SetInduction ==
    ASSUME NEW T \in SUBSET Nat, 0 \in T, \A n \in T : n + 1 \in T
    PROVE  T = Nat
  <1> DEFINE out == Nat \ T
  <1> SUFFICES ASSUME out # {} PROVE FALSE
    OBVIOUS
  <1>1. PICK m \in out : \A n \in out : ~(<<n, m>> \in OpToRel(<, Nat))
    BY WFMin, NatLessThanWellFounded
  <1>2. m \in Nat /\ m # 0 /\ m - 1 \in Nat /\ m - 1 < m /\ (m - 1) + 1 = m
    OBVIOUS
  <1>3. <<m - 1, m>> \in OpToRel(<, Nat)
    BY <1>2 DEF OpToRel
  <1>4. m - 1 \in T
    BY <1>1, <1>2, <1>3
  <1> QED
    BY <1>2, <1>4

(* A set of numbers has a least one.                                       *)
LEMMA LeastExists ==
    ASSUME NEW S \in SUBSET Nat, S # {}
    PROVE  \E t \in S : \A u \in S : t <= u
<1>1. \E t \in S : \A u \in S : ~(<<u, t>> \in OpToRel(<, Nat))
  BY WFMin, NatLessThanWellFounded
<1>2. OpToRel(<, Nat) = {ss \in Nat \X Nat : ss[1] < ss[2]}
  BY DEF OpToRel
<1>3. ASSUME NEW t \in S, NEW u \in S, ~(<<u, t>> \in OpToRel(<, Nat))
      PROVE  t <= u
  <2>1. t \in Nat /\ u \in Nat /\ <<u, t>> \in Nat \X Nat
    OBVIOUS
  <2>2. ~(u < t)
    BY <1>2, <1>3, <2>1
  <2> QED
    BY <2>1, <2>2
<1> QED
  BY <1>1, <1>3

(* n steps F from x, within T.                                             *)
StepsWithin(F, n, T) == \A k \in 1 .. n : \A y \in T : F[k][y] \in T
Iterated(f, F, n, T, x) ==
    f \in [0 .. n -> T] /\ f[0] = x /\ \A k \in 1 .. n : f[k] = F[k][f[k - 1]]

(* A function may be defined step by step.                                 *)
LEMMA Iterates ==
    ASSUME NEW n \in Nat, NEW T, NEW x \in T, NEW F, StepsWithin(F, n, T)
    PROVE  \E f : Iterated(f, F, n, T, x)
<1> USE DEF StepsWithin
<1> DEFINE Upto(f, m) == f[0] = x /\ \A k \in 1 .. m : f[k] = F[k][f[k - 1]]
           M == {m \in Nat : m <= n => \E f \in [0 .. m -> T] : Upto(f, m)}
<1>1. 0 \in M
  <2>1. [k \in 0 .. 0 |-> x] \in [0 .. 0 -> T] /\ Upto([k \in 0 .. 0 |-> x], 0)
    OBVIOUS
  <2> QED
    BY <2>1
<1>2. ASSUME NEW m \in M PROVE m + 1 \in M
  <2>1. m \in Nat
    OBVIOUS
  <2> SUFFICES ASSUME m + 1 <= n PROVE \E f \in [0 .. m + 1 -> T] : Upto(f, m + 1)
    BY <2>1
  <2>2. PICK f \in [0 .. m -> T] : Upto(f, m)
    BY <2>1
  <2> DEFINE g == [k \in 0 .. m + 1 |-> IF k = m + 1 THEN F[m + 1][f[m]] ELSE f[k]]
  <2>3. m + 1 \in 1 .. n /\ f[m] \in T
    BY <2>1, <2>2
  <2>4. F[m + 1][f[m]] \in T
    BY <2>3
  <2>5. g \in [0 .. m + 1 -> T]
    BY <2>1, <2>2, <2>4
  <2>6. g[0] = x
    BY <2>1, <2>2
  <2>7. ASSUME NEW k \in 1 .. m + 1 PROVE g[k] = F[k][g[k - 1]]
    <3>1. k - 1 \in 0 .. m /\ k - 1 # m + 1 /\ k \in 0 .. m + 1 /\ k - 1 \in 0 .. m + 1
      BY <2>1
    <3>2. g[k - 1] = f[k - 1]
      BY <3>1
    <3>3. CASE k = m + 1
      BY <2>1, <3>2, <3>3
    <3>4. CASE k # m + 1
      <4>1. k \in 1 .. m /\ g[k] = f[k]
        BY <2>1, <3>1, <3>4
      <4> QED
        BY <2>2, <3>2, <4>1
    <3> QED
      BY <3>3, <3>4
  <2> HIDE DEF g
  <2> QED
    BY <2>5, <2>6, <2>7
<1>3. M = Nat
  <2>1. M \in SUBSET Nat
    OBVIOUS
  <2> HIDE DEF M
  <2> QED
    BY <1>1, <1>2, <2>1, SetInduction
<1>4. n \in M
  BY <1>3
<1> QED
  BY <1>4 DEF Iterated

-----------------------------------------------------------------------------
(* Powers of two, counted as subsets.                                      *)
LEMMA Subsets ==
    ASSUME NEW n \in Nat
    PROVE  /\ IsFiniteSet(1 .. n) /\ IsFiniteSet(SUBSET (1 .. n))
           /\ Cardinality(SUBSET (1 .. n)) = 2^n
  <1>1. IsFiniteSet(1 .. n) /\ Cardinality(1 .. n) = n
    BY FS_Interval
  <1> QED
    BY <1>1, FS_SUBSET

(* A power of two is a positive number.                                    *)
LEMMA PowerPositive ==
    ASSUME NEW n \in Nat
    PROVE  2^n \in Nat /\ 2^n > 0
  <1> DEFINE c == Cardinality(SUBSET (1 .. n))
  <1>1. c \in Nat /\ c # 0
    <2>1. {} \in SUBSET (1 .. n)
      OBVIOUS
    <2> QED
      BY <2>1, Subsets, FS_CardinalityType, FS_EmptySet
  <1>2. 2^n = c
    BY Subsets
  <1> HIDE DEF c
  <1>3. 2^n \in Nat
    BY <1>1, <1>2
  <1> QED
    BY <1>1, <1>2, <1>3

(* One more bit doubles the number of words.                               *)
LEMMA PowerStep ==
    ASSUME NEW n \in Nat
    PROVE  2^(n + 1) = 2 * 2^n
  <1> DEFINE A == SUBSET (1 .. n)
             with == [T \in A |-> T \cup {n + 1}]
             B == {T \cup {n + 1} : T \in A}
  <1>1. IsFiniteSet(A) /\ Cardinality(A) = 2^n
    BY Subsets
  <1>2. with \in Surjection(A, B)
    BY DEF Surjection
  <1>3. with \in Injection(A, B)
    <2>1. ASSUME NEW T \in A PROVE (T \cup {n + 1}) \ {n + 1} = T
      <3>1. n + 1 \notin 1 .. n
        OBVIOUS
      <3> QED
        BY <3>1
    <2>2. \A T, U \in A : T \cup {n + 1} = U \cup {n + 1} => T = U
      BY <2>1
    <2>3. with \in [A -> B] /\ \A T \in A : with[T] = T \cup {n + 1}
      OBVIOUS
    <2> HIDE DEF with, A, B
    <2> QED
      BY <2>2, <2>3 DEF Injection, IsInjective
  <1> HIDE DEF with
  <1>4. IsFiniteSet(B) /\ Cardinality(B) = Cardinality(A)
    BY <1>1, <1>2, <1>3, FS_Surjection
  <1>5. A \cap B = {}
    <2>1. n + 1 \notin 1 .. n
      OBVIOUS
    <2> QED
      BY <2>1
  <1>6. SUBSET (1 .. n + 1) = A \cup B
    <2>1. ASSUME NEW T \in SUBSET (1 .. n + 1), n + 1 \in T PROVE T \in B
      <3>1. T \ {n + 1} \in A /\ (T \ {n + 1}) \cup {n + 1} = T
        BY <2>1
      <3> QED
        BY <3>1
    <2>2. ASSUME NEW T \in SUBSET (1 .. n + 1), n + 1 \notin T PROVE T \in A
      BY <2>2
    <2>3. A \subseteq SUBSET (1 .. n + 1) /\ B \subseteq SUBSET (1 .. n + 1)
      <3>1. 1 .. n \subseteq 1 .. n + 1 /\ n + 1 \in 1 .. n + 1
        OBVIOUS
      <3> QED
        BY <3>1
    <2> QED
      BY <2>1, <2>2, <2>3
  <1> HIDE DEF A, B
  <1>7. Cardinality(A \cup B) = Cardinality(A) + Cardinality(B) - Cardinality(A \cap B)
    BY <1>1, <1>4, FS_Union
  <1>8. Cardinality(A \cap B) = 0
    BY <1>5, FS_EmptySet
  <1>9. Cardinality(A \cup B) = 2^(n + 1)
    <2>1. PICK m \in Nat : m = n + 1
      OBVIOUS
    <2>2. Cardinality(SUBSET (1 .. m)) = 2^m
      BY Subsets
    <2> QED
      BY <1>6, <2>1, <2>2
  <1>10. 2^n \in Nat /\ 2^(n + 1) \in Nat
    BY PowerPositive
  <1> DEFINE p == 2^n
             q == 2^(n + 1)
  <1>11. q = p + p - 0
    BY <1>1, <1>4, <1>7, <1>8, <1>9
  <1> HIDE DEF p, q
  <1>12. q = 2 * p
    BY <1>10, <1>11 DEF p, q
  <1> QED
    BY <1>12 DEF p, q

(* There is one word without bits.                                         *)
LEMMA PowerZero == 2^0 = 1
  BY SMT

(* Powers multiply, and grow.                                              *)
LEMMA PowerAdds ==
    ASSUME NEW m \in Nat, NEW n \in Nat
    PROVE  2^(m + n) = 2^m * 2^n
  <1> DEFINE T == {k \in Nat : 2^(m + k) = 2^m * 2^k}
  <1>1. 0 \in T
    BY PowerPositive, PowerZero
  <1>2. ASSUME NEW k \in T PROVE k + 1 \in T
    <2>1. 2^(m + k) = 2^m * 2^k /\ 2^m \in Nat /\ 2^k \in Nat /\ k \in Nat /\ 2^(m + k) \in Nat
      BY PowerPositive
    <2>2. 2^((m + k) + 1) = 2 * 2^(m + k) /\ 2^(k + 1) = 2 * 2^k
      BY <2>1, PowerStep
    <2>3. (m + k) + 1 = m + (k + 1)
      BY <2>1
    <2> QED
      BY <2>1, <2>2, <2>3
  <1>3. T = Nat
    <2> HIDE DEF T
    <2>1. T \in SUBSET Nat
      BY DEF T
    <2> QED
      BY <1>1, <1>2, <2>1, SetInduction
  <1> QED
    BY <1>3

(* A longer word has no fewer values.                                      *)
LEMMA PowerGrows ==
    ASSUME NEW m \in Nat, NEW n \in Nat, m <= n
    PROVE  2^m <= 2^n
  <1>1. n - m \in Nat /\ m + (n - m) = n
    OBVIOUS
  <1>2. 2^n = 2^m * 2^(n - m)
    BY <1>1, PowerAdds
  <1>3. 2^m \in Nat /\ 2^(n - m) \in Nat /\ 2^(n - m) >= 1
    BY <1>1, PowerPositive
  <1> QED
    BY <1>2, <1>3

-----------------------------------------------------------------------------
(* A sum over a set, taken in the order of CHOOSE: the function that its   *)
(* definition chooses exists, for every finite set.                        *)
Pick(s) == CHOOSE x \in s : TRUE
Total(w, S) == MapThenSumSet(LAMBDA x : w[x], S)
IsSum(w, f, S) ==
    f = [s \in SUBSET S |-> IF s = {} THEN 0 ELSE w[Pick(s)] + f[s \ {Pick(s)}]]

(* The fold of the community modules is the recursive function that it     *)
(* chooses.                                                                *)
LEMMA TotalChosen ==
    ASSUME NEW w, NEW S
    PROVE  Total(w, S) = (CHOOSE f : IsSum(w, f, S))[S]
  BY DEF Total, MapThenSumSet, MapThenFoldSet, IsSum, Pick

(* CHOOSE picks a member.                                                  *)
LEMMA PickIn == ASSUME NEW S, S # {} PROVE Pick(S) \in S
  BY DEF Pick

Summed(w, S) ==
    /\ \E f : IsSum(w, f, S)
    /\ \A f : IsSum(w, f, S) => \A t \in SUBSET S : f[t] = Total(w, t)

(* The sum of nothing exists and is 0.                                     *)
LEMMA TotalEmpty == ASSUME NEW w PROVE Summed(w, {}) /\ Total(w, {}) = 0
  <1> DEFINE z == [s \in SUBSET {} |-> 0]
  <1>1. IsSum(w, z, {})
    <2>1. z = [s \in SUBSET {} |-> IF s = {} THEN 0 ELSE w[Pick(s)] + z[s \ {Pick(s)}]]
      OBVIOUS
    <2> QED
      BY <2>1 DEF IsSum
  <1>2. ASSUME NEW f, IsSum(w, f, {}) PROVE f[{}] = 0
    <2> DEFINE g == [s \in SUBSET {} |-> IF s = {} THEN 0 ELSE w[Pick(s)] + f[s \ {Pick(s)}]]
    <2>1. g[{}] = 0
      OBVIOUS
    <2>2. f = g
      BY <1>2 DEF IsSum
    <2> QED
      BY <2>1, <2>2
  <1>3. IsSum(w, CHOOSE f : IsSum(w, f, {}), {})
    BY <1>1
  <1>4. Total(w, {}) = 0
    BY <1>2, <1>3, TotalChosen
  <1> HIDE DEF z
  <1> QED
    BY <1>1, <1>2, <1>4 DEF Summed

(* What the value of such a function is.                                   *)
LEMMA SumValue ==
    ASSUME NEW w, NEW S, NEW f, IsSum(w, f, S), NEW t \in SUBSET S, t # {}
    PROVE  f[t] = w[Pick(t)] + f[t \ {Pick(t)}]
  <1> DEFINE g == [s \in SUBSET S |-> IF s = {} THEN 0 ELSE w[Pick(s)] + f[s \ {Pick(s)}]]
  <1>1. g[t] = w[Pick(t)] + f[t \ {Pick(t)}]
    OBVIOUS
  <1>2. f = g
    BY DEF IsSum
  <1> QED
    BY <1>1, <1>2

(* A function that sums over the subsets of a set does so over those of a  *)
(* subset.                                                                 *)
LEMMA SumRestricted ==
    ASSUME NEW w, NEW S, NEW f, IsSum(w, f, S), NEW T \in SUBSET S
    PROVE  IsSum(w, [s \in SUBSET T |-> f[s]], T)
  <1> DEFINE h == [s \in SUBSET T |-> f[s]]
  <1>1. ASSUME NEW s \in SUBSET T
        PROVE  h[s] = IF s = {} THEN 0 ELSE w[Pick(s)] + h[s \ {Pick(s)}]
    <2>1. s \in SUBSET S /\ s \ {Pick(s)} \in SUBSET T /\ h[s] = f[s]
      OBVIOUS
    <2>2. CASE s = {}
      <3>1. f[s] = IF s = {} THEN 0 ELSE w[Pick(s)] + f[s \ {Pick(s)}]
        BY <2>1, <2>2 DEF IsSum
      <3> QED
        BY <2>1, <2>2, <3>1
    <2>3. CASE s # {}
      <3>1. f[s] = w[Pick(s)] + f[s \ {Pick(s)}]
        BY <2>1, <2>3, SumValue
      <3>2. h[s \ {Pick(s)}] = f[s \ {Pick(s)}]
        BY <2>1
      <3> QED
        BY <2>1, <2>3, <3>1, <3>2
    <2> QED
      BY <2>2, <2>3
  <1>2. h = [s \in SUBSET T |-> h[s]]
    OBVIOUS
  <1> HIDE DEF h
  <1>3. h = [s \in SUBSET T |-> IF s = {} THEN 0 ELSE w[Pick(s)] + h[s \ {Pick(s)}]]
    BY <1>1, <1>2
  <1> QED
    BY <1>3 DEF IsSum, h

(* Where the sum exists, it is the picked term and the sum of the rest.    *)
LEMMA SummedStep ==
    ASSUME NEW w, NEW S, Summed(w, S), S # {}
    PROVE  Total(w, S) = w[Pick(S)] + Total(w, S \ {Pick(S)})
  <1>1. PICK f : IsSum(w, f, S)
    BY DEF Summed
  <1>2. \A t \in SUBSET S : f[t] = Total(w, t)
    BY <1>1 DEF Summed
  <1> DEFINE R == S \ {Pick(S)}
  <1>3. S \in SUBSET S /\ R \in SUBSET S
    OBVIOUS
  <1>4. f[S] = w[Pick(S)] + f[R]
    BY <1>1, <1>3, SumValue
  <1>5. f[S] = Total(w, S) /\ f[R] = Total(w, R)
    BY <1>2, <1>3
  <1> QED
    BY <1>4, <1>5

(* The sum exists over a set when it does over its proper subsets.         *)
LEMMA SumExtends ==
    ASSUME NEW w, NEW S, S # {}, \A t \in SUBSET S : t # S => Summed(w, t)
    PROVE  Summed(w, S)
  <1> DEFINE x == Pick(S)
             f == [t \in SUBSET S |-> IF t = S THEN w[x] + Total(w, S \ {x}) ELSE Total(w, t)]
  <1>1. x \in S /\ S \ {x} # S /\ S \ {x} \in SUBSET S
    BY PickIn
  <1> HIDE DEF x
  <1>2. ASSUME NEW t \in SUBSET S
        PROVE  f[t] = IF t = {} THEN 0 ELSE w[Pick(t)] + f[t \ {Pick(t)}]
    <2>1. CASE t = S
      BY <1>1, <2>1 DEF x
    <2>2. CASE t # S /\ t = {}
      BY <2>2, TotalEmpty
    <2>3. CASE t # S /\ t # {}
      <3>1. Total(w, t) = w[Pick(t)] + Total(w, t \ {Pick(t)})
        BY <2>3, SummedStep
      <3>2. Pick(t) \in t /\ t \ {Pick(t)} # S /\ t \ {Pick(t)} \in SUBSET S
        BY <2>3, PickIn
      <3>3. f[t] = Total(w, t) /\ f[t \ {Pick(t)}] = Total(w, t \ {Pick(t)})
        BY <2>3, <3>2
      <3> QED
        BY <2>3, <3>1, <3>3
    <2> QED
      BY <2>1, <2>2, <2>3
  <1>3. f = [t \in SUBSET S |-> f[t]]
    OBVIOUS
  <1> HIDE DEF f
  <1>4. f = [s \in SUBSET S |-> IF s = {} THEN 0 ELSE w[Pick(s)] + f[s \ {Pick(s)}]]
    BY <1>2, <1>3
  <1>5. IsSum(w, f, S)
    BY <1>4 DEF IsSum
  <1>6. ASSUME NEW g, IsSum(w, g, S), NEW t \in SUBSET S PROVE g[t] = f[t]
    <2>1. CASE t # S
      <3> DEFINE h == [s \in SUBSET t |-> g[s]]
      <3>1. IsSum(w, h, t)
        BY <1>6, SumRestricted
      <3>2. t \in SUBSET t /\ h[t] = g[t]
        OBVIOUS
      <3>3. h[t] = Total(w, t)
        <4> HIDE DEF h
        <4>1. Summed(w, t)
          BY <2>1
        <4> QED
          BY <4>1, <3>1, <3>2 DEF Summed
      <3>4. f[t] = Total(w, t)
        BY <2>1 DEF f
      <3> QED
        BY <3>2, <3>3, <3>4
    <2>2. CASE t = S
      <3> DEFINE R == S \ {x}
      <3>1. g[S] = w[x] + g[R] /\ f[S] = w[x] + Total(w, R)
        <4>1. S \in SUBSET S /\ S # {}
          OBVIOUS
        <4>2. g[S] = w[x] + g[R]
          BY <1>6, <4>1, SumValue DEF x
        <4>3. f[S] = w[x] + Total(w, R)
          BY <4>1 DEF f
        <4> QED
          BY <4>2, <4>3
      <3> DEFINE h == [s \in SUBSET R |-> g[s]]
      <3>2. R \in SUBSET S /\ R # S
        BY <1>1
      <3>3. IsSum(w, h, R)
        <4> HIDE DEF R
        <4> QED
          BY <1>6, <3>2, SumRestricted
      <3>4. R \in SUBSET R /\ h[R] = g[R]
        OBVIOUS
      <3>5. h[R] = Total(w, R)
        <4> HIDE DEF h, R
        <4>1. Summed(w, R)
          BY <3>2
        <4> QED
          BY <4>1, <3>3, <3>4 DEF Summed
      <3> QED
        BY <2>2, <3>1, <3>4, <3>5
    <2> QED
      BY <2>1, <2>2
  <1>7. S \in SUBSET S
    OBVIOUS
  <1>8. IsSum(w, CHOOSE g : IsSum(w, g, S), S)
    BY <1>5
  <1>9. Total(w, S) = f[S]
    BY <1>6, <1>7, <1>8, TotalChosen
  <1>10. \A t \in SUBSET S : f[t] = Total(w, t)
    <2> SUFFICES ASSUME NEW t \in SUBSET S PROVE f[t] = Total(w, t)
      OBVIOUS
    <2>1. CASE t = S
      BY <1>9, <2>1
    <2>2. CASE t # S
      BY <2>2 DEF f
    <2> QED
      BY <2>1, <2>2
  <1> QED
    BY <1>5, <1>6, <1>10 DEF Summed

(* The sum over every finite set exists.                                   *)
LEMMA FiniteSummed ==
    ASSUME NEW w, NEW S, IsFiniteSet(S)
    PROVE  Summed(w, S)
  <1> DEFINE T == {n \in Nat : \A U \in SUBSET S : Cardinality(U) <= n => Summed(w, U)}
  <1>1. \A U \in SUBSET S : IsFiniteSet(U) /\ Cardinality(U) \in Nat
    BY FS_Subset, FS_CardinalityType
  <1>2. 0 \in T
    <2>1. ASSUME NEW U \in SUBSET S, Cardinality(U) <= 0 PROVE Summed(w, U)
      <3>1. Cardinality(U) = 0
        BY <1>1, <2>1
      <3>2. U = {}
        BY <1>1, <3>1, FS_EmptySet
      <3> QED
        BY <3>2, TotalEmpty
    <2> QED
      BY <2>1
  <1>3. ASSUME NEW n \in T PROVE n + 1 \in T
    <2>1. ASSUME NEW U \in SUBSET S, Cardinality(U) <= n + 1 PROVE Summed(w, U)
      <3>1. CASE U = {}
        BY <3>1, TotalEmpty
      <3>2. CASE U # {}
        <4>1. ASSUME NEW t \in SUBSET U, t # U PROVE Summed(w, t)
          <5>1. Cardinality(t) < Cardinality(U)
            BY <1>1, <4>1, FS_Subset
          <5>2. Cardinality(t) <= n /\ t \in SUBSET S
            BY <1>1, <2>1, <5>1
          <5> QED
            BY <5>2
        <4> QED
          BY <3>2, <4>1, SumExtends
      <3> QED
        BY <3>1, <3>2
    <2> QED
      BY <2>1
  <1>4. T = Nat
    <2> HIDE DEF T
    <2>1. T \in SUBSET Nat
      BY DEF T
    <2> QED
      BY <1>2, <1>3, <2>1, SetInduction
  <1>5. Cardinality(S) \in T
    BY <1>1, <1>4
  <1> QED
    BY <1>1, <1>5

-----------------------------------------------------------------------------
(* Any term can be taken out of the sum.                                   *)
LEMMA TotalPick ==
    ASSUME NEW w, NEW S, IsFiniteSet(S), S # {}
    PROVE  Total(w, S) = w[Pick(S)] + Total(w, S \ {Pick(S)})
  BY FiniteSummed, SummedStep

(* A sum of natural numbers is one.                                        *)
LEMMA TotalType ==
    ASSUME NEW w, NEW S, IsFiniteSet(S), \A y \in S : w[y] \in Nat
    PROVE  Total(w, S) \in Nat
  <1> DEFINE T == {n \in Nat : \A U \in SUBSET S : Cardinality(U) <= n => Total(w, U) \in Nat}
  <1>1. \A U \in SUBSET S : IsFiniteSet(U) /\ Cardinality(U) \in Nat
    BY FS_Subset, FS_CardinalityType
  <1>2. 0 \in T
    <2>1. ASSUME NEW U \in SUBSET S, Cardinality(U) <= 0 PROVE Total(w, U) \in Nat
      <3>1. Cardinality(U) = 0
        BY <1>1, <2>1
      <3>2. U = {}
        BY <1>1, <3>1, FS_EmptySet
      <3> QED
        BY <3>2, TotalEmpty
    <2> QED
      BY <2>1
  <1>3. ASSUME NEW n \in T PROVE n + 1 \in T
    <2>1. ASSUME NEW U \in SUBSET S, Cardinality(U) <= n + 1 PROVE Total(w, U) \in Nat
      <3>1. CASE U = {}
        BY <3>1, TotalEmpty
      <3>2. CASE U # {}
        <4> DEFINE x == Pick(U)
        <4>1. x \in U /\ w[x] \in Nat
          BY <3>2, PickIn
        <4>2. Total(w, U) = w[x] + Total(w, U \ {x})
          BY <1>1, <3>2, TotalPick
        <4> HIDE DEF x
        <4>3. Cardinality(U \ {x}) = Cardinality(U) - 1
          BY <1>1, <4>1, FS_RemoveElement
        <4>4. Cardinality(U \ {x}) <= n /\ U \ {x} \in SUBSET S
          <5>1. U \ {x} \in SUBSET S /\ Cardinality(U) \in Nat
            BY <1>1
          <5> DEFINE c == Cardinality(U)
          <5>2. c \in Nat /\ c <= n + 1 /\ Cardinality(U \ {x}) = c - 1
            BY <2>1, <4>3, <5>1
          <5> HIDE DEF c
          <5> QED
            BY <5>1, <5>2
        <4>5. Total(w, U \ {x}) \in Nat
          BY <4>4
        <4>6. w[x] \in Nat
          BY <4>1
        <4> QED
          BY <4>2, <4>5, <4>6
      <3> QED
        BY <3>1, <3>2
    <2> QED
      BY <2>1
  <1>4. T = Nat
    <2> HIDE DEF T
    <2>1. T \in SUBSET Nat
      BY DEF T
    <2> QED
      BY <1>2, <1>3, <2>1, SetInduction
  <1>5. Cardinality(S) \in T
    BY <1>1, <1>4
  <1> QED
    BY <1>1, <1>5

(* The order of the sum does not matter: any term may be taken first.      *)
LEMMA TotalTakes ==
    ASSUME NEW w, NEW S, IsFiniteSet(S), \A y \in S : w[y] \in Nat, NEW x \in S
    PROVE  Total(w, S) = w[x] + Total(w, S \ {x})
  <1> DEFINE T == {n \in Nat : \A U \in SUBSET S : Cardinality(U) <= n =>
                      \A y \in U : Total(w, U) = w[y] + Total(w, U \ {y})}
  <1>1. \A U \in SUBSET S : IsFiniteSet(U) /\ Cardinality(U) \in Nat /\ Total(w, U) \in Nat
    BY FS_Subset, FS_CardinalityType, TotalType
  <1>2. 0 \in T
    <2>1. ASSUME NEW U \in SUBSET S, Cardinality(U) <= 0 PROVE U = {}
      <3>1. Cardinality(U) = 0
        BY <1>1, <2>1
      <3> QED
        BY <1>1, <3>1, FS_EmptySet
    <2> QED
      BY <2>1
  <1>3. ASSUME NEW n \in T PROVE n + 1 \in T
    <2>1. ASSUME NEW U \in SUBSET S, Cardinality(U) <= n + 1, NEW y \in U
          PROVE  Total(w, U) = w[y] + Total(w, U \ {y})
      <3> DEFINE p == Pick(U)
      <3>1. p \in U
        BY PickIn
      <3>2. Total(w, U) = w[p] + Total(w, U \ {p})
        BY <1>1, TotalPick
      <3> HIDE DEF p
      <3>3. CASE y = p
        BY <3>2, <3>3
      <3>4. CASE y # p
        <4>1. /\ U \ {p} \in SUBSET S /\ Cardinality(U \ {p}) = Cardinality(U) - 1
              /\ U \ {y} \in SUBSET S /\ Cardinality(U \ {y}) = Cardinality(U) - 1
          BY <1>1, <3>1, FS_RemoveElement
        <4>2. Cardinality(U \ {p}) <= n /\ Cardinality(U \ {y}) <= n
          BY <1>1, <2>1, <4>1
        <4>3. y \in U \ {p} /\ p \in U \ {y}
          BY <3>1, <3>4
        <4>4. Total(w, U \ {p}) = w[y] + Total(w, (U \ {p}) \ {y})
          BY <4>1, <4>2, <4>3
        <4>5. Total(w, U \ {y}) = w[p] + Total(w, (U \ {y}) \ {p})
          BY <4>1, <4>2, <4>3
        <4>6. (U \ {p}) \ {y} = (U \ {y}) \ {p} /\ (U \ {p}) \ {y} \in SUBSET S
          OBVIOUS
        <4> DEFINE r == Total(w, (U \ {p}) \ {y})
        <4>7. r \in Nat /\ w[p] \in Nat /\ w[y] \in Nat
          BY <1>1, <3>1, <4>6
        <4>8. Total(w, (U \ {y}) \ {p}) = r
          BY <4>6
        <4> HIDE DEF r
        <4>9. Total(w, U \ {p}) = w[y] + r
          BY <4>4 DEF r
        <4> QED
          BY <3>2, <4>5, <4>7, <4>8, <4>9
      <3> QED
        BY <3>3, <3>4
    <2> QED
      BY <2>1
  <1>4. T = Nat
    <2> HIDE DEF T
    <2>1. T \in SUBSET Nat
      BY DEF T
    <2> QED
      BY <1>2, <1>3, <2>1, SetInduction
  <1>5. Cardinality(S) \in T
    BY <1>1, <1>4
  <1> QED
    BY <1>1, <1>5

(* The sum is one of the terms only.                                       *)
LEMMA TotalAgrees ==
    ASSUME NEW w, NEW v, NEW S, IsFiniteSet(S), \A x \in S : w[x] = v[x]
    PROVE  Total(w, S) = Total(v, S)
  <1>1. PICK f : IsSum(w, f, S)
    BY FiniteSummed DEF Summed
  <1>2. IsSum(v, f, S)
    <2>1. ASSUME NEW s \in SUBSET S, s # {} PROVE w[Pick(s)] = v[Pick(s)]
      BY <2>1, PickIn
    <2> DEFINE g == [s \in SUBSET S |-> IF s = {} THEN 0 ELSE w[Pick(s)] + f[s \ {Pick(s)}]]
               h == [s \in SUBSET S |-> IF s = {} THEN 0 ELSE v[Pick(s)] + f[s \ {Pick(s)}]]
    <2>2. g = h
      BY <2>1
    <2>3. f = g
      BY <1>1 DEF IsSum
    <2> QED
      BY <2>2, <2>3 DEF IsSum
  <1>3. S \in SUBSET S
    OBVIOUS
  <1>4. Summed(w, S) /\ Summed(v, S)
    BY FiniteSummed
  <1>5. f[S] = Total(w, S)
    BY <1>1, <1>3, <1>4 DEF Summed
  <1>6. f[S] = Total(v, S)
    BY <1>2, <1>3, <1>4 DEF Summed
  <1> QED
    BY <1>5, <1>6

(* A counter of a table goes up by one, and so does the sum of the table.  *)
LEMMA TotalCounts ==
    ASSUME NEW D, IsFiniteSet(D), NEW w \in [D -> Nat], NEW x \in D
    PROVE  Total([w EXCEPT ![x] = @ + 1], D) = Total(w, D) + 1
  <1> DEFINE v == [w EXCEPT ![x] = @ + 1]
             R == D \ {x}
  <1>1. v \in [D -> Nat] /\ v[x] = w[x] + 1 /\ w[x] \in Nat /\ \A y \in R : v[y] = w[y]
    OBVIOUS
  <1>2. R \in SUBSET D /\ IsFiniteSet(R) /\ D \in SUBSET D
    BY FS_Subset
  <1> HIDE DEF v
  <1>3. Total(v, D) = v[x] + Total(v, R)
    BY <1>1, <1>2, TotalTakes
  <1>4. Total(w, D) = w[x] + Total(w, R)
    BY <1>2, TotalTakes
  <1>5. Total(v, R) = Total(w, R)
    BY <1>1, <1>2, TotalAgrees
  <1>6. Total(w, R) \in Nat
    BY <1>2, TotalType
  <1> HIDE DEF R
  <1> QED
    BY <1>1, <1>3, <1>4, <1>5, <1>6 DEF v

(* A table of zeros.                                                       *)
LEMMA TotalZero ==
    ASSUME NEW S, IsFiniteSet(S)
    PROVE  Total([x \in S |-> 0], S) = 0
  <1> DEFINE w == [x \in S |-> 0]
             T == {n \in Nat : \A U \in SUBSET S : Cardinality(U) <= n => Total(w, U) = 0}
  <1>1. \A U \in SUBSET S : IsFiniteSet(U) /\ Cardinality(U) \in Nat
    BY FS_Subset, FS_CardinalityType
  <1>w. w \in [S -> Nat] /\ \A x \in S : w[x] = 0
    OBVIOUS
  <1> HIDE DEF w
  <1>2. 0 \in T
    <2>1. ASSUME NEW U \in SUBSET S, Cardinality(U) <= 0 PROVE Total(w, U) = 0
      <3>1. Cardinality(U) = 0
        BY <1>1, <2>1
      <3>2. U = {}
        BY <1>1, <3>1, FS_EmptySet
      <3> QED
        BY <3>2, TotalEmpty
    <2> QED
      BY <2>1
  <1>3. ASSUME NEW n \in T PROVE n + 1 \in T
    <2>1. ASSUME NEW U \in SUBSET S, Cardinality(U) <= n + 1 PROVE Total(w, U) = 0
      <3>1. CASE U = {}
        BY <3>1, TotalEmpty
      <3>2. CASE U # {}
        <4>1. PICK x \in U : TRUE
          BY <3>2
        <4>2. Total(w, U) = w[x] + Total(w, U \ {x})
          BY <1>1, <1>w, TotalTakes
        <4>3. U \ {x} \in SUBSET S /\ Cardinality(U \ {x}) = Cardinality(U) - 1
          BY <1>1, FS_RemoveElement
        <4>4. Cardinality(U \ {x}) <= n
          BY <1>1, <2>1, <4>3
        <4>5. Total(w, U \ {x}) = 0
          BY <4>3, <4>4
        <4> QED
          BY <1>w, <4>2, <4>5
      <3> QED
        BY <3>1, <3>2
    <2> QED
      BY <2>1
  <1>4. T = Nat
    <2> HIDE DEF T
    <2>1. T \in SUBSET Nat
      BY DEF T
    <2> QED
      BY <1>2, <1>3, <2>1, SetInduction
  <1>5. Cardinality(S) \in T
    BY <1>1, <1>4
  <1>6. Total(w, S) = 0
    BY <1>1, <1>5
  <1> QED
    BY <1>6 DEF w

-----------------------------------------------------------------------------
(* Number is such a sum, of powers of two.                                 *)
Powers == [b \in Nat |-> 2^b]

(* The terms of Number are natural numbers.                                *)
LEMMA PowersTyped == Powers \in [Nat -> Nat] /\ \A b \in Nat : Powers[b] = 2^b
  BY PowerPositive DEF Powers

(* A word's number is the sum over its bits.                               *)
LEMMA NumberIsTotal ==
    ASSUME NEW S \in SUBSET Nat, IsFiniteSet(S)
    PROVE  Number(S) = Total(Powers, S)
  <1> DEFINE IsNumber(f) ==
                f = [s \in SUBSET S |-> IF s = {} THEN 0 ELSE 2^Pick(s) + f[s \ {Pick(s)}]]
  <1>1. Number(S) = (CHOOSE f : IsNumber(f))[S]
    BY DEF Number, MapThenSumSet, MapThenFoldSet, Pick
  <1>2. ASSUME NEW f PROVE IsNumber(f) <=> IsSum(Powers, f, S)
    <2>1. ASSUME NEW s \in SUBSET S, s # {} PROVE Powers[Pick(s)] = 2^Pick(s)
      BY <2>1, PickIn, PowersTyped
    <2> DEFINE g == [s \in SUBSET S |-> IF s = {} THEN 0 ELSE Powers[Pick(s)] + f[s \ {Pick(s)}]]
               h == [s \in SUBSET S |-> IF s = {} THEN 0 ELSE 2^Pick(s) + f[s \ {Pick(s)}]]
    <2>2. g = h
      BY <2>1
    <2> QED
      BY <2>2 DEF IsSum
  <1>3. Summed(Powers, S)
    BY FiniteSummed
  <1>4. \E f : IsNumber(f)
    BY <1>2, <1>3 DEF Summed
  <1> HIDE DEF IsNumber
  <1>5. IsNumber(CHOOSE f : IsNumber(f))
    BY <1>4
  <1>6. S \in SUBSET S
    OBVIOUS
  <1> QED
    BY <1>1, <1>2, <1>3, <1>5, <1>6 DEF Summed

(* The word without bits is 0.                                             *)
LEMMA NumberEmpty == Number({}) = 0
  BY NumberIsTotal, TotalEmpty, FS_EmptySet

(* The number of a finite word is a natural number.                        *)
LEMMA NumberType ==
    ASSUME NEW S \in SUBSET Nat, IsFiniteSet(S)
    PROVE  Number(S) \in Nat
  BY NumberIsTotal, TotalType, PowersTyped

(* Any bit may be taken out of a number.                                   *)
LEMMA NumberTakes ==
    ASSUME NEW S \in SUBSET Nat, IsFiniteSet(S), NEW x \in S
    PROVE  Number(S) = 2^x + Number(S \ {x})
  <1>1. \A T, y : IsFiniteSet(T) /\ (\A z \in T : Powers[z] \in Nat) /\ y \in T =>
                   Total(Powers, T) = Powers[y] + Total(Powers, T \ {y})
    BY TotalTakes
  <1>2. \A z \in S : Powers[z] \in Nat
    BY PowersTyped
  <1>3. Total(Powers, S) = Powers[x] + Total(Powers, S \ {x})
    BY <1>1, <1>2
  <1>4. IsFiniteSet(S \ {x}) /\ S \ {x} \in SUBSET Nat
    BY FS_Subset
  <1>5. Number(S) = Total(Powers, S) /\ Number(S \ {x}) = Total(Powers, S \ {x})
    BY <1>4, NumberIsTotal, Zenon
  <1>6. Powers[x] = 2^x
    BY PowersTyped
  <1> QED
    BY <1>3, <1>5, <1>6, Zenon

(* Words of n bits are finite sets of positions.                           *)
LEMMA MaskFinite ==
    ASSUME NEW n \in Nat
    PROVE  /\ Mask(n) \in SUBSET Nat
           /\ \A S \in SUBSET Mask(n) : IsFiniteSet(S) /\ S \in SUBSET Nat
  <1>1. Mask(n) \in SUBSET Nat /\ IsFiniteSet(Mask(n))
    BY FS_Interval DEF Mask
  <1> QED
    BY <1>1, FS_Subset

(* A word of n + 1 bits is one of n, or one of n with the top bit.         *)
LEMMA MaskGrows ==
    ASSUME NEW n \in Nat, NEW S \in SUBSET Mask(n + 1)
    PROVE  /\ n \notin S => S \in SUBSET Mask(n)
           /\ S \ {n} \in SUBSET Mask(n)
  BY DEF Mask

(* The number of a word of n bits has n bits.                              *)
LEMMA NumberBound ==
    ASSUME NEW n \in Nat, NEW S \in SUBSET Mask(n)
    PROVE  Number(S) \in 0 .. 2^n - 1
  <1> DEFINE T == {k \in Nat : \A U \in SUBSET Mask(k) : Number(U) \in Nat /\ Number(U) < 2^k}
  <1>1. 0 \in T
    <2>1. Mask(0) = {}
      BY DEF Mask
    <2> QED
      BY <2>1, NumberEmpty, PowerPositive
  <1>2. ASSUME NEW k \in T PROVE k + 1 \in T
    <2>1. ASSUME NEW U \in SUBSET Mask(k + 1) PROVE Number(U) \in Nat /\ Number(U) < 2^(k + 1)
      <3>1. 2^(k + 1) = 2 * 2^k /\ 2^k \in Nat
        BY PowerStep, PowerPositive
      <3>2. U \ {k} \in SUBSET Mask(k)
        BY MaskGrows
      <3>3. Number(U \ {k}) \in Nat /\ Number(U \ {k}) < 2^k
        BY <3>2
      <3>4. CASE k \in U
        <4>1. IsFiniteSet(U) /\ U \in SUBSET Nat
          BY MaskFinite
        <4>2. Number(U) = 2^k + Number(U \ {k})
          BY <3>4, <4>1, NumberTakes
        <4> QED
          BY <3>1, <3>3, <4>2
      <3>5. CASE k \notin U
        <4>1. U \ {k} = U
          BY <3>5
        <4> QED
          BY <3>1, <3>3, <4>1
      <3> QED
        BY <3>4, <3>5
    <2> QED
      BY <2>1
  <1>3. T = Nat
    <2> HIDE DEF T
    <2>1. T \in SUBSET Nat
      BY DEF T
    <2> QED
      BY <1>1, <1>2, <2>1, SetInduction
  <1>4. Number(S) \in Nat /\ Number(S) < 2^n /\ 2^n \in Nat
    BY <1>3, PowerPositive
  <1> QED
    BY <1>4

-----------------------------------------------------------------------------
(* Quotient and remainder are those of the division that defines them.     *)
LEMMA Quotient ==
    ASSUME NEW p \in Nat, p > 0, NEW k \in Nat, NEW m \in 0 .. p - 1
    PROVE  (m + p * k) \div p = k /\ (m + p * k) % p = m
  <1> DEFINE n == m + p * k
             q == n \div p
             r == n % p
  <1>1. n \in Nat
    OBVIOUS
  <1> HIDE DEF n
  <1>2. q \in Nat /\ r \in 0 .. p - 1 /\ n = p * q + r
    BY <1>1
  <1> HIDE DEF q, r
  <1>3. p * k + m = p * q + r
    BY <1>2 DEF n
  <1>4. k <= q
    <2> SUFFICES ASSUME q + 1 <= k PROVE FALSE
      BY <1>2
    <2>1. p * (q + 1) <= p * k
      BY <1>2
    <2> QED
      BY <1>2, <1>3, <2>1
  <1>5. q <= k
    <2> SUFFICES ASSUME k + 1 <= q PROVE FALSE
      BY <1>2
    <2>1. p * (k + 1) <= p * q
      BY <1>2
    <2> QED
      BY <1>2, <1>3, <2>1
  <1>6. k = q
    BY <1>2, <1>4, <1>5
  <1> QED
    BY <1>2, <1>3, <1>6 DEF n, q, r

(* Dividing twice is dividing by the product.                              *)
LEMMA NestedQuotient ==
    ASSUME NEW n \in Nat, NEW p \in Nat, p > 0, NEW q \in Nat, q > 0
    PROVE  (n \div p) \div q = n \div (p * q)
<1> DEFINE x == n \div p
           r == n % p
           y == x \div q
           s == x % q
<1>1. x \in Nat /\ r \in 0 .. p - 1 /\ n = p * x + r
  OBVIOUS
<1> HIDE DEF x, r
<1>2. y \in Nat /\ s \in 0 .. q - 1 /\ x = q * y + s
  BY <1>1
<1> HIDE DEF y, s
<1> DEFINE m == r + p * s
<1>3. n = m + (p * q) * y
  <2>1. p * x = p * (q * y) + p * s
    BY <1>1, <1>2
  <2>2. p * (q * y) = (p * q) * y
    BY <1>2
  <2>3. p * s \in Nat /\ (p * q) * y \in Nat
    BY <1>2
  <2> QED
    BY <1>1, <2>1, <2>2, <2>3
<1>4. p * q \in Nat /\ p * q > 0
  OBVIOUS
<1>5. m \in 0 .. p * q - 1
  <2>1. p * s <= p * (q - 1)
    BY <1>2
  <2>2. p * (q - 1) = p * q - p
    OBVIOUS
  <2>3. p * s \in Nat
    BY <1>2
  <2> QED
    BY <1>1, <1>4, <2>1, <2>2, <2>3
<1>6. n \div (p * q) = y
  <2> HIDE DEF m
  <2>1. PICK w \in Nat : w = p * q
    BY <1>4
  <2>2. (m + w * y) \div w = y
    BY <1>2, <1>4, <1>5, <2>1, Quotient
  <2> QED
    BY <1>3, <2>1, <2>2
<1> QED
  BY <1>6 DEF x, y

(* A remainder and a quotient make a number.                               *)
LEMMA FromQuotient ==
    ASSUME NEW x \in Nat, NEW y \in Nat, NEW q \in Nat, q > 0, x \div q = y \div q, x % q = y % q
    PROVE  x = y
<1>1. x = q * (x \div q) + (x % q) /\ y = q * (y \div q) + (y % q)
  OBVIOUS
<1> QED
  BY <1>1

(* The bits below b are the remainder, the bits from b on the quotient.    *)
LEMMA NumberSplits ==
    ASSUME NEW b \in Nat, NEW n \in Nat, NEW S \in SUBSET Mask(n)
    PROVE  \E k \in Nat : /\ Number(S) = Number({c \in S : c < b}) + 2^b * k
                          /\ k % 2 = 1 <=> b \in S
  <1> DEFINE Low(U) == {c \in U : c < b}
             Split(U, k) == Number(U) = Number(Low(U)) + 2^b * k /\ (k % 2 = 1 <=> b \in U)
             T == {j \in Nat : \A U \in SUBSET Mask(j) : \E k \in Nat : Split(U, k)}
  <1>1. 0 \in T
    <2>1. ASSUME NEW U \in SUBSET Mask(0) PROVE Split(U, 0)
      <3>0. Mask(0) = {}
        BY DEF Mask
      <3>1. U = {} /\ Low(U) = {}
        BY <3>0
      <3>2. 2^b * 0 = 0
        BY PowerPositive
      <3> QED
        BY <3>1, <3>2, NumberEmpty
    <2> QED
      BY <2>1
  <1>2. ASSUME NEW j \in T PROVE j + 1 \in T
    <2>1. ASSUME NEW U \in SUBSET Mask(j + 1) PROVE \E k \in Nat : Split(U, k)
      <3> DEFINE V == U \ {j}
      <3>1. V \in SUBSET Mask(j)
        BY MaskGrows
      <3>2. PICK k \in Nat : Split(V, k)
        BY <3>1
      <3>3. CASE j \notin U
        <4>1. V = U
          BY <3>3
        <4> QED
          BY <3>2, <4>1
      <3>4. CASE j \in U
        <4>1. Number(U) = 2^j + Number(V)
          BY <3>4, MaskFinite, NumberTakes
        <4>2. Low(V) \in SUBSET Mask(j) /\ Low(U) \in SUBSET Mask(j + 1) /\ j \in Nat
          BY <3>1
        <4>3. Number(V) \in Nat /\ Number(Low(V)) \in Nat /\ 2^j \in Nat /\ 2^b \in Nat
          BY <3>1, <4>2, NumberBound, PowerPositive
        <4>4. CASE j < b
          <5>1. j \in Low(U) /\ Low(U) \ {j} = Low(V)
            BY <3>4, <4>4
          <5>2. Number(Low(U)) = 2^j + Number(Low(V))
            BY <4>2, <5>1, MaskFinite, NumberTakes
          <5>3. b \in U <=> b \in V
            BY <4>4
          <5> HIDE DEF V
          <5>4. Number(U) = Number(Low(U)) + 2^b * k
            <6> DEFINE l == Number(Low(V))
                       d == 2^b * k
            <6>1. d \in Nat /\ Number(V) = l + d
              BY <3>2, <4>3
            <6> HIDE DEF l, d
            <6> QED
              BY <4>1, <4>3, <5>2, <6>1 DEF l, d
          <5>5. Split(U, k)
            BY <3>2, <5>3, <5>4
          <5> QED
            BY <5>5
        <4>5. CASE j >= b
          <5>1. Low(U) = Low(V)
            BY <4>5
          <5>2. j - b \in Nat /\ j = b + (j - b)
            BY <4>5
          <5> DEFINE e == 2^(j - b)
          <5>3. 2^j = 2^b * e /\ e \in Nat
            BY <5>2, PowerAdds, PowerPositive
          <5>4. b \in U <=> b \in V \/ j = b
            BY <3>4
          <5>5. b = j => e = 1 /\ b \notin V /\ k % 2 = 0
            <6>1. b = j => j - b = 0
              OBVIOUS
            <6> QED
              BY <3>2, <6>1, PowerZero
          <5>6. b # j => \E h \in Nat : e = 2 * h
            <6> SUFFICES ASSUME b # j PROVE \E h \in Nat : e = 2 * h
              OBVIOUS
            <6>1. PICK h \in Nat : j - b = h + 1
              <7>1. j - b - 1 \in Nat /\ j - b = (j - b - 1) + 1
                BY <4>5
              <7> QED
                BY <7>1
            <6>2. e = 2 * 2^h /\ 2^h \in Nat
              BY <6>1, PowerStep, PowerPositive
            <6> QED
              BY <6>2
          <5> HIDE DEF e, V
          <5>7. (k + e) % 2 = 1 <=> b \in U
            <6>1. CASE b = j
              BY <3>4, <5>5, <6>1
            <6>2. CASE b # j
              <7>1. PICK h \in Nat : e = 2 * h
                BY <5>6, <6>2
              <7>2. (k + 2 * h) % 2 = k % 2
                OBVIOUS
              <7> QED
                BY <3>2, <5>4, <6>2, <7>1, <7>2
            <6> QED
              BY <6>1, <6>2
          <5>8. Number(U) = Number(Low(U)) + 2^b * (k + e)
            <6> DEFINE l == Number(Low(V))
                       p == 2^b
            <6>1. Number(V) = l + p * k /\ Number(U) = p * e + Number(V) /\ Number(Low(U)) = l
              BY <3>2, <4>1, <5>1, <5>3
            <6>2. l \in Nat /\ p \in Nat
              BY <4>3
            <6> HIDE DEF l, p
            <6>3. Number(U) = l + p * (k + e)
              BY <5>3, <6>1, <6>2
            <6> QED
              BY <6>1, <6>3 DEF p
          <5>9. k + e \in Nat /\ Split(U, k + e)
            BY <5>3, <5>7, <5>8
          <5> QED
            BY <5>9
        <4> HIDE DEF Split
        <4> QED
          BY <4>2, <4>4, <4>5
      <3> HIDE DEF Split
      <3> QED
        BY <3>3, <3>4
    <2> HIDE DEF Split
    <2> QED
      BY <2>1
  <1>3. T = Nat
    <2> HIDE DEF T
    <2>1. T \in SUBSET Nat
      BY DEF T
    <2> QED
      BY <1>1, <1>2, <2>1, SetInduction
  <1>4. \E k \in Nat : Split(S, k)
    <2> HIDE DEF Split
    <2> QED
      BY <1>3
  <1> QED
    BY <1>4

(* Shift and mask of a number read the bits of the word.                   *)
LEMMA NumberBits ==
    ASSUME NEW b \in Nat, NEW n \in Nat, NEW S \in SUBSET Mask(n)
    PROVE  /\ (Number(S) \div 2^b) % 2 = 1 <=> b \in S
           /\ Number(S) % 2^b = Number({c \in S : c < b})
  <1> DEFINE L == {c \in S : c < b}
             p == 2^b
  <1>1. PICK k \in Nat : Number(S) = Number(L) + p * k /\ (k % 2 = 1 <=> b \in S)
    BY NumberSplits
  <1>2. L \in SUBSET Mask(b)
    <2>1. \A c \in S : c \in Nat
      BY DEF Mask
    <2>2. \A c \in Nat : c < b => c \in Mask(b)
      BY DEF Mask
    <2> QED
      BY <2>1, <2>2
  <1>3. Number(L) \in 0 .. p - 1 /\ p \in Nat /\ p > 0
    <2> HIDE DEF L
    <2> QED
      BY <1>2, NumberBound, PowerPositive
  <1> HIDE DEF L, p
  <1>4. Number(S) \div p = k /\ Number(S) % p = Number(L)
    BY <1>1, <1>3, Quotient
  <1>5. (Number(S) \div p) % 2 = 1 <=> b \in S
    BY <1>1, <1>4
  <1> QED
    BY <1>4, <1>5 DEF L, p

(* Different words have different numbers, so every number of n bits is    *)
(* that of a word.                                                         *)
LEMMA NumberInjective ==
    ASSUME NEW n \in Nat, NEW S \in SUBSET Mask(n), NEW U \in SUBSET Mask(n),
           Number(S) = Number(U)
    PROVE  S = U
  <1>1. ASSUME NEW b \in Nat PROVE b \in S <=> b \in U
    <2>1. (Number(S) \div 2^b) % 2 = 1 <=> b \in S
      BY NumberBits
    <2>2. (Number(U) \div 2^b) % 2 = 1 <=> b \in U
      BY NumberBits
    <2> QED
      BY <2>1, <2>2
  <1>2. S \in SUBSET Nat /\ U \in SUBSET Nat
    BY MaskFinite
  <1> QED
    BY <1>1, <1>2

(* Every number of n bits is that of a word.                               *)
LEMMA NumberSurjective ==
    ASSUME NEW n \in Nat, NEW a \in 0 .. 2^n - 1
    PROVE  \E S \in SUBSET Mask(n) : Number(S) = a
  <1> DEFINE A == SUBSET Mask(n)
             number == [S \in A |-> Number(S)]
             B == {Number(S) : S \in A}
             p == 2^n
  <1>1. IsFiniteSet(Mask(n)) /\ Cardinality(Mask(n)) = n
    <2>1. n - 1 \in Int /\ 0 \in Int
      OBVIOUS
    <2>2. IsFiniteSet(0 .. n - 1) /\ Cardinality(0 .. n - 1) = IF 0 > n - 1 THEN 0 ELSE (n - 1) - 0 + 1
      BY <2>1, FS_Interval
    <2> QED
      BY <2>2 DEF Mask
  <1>2. IsFiniteSet(A) /\ Cardinality(A) = p
    BY <1>1, FS_SUBSET
  <1>3. number \in Surjection(A, B)
    BY DEF Surjection
  <1>4. number \in Injection(A, B)
    <2>1. number \in [A -> B] /\ \A S \in A : number[S] = Number(S)
      OBVIOUS
    <2>2. \A S, U \in A : Number(S) = Number(U) => S = U
      BY NumberInjective
    <2> HIDE DEF number, A, B
    <2> QED
      BY <2>1, <2>2 DEF Injection, IsInjective
  <1>5. B \in SUBSET (0 .. p - 1)
    BY NumberBound
  <1>6. p \in Nat /\ p > 0
    BY PowerPositive
  <1> HIDE DEF number, p
  <1>7. IsFiniteSet(B) /\ Cardinality(B) = p
    <2> HIDE DEF A, B
    <2> QED
      BY <1>2, <1>3, <1>4, FS_Surjection
  <1>8. IsFiniteSet(0 .. p - 1) /\ Cardinality(0 .. p - 1) = p
    <2>1. p - 1 \in Int /\ 0 \in Int
      BY <1>6
    <2>2. IsFiniteSet(0 .. p - 1) /\ Cardinality(0 .. p - 1) = IF 0 > p - 1 THEN 0 ELSE (p - 1) - 0 + 1
      BY <2>1, FS_Interval
    <2> QED
      BY <1>6, <2>2
  <1>9. B = 0 .. p - 1
    <2> HIDE DEF B
    <2> QED
      BY <1>5, <1>7, <1>8, FS_Subset
  <1> QED
    BY <1>9 DEF p

(* The bits of a number that fits are the word whose number it is.         *)
LEMMA BitsOfNumber ==
    ASSUME NEW n \in Nat, NEW a \in 0 .. 2^n - 1
    PROVE  Number({b \in Mask(n) : (a \div 2^b) % 2 = 1}) = a
  <1>1. PICK S \in SUBSET Mask(n) : Number(S) = a
    BY NumberSurjective
  <1>2. \A b \in Mask(n) : (a \div 2^b) % 2 = 1 <=> b \in S
    <2>1. \A b \in Mask(n) : b \in Nat
      BY MaskFinite
    <2> QED
      BY <1>1, <2>1, NumberBits
  <1>3. {b \in Mask(n) : (a \div 2^b) % 2 = 1} = S
    BY <1>2
  <1> QED
    BY <1>1, <1>3

-----------------------------------------------------------------------------
(* The packed array is an array of counters: training one of them steps    *)
(* that one and leaves the others, the three in its byte among them, also  *)
(* when the counters do not fill the last byte.                            *)

(* The assertion idx < n_entries keeps the byte inside the array.          *)
LEMMA ElemInArray ==
    ASSUME NEW n \in Nat \ {0}, NEW idx \in 0 .. n - 1
    PROVE  idx \div 4 \in Elems(n) /\ FieldOf(idx) \in Fields
  BY DEF Elems, FieldOf, Fields

(* Two indices share a byte or a field of it, never both.                  *)
LEMMA PlacesDiffer ==
    ASSUME NEW i \in Nat, NEW j \in Nat, i # j, i \div 4 = j \div 4
    PROVE  FieldOf(i) # FieldOf(j)
<1>1. i = 4 * (i \div 4) + (i % 4) /\ j = 4 * (j \div 4) + (j % 4)
  OBVIOUS
<1>2. i % 4 \in 0 .. 3 /\ j % 4 \in 0 .. 3
  OBVIOUS
<1>3. i % 4 # j % 4
  BY <1>1
<1> QED
  BY <1>2, <1>3 DEF FieldOf

(* A counter stays in its two bits.                                        *)
LEMMA SaturateInRange ==
    ASSUME NEW v \in 0 .. 3, NEW incr \in BOOLEAN
    PROVE  Saturate(v, incr) \in 0 .. 3
  BY DEF Saturate

CounterArrays(n) ==
    [n_entries : {n}, arr : [Elems(n) -> [Fields -> 0 .. 3]], valid : SUBSET (0 .. n - 1)]

(* An array of the right shape is one, and its counters have two bits.     *)
LEMMA CountersTyped ==
    ASSUME NEW n \in Nat \ {0}, NEW t \in CounterArrays(n)
    PROVE  /\ CountersTypeOK(t, n)
           /\ \A idx \in 0 .. n - 1 : GetValue(t, idx) \in 0 .. 3
<1>1. CountersTypeOK(t, n)
  BY DEF CountersTypeOK, CounterArrays
<1>2. ASSUME NEW idx \in 0 .. n - 1 PROVE GetValue(t, idx) \in 0 .. 3
  BY ElemInArray DEF GetValue, CounterArrays
<1> QED
  BY <1>1, <1>2

(* The array as created is one of weakly-not-taken counters; none of them  *)
(* is valid.                                                               *)
THEOREM NewCountersCorrect ==
    ASSUME NEW n \in Nat \ {0}
    PROVE  /\ NewCounters(n) \in CounterArrays(n)
           /\ NewCounters(n).valid = {}
           /\ \A idx \in 0 .. n - 1 : GetValue(NewCounters(n), idx) = 1
<1>1. NewCounters(n) \in CounterArrays(n)
  BY DEF CounterArrays, NewCounters
<1>2. ASSUME NEW idx \in 0 .. n - 1 PROVE GetValue(NewCounters(n), idx) = 1
  BY ElemInArray DEF GetValue, NewCounters
<1>3. NewCounters(n).valid = {}
  BY DEF NewCounters
<1> QED
  BY <1>1, <1>2, <1>3

(* update steps the counter it names and no other, and keeps the packing.  *)
THEOREM UpdateCounterCorrect ==
    ASSUME NEW n \in Nat \ {0}, NEW t \in CounterArrays(n),
           NEW idx \in 0 .. n - 1, NEW incr \in BOOLEAN
    PROVE  /\ UpdateCounter(t, idx, incr) \in CounterArrays(n)
           /\ UpdateCounter(t, idx, incr).valid = t.valid \cup {idx}
           /\ \A j \in 0 .. n - 1 :
                 GetValue(UpdateCounter(t, idx, incr), j) =
                     IF j = idx THEN Saturate(GetValue(t, idx), incr) ELSE GetValue(t, j)
<1> DEFINE e == idx \div 4
           f == FieldOf(idx)
           u == UpdateCounter(t, idx, incr)
           v == Saturate(GetValue(t, idx), incr)
<1>1. e \in Elems(n) /\ f \in Fields
  BY ElemInArray
<1>2. GetValue(t, idx) \in 0 .. 3
  BY CountersTyped
<1>3. v \in 0 .. 3
  BY <1>2, SaturateInRange
<1>4. /\ u.n_entries = n
      /\ u.valid = t.valid \cup {idx}
      /\ u.arr = [t.arr EXCEPT ![e] = [t.arr[e] EXCEPT ![f] = v]]
  BY DEF UpdateCounter, CounterArrays
<1> HIDE DEF e, f, u, v
<1>8. t.arr \in [Elems(n) -> [Fields -> 0 .. 3]] /\ t.arr[e] \in [Fields -> 0 .. 3]
  BY <1>1 DEF CounterArrays
<1>5. [t.arr[e] EXCEPT ![f] = v] \in [Fields -> 0 .. 3]
  BY <1>1, <1>3, <1>8
<1>6. u \in CounterArrays(n)
  <2>1. [t.arr EXCEPT ![e] = [t.arr[e] EXCEPT ![f] = v]] \in [Elems(n) -> [Fields -> 0 .. 3]]
    BY <1>1, <1>5, <1>8
  <2>2. u = [n_entries |-> n, arr |-> u.arr, valid |-> u.valid]
    <3> DEFINE r == [n_entries |-> n, arr |-> t.arr, valid |-> t.valid]
               m == [n_entries |-> n, arr |-> t.arr, valid |-> t.valid \cup {idx}]
    <3>1. t = r
      BY DEF CounterArrays
    <3>2. [r EXCEPT !.valid = @ \cup {idx}] = m
      OBVIOUS
    <3>3. u = [[t EXCEPT !.valid = @ \cup {idx}] EXCEPT !.arr[idx \div 4][FieldOf(idx)] = v]
      BY DEF u, v, UpdateCounter
    <3>4. u = [m EXCEPT !.arr[idx \div 4][FieldOf(idx)] = v]
      BY <3>1, <3>2, <3>3, Zenon
    <3> QED
      BY <3>4
  <2>3. u.valid \in SUBSET (0 .. n - 1)
    BY <1>4 DEF CounterArrays
  <2> QED
    BY <1>4, <2>1, <2>2, <2>3 DEF CounterArrays
<1>7. ASSUME NEW j \in 0 .. n - 1
      PROVE  u.arr[j \div 4][FieldOf(j)] = IF j = idx THEN v ELSE t.arr[j \div 4][FieldOf(j)]
  <2>1. j \div 4 \in Elems(n) /\ FieldOf(j) \in Fields
    BY ElemInArray
  <2>2. CASE j = idx
    <3>1. j \div 4 = e /\ FieldOf(j) = f
      BY <2>2 DEF e, f
    <3>2. u.arr[e] = [t.arr[e] EXCEPT ![f] = v]
      BY <1>1, <1>4, <1>8
    <3>3. u.arr[e][f] = v
      BY <1>1, <1>8, <3>2
    <3>4. u.arr[j \div 4][FieldOf(j)] = u.arr[e][f]
      BY <3>1, Zenon
    <3> QED
      BY <2>2, <3>3, <3>4
  <2>3. CASE j # idx /\ j \div 4 = idx \div 4
    <3>1. FieldOf(j) # f
      BY <2>3, PlacesDiffer DEF f
    <3>2. j \div 4 = e
      BY <2>3 DEF e
    <3>3. u.arr[e] = [t.arr[e] EXCEPT ![f] = v]
      BY <1>1, <1>4, <1>8
    <3>4. u.arr[e][FieldOf(j)] = t.arr[e][FieldOf(j)]
      BY <1>8, <2>1, <3>1, <3>3
    <3>5. /\ u.arr[j \div 4][FieldOf(j)] = u.arr[e][FieldOf(j)]
          /\ t.arr[j \div 4][FieldOf(j)] = t.arr[e][FieldOf(j)]
      BY <3>2, Zenon
    <3> QED
      BY <2>3, <3>4, <3>5
  <2>4. CASE j # idx /\ j \div 4 # idx \div 4
    BY <1>1, <1>4, <2>1, <2>4 DEF e
  <2> QED
    BY <2>2, <2>3, <2>4
<1> QED
  BY <1>4, <1>6, <1>7 DEF GetValue, u, v

(* Two outcomes in a row decide the prediction, whatever came before: the  *)
(* hysteresis of a two-bit counter.                                        *)
THEOREM TwoOutcomesTeach ==
    ASSUME NEW v \in 0 .. 3, NEW way \in BOOLEAN
    PROVE  Saturate(Saturate(v, way), way) > 1 <=> way
<1>1. CASE way
  BY <1>1 DEF Saturate
<1>2. CASE ~way
  BY <1>2 DEF Saturate
<1> QED
  BY <1>1, <1>2
=============================================================================
