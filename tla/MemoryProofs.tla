---------------------------- MODULE MemoryProofs ----------------------------
(***************************************************************************)
(* The loads and stores are the architecture's, for every memory of whole  *)
(* words, every width of a byte and every number of instructions; and the  *)
(* calls of the monitor leave what the program can read, and implement the *)
(* file service, for all files, arguments and numbers of descriptors.      *)
(***************************************************************************)
EXTENDS Memory, HostCalls, PredictorLemmas, SequenceTheorems

USE ByteBitsAssumption, MemoryAssumption

(* Memory and registers hold bytes.                                        *)
BytesOK ==
    /\ el \in BOOLEAN
    /\ mem \in [Addr -> Byte]
    /\ gpr \in [Regs -> Word(4)]
    /\ cpr1 \in [FpRegs -> Word(4)]

(* The word an address lies in, and where in it.                           *)
LEMMA WordsWhole ==
    ASSUME NEW ea \in Addr
    PROVE  /\ ea \in Nat /\ WordOf(ea) \in Nat
           /\ ea % 4 \in 0 .. 3 /\ ea = WordOf(ea) + (ea % 4)
           /\ WordOf(ea) \in Addr
           /\ Span(WordOf(ea), 4) = WordOf(ea) .. WordOf(ea) + 3
           /\ WordOf(ea) .. WordOf(ea) + 3 \subseteq Addr
<1>1. ea \in Nat /\ ea % 4 \in 0 .. 3 /\ ea % 4 <= ea
  OBVIOUS
<1>2. WordOf(ea) \in Nat /\ ea = WordOf(ea) + (ea % 4)
  BY <1>1 DEF WordOf
<1>3. WordOf(ea) .. WordOf(ea) + 3 \subseteq Addr
  BY DEF WordOf
<1>4. Span(WordOf(ea), 4) = WordOf(ea) .. WordOf(ea) + 3 /\ WordOf(ea) \in Addr
  BY <1>2, <1>3 DEF Span
<1> QED
  BY <1>1, <1>2, <1>3, <1>4

(* An address is one of the four bytes of its word, counted from either    *)
(* end.                                                                    *)
LEMMA OffsetInWord ==
    ASSUME NEW ea \in Addr, el \in BOOLEAN
    PROVE  /\ Offset(ea) \in 0 .. 3 /\ 3 - Offset(ea) \in 0 .. 3
           /\ Offset(ea) = IF el THEN 3 - (ea % 4) ELSE ea % 4
<1>1. ea % 4 \in 0 .. 3
  BY WordsWhole
<1> QED
  BY <1>1 DEF Offset

(* load<T, EL> gathers the bytes of n addresses in the order of the        *)
(* program.                                                                *)
LEMMA LoadLanes ==
    ASSUME BytesOK, NEW ea \in Nat, NEW n \in {1, 2, 4, 8}, Span(ea, n) \subseteq Addr
    PROVE  /\ Load(ea, n) \in Word(n)
           /\ \A l \in Lanes(n) : Load(ea, n)[l] = mem[IF el THEN ea + l ELSE ea + (n - 1 - l)]
<1>1. \A l \in Lanes(n) : ea + l \in Addr /\ n - 1 - l \in Lanes(n)
  BY DEF Lanes, Span
<1>2. HostRead(ea, n) = [l \in Lanes(n) |-> mem[ea + l]]
  BY DEF HostRead
<1>3. CASE el
  BY <1>1, <1>2, <1>3 DEF Load, Bswap, BytesOK, Word
<1>4. CASE ~el
  <2>1. Load(ea, n) = [l \in Lanes(n) |-> HostRead(ea, n)[n - 1 - l]]
    BY <1>4 DEF Load, Bswap
  <2>2. \A l \in Lanes(n) : Load(ea, n)[l] = mem[ea + (n - 1 - l)]
    BY <1>1, <1>2, <2>1
  <2>3. \A l \in Lanes(n) : mem[ea + (n - 1 - l)] \in Byte
    BY <1>1 DEF BytesOK
  <2>4. Load(ea, n) \in Word(n)
    BY <2>1, <2>2, <2>3 DEF Word
  <2> QED
    BY <1>4, <2>2, <2>4
<1> QED
  BY <1>3, <1>4 DEF BytesOK

(* A load of any width puts the architecture's byte of memory into each    *)
(* lane.                                                                   *)
LEMMA LoadIsValue ==
    ASSUME BytesOK, NEW ea \in Nat, NEW n \in {1, 2, 4, 8}, Span(ea, n) \subseteq Addr
    PROVE  Load(ea, n) = Arch!Value(ea, n)
<1> DEFINE at(l) == IF el THEN ea + l ELSE ea + (n - 1 - l)
           whole == Arch!Whole(ea, n)
<1>1. DOMAIN whole = ea .. ea + n - 1
  BY DEF Arch!Whole, Arch!Span
<1>2. \A a \in ea .. ea + n - 1 : whole[a] = IF el THEN a - ea ELSE n - 1 - (a - ea)
  BY DEF Arch!Whole, Arch!Span
<1>3. ASSUME NEW l \in Lanes(n)
      PROVE  /\ at(l) \in DOMAIN whole
             /\ \A a \in DOMAIN whole : whole[a] = l <=> a = at(l)
  <2> HIDE DEF whole
  <2> QED
    BY <1>1, <1>2 DEF Lanes
<1> HIDE DEF whole
<1>4. ASSUME NEW l \in Lanes(n)
      PROVE  /\ \E a \in DOMAIN whole : whole[a] = l
             /\ (CHOOSE a \in DOMAIN whole : whole[a] = l) = at(l)
  <2> HIDE DEF at
  <2> QED
    BY <1>3
<1>5. Arch!Value(ea, n) = [l \in Lanes(n) |-> mem[at(l)]]
  <2>1. Arch!Value(ea, n) =
          [l \in Lanes(n) |-> IF \E a \in DOMAIN whole : whole[a] = l
                                THEN mem[CHOOSE a \in DOMAIN whole : whole[a] = l] ELSE {}]
    BY DEF Arch!Value, Arch!Loaded, Arch!Nothing, Lanes, Arch!Lanes, whole
  <2> HIDE DEF at
  <2> QED
    BY <1>4, <2>1
<1>6. Load(ea, n) = [l \in Lanes(n) |-> Load(ea, n)[l]]
  BY LoadLanes DEF Word
<1> QED
  BY <1>5, <1>6, LoadLanes

(* Assigning the swapped lanes puts each where the program's order says.   *)
LEMMA StoreIsStored ==
    ASSUME BytesOK, NEW ea \in Nat, NEW n \in {1, 2, 4, 8}, NEW w
    PROVE  HostWrite(ea, n, Bswap(el, w, n)) = Arch!Stored(Arch!Whole(ea, n), w)
<1> DEFINE whole == Arch!Whole(ea, n)
<1>1. DOMAIN whole = Span(ea, n)
  BY DEF Arch!Whole, Arch!Span, Span
<1>2. \A a \in Span(ea, n) : whole[a] = IF el THEN a - ea ELSE n - 1 - (a - ea)
  BY DEF Arch!Whole, Arch!Span, Span
<1>3. \A a \in Span(ea, n) : a - ea \in Lanes(n)
  BY DEF Span, Lanes
<1>4. \A a \in Span(ea, n) : Bswap(el, w, n)[a - ea] = w[whole[a]]
  BY <1>2, <1>3 DEF Bswap, BytesOK
<1> HIDE DEF whole
<1> QED
  BY <1>1, <1>4 DEF HostWrite, Arch!Stored, whole

-----------------------------------------------------------------------------
(* The word an unaligned instruction reads, lane by lane.                  *)
LEMMA WordLanes ==
    ASSUME BytesOK, NEW ea \in Addr
    PROVE  /\ Load(WordOf(ea), 4) \in Word(4)
           /\ \A l \in 0 .. 3 : Load(WordOf(ea), 4)[l] =
                 mem[IF el THEN ea - (ea % 4) + l ELSE ea - (ea % 4) + 3 - l]
<1>1. Load(WordOf(ea), 4) \in Word(4)
  BY LoadLanes, WordsWhole
<1>2. \A l \in Lanes(4) : Load(WordOf(ea), 4)[l] = mem[IF el THEN WordOf(ea) + l ELSE WordOf(ea) + (4 - 1 - l)]
  BY LoadLanes, WordsWhole
<1> QED
  BY <1>1, <1>2, WordsWhole DEF WordOf, Lanes

(* lwl fills the upper lanes from the word that holds the most significant *)
(* byte, and leaves the lanes below.                                       *)
LEMMA LeftLoaded ==
    ASSUME BytesOK, NEW ea \in Addr, NEW w \in Word(4)
    PROVE  Join(LanesUp(Keep(Load(WordOf(ea), 4), LwlTaken(Offset(ea))), Offset(ea)),
                Keep(w, Below(Offset(ea)))) = Arch!Loaded(Arch!Left(ea), w)
<1> DEFINE k == ea % 4
           ma == Offset(ea)
           W == WordOf(ea)
           r == Load(W, 4)
           taken == LwlTaken(ma)
           left == Arch!Left(ea)
           at(l) == IF el THEN ea - 3 + l ELSE ea + 3 - l
           joined == Join(LanesUp(Keep(r, taken), ma), Keep(w, Below(ma)))
<1>1. k \in 0 .. 3 /\ ea = W + k /\ W \in Nat /\ ma = (IF el THEN 3 - k ELSE k) /\ ma \in 0 .. 3
  BY WordsWhole DEF Offset
<1>2. /\ DOMAIN left = IF el THEN W .. ea ELSE ea .. W + 3
      /\ \A a \in DOMAIN left : left[a] = IF el THEN 3 - (ea - a) ELSE 3 - (a - ea)
  BY DEF Arch!Left, Arch!WordOf, WordOf
<1> HIDE DEF left
<1>3. ASSUME NEW l \in 0 .. 3, l >= ma
      PROVE  /\ \E a \in DOMAIN left : left[a] = l
             /\ (CHOOSE a \in DOMAIN left : left[a] = l) = at(l)
  <2>1. at(l) \in DOMAIN left /\ \A a \in DOMAIN left : left[a] = l <=> a = at(l)
    <3> HIDE DEF k, ma, W
    <3> QED
      BY <1>1, <1>2, <1>3
  <2> HIDE DEF at
  <2> QED
    BY <2>1
<1>4. ASSUME NEW l \in 0 .. 3, l < ma, NEW a \in DOMAIN left
      PROVE  left[a] # l
  <2> HIDE DEF k, ma, W
  <2> QED
    BY <1>1, <1>2, <1>4
<1>5. ASSUME NEW l \in 0 .. 3, l >= ma
      PROVE  l - ma \in 0 .. 3 /\ l - ma \in taken /\ r[l - ma] = mem[at(l)]
  <2>1. l - ma \in 0 .. 3 /\ l - ma \in taken
    BY <1>1, <1>5 DEF LwlTaken, Below, Lanes
  <2>2. r[l - ma] = mem[IF el THEN W + (l - ma) ELSE W + 3 - (l - ma)]
    BY <2>1, WordLanes DEF WordOf
  <2>3. at(l) = IF el THEN W + (l - ma) ELSE W + 3 - (l - ma)
    <3> HIDE DEF k, ma, W
    <3> QED
      BY <1>1, <1>5
  <2> QED
    BY <2>1, <2>2, <2>3
<1> HIDE DEF k, ma, W, r, taken, at
<1>6. ASSUME NEW l \in 0 .. 3
      PROVE  joined[l] = IF l >= ma THEN mem[at(l)] ELSE w[l]
  <2>1. joined[l] = LanesUp(Keep(r, taken), ma)[l] \cup Keep(w, Below(ma))[l]
    BY DEF Join, Lanes
  <2>2. Keep(w, Below(ma))[l] = IF l >= ma THEN {} ELSE w[l]
    BY <1>1 DEF Keep, Below, Lanes
  <2>3. CASE l >= ma
    <3>1. LanesUp(Keep(r, taken), ma)[l] = Keep(r, taken)[l - ma]
      BY <2>3 DEF LanesUp, Lanes
    <3>2. Keep(r, taken)[l - ma] = mem[at(l)]
      BY <1>5, <2>3 DEF Keep, Lanes
    <3> QED
      BY <2>1, <2>2, <2>3, <3>1, <3>2
  <2>4. CASE ~(l >= ma)
    <3>1. LanesUp(Keep(r, taken), ma)[l] = {}
      BY <2>4 DEF LanesUp, Lanes
    <3> QED
      BY <2>1, <2>2, <2>4, <3>1
  <2> QED
    BY <2>3, <2>4
<1>7. joined = [l \in 0 .. 3 |-> IF l >= ma THEN mem[at(l)] ELSE w[l]]
  BY <1>6 DEF Join, Lanes
<1>8. DOMAIN w = 0 .. 3
  BY DEF Word, Lanes
<1>9. Arch!Loaded(left, w) = [l \in 0 .. 3 |-> IF l >= ma THEN mem[at(l)] ELSE w[l]]
  <2>1. Arch!Loaded(left, w) =
          [l \in 0 .. 3 |-> IF \E a \in DOMAIN left : left[a] = l
                             THEN mem[CHOOSE a \in DOMAIN left : left[a] = l] ELSE w[l]]
    BY <1>8 DEF Arch!Loaded
  <2>2. ASSUME NEW l \in 0 .. 3
        PROVE  (IF \E a \in DOMAIN left : left[a] = l
                  THEN mem[CHOOSE a \in DOMAIN left : left[a] = l] ELSE w[l])
                = IF l >= ma THEN mem[at(l)] ELSE w[l]
    <3>1. CASE l >= ma
      BY <1>3, <3>1
    <3>2. CASE ~(l >= ma)
      <4>1. l < ma
        BY <1>1, <3>2
      <4>2. ~ \E a \in DOMAIN left : left[a] = l
        BY <1>4, <4>1
      <4> QED
        BY <3>2, <4>2
    <3> QED
      BY <3>1, <3>2
  <2> QED
    BY <2>1, <2>2
<1> QED
  BY <1>7, <1>9 DEF joined, left, ma, W, r, taken

(* lwr fills the lower lanes, from the word of the least significant byte. *)
LEMMA RightLoaded ==
    ASSUME BytesOK, NEW ea \in Addr, NEW w \in Word(4)
    PROVE  Join(Keep(w, Lanes(4) \ Below(Offset(ea) + 1)),
                LanesDown(Load(WordOf(ea), 4), 3 - Offset(ea))) = Arch!Loaded(Arch!Right(ea), w)
<1> DEFINE k == ea % 4
           ma == Offset(ea)
           W == WordOf(ea)
           r == Load(W, 4)
           right == Arch!Right(ea)
           at(l) == IF el THEN ea + l ELSE ea - l
           joined == Join(Keep(w, Lanes(4) \ Below(ma + 1)), LanesDown(r, 3 - ma))
<1>1. k \in 0 .. 3 /\ ea = W + k /\ W \in Nat /\ ma = (IF el THEN 3 - k ELSE k) /\ ma \in 0 .. 3
  BY WordsWhole DEF Offset
<1>2. /\ DOMAIN right = IF el THEN ea .. W + 3 ELSE W .. ea
      /\ \A a \in DOMAIN right : right[a] = IF el THEN a - ea ELSE ea - a
  BY DEF Arch!Right, Arch!WordOf, WordOf
<1> HIDE DEF right
<1>3. ASSUME NEW l \in 0 .. 3, l <= ma
      PROVE  /\ \E a \in DOMAIN right : right[a] = l
             /\ (CHOOSE a \in DOMAIN right : right[a] = l) = at(l)
  <2>1. at(l) \in DOMAIN right /\ \A a \in DOMAIN right : right[a] = l <=> a = at(l)
    <3> HIDE DEF k, ma, W
    <3> QED
      BY <1>1, <1>2, <1>3
  <2> HIDE DEF at
  <2> QED
    BY <2>1
<1>4. ASSUME NEW l \in 0 .. 3, l > ma
      PROVE  ~ \E a \in DOMAIN right : right[a] = l
  <2> HIDE DEF k, ma, W
  <2> QED
    BY <1>1, <1>2, <1>4
<1>5. ASSUME NEW l \in 0 .. 3, l <= ma
      PROVE  l + (3 - ma) \in 0 .. 3 /\ r[l + (3 - ma)] = mem[at(l)]
  <2>1. l + (3 - ma) \in 0 .. 3
    <3> HIDE DEF k, ma, W
    <3> QED
      BY <1>1, <1>5
  <2>2. r[l + (3 - ma)] = mem[IF el THEN W + (l + (3 - ma)) ELSE W + 3 - (l + (3 - ma))]
    BY <2>1, WordLanes DEF WordOf
  <2>3. at(l) = IF el THEN W + (l + (3 - ma)) ELSE W + 3 - (l + (3 - ma))
    <3> HIDE DEF k, ma, W
    <3> QED
      BY <1>1, <1>5
  <2> QED
    BY <2>1, <2>2, <2>3
<1> HIDE DEF k, ma, W, r, at
<1>6. ASSUME NEW l \in 0 .. 3
      PROVE  joined[l] = IF l <= ma THEN mem[at(l)] ELSE w[l]
  <2>1. joined[l] = Keep(w, Lanes(4) \ Below(ma + 1))[l] \cup LanesDown(r, 3 - ma)[l]
    BY DEF Join, Lanes
  <2>2. Keep(w, Lanes(4) \ Below(ma + 1))[l] = IF l <= ma THEN {} ELSE w[l]
    BY <1>1 DEF Keep, Below, Lanes
  <2>3. LanesDown(r, 3 - ma)[l] = IF l <= ma THEN r[l + (3 - ma)] ELSE {}
    BY <1>1 DEF LanesDown, Lanes
  <2> QED
    BY <1>5, <2>1, <2>2, <2>3
<1>7. joined = [l \in 0 .. 3 |-> IF l <= ma THEN mem[at(l)] ELSE w[l]]
  <2>1. joined = [l \in 0 .. 3 |-> joined[l]]
    BY DEF Join, Lanes
  <2> HIDE DEF joined
  <2> QED
    BY <1>6, <2>1
<1>8. DOMAIN w = 0 .. 3
  BY DEF Word, Lanes
<1>9. Arch!Loaded(right, w) = [l \in 0 .. 3 |-> IF l <= ma THEN mem[at(l)] ELSE w[l]]
  <2>1. Arch!Loaded(right, w) =
          [l \in 0 .. 3 |-> IF \E a \in DOMAIN right : right[a] = l
                             THEN mem[CHOOSE a \in DOMAIN right : right[a] = l] ELSE w[l]]
    BY <1>8 DEF Arch!Loaded
  <2>2. ASSUME NEW l \in 0 .. 3
        PROVE  (IF \E a \in DOMAIN right : right[a] = l
                  THEN mem[CHOOSE a \in DOMAIN right : right[a] = l] ELSE w[l])
                = IF l <= ma THEN mem[at(l)] ELSE w[l]
    <3>1. CASE l <= ma
      BY <1>3, <3>1
    <3>2. CASE ~(l <= ma)
      <4>1. l > ma
        BY <1>1, <3>2
      <4> QED
        BY <1>4, <3>2, <4>1
    <3> QED
      BY <3>1, <3>2
  <2> QED
    BY <2>1, <2>2
<1> QED
  BY <1>7, <1>9 DEF joined, right, ma, W, r

-----------------------------------------------------------------------------
(* A word merged from memory and a register, and stored again: what counts *)
(* is each of its four bytes.                                              *)
LEMMA MergedWord ==
    ASSUME BytesOK, NEW W \in Nat, NEW x, NEW lanes, NEW w,
           DOMAIN lanes \subseteq W .. W + 3,
           \A a \in W .. W + 3 :
              x[IF el THEN a - W ELSE 3 - (a - W)] = IF a \in DOMAIN lanes THEN w[lanes[a]] ELSE mem[a]
    PROVE  HostWrite(W, 4, Bswap(el, x, 4)) = Arch!Stored(lanes, w)
<1> DEFINE whole == Arch!Whole(W, 4)
<1>1. HostWrite(W, 4, Bswap(el, x, 4)) = Arch!Stored(whole, x)
  BY StoreIsStored
<1>2. DOMAIN whole = W .. W + 3 /\ \A a \in W .. W + 3 : whole[a] = IF el THEN a - W ELSE 3 - (a - W)
  BY DEF Arch!Whole, Arch!Span
<1> HIDE DEF whole
<1>3. \A a \in Addr : (IF a \in DOMAIN whole THEN x[whole[a]] ELSE mem[a])
                        = IF a \in DOMAIN lanes THEN w[lanes[a]] ELSE mem[a]
  BY <1>2
<1> QED
  BY <1>1, <1>3 DEF Arch!Stored

(* swl of an address that is not the last of its word.                     *)
LEMMA LeftStored ==
    ASSUME BytesOK, NEW ea \in Addr, NEW w \in Word(4), Offset(ea) # 0
    PROVE  HostWrite(WordOf(ea), 4,
              Bswap(el, Join(Keep(Load(WordOf(ea), 4), Lanes(4) \ Below(4 - Offset(ea))),
                             LanesDown(w, Offset(ea))), 4)) = Arch!Stored(Arch!Left(ea), w)
<1> DEFINE k == ea % 4
           ma == Offset(ea)
           W == WordOf(ea)
           r == Load(W, 4)
           left == Arch!Left(ea)
           x == Join(Keep(r, Lanes(4) \ Below(4 - ma)), LanesDown(w, ma))
           lane(a) == IF el THEN a - W ELSE 3 - (a - W)
<1>1. k \in 0 .. 3 /\ ea = W + k /\ W \in Nat /\ ma = (IF el THEN 3 - k ELSE k) /\ ma \in 1 .. 3
  <2>1. k \in 0 .. 3 /\ ea = W + k /\ W \in Nat
    BY WordsWhole
  <2>2. ma = IF el THEN 3 - k ELSE k
    BY DEF Offset
  <2> HIDE DEF k, W, ma
  <2>3. ma # 0
    BY DEF ma
  <2> QED
    BY <2>1, <2>2, <2>3
<1>2. /\ DOMAIN left = IF el THEN W .. ea ELSE ea .. W + 3
      /\ \A a \in DOMAIN left : left[a] = IF el THEN 3 - (ea - a) ELSE 3 - (a - ea)
  BY DEF Arch!Left, Arch!WordOf, WordOf
<1> HIDE DEF left
<1>3. ASSUME NEW l \in 0 .. 3
      PROVE  x[l] = IF l < 4 - ma THEN w[l + ma] ELSE r[l]
  <2>1. x[l] = Keep(r, Lanes(4) \ Below(4 - ma))[l] \cup LanesDown(w, ma)[l]
    BY DEF Join, Lanes
  <2>2. Keep(r, Lanes(4) \ Below(4 - ma))[l] = IF l < 4 - ma THEN {} ELSE r[l]
    BY <1>1 DEF Keep, Below, Lanes
  <2>3. LanesDown(w, ma)[l] = IF l < 4 - ma THEN w[l + ma] ELSE {}
    BY <1>1 DEF LanesDown, Lanes
  <2> QED
    BY <2>1, <2>2, <2>3
<1>4. ASSUME NEW a \in W .. W + 3
      PROVE  x[lane(a)] = IF a \in DOMAIN left THEN w[left[a]] ELSE mem[a]
  <2>1. /\ lane(a) \in 0 .. 3
        /\ lane(a) < 4 - ma <=> a \in DOMAIN left
        /\ a \in DOMAIN left => left[a] = lane(a) + ma
        /\ a = IF el THEN W + lane(a) ELSE W + 3 - lane(a)
    <3> HIDE DEF k, ma, W
    <3>1. /\ lane(a) \in 0 .. 3
          /\ a = IF el THEN W + lane(a) ELSE W + 3 - lane(a)
      BY <1>1
    <3>2. lane(a) < 4 - ma <=> a \in DOMAIN left
      <4>1. CASE el
        BY <4>1, <1>1, <1>2
      <4>2. CASE ~el
        BY <4>2, <1>1, <1>2
      <4> QED
        BY <4>1, <4>2
    <3>3. ASSUME a \in DOMAIN left
          PROVE  left[a] = lane(a) + ma
      <4>1. CASE el
        BY <3>3, <4>1, <1>1, <1>2
      <4>2. CASE ~el
        BY <3>3, <4>2, <1>1, <1>2
      <4> QED
        BY <4>1, <4>2
    <3> QED
      BY <3>1, <3>2, <3>3
  <2>2. r[lane(a)] = mem[a]
    <3>1. \A l \in 0 .. 3 : r[l] = mem[IF el THEN W + l ELSE W + 3 - l]
      BY WordLanes DEF WordOf
    <3> HIDE DEF r, W, lane
    <3> QED
      BY <2>1, <3>1
  <2> HIDE DEF x, lane, r, ma
  <2> QED
    BY <1>3, <2>1, <2>2
<1>5. DOMAIN left \subseteq W .. W + 3
  <2> HIDE DEF k, W
  <2> QED
    BY <1>1, <1>2
<1> HIDE DEF x, W, ma, r
<1>6. HostWrite(W, 4, Bswap(el, x, 4)) = Arch!Stored(left, w)
  BY <1>1, <1>4, <1>5, MergedWord
<1> QED
  BY <1>6 DEF x, W, ma, r, left

(* swl of the last address of its word: the register's bits, and bits of   *)
(* memory beside them if they are kept.                                    *)
LEMMA FullLeftStored ==
    ASSUME BytesOK, NEW ea \in Addr, NEW w \in Word(4), Offset(ea) = 0, NEW m, m = Lanes(4) \/ m = {},
           mem' = HostWrite(WordOf(ea), 4,
                     Bswap(el, Join(Keep(Load(WordOf(ea), 4), m), LanesDown(w, 0)), 4))
    PROVE  /\ DOMAIN Arch!Left(ea) = Span(WordOf(ea), 4)
           /\ \A a \in Addr : LET stored == Arch!Stored(Arch!Left(ea), w) IN
                 stored[a] \subseteq mem'[a] /\ mem'[a] \subseteq stored[a] \cup mem[a]
<1> DEFINE W == WordOf(ea)
           r == Load(W, 4)
           left == Arch!Left(ea)
           x == Join(Keep(r, m), LanesDown(w, 0))
           lane(a) == IF el THEN a - W ELSE 3 - (a - W)
<1>1. W \in Nat /\ ea = (IF el THEN W + 3 ELSE W) /\ Span(W, 4) = W .. W + 3
  <2>1. ea % 4 \in 0 .. 3 /\ ea = W + (ea % 4) /\ W \in Nat /\ Span(W, 4) = W .. W + 3
    BY WordsWhole
  <2>2. 0 = IF el THEN 3 - (ea % 4) ELSE ea % 4
    BY DEF Offset
  <2> HIDE DEF W
  <2> QED
    BY <2>1, <2>2
<1>2. /\ DOMAIN left = IF el THEN W .. ea ELSE ea .. W + 3
      /\ \A a \in DOMAIN left : left[a] = IF el THEN 3 - (ea - a) ELSE 3 - (a - ea)
  BY DEF Arch!Left, Arch!WordOf, WordOf
<1> HIDE DEF left
<1>3. ASSUME NEW l \in 0 .. 3
      PROVE  w[l] \subseteq x[l] /\ x[l] \subseteq w[l] \cup r[l]
  <2>1. x[l] = Keep(r, m)[l] \cup LanesDown(w, 0)[l]
    BY DEF Join, Lanes
  <2>2. Keep(r, m)[l] = r[l] \/ Keep(r, m)[l] = {}
    BY DEF Keep, Lanes
  <2>3. LanesDown(w, 0)[l] = w[l]
    BY DEF LanesDown, Lanes
  <2> QED
    BY <2>1, <2>2, <2>3
<1>4. ASSUME NEW a \in W .. W + 3
      PROVE  /\ lane(a) \in 0 .. 3 /\ a \in DOMAIN left /\ left[a] = lane(a)
             /\ a = IF el THEN W + lane(a) ELSE W + 3 - lane(a)
  <2> HIDE DEF W
  <2> QED
    BY <1>1, <1>2
<1>5. ASSUME NEW a \in W .. W + 3
      PROVE  r[lane(a)] = mem[a]
  <2>1. \A l \in 0 .. 3 : r[l] = mem[IF el THEN W + l ELSE W + 3 - l]
    BY WordLanes DEF WordOf
  <2> HIDE DEF r, W, lane
  <2> QED
    BY <1>4, <2>1
<1>6. mem' = Arch!Stored(Arch!Whole(W, 4), x)
  <2> HIDE DEF x, W
  <2>1. mem' = HostWrite(W, 4, Bswap(el, x, 4))
    BY DEF x, W
  <2> QED
    BY <1>1, <2>1, StoreIsStored
<1>7. DOMAIN Arch!Whole(W, 4) = W .. W + 3 /\ \A a \in W .. W + 3 : Arch!Whole(W, 4)[a] = lane(a)
  BY DEF Arch!Whole, Arch!Span
<1>8. DOMAIN left = W .. W + 3
  <2> HIDE DEF W
  <2> QED
    BY <1>1, <1>2
<1> HIDE DEF x, W, r, lane
<1>9. ASSUME NEW a \in Addr
      PROVE  Arch!Stored(left, w)[a] \subseteq mem'[a] /\ mem'[a] \subseteq Arch!Stored(left, w)[a] \cup mem[a]
  <2>1. /\ mem'[a] = IF a \in W .. W + 3 THEN x[lane(a)] ELSE mem[a]
        /\ Arch!Stored(left, w)[a] = IF a \in W .. W + 3 THEN w[left[a]] ELSE mem[a]
    BY <1>6, <1>7, <1>8 DEF Arch!Stored
  <2>2. CASE a \in W .. W + 3
    <3>1. lane(a) \in 0 .. 3 /\ left[a] = lane(a) /\ r[lane(a)] = mem[a]
      BY <1>4, <1>5, <2>2
    <3>2. mem'[a] = x[lane(a)] /\ Arch!Stored(left, w)[a] = w[lane(a)]
      BY <2>1, <2>2, <3>1
    <3> QED
      BY <1>3, <3>1, <3>2
  <2>3. CASE a \notin W .. W + 3
    BY <2>1, <2>3
  <2> QED
    BY <2>2, <2>3
<1> QED
  BY <1>1, <1>8, <1>9 DEF left, W

(* swr of any address.                                                     *)
LEMMA RightStored ==
    ASSUME BytesOK, NEW ea \in Addr, NEW w \in Word(4)
    PROVE  HostWrite(WordOf(ea), 4,
              Bswap(el, Join(LanesUp(w, 3 - Offset(ea)),
                             Keep(Load(WordOf(ea), 4), Below(3 - Offset(ea)))), 4))
             = Arch!Stored(Arch!Right(ea), w)
<1> DEFINE k == ea % 4
           ma == Offset(ea)
           W == WordOf(ea)
           r == Load(W, 4)
           right == Arch!Right(ea)
           x == Join(LanesUp(w, 3 - ma), Keep(r, Below(3 - ma)))
           lane(a) == IF el THEN a - W ELSE 3 - (a - W)
<1>1. k \in 0 .. 3 /\ ea = W + k /\ W \in Nat /\ ma = (IF el THEN 3 - k ELSE k) /\ ma \in 0 .. 3
  BY WordsWhole DEF Offset
<1>2. /\ DOMAIN right = IF el THEN ea .. W + 3 ELSE W .. ea
      /\ \A a \in DOMAIN right : right[a] = IF el THEN a - ea ELSE ea - a
  BY DEF Arch!Right, Arch!WordOf, WordOf
<1> HIDE DEF right
<1>3. ASSUME NEW l \in 0 .. 3
      PROVE  x[l] = IF l >= 3 - ma THEN w[l - (3 - ma)] ELSE r[l]
  <2>1. x[l] = LanesUp(w, 3 - ma)[l] \cup Keep(r, Below(3 - ma))[l]
    BY DEF Join, Lanes
  <2>2. Keep(r, Below(3 - ma))[l] = IF l >= 3 - ma THEN {} ELSE r[l]
    <3>1. l \in Below(3 - ma) <=> ~(l >= 3 - ma)
      <4> HIDE DEF k, ma, W
      <4> QED
        BY <1>1 DEF Below, Lanes
    <3> HIDE DEF ma, r
    <3> QED
      BY <3>1 DEF Keep, Lanes
  <2>3. LanesUp(w, 3 - ma)[l] = IF l >= 3 - ma THEN w[l - (3 - ma)] ELSE {}
    BY <1>1 DEF LanesUp, Lanes
  <2> QED
    BY <2>1, <2>2, <2>3
<1>4. ASSUME NEW a \in W .. W + 3
      PROVE  x[lane(a)] = IF a \in DOMAIN right THEN w[right[a]] ELSE mem[a]
  <2>1. /\ lane(a) \in 0 .. 3
        /\ lane(a) >= 3 - ma <=> a \in DOMAIN right
        /\ a \in DOMAIN right => right[a] = lane(a) - (3 - ma)
        /\ a = IF el THEN W + lane(a) ELSE W + 3 - lane(a)
    <3> HIDE DEF k, ma, W
    <3>1. /\ lane(a) \in 0 .. 3
          /\ a = IF el THEN W + lane(a) ELSE W + 3 - lane(a)
      BY <1>1
    <3>2. lane(a) >= 3 - ma <=> a \in DOMAIN right
      <4>1. CASE el
        BY <4>1, <1>1, <1>2
      <4>2. CASE ~el
        BY <4>2, <1>1, <1>2
      <4> QED
        BY <4>1, <4>2
    <3>3. ASSUME a \in DOMAIN right
          PROVE  right[a] = lane(a) - (3 - ma)
      <4>1. CASE el
        BY <3>3, <4>1, <1>1, <1>2
      <4>2. CASE ~el
        BY <3>3, <4>2, <1>1, <1>2
      <4> QED
        BY <4>1, <4>2
    <3> QED
      BY <3>1, <3>2, <3>3
  <2>2. r[lane(a)] = mem[a]
    <3>1. \A l \in 0 .. 3 : r[l] = mem[IF el THEN W + l ELSE W + 3 - l]
      BY WordLanes DEF WordOf
    <3> HIDE DEF r, W, lane
    <3> QED
      BY <2>1, <3>1
  <2> HIDE DEF x, lane, r, ma
  <2> QED
    BY <1>3, <2>1, <2>2
<1>5. DOMAIN right \subseteq W .. W + 3
  <2> HIDE DEF k, W
  <2> QED
    BY <1>1, <1>2
<1> HIDE DEF x, W, ma, r
<1>6. HostWrite(W, 4, Bswap(el, x, 4)) = Arch!Stored(right, w)
  BY <1>1, <1>4, <1>5, MergedWord
<1> QED
  BY <1>6 DEF x, W, ma, r, right

-----------------------------------------------------------------------------
(* Shifting, masking and joining words gives words.                        *)
LEMMA WordTypes ==
    ASSUME NEW v \in Word(4), NEW w \in Word(4), NEW k \in 0 .. 3, NEW lanes
    PROVE  /\ Keep(v, lanes) \in Word(4) /\ Join(v, w) \in Word(4)
           /\ LanesUp(v, k) \in Word(4) /\ LanesDown(v, k) \in Word(4)
<1>1. \A l \in 0 .. 3 : v[l] \in SUBSET ByteBits /\ w[l] \in SUBSET ByteBits
  BY DEF Word, Lanes, Byte
<1>2. Lanes(4) = 0 .. 3
  BY DEF Lanes
<1>3. Keep(v, lanes) \in Word(4)
  BY <1>1, <1>2 DEF Keep, Word, Byte
<1>4. Join(v, w) \in Word(4)
  BY <1>1, <1>2 DEF Join, Word, Byte
<1>5. LanesUp(v, k) \in Word(4)
  BY <1>1, <1>2 DEF LanesUp, Word, Byte
<1>6. LanesDown(v, k) \in Word(4)
  BY <1>1, <1>2 DEF LanesDown, Word, Byte
<1> QED
  BY <1>3, <1>4, <1>5, <1>6

(* An extended value is a register.                                        *)
LEMMA ExtendedType ==
    ASSUME NEW n \in {1, 2, 4}, NEW w \in Word(n)
    PROVE  SignExtended(w, n) \in Word(4)
<1>1. \A l \in Lanes(n) : w[l] \in Byte
  BY DEF Word
<1>2. \A l \in Lanes(4) : l < n => l \in Lanes(n)
  BY DEF Lanes
<1>3. ByteBits \in Byte /\ {} \in Byte
  BY DEF Byte
<1> QED
  BY <1>1, <1>2, <1>3 DEF SignExtended, Extended, Word

(* A store of any width leaves bytes in memory.                            *)
LEMMA WriteType ==
    ASSUME BytesOK, NEW ea \in Nat, NEW n \in {1, 2, 4, 8}, NEW w, \A l \in Lanes(n) : w[l] \in Byte
    PROVE  HostWrite(ea, n, Bswap(el, w, n)) \in [Addr -> Byte]
<1>1. \A l \in Lanes(n) : Bswap(el, w, n)[l] \in Byte
  BY DEF Bswap, Lanes
<1>2. \A a \in Span(ea, n) : a - ea \in Lanes(n)
  BY DEF Span, Lanes
<1> QED
  BY <1>1, <1>2 DEF HostWrite, BytesOK

(* Two instances of the same helpers.                                      *)
LEMMA SameHelpers ==
    ASSUME NEW w, NEW n, NEW fill
    PROVE  /\ Arch!SignExtended(w, n) = SignExtended(w, n)
           /\ Arch!Extended(w, n, fill) = Extended(w, n, fill)
           /\ Arch!Negative(w, n) <=> Negative(w, n)
           /\ Arch!One = One /\ Arch!Byte = Byte /\ Arch!Lanes(n) = Lanes(n)
           /\ Arch!Word(n) = Word(n) /\ Arch!Span(w, n) = Span(w, n)
           /\ Arch!WordOf(w) = WordOf(w)
  BY DEF Arch!SignExtended, Arch!Extended, Arch!Negative, Arch!One, Arch!Byte, Arch!Lanes,
         Arch!Word, Arch!Span, Arch!WordOf, SignExtended, Extended, Negative, One, Byte, Lanes,
         Word, Span, WordOf

(* A handler is named with its address and its register.                   *)
LEMMA HandlerNamed ==
    ASSUME NEW op, NEW ea, NEW n, NEW rt, Handler(op, ea, n, rt)
    PROVE  /\ Arch!Executes(op, ea, rt)
           /\ last'.op = op /\ last'.ea = ea /\ last'.rt = rt
  BY DEF Handler, Arch!Executes

(* Each handler is an instruction of the architecture.                     *)
LEMMA LoadSignedStep ==
    ASSUME BytesOK, NEW ea \in Addr, NEW rt \in Regs, NEW n \in {1, 2, 4}, NEW op,
           LoadSigned(op, n, ea, rt)
    PROVE  BytesOK' /\ Arch!Executes(op, ea, rt) /\ Arch!Load(ea, n, rt)
<1>0. Arch!Executes(op, ea, rt)
  BY HandlerNamed DEF LoadSigned
<1>1. /\ Span(ea, n) \subseteq Addr /\ el' = el /\ mem' = mem /\ cpr1' = cpr1
      /\ gpr' = [gpr EXCEPT ![rt] = SignExtended(Load(ea, n), n)]
  BY DEF LoadSigned, Handler
<1>2. Load(ea, n) = Arch!Value(ea, n) /\ Load(ea, n) \in Word(n)
  BY <1>1, LoadIsValue, LoadLanes
<1>3. BytesOK'
  BY <1>1, <1>2, ExtendedType DEF BytesOK
<1>4. Arch!Load(ea, n, rt)
  BY <1>1, <1>2, SameHelpers DEF Arch!Load
<1> QED
  BY <1>0, <1>1, <1>3, <1>4

(* lbu and lhu agree with the architecture on the lanes that it does not   *)
(* leave open.                                                             *)
LEMMA LoadUnsignedStep ==
    ASSUME BytesOK, NEW ea \in Addr, NEW rt \in Regs, NEW n \in {1, 2}, NEW op,
           LoadUnsigned(op, n, ea, rt)
    PROVE  BytesOK' /\ Arch!Executes(op, ea, rt) /\ Arch!LoadUnsigned(ea, n, rt)
<1>0. Arch!Executes(op, ea, rt)
  BY HandlerNamed DEF LoadUnsigned
<1>1. /\ Span(ea, n) \subseteq Addr /\ el' = el /\ mem' = mem /\ cpr1' = cpr1
      /\ gpr' = [gpr EXCEPT ![rt] = SignExtended(Load(ea, n), n)]
  BY DEF LoadUnsigned, Handler
<1>2. Load(ea, n) = Arch!Value(ea, n) /\ Load(ea, n) \in Word(n)
  BY <1>1, LoadIsValue, LoadLanes
<1>3. BytesOK'
  BY <1>1, <1>2, ExtendedType DEF BytesOK
<1>4. Arch!LoadUnsigned(ea, n, rt)
  <2> DEFINE v == Arch!Value(ea, n)
             fill == IF Negative(v, n) THEN ByteBits ELSE {}
  <2>1. fill \in Arch!Byte /\ (fill = {} \/ Arch!Negative(v, n))
    BY SameHelpers DEF Byte
  <2>2. gpr' = [gpr EXCEPT ![rt] = Arch!Extended(v, n, fill)]
    BY <1>1, <1>2, SameHelpers DEF SignExtended
  <2>3. \E f \in Arch!Byte : /\ f = {} \/ Arch!Negative(v, n)
                             /\ gpr' = [gpr EXCEPT ![rt] = Arch!Extended(v, n, f)]
    <3> HIDE DEF fill, v
    <3> QED
      BY <2>1, <2>2
  <2>4. Arch!Span(ea, n) \subseteq Addr
    BY <1>1, SameHelpers
  <2> QED
    BY <1>1, <2>3, <2>4, Zenon DEF Arch!LoadUnsigned
<1> QED
  BY <1>0, <1>1, <1>3, <1>4

(* sb, sh and sw are the architecture's stores.                            *)
LEMMA StoreStep ==
    ASSUME BytesOK, NEW ea \in Addr, NEW rt \in Regs, NEW n \in {1, 2, 4}, NEW op,
           Store(op, n, ea, rt)
    PROVE  BytesOK' /\ Arch!Executes(op, ea, rt) /\ Arch!Store(ea, n, rt)
<1>0. Arch!Executes(op, ea, rt)
  BY HandlerNamed DEF Store, StoreWord
<1>1. /\ Span(ea, n) \subseteq Addr /\ el' = el /\ gpr' = gpr /\ cpr1' = cpr1
      /\ mem' = HostWrite(ea, n, Bswap(el, gpr[rt], n))
  BY DEF Store, StoreWord, Handler
<1>2. \A l \in Lanes(n) : gpr[rt][l] \in Byte
  BY DEF BytesOK, Word, Lanes
<1>3. BytesOK'
  BY <1>1, <1>2, WriteType DEF BytesOK
<1>4. Arch!Store(ea, n, rt)
  BY <1>1, StoreIsStored, SameHelpers DEF Arch!Store
<1> QED
  BY <1>0, <1>1, <1>3, <1>4

(* sc stores the word and sets the register to 1.                          *)
LEMMA StoreConditionalStep ==
    ASSUME BytesOK, NEW ea \in Addr, NEW rt \in Regs, StoreConditional(ea, rt)
    PROVE  BytesOK' /\ Arch!Executes("sc", ea, rt) /\ Arch!StoreConditional(ea, rt)
<1>0. Arch!Executes("sc", ea, rt)
  BY HandlerNamed DEF StoreConditional, StoreWord
<1>1. /\ Span(ea, 4) \subseteq Addr /\ el' = el /\ cpr1' = cpr1
      /\ gpr' = [gpr EXCEPT ![rt] = One]
      /\ mem' = HostWrite(ea, 4, Bswap(el, gpr[rt], 4))
  BY DEF StoreConditional, StoreWord, Handler
<1>2. \A l \in Lanes(4) : gpr[rt][l] \in Byte
  BY DEF BytesOK, Word, Lanes
<1>3. One \in Word(4)
  BY DEF One, Word, Byte
<1>4. BytesOK'
  BY <1>1, <1>2, <1>3, WriteType DEF BytesOK
<1>5. Arch!StoreConditional(ea, rt)
  BY <1>1, StoreIsStored, SameHelpers DEF Arch!StoreConditional
<1> QED
  BY <1>0, <1>1, <1>4, <1>5

(* lwl replaces the high lanes of the register and no other.               *)
LEMMA LwlStep ==
    ASSUME BytesOK, NEW ea \in Addr, NEW rt \in Regs, Lwl(ea, rt)
    PROVE  /\ BytesOK' /\ gpr' = [gpr EXCEPT ![rt] = Arch!Loaded(Arch!Left(ea), @)]
           /\ Arch!Executes("lwl", ea, rt) /\ Arch!LoadPart(Arch!Left(ea), rt)
<1> DEFINE ma == Offset(ea)
           r == Load(WordOf(ea), 4)
           new == Join(LanesUp(Keep(r, LwlTaken(ma)), ma), Keep(gpr[rt], Below(ma)))
<1>0. Arch!Executes("lwl", ea, rt)
  BY HandlerNamed DEF Lwl
<1>1. el' = el /\ mem' = mem /\ cpr1' = cpr1 /\ gpr' = [gpr EXCEPT ![rt] = new]
  BY DEF Lwl, Handler
<1>2. gpr[rt] \in Word(4) /\ r \in Word(4) /\ ma \in 0 .. 3
  BY WordLanes, WordsWhole, OffsetInWord DEF BytesOK
<1>3. new = Arch!Loaded(Arch!Left(ea), gpr[rt])
  BY <1>2, LeftLoaded
<1> HIDE DEF r, ma
<1>4. new \in Word(4)
  BY <1>2, WordTypes, ZenonT(60)
<1> HIDE DEF new
<1>5. BytesOK'
  BY <1>1, <1>4 DEF BytesOK
<1>6. Arch!LoadPart(Arch!Left(ea), rt)
  BY <1>1, <1>3 DEF Arch!LoadPart
<1> QED
  BY <1>0, <1>1, <1>3, <1>5, <1>6

(* lwr replaces the low lanes of the register and no other.                *)
LEMMA LwrStep ==
    ASSUME BytesOK, NEW ea \in Addr, NEW rt \in Regs, Lwr(ea, rt)
    PROVE  /\ BytesOK' /\ gpr' = [gpr EXCEPT ![rt] = Arch!Loaded(Arch!Right(ea), @)]
           /\ Arch!Executes("lwr", ea, rt) /\ Arch!LoadPart(Arch!Right(ea), rt)
<1> DEFINE ma == Offset(ea)
           r == Load(WordOf(ea), 4)
           new == Join(Keep(gpr[rt], Lanes(4) \ Below(ma + 1)), LanesDown(r, 3 - ma))
<1>0. Arch!Executes("lwr", ea, rt)
  BY HandlerNamed DEF Lwr
<1>1. el' = el /\ mem' = mem /\ cpr1' = cpr1 /\ gpr' = [gpr EXCEPT ![rt] = new]
  BY DEF Lwr, Handler
<1>2. gpr[rt] \in Word(4) /\ r \in Word(4) /\ 3 - ma \in 0 .. 3
  BY WordLanes, WordsWhole, OffsetInWord DEF BytesOK
<1>3. new = Arch!Loaded(Arch!Right(ea), gpr[rt])
  BY <1>2, RightLoaded
<1> HIDE DEF r, ma
<1>4. new \in Word(4)
  <2>1. Keep(gpr[rt], Lanes(4) \ Below(ma + 1)) \in Word(4) /\ LanesDown(r, 3 - ma) \in Word(4)
    BY <1>2, WordTypes, ZenonT(60)
  <2> QED
    BY <2>1, WordTypes
<1> HIDE DEF new
<1>5. BytesOK'
  BY <1>1, <1>4 DEF BytesOK
<1>6. Arch!LoadPart(Arch!Right(ea), rt)
  BY <1>1, <1>3 DEF Arch!LoadPart
<1> QED
  BY <1>0, <1>1, <1>3, <1>5, <1>6

(* swl stores the high lanes; with four lanes to store, bits that memory   *)
(* had may stay.                                                           *)
LEMMA SwlStep ==
    ASSUME BytesOK, NEW ea \in Addr, NEW rt \in Regs, Swl(ea, rt)
    PROVE  /\ BytesOK' /\ Arch!Executes("swl", ea, rt)
           /\ Arch!StorePart(Arch!Left(ea), rt) \/ Arch!StoreLeftWord(ea, rt)
           /\ Offset(ea) # 0 => mem' = Arch!Stored(Arch!Left(ea), gpr[rt])
           /\ \A a \in Addr \ Span(WordOf(ea), 4) : mem'[a] = mem[a]
<1> DEFINE ma == Offset(ea)
           W == WordOf(ea)
           r == Load(W, 4)
           w == gpr[rt]
           x(m) == Join(Keep(r, m), LanesDown(w, ma))
<1>0. Arch!Executes("swl", ea, rt)
  BY HandlerNamed DEF Swl
<1>1. PICK m \in SwlKept(ma) : mem' = HostWrite(W, 4, Bswap(el, x(m), 4))
  BY DEF Swl
<1>2. el' = el /\ gpr' = gpr /\ cpr1' = cpr1
  BY DEF Swl, Handler
<1>3. w \in Word(4) /\ r \in Word(4) /\ ma \in 0 .. 3 /\ W \in Nat
  BY WordLanes, WordsWhole, OffsetInWord DEF BytesOK
<1>4. x(m) \in Word(4)
  <2> HIDE DEF r, ma, w
  <2>1. Keep(r, m) \in Word(4) /\ LanesDown(w, ma) \in Word(4)
    BY <1>3, WordTypes
  <2> QED
    BY <2>1, WordTypes
<1>5. mem' \in [Addr -> Byte]
  <2> HIDE DEF x, W
  <2>1. \A l \in Lanes(4) : x(m)[l] \in Byte
    BY <1>4 DEF Word
  <2> QED
    BY <1>1, <1>3, <2>1, WriteType
<1>6. BytesOK'
  BY <1>2, <1>5 DEF BytesOK
<1>7. \A a \in Addr \ Span(W, 4) : mem'[a] = mem[a]
  BY <1>1 DEF HostWrite
<1>8. ASSUME ma # 0
      PROVE  mem' = Arch!Stored(Arch!Left(ea), w)
  <2>1. m = Lanes(4) \ Below(4 - ma)
    BY <1>8 DEF SwlKept
  <2> QED
    BY <1>1, <1>3, <1>8, <2>1, LeftStored
<1>9. CASE ma # 0
  <2>1. Arch!StorePart(Arch!Left(ea), rt)
    BY <1>2, <1>8, <1>9 DEF Arch!StorePart
  <2> QED
    BY <1>0, <1>6, <1>7, <1>8, <2>1
<1>10. CASE ma = 0
  <2>1. m = Lanes(4) \/ m = {}
    BY <1>10 DEF SwlKept
  <2>2. Arch!StoreLeftWord(ea, rt)
    <3> HIDE DEF ma, W, w, r, x
    <3>1. ma = 0 /\ w \in Word(4) /\ \A k : x(k) = Join(Keep(r, k), LanesDown(w, ma))
      BY <1>3, <1>10 DEF x
    <3>2. Offset(ea) = 0
      BY <1>10 DEF ma
    <3>3. mem' = HostWrite(WordOf(ea), 4, Bswap(el, Join(Keep(Load(WordOf(ea), 4), m), LanesDown(w, 0)), 4))
      BY <1>1, <3>1 DEF W, r
    <3>4. /\ DOMAIN Arch!Left(ea) = Span(WordOf(ea), 4)
          /\ \A a \in Addr : LET stored == Arch!Stored(Arch!Left(ea), w) IN
                stored[a] \subseteq mem'[a] /\ mem'[a] \subseteq stored[a] \cup mem[a]
      BY <1>3, <2>1, <3>2, <3>3, FullLeftStored
    <3> QED
      BY <1>2, <1>5, <3>4, SameHelpers DEF Arch!StoreLeftWord, w
  <2> QED
    BY <1>0, <1>6, <1>7, <1>10, <2>2
<1> QED
  BY <1>9, <1>10

(* swr stores the low lanes.                                               *)
LEMMA SwrStep ==
    ASSUME BytesOK, NEW ea \in Addr, NEW rt \in Regs, Swr(ea, rt)
    PROVE  /\ BytesOK' /\ mem' = Arch!Stored(Arch!Right(ea), gpr[rt])
           /\ Arch!Executes("swr", ea, rt) /\ Arch!StorePart(Arch!Right(ea), rt)
<1> DEFINE ma == Offset(ea)
           W == WordOf(ea)
           r == Load(W, 4)
           x == Join(LanesUp(gpr[rt], 3 - ma), Keep(r, Below(3 - ma)))
<1>0. Arch!Executes("swr", ea, rt)
  BY HandlerNamed DEF Swr
<1>1. mem' = HostWrite(W, 4, Bswap(el, x, 4)) /\ el' = el /\ gpr' = gpr /\ cpr1' = cpr1
  BY DEF Swr, Handler
<1>2. gpr[rt] \in Word(4) /\ r \in Word(4) /\ 3 - ma \in 0 .. 3 /\ W \in Nat
  BY WordLanes, WordsWhole, OffsetInWord DEF BytesOK
<1>3. x \in Word(4)
  <2> HIDE DEF r, ma
  <2>1. LanesUp(gpr[rt], 3 - ma) \in Word(4) /\ Keep(r, Below(3 - ma)) \in Word(4)
    BY <1>2, WordTypes, ZenonT(60)
  <2> QED
    BY <2>1, WordTypes
<1>4. mem' \in [Addr -> Byte]
  <2> HIDE DEF x, W
  <2>1. \A l \in Lanes(4) : x[l] \in Byte
    BY <1>3 DEF Word
  <2> QED
    BY <1>1, <1>2, <2>1, WriteType
<1>5. mem' = Arch!Stored(Arch!Right(ea), gpr[rt])
  BY <1>1, <1>2, RightStored
<1>6. Arch!StorePart(Arch!Right(ea), rt)
  BY <1>1, <1>5 DEF Arch!StorePart
<1> QED
  BY <1>0, <1>1, <1>4, <1>5, <1>6 DEF BytesOK

(* lwc1 loads one register of the coprocessor.                             *)
LEMMA LoadFpStep ==
    ASSUME BytesOK, NEW ea \in Addr, NEW ft \in FpRegs, NEW op, LoadFp(op, ea, ft)
    PROVE  BytesOK' /\ Arch!Executes(op, ea, ft) /\ Arch!LoadFp(ea, ft)
<1>0. Arch!Executes(op, ea, ft)
  BY HandlerNamed DEF LoadFp
<1>1. /\ Span(ea, 4) \subseteq Addr /\ el' = el /\ mem' = mem /\ gpr' = gpr
      /\ cpr1' = [cpr1 EXCEPT ![ft] = Load(ea, 4)]
  BY DEF LoadFp, Handler
<1>2. Load(ea, 4) = Arch!Value(ea, 4) /\ Load(ea, 4) \in Word(4)
  BY <1>1, LoadIsValue, LoadLanes
<1>3. BytesOK'
  BY <1>1, <1>2 DEF BytesOK
<1>4. Arch!LoadFp(ea, ft)
  BY <1>1, <1>2, SameHelpers DEF Arch!LoadFp
<1> QED
  BY <1>0, <1>1, <1>3, <1>4

(* ldc1 loads a pair of registers in the order of the halves.              *)
LEMMA LoadDoubleStep ==
    ASSUME BytesOK, NEW ea \in Addr, NEW ft \in FpRegs, NEW op, LoadDouble(op, ea, ft)
    PROVE  BytesOK' /\ Arch!Executes(op, ea, ft) /\ Arch!LoadDouble(ea, ft)
<1> DEFINE v == Load(ea, 8)
           low == [l \in Lanes(4) |-> v[l]]
           high == [l \in Lanes(4) |-> v[4 + l]]
<1>0. Arch!Executes(op, ea, ft)
  BY HandlerNamed DEF LoadDouble
<1>1. /\ Span(ea, 8) \subseteq Addr /\ ft + 1 \in FpRegs
      /\ el' = el /\ mem' = mem /\ gpr' = gpr
      /\ cpr1' = [cpr1 EXCEPT ![ft] = low, ![ft + 1] = high]
  BY DEF LoadDouble, Handler
<1>2. v = Arch!Value(ea, 8) /\ v \in Word(8)
  BY <1>1, LoadIsValue, LoadLanes
<1> HIDE DEF v
<1>3. low \in Word(4) /\ high \in Word(4)
  <2>1. \A l \in Lanes(4) : l \in Lanes(8) /\ 4 + l \in Lanes(8)
    BY DEF Lanes
  <2> QED
    BY <1>2, <2>1 DEF Word
<1>4. BytesOK'
  <2> HIDE DEF low, high
  <2> QED
    BY <1>1, <1>3 DEF BytesOK
<1>5. high = [l \in Lanes(4) |-> v[l + 4]]
  BY DEF Lanes
<1>6. Arch!LoadDouble(ea, ft)
  <2>1. Arch!Lanes(4) = Lanes(4)
    BY DEF Arch!Lanes, Lanes
  <2>2. cpr1' = [cpr1 EXCEPT ![ft] = low, ![ft + 1] = [l \in Lanes(4) |-> v[l + 4]]]
    BY <1>1, <1>5
  <2>3. Arch!Span(ea, 8) \subseteq Addr
    BY <1>1, SameHelpers
  <2>4. cpr1' = [cpr1 EXCEPT ![ft] = [l \in Arch!Lanes(4) |-> Arch!Value(ea, 8)[l]],
                             ![ft + 1] = [l \in Arch!Lanes(4) |-> Arch!Value(ea, 8)[l + 4]]]
    BY <1>2, <2>1, <2>2
  <2> QED
    BY <1>1, <2>3, <2>4, Zenon DEF Arch!LoadDouble
<1> QED
  BY <1>0, <1>1, <1>4, <1>6

(* swc1 stores one register of the coprocessor.                            *)
LEMMA StoreFpStep ==
    ASSUME BytesOK, NEW ea \in Addr, NEW ft \in FpRegs, StoreFp(ea, ft)
    PROVE  BytesOK' /\ Arch!Executes("swc1", ea, ft) /\ Arch!StoreFp(ea, ft)
<1>0. Arch!Executes("swc1", ea, ft)
  BY HandlerNamed DEF StoreFp
<1>1. /\ Span(ea, 4) \subseteq Addr /\ el' = el /\ gpr' = gpr /\ cpr1' = cpr1
      /\ mem' = HostWrite(ea, 4, Bswap(el, cpr1[ft], 4))
  BY DEF StoreFp, Handler
<1>2. \A l \in Lanes(4) : cpr1[ft][l] \in Byte
  BY DEF BytesOK, Word
<1>3. BytesOK'
  BY <1>1, <1>2, WriteType DEF BytesOK
<1>4. Arch!StoreFp(ea, ft)
  BY <1>1, StoreIsStored, SameHelpers DEF Arch!StoreFp
<1> QED
  BY <1>0, <1>1, <1>3, <1>4

(* sdc1 stores a pair of registers in the order of the halves.             *)
LEMMA StoreDoubleStep ==
    ASSUME BytesOK, NEW ea \in Addr, NEW ft \in FpRegs, StoreDouble(ea, ft)
    PROVE  BytesOK' /\ Arch!Executes("sdc1", ea, ft) /\ Arch!StoreDouble(ea, ft)
<1> DEFINE v == [l \in Lanes(8) |-> IF l < 4 THEN cpr1[ft][l] ELSE cpr1[ft + 1][l - 4]]
<1>0. Arch!Executes("sdc1", ea, ft)
  BY HandlerNamed DEF StoreDouble
<1>1. /\ Span(ea, 8) \subseteq Addr /\ ft + 1 \in FpRegs
      /\ el' = el /\ gpr' = gpr /\ cpr1' = cpr1
      /\ mem' = HostWrite(ea, 8, Bswap(el, v, 8))
  BY DEF StoreDouble, Handler
<1>2. \A l \in Lanes(8) : v[l] \in Byte
  <2>1. \A l \in Lanes(8) : IF l < 4 THEN l \in Lanes(4) ELSE l - 4 \in Lanes(4)
    BY DEF Lanes
  <2>2. cpr1[ft] \in [Lanes(4) -> Byte] /\ cpr1[ft + 1] \in [Lanes(4) -> Byte]
    BY <1>1 DEF BytesOK, Word
  <2> QED
    BY <2>1, <2>2
<1>3. Arch!StoreDouble(ea, ft)
  BY <1>1, StoreIsStored, SameHelpers, ZenonT(60) DEF Arch!StoreDouble
<1> HIDE DEF v
<1>4. BytesOK'
  BY <1>1, <1>2, WriteType DEF BytesOK
<1> QED
  BY <1>0, <1>1, <1>3, <1>4

-----------------------------------------------------------------------------
(* What the cache is told of a step: of the instruction, and no less than  *)
(* what it writes.                                                         *)
AccessStep ==
    LET op == last'.op
        named == IF op \in UnalignedOps THEN WordOf(last'.ea) ELSE last'.ea
    IN  /\ l1d' = IF op \in {"lwxc1", "ldxc1"} THEN NoAccess
                  ELSE Access(IF op \in StoreOps THEN "write" ELSE "read", named, WidthOf(op))
        /\ \A a \in Addr : mem'[a] # mem[a] => op \in StoreOps /\ a \in Span(named, WidthOf(op))

(* What is announced lies in memory.                                       *)
Announced == \A k \in DOMAIN l1d : l1d[k].kind \in {"read", "write"} /\ l1d[k].at \subseteq Addr

(* An access in memory is well formed, and so is none.                     *)
LEMMA AnnouncedIs ==
    /\ \A kind \in {"read", "write"} : \A ea, n :
          Span(ea, n) \subseteq Addr /\ l1d' = Access(kind, ea, n) => Announced'
    /\ l1d' = NoAccess => Announced'
<1>1. ASSUME NEW kind \in {"read", "write"}, NEW ea, NEW n,
             Span(ea, n) \subseteq Addr, l1d' = Access(kind, ea, n)
      PROVE  Announced'
  <2>1. DOMAIN l1d' = {1} /\ l1d'[1].kind = kind /\ l1d'[1].at = Span(ea, n)
    BY <1>1 DEF Access
  <2> QED
    BY <1>1, <2>1 DEF Announced
<1>2. l1d' = NoAccess => Announced'
  BY DEF NoAccess, Announced
<1> QED
  BY <1>1, <1>2

(* A write changes nothing beside what it covers.                          *)
LEMMA WritesWithin ==
    ASSUME NEW at, NEW n, NEW w, mem' = HostWrite(at, n, w)
    PROVE  \A a \in Addr : mem'[a] # mem[a] => a \in Span(at, n)
  BY DEF HostWrite

(* A load announces itself.                                                *)
LEMMA LoadTold ==
    ASSUME NEW op, NEW ea, NEW n, NEW rt,
           op \notin StoreOps /\ op \notin {"lwxc1", "ldxc1"},
           Handler(op, ea, n, rt), mem' = mem,
           l1d' = Access("read", IF op \in UnalignedOps THEN WordOf(ea) ELSE ea, WidthOf(op)),
           Span(IF op \in UnalignedOps THEN WordOf(ea) ELSE ea, WidthOf(op)) \subseteq Addr
    PROVE  AccessStep /\ Announced'
<1>1. last'.op = op /\ last'.ea = ea
  BY HandlerNamed
<1> QED
  BY <1>1, AnnouncedIs DEF AccessStep

(* So does a store, whatever it writes.                                    *)
LEMMA StoreTold ==
    ASSUME NEW op, NEW ea, NEW n, NEW rt, NEW w, op \in StoreOps, Handler(op, ea, n, rt),
           mem' = HostWrite(IF op \in UnalignedOps THEN WordOf(ea) ELSE ea, WidthOf(op), w),
           l1d' = Access("write", IF op \in UnalignedOps THEN WordOf(ea) ELSE ea, WidthOf(op)),
           Span(IF op \in UnalignedOps THEN WordOf(ea) ELSE ea, WidthOf(op)) \subseteq Addr
    PROVE  AccessStep /\ Announced'
<1>1. last'.op = op /\ last'.ea = ea
  BY HandlerNamed
<1>2. op \notin {"lwxc1", "ldxc1"}
  BY DEF StoreOps
<1> QED
  BY <1>1, <1>2, AnnouncedIs, WritesWithin DEF AccessStep

(* The instructions have their widths, the unaligned ones a word's.        *)
LEMMA Widths ==
    /\ \A op \in {"lb", "lbu", "sb"} : WidthOf(op) = 1 /\ op \notin UnalignedOps
    /\ \A op \in {"lh", "lhu", "sh"} : WidthOf(op) = 2 /\ op \notin UnalignedOps
    /\ \A op \in {"lw", "sw", "sc", "lwc1", "swc1"} : WidthOf(op) = 4 /\ op \notin UnalignedOps
    /\ \A op \in {"ldc1", "sdc1"} : WidthOf(op) = 8 /\ op \notin UnalignedOps
    /\ \A op \in UnalignedOps : WidthOf(op) = 4
    /\ \A op \in {"lb", "lbu", "lh", "lhu", "lw", "lwl", "lwr", "lwc1", "ldc1"} : op \notin StoreOps
    /\ {"sb", "sh", "sw", "sc", "swl", "swr", "swc1", "sdc1"} \subseteq StoreOps
    /\ {"lwl", "lwr", "swl", "swr"} \subseteq UnalignedOps
  BY DEF WidthOf, StoreOps, UnalignedOps

(* Every handler announces its own access.                                 *)
LEMMA AccessIsTold == BytesOK /\ Next => AccessStep /\ Announced'
<1> SUFFICES ASSUME BytesOK, Next PROVE AccessStep /\ Announced'
  OBVIOUS
<1>1. ASSUME NEW ea \in Addr, NEW rt \in Regs, NEW n, NEW op \in {"lb", "lh", "lw", "lbu", "lhu"},
             WidthOf(op) = n, LoadSigned(op, n, ea, rt) \/ LoadUnsigned(op, n, ea, rt)
      PROVE  AccessStep /\ Announced'
  <2>1. /\ Handler(op, ea, n, rt) /\ Span(ea, n) \subseteq Addr /\ mem' = mem
        /\ l1d' = Access("read", ea, n)
    BY <1>1 DEF LoadSigned, LoadUnsigned, Handler
  <2>2. op \notin StoreOps /\ op \notin {"lwxc1", "ldxc1"} /\ op \notin UnalignedOps
    BY Widths
  <2> QED
    BY <1>1, <2>1, <2>2, LoadTold
<1>2. ASSUME NEW ea \in Addr, NEW rt \in Regs, NEW n, NEW op \in {"sb", "sh", "sw", "sc"},
             WidthOf(op) = n, StoreWord(op, n, ea, rt)
      PROVE  AccessStep /\ Announced'
  <2>1. /\ Handler(op, ea, n, rt) /\ Span(ea, n) \subseteq Addr
        /\ mem' = HostWrite(ea, n, Bswap(el, gpr[rt], n)) /\ l1d' = Access("write", ea, n)
    BY <1>2 DEF StoreWord, Handler
  <2>2. op \in StoreOps /\ op \notin UnalignedOps
    BY Widths
  <2> QED
    BY <1>2, <2>1, <2>2, StoreTold
<1>3. ASSUME NEW ea \in Addr, NEW rt \in Regs, NEW op \in {"lwl", "lwr"},
             (op = "lwl" /\ Lwl(ea, rt)) \/ (op = "lwr" /\ Lwr(ea, rt))
      PROVE  AccessStep /\ Announced'
  <2>1. /\ Handler(op, ea, 1, rt) /\ mem' = mem /\ l1d' = Access("read", WordOf(ea), 4)
    BY <1>3 DEF Lwl, Lwr
  <2>2. op \notin StoreOps /\ op \notin {"lwxc1", "ldxc1"} /\ op \in UnalignedOps /\ WidthOf(op) = 4
    BY Widths
  <2>3. Span(WordOf(ea), 4) \subseteq Addr
    BY WordsWhole
  <2> QED
    BY <2>1, <2>2, <2>3, LoadTold
<1>4. ASSUME NEW ea \in Addr, NEW rt \in Regs, NEW op \in {"swl", "swr"},
             (op = "swl" /\ Swl(ea, rt)) \/ (op = "swr" /\ Swr(ea, rt))
      PROVE  AccessStep /\ Announced'
  <2>1. /\ Handler(op, ea, 1, rt) /\ l1d' = Access("write", WordOf(ea), 4)
        /\ \E w : mem' = HostWrite(WordOf(ea), 4, w)
    BY <1>4 DEF Swl, Swr
  <2>2. op \in StoreOps /\ op \in UnalignedOps /\ WidthOf(op) = 4
    BY Widths
  <2>3. Span(WordOf(ea), 4) \subseteq Addr
    BY WordsWhole
  <2>4. PICK w : mem' = HostWrite(WordOf(ea), 4, w)
    BY <2>1
  <2> QED
    BY <2>1, <2>2, <2>3, <2>4, StoreTold
<1>5. ASSUME NEW ea \in Addr, NEW ft \in FpRegs, NEW n, NEW op \in {"lwc1", "ldc1"}, WidthOf(op) = n,
             \/ op = "lwc1" /\ n = 4 /\ LoadFp(op, ea, ft)
             \/ op = "ldc1" /\ n = 8 /\ LoadDouble(op, ea, ft)
      PROVE  AccessStep /\ Announced'
  <2>1. /\ Handler(op, ea, n, ft) /\ Span(ea, n) \subseteq Addr /\ mem' = mem
        /\ l1d' = Access("read", ea, n)
    BY <1>5 DEF LoadFp, LoadDouble, Handler
  <2>2. op \notin StoreOps /\ op \notin {"lwxc1", "ldxc1"} /\ op \notin UnalignedOps
    BY Widths
  <2> QED
    BY <1>5, <2>1, <2>2, LoadTold
<1>6. ASSUME NEW ea \in Addr, NEW ft \in FpRegs, LoadFp("lwxc1", ea, ft) \/ LoadDouble("ldxc1", ea, ft)
      PROVE  AccessStep /\ Announced'
  <2>1. last'.op \in {"lwxc1", "ldxc1"} /\ mem' = mem /\ l1d' = NoAccess
    BY <1>6, HandlerNamed DEF LoadFp, LoadDouble
  <2> QED
    BY <2>1, AnnouncedIs DEF AccessStep
<1>7. ASSUME NEW ea \in Addr, NEW ft \in FpRegs, NEW n, NEW op \in {"swc1", "sdc1"}, WidthOf(op) = n,
             \/ op = "swc1" /\ n = 4 /\ StoreFp(ea, ft)
             \/ op = "sdc1" /\ n = 8 /\ StoreDouble(ea, ft)
      PROVE  AccessStep /\ Announced'
  <2>1. /\ Handler(op, ea, n, ft) /\ Span(ea, n) \subseteq Addr /\ l1d' = Access("write", ea, n)
        /\ \E w : mem' = HostWrite(ea, n, w)
    BY <1>7 DEF StoreFp, StoreDouble, Handler
  <2>2. op \in StoreOps /\ op \notin UnalignedOps
    BY Widths
  <2>3. PICK w : mem' = HostWrite(ea, n, w)
    BY <2>1
  <2> QED
    BY <1>7, <2>1, <2>2, <2>3, StoreTold
<1>8. ASSUME NEW ea \in Addr, NEW rt \in Regs,
             \/ LoadSigned("lb", 1, ea, rt) \/ LoadSigned("lh", 2, ea, rt) \/ LoadSigned("lw", 4, ea, rt)
             \/ LoadUnsigned("lbu", 1, ea, rt) \/ LoadUnsigned("lhu", 2, ea, rt)
      PROVE  AccessStep /\ Announced'
  BY <1>1, <1>8, Widths
<1>9. ASSUME NEW ea \in Addr, NEW rt \in Regs,
             \/ Store("sb", 1, ea, rt) \/ Store("sh", 2, ea, rt) \/ Store("sw", 4, ea, rt)
             \/ StoreConditional(ea, rt)
      PROVE  AccessStep /\ Announced'
  BY <1>2, <1>9, Widths DEF Store, StoreConditional
<1>10. ASSUME NEW ea \in Addr, NEW rt \in Regs,
              Lwl(ea, rt) \/ Lwr(ea, rt) \/ Swl(ea, rt) \/ Swr(ea, rt)
       PROVE  AccessStep /\ Announced'
  BY <1>3, <1>4, <1>10
<1>11. ASSUME NEW ea \in Addr, NEW ft \in FpRegs,
              \/ LoadFp("lwc1", ea, ft) \/ LoadDouble("ldc1", ea, ft)
              \/ StoreFp(ea, ft) \/ StoreDouble(ea, ft)
       PROVE  AccessStep /\ Announced'
  BY <1>5, <1>7, <1>11, Widths
<1> QED
  BY <1>6, <1>8, <1>9, <1>10, <1>11, Zenon DEF Next

-----------------------------------------------------------------------------
(* Memory and registers start as bytes.                                    *)
LEMMA BytesStart == Init => BytesOK /\ Arch!Init
<1> SUFFICES ASSUME Init PROVE BytesOK /\ Arch!Init
  OBVIOUS
<1>1. BytesOK
  BY DEF Init, BytesOK
<1>2. last.op = "none" /\ last.ea = 0 /\ last.rt = 0
  BY DEF Init
<1> QED
  BY <1>1, <1>2, SameHelpers DEF BytesOK, Arch!Init

(* Every handler keeps the types and is a step of the architecture.        *)
LEMMA BytesStep == BytesOK /\ [Next]_vars => BytesOK' /\ [Arch!Next]_(Arch!avars)
<1> SUFFICES ASSUME BytesOK, [Next]_vars PROVE BytesOK' /\ [Arch!Next]_(Arch!avars)
  OBVIOUS
<1>1. ASSUME NEW ea \in Addr, NEW rt \in Regs,
             \/ LoadSigned("lb", 1, ea, rt) \/ LoadSigned("lh", 2, ea, rt) \/ LoadSigned("lw", 4, ea, rt)
      PROVE  BytesOK' /\ Arch!Next
  BY <1>1, LoadSignedStep DEF Arch!Next
<1>2. ASSUME NEW ea \in Addr, NEW rt \in Regs,
             LoadUnsigned("lbu", 1, ea, rt) \/ LoadUnsigned("lhu", 2, ea, rt)
      PROVE  BytesOK' /\ Arch!Next
  BY <1>2, LoadUnsignedStep DEF Arch!Next
<1>3. ASSUME NEW ea \in Addr, NEW rt \in Regs,
             \/ Store("sb", 1, ea, rt) \/ Store("sh", 2, ea, rt) \/ Store("sw", 4, ea, rt)
             \/ StoreConditional(ea, rt)
      PROVE  BytesOK' /\ Arch!Next
  BY <1>3, StoreStep, StoreConditionalStep DEF Arch!Next
<1>4. ASSUME NEW ea \in Addr, NEW rt \in Regs,
             Lwl(ea, rt) \/ Lwr(ea, rt) \/ Swl(ea, rt) \/ Swr(ea, rt)
      PROVE  BytesOK' /\ Arch!Next
  BY <1>4, LwlStep, LwrStep, SwlStep, SwrStep DEF Arch!Next
<1>5. ASSUME NEW ea \in Addr, NEW ft \in FpRegs,
             \/ LoadFp("lwc1", ea, ft) \/ LoadFp("lwxc1", ea, ft)
             \/ LoadDouble("ldc1", ea, ft) \/ LoadDouble("ldxc1", ea, ft)
             \/ StoreFp(ea, ft) \/ StoreDouble(ea, ft)
      PROVE  BytesOK' /\ Arch!Next
  BY <1>5, LoadFpStep, LoadDoubleStep, StoreFpStep, StoreDoubleStep DEF Arch!Next
<1>6. CASE UNCHANGED vars
  BY <1>6 DEF vars, BytesOK, Arch!avars
<1> QED
  BY <1>1, <1>2, <1>3, <1>4, <1>5, <1>6 DEF Next

(* Every load and store of the interpreter is that of the architecture, in *)
(* both byte orders and at every address: the handler of each instruction  *)
(* copies the bytes its own address and register name.                     *)
THEOREM MemoryRefinement == Spec => ImplementsArchMemory
<1>1. Init => Arch!Init /\ BytesOK
  BY BytesStart
<1> QED
  BY <1>1, BytesStep, PTL DEF Spec, ImplementsArchMemory, Arch!Spec

(* Registers, memory and accesses stay well typed.                         *)
THEOREM MemTypeCorrect == Spec => []MemTypeOK
<1>1. Init => BytesOK /\ Announced
  BY BytesStart DEF Init, NoAccess, Announced
<1>2. BytesOK /\ Announced /\ [Next]_vars => (BytesOK /\ Announced)'
  <2> SUFFICES ASSUME BytesOK, Announced, [Next]_vars PROVE BytesOK' /\ Announced'
    OBVIOUS
  <2>1. Next => Announced'
    BY AccessIsTold
  <2>2. UNCHANGED vars => Announced'
    BY DEF vars, Announced
  <2> QED
    BY <2>1, <2>2, BytesStep
<1>3. BytesOK /\ Announced => MemTypeOK
  BY DEF BytesOK, Announced, MemTypeOK
<1> QED
  BY <1>1, <1>2, <1>3, PTL DEF Spec

(* The data cache hears exactly once of each load and store but lwxc1 and  *)
(* ldxc1, of which it hears nothing: of the bytes the instruction names,   *)
(* or of the whole word of an unaligned one.                               *)
THEOREM CacheSeesCorrect == Spec => CacheSeesAccesses
<1>1. BytesOK /\ [Next]_vars => [AccessStep]_vars
  BY AccessIsTold
<1> QED
  BY <1>1, BytesStart, BytesStep, PTL DEF Spec, CacheSeesAccesses, AccessStep

-----------------------------------------------------------------------------
(* The two halves of an unaligned access.  Which byte the lane l of the    *)
(* word at base is, in the order of the program.                           *)
ByteOf(base, l) == IF el THEN base + l ELSE base + 3 - l

(* The left half from one end and the right half from the other are the    *)
(* whole word.                                                             *)
LEMMA HalvesCover ==
    ASSUME el \in BOOLEAN, NEW base \in Nat, NEW left \in Addr, NEW right \in Addr,
           IF el THEN right = base /\ left = base + 3 ELSE left = base /\ right = base + 3
    PROVE  /\ Span(base, 4) = base .. base + 3 /\ Span(base, 4) \subseteq Addr
           /\ DOMAIN Arch!Left(left) \cup DOMAIN Arch!Right(right) = Span(base, 4)
           /\ \A a \in DOMAIN Arch!Left(left) :
                 Arch!Left(left)[a] \in 0 .. 3 /\ a = ByteOf(base, Arch!Left(left)[a])
           /\ \A a \in DOMAIN Arch!Right(right) :
                 Arch!Right(right)[a] \in 0 .. 3 /\ a = ByteOf(base, Arch!Right(right)[a])
           /\ base % 4 = 0 => Span(WordOf(left), 4) = Span(base, 4)
                              /\ DOMAIN Arch!Right(right) = Span(base, 4)
           /\ base % 4 # 0 => Offset(left) # 0
<1> DEFINE L == Arch!Left(left)
           R == Arch!Right(right)
           Wl == WordOf(left)
           Wr == WordOf(right)
           Low == IF el THEN Wr ELSE Wl
           High == IF el THEN Wl ELSE Wr
<1>1. /\ left = Wl + (left % 4) /\ left % 4 \in 0 .. 3 /\ Wl \in Nat /\ Wl .. Wl + 3 \subseteq Addr
      /\ right = Wr + (right % 4) /\ right % 4 \in 0 .. 3 /\ Wr \in Nat /\ Wr .. Wr + 3 \subseteq Addr
  BY WordsWhole
<1>2. /\ DOMAIN L = IF el THEN Wl .. left ELSE left .. Wl + 3
      /\ \A a \in DOMAIN L : L[a] = IF el THEN 3 - (left - a) ELSE 3 - (a - left)
  BY DEF Arch!Left, Arch!WordOf, WordOf
<1>3. /\ DOMAIN R = IF el THEN right .. Wr + 3 ELSE Wr .. right
      /\ \A a \in DOMAIN R : R[a] = IF el THEN a - right ELSE right - a
  BY DEF Arch!Right, Arch!WordOf, WordOf
<1>4. Span(base, 4) = base .. base + 3 /\ Span(Wl, 4) = Wl .. Wl + 3
  BY <1>1 DEF Span
<1>5. Offset(left) = IF el THEN 3 - (left % 4) ELSE left % 4
  BY DEF Offset
<1>6. (base + 3) % 4 = IF base % 4 = 0 THEN 3 ELSE (base % 4) - 1
  OBVIOUS
<1>7. /\ Low \in Nat /\ High \in Nat /\ Low <= base /\ base <= Low + 3
      /\ High <= base + 3 /\ base + 3 <= High + 3
      /\ High = Low \/ High = Low + 4
      /\ base % 4 = 0 => Low = base /\ High = base
      /\ base % 4 # 0 => High = Low + 4
  <2> HIDE DEF Wl, Wr
  <2>1. base % 4 \in 0 .. 3
    OBVIOUS
  <2> QED
    BY <1>1, <1>6, <2>1
<1> HIDE DEF L, R, Wl, Wr
<1>8. Span(base, 4) \subseteq Addr
  BY <1>1, <1>4, <1>7
<1>9. DOMAIN L \cup DOMAIN R = base .. base + 3
  BY <1>1, <1>2, <1>3, <1>7
<1>10. \A a \in DOMAIN L : L[a] \in 0 .. 3 /\ a = ByteOf(base, L[a])
  BY <1>1, <1>2, <1>7, SMTT(30) DEF ByteOf
<1>11. \A a \in DOMAIN R : R[a] \in 0 .. 3 /\ a = ByteOf(base, R[a])
  BY <1>1, <1>3, <1>7, SMTT(30) DEF ByteOf
<1>12. ASSUME base % 4 = 0
       PROVE  Span(Wl, 4) = base .. base + 3 /\ DOMAIN R = base .. base + 3
  BY <1>1, <1>3, <1>4, <1>7, <1>12
<1>13. ASSUME base % 4 # 0
       PROVE  Offset(left) # 0
  BY <1>1, <1>5, <1>6, <1>13
<1> QED
  BY <1>4, <1>8, <1>9, <1>10, <1>11, <1>12, <1>13 DEF L, R, Wl

(* The instruction a half was, by its name.                                *)
LEMMA HalfSteps ==
    ASSUME Next, last'.op \in {"swl", "swr", "lwl", "lwr"}
    PROVE  /\ last'.ea \in Addr /\ last'.rt \in Regs /\ last'.mem = mem /\ el' = el
           /\ last'.op = "swl" => Swl(last'.ea, last'.rt)
           /\ last'.op = "swr" => Swr(last'.ea, last'.rt)
           /\ last'.op = "lwl" => Lwl(last'.ea, last'.rt)
           /\ last'.op = "lwr" => Lwr(last'.ea, last'.rt)
<1>1. ASSUME NEW ea \in Addr, NEW rt \in Regs, NEW n,
             NEW op \in {"lb", "lh", "lw", "lbu", "lhu", "sb", "sh", "sw"},
             LoadSigned(op, n, ea, rt) \/ LoadUnsigned(op, n, ea, rt) \/ Store(op, n, ea, rt)
      PROVE  last'.op = op
  BY <1>1 DEF LoadSigned, LoadUnsigned, Store, StoreWord, Handler
<1>2. ASSUME NEW ea \in Addr, NEW rt \in Regs, StoreConditional(ea, rt)
      PROVE  last'.op = "sc"
  BY <1>2 DEF StoreConditional, StoreWord, Handler
<1>3. ASSUME NEW ea \in Addr, NEW ft \in FpRegs, NEW op,
             LoadFp(op, ea, ft) \/ LoadDouble(op, ea, ft)
      PROVE  last'.op = op
  BY <1>3 DEF LoadFp, LoadDouble, Handler
<1>4. ASSUME NEW ea \in Addr, NEW ft \in FpRegs, StoreFp(ea, ft) \/ StoreDouble(ea, ft)
      PROVE  last'.op \in {"swc1", "sdc1"}
  BY <1>4 DEF StoreFp, StoreDouble, Handler
<1>5. PICK ea \in Addr, rt \in Regs : Lwl(ea, rt) \/ Lwr(ea, rt) \/ Swl(ea, rt) \/ Swr(ea, rt)
  <2>1. \/ \E ea \in Addr, rt \in Regs :
             \/ LoadSigned("lb", 1, ea, rt) \/ LoadSigned("lh", 2, ea, rt) \/ LoadSigned("lw", 4, ea, rt)
             \/ LoadUnsigned("lbu", 1, ea, rt) \/ LoadUnsigned("lhu", 2, ea, rt)
             \/ Store("sb", 1, ea, rt) \/ Store("sh", 2, ea, rt) \/ Store("sw", 4, ea, rt)
             \/ StoreConditional(ea, rt)
        \/ \E ea \in Addr, rt \in Regs : Lwl(ea, rt) \/ Lwr(ea, rt) \/ Swl(ea, rt) \/ Swr(ea, rt)
        \/ \E ea \in Addr, ft \in FpRegs :
             \/ LoadFp("lwc1", ea, ft) \/ LoadFp("lwxc1", ea, ft)
             \/ LoadDouble("ldc1", ea, ft) \/ LoadDouble("ldxc1", ea, ft)
             \/ StoreFp(ea, ft) \/ StoreDouble(ea, ft)
    BY DEF Next
  <2>2. ASSUME NEW ea \in Addr, NEW rt \in Regs,
               \/ LoadSigned("lb", 1, ea, rt) \/ LoadSigned("lh", 2, ea, rt) \/ LoadSigned("lw", 4, ea, rt)
               \/ LoadUnsigned("lbu", 1, ea, rt) \/ LoadUnsigned("lhu", 2, ea, rt)
               \/ Store("sb", 1, ea, rt) \/ Store("sh", 2, ea, rt) \/ Store("sw", 4, ea, rt)
               \/ StoreConditional(ea, rt)
        PROVE  FALSE
    <3>1. last'.op \in {"lb", "lh", "lw", "lbu", "lhu", "sb", "sh", "sw", "sc"}
      BY <1>1, <1>2, <2>2
    <3> QED
      BY <3>1
  <2>3. ASSUME NEW ea \in Addr, NEW ft \in FpRegs,
               \/ LoadFp("lwc1", ea, ft) \/ LoadFp("lwxc1", ea, ft)
               \/ LoadDouble("ldc1", ea, ft) \/ LoadDouble("ldxc1", ea, ft)
               \/ StoreFp(ea, ft) \/ StoreDouble(ea, ft)
        PROVE  FALSE
    <3>1. last'.op \in {"lwc1", "lwxc1", "ldc1", "ldxc1", "swc1", "sdc1"}
      BY <1>3, <1>4, <2>3
    <3> QED
      BY <3>1
  <2> QED
    BY <2>1, <2>2, <2>3
<1>6. /\ Lwl(ea, rt) => last'.op = "lwl"
      /\ Lwr(ea, rt) => last'.op = "lwr"
      /\ Swl(ea, rt) => last'.op = "swl"
      /\ Swr(ea, rt) => last'.op = "swr"
  BY DEF Lwl, Lwr, Swl, Swr, Handler
<1>7. last'.ea = ea /\ last'.rt = rt /\ last'.mem = mem /\ el' = el
  BY <1>5 DEF Lwl, Lwr, Swl, Swr, Handler
<1> QED
  BY <1>5, <1>6, <1>7

(* What the last half left: the memory before it is last.mem.              *)
StoredOver(m, lanes, w) == [a \in Addr |-> IF a \in DOMAIN lanes THEN w[lanes[a]] ELSE m[a]]

PairInv ==
    /\ last.op \in {"swl", "swr", "lwl", "lwr"} => last.ea \in Addr /\ last.rt \in Regs
    /\ last.op = "swl" =>
          /\ \A a \in Addr \ Span(WordOf(last.ea), 4) : mem[a] = last.mem[a]
          /\ Offset(last.ea) # 0 => mem = StoredOver(last.mem, Arch!Left(last.ea), gpr[last.rt])
    /\ last.op = "swr" => mem = StoredOver(last.mem, Arch!Right(last.ea), gpr[last.rt])
    /\ last.op = "lwl" =>
          \A a \in DOMAIN Arch!Left(last.ea) : gpr[last.rt][Arch!Left(last.ea)[a]] = mem[a]
    /\ last.op = "lwr" =>
          \A a \in DOMAIN Arch!Right(last.ea) : gpr[last.rt][Arch!Right(last.ea)[a]] = mem[a]

(* A byte that a load names is where the load puts it, and the others stay. *)
LEMMA LoadedLanes ==
    ASSUME NEW lanes, NEW w \in Word(4), \A a \in DOMAIN lanes : lanes[a] \in 0 .. 3,
           \A a, b \in DOMAIN lanes : lanes[a] = lanes[b] => a = b
    PROVE  /\ \A a \in DOMAIN lanes : Arch!Loaded(lanes, w)[lanes[a]] = mem[a]
           /\ \A l \in 0 .. 3 : (\A a \in DOMAIN lanes : lanes[a] # l) => Arch!Loaded(lanes, w)[l] = w[l]
<1>1. DOMAIN w = 0 .. 3
  BY DEF Word, Lanes
<1>2. ASSUME NEW a \in DOMAIN lanes
      PROVE  Arch!Loaded(lanes, w)[lanes[a]] = mem[a]
  <2>1. \E b \in DOMAIN lanes : lanes[b] = lanes[a]
    OBVIOUS
  <2>2. (CHOOSE b \in DOMAIN lanes : lanes[b] = lanes[a]) = a
    OBVIOUS
  <2> QED
    BY <1>1, <2>1, <2>2 DEF Arch!Loaded
<1>3. ASSUME NEW l \in 0 .. 3, \A a \in DOMAIN lanes : lanes[a] # l
      PROVE  Arch!Loaded(lanes, w)[l] = w[l]
  BY <1>1, <1>3 DEF Arch!Loaded
<1> QED
  BY <1>2, <1>3

(* Each half is made of addresses of memory and lanes of the register.     *)
LEMMA PartLanes ==
    ASSUME el \in BOOLEAN, NEW ea \in Addr
    PROVE  /\ DOMAIN Arch!Left(ea) \subseteq Addr /\ DOMAIN Arch!Right(ea) \subseteq Addr
           /\ \A a \in DOMAIN Arch!Left(ea) : Arch!Left(ea)[a] \in 0 .. 3
           /\ \A a \in DOMAIN Arch!Right(ea) : Arch!Right(ea)[a] \in 0 .. 3
           /\ \A a, b \in DOMAIN Arch!Left(ea) : Arch!Left(ea)[a] = Arch!Left(ea)[b] => a = b
           /\ \A a, b \in DOMAIN Arch!Right(ea) : Arch!Right(ea)[a] = Arch!Right(ea)[b] => a = b
<1> DEFINE W == WordOf(ea)
<1>1. ea = W + (ea % 4) /\ ea % 4 \in 0 .. 3 /\ W \in Nat /\ W .. W + 3 \subseteq Addr
  BY WordsWhole
<1>2. /\ DOMAIN Arch!Left(ea) = IF el THEN W .. ea ELSE ea .. W + 3
      /\ \A a \in DOMAIN Arch!Left(ea) : Arch!Left(ea)[a] = IF el THEN 3 - (ea - a) ELSE 3 - (a - ea)
  BY DEF Arch!Left, Arch!WordOf, WordOf
<1>3. /\ DOMAIN Arch!Right(ea) = IF el THEN ea .. W + 3 ELSE W .. ea
      /\ \A a \in DOMAIN Arch!Right(ea) : Arch!Right(ea)[a] = IF el THEN a - ea ELSE ea - a
  BY DEF Arch!Right, Arch!WordOf, WordOf
<1> HIDE DEF W
<1> QED
  BY <1>1, <1>2, <1>3, SMTT(30)

(* After the first instruction of a pair, what it has left is known until  *)
(* the second.                                                             *)
LEMMA PairStep == BytesOK /\ PairInv /\ [Next]_vars => PairInv'
<1> SUFFICES ASSUME BytesOK, PairInv, [Next]_vars PROVE PairInv'
  OBVIOUS
<1>1. CASE UNCHANGED vars
  BY <1>1, ZenonT(60) DEF vars, PairInv, StoredOver, Arch!Left, Arch!Right, Arch!WordOf, Span, WordOf, Offset
<1>2. CASE Next /\ last'.op \notin {"swl", "swr", "lwl", "lwr"}
  BY <1>2 DEF PairInv
<1>3. CASE Next /\ last'.op \in {"swl", "swr", "lwl", "lwr"}
  <2> DEFINE ea == last'.ea
             rt == last'.rt
  <2>1. /\ ea \in Addr /\ rt \in Regs /\ last'.mem = mem /\ el' = el
        /\ last'.op = "swl" => Swl(ea, rt)
        /\ last'.op = "swr" => Swr(ea, rt)
        /\ last'.op = "lwl" => Lwl(ea, rt)
        /\ last'.op = "lwr" => Lwr(ea, rt)
    BY <1>3, HalfSteps
  <2>2. /\ Arch!Left(last.ea)' = Arch!Left(ea) /\ Arch!Right(last.ea)' = Arch!Right(ea)
        /\ Offset(last.ea)' = Offset(ea) /\ Span(WordOf(last.ea), 4)' = Span(WordOf(ea), 4)
    BY <2>1 DEF Arch!Left, Arch!Right, Arch!WordOf, Offset, Span, WordOf
  <2> HIDE DEF ea, rt
  <2>3. \A lanes : Arch!Stored(lanes, gpr[rt]) = StoredOver(mem, lanes, gpr[rt])
    BY DEF Arch!Stored, StoredOver
  <2>4. gpr[rt] \in Word(4)
    BY <2>1 DEF BytesOK
  <2>5. CASE last'.op = "swl"
    <3>1. gpr' = gpr
      BY <2>1, <2>5 DEF Swl
    <3>2. /\ Offset(ea) # 0 => mem' = StoredOver(mem, Arch!Left(ea), gpr[rt])
          /\ \A a \in Addr \ Span(WordOf(ea), 4) : mem'[a] = mem[a]
      BY <2>1, <2>3, <2>5, SwlStep
    <3> QED
      BY <2>1, <2>2, <2>5, <3>1, <3>2 DEF PairInv, StoredOver, ea, rt
  <2>6. CASE last'.op = "swr"
    <3>1. gpr' = gpr
      BY <2>1, <2>6 DEF Swr
    <3>2. mem' = StoredOver(mem, Arch!Right(ea), gpr[rt])
      BY <2>1, <2>3, <2>6, SwrStep
    <3> QED
      BY <2>1, <2>2, <2>6, <3>1, <3>2 DEF PairInv, StoredOver, ea, rt
  <2>7. CASE last'.op = "lwl"
    <3>1. gpr'[rt] = Arch!Loaded(Arch!Left(ea), gpr[rt]) /\ mem' = mem
      <4>1. gpr' = [gpr EXCEPT ![rt] = Arch!Loaded(Arch!Left(ea), @)] /\ mem' = mem
        BY <2>1, <2>7, LwlStep DEF Lwl
      <4> QED
        BY <2>1, <4>1 DEF BytesOK
    <3>2. \A a \in DOMAIN Arch!Left(ea) : gpr'[rt][Arch!Left(ea)[a]] = mem'[a]
      BY <2>1, <2>4, <3>1, PartLanes, LoadedLanes DEF BytesOK
    <3> QED
      BY <2>1, <2>2, <2>7, <3>2 DEF PairInv, ea, rt
  <2>8. CASE last'.op = "lwr"
    <3>1. gpr'[rt] = Arch!Loaded(Arch!Right(ea), gpr[rt]) /\ mem' = mem
      <4>1. gpr' = [gpr EXCEPT ![rt] = Arch!Loaded(Arch!Right(ea), @)] /\ mem' = mem
        BY <2>1, <2>8, LwrStep DEF Lwr
      <4> QED
        BY <2>1, <4>1 DEF BytesOK
    <3>2. \A a \in DOMAIN Arch!Right(ea) : gpr'[rt][Arch!Right(ea)[a]] = mem'[a]
      <4>1. /\ \A a \in DOMAIN Arch!Right(ea) : Arch!Right(ea)[a] \in 0 .. 3
            /\ \A a, b \in DOMAIN Arch!Right(ea) : Arch!Right(ea)[a] = Arch!Right(ea)[b] => a = b
        BY <2>1, PartLanes DEF BytesOK
      <4>2. \A a \in DOMAIN Arch!Right(ea) :
               Arch!Loaded(Arch!Right(ea), gpr[rt])[Arch!Right(ea)[a]] = mem[a]
        BY <2>4, <4>1, LoadedLanes
      <4> QED
        BY <3>1, <4>2
    <3> QED
      BY <2>1, <2>2, <2>8, <3>2 DEF PairInv, ea, rt
  <2> QED
    BY <1>3, <2>5, <2>6, <2>7, <2>8
<1> QED
  BY <1>1, <1>2, <1>3

(* The memory m with the word w, as the program reads it, at base.         *)
WholeOver(m, base, w) ==
    [a \in Addr |-> IF a \in Span(base, 4) THEN Bswap(el, w, 4)[a - base] ELSE m[a]]

(* The word at base is the one the register holds: the two halves cover    *)
(* it, and each byte comes from a half that names it.                      *)
LEMMA StoredWhole ==
    ASSUME BytesOK, NEW base \in Nat, NEW left \in Addr, NEW right \in Addr, NEW w, NEW m,
           IF el THEN right = base /\ left = base + 3 ELSE left = base /\ right = base + 3
    PROVE  /\ StoredOver(StoredOver(m, Arch!Left(left), w), Arch!Right(right), w) = WholeOver(m, base, w)
           /\ StoredOver(StoredOver(m, Arch!Right(right), w), Arch!Left(left), w) = WholeOver(m, base, w)
<1> DEFINE L == Arch!Left(left)
           R == Arch!Right(right)
<1>1. /\ DOMAIN L \cup DOMAIN R = Span(base, 4) /\ Span(base, 4) = base .. base + 3
      /\ \A a \in DOMAIN L : L[a] \in 0 .. 3 /\ a = ByteOf(base, L[a])
      /\ \A a \in DOMAIN R : R[a] \in 0 .. 3 /\ a = ByteOf(base, R[a])
  BY HalvesCover DEF BytesOK
<1> HIDE DEF L, R
<1>2. ASSUME NEW a \in Span(base, 4)
      PROVE  /\ a \in DOMAIN L => w[L[a]] = Bswap(el, w, 4)[a - base]
             /\ a \in DOMAIN R => w[R[a]] = Bswap(el, w, 4)[a - base]
  <2>1. Bswap(el, w, 4)[a - base] = w[IF el THEN a - base ELSE 3 - (a - base)]
    <3>1. a - base \in Lanes(4) /\ 4 - 1 - (a - base) = 3 - (a - base)
      BY <1>1 DEF Lanes
    <3>2. CASE el
      BY <3>2 DEF Bswap
    <3>3. CASE ~el
      <4>1. Bswap(el, w, 4) = [l \in Lanes(4) |-> w[4 - 1 - l]]
        BY <3>3 DEF Bswap
      <4>2. Bswap(el, w, 4)[a - base] = w[4 - 1 - (a - base)]
        BY <3>1, <4>1, Zenon
      <4> QED
        BY <3>1, <3>3, <4>2
    <3> QED
      BY <3>2, <3>3
  <2>2. ASSUME NEW l \in 0 .. 3, a = ByteOf(base, l)
        PROVE  l = IF el THEN a - base ELSE 3 - (a - base)
    BY <1>1, <2>2 DEF ByteOf, BytesOK
  <2> QED
    BY <1>1, <2>1, <2>2
<1>3. \A a \in Addr :
        /\ StoredOver(StoredOver(m, L, w), R, w)[a]
              = IF a \in Span(base, 4) THEN Bswap(el, w, 4)[a - base] ELSE m[a]
        /\ StoredOver(StoredOver(m, R, w), L, w)[a]
              = IF a \in Span(base, 4) THEN Bswap(el, w, 4)[a - base] ELSE m[a]
  BY <1>1, <1>2 DEF StoredOver
<1>4. \A v, lanes : StoredOver(v, lanes, w) = [a \in Addr |-> StoredOver(v, lanes, w)[a]]
  BY DEF StoredOver
<1> QED
  BY <1>3, <1>4 DEF L, R, WholeOver

(* A register that both halves were loaded into holds the word.            *)
LEMMA LoadedWhole ==
    ASSUME BytesOK, NEW base \in Nat, NEW left \in Addr, NEW right \in Addr, NEW w \in Word(4),
           IF el THEN right = base /\ left = base + 3 ELSE left = base /\ right = base + 3
    PROVE  /\ (\A a \in DOMAIN Arch!Left(left) : w[Arch!Left(left)[a]] = mem[a]) =>
                 Arch!Loaded(Arch!Right(right), w) = Load(base, 4)
           /\ (\A a \in DOMAIN Arch!Right(right) : w[Arch!Right(right)[a]] = mem[a]) =>
                 Arch!Loaded(Arch!Left(left), w) = Load(base, 4)
<1> DEFINE L == Arch!Left(left)
           R == Arch!Right(right)
<1>1. /\ DOMAIN L \cup DOMAIN R = Span(base, 4) /\ Span(base, 4) = base .. base + 3
      /\ Span(base, 4) \subseteq Addr
      /\ \A a \in DOMAIN L : L[a] \in 0 .. 3 /\ a = ByteOf(base, L[a])
      /\ \A a \in DOMAIN R : R[a] \in 0 .. 3 /\ a = ByteOf(base, R[a])
  BY HalvesCover DEF BytesOK
<1>2. /\ \A a, b \in DOMAIN L : L[a] = L[b] => a = b
      /\ \A a, b \in DOMAIN R : R[a] = R[b] => a = b
  BY PartLanes DEF BytesOK
<1>3. /\ Load(base, 4) \in Word(4)
      /\ \A l \in 0 .. 3 : Load(base, 4)[l] = mem[ByteOf(base, l)]
  BY <1>1, LoadLanes DEF Lanes, ByteOf
<1> HIDE DEF L, R
<1>4. \A lanes : DOMAIN Arch!Loaded(lanes, w) = 0 .. 3 /\ DOMAIN Load(base, 4) = 0 .. 3
  BY <1>3 DEF Arch!Loaded, Word, Lanes
<1>5. ASSUME NEW l \in 0 .. 3
      PROVE  /\ ByteOf(base, l) \in DOMAIN L \cup DOMAIN R
             /\ \A k \in 0 .. 3 : ByteOf(base, k) = ByteOf(base, l) => k = l
  BY <1>1 DEF ByteOf, BytesOK
<1>6. ASSUME \A a \in DOMAIN L : w[L[a]] = mem[a], NEW l \in 0 .. 3
      PROVE  Arch!Loaded(R, w)[l] = mem[ByteOf(base, l)]
  <2> DEFINE b == ByteOf(base, l)
  <2>1. CASE b \in DOMAIN R
    <3>1. R[b] = l
      BY <1>1, <1>5, <2>1
    <3> QED
      BY <1>1, <1>2, <2>1, <3>1, LoadedLanes
  <2>2. CASE b \notin DOMAIN R
    <3>1. b \in DOMAIN L /\ L[b] = l
      BY <1>1, <1>5, <2>2
    <3>2. \A a \in DOMAIN R : R[a] # l
      BY <1>1, <2>2
    <3>3. Arch!Loaded(R, w)[l] = w[l]
      BY <1>1, <1>2, <3>2, LoadedLanes
    <3> QED
      BY <1>6, <3>1, <3>3
  <2> QED
    BY <2>1, <2>2
<1>7. ASSUME \A a \in DOMAIN R : w[R[a]] = mem[a], NEW l \in 0 .. 3
      PROVE  Arch!Loaded(L, w)[l] = mem[ByteOf(base, l)]
  <2> DEFINE b == ByteOf(base, l)
  <2>1. CASE b \in DOMAIN L
    <3>1. L[b] = l
      BY <1>1, <1>5, <2>1
    <3> QED
      BY <1>1, <1>2, <2>1, <3>1, LoadedLanes
  <2>2. CASE b \notin DOMAIN L
    <3>1. b \in DOMAIN R /\ R[b] = l
      BY <1>1, <1>5, <2>2
    <3>2. \A a \in DOMAIN L : L[a] # l
      BY <1>1, <2>2
    <3>3. Arch!Loaded(L, w)[l] = w[l]
      BY <1>1, <1>2, <3>2, LoadedLanes
    <3> QED
      BY <1>7, <3>1, <3>3
  <2> QED
    BY <2>1, <2>2
<1>8. ASSUME NEW lanes, \A l \in 0 .. 3 : Arch!Loaded(lanes, w)[l] = mem[ByteOf(base, l)]
      PROVE  Arch!Loaded(lanes, w) = Load(base, 4)
  <2>1. Arch!Loaded(lanes, w) = [l \in 0 .. 3 |-> mem[ByteOf(base, l)]]
    BY <1>4, <1>8 DEF Arch!Loaded
  <2>2. Load(base, 4) = [l \in 0 .. 3 |-> mem[ByteOf(base, l)]]
    BY <1>3 DEF Word, Lanes
  <2> QED
    BY <2>1, <2>2
<1> QED
  BY <1>6, <1>7, <1>8 DEF L, R

(* swl with swr, and lwl with lwr, in either order, store and load a word  *)
(* at any address and touch nothing else, but for swr before the swl of an *)
(* aligned word.                                                           *)
THEOREM UnalignedPairsCorrect == Spec => UnalignedPairs
<1> DEFINE Pairs ==
             /\ StoreHalves(last, last') => WordStored(Base(last, last'), gpr[last.rt])
             /\ StoreHalves(last', last) /\ Base(last', last) % 4 # 0 =>
                    WordStored(Base(last', last), gpr[last.rt])
             /\ LoadHalves(last, last') => gpr'[last.rt] = Load(Base(last, last'), 4)
             /\ LoadHalves(last', last) => gpr'[last.rt] = Load(Base(last', last), 4)
<1>1. Init => PairInv
  BY DEF Init, PairInv
<1>2. BytesOK /\ PairInv /\ [Next]_vars => [Pairs]_vars
  <2> SUFFICES ASSUME BytesOK, PairInv, Next PROVE Pairs
    OBVIOUS
  <2>1. ASSUME StoreHalves(last, last')
        PROVE  WordStored(Base(last, last'), gpr[last.rt])
    <3> DEFINE base == Base(last, last')
               left == last.ea
               right == last'.ea
               w == gpr[last.rt]
    <3>1. /\ last.op = "swl" /\ last'.op = "swr" /\ last'.rt = last.rt
          /\ left \in Addr /\ right \in Addr /\ base \in Nat /\ last.rt \in Regs /\ Swr(right, last.rt)
          /\ IF el THEN right = base /\ left = base + 3 ELSE left = base /\ right = base + 3
      BY <2>1, HalfSteps DEF StoreHalves, Halves, Base, PairInv
    <3>2. mem' = StoredOver(mem, Arch!Right(right), w)
      <4>1. mem' = Arch!Stored(Arch!Right(right), w)
        BY <3>1, SwrStep
      <4> QED
        BY <4>1 DEF Arch!Stored, StoredOver
    <3>3. mem' = StoredOver(StoredOver(last.mem, Arch!Left(left), w), Arch!Right(right), w)
      <4>1. CASE base % 4 # 0
        <5>1. Offset(left) # 0
          BY <3>1, <4>1, HalvesCover DEF BytesOK
        <5>2. mem = StoredOver(last.mem, Arch!Left(left), w)
          BY <3>1, <5>1 DEF PairInv
        <5> QED
          BY <3>2, <5>2
      <4>2. CASE base % 4 = 0
        <5>1. /\ DOMAIN Arch!Right(right) = Span(base, 4) /\ Span(WordOf(left), 4) = Span(base, 4)
              /\ DOMAIN Arch!Left(left) \subseteq Span(base, 4)
          BY <3>1, <4>2, HalvesCover DEF BytesOK
        <5>2. \A a \in Addr \ Span(base, 4) : mem[a] = last.mem[a]
          BY <3>1, <5>1 DEF PairInv
        <5> HIDE DEF base, left, right, w
        <5> QED
          BY <3>2, <5>1, <5>2 DEF StoredOver
      <4> QED
        BY <4>1, <4>2
    <3> HIDE DEF base, left, right, w
    <3>4. mem' = WholeOver(last.mem, base, w)
      BY <3>1, <3>3, StoredWhole
    <3> QED
      BY <3>4 DEF WordStored, WholeOver, base, w
  <2>2. ASSUME StoreHalves(last', last), Base(last', last) % 4 # 0
        PROVE  WordStored(Base(last', last), gpr[last.rt])
    <3> DEFINE base == Base(last', last)
               left == last'.ea
               right == last.ea
               w == gpr[last.rt]
    <3>1. /\ last.op = "swr" /\ last'.op = "swl" /\ last'.rt = last.rt
          /\ left \in Addr /\ right \in Addr /\ base \in Nat /\ last.rt \in Regs /\ Swl(left, last.rt)
          /\ IF el THEN right = base /\ left = base + 3 ELSE left = base /\ right = base + 3
      BY <2>2, HalfSteps DEF StoreHalves, Halves, Base, PairInv
    <3>2. Offset(left) # 0
      BY <2>2, <3>1, HalvesCover DEF BytesOK
    <3>3. mem' = StoredOver(mem, Arch!Left(left), w)
      <4>1. mem' = Arch!Stored(Arch!Left(left), w)
        BY <3>1, <3>2, SwlStep
      <4> QED
        BY <4>1 DEF Arch!Stored, StoredOver
    <3>4. mem = StoredOver(last.mem, Arch!Right(right), w)
      BY <3>1 DEF PairInv
    <3> HIDE DEF base, left, right, w
    <3>5. mem' = StoredOver(StoredOver(last.mem, Arch!Right(right), w), Arch!Left(left), w)
      BY <3>3, <3>4
    <3>6. mem' = WholeOver(last.mem, base, w)
      BY <3>1, <3>5, StoredWhole
    <3> QED
      BY <3>6 DEF WordStored, WholeOver, base, w
  <2>3. ASSUME LoadHalves(last, last')
        PROVE  gpr'[last.rt] = Load(Base(last, last'), 4)
    <3> DEFINE base == Base(last, last')
               left == last.ea
               right == last'.ea
               w == gpr[last.rt]
    <3>1. /\ last.op = "lwl" /\ last'.op = "lwr" /\ last'.rt = last.rt
          /\ left \in Addr /\ right \in Addr /\ base \in Nat /\ last.rt \in Regs /\ Lwr(right, last.rt)
          /\ IF el THEN right = base /\ left = base + 3 ELSE left = base /\ right = base + 3
      BY <2>3, HalfSteps DEF LoadHalves, Halves, Base, PairInv
    <3>2. gpr'[last.rt] = Arch!Loaded(Arch!Right(right), w)
      <4>1. gpr' = [gpr EXCEPT ![last.rt] = Arch!Loaded(Arch!Right(right), @)]
        BY <3>1, LwrStep
      <4> QED
        BY <3>1, <4>1 DEF BytesOK
    <3>3. w \in Word(4) /\ \A a \in DOMAIN Arch!Left(left) : w[Arch!Left(left)[a]] = mem[a]
      BY <3>1 DEF PairInv, BytesOK
    <3> HIDE DEF base, left, right, w
    <3>4. Arch!Loaded(Arch!Right(right), w) = Load(base, 4)
      BY <3>1, <3>3, LoadedWhole
    <3> QED
      BY <3>2, <3>4 DEF base
  <2>4. ASSUME LoadHalves(last', last)
        PROVE  gpr'[last.rt] = Load(Base(last', last), 4)
    <3> DEFINE base == Base(last', last)
               left == last'.ea
               right == last.ea
               w == gpr[last.rt]
    <3>1. /\ last.op = "lwr" /\ last'.op = "lwl" /\ last'.rt = last.rt
          /\ left \in Addr /\ right \in Addr /\ base \in Nat /\ last.rt \in Regs /\ Lwl(left, last.rt)
          /\ IF el THEN right = base /\ left = base + 3 ELSE left = base /\ right = base + 3
      BY <2>4, HalfSteps DEF LoadHalves, Halves, Base, PairInv
    <3>2. gpr'[last.rt] = Arch!Loaded(Arch!Left(left), w)
      <4>1. gpr' = [gpr EXCEPT ![last.rt] = Arch!Loaded(Arch!Left(left), @)]
        BY <3>1, LwlStep
      <4> QED
        BY <3>1, <4>1 DEF BytesOK
    <3>3. w \in Word(4) /\ \A a \in DOMAIN Arch!Right(right) : w[Arch!Right(right)[a]] = mem[a]
      BY <3>1 DEF PairInv, BytesOK
    <3> HIDE DEF base, left, right, w
    <3>4. Arch!Loaded(Arch!Left(left), w) = Load(base, 4)
      BY <3>1, <3>3, LoadedWhole
    <3> QED
      BY <3>2, <3>4 DEF base
  <2> QED
    BY <2>1, <2>2, <2>3, <2>4
<1> QED
  BY <1>1, <1>2, BytesStart, BytesStep, PairStep, PTL DEF Spec, UnalignedPairs

-----------------------------------------------------------------------------
(* The lesser of two.                                                      *)
LEMMA LesserIs ==
    ASSUME NEW a \in Int, NEW b \in Int
    PROVE  Min({a, b}) = IF a <= b THEN a ELSE b
<1>1. \E x \in {a, b} : \A y \in {a, b} : x <= y
  OBVIOUS
<1>2. Min({a, b}) \in {a, b} /\ \A y \in {a, b} : Min({a, b}) <= y
  BY <1>1, Zenon DEF Min
<1>3. PICK m : m = Min({a, b})
  OBVIOUS
<1>4. m \in {a, b} /\ m <= a /\ m <= b
  BY <1>2, <1>3
<1> QED
  BY <1>3, <1>4

(* The greater of two.                                                     *)
LEMMA GreaterIs ==
    ASSUME NEW a \in Int, NEW b \in Int
    PROVE  Max({a, b}) = IF a >= b THEN a ELSE b
<1>1. \E x \in {a, b} : \A y \in {a, b} : x >= y
  OBVIOUS
<1>2. Max({a, b}) \in {a, b} /\ \A y \in {a, b} : Max({a, b}) >= y
  BY <1>1, Zenon DEF Max
<1>3. PICK m : m = Max({a, b})
  OBVIOUS
<1>4. m \in {a, b} /\ m >= a /\ m >= b
  BY <1>2, <1>3
<1> QED
  BY <1>3, <1>4

(* What is written over a string of bytes.                                 *)
LEMMA IntoIs ==
    ASSUME NEW s \in Seq(Data), NEW at \in Nat, NEW t \in Seq(Data)
    PROVE  /\ Into(s, at, t) \in Seq(Data)
           /\ Len(Into(s, at, t)) = IF at + Len(t) <= Len(s) THEN Len(s) ELSE at + Len(t)
<1>0. 0 \in Data
  BY HostFilesAssumption
<1> DEFINE m == Max({Len(s), at + Len(t)})
<1>1. m = (IF at + Len(t) <= Len(s) THEN Len(s) ELSE at + Len(t)) /\ m \in Nat
  BY GreaterIs
<1> HIDE DEF m
<1>2. ASSUME NEW k \in 1 .. m
      PROVE  (IF k \in at + 1 .. at + Len(t) THEN t[k - at] ELSE IF k <= Len(s) THEN s[k] ELSE 0) \in Data
  <2>1. k \in at + 1 .. at + Len(t) => k - at \in 1 .. Len(t)
    OBVIOUS
  <2>2. k <= Len(s) => k \in 1 .. Len(s)
    BY <1>1
  <2> QED
    BY <1>0, <2>1, <2>2
<1>3. Into(s, at, t) \in [1 .. m -> Data]
  BY <1>2 DEF Into, m
<1>4. Into(s, at, t) \in Seq(Data) /\ Len(Into(s, at, t)) = m
  BY <1>1, <1>3, SMTT(30)
<1> QED
  BY <1>1, <1>4

(* Descriptors and files stay well formed; the streams are the terminal,   *)
(* every other descriptor an open file at a place that may be in it.       *)
Opened == [path : Dirs \X Names, pos : 0 .. MaxLen, acc : {"r", "w", "rw"}, append : BOOLEAN]
FilesInv ==
    /\ cwd \in Dirs
    /\ Streams \subseteq DOMAIN desc /\ DOMAIN desc \subseteq 0 .. MaxFd
    /\ \A fd \in Streams : desc[fd] = Tty
    /\ \A fd \in DOMAIN desc \ Streams : desc[fd] \in Opened /\ desc[fd].path \in DOMAIN files
    /\ DOMAIN files \subseteq Dirs \X Names
    /\ \A p \in DOMAIN files : files[p] \in Seq(Data) /\ Len(files[p]) <= MaxLen
    /\ buf \in [1 .. BufLen -> Data] /\ v0 \in Int

(* main begins with the streams and the files of the host.                 *)
LEMMA FilesInitInv == FilesInit => FilesInv
<1> SUFFICES ASSUME FilesInit PROVE FilesInv
  OBVIOUS
<1>1. MaxFd \in Nat /\ MaxFd > 2 /\ 0 \in Data /\ BufLen \in Nat /\ MaxLen \in Nat
  BY HostFilesAssumption
<1>2. /\ DOMAIN files \subseteq Dirs \X Names
      /\ \A p \in DOMAIN files : files[p] \in Seq(Data) /\ Len(files[p]) <= MaxLen
  BY HostFilesAssumption DEF FilesInit
<1>3. DOMAIN desc = Streams /\ \A fd \in Streams : desc[fd] = Tty
  BY DEF FilesInit
<1>4. Streams \subseteq 0 .. MaxFd
  BY <1>1 DEF Streams
<1>5. buf \in [1 .. BufLen -> Data] /\ cwd \in Dirs /\ v0 \in Int
  BY <1>1 DEF FilesInit
<1> QED
  BY <1>2, <1>3, <1>4, <1>5 DEF FilesInv

(* A call that fails leaves all as it is.                                  *)
LEMMA FailsInv == FilesInv /\ Fails => FilesInv'
<1> SUFFICES ASSUME FilesInv, Fails PROVE FilesInv'
  OBVIOUS
<1>1. v0' \in Int /\ cwd' = cwd /\ desc' = desc /\ files' = files /\ buf' = buf
  BY DEF Fails
<1> QED
  BY <1>1 DEF FilesInv

(* A descriptor above the streams is not the terminal's.                   *)
LEMMA TtyIsStream ==
    ASSUME FilesInv, NEW fd \in DOMAIN desc
    PROVE  desc[fd] = Tty <=> fd \in Streams
<1>1. desc[fd] = Tty => ~(desc[fd] \in Opened /\ desc[fd].path \in DOMAIN files)
  <2> SUFFICES ASSUME desc[fd] = Tty, desc[fd].path \in DOMAIN files PROVE FALSE
    OBVIOUS
  <2>1. Tty.path = <<"tty", "">>
    BY DEF Tty
  <2>2. Tty.path \in Dirs \X Names
    BY DEF FilesInv
  <2>3. "tty" \in Dirs
    <3>1. PICK q \in Dirs \X Names : q = <<"tty", "">>
      BY <2>1, <2>2
    <3>2. q[1] \in Dirs /\ q[1] = "tty"
      BY <3>1
    <3> QED
      BY <3>2
  <2> QED
    BY <2>3, HostFilesAssumption
<1> QED
  BY <1>1 DEF FilesInv

(* open takes the lowest free descriptor, never a stream's.                *)
LEMMA OpenInv ==
    ASSUME FilesInv, NEW name \in Names, NEW m \in Meanings, PosixOpen(name, m)
    PROVE  FilesInv'
<1> DEFINE p == <<cwd, name>>
           exists == p \in DOMAIN files
           free == (0 .. MaxFd) \ DOMAIN desc
           fd == Min(free)
           d == [path |-> p, pos |-> 0, acc |-> m.acc, append |-> m.append]
           t == IF exists /\ ~m.trunc THEN files[p] ELSE << >>
<1>1. CASE Fails
  BY <1>1, FailsInv
<1>2. CASE /\ free # {}
           /\ desc' = With(desc, fd, d) /\ files' = With(files, p, t)
           /\ v0' = fd /\ UNCHANGED <<cwd, buf>>
  <2>1. fd \in free
    <3>1. PICK k \in free : \A n \in free : k <= n
      <4>1. free \subseteq Nat /\ \E k \in Nat : k \in free
        BY <1>2
      <4> HIDE DEF free
      <4>2. \E k \in free : \A n \in free : k <= n
        BY <4>1, LeastExists
      <4> QED
        BY <4>2
    <3>2. \E x \in free : \A y \in free : x <= y
      BY <3>1
    <3> HIDE DEF free
    <3> QED
      BY <3>2, Zenon DEF Min
  <2>2. fd \in 0 .. MaxFd /\ fd \notin DOMAIN desc /\ fd \in Int
    BY <2>1
  <2> HIDE DEF fd
  <2>3. p \in Dirs \X Names /\ cwd \in Dirs
    BY DEF FilesInv
  <2> HIDE DEF p
  <2>4. MaxLen \in Nat
    BY HostFilesAssumption
  <2>5. d \in Opened /\ d.path = p
    BY <2>3, <2>4 DEF Opened, Meanings
  <2>6. t \in Seq(Data) /\ Len(t) <= MaxLen
    BY <2>4 DEF FilesInv
  <2> HIDE DEF t, d
  <2>7. DOMAIN desc' = DOMAIN desc \cup {fd} /\ desc'[fd] = d
        /\ \A g \in DOMAIN desc : desc'[g] = desc[g]
    BY <1>2, <2>2 DEF With
  <2>8. DOMAIN files' = DOMAIN files \cup {p}
        /\ \A q \in DOMAIN files' : files'[q] \in Seq(Data) /\ Len(files'[q]) <= MaxLen
    BY <1>2, <2>6 DEF With, FilesInv
  <2>9. /\ Streams \subseteq DOMAIN desc' /\ DOMAIN desc' \subseteq 0 .. MaxFd
        /\ \A g \in Streams : desc'[g] = Tty
    BY <2>2, <2>7 DEF FilesInv
  <2>10. ASSUME NEW g \in DOMAIN desc' \ Streams
         PROVE  desc'[g] \in Opened /\ desc'[g].path \in DOMAIN files'
    BY <2>5, <2>7, <2>8 DEF FilesInv
  <2>11. DOMAIN files' \subseteq Dirs \X Names
    BY <2>3, <2>8 DEF FilesInv
  <2> QED
    BY <1>2, <2>2, <2>8, <2>9, <2>10, <2>11 DEF FilesInv
<1> QED
  BY <1>1, <1>2 DEF PosixOpen

(* A descriptor whose place in its file moves.                             *)
LEMMA MoveInv ==
    ASSUME FilesInv, NEW fd \in DOMAIN desc, fd \notin Streams, NEW at \in 0 .. MaxLen,
           desc' = [desc EXCEPT ![fd].pos = at], cwd' = cwd, DOMAIN files' = DOMAIN files,
           \A p \in DOMAIN files' : files'[p] \in Seq(Data) /\ Len(files'[p]) <= MaxLen,
           buf' \in [1 .. BufLen -> Data], v0' \in Int
    PROVE  FilesInv'
<1>1. DOMAIN desc' = DOMAIN desc /\ \A g \in DOMAIN desc : g # fd => desc'[g] = desc[g]
  OBVIOUS
<1>2. desc'[fd] = [desc[fd] EXCEPT !.pos = at]
  OBVIOUS
<1>3. desc[fd] \in Opened /\ desc[fd].path \in DOMAIN files
  BY DEF FilesInv
<1>4. desc'[fd] \in Opened /\ desc'[fd].path = desc[fd].path
  BY <1>2, <1>3 DEF Opened
<1>5. \A g \in DOMAIN desc' \ Streams : desc'[g] \in Opened /\ desc'[g].path \in DOMAIN files'
  BY <1>1, <1>3, <1>4 DEF FilesInv
<1>6. \A g \in Streams : desc'[g] = Tty
  BY <1>1 DEF FilesInv
<1> QED
  BY <1>1, <1>5, <1>6 DEF FilesInv

(* The buffer keeps its length when no more than that is put into it.      *)
LEMMA BufferKept ==
    ASSUME FilesInv, NEW t \in Seq(Data), Len(t) <= BufLen
    PROVE  Into(buf, 0, t) \in [1 .. BufLen -> Data]
<1>1. BufLen \in Nat /\ buf \in [1 .. BufLen -> Data]
  BY HostFilesAssumption DEF FilesInv
<1>2. buf \in Seq(Data) /\ Len(buf) = BufLen
  BY <1>1
<1>3. Into(buf, 0, t) \in Seq(Data) /\ Len(Into(buf, 0, t)) = BufLen
  BY <1>1, <1>2, IntoIs
<1> DEFINE s == Into(buf, 0, t)
<1> HIDE DEF s
<1>4. s \in Seq(Data) /\ Len(s) = BufLen
  BY <1>3 DEF s
<1>5. s \in [1 .. BufLen -> Data]
  BY <1>4
<1> QED
  BY <1>5 DEF s

(* read moves a descriptor as far as it read, which is in the file.        *)
LEMMA ReadInv ==
    ASSUME FilesInv, NEW fd, NEW n \in 0 .. BufLen, PosixRead(fd, n)
    PROVE  FilesInv'
<1>0. BufLen \in Nat /\ MaxLen \in Nat
  BY HostFilesAssumption
<1>1. CASE Fails
  BY <1>1, FailsInv
<1>2. CASE \E k \in 0 .. n : \E t \in [1 .. k -> Data] :
              buf' = Into(buf, 0, t) /\ v0' = k /\ UNCHANGED <<cwd, desc, files>>
  <2>0. PICK k \in 0 .. n : \E t \in [1 .. k -> Data] :
              buf' = Into(buf, 0, t) /\ v0' = k /\ UNCHANGED <<cwd, desc, files>>
    BY <1>2
  <2>1. PICK t \in [1 .. k -> Data] :
              buf' = Into(buf, 0, t) /\ v0' = k /\ UNCHANGED <<cwd, desc, files>>
    BY <2>0
  <2>2. t \in Seq(Data) /\ Len(t) = k
    BY <1>0
  <2>3. buf' \in [1 .. BufLen -> Data]
    BY <1>0, <2>1, <2>2, BufferKept
  <2> QED
    BY <2>1, <2>3 DEF FilesInv
<1>3. CASE /\ fd \in DOMAIN desc /\ desc[fd] # Tty /\ desc[fd].acc # "w"
           /\ LET d == desc[fd]
                  t == SubSeq(files[d.path], d.pos + 1, Min({d.pos + n, Len(files[d.path])}))
              IN  /\ buf' = Into(buf, 0, t)
                  /\ desc' = [desc EXCEPT ![fd].pos = @ + Len(t)]
                  /\ v0' = Len(t)
                  /\ UNCHANGED <<cwd, files>>
  <2> DEFINE s == files[desc[fd].path]
             pos == desc[fd].pos
             stop == Min({pos + n, Len(s)})
             t == SubSeq(s, pos + 1, stop)
  <2>1. fd \notin Streams
    BY <1>3, TtyIsStream
  <2>2. desc[fd] \in Opened /\ desc[fd].path \in DOMAIN files
    BY <1>3, <2>1 DEF FilesInv
  <2>3. s \in Seq(Data) /\ Len(s) <= MaxLen /\ pos \in 0 .. MaxLen
    BY <2>2 DEF FilesInv, Opened
  <2>4. /\ buf' = Into(buf, 0, t) /\ v0' = Len(t)
        /\ desc' = [desc EXCEPT ![fd].pos = pos + Len(t)] /\ UNCHANGED <<cwd, files>>
    BY <1>3
  <2> HIDE DEF s, pos
  <2>5. pos + n \in Int /\ Len(s) \in Nat
    BY <1>0, <2>3
  <2>6. stop \in Int /\ stop <= pos + n /\ stop <= Len(s) /\ stop >= 0
    BY <1>0, <2>3, <2>5, LesserIs
  <2> HIDE DEF stop
  <2>7. \A i \in pos + 1 .. stop : s[i] \in Data
    BY <1>0, <2>3, <2>5, <2>6
  <2>8. t \in Seq(Data) /\ Len(t) = IF pos + 1 <= stop THEN stop - (pos + 1) + 1 ELSE 0
    <3>1. pos + 1 \in Int
      BY <1>0, <2>3
    <3> QED
      BY <2>6, <2>7, <3>1, SubSeqProperties
  <2> HIDE DEF t
  <2>9. Len(t) \in Nat /\ Len(t) <= BufLen /\ pos + Len(t) \in 0 .. MaxLen
    BY <1>0, <2>3, <2>5, <2>6, <2>8
  <2>10. buf' \in [1 .. BufLen -> Data]
    BY <2>4, <2>8, <2>9, BufferKept
  <2>11. DOMAIN files' = DOMAIN files /\ cwd' = cwd /\ v0' \in Int
         /\ \A p \in DOMAIN files' : files'[p] \in Seq(Data) /\ Len(files'[p]) <= MaxLen
    BY <2>4, <2>9 DEF FilesInv
  <2> QED
    BY <1>3, <2>1, <2>4, <2>9, <2>10, <2>11, MoveInv
<1> QED
  BY <1>1, <1>2, <1>3 DEF PosixRead

(* write leaves a descriptor behind what it wrote.                         *)
LEMMA WriteInv ==
    ASSUME FilesInv, NEW fd, NEW n \in 0 .. BufLen, PosixWrite(fd, n)
    PROVE  FilesInv'
<1>0. BufLen \in Nat /\ MaxLen \in Nat /\ n \in Nat /\ n <= BufLen
  BY HostFilesAssumption
<1>1. CASE Fails
  BY <1>1, FailsInv
<1>2. CASE fd \in DOMAIN desc /\ desc[fd] = Tty /\ v0' = n /\ UNCHANGED <<cwd, desc, files, buf>>
  BY <1>0, <1>2 DEF FilesInv
<1>3. CASE /\ fd \in DOMAIN desc /\ desc[fd] # Tty /\ desc[fd].acc # "r"
           /\ LET d == desc[fd]
                  at == IF d.append THEN Len(files[d.path]) ELSE d.pos
              IN  /\ at + n <= MaxLen
                  /\ files' = [files EXCEPT ![d.path] = IF n = 0 THEN @ ELSE Into(@, at, SubSeq(buf, 1, n))]
                  /\ desc' = [desc EXCEPT ![fd].pos = IF n = 0 THEN @ ELSE at + n]
                  /\ v0' = n
                  /\ UNCHANGED <<cwd, buf>>
  <2> DEFINE q == desc[fd].path
             s == files[q]
             pos == desc[fd].pos
             at == IF desc[fd].append THEN Len(s) ELSE pos
             t == SubSeq(buf, 1, n)
             to == IF n = 0 THEN pos ELSE at + n
  <2>1. fd \notin Streams
    BY <1>3, TtyIsStream
  <2>2. desc[fd] \in Opened /\ q \in DOMAIN files
    BY <1>3, <2>1 DEF FilesInv
  <2>3. s \in Seq(Data) /\ Len(s) <= MaxLen /\ pos \in 0 .. MaxLen
    BY <2>2 DEF FilesInv, Opened
  <2>4. /\ at + n <= MaxLen
        /\ files' = [files EXCEPT ![q] = IF n = 0 THEN @ ELSE Into(@, at, t)]
        /\ desc' = [desc EXCEPT ![fd].pos = to] /\ v0' = n /\ UNCHANGED <<cwd, buf>>
    BY <1>3
  <2> HIDE DEF s, pos, q
  <2>5. at \in Nat /\ Len(s) \in Nat
    BY <1>0, <2>3
  <2> HIDE DEF at
  <2>6. to \in 0 .. MaxLen
    BY <1>0, <2>3, <2>4, <2>5
  <2> HIDE DEF to
  <2>7. t \in Seq(Data) /\ Len(t) = n
    <3>1. \A i \in 1 .. n : buf[i] \in Data
      BY <1>0 DEF FilesInv
    <3>2. 1 \in Int /\ n \in Int
      BY <1>0
    <3>3. t \in Seq(Data) /\ Len(t) = IF 1 <= n THEN n - 1 + 1 ELSE 0
      BY <3>1, <3>2, SubSeqProperties
    <3> QED
      BY <1>0, <3>3
  <2> HIDE DEF t
  <2>8. Into(s, at, t) \in Seq(Data) /\ Len(Into(s, at, t)) <= MaxLen
    BY <1>0, <2>3, <2>4, <2>5, <2>7, IntoIs
  <2>9. DOMAIN files' = DOMAIN files
        /\ \A p \in DOMAIN files' : files'[p] \in Seq(Data) /\ Len(files'[p]) <= MaxLen
    <3>1. \A p \in DOMAIN files : files'[p] = IF p = q /\ n # 0 THEN Into(s, at, t) ELSE files[p]
      BY <2>2, <2>4 DEF s
    <3> QED
      BY <2>4, <2>8, <3>1 DEF FilesInv
  <2>10. cwd' = cwd /\ v0' \in Int /\ buf' \in [1 .. BufLen -> Data]
    BY <1>0, <2>4 DEF FilesInv
  <2>11. desc' = [desc EXCEPT ![fd].pos = to] /\ fd \in DOMAIN desc
    BY <1>3, <2>4
  <2> QED
    BY <2>1, <2>6, <2>9, <2>10, <2>11, MoveInv
<1> QED
  BY <1>1, <1>2, <1>3 DEF PosixWrite

(* lseek.                                                                  *)
LEMMA SeekInv ==
    ASSUME FilesInv, NEW fd, NEW off, NEW whence, PosixSeek(fd, off, whence)
    PROVE  FilesInv'
<1>1. CASE Fails
  BY <1>1, FailsInv
<1>2. CASE /\ fd \in DOMAIN desc /\ desc[fd] # Tty
           /\ \E to \in 0 .. MaxLen : /\ desc' = [desc EXCEPT ![fd].pos = to]
                                      /\ v0' = to /\ UNCHANGED <<cwd, files, buf>>
  <2>1. fd \notin Streams
    BY <1>2, TtyIsStream
  <2>2. PICK to \in 0 .. MaxLen : /\ desc' = [desc EXCEPT ![fd].pos = to]
                                  /\ v0' = to /\ UNCHANGED <<cwd, files, buf>>
    BY <1>2
  <2>3. /\ cwd' = cwd /\ DOMAIN files' = DOMAIN files /\ v0' \in Int
        /\ \A p \in DOMAIN files' : files'[p] \in Seq(Data) /\ Len(files'[p]) <= MaxLen
        /\ buf' \in [1 .. BufLen -> Data]
    BY <2>2 DEF FilesInv
  <2> QED
    BY <1>2, <2>1, <2>2, <2>3, MoveInv
<1> QED
  BY <1>1, <1>2 DEF PosixSeek

(* close, of anything but a stream.                                        *)
LEMMA CloseInv ==
    ASSUME FilesInv, NEW fd, fd \notin Streams, PosixClose(fd)
    PROVE  FilesInv'
<1>1. CASE Fails
  BY <1>1, FailsInv
<1>2. CASE /\ desc' = [d \in DOMAIN desc \ {fd} |-> desc[d]]
           /\ v0' = 0 /\ UNCHANGED <<cwd, files, buf>>
  <2>1. DOMAIN desc' = DOMAIN desc \ {fd} /\ \A g \in DOMAIN desc' : desc'[g] = desc[g]
    BY <1>2
  <2>2. /\ Streams \subseteq DOMAIN desc' /\ DOMAIN desc' \subseteq 0 .. MaxFd
        /\ \A g \in Streams : desc'[g] = Tty
    BY <2>1 DEF FilesInv
  <2> QED
    BY <1>2, <2>1, <2>2 DEF FilesInv
<1> QED
  BY <1>1, <1>2 DEF PosixClose

(* chdir.                                                                  *)
LEMMA ChdirInv ==
    ASSUME FilesInv, NEW dir, PosixChdir(dir)
    PROVE  FilesInv'
<1>1. CASE Fails
  BY <1>1, FailsInv
<1>2. CASE dir \in Dirs /\ cwd' = dir /\ v0' = 0 /\ UNCHANGED <<desc, files, buf>>
  BY <1>2 DEF FilesInv
<1> QED
  BY <1>1, <1>2 DEF PosixChdir

(* Swapping twice swaps back (bswap).                                      *)
LEMMA SwapTwice ==
    ASSUME NEW n \in Nat, NEW w
    PROVE  /\ Host!Bswap(isMipsEL, Host!Bswap(isMipsEL, Cut(w, n), n), n) = Cut(w, n)
           /\ AsRead(Swapped(w, n, n), n) = Cut(w, n)
<1>1. \A l \in 0 .. n - 1 : n - 1 - l \in 0 .. n - 1 /\ n - 1 - (n - 1 - l) = l
  OBVIOUS
<1>2. Cut(w, n) = [l \in 0 .. n - 1 |-> w[l]] /\ Host!Lanes(n) = 0 .. n - 1
  BY DEF Cut, Host!Lanes
<1>3. ASSUME NEW v, v = Cut(w, n)
      PROVE  Host!Bswap(isMipsEL, Host!Bswap(isMipsEL, v, n), n) = v
  <2>1. CASE isMipsEL
    BY <2>1 DEF Host!Bswap
  <2>2. CASE ~isMipsEL
    <3>1. Host!Bswap(isMipsEL, v, n) = [l \in 0 .. n - 1 |-> v[n - 1 - l]]
      BY <1>2, <2>2 DEF Host!Bswap
    <3>2. Host!Bswap(isMipsEL, Host!Bswap(isMipsEL, v, n), n)
            = [l \in 0 .. n - 1 |-> Host!Bswap(isMipsEL, v, n)[n - 1 - l]]
      BY <1>2, <2>2 DEF Host!Bswap
    <3>3. v = [l \in 0 .. n - 1 |-> w[l]]
      BY <1>2, <1>3
    <3> DEFINE u == Host!Bswap(isMipsEL, v, n)
    <3>4. ASSUME NEW l \in 0 .. n - 1 PROVE u[n - 1 - l] = v[l]
      <4>1. PICK j \in 0 .. n - 1 : j = n - 1 - l /\ n - 1 - j = l
        BY <1>1
      <4>2. u[j] = v[n - 1 - j]
        BY <3>1
      <4> QED
        BY <4>1, <4>2
    <3> HIDE DEF u
    <3>5. [l \in 0 .. n - 1 |-> u[n - 1 - l]] = v
      BY <3>3, <3>4
    <3> QED
      BY <3>2, <3>5 DEF u
  <2> QED
    BY <2>1, <2>2
<1>4. ASSUME NEW v, v = Host!Bswap(isMipsEL, Cut(w, n), n)
      PROVE  Cut(v, n) = v
  <2>1. CASE isMipsEL
    BY <1>2, <1>4, <2>1 DEF Host!Bswap, Cut
  <2>2. CASE ~isMipsEL
    <3>1. v = [l \in 0 .. n - 1 |-> Cut(w, n)[n - 1 - l]]
      BY <1>2, <1>4, <2>2 DEF Host!Bswap
    <3> QED
      BY <3>1 DEF Cut
  <2> QED
    BY <2>1, <2>2
<1>5. Cut(Cut(Host!Bswap(isMipsEL, Cut(w, n), n), n), n) = Host!Bswap(isMipsEL, Cut(w, n), n)
  BY <1>4
<1> QED
  BY <1>3, <1>5 DEF AsRead, Swapped

(* Where the program stored a pointer it is read back.                     *)
LEMMA PointerIs ==
    ASSUME NEW k
    PROVE  Pointer(k) = Cut(Value(k), 4) /\ Pointer(k)[0] = <<k, 0>>
<1>1. Pointer(k) = Cut(Value(k), 4)
  BY SwapTwice DEF Pointer, Stored
<1>2. Cut(Value(k), 4)[0] = <<k, 0>>
  BY DEF Cut, Value
<1> QED
  BY <1>1, <1>2

(* A structure of stat is read as it should.                               *)
LEMMA StatRead ==
    ASSUME NEW f \in DOMAIN StatFields, f # "st_dev" \/ isMipsEL, NEW w
    PROVE  AsRead(Swapped(w, StatFields[f][1], StatFields[f][2]), StatFields[f][2])
             = Cut(w, StatFields[f][2])
<1>1. CASE f # "st_dev"
  <2>1. StatFields[f][1] = StatFields[f][2] /\ StatFields[f][2] \in Nat
    BY <1>1 DEF StatFields
  <2>2. PICK n \in Nat : n = StatFields[f][1] /\ n = StatFields[f][2]
    BY <2>1
  <2> QED
    BY <2>2, SwapTwice
<1>2. CASE f = "st_dev"
  <2>1. StatFields[f][1] = 4 /\ StatFields[f][2] = 2
    BY <1>2 DEF StatFields
  <2>2. Swapped(w, 4, 2) = Cut(Cut(w, 4), 2)
    BY <1>2 DEF Swapped, Host!Bswap
  <2>3. Cut(Cut(w, 4), 2) = Cut(w, 2)
    BY DEF Cut
  <2>4. AsRead(Cut(w, 2), 2) = Cut(w, 2)
    BY <1>2 DEF AsRead, Host!Bswap, Cut
  <2> QED
    BY <2>1, <2>2, <2>3, <2>4
<1> QED
  BY <1>1, <1>2

(* The words of --args, and the ones buildArgcArgv has taken after the     *)
(* first of them.                                                          *)
Taking(f, limited) ==
    /\ f[0] = <<Filename>>
    /\ \A k \in 0 .. Len(args) : f[k] \in Seq(STRING \cup {Filename})
    /\ \A k \in 1 .. Len(args) :
          f[k] = IF args[k] # " " /\ (limited => Len(f[k - 1]) <= MARGS)
                 THEN Append(f[k - 1], args[k]) ELSE f[k - 1]
Given ==
    LET words[n \in 0 .. Len(args)] ==
          IF n = 0 THEN <<Filename>>
          ELSE IF args[n] # " " THEN Append(words[n - 1], args[n]) ELSE words[n - 1]
    IN  words[Len(args)]

(* Words are taken one by one.                                             *)
LEMMA Takes ==
    ASSUME args \in Seq(STRING), NEW limited \in BOOLEAN
    PROVE  \E f : Taking(f, limited)
<1> DEFINE T == Seq(STRING \cup {Filename})
           n == Len(args)
           x == <<Filename>>
           F == [k \in 1 .. n |-> [y \in T |->
                   IF args[k] # " " /\ (limited => Len(y) <= MARGS) THEN Append(y, args[k]) ELSE y]]
<1>1. StepsWithin(F, n, T)
  <2> SUFFICES ASSUME NEW k \in 1 .. n, NEW y \in T PROVE F[k][y] \in T
    BY DEF StepsWithin
  <2>1. args[k] \in STRING \cup {Filename}
    OBVIOUS
  <2>2. Append(y, args[k]) \in T
    BY <2>1, AppendProperties
  <2> QED
    BY <2>2
<1>2. n \in Nat /\ x \in T
  OBVIOUS
<1>3. PICK f : Iterated(f, F, n, T, x)
  <2> HIDE DEF T, F, n, x
  <2> QED
    BY <1>1, <1>2, Iterates
<1>4. f \in [0 .. n -> T] /\ f[0] = x /\ \A k \in 1 .. n : f[k] = F[k][f[k - 1]]
  <2> HIDE DEF T, F, n, x
  <2> QED
    BY <1>3 DEF Iterated
<1>5. ASSUME NEW k \in 1 .. n
      PROVE  f[k] = IF args[k] # " " /\ (limited => Len(f[k - 1]) <= MARGS)
                    THEN Append(f[k - 1], args[k]) ELSE f[k - 1]
  <2>1. k - 1 \in 0 .. n
    BY <1>2
  <2>2. f[k - 1] \in T
    BY <1>4, <2>1
  <2> DEFINE y == f[k - 1]
  <2> HIDE DEF y
  <2>3. F[k][y] = IF args[k] # " " /\ (limited => Len(y) <= MARGS) THEN Append(y, args[k]) ELSE y
    BY <2>2 DEF y
  <2>4. f[k] = F[k][y]
    BY <1>4 DEF y
  <2> HIDE DEF F
  <2> QED
    BY <2>3, <2>4 DEF y
<1> HIDE DEF F
<1>6. \A k \in 0 .. n : f[k] \in T
  BY <1>4
<1> QED
  BY <1>4, <1>5, <1>6 DEF Taking

(* buildArgcArgv takes at most MARGS words, Given all of them.             *)
LEMMA TakenAre ==
    ASSUME args \in Seq(STRING)
    PROVE  /\ \E f : Taking(f, TRUE) /\ sysArgv = f[Len(args)]
           /\ \E g : Taking(g, FALSE) /\ Given = g[Len(args)]
<1> DEFINE n == Len(args)
<1>0. n \in Nat
  OBVIOUS
<1>1. \E f : Taking(f, TRUE) /\ sysArgv = f[n]
  <2> DEFINE Body(f) == [k \in 0 .. Len(args) |->
                           IF k = 0 THEN <<Filename>>
                           ELSE IF args[k] # " " /\ Len(f[k - 1]) <= MARGS THEN Append(f[k - 1], args[k])
                           ELSE f[k - 1]]
             largs == CHOOSE f : f = Body(f)
  <2>1. PICK g : Taking(g, TRUE)
    BY Takes
  <2> DEFINE f == [k \in 0 .. n |-> g[k]]
  <2>2. Taking(f, TRUE)
    <3>1. \A k \in 0 .. n : f[k] = g[k]
      OBVIOUS
    <3>2. 0 \in 0 .. n /\ \A k \in 1 .. n : k \in 0 .. n /\ k - 1 \in 0 .. n
      BY <1>0
    <3> HIDE DEF f
    <3> QED
      BY <2>1, <3>1, <3>2 DEF Taking
  <2>3. f = Body(f)
    <3>1. ASSUME NEW k \in 0 .. n PROVE f[k] = Body(f)[k]
      <4>1. k = 0 \/ k \in 1 .. n
        BY <1>0
      <4> HIDE DEF f
      <4> QED
        BY <2>2, <4>1 DEF Taking
    <3> QED
      BY <3>1
  <2> HIDE DEF f
  <2>4. largs = Body(largs)
    BY <2>3
  <2>5. sysArgv = largs[Len(args)]
    BY DEF sysArgv
  <2> HIDE DEF largs
  <2> DEFINE M == {m \in Nat : m <= n => largs[m] = f[m]}
  <2>6. 0 \in M
    <3>0. 0 \in 0 .. n
      BY <1>0
    <3>1. largs[0] = <<Filename>>
      <4>1. largs[0] = Body(largs)[0]
        BY <2>4
      <4>2. Body(largs)[0] = <<Filename>>
        BY <3>0
      <4> QED
        BY <4>1, <4>2
    <3>2. f[0] = <<Filename>>
      BY <2>2 DEF Taking
    <3> QED
      BY <3>1, <3>2
  <2>7. ASSUME NEW m \in M PROVE m + 1 \in M
    <3>1. m \in Nat
      OBVIOUS
    <3> SUFFICES ASSUME m + 1 <= n PROVE largs[m + 1] = f[m + 1]
      BY <3>1
    <3>2. m + 1 \in 1 .. n /\ m + 1 \in 0 .. n /\ (m + 1) - 1 = m /\ m + 1 # 0 /\ largs[m] = f[m]
      BY <1>0, <3>1
    <3> DEFINE Step(y) == IF args[m + 1] # " " /\ Len(y) <= MARGS THEN Append(y, args[m + 1]) ELSE y
    <3>3. largs[m + 1] = Step(largs[m])
      BY <2>4, <3>2
    <3>4. f[m + 1] = Step(f[m])
      BY <2>2, <3>2 DEF Taking
    <3> HIDE DEF Step
    <3> QED
      BY <3>2, <3>3, <3>4
  <2>8. M = Nat
    <3>1. M \in SUBSET Nat
      OBVIOUS
    <3> HIDE DEF M
    <3> QED
      BY <2>6, <2>7, <3>1, SetInduction
  <2>9. largs[n] = f[n]
    BY <1>0, <2>8
  <2> QED
    BY <2>2, <2>5, <2>9
<1>2. \E g : Taking(g, FALSE) /\ Given = g[n]
  <2> DEFINE Body(f) == [k \in 0 .. Len(args) |->
                           IF k = 0 THEN <<Filename>>
                           ELSE IF args[k] # " " THEN Append(f[k - 1], args[k]) ELSE f[k - 1]]
             words == CHOOSE f : f = Body(f)
  <2>1. PICK g : Taking(g, FALSE)
    BY Takes
  <2> DEFINE f == [k \in 0 .. n |-> g[k]]
  <2>2. Taking(f, FALSE)
    <3>1. \A k \in 0 .. n : f[k] = g[k]
      OBVIOUS
    <3>2. 0 \in 0 .. n /\ \A k \in 1 .. n : k \in 0 .. n /\ k - 1 \in 0 .. n
      BY <1>0
    <3> HIDE DEF f
    <3> QED
      BY <2>1, <3>1, <3>2 DEF Taking
  <2>3. f = Body(f)
    <3>1. ASSUME NEW k \in 0 .. n PROVE f[k] = Body(f)[k]
      <4>1. k = 0 \/ k \in 1 .. n
        BY <1>0
      <4> HIDE DEF f
      <4> QED
        BY <2>2, <4>1 DEF Taking
    <3> QED
      BY <3>1
  <2> HIDE DEF f
  <2>4. words = Body(words)
    BY <2>3
  <2>5. Given = words[Len(args)]
    BY DEF Given
  <2> HIDE DEF words
  <2> DEFINE M == {m \in Nat : m <= n => words[m] = f[m]}
  <2>6. 0 \in M
    <3>0. 0 \in 0 .. n
      BY <1>0
    <3>1. words[0] = <<Filename>>
      <4>1. words[0] = Body(words)[0]
        BY <2>4
      <4>2. Body(words)[0] = <<Filename>>
        BY <3>0
      <4> QED
        BY <4>1, <4>2
    <3>2. f[0] = <<Filename>>
      BY <2>2 DEF Taking
    <3> QED
      BY <3>1, <3>2
  <2>7. ASSUME NEW m \in M PROVE m + 1 \in M
    <3>1. m \in Nat
      OBVIOUS
    <3> SUFFICES ASSUME m + 1 <= n PROVE words[m + 1] = f[m + 1]
      BY <3>1
    <3>2. m + 1 \in 1 .. n /\ m + 1 \in 0 .. n /\ (m + 1) - 1 = m /\ m + 1 # 0 /\ words[m] = f[m]
      BY <1>0, <3>1
    <3> DEFINE Step(y) == IF args[m + 1] # " " THEN Append(y, args[m + 1]) ELSE y
    <3>3. words[m + 1] = Step(words[m])
      BY <2>4, <3>2
    <3>4. f[m + 1] = Step(f[m])
      BY <2>2, <3>2 DEF Taking
    <3> HIDE DEF Step
    <3> QED
      BY <3>2, <3>3, <3>4
  <2>8. M = Nat
    <3>1. M \in SUBSET Nat
      OBVIOUS
    <3> HIDE DEF M
    <3> QED
      BY <2>6, <2>7, <3>1, SetInduction
  <2>9. words[n] = f[n]
    BY <1>0, <2>8
  <2> QED
    BY <2>2, <2>5, <2>9
<1> QED
  BY <1>1, <1>2

(* Of the name and the words, one more than MARGS are taken.               *)
LEMMA ArgumentsTaken ==
    ASSUME args \in Seq(STRING)
    PROVE  /\ sysArgv \in Seq(STRING \cup {Filename}) /\ Len(Given) \in Nat
           /\ Len(sysArgv) = IF Len(Given) <= MARGS THEN Len(Given) ELSE MARGS + 1
           /\ \A k \in 1 .. Len(sysArgv) : sysArgv[k] = Given[k]
<1> DEFINE n == Len(args)
           S == STRING \cup {Filename}
<1>0. n \in Nat /\ MARGS \in Nat /\ \A k \in 1 .. n : args[k] \in S
  BY HostCallsAssumption
<1>1. PICK f : Taking(f, TRUE) /\ sysArgv = f[n]
  BY TakenAre
<1>2. PICK g : Taking(g, FALSE) /\ Given = g[n]
  BY TakenAre
<1>3. /\ f[0] = <<Filename>> /\ \A k \in 0 .. n : f[k] \in Seq(S)
      /\ \A k \in 1 .. n :
            f[k] = IF args[k] # " " /\ Len(f[k - 1]) <= MARGS THEN Append(f[k - 1], args[k]) ELSE f[k - 1]
  BY <1>1 DEF Taking
<1>4. /\ g[0] = <<Filename>> /\ \A k \in 0 .. n : g[k] \in Seq(S)
      /\ \A k \in 1 .. n :
            g[k] = IF args[k] # " " THEN Append(g[k - 1], args[k]) ELSE g[k - 1]
  BY <1>2 DEF Taking
<1> DEFINE Agree(r, s) == /\ Len(r) = IF Len(s) <= MARGS THEN Len(s) ELSE MARGS + 1
                          /\ Len(s) >= 1 /\ \A k \in 1 .. Len(r) : r[k] = s[k]
           M == {m \in Nat : m <= n => Agree(f[m], g[m])}
<1>5. 0 \in M
  <2> DEFINE e == <<Filename>>
  <2>1. Len(e) = 1 /\ f[0] = e /\ g[0] = e
    BY <1>3, <1>4
  <2> HIDE DEF e
  <2>2. Agree(e, e)
    BY <1>0, <2>1
  <2> HIDE DEF Agree
  <2> QED
    BY <2>1, <2>2
<1>6. ASSUME NEW m \in M PROVE m + 1 \in M
  <2>1. m \in Nat
    OBVIOUS
  <2> SUFFICES ASSUME m + 1 <= n PROVE Agree(f[m + 1], g[m + 1])
    BY <2>1
  <2>2. m + 1 \in 1 .. n /\ m \in 0 .. n /\ (m + 1) - 1 = m /\ Agree(f[m], g[m])
    BY <1>0, <2>1
  <2> DEFINE r == f[m]
             s == g[m]
             a == args[m + 1]
  <2>3. r \in Seq(S) /\ s \in Seq(S) /\ a \in S /\ Agree(r, s)
    BY <1>0, <1>3, <1>4, <2>2
  <2>4. /\ f[m + 1] = IF a # " " /\ Len(r) <= MARGS THEN Append(r, a) ELSE r
        /\ g[m + 1] = IF a # " " THEN Append(s, a) ELSE s
    BY <1>3, <1>4, <2>2
  <2> HIDE DEF r, s, a, S
  <2>5. /\ Len(Append(r, a)) = Len(r) + 1 /\ Append(r, a)[Len(r) + 1] = a
        /\ \A k \in 1 .. Len(r) : Append(r, a)[k] = r[k]
        /\ Len(Append(s, a)) = Len(s) + 1 /\ Append(s, a)[Len(s) + 1] = a
        /\ \A k \in 1 .. Len(s) : Append(s, a)[k] = s[k]
        /\ Len(r) \in Nat /\ Len(s) \in Nat
    <3>1. /\ Len(Append(r, a)) = Len(r) + 1 /\ Append(r, a)[Len(r) + 1] = a
          /\ \A k \in 1 .. Len(r) : Append(r, a)[k] = r[k]
      BY <2>3, AppendProperties, SMTT(30)
    <3>2. /\ Len(Append(s, a)) = Len(s) + 1 /\ Append(s, a)[Len(s) + 1] = a
          /\ \A k \in 1 .. Len(s) : Append(s, a)[k] = s[k]
      BY <2>3, AppendProperties, SMTT(30)
    <3>3. Len(r) \in Nat /\ Len(s) \in Nat
      BY <2>3, LenProperties
    <3> QED
      BY <3>1, <3>2, <3>3
  <2>6. CASE a = " "
    BY <2>3, <2>4, <2>6
  <2>7. CASE a # " " /\ Len(r) <= MARGS
    <3>1. Len(r) = Len(s)
      <4>1. PICK p \in Nat, q \in Nat : p = Len(r) /\ q = Len(s)
        BY <2>5
      <4>2. p = (IF q <= MARGS THEN q ELSE MARGS + 1) /\ p <= MARGS
        BY <2>3, <2>7, <4>1
      <4>3. p = q
        BY <1>0, <4>1, <4>2
      <4> QED
        BY <4>1, <4>3
    <3> DEFINE u == Append(r, a)
               v == Append(s, a)
    <3>2. f[m + 1] = u /\ g[m + 1] = v
      BY <2>4, <2>7
    <3>3. \A k \in 1 .. Len(u) : u[k] = v[k]
      <4> SUFFICES ASSUME NEW k \in 1 .. Len(r) + 1 PROVE u[k] = v[k]
        BY <2>5
      <4>1. CASE k = Len(r) + 1
        BY <2>5, <3>1, <4>1
      <4>2. CASE k \in 1 .. Len(r)
        BY <2>3, <2>5, <3>1, <4>2
      <4>3. PICK p \in Nat : p = Len(r)
        BY <2>5
      <4>4. k = p + 1 \/ k \in 1 .. p
        BY <4>3
      <4> QED
        BY <4>1, <4>2, <4>3, <4>4
    <3>4. Len(u) = Len(r) + 1 /\ Len(v) = Len(r) + 1
      BY <2>5, <3>1
    <3> HIDE DEF u, v
    <3>5. PICK p \in Nat : p = Len(r) /\ p <= MARGS
      BY <2>5, <2>7
    <3>6. Len(u) = p + 1 /\ Len(v) = p + 1 /\ p + 1 >= 1
      BY <3>4, <3>5
    <3>7. Len(u) = IF Len(v) <= MARGS THEN Len(v) ELSE MARGS + 1
      BY <1>0, <3>5, <3>6
    <3> QED
      BY <3>2, <3>3, <3>6, <3>7
  <2>8. CASE a # " " /\ ~(Len(r) <= MARGS)
    <3>0. PICK p \in Nat, q \in Nat : p = Len(r) /\ q = Len(s)
      BY <2>5
    <3>1. p = MARGS + 1 /\ p <= q /\ ~(q <= MARGS)
      <4>1. p = (IF q <= MARGS THEN q ELSE MARGS + 1) /\ ~(p <= MARGS)
        BY <2>3, <2>8, <3>0
      <4> QED
        BY <1>0, <4>1
    <3> DEFINE v == Append(s, a)
    <3>2. f[m + 1] = r /\ g[m + 1] = v
      BY <2>4, <2>8
    <3>3. ASSUME NEW k \in 1 .. Len(r) PROVE r[k] = v[k]
      <4>1. k \in 1 .. Len(s)
        BY <3>0, <3>1
      <4> QED
        BY <2>3, <2>5, <4>1
    <3>4. Len(v) = q + 1
      BY <2>5, <3>0
    <3> HIDE DEF v
    <3>5. Len(r) = (IF Len(v) <= MARGS THEN Len(v) ELSE MARGS + 1) /\ Len(v) >= 1
      BY <1>0, <3>0, <3>1, <3>4
    <3> QED
      BY <3>2, <3>3, <3>5
  <2> QED
    BY <2>6, <2>7, <2>8
<1>7. M = Nat
  <2>1. M \in SUBSET Nat
    OBVIOUS
  <2> HIDE DEF M
  <2> QED
    BY <1>5, <1>6, <2>1, SetInduction
<1>8. Agree(f[n], g[n])
  <2> HIDE DEF Agree, n
  <2>1. n \in M /\ n <= n
    BY <1>0, <1>7
  <2> QED
    BY <2>1
<1>9. f[n] \in Seq(S) /\ g[n] \in Seq(S)
  <2>1. n \in 0 .. n
    BY <1>0
  <2> HIDE DEF n, S
  <2> QED
    BY <1>3, <1>4, <2>1
<1>10. Len(g[n]) \in Nat
  BY <1>9
<1> QED
  BY <1>1, <1>2, <1>8, <1>9, <1>10

(* What the calls leave is readable, whatever the next one is.             *)
HcInv ==
    /\ FilesInv
    /\ args \in Seq(STRING) /\ myTime \in Int
    /\ StructuresRead /\ ArgumentsDelivered

(* ArgumentsDelivered is about Given.                                      *)
LEMMA DeliveredAre ==
    ArgumentsDelivered <=>
        (call = "getargs" =>
           /\ v0 = Min({Len(Given), MARGS + 1})
           /\ \A k \in 1 .. Min({v0, MARGS}) :
                 /\ Cut(Value(k), 4) \in DOMAIN strings
                 /\ strings[Cut(Value(k), 4)] = Given[k])
<1> QED
  BY DEF ArgumentsDelivered, Given

(* A call that hands over neither a structure nor arguments.               *)
LEMMA NothingTold ==
    ASSUME call' \notin {"fstat", "gettimeofday", "times", "get_mem_info", "getargs"}
    PROVE  StructuresRead' /\ ArgumentsDelivered'
<1>1. /\ call' # "fstat" /\ call' # "gettimeofday" /\ call' # "times"
      /\ call' # "get_mem_info" /\ call' # "getargs"
  OBVIOUS
<1>2. StructuresRead'
  BY <1>1 DEF StructuresRead
<1>3. ArgumentsDelivered'
  BY <1>1 DEF ArgumentsDelivered
<1> QED
  BY <1>2, <1>3

(* A call on a file.                                                       *)
LEMMA FileCallInv ==
    ASSUME HcInv, NEW name \in {"open", "read", "write", "lseek", "close", "chdir"},
           NEW with, FileCall(name, with), FilesInv'
    PROVE  HcInv'
<1>1. call' = name /\ args' = args /\ myTime' = myTime
  BY DEF FileCall, Call, Quiet
<1>2. StructuresRead' /\ ArgumentsDelivered'
  BY <1>1, NothingTold
<1> QED
  BY <1>1, <1>2 DEF HcInv

(* A structure's word of four bytes is read as the host's value.           *)
LEMMA WordRead ==
    ASSUME NEW w
    PROVE  AsRead(Swapped(w, 4, 4), 4) = Cut(w, 4)
BY SwapTwice

(* fstat.                                                                  *)
LEMMA FstatInv ==
    ASSUME HcInv, FstatCall
    PROVE  HcInv'
<1> DEFINE Filled(native) == [f \in DOMAIN StatFields |->
                AsRead(Swapped(native[f], StatFields[f][1], StatFields[f][2]), StatFields[f][2])]
           read == [f \in DOMAIN StatFields |-> Value(f)]
           unread == [f \in DOMAIN StatFields |-> Value("stack")]
<1>1. /\ UNCHANGED <<cwd, desc, files, buf, myTime, isMipsEL, enClockFuncts, args>>
      /\ call' = "fstat"
      /\ v0' = -1 \/ (v0' = 0 /\ told' = Filled(read))
  <2>1. /\ UNCHANGED <<cwd, desc, files, buf>> /\ Quiet
        /\ \/ v0' = 0 /\ OtherCall("fstat", Filled(read))
           \/ v0' = -1 /\ OtherCall("fstat", Filled(unread))
    BY DEF FstatCall
  <2> HIDE DEF Filled, read, unread
  <2> QED
    BY <2>1 DEF OtherCall, Call, Quiet
<1>2. FilesInv'
  <2>1. v0' \in Int /\ UNCHANGED <<cwd, desc, files, buf>>
    BY <1>1
  <2> QED
    BY <2>1 DEF FilesInv, HcInv
<1>3. StructuresRead'
  <2>1. CASE v0' = -1
    BY <1>1, <2>1 DEF StructuresRead
  <2>2. CASE told' = Filled(read)
    <3>1. ASSUME NEW f \in DOMAIN told', f # "st_dev" \/ isMipsEL
          PROVE  told'[f] = Cut(Value(f), StatFields[f][2])
      <4>1. f \in DOMAIN StatFields
        BY <2>2, <3>1
      <4>2. told'[f] = AsRead(Swapped(Value(f), StatFields[f][1], StatFields[f][2]), StatFields[f][2])
        BY <2>2, <4>1
      <4> QED
        BY <3>1, <4>1, <4>2, StatRead
    <3>2. isMipsEL' = isMipsEL /\ call' = "fstat"
      BY <1>1
    <3> HIDE DEF Filled
    <3> QED
      BY <3>1, <3>2 DEF StructuresRead
  <2> QED
    BY <1>1, <2>1, <2>2
<1>4. ArgumentsDelivered'
  BY <1>1 DEF ArgumentsDelivered
<1> QED
  BY <1>1, <1>2, <1>3, <1>4 DEF HcInv

(* gettimeofday.                                                           *)
LEMMA GetTimeOfDayInv ==
    ASSUME HcInv, GetTimeOfDayCall
    PROVE  HcInv'
<1>1. /\ v0' = 0 /\ call' = "gettimeofday"
      /\ told' = [f \in {"tv_sec", "tv_usec"} |-> AsRead(Swapped(Value(f), 4, 4), 4)]
      /\ UNCHANGED <<cwd, desc, files, buf, myTime, args>>
  BY DEF GetTimeOfDayCall, OtherCall, Call, Quiet
<1>2. FilesInv'
  BY <1>1 DEF FilesInv, HcInv
<1>3. \A f \in DOMAIN told' : told'[f] = Cut(Value(f), 4)
  BY <1>1, WordRead
<1>4. StructuresRead' /\ ArgumentsDelivered'
  BY <1>1, <1>3 DEF StructuresRead, ArgumentsDelivered
<1> QED
  BY <1>1, <1>2, <1>4 DEF HcInv

(* times.                                                                  *)
LEMMA TimesInv ==
    ASSUME HcInv, TimesCall
    PROVE  HcInv'
<1>0. HostWords \subseteq Int /\ MyTimeStep \in Int
  BY HostCallsAssumption
<1>1. UNCHANGED <<cwd, desc, files, buf, args, enClockFuncts>> /\ call' = "times"
  BY DEF TimesCall, OtherCall, Call
<1>2. v0' \in Int /\ myTime' \in Int
  <2>1. \/ v0' \in HostWords /\ myTime' = myTime
        \/ v0' = myTime /\ myTime' = myTime + MyTimeStep
    BY Zenon DEF TimesCall
  <2>2. myTime \in Int /\ myTime + MyTimeStep \in Int
    BY <1>0 DEF HcInv
  <2>3. CASE v0' \in HostWords /\ myTime' = myTime
    BY <1>0, <2>2, <2>3
  <2>4. CASE v0' = myTime /\ myTime' = myTime + MyTimeStep
    BY <2>2, <2>4
  <2> QED
    BY <2>1, <2>3, <2>4
<1>3. FilesInv'
  BY <1>1, <1>2 DEF FilesInv, HcInv
<1>4. enClockFuncts => \A f \in DOMAIN told' : told'[f] = Cut(Value(f), 4)
  <2> SUFFICES ASSUME enClockFuncts, NEW f \in DOMAIN told' PROVE told'[f] = Cut(Value(f), 4)
    OBVIOUS
  <2>1. told' = [g \in TmsFields |-> AsRead(Swapped(Value(g), 4, 4), 4)]
    BY DEF TimesCall, OtherCall, Call
  <2> QED
    BY <2>1, WordRead
<1>5. StructuresRead' /\ ArgumentsDelivered'
  BY <1>1, <1>4 DEF StructuresRead, ArgumentsDelivered
<1> QED
  BY <1>1, <1>2, <1>3, <1>5 DEF HcInv

(* get_mem_info.                                                           *)
LEMMA GetMemInfoInv ==
    ASSUME HcInv, GetMemInfoCall
    PROVE  HcInv'
<1>1. /\ call' = "get_mem_info" /\ told'.memory = AsRead(Swapped(K1SIZE, 4, 4), 4)
      /\ UNCHANGED <<cwd, desc, files, buf, v0, myTime, args>>
  BY DEF GetMemInfoCall, OtherCall, Call, Quiet
<1>2. FilesInv'
  BY <1>1 DEF FilesInv, HcInv
<1>3. told'.memory = Cut(K1SIZE, 4)
  BY <1>1, WordRead
<1>4. StructuresRead' /\ ArgumentsDelivered'
  BY <1>1, <1>3 DEF StructuresRead, ArgumentsDelivered
<1> QED
  BY <1>1, <1>2, <1>4 DEF HcInv

(* getargs: the program's own pointers, one per word.                      *)
LEMMA GetArgsInv ==
    ASSUME HcInv, GetArgsCall
    PROVE  HcInv'
<1> DEFINE n == Len(sysArgv)
           m == Min({MARGS, n})
           P(k) == Cut(Value(k), 4)
<1>1. /\ call' = "getargs" /\ v0' = n
      /\ UNCHANGED <<cwd, desc, files, buf, myTime, args>>
  BY DEF GetArgsCall, OtherCall, Call
<1>2. strings' = [p \in {Pointer(k) : k \in 1 .. m} |-> sysArgv[CHOOSE k \in 1 .. m : Pointer(k) = p]]
  BY DEF GetArgsCall
<1>3. args \in Seq(STRING) /\ MARGS \in Nat
  BY HostCallsAssumption DEF HcInv
<1>4. /\ n \in Nat /\ Len(Given) \in Nat
      /\ n = IF Len(Given) <= MARGS THEN Len(Given) ELSE MARGS + 1
      /\ \A k \in 1 .. n : sysArgv[k] = Given[k]
  BY <1>3, ArgumentsTaken
<1> HIDE DEF n
<1>5. m = (IF MARGS <= n THEN MARGS ELSE n) /\ m = Min({n, MARGS})
  BY <1>3, <1>4, LesserIs
<1>6. n = Min({Len(Given), MARGS + 1})
  <2>1. PICK q \in Nat : q = Len(Given)
    BY <1>4
  <2>2. Min({q, MARGS + 1}) = IF q <= MARGS + 1 THEN q ELSE MARGS + 1
    BY <1>3, LesserIs
  <2>3. n = IF q <= MARGS THEN q ELSE MARGS + 1
    BY <1>4, <2>1
  <2>4. n = Min({q, MARGS + 1})
    BY <1>3, <2>2, <2>3
  <2> QED
    BY <2>1, <2>4
<1> HIDE DEF m
<1>7. ASSUME NEW k \in 1 .. m PROVE P(k) \in DOMAIN strings' /\ strings'[P(k)] = Given[k]
  <2>1. P(k) = Pointer(k)
    BY PointerIs
  <2>2. \A j \in 1 .. m : Pointer(j) = P(k) => j = k
    <3> SUFFICES ASSUME NEW j \in 1 .. m, Pointer(j) = Pointer(k) PROVE j = k
      BY <2>1
    <3>1. Pointer(j)[0] = <<j, 0>> /\ Pointer(k)[0] = <<k, 0>>
      BY PointerIs
    <3>2. <<j, 0>> = <<k, 0>>
      BY <3>1
    <3> QED
      BY <3>2
  <2> HIDE DEF P
  <2>3. (CHOOSE j \in 1 .. m : Pointer(j) = P(k)) = k
    BY <2>1, <2>2
  <2>4. P(k) \in {Pointer(j) : j \in 1 .. m}
    BY <2>1
  <2>5. P(k) \in DOMAIN strings' /\ strings'[P(k)] = sysArgv[k]
    BY <1>2, <2>3, <2>4
  <2>6. k \in 1 .. n
    BY <1>3, <1>4, <1>5
  <2> QED
    BY <1>4, <2>5, <2>6
<1>8. Given' = Given
  BY <1>1 DEF Given
<1>9. ArgumentsDelivered'
  <2>1. (ArgumentsDelivered <=>
           (call = "getargs" =>
              /\ v0 = Min({Len(Given), MARGS + 1})
              /\ \A k \in 1 .. Min({v0, MARGS}) :
                    /\ Cut(Value(k), 4) \in DOMAIN strings
                    /\ strings[Cut(Value(k), 4)] = Given[k]))'
    BY DeliveredAre, PTL
  <2>2. v0' = Min({Len(Given'), MARGS + 1}) /\ Min({v0', MARGS}) = m
    BY <1>1, <1>5, <1>6, <1>8
  <2> QED
    BY <1>7, <1>8, <2>1, <2>2
<1>10. StructuresRead'
  BY <1>1 DEF StructuresRead
<1>11. FilesInv'
  BY <1>1, <1>4 DEF FilesInv, HcInv
<1> QED
  BY <1>1, <1>9, <1>10, <1>11 DEF HcInv

(* getcwd.                                                                 *)
LEMMA GetcwdInv ==
    ASSUME HcInv, GetcwdCall
    PROVE  HcInv'
<1>1. call' = "getcwd" /\ v0' \in Int /\ UNCHANGED <<cwd, desc, files, buf, myTime, args>>
  BY HostCallsAssumption DEF GetcwdCall, OtherCall, Call, Quiet
<1>2. FilesInv'
  BY <1>1 DEF FilesInv, HcInv
<1>3. StructuresRead' /\ ArgumentsDelivered'
  BY <1>1, NothingTold
<1> QED
  BY <1>1, <1>2, <1>3 DEF HcInv

(* The program writes to its buffer.                                       *)
LEMMA PrepareInv ==
    ASSUME HcInv, Prepare
    PROVE  HcInv'
<1>1. /\ call' = "" /\ buf' \in [1 .. BufLen -> Data]
      /\ UNCHANGED <<cwd, desc, files, v0, myTime, args>>
  BY DEF Prepare, OtherCall, Call, Quiet
<1>2. FilesInv'
  BY <1>1 DEF FilesInv, HcInv
<1>3. StructuresRead' /\ ArgumentsDelivered'
  BY <1>1, NothingTold
<1> QED
  BY <1>1, <1>2, <1>3 DEF HcInv

(* What the flags of an open mean to the host is something it can be asked.*)
LEMMA HostMeaningIs == ASSUME NEW flags PROVE HostMeaning(flags) \in Meanings
BY DEF HostMeaning, Meanings

(* The calls on files.                                                     *)
LEMMA FileCallsInv ==
    ASSUME HcInv, OpenCall \/ ReadCall \/ WriteCall \/ SeekCall \/ CloseCall \/ ChdirCall
    PROVE  HcInv'
<1>0. FilesInv
  BY DEF HcInv
<1>1. CASE OpenCall
  <2>1. PICK name \in Names, flags \in Flags :
            FileCall("open", <<name, flags>>) /\ PosixOpen(name, HostMeaning(remapIOFlags(flags)))
    BY <1>1 DEF OpenCall
  <2>2. PICK m \in Meanings : m = HostMeaning(remapIOFlags(flags))
    BY HostMeaningIs
  <2>3. FilesInv'
    BY <1>0, <2>1, <2>2, OpenInv
  <2> QED
    BY <2>1, <2>3, FileCallInv
<1>2. CASE ReadCall
  <2>1. PICK fd \in -1 .. MaxFd + 1, n \in 0 .. BufLen :
            FileCall("read", <<fd, n>>) /\ PosixRead(fd, n)
    BY <1>2 DEF ReadCall
  <2>2. FilesInv'
    BY <1>0, <2>1, ReadInv
  <2> QED
    BY <2>1, <2>2, FileCallInv
<1>3. CASE WriteCall
  <2>1. PICK fd \in -1 .. MaxFd + 1, n \in 0 .. BufLen :
            FileCall("write", <<fd, n>>) /\ PosixWrite(fd, n)
    BY <1>3 DEF WriteCall
  <2>2. FilesInv'
    BY <1>0, <2>1, WriteInv
  <2> QED
    BY <2>1, <2>2, FileCallInv
<1>4. CASE SeekCall
  <2>1. PICK fd \in -1 .. MaxFd + 1, off \in Offsets, whence \in 0 .. 2 :
            FileCall("lseek", <<fd, off, whence>>) /\ PosixSeek(fd, off, whence)
    BY <1>4 DEF SeekCall
  <2>2. FilesInv'
    BY <1>0, <2>1, SeekInv
  <2> QED
    BY <2>1, <2>2, FileCallInv
<1>5. CASE CloseCall
  <2>1. PICK fd \in -1 .. MaxFd + 1 :
            /\ FileCall("close", <<fd>>)
            /\ IF fd > 2 THEN PosixClose(fd) ELSE v0' = 0 /\ UNCHANGED <<cwd, desc, files, buf>>
    BY <1>5 DEF CloseCall
  <2>2. FilesInv'
    <3>1. CASE fd > 2
      <4>1. fd \notin Streams
        BY <3>1 DEF Streams
      <4> QED
        BY <1>0, <2>1, <3>1, <4>1, CloseInv
    <3>2. CASE ~(fd > 2)
      BY <1>0, <2>1, <3>2 DEF FilesInv
    <3> QED
      BY <3>1, <3>2
  <2> QED
    BY <2>1, <2>2, FileCallInv
<1>6. CASE ChdirCall
  <2>1. PICK dir \in Dirs \cup {"missing"} :
            FileCall("chdir", <<dir>>) /\ PosixChdir(dir)
    BY <1>6 DEF ChdirCall
  <2>2. FilesInv'
    BY <1>0, <2>1, ChdirInv
  <2> QED
    BY <2>1, <2>2, FileCallInv
<1> QED
  BY <1>1, <1>2, <1>3, <1>4, <1>5, <1>6

(* Nothing has been called at the start.                                   *)
LEMMA HcInitInv == HcInit => HcInv
<1> SUFFICES ASSUME HcInit PROVE HcInv
  OBVIOUS
<1>1. FilesInv
  BY FilesInitInv DEF HcInit
<1>2. args \in Seq(STRING) /\ myTime \in Int
  BY HostCallsAssumption DEF HcInit
<1>3. call = ""
  BY DEF HcInit
<1>4. StructuresRead /\ ArgumentsDelivered
  BY <1>3 DEF StructuresRead, ArgumentsDelivered
<1> QED
  BY <1>1, <1>2, <1>4 DEF HcInv

(* Every call keeps it.                                                    *)
LEMMA HcNextInv == HcInv /\ [HcNext]_hcVars => HcInv'
<1> SUFFICES ASSUME HcInv, [HcNext]_hcVars PROVE HcInv'
  OBVIOUS
<1>1. CASE OpenCall \/ ReadCall \/ WriteCall \/ SeekCall \/ CloseCall \/ ChdirCall
  BY <1>1, FileCallsInv
<1>2. CASE FstatCall
  BY <1>2, FstatInv
<1>3. CASE GetTimeOfDayCall
  BY <1>3, GetTimeOfDayInv
<1>4. CASE TimesCall
  BY <1>4, TimesInv
<1>5. CASE GetArgsCall
  BY <1>5, GetArgsInv
<1>6. CASE GetcwdCall
  BY <1>6, GetcwdInv
<1>7. CASE GetMemInfoCall
  BY <1>7, GetMemInfoInv
<1>8. CASE Prepare
  BY <1>8, PrepareInv
<1>9. CASE UNCHANGED hcVars
  <2>1. HcInv => HcInv'
    <3>1. /\ UNCHANGED <<cwd, desc, files, buf, v0>>
          /\ UNCHANGED <<isMipsEL, enClockFuncts, args, myTime, call, told, strings>>
      BY <1>9 DEF hcVars, fileVars
    <3>2. FilesInv'
      BY <3>1 DEF FilesInv, HcInv
    <3>3. StructuresRead'
      BY <3>1 DEF StructuresRead, HcInv
    <3>4. ArgumentsDelivered'
      <4>1. (ArgumentsDelivered <=>
               (call = "getargs" =>
                  /\ v0 = Min({Len(Given), MARGS + 1})
                  /\ \A k \in 1 .. Min({v0, MARGS}) :
                        /\ Cut(Value(k), 4) \in DOMAIN strings
                        /\ strings[Cut(Value(k), 4)] = Given[k]))'
        BY DeliveredAre, PTL
      <4>2. Given' = Given
        BY <3>1 DEF Given
      <4> QED
        BY <3>1, <4>1, <4>2, DeliveredAre DEF HcInv
    <3> QED
      BY <3>1, <3>2, <3>3, <3>4 DEF HcInv
  <2> QED
    BY <2>1
<1> QED
  BY <1>1, <1>2, <1>3, <1>4, <1>5, <1>6, <1>7, <1>8, <1>9 DEF HcNext

(* Everything a call leaves in the program's memory can be read there as   *)
(* what it is, and files and descriptors stay well formed (_monitorBody).  *)
THEOREM ResultsCorrect == HcSpec => []ResultsReadable
<1>1. HcInv => ResultsReadable
  <2> SUFFICES ASSUME HcInv PROVE HcTypeOK
    BY DEF HcInv, ResultsReadable
  <2>1. \A fd \in DOMAIN desc \ Streams :
            desc[fd].path \in DOMAIN files /\ desc[fd].pos \in 0 .. MaxLen
    BY DEF HcInv, FilesInv, Opened
  <2> QED
    BY <2>1 DEF HcInv, FilesInv, HcTypeOK
<1> QED
  BY <1>1, HcInitInv, HcNextInv, PTL DEF HcSpec

(* open is the service's.                                                 *)
LEMMA SameOpen == ASSUME NEW name, NEW m, PosixOpen(name, m) PROVE Files!PosixOpen(name, m)
BY DEF PosixOpen, Fails, With, Min, Files!PosixOpen, Files!Fails, Files!With, Files!Min

(* Bytes are put into a file or the buffer as the service says.           *)
LEMMA SameInto == \A s, at, t : Into(s, at, t) = Files!Into(s, at, t)
BY DEF Into, Files!Into, Max, Files!Max

(* read is the service's.                                                 *)
LEMMA SameRead == ASSUME NEW fd, NEW n, PosixRead(fd, n) PROVE Files!PosixRead(fd, n)
<1>1. Tty = Files!Tty
  BY DEF Tty, Files!Tty
<1>2. Fails <=> Files!Fails
  BY DEF Fails, Files!Fails
<1>3. \A S : Min(S) = Files!Min(S)
  BY DEF Min, Files!Min
<1> QED
  BY <1>1, <1>2, <1>3, SameInto DEF PosixRead, Files!PosixRead

(* write is the service's.                                                *)
LEMMA SameWrite == ASSUME NEW fd, NEW n, PosixWrite(fd, n) PROVE Files!PosixWrite(fd, n)
<1>1. Tty = Files!Tty
  BY DEF Tty, Files!Tty
<1>2. Fails <=> Files!Fails
  BY DEF Fails, Files!Fails
<1> QED
  BY <1>1, <1>2, SameInto DEF PosixWrite, Files!PosixWrite

(* lseek is the service's.                                                *)
LEMMA SameSeek == ASSUME NEW fd, NEW off, NEW w, PosixSeek(fd, off, w) PROVE Files!PosixSeek(fd, off, w)
BY DEF PosixSeek, Fails, Tty, Files!PosixSeek, Files!Fails, Files!Tty

(* close is the service's.                                                *)
LEMMA SameClose == ASSUME NEW fd, PosixClose(fd) PROVE Files!PosixClose(fd)
BY DEF PosixClose, Fails, Files!PosixClose, Files!Fails

(* chdir is the service's.                                                *)
LEMMA SameChdir == ASSUME NEW dir, PosixChdir(dir) PROVE Files!PosixChdir(dir)
BY DEF PosixChdir, Fails, Files!PosixChdir, Files!Fails

(* remapIOFlags: the host is asked with other bits for the same thing.     *)
LEMMA FlagsMean == ASSUME NEW flags PROVE HostMeaning(remapIOFlags(flags)) = Files!Meaning(flags)
<1> DEFINE h == remapIOFlags(flags)
<1>1. Len(simIOFlags) = 10 /\ 1 .. 10 = {1, 2, 3, 4, 5, 6, 7, 8, 9, 10}
  BY DEF simIOFlags
<1>2. /\ simIOFlags[1] = {} /\ simIOFlags[2] = {0} /\ simIOFlags[3] = {1} /\ simIOFlags[4] = {3}
      /\ simIOFlags[5] = {9} /\ simIOFlags[6] = {10} /\ simIOFlags[7] = {11}
      /\ simIOFlags[8] = {13} /\ simIOFlags[9] = {14} /\ simIOFlags[10] = {15}
  BY DEF simIOFlags
<1>3. /\ hostIOFlags[1] = {} /\ hostIOFlags[2] = {0} /\ hostIOFlags[3] = {1} /\ hostIOFlags[4] = {10}
      /\ hostIOFlags[5] = {6} /\ hostIOFlags[6] = {9} /\ hostIOFlags[7] = {7}
      /\ hostIOFlags[8] = {12, 20} /\ hostIOFlags[9] = {11} /\ hostIOFlags[10] = {8}
  BY DEF hostIOFlags
<1>4. ASSUME NEW b
      PROVE  b \in h <=> \E j \in 1 .. 10 : (\E c \in flags : c \in simIOFlags[j]) /\ b \in hostIOFlags[j]
  <2>1. \A j : flags \cap simIOFlags[j] # {} <=> \E c \in flags : c \in simIOFlags[j]
    OBVIOUS
  <2> QED
    BY <1>1, <2>1 DEF remapIOFlags
<1> HIDE DEF h
<1>5. /\ (1 \in h) = (1 \in flags) /\ (0 \in h) = (0 \in flags) /\ (10 \in h) = (3 \in flags)
      /\ (6 \in h) = (9 \in flags) /\ (9 \in h) = (10 \in flags) /\ (7 \in h) = (11 \in flags)
  <2>1. 2 \in 1 .. 10 /\ 3 \in 1 .. 10 /\ 4 \in 1 .. 10 /\ 5 \in 1 .. 10 /\ 6 \in 1 .. 10 /\ 7 \in 1 .. 10
    OBVIOUS
  <2>2. 0 \in h <=> 0 \in flags
    BY <1>1, <1>2, <1>3, <1>4, <2>1
  <2>3. 1 \in h <=> 1 \in flags
    BY <1>1, <1>2, <1>3, <1>4, <2>1
  <2>4. 10 \in h <=> 3 \in flags
    BY <1>1, <1>2, <1>3, <1>4, <2>1
  <2>5. 6 \in h <=> 9 \in flags
    BY <1>1, <1>2, <1>3, <1>4, <2>1
  <2>6. 9 \in h <=> 10 \in flags
    BY <1>1, <1>2, <1>3, <1>4, <2>1
  <2>7. 7 \in h <=> 11 \in flags
    BY <1>1, <1>2, <1>3, <1>4, <2>1
  <2> QED
    BY <2>2, <2>3, <2>4, <2>5, <2>6, <2>7
<1>6. (CASE 1 \in h -> "rw" [] 0 \in h -> "w" [] OTHER -> "r")
        = (CASE 1 \in flags -> "rw" [] 0 \in flags -> "w" [] OTHER -> "r")
  BY <1>5
<1> QED
  BY <1>5, <1>6 DEF HostMeaning, Files!Meaning, h

(* The monitor implements the file service: a call does to the descriptor  *)
(* and the name the program passed what the service says, an open what the *)
(* program's own flags mean, although the host is asked with others, and   *)
(* no call loses a standard stream (remapIOFlags, _monitorBody).           *)
THEOREM ServiceRefinement == HcSpec => ImplementsService
<1>1. HcInit => Files!FilesInit /\ call = "" /\ asked = << >>
  BY DEF HcInit, FilesInit, Streams, Tty, Files!FilesInit, Files!Streams, Files!Tty
<1>2. [HcNext]_hcVars => [Files!Next]_<<Files!fileVars, call, asked>>
  <2> SUFFICES ASSUME [HcNext]_hcVars PROVE Files!Next \/ UNCHANGED <<Files!fileVars, call, asked>>
    OBVIOUS
  <2>0. ASSUME NEW name, NEW with, FileCall(name, with) PROVE call' = name /\ asked' = with
    BY <2>0 DEF FileCall, Call
  <2>1. CASE OpenCall
    <3>1. PICK name \in Names, flags \in Flags :
              FileCall("open", <<name, flags>>) /\ PosixOpen(name, HostMeaning(remapIOFlags(flags)))
      BY <2>1 DEF OpenCall
    <3>2. Files!PosixOpen(name, Files!Meaning(flags))
      BY <3>1, FlagsMean, SameOpen
    <3> QED
      BY <2>0, <3>1, <3>2 DEF Files!Next
  <2>2. CASE ReadCall
    <3>1. PICK fd \in -1 .. MaxFd + 1, n \in 0 .. BufLen :
              FileCall("read", <<fd, n>>) /\ PosixRead(fd, n)
      BY <2>2 DEF ReadCall
    <3> QED
      BY <2>0, <3>1, SameRead DEF Files!Next
  <2>3. CASE WriteCall
    <3>1. PICK fd \in -1 .. MaxFd + 1, n \in 0 .. BufLen :
              FileCall("write", <<fd, n>>) /\ PosixWrite(fd, n)
      BY <2>3 DEF WriteCall
    <3> QED
      BY <2>0, <3>1, SameWrite DEF Files!Next
  <2>4. CASE SeekCall
    <3>1. PICK fd \in -1 .. MaxFd + 1, off \in Offsets, whence \in 0 .. 2 :
              FileCall("lseek", <<fd, off, whence>>) /\ PosixSeek(fd, off, whence)
      BY <2>4 DEF SeekCall
    <3> QED
      BY <2>0, <3>1, SameSeek DEF Files!Next
  <2>5. CASE CloseCall
    <3>1. PICK fd \in -1 .. MaxFd + 1 :
              /\ FileCall("close", <<fd>>)
              /\ IF fd > 2 THEN PosixClose(fd) ELSE v0' = 0 /\ UNCHANGED <<cwd, desc, files, buf>>
      BY <2>5 DEF CloseCall
    <3>2. fd < 3 <=> ~(fd > 2)
      BY HostFilesAssumption
    <3>3. Files!Close(fd)
      BY <3>1, <3>2, SameClose DEF Files!Close
    <3> QED
      BY <2>0, <3>1, <3>3 DEF Files!Next
  <2>6. CASE ChdirCall
    <3>1. PICK dir \in Dirs \cup {"missing"} : FileCall("chdir", <<dir>>) /\ PosixChdir(dir)
      BY <2>6 DEF ChdirCall
    <3> QED
      BY <2>0, <3>1, SameChdir DEF Files!Next
  <2>7. CASE FstatCall \/ GetTimeOfDayCall \/ TimesCall \/ GetArgsCall \/ GetcwdCall
             \/ GetMemInfoCall \/ Prepare
    <3>1. /\ call' \in {"fstat", "gettimeofday", "times", "getargs", "getcwd", "get_mem_info", ""}
          /\ UNCHANGED <<cwd, desc, files>>
      BY <2>7 DEF FstatCall, GetTimeOfDayCall, TimesCall, GetArgsCall, GetcwdCall,
                  GetMemInfoCall, Prepare, OtherCall, Call
    <3>2. Files!Otherwise
      BY <3>1 DEF Files!Otherwise, Files!FileCalls
    <3> QED
      BY <3>2 DEF Files!Next
  <2>8. CASE UNCHANGED hcVars
    BY <2>8 DEF hcVars, fileVars, Files!fileVars
  <2> QED
    BY <2>1, <2>2, <2>3, <2>4, <2>5, <2>6, <2>7, <2>8 DEF HcNext
<1> QED
  BY <1>1, <1>2, PTL DEF HcSpec, ImplementsService, Files!Service
=============================================================================
