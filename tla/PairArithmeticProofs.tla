------------------------- MODULE PairArithmeticProofs -------------------------
(***************************************************************************)
(* For registers of every width: what the 32-bit back ends compute with    *)
(* pairs of words is what the 64-bit back ends compute with one register,  *)
(* and sl_divmod divides as the language says.                             *)
(***************************************************************************)
EXTENDS PairArithmetic, FiniteSetTheorems, WellFoundedInduction, TLAPS

-----------------------------------------------------------------------------
(* Integers modulo m.                                                      *)
LEMMA DivisionFacts ==
    ASSUME NEW m \in Int, m > 0, NEW n \in Int
    PROVE  /\ n \div m \in Int /\ n % m \in Int
           /\ 0 <= n % m /\ n % m < m
           /\ n = (n \div m) * m + (n % m)
  BY SMT

LEMMA DivisionIsUnique ==
    ASSUME NEW m \in Int, m > 0, NEW q \in Int, NEW r \in Int, 0 <= r, r < m
    PROVE  (q * m + r) \div m = q /\ (q * m + r) % m = r
  BY SMT

LEMMA MultiplesVanish ==
    ASSUME NEW m \in Int, m > 0, NEW n \in Int, NEW k \in Int
    PROVE  (n + k * m) % m = n % m
<1>1. PICK q \in Int, r \in Int : n = q * m + r /\ 0 <= r /\ r < m
  BY DivisionFacts
<1>2. n % m = r
  BY <1>1, DivisionIsUnique
<1>3. n + k * m = (q + k) * m + r /\ q + k \in Int
  BY <1>1
<1>4. ((q + k) * m + r) % m = r
  BY <1>1, <1>3, DivisionIsUnique
<1>5. QED
  BY <1>2, <1>3, <1>4

LEMMA SmallIsItself ==
    ASSUME NEW m \in Int, m > 0, NEW n \in Int, 0 <= n, n < m
    PROVE  n % m = n
<1>1. 0 * m + n = n
  OBVIOUS
<1>2. QED
  BY <1>1, DivisionIsUnique

(* A residue has one representative.                                       *)
LEMMA ResidueIs ==
    ASSUME NEW m \in Int, m > 0, NEW n \in Int, NEW r \in Int, 0 <= r, r < m,
           NEW k \in Int, n = r + k * m
    PROVE  n % m = r
  BY MultiplesVanish, SmallIsItself

LEMMA ResidueOf ==
    ASSUME NEW m \in Int, m > 0, NEW n \in Int
    PROVE  \E k \in Int : n % m = n + k * m
<1>1. n = (n \div m) * m + (n % m) /\ n \div m \in Int /\ n % m \in Int
  BY DivisionFacts
<1>2. PICK q \in Int, r \in Int : q = n \div m /\ r = n % m
  BY <1>1
<1>3. r = n + (-q) * m /\ -q \in Int
  BY <1>1, <1>2
<1>4. QED
  BY <1>2, <1>3

-----------------------------------------------------------------------------
(* Powers of two, by counting subsets.                                     *)
LEMMA PowerOfTwo ==
    ASSUME NEW n \in Nat
    PROVE  2^n \in Nat /\ 2^n > 0 /\ 2^n = Cardinality(SUBSET (1 .. n)) /\ IsFiniteSet(SUBSET (1 .. n))
<1>1. IsFiniteSet(1 .. n) /\ Cardinality(1 .. n) = n
  <2>1. /\ IsFiniteSet(1 .. n)
        /\ Cardinality(1 .. n) = IF 1 > n THEN 0 ELSE n - 1 + 1
    BY FS_Interval
  <2>2. QED
    BY <2>1
<1>2. IsFiniteSet(SUBSET (1 .. n)) /\ Cardinality(SUBSET (1 .. n)) = 2^n
  BY <1>1, FS_SUBSET, Zenon
<1>3. Cardinality(SUBSET (1 .. n)) \in Nat
  BY <1>2, FS_CardinalityType
<1>4. SUBSET (1 .. n) # {}
  OBVIOUS
<1>5. Cardinality(SUBSET (1 .. n)) # 0
  BY <1>2, <1>4, FS_EmptySet
<1>6. QED
  BY <1>2, <1>3, <1>5

LEMMA PowerDoubles ==
    ASSUME NEW n \in Nat
    PROVE  2^(n + 1) = 2 * 2^n
<1> DEFINE A == SUBSET (1 .. n)
           B == {s \cup {n + 1} : s \in A}
<1>1. IsFiniteSet(A) /\ Cardinality(A) = 2^n /\ 2^n \in Nat
  BY PowerOfTwo
<1>2. n + 1 \in Nat /\ 2^(n + 1) = Cardinality(SUBSET (1 .. n + 1))
  BY PowerOfTwo
<1>3. n + 1 \notin 1 .. n /\ 1 .. n + 1 = (1 .. n) \cup {n + 1}
  OBVIOUS
<1>4. SUBSET (1 .. n + 1) = A \cup B
  <2>1. ASSUME NEW s \in SUBSET (1 .. n + 1) PROVE s \in A \cup B
    <3>1. CASE n + 1 \in s
      <4>1. s \ {n + 1} \in A
        BY <1>3
      <4>2. s = (s \ {n + 1}) \cup {n + 1}
        BY <3>1
      <4>3. QED
        BY <4>1, <4>2
    <3>2. CASE n + 1 \notin s
      BY <3>2, <1>3
    <3>3. QED
      BY <3>1, <3>2
  <2>2. ASSUME NEW s \in A \cup B PROVE s \in SUBSET (1 .. n + 1)
    BY <1>3
  <2>3. QED
    BY <2>1, <2>2
<1>5. A \cap B = {}
  BY <1>3
<1>6. IsFiniteSet(B) /\ Cardinality(B) = Cardinality(A)
  <2> DEFINE f == [s \in A |-> s \cup {n + 1}]
  <2>1. f \in [A -> B]
    OBVIOUS
  <2>2. ASSUME NEW s \in A, NEW t \in A, f[s] = f[t] PROVE s = t
    <3>1. s \cup {n + 1} = t \cup {n + 1} /\ n + 1 \notin s /\ n + 1 \notin t
      BY <2>2, <1>3
    <3>2. QED
      BY <3>1
  <2>3. \A y \in B : \E s \in A : f[s] = y
    OBVIOUS
  <2>4. f \in Bijection(A, B)
    <3> HIDE DEF f, A, B
    <3>1. f \in Injection(A, B)
      BY <2>1, <2>2 DEF Injection, IsInjective
    <3>2. f \in Surjection(A, B)
      BY <2>1, <2>3 DEF Surjection
    <3>3. QED
      BY <3>1, <3>2 DEF Bijection
  <2>5. ExistsBijection(A, B)
    BY <2>4, Zenon DEF ExistsBijection
  <2>6. QED
    <3> HIDE DEF A, B
    <3> QED
      BY <1>1, <2>5, FS_Bijection, Zenon
<1>7. Cardinality(A \cup B) = Cardinality(A) + Cardinality(B) - Cardinality(A \cap B)
  <2> HIDE DEF A, B
  <2> QED
    BY <1>1, <1>6, FS_Union
<1>8. Cardinality(A \cap B) = 0
  <2> HIDE DEF A, B
  <2> QED
    BY <1>5, FS_EmptySet
<1>9. QED
  <2> HIDE DEF A, B
  <2> QED
    <3>1. Cardinality(A \cup B) = Cardinality(A) + Cardinality(A) - 0
      BY <1>6, <1>7, <1>8
    <3>2. 2^(n + 1) = 2^n + 2^n - 0
      BY <1>1, <1>2, <1>4, <3>1
    <3>3. QED
      BY <1>1, <3>2

LEMMA LeastNatural ==
    ASSUME NEW S \in SUBSET Nat, S # {}
    PROVE  \E m \in S : \A k \in S : m <= k
<1> DEFINE R == OpToRel(<, Nat)
<1>1. IsWellFoundedOn(R, Nat)
  BY NatLessThanWellFounded
<1>2. PICK m \in S : \A k \in S : <<k, m>> \notin R
  <2> HIDE DEF R
  <2> QED
    BY <1>1, WFMin
<1>3. ASSUME NEW k \in S PROVE m <= k
  <2>1. k \in Nat /\ m \in Nat
    OBVIOUS
  <2>2. <<k, m>> \notin R
    BY <1>2
  <2>3. ~(k < m)
    BY <2>1, <2>2 DEF OpToRel
  <2>4. QED
    BY <2>1, <2>3
<1>4. QED
  BY <1>3

LEMMA PowersMultiply ==
    ASSUME NEW m \in Nat, NEW n \in Nat
    PROVE  2^(m + n) = 2^m * 2^n
<1> DEFINE S == {k \in Nat : 2^(m + k) # 2^m * 2^k}
<1>1. SUFFICES ASSUME S # {} PROVE FALSE
  OBVIOUS
<1>2. PICK k \in S : \A j \in S : k <= j
  <2>1. S \in SUBSET Nat
    OBVIOUS
  <2> HIDE DEF S
  <2> QED
    BY <1>1, <2>1, LeastNatural
<1>3. k \in Nat /\ 2^m \in Nat
  BY PowerOfTwo
<1>4. k # 0
  <2>1. 2^0 = 1 /\ m + 0 = m
    OBVIOUS
  <2>2. 2^m = 2^m * 1
    BY <1>3
  <2>3. QED
    BY <2>1, <2>2
<1>5. PICK j \in Nat : k = j + 1
  <2>1. k - 1 \in Nat /\ k = (k - 1) + 1
    BY <1>3, <1>4
  <2>2. QED
    BY <2>1
<1>6. 2^(m + j) = 2^m * 2^j
  <2>1. j \notin S
    <3> HIDE DEF S
    <3> QED
      BY <1>2, <1>5
  <2>2. QED
    BY <2>1
<1>7. /\ m + (j + 1) = (m + j) + 1
      /\ 2^((m + j) + 1) = 2 * 2^(m + j)
      /\ 2^(j + 1) = 2 * 2^j /\ 2^j \in Nat
  <2>1. m + j \in Nat /\ m + (j + 1) = (m + j) + 1
    OBVIOUS
  <2>2. 2^((m + j) + 1) = 2 * 2^(m + j)
    BY <2>1, PowerDoubles
  <2>3. 2^(j + 1) = 2 * 2^j /\ 2^j \in Nat
    BY PowerDoubles, PowerOfTwo
  <2>4. QED
    BY <2>1, <2>2, <2>3
<1>8. 2^(m + k) = 2^m * 2^k
  <2>1. PICK x \in Nat, y \in Nat : x = 2^m /\ y = 2^j
    BY <1>3, <1>7
  <2>2. 2^(m + k) = 2 * (x * y) /\ 2^k = 2 * y
    BY <1>5, <1>6, <1>7, <2>1
  <2>3. 2 * (x * y) = x * (2 * y)
    OBVIOUS
  <2>4. QED
    BY <2>1, <2>2, <2>3
<1>9. QED
  BY <1>2, <1>8
-----------------------------------------------------------------------------
(* Words and pairs.                                                        *)
HalfWord == 2^(WordBits - 1)

LEMMA WordSizeFacts ==
    /\ WordSize \in Nat /\ WordSize > 1
    /\ HalfWord \in Nat /\ HalfWord > 0 /\ WordSize = 2 * HalfWord
    /\ PairSize \in Nat /\ PairSize > 3 /\ PairSize = WordSize * WordSize
    /\ PairSize = 2 * (HalfWord * WordSize) /\ HalfWord * WordSize \in Nat
<1>1. WordBits - 1 \in Nat /\ (WordBits - 1) + 1 = WordBits
  BY WordBitsAssumption
<1>2. HalfWord \in Nat /\ HalfWord > 0 /\ WordSize = 2 * HalfWord
  BY <1>1, PowerOfTwo, PowerDoubles DEF HalfWord, WordSize
<1>3. PICK h \in Nat, w \in Nat : h = HalfWord /\ w = WordSize
  BY <1>2
<1>4. w = 2 * h /\ h > 0 /\ PairSize = w * w
  BY <1>2, <1>3 DEF PairSize
<1>5. w > 1 /\ w * w \in Nat /\ w * w > 3 /\ w * w = 2 * (h * w) /\ h * w \in Nat
  <2>1. w >= 2
    BY <1>4
  <2>2. w * w >= 2 * w
    BY <2>1
  <2>3. w * w = 2 * (h * w)
    BY <1>4
  <2>4. QED
    BY <2>1, <2>2, <2>3
<1>6. QED
  BY <1>2, <1>3, <1>4, <1>5

LEMMA WordFacts ==
    /\ WordSize \in Int /\ WordSize > 0 /\ PairSize \in Int /\ PairSize > 0
    /\ \A w : w \in Word <=> w \in Int /\ 0 <= w /\ w < WordSize
  BY WordSizeFacts DEF Word

(* What fits below m in front of a word fits below m words.                *)
LEMMA Leading ==
    ASSUME NEW w \in Int, w > 0, NEW m \in Int,
           NEW h \in Int, 0 <= h, h < m, NEW l \in Int, 0 <= l, l < w
    PROVE  0 <= l + w * h /\ l + w * h < w * m
<1>1. w * h >= 0
  BY Z3
<1>2. w * (h + 1) <= w * m
  BY Z3
<1>3. w * (h + 1) = w * h + w
  OBVIOUS
<1>4. w * h \in Int /\ w * m \in Int
  OBVIOUS
<1>5. QED
  BY <1>1, <1>2, <1>3, <1>4

LEMMA PairIs ==
    ASSUME NEW l \in Word, NEW h \in Word
    PROVE  /\ [lo |-> l, hi |-> h] \in Pairs
           /\ Value([lo |-> l, hi |-> h]) = l + WordSize * h
           /\ l + WordSize * h \in Int
           /\ 0 <= l + WordSize * h /\ l + WordSize * h < PairSize
<1>1. l \in Int /\ 0 <= l /\ l < WordSize /\ h \in Int /\ 0 <= h /\ h < WordSize
  BY WordFacts
<1>2. 0 <= l + WordSize * h /\ l + WordSize * h < WordSize * WordSize /\ l + WordSize * h \in Int
  BY <1>1, WordFacts, Leading
<1>3. [lo |-> l, hi |-> h] \in Pairs
  BY DEF Pairs
<1>4. QED
  BY <1>2, <1>3 DEF Value, PairSize

LEMMA PairValue ==
    ASSUME NEW p \in Pairs
    PROVE  /\ p.lo \in Word /\ p.hi \in Word
           /\ p = [lo |-> p.lo, hi |-> p.hi]
           /\ Value(p) \in Int /\ 0 <= Value(p) /\ Value(p) < PairSize
           /\ Value(p) = p.lo + WordSize * p.hi
<1>1. p.lo \in Word /\ p.hi \in Word /\ p = [lo |-> p.lo, hi |-> p.hi]
  BY DEF Pairs
<1>2. QED
  BY <1>1, PairIs DEF Value

(* A pair is the number it stands for.                                     *)
LEMMA PairOfNumber ==
    ASSUME NEW n \in Int
    PROVE  Pair(n) \in Pairs /\ Value(Pair(n)) = n % PairSize
<1> DEFINE r == n % WordSize
           q == n \div WordSize
           t == q % WordSize
           s == q \div WordSize
<1>1. r \in Word /\ q \in Int /\ t \in Word /\ s \in Int /\ n = q * WordSize + r /\ q = s * WordSize + t
  <2>1. q \in Int /\ r \in Int /\ 0 <= r /\ r < WordSize /\ n = q * WordSize + r
    BY WordFacts, DivisionFacts
  <2>2. s \in Int /\ t \in Int /\ 0 <= t /\ t < WordSize /\ q = s * WordSize + t
    BY <2>1, WordFacts, DivisionFacts
  <2>3. QED
    BY <2>1, <2>2, WordFacts
<1>2. Pair(n) = [lo |-> r, hi |-> t]
  BY DEF Pair
<1> HIDE DEF r, q, t, s
<1>3. Pair(n) \in Pairs /\ Value(Pair(n)) = r + WordSize * t
      /\ r + WordSize * t \in Int /\ 0 <= r + WordSize * t /\ r + WordSize * t < PairSize
  BY <1>1, <1>2, PairIs
<1>4. n = (r + WordSize * t) + s * PairSize
  <2>1. PICK w \in Int : w = WordSize
    BY WordFacts
  <2>2. r \in Int /\ t \in Int
    BY <1>1, WordFacts
  <2>3. n = (s * w + t) * w + r /\ PairSize = w * w
    BY <1>1, <2>1 DEF PairSize
  <2>4. (s * w + t) * w + r = (r + w * t) + s * (w * w)
    BY <1>1, <2>1, <2>2
  <2>5. QED
    BY <2>1, <2>3, <2>4
<1>5. n % PairSize = r + WordSize * t
  <2>1. PICK m \in Int : m = r + WordSize * t
    BY <1>3
  <2>2. n = m + s * PairSize /\ 0 <= m /\ m < PairSize /\ s \in Int
    BY <1>1, <1>3, <1>4, <2>1
  <2>3. PairSize \in Int /\ PairSize > 0
    BY WordFacts
  <2>4. n % PairSize = m
    BY ONLY n \in Int, m \in Int, <2>2, <2>3, ResidueIs
  <2>5. QED
    BY <2>1, <2>4
<1>6. QED
  BY <1>3, <1>5

LEMMA SameValueSamePair ==
    ASSUME NEW p \in Pairs, NEW q \in Pairs, Value(p) = Value(q)
    PROVE  p = q
<1>1. /\ p.lo \in Int /\ 0 <= p.lo /\ p.lo < WordSize /\ p.hi \in Int
      /\ q.lo \in Int /\ 0 <= q.lo /\ q.lo < WordSize /\ q.hi \in Int
      /\ Value(p) = p.hi * WordSize + p.lo /\ Value(q) = q.hi * WordSize + q.lo
      /\ p = [lo |-> p.lo, hi |-> p.hi] /\ q = [lo |-> q.lo, hi |-> q.hi]
  BY PairValue, WordFacts
<1>2. /\ (p.hi * WordSize + p.lo) \div WordSize = p.hi /\ (p.hi * WordSize + p.lo) % WordSize = p.lo
      /\ (q.hi * WordSize + q.lo) \div WordSize = q.hi /\ (q.hi * WordSize + q.lo) % WordSize = q.lo
  BY <1>1, WordFacts, DivisionIsUnique
<1>3. QED
  BY <1>1, <1>2

(* A pair computed word by word from two sums, the carry of the low one    *)
(* going into the high one, is the sum modulo the pair's size.             *)
LEMMA CarryChain ==
    ASSUME NEW x \in Int, NEW y \in Int
    PROVE  /\ [lo |-> x % WordSize, hi |-> ((x \div WordSize) + y) % WordSize] \in Pairs
           /\ Value([lo |-> x % WordSize, hi |-> ((x \div WordSize) + y) % WordSize])
                = (x + WordSize * y) % PairSize
<1> DEFINE r == x % WordSize
           q == x \div WordSize
<1>1. r \in Word /\ q \in Int /\ x = q * WordSize + r
  BY WordFacts, DivisionFacts
<1> HIDE DEF r, q
<1>2. PICK h \in Word, s \in Int : h = (q + y) % WordSize /\ q + y = s * WordSize + h
  <2>1. q + y \in Int
    BY <1>1
  <2>2. /\ (q + y) % WordSize \in Word /\ (q + y) \div WordSize \in Int
        /\ q + y = ((q + y) \div WordSize) * WordSize + ((q + y) % WordSize)
    BY <2>1, WordFacts, DivisionFacts
  <2>3. QED
    BY <2>2
<1>3. /\ [lo |-> r, hi |-> h] \in Pairs /\ Value([lo |-> r, hi |-> h]) = r + WordSize * h
      /\ r + WordSize * h \in Int /\ 0 <= r + WordSize * h /\ r + WordSize * h < PairSize
  BY <1>1, PairIs
<1>4. x + WordSize * y \in Int /\ x + WordSize * y = (r + WordSize * h) + s * PairSize
  <2>1. PICK w \in Int : w = WordSize
    BY WordFacts
  <2>2. r \in Int /\ h \in Int
    BY <1>1, WordFacts
  <2>3. y = s * w + h - q /\ x = q * w + r /\ PairSize = w * w
    <3>1. s * w \in Int /\ q \in Int
      BY <1>1, <2>1
    <3>2. q + y = s * w + h /\ x = q * w + r
      BY <1>1, <1>2, <2>1
    <3>3. y = s * w + h - q
      BY <2>2, <3>1, <3>2
    <3>4. PairSize = w * w
      BY <2>1 DEF PairSize
    <3>5. QED
      BY <3>2, <3>3, <3>4
  <2>4. (q * w + r) + w * (s * w + h - q) = (r + w * h) + s * (w * w)
    BY <1>1, <2>1, <2>2
  <2>5. x + w * y \in Int
    BY <2>1
  <2>6. QED
    BY <2>1, <2>3, <2>4, <2>5
<1>5. (x + WordSize * y) % PairSize = r + WordSize * h
  <2>1. PICK n \in Int, v \in Int : n = x + WordSize * y /\ v = r + WordSize * h
    BY <1>3, <1>4
  <2>2. 0 <= v /\ v < PairSize /\ n = v + s * PairSize
    BY <1>3, <1>4, <2>1
  <2>3. n % PairSize = v
    BY <2>2, WordFacts, ResidueIs
  <2>4. QED
    BY <2>1, <2>3
<1>6. QED
  BY <1>2, <1>3, <1>5 DEF r, q

LEMMA AddPairsAdds ==
    ASSUME NEW p \in Pairs, NEW q \in Pairs
    PROVE  AddPairs(p, q) \in Pairs /\ Value(AddPairs(p, q)) = (Value(p) + Value(q)) % PairSize
<1>1. /\ p.lo \in Int /\ p.hi \in Int /\ q.lo \in Int /\ q.hi \in Int
      /\ Value(p) = p.lo + WordSize * p.hi /\ Value(q) = q.lo + WordSize * q.hi
  BY PairValue, WordFacts
<1>2. PICK x \in Int, y \in Int : x = p.lo + q.lo /\ y = p.hi + q.hi
  BY <1>1
<1>3. AddPairs(p, q) = [lo |-> x % WordSize, hi |-> ((x \div WordSize) + y) % WordSize]
  <2>1. x \div WordSize \in Int
    BY WordFacts, DivisionFacts
  <2>2. p.hi + q.hi + (x \div WordSize) = (x \div WordSize) + y
    BY <1>1, <1>2, <2>1
  <2>3. QED
    BY <1>2, <2>2 DEF AddPairs
<1>4. Value(p) + Value(q) = x + WordSize * y
  <2>1. PICK w \in Int : w = WordSize
    BY WordFacts
  <2>2. (p.lo + w * p.hi) + (q.lo + w * q.hi) = (p.lo + q.lo) + w * (p.hi + q.hi)
    BY <1>1, <2>1
  <2>3. QED
    BY <1>1, <1>2, <2>1, <2>2
<1>5. QED
  BY <1>3, <1>4, CarryChain

LEMMA SubPairsSubtracts ==
    ASSUME NEW p \in Pairs, NEW q \in Pairs
    PROVE  SubPairs(p, q) \in Pairs /\ Value(SubPairs(p, q)) = (Value(p) - Value(q)) % PairSize
<1>1. /\ p.lo \in Int /\ p.hi \in Int /\ q.lo \in Int /\ q.hi \in Int
      /\ 0 <= p.lo /\ p.lo < WordSize /\ 0 <= q.lo /\ q.lo < WordSize
      /\ Value(p) = p.lo + WordSize * p.hi /\ Value(q) = q.lo + WordSize * q.hi
  BY PairValue, WordFacts
<1>2. PICK x \in Int, y \in Int : x = p.lo - q.lo /\ y = p.hi - q.hi
  BY <1>1
<1>3. x \div WordSize = - (IF p.lo < q.lo THEN 1 ELSE 0)
  <2>1. PICK w \in Int : w = WordSize /\ w > 0
    BY WordFacts
  <2>2. CASE p.lo < q.lo
    <3>1. x = (-1) * w + (x + w) /\ 0 <= x + w /\ x + w < w /\ x + w \in Int /\ -1 \in Int
      BY <1>1, <1>2, <2>1, <2>2
    <3>2. x \div w = -1
      BY <3>1, <2>1, DivisionIsUnique
    <3>3. QED
      BY <2>1, <2>2, <3>2
  <2>3. CASE ~(p.lo < q.lo)
    <3>1. x = 0 * w + x /\ 0 <= x /\ x < w
      BY <1>1, <1>2, <2>1, <2>3
    <3>2. x \div w = 0
      BY <3>1, <2>1, DivisionIsUnique
    <3>3. QED
      BY <2>1, <2>3, <3>2
  <2>4. QED
    BY <2>2, <2>3
<1>4. SubPairs(p, q) = [lo |-> x % WordSize, hi |-> ((x \div WordSize) + y) % WordSize]
  <2>1. x \div WordSize \in Int
    BY WordFacts, DivisionFacts
  <2>2. p.hi - q.hi - (IF p.lo < q.lo THEN 1 ELSE 0) = (x \div WordSize) + y
    BY <1>1, <1>2, <1>3, <2>1
  <2>3. QED
    BY <1>2, <2>2 DEF SubPairs
<1>5. Value(p) - Value(q) = x + WordSize * y
  <2>1. PICK w \in Int : w = WordSize
    BY WordFacts
  <2>2. (p.lo + w * p.hi) - (q.lo + w * q.hi) = (p.lo - q.lo) + w * (p.hi - q.hi)
    BY <1>1, <2>1
  <2>3. QED
    BY <1>1, <1>2, <2>1, <2>2
<1>6. QED
  BY <1>4, <1>5, CarryChain

LEMMA MulPairsMultiplies ==
    ASSUME NEW p \in Pairs, NEW q \in Pairs
    PROVE  MulPairs(p, q) \in Pairs /\ Value(MulPairs(p, q)) = (Value(p) * Value(q)) % PairSize
<1>1. /\ p.lo \in Int /\ p.hi \in Int /\ q.lo \in Int /\ q.hi \in Int
      /\ Value(p) = p.lo + WordSize * p.hi /\ Value(q) = q.lo + WordSize * q.hi
  BY PairValue, WordFacts
<1>2. PICK x \in Int, u \in Int, v \in Int, z \in Int :
         x = p.lo * q.lo /\ u = p.lo * q.hi /\ v = p.hi * q.lo /\ z = p.hi * q.hi
  BY <1>1
<1>3. MulPairs(p, q) = [lo |-> x % WordSize, hi |-> ((x \div WordSize) + (u + v)) % WordSize]
  <2>1. x \div WordSize \in Int
    BY WordFacts, DivisionFacts
  <2>2. (x \div WordSize) + u + v = (x \div WordSize) + (u + v)
    BY <2>1
  <2>3. QED
    BY <1>2, <2>2 DEF MulPairs
<1>4. Value(p) * Value(q) = (x + WordSize * (u + v)) + z * PairSize
  <2>1. PICK w \in Int : w = WordSize /\ PairSize = w * w
    BY WordFacts DEF PairSize
  <2>2. PICK a \in Int, b \in Int, c \in Int, d \in Int :
           a = p.lo /\ b = p.hi /\ c = q.lo /\ d = q.hi
    BY <1>1
  <2>3. (a + w * b) * (c + w * d) = (a * c + w * (a * d + b * c)) + (b * d) * (w * w)
    BY SMT
  <2>4. x = a * c /\ u = a * d /\ v = b * c /\ z = b * d
    BY <1>2, <2>2
  <2>5. Value(p) = a + w * b /\ Value(q) = c + w * d
    BY <1>1, <2>1, <2>2
  <2>6. QED
    BY <2>1, <2>3, <2>4, <2>5
<1>5. PICK n \in Int : n = x + WordSize * (u + v)
  BY WordFacts
<1>6. (n + z * PairSize) % PairSize = n % PairSize
  BY WordFacts, MultiplesVanish
<1>7. u + v \in Int
  OBVIOUS
<1>8. QED
  BY <1>3, <1>4, <1>5, <1>6, <1>7, CarryChain

LEMMA NegatePairNegates ==
    ASSUME NEW p \in Pairs
    PROVE  NegatePair(p) \in Pairs /\ Value(NegatePair(p)) = (- Value(p)) % PairSize
<1>1. /\ p.lo \in Int /\ 0 <= p.lo /\ p.lo < WordSize /\ p.hi \in Int /\ 0 <= p.hi /\ p.hi < WordSize
      /\ Value(p) = p.lo + WordSize * p.hi /\ Value(p) \in Int
  BY PairValue, WordFacts
<1>2. PICK c \in Pairs : c = [lo |-> WordSize - 1 - p.lo, hi |-> WordSize - 1 - p.hi]
                         /\ Value(c) = PairSize - 1 - Value(p)
  <2>1. WordSize - 1 - p.lo \in Word /\ WordSize - 1 - p.hi \in Word
    BY <1>1, WordFacts
  <2>2. PICK w \in Int : w = WordSize /\ PairSize = w * w
    BY WordFacts DEF PairSize
  <2>3. (w - 1 - p.lo) + w * (w - 1 - p.hi) = w * w - 1 - (p.lo + w * p.hi)
    <3>1. PICK l \in Int, h \in Int : l = p.lo /\ h = p.hi
      BY <1>1
    <3>2. (w - 1 - l) + w * (w - 1 - h) = w * w - 1 - (l + w * h)
      BY SMT
    <3>3. QED
      BY <3>1, <3>2
  <2>4. QED
    BY <1>1, <2>1, <2>2, <2>3, PairIs
<1>3. Pair(1) \in Pairs /\ Value(Pair(1)) = 1
  BY PairOfNumber, SmallIsItself, WordSizeFacts
<1>4. NegatePair(p) = AddPairs(c, Pair(1))
  BY <1>2 DEF NegatePair
<1>5. Value(c) + Value(Pair(1)) = - Value(p) + 1 * PairSize
  BY <1>1, <1>2, <1>3, WordFacts
<1>6. (- Value(p) + 1 * PairSize) % PairSize = (- Value(p)) % PairSize
  <2>1. PICK v \in Int : v = - Value(p)
    BY <1>1
  <2>2. PICK k \in Int : k = 1
    OBVIOUS
  <2>3. (v + k * PairSize) % PairSize = v % PairSize
    BY WordFacts, MultiplesVanish
  <2>4. QED
    BY <2>1, <2>2, <2>3
<1>7. QED
  BY <1>3, <1>4, <1>5, <1>6, AddPairsAdds

-----------------------------------------------------------------------------
(* Signs.                                                                  *)
LEMMA SignedFacts ==
    ASSUME NEW n \in Int, 0 <= n, n < PairSize
    PROVE  /\ Signed(n) \in Int
           /\ 2 * Signed(n) < PairSize /\ -PairSize <= 2 * Signed(n)
           /\ Signed(n) % PairSize = n
           /\ \E k \in Int : Signed(n) = n + k * PairSize
           /\ Signed(n) = 0 <=> n = 0
           /\ Signed(n) < 0 <=> 2 * n >= PairSize
<1>1. PICK s \in Int : s = PairSize /\ s > 0
  BY WordFacts
<1>2. CASE 2 * n < PairSize
  <2>1. Signed(n) = n /\ n = n + 0 * PairSize
    BY <1>1, <1>2 DEF Signed
  <2>2. n % PairSize = n
    BY <1>1, SmallIsItself
  <2>3. QED
    BY <1>1, <1>2, <2>1, <2>2
<1>3. CASE ~(2 * n < PairSize)
  <2>1. Signed(n) = n + (-1) * PairSize /\ n = (n + (-1) * PairSize) + 1 * PairSize
        /\ n + (-1) * PairSize \in Int
    BY <1>1, <1>3 DEF Signed
  <2>2. (n + (-1) * PairSize) % PairSize = n
    BY <1>1, <2>1, ResidueIs
  <2>3. QED
    BY <1>1, <1>3, <2>1, <2>2
<1>4. QED
  BY <1>2, <1>3

(* A number within the range of a pair survives being stored in one.       *)
LEMMA SignedOfResidue ==
    ASSUME NEW n \in Int, 2 * n < PairSize, -PairSize <= 2 * n
    PROVE  Signed(n % PairSize) = n
<1>1. PICK s \in Int : s = PairSize /\ s > 0
  BY WordFacts
<1>2. CASE n >= 0
  <2>1. n % s = n
    BY <1>1, <1>2, SmallIsItself
  <2>2. QED
    BY <1>1, <1>2, <2>1 DEF Signed
<1>3. CASE n < 0
  <2>1. n + s \in Int /\ 0 <= n + s /\ n + s < s /\ n = (n + s) + (-1) * s
    BY <1>1, <1>3
  <2>2. n % s = n + s
    BY <1>1, <2>1, ResidueIs
  <2>3. QED
    BY <1>1, <1>3, <2>2 DEF Signed
<1>4. QED
  BY <1>2, <1>3

(* The sign of a pair is that of its high word; the low word is unsigned.  *)
LEMMA SignedPair ==
    ASSUME NEW p \in Pairs
    PROVE  /\ SignedWord(p.hi) \in Int
           /\ Signed(Value(p)) = p.lo + WordSize * SignedWord(p.hi)
           /\ IsNegative(p) <=> Signed(Value(p)) < 0
<1>1. /\ p.lo \in Int /\ 0 <= p.lo /\ p.lo < WordSize /\ p.hi \in Int /\ 0 <= p.hi /\ p.hi < WordSize
      /\ Value(p) = p.lo + WordSize * p.hi /\ Value(p) \in Int /\ 0 <= Value(p) /\ Value(p) < PairSize
  BY PairValue, WordFacts
<1>2. PICK w \in Int, h \in Int : w = WordSize /\ h = HalfWord /\ w > 0 /\ w = 2 * h /\ h > 0
                                  /\ PairSize = 2 * (w * h) /\ PairSize = w * w /\ w * h \in Int
  BY WordSizeFacts
<1>3. CASE 2 * p.hi < w
  <2>1. p.hi < h
    BY <1>1, <1>2, <1>3
  <2>2. 0 <= p.lo + w * p.hi /\ p.lo + w * p.hi < w * h
    BY <1>1, <1>2, <2>1, Leading
  <2>3. SignedWord(p.hi) = p.hi
    BY <1>2, <1>3 DEF SignedWord
  <2>4. 2 * Value(p) < PairSize
    BY <1>1, <1>2, <2>2
  <2>5. Signed(Value(p)) = Value(p)
    BY <2>4 DEF Signed
  <2>6. QED
    BY <1>1, <2>3, <2>5, <2>4 DEF IsNegative
<1>4. CASE ~(2 * p.hi < w)
  <2>1. p.hi >= h
    BY <1>1, <1>2, <1>4
  <2>2. w * p.hi >= w * h
    BY <1>1, <1>2, <2>1
  <2>3. SignedWord(p.hi) = p.hi - w /\ p.hi - w < 0
    BY <1>1, <1>2, <1>4 DEF SignedWord
  <2>4. ~(2 * Value(p) < PairSize)
    <3>1. PICK a \in Int, b \in Int : a = w * p.hi /\ b = w * h
      BY <1>1, <1>2
    <3>2. QED
      BY <1>1, <1>2, <2>2, <3>1
  <2>5. Signed(Value(p)) = Value(p) - PairSize
    BY <2>4 DEF Signed
  <2>6. w * (p.hi - w) = w * p.hi - w * w
    BY <1>1, <1>2
  <2>7. Value(p) - PairSize = p.lo + WordSize * (p.hi - w)
    <3>1. PICK a \in Int, b \in Int : a = w * p.hi /\ b = w * w
      BY <1>1, <1>2
    <3>2. QED
      BY <1>1, <1>2, <2>6, <3>1
  <2>8. Value(p) - PairSize < 0
    BY <1>1, WordFacts
  <2>9. QED
    BY <1>1, <1>2, <2>3, <2>5, <2>7, <2>8 DEF IsNegative
<1>5. QED
  BY <1>3, <1>4

-----------------------------------------------------------------------------
(* Comparisons and flags.                                                  *)
LEMMA BitPair == \A b \in {0, 1} : Pair(b) \in Pairs /\ Value(Pair(b)) = b
  BY PairOfNumber, SmallIsItself, WordSizeFacts

LEMMA ZeroIs ==
    ASSUME NEW p \in Pairs
    PROVE  /\ IsZero(p) <=> Value(p) = 0
           /\ IsZero(p) <=> Signed(Value(p)) = 0
<1>1. /\ p.lo \in Int /\ 0 <= p.lo /\ p.hi \in Int /\ 0 <= p.hi
      /\ Value(p) = p.lo + WordSize * p.hi /\ Value(p) \in Int /\ 0 <= Value(p) /\ Value(p) < PairSize
  BY PairValue, WordFacts
<1>2. Value(p) = 0 <=> IsZero(p)
  <2>1. PICK w \in Int, l \in Int, h \in Int : w = WordSize /\ l = p.lo /\ h = p.hi /\ w > 0
    BY <1>1, WordFacts
  <2>2. l >= 0 /\ h >= 0 => (l + w * h = 0 <=> l = 0 /\ h = 0)
    <3>1. ASSUME l >= 0, h > 0 PROVE l + w * h > 0
      <4>1. w * h > 0
        BY <2>1, <3>1, Z3
      <4>2. w * h \in Int
        OBVIOUS
      <4>3. QED
        BY <3>1, <4>1, <4>2
    <3>2. w * 0 = 0
      OBVIOUS
    <3>3. QED
      BY <3>1, <3>2
  <2>3. QED
    BY <1>1, <2>1, <2>2 DEF IsZero
<1>3. QED
  BY <1>1, <1>2, SignedFacts DEF IsZero

LEMMA Lexicographic ==
    ASSUME NEW w \in Int, w > 0, NEW a \in Int, NEW b \in Int, a < b,
           NEW l \in Int, 0 <= l, l < w, NEW m \in Int, 0 <= m, m < w
    PROVE  l + w * a < m + w * b
<1>1. w * (a + 1) <= w * b
  BY Z3
<1>2. w * (a + 1) = w * a + w
  OBVIOUS
<1>3. w * a \in Int /\ w * b \in Int
  OBVIOUS
<1>4. QED
  BY <1>1, <1>2, <1>3

LEMMA PairsInOrder ==
    ASSUME NEW p \in Pairs, NEW q \in Pairs
    PROVE  /\ Signed(Value(p)) \in Int /\ Signed(Value(q)) \in Int
           /\ SignedWord(p.hi) \in Int /\ SignedWord(q.hi) \in Int
           /\ p.hi \in Int /\ q.hi \in Int /\ p.lo \in Int /\ q.lo \in Int
           /\ p.hi = q.hi <=> SignedWord(p.hi) = SignedWord(q.hi)
           /\ SignedWord(p.hi) < SignedWord(q.hi) => Signed(Value(p)) < Signed(Value(q))
           /\ SignedWord(q.hi) < SignedWord(p.hi) => Signed(Value(q)) < Signed(Value(p))
           /\ p.hi = q.hi => /\ p.lo < q.lo <=> Signed(Value(p)) < Signed(Value(q))
                             /\ q.lo < p.lo <=> Signed(Value(q)) < Signed(Value(p))
<1>1. /\ p.lo \in Int /\ 0 <= p.lo /\ p.lo < WordSize /\ p.hi \in Int /\ 0 <= p.hi /\ p.hi < WordSize
      /\ q.lo \in Int /\ 0 <= q.lo /\ q.lo < WordSize /\ q.hi \in Int /\ 0 <= q.hi /\ q.hi < WordSize
      /\ WordSize \in Int /\ WordSize > 0
  BY PairValue, WordFacts
<1>2. PICK w \in Int, a \in Int, b \in Int :
         w = WordSize /\ w > 0 /\ a = SignedWord(p.hi) /\ b = SignedWord(q.hi)
  BY <1>1, SignedPair
<1>3. PICK x \in Int, y \in Int : /\ x = Signed(Value(p)) /\ x = p.lo + w * a
                                  /\ y = Signed(Value(q)) /\ y = q.lo + w * b
  <2>1. p.lo + w * a \in Int /\ q.lo + w * b \in Int
    BY <1>1, <1>2
  <2>2. QED
    BY <1>2, <2>1, SignedPair
<1>4. p.hi = q.hi <=> a = b
  BY <1>1, <1>2 DEF SignedWord
<1>5. (a < b => x < y) /\ (b < a => y < x)
  BY <1>1, <1>2, <1>3, Lexicographic
<1>6. a = b => (p.lo < q.lo <=> x < y) /\ (q.lo < p.lo <=> y < x)
  <2>1. PICK z \in Int : z = w * a
    OBVIOUS
  <2>2. QED
    BY <1>1, <1>3, <2>1
<1>7. QED
  BY <1>1, <1>2, <1>3, <1>4, <1>5, <1>6

LEMMA ComparesAsWhole ==
    ASSUME NEW o \in Comparisons, NEW p \in Pairs, NEW q \in Pairs
    PROVE  Truth(ComparePairs(o, p, q)) = Whole(o, Signed(Value(p)), Signed(Value(q)))
<1>1. PICK x \in Int, y \in Int, a \in Int, b \in Int :
         x = Signed(Value(p)) /\ y = Signed(Value(q)) /\ a = SignedWord(p.hi) /\ b = SignedWord(q.hi)
  BY PairsInOrder
<1>2. /\ p.hi \in Int /\ q.hi \in Int /\ p.lo \in Int /\ q.lo \in Int
      /\ p.hi = q.hi <=> a = b
      /\ a < b => x < y
      /\ b < a => y < x
      /\ p.hi = q.hi => (p.lo < q.lo <=> x < y) /\ (q.lo < p.lo <=> y < x)
  BY <1>1, PairsInOrder
<1>3. o \in {"OP_GT", "OP_GE", "OP_LT", "OP_LE", "OP_EQ", "OP_NEQ"}
  BY DEF Comparisons, HighCondition
<1>4. CASE o = "OP_GT"
  <2>1. ComparePairs(o, p, q) <=> x > y
    BY <1>1, <1>2, <1>4 DEF ComparePairs, Holds, HighCondition, LowCondition
  <2>2. Whole(o, x, y) = Truth(x > y)
    BY <1>4 DEF Whole
  <2>3. QED
    BY <1>1, <2>1, <2>2 DEF Truth
<1>5. CASE o = "OP_GE"
  <2>1. ComparePairs(o, p, q) <=> x >= y
    BY <1>1, <1>2, <1>5 DEF ComparePairs, Holds, HighCondition, LowCondition
  <2>2. Whole(o, x, y) = Truth(x >= y)
    BY <1>5 DEF Whole
  <2>3. QED
    BY <1>1, <2>1, <2>2 DEF Truth
<1>6. CASE o = "OP_LT"
  <2>1. ComparePairs(o, p, q) <=> x < y
    BY <1>1, <1>2, <1>6 DEF ComparePairs, Holds, HighCondition, LowCondition
  <2>2. Whole(o, x, y) = Truth(x < y)
    BY <1>6 DEF Whole
  <2>3. QED
    BY <1>1, <2>1, <2>2 DEF Truth
<1>7. CASE o = "OP_LE"
  <2>1. ComparePairs(o, p, q) <=> x =< y
    BY <1>1, <1>2, <1>7 DEF ComparePairs, Holds, HighCondition, LowCondition
  <2>2. Whole(o, x, y) = Truth(x =< y)
    BY <1>7 DEF Whole
  <2>3. QED
    BY <1>1, <2>1, <2>2 DEF Truth
<1>8. CASE o = "OP_EQ"
  <2>1. ComparePairs(o, p, q) <=> x = y
    BY <1>1, <1>2, <1>8 DEF ComparePairs, Holds, HighCondition, LowCondition
  <2>2. Whole(o, x, y) = Truth(x = y)
    BY <1>8 DEF Whole
  <2>3. QED
    BY <1>1, <2>1, <2>2 DEF Truth
<1>9. CASE o = "OP_NEQ"
  <2>1. ComparePairs(o, p, q) <=> x # y
    BY <1>1, <1>2, <1>9 DEF ComparePairs, Holds, HighCondition, LowCondition
  <2>2. Whole(o, x, y) = Truth(x # y)
    BY <1>9 DEF Whole
  <2>3. QED
    BY <1>1, <2>1, <2>2 DEF Truth
<1>10. QED
  BY <1>3, <1>4, <1>5, <1>6, <1>7, <1>8, <1>9

(* The residue of a sum, a difference, a product does not depend on        *)
(* whether the operands are read as signed or as unsigned.                 *)
LEMMA SignsDoNotMatter ==
    ASSUME NEW l \in Int, 0 <= l, l < PairSize, NEW r \in Int, 0 <= r, r < PairSize
    PROVE  /\ (l + r) % PairSize = (Signed(l) + Signed(r)) % PairSize
           /\ (l - r) % PairSize = (Signed(l) - Signed(r)) % PairSize
           /\ (l * r) % PairSize = (Signed(l) * Signed(r)) % PairSize
           /\ (-l) % PairSize = (-Signed(l)) % PairSize
<1>1. PICK s \in Int : s = PairSize /\ s > 0
  BY WordFacts
<1>2. PICK a \in Int, j \in Int : a = Signed(l) /\ a = l + j * s
  BY <1>1, SignedFacts
<1>3. PICK b \in Int, k \in Int : b = Signed(r) /\ b = r + k * s
  BY <1>1, SignedFacts
<1>4. (l + r) % s = (a + b) % s
  <2>1. PICK x \in Int, y \in Int, i \in Int : x = l + r /\ y = a + b /\ i = j + k
    OBVIOUS
  <2>2. y = x + i * s
    BY <1>2, <1>3, <2>1
  <2>3. (x + i * s) % s = x % s
    BY <1>1, MultiplesVanish
  <2>4. QED
    BY <2>1, <2>2, <2>3
<1>5. (l - r) % s = (a - b) % s
  <2>1. PICK x \in Int, y \in Int, i \in Int : x = l - r /\ y = a - b /\ i = j - k
    OBVIOUS
  <2>2. y = x + i * s
    BY <1>2, <1>3, <2>1
  <2>3. (x + i * s) % s = x % s
    BY <1>1, MultiplesVanish
  <2>4. QED
    BY <2>1, <2>2, <2>3
<1>6. (l * r) % s = (a * b) % s
  <2>1. PICK x \in Int, y \in Int, i \in Int : x = l * r /\ y = a * b /\ i = l * k + j * r + (j * k) * s
    OBVIOUS
  <2>2. (l + j * s) * (r + k * s) = l * r + (l * k + j * r + (j * k) * s) * s
    BY SMT
  <2>3. y = x + i * s
    BY <1>2, <1>3, <2>1, <2>2
  <2>4. (x + i * s) % s = x % s
    BY <1>1, MultiplesVanish
  <2>5. QED
    BY <2>1, <2>3, <2>4
<1>7. (-l) % s = (-a) % s
  <2>1. PICK x \in Int, y \in Int, i \in Int : x = -l /\ y = -a /\ i = -j
    OBVIOUS
  <2>2. y = x + i * s
    BY <1>2, <2>1
  <2>3. (x + i * s) % s = x % s
    BY <1>1, MultiplesVanish
  <2>4. QED
    BY <2>1, <2>2, <2>3
<1>8. QED
  BY <1>1, <1>2, <1>3, <1>4, <1>5, <1>6, <1>7

(* Every instruction sequence without a call computes on the pairs what    *)
(* one register of their joint width would hold.                           *)
LEMMA StraightIsWhole ==
    ASSUME NEW o \in Straight, NEW p \in Pairs, NEW q \in Pairs
    PROVE  /\ Result(o, p, q) \in Pairs
           /\ Value(Result(o, p, q)) = Whole(o, Signed(Value(p)), Signed(Value(q)))
<1> DEFINE a == Signed(Value(p))
           b == Signed(Value(q))
<1>1. /\ Value(p) \in Int /\ 0 <= Value(p) /\ Value(p) < PairSize
      /\ Value(q) \in Int /\ 0 <= Value(q) /\ Value(q) < PairSize
  BY PairValue
<1>2. /\ (Value(p) + Value(q)) % PairSize = (a + b) % PairSize
      /\ (Value(p) - Value(q)) % PairSize = (a - b) % PairSize
      /\ (Value(p) * Value(q)) % PairSize = (a * b) % PairSize
      /\ (-Value(p)) % PairSize = (-a) % PairSize
  BY <1>1, SignsDoNotMatter
<1>3. (IsZero(p) <=> a = 0) /\ (IsZero(q) <=> b = 0)
  BY ZeroIs
<1>4. (p.hi # q.hi \/ p.lo # q.lo) <=> a # b
  <2>1. a = b => Value(p) = Value(q)
    BY <1>1, SignedFacts
  <2>2. Value(p) = Value(q) <=> p = q
    BY SameValueSamePair
  <2>3. p = q <=> p.hi = q.hi /\ p.lo = q.lo
    BY PairValue
  <2>4. QED
    BY <2>1, <2>2, <2>3
<1> HIDE DEF a, b
<1>5. CASE o \in Comparisons
  <2>1. Result(o, p, q) = Pair(Truth(ComparePairs(o, p, q)))
    BY <1>5 DEF Result, Flag, Truth, Comparisons, HighCondition
  <2>2. Truth(ComparePairs(o, p, q)) \in {0, 1}
    BY DEF Truth
  <2>3. Truth(ComparePairs(o, p, q)) = Whole(o, a, b)
    BY <1>5, ComparesAsWhole DEF a, b
  <2>4. QED
    BY <2>1, <2>2, <2>3, BitPair DEF a, b
<1>6. CASE o = "OP_ADD"
  <2>1. Result(o, p, q) = AddPairs(p, q) /\ Whole(o, a, b) = (a + b) % PairSize
    BY <1>6 DEF Result, Whole, Flag, Truth, Comparisons, HighCondition
  <2>2. QED
    BY <1>2, <2>1, AddPairsAdds DEF a, b
<1>7. CASE o = "OP_SUB"
  <2>1. Result(o, p, q) = SubPairs(p, q) /\ Whole(o, a, b) = (a - b) % PairSize
    BY <1>7 DEF Result, Whole, Flag, Truth, Comparisons, HighCondition
  <2>2. QED
    BY <1>2, <2>1, SubPairsSubtracts DEF a, b
<1>8. CASE o = "OP_MUL"
  <2>1. Result(o, p, q) = MulPairs(p, q) /\ Whole(o, a, b) = (a * b) % PairSize
    BY <1>8 DEF Result, Whole, Flag, Truth, Comparisons, HighCondition
  <2>2. QED
    BY <1>2, <2>1, MulPairsMultiplies DEF a, b
<1>9. CASE o = "OP_MINUS"
  <2>1. Result(o, p, q) = NegatePair(p) /\ Whole(o, a, b) = (-a) % PairSize
    BY <1>9 DEF Result, Whole, Flag, Truth, Comparisons, HighCondition
  <2>2. QED
    BY <1>2, <2>1, NegatePairNegates DEF a, b
<1>10. CASE o \in {"OP_NOT", "OP_JMP_FALSE"}
  <2>1. Result(o, p, q) = Pair(Truth(a = 0))
    BY <1>10, <1>3 DEF Result, Flag, Truth, Comparisons, HighCondition
  <2>2. Whole(o, a, b) = Truth(a = 0)
    BY <1>10 DEF Whole, Truth
  <2>3. Truth(a = 0) \in {0, 1}
    BY DEF Truth
  <2>4. QED
    BY <2>1, <2>2, <2>3, BitPair DEF a, b
<1>11. CASE o = "OP_AND"
  <2>1. Result(o, p, q) = Pair(Truth(a # 0 /\ b # 0))
    BY <1>11, <1>3 DEF Result, Flag, Truth, Comparisons, HighCondition
  <2>2. Whole(o, a, b) = Truth(a # 0 /\ b # 0)
    BY <1>11 DEF Whole, Truth
  <2>3. Truth(a # 0 /\ b # 0) \in {0, 1}
    BY DEF Truth
  <2>4. QED
    BY <2>1, <2>2, <2>3, BitPair DEF a, b
<1>12. CASE o = "OP_OR"
  <2>1. Result(o, p, q) = Pair(Truth(a # 0 \/ b # 0))
    BY <1>12, <1>3 DEF Result, Flag, Truth, Comparisons, HighCondition
  <2>2. Whole(o, a, b) = Truth(a # 0 \/ b # 0)
    BY <1>12 DEF Whole, Truth
  <2>3. Truth(a # 0 \/ b # 0) \in {0, 1}
    BY DEF Truth
  <2>4. QED
    BY <2>1, <2>2, <2>3, BitPair DEF a, b
<1>13. CASE o = "OP_JMP_TRUE"
  <2>1. Result(o, p, q) = Pair(Truth(a # 0))
    BY <1>13, <1>3 DEF Result, Flag, Truth, Comparisons, HighCondition
  <2>2. Whole(o, a, b) = Truth(a # 0)
    BY <1>13 DEF Whole, Truth
  <2>3. Truth(a # 0) \in {0, 1}
    BY DEF Truth
  <2>4. QED
    BY <2>1, <2>2, <2>3, BitPair DEF a, b
<1>14. CASE o = "OP_JMP_NEQ"
  <2>1. Result(o, p, q) = Pair(Truth(a # b))
    BY <1>14, <1>4 DEF Result, Flag, Truth, Comparisons, HighCondition
  <2>2. Whole(o, a, b) = Truth(a # b)
    BY <1>14 DEF Whole, Truth
  <2>3. Truth(a # b) \in {0, 1}
    BY DEF Truth
  <2>4. QED
    BY <2>1, <2>2, <2>3, BitPair DEF a, b
<1>15. QED
  BY <1>5, <1>6, <1>7, <1>8, <1>9, <1>10, <1>11, <1>12, <1>13, <1>14 DEF Straight, CondJumps

-----------------------------------------------------------------------------
(* The inductive invariant: what the registers and the helper's frame hold *)
(* at each place of the program.                                           *)
Dividing == op \in {"OP_DIV", "OP_MOD"}

Typed ==
    /\ op \in Ops
    /\ left \in 0 .. PairSize - 1 /\ right \in 0 .. PairSize - 1
    /\ dividend \in Pairs /\ divisor \in Pairs /\ accumulator \in Pairs
    /\ negative \in [dividend : BOOLEAN, divisor : BOOLEAN]
    /\ pc \in {"instruction", "by_zero", "sl_divmod_abs", "sl_divmod_loop", "signs", "done"}

Operands == dividend = Pair(left) /\ divisor = Pair(right)

Called == Dividing /\ saved = <<Host>>

SignsKept ==
    /\ negative.dividend <=> Signed(left) < 0
    /\ negative.divisor <=> Signed(right) < 0

(* The magnitudes' quotient and remainder, and the program's.              *)
Quotient  == Magnitude(Signed(left)) \div Magnitude(Signed(right))
Remainder == Magnitude(Signed(left)) % Magnitude(Signed(right))
SignedQuotient ==
    IF (Signed(left) < 0) # (Signed(right) < 0) THEN -Quotient ELSE Quotient
SignedRemainder == IF Signed(left) < 0 THEN -Remainder ELSE Remainder

Divided ==
    /\ accumulator = Host
    /\ right = 0 => Value(dividend) = 0 /\ Value(divisor) = left
    /\ right # 0 => /\ Value(dividend) = SignedQuotient % PairSize
                    /\ Value(divisor) = SignedRemainder % PairSize

AtPlace ==
    /\ pc = "instruction" => Operands /\ accumulator = Host
    /\ pc = "by_zero" => Operands /\ Called /\ right = 0
    /\ pc = "sl_divmod_abs" => Operands /\ Called /\ right # 0
    /\ pc = "sl_divmod_loop" =>
          Called /\ SignsKept /\ right # 0 /\ count \in 1 .. 2 * WordBits /\ QuotientSoFar
    /\ pc = "signs" =>
          /\ Called /\ SignsKept /\ right # 0
          /\ Value(dividend) = Quotient /\ Value(accumulator) = Remainder
    /\ pc = "done" /\ op \in Straight => PairsActAsWhole
    /\ pc = "done" /\ Dividing => Divided

ArithmeticInv == Typed /\ AtPlace

-----------------------------------------------------------------------------
(* One round of the division, on integers: m and n are the magnitudes, D   *)
(* and A the dividend's and the accumulator's registers; d is what the     *)
(* quotient bits so far count up to, e what the bits of the dividend still *)
(* to come after this round do.                                            *)
BeforeRound(m, n, D, A, d, e) ==
    /\ m \in Int /\ n \in Int /\ D \in Int /\ A \in Int /\ d \in Int /\ e \in Int
    /\ d > 0 /\ e > 0 /\ 0 <= D /\ D < 2 * (d * e) /\ n <= d * e /\ 0 <= A /\ A < n
    /\ m \div (2 * e) = (D % d) * n + A
    /\ m % (2 * e) = D \div d

(* The dividend's register: the next bit t, those behind it, and the       *)
(* quotient so far.                                                        *)
Bits(D, d, e, t, y, z) ==
    /\ t \in {0, 1} /\ y \in Int /\ z \in Int /\ D = (t * e + y) * d + z
    /\ 0 <= y /\ y < e /\ 0 <= z /\ z < d

LEMMA NextBitBelowTwo ==
    ASSUME NEW t \in Int, NEW p \in Int, NEW r \in Int, 0 <= r, r < p,
           0 <= t * p + r, t * p + r < 2 * p
    PROVE  t \in {0, 1}
<1>1. ASSUME t >= 2 PROVE FALSE
  <2>1. t * p >= 2 * p
    BY <1>1, Z3
  <2>2. t * p \in Int
    OBVIOUS
  <2>3. QED
    BY <2>1, <2>2
<1>2. ASSUME t <= -1 PROVE FALSE
  <2>1. t * p <= (-1) * p
    BY <1>2, Z3
  <2>2. t * p \in Int
    OBVIOUS
  <2>3. QED
    BY <2>1, <2>2
<1>3. QED
  BY <1>1, <1>2

LEMMA BitsOfDividend ==
    ASSUME NEW D \in Int, 0 <= D, NEW d \in Int, d > 0, NEW e \in Int, e > 0, D < 2 * (d * e)
    PROVE  \E t, y, z : /\ Bits(D, d, e, t, y, z)
                        /\ D \div (d * e) = t /\ D \div d = t * e + y /\ D % d = z
<1>1. PICK x \in Int, z \in Int : D = x * d + z /\ 0 <= z /\ z < d /\ x = D \div d /\ z = D % d
  BY DivisionFacts
<1>2. PICK t \in Int, y \in Int : x = t * e + y /\ 0 <= y /\ y < e
  BY DivisionFacts
<1>3. 0 <= z + d * y /\ z + d * y < d * e
  BY <1>1, <1>2, Leading
<1>4. PICK p \in Int, r \in Int : p = d * e /\ r = z + d * y /\ p > 0
  <2>1. d * e > 0
    BY Z3
  <2>2. d * e \in Int /\ z + d * y \in Int
    OBVIOUS
  <2>3. QED
    BY <2>1, <2>2
<1>5. D = t * p + r
  <2>1. D = (t * e + y) * d + z
    BY <1>1, <1>2
  <2>2. (t * e + y) * d + z = t * (d * e) + (z + d * y)
    BY SMT
  <2>3. QED
    BY <1>4, <2>1, <2>2
<1>6. D \div p = t
  BY <1>3, <1>4, <1>5, DivisionIsUnique
<1>7. t \in {0, 1}
  BY <1>3, <1>4, <1>5, NextBitBelowTwo
<1>8. D = (t * e + y) * d + z /\ D \div (d * e) = t /\ D \div d = t * e + y /\ D % d = z
  BY <1>1, <1>2, <1>4, <1>6
<1>9. Bits(D, d, e, t, y, z)
  BY <1>1, <1>2, <1>7, <1>8 DEF Bits
<1>10. QED
  BY <1>8, <1>9

LEMMA NextBitOfMagnitude ==
    ASSUME NEW m \in Int, NEW q \in Int, NEW t \in Int, NEW y \in Int,
           NEW e \in Int, e > 0, 0 <= y, y < e,
           m \div (2 * e) = q, m % (2 * e) = t * e + y
    PROVE  m \div e = 2 * q + t /\ m % e = y
<1>1. PICK r \in Int, f \in Int : r = t * e + y /\ f = 2 * e /\ f > 0
  OBVIOUS
<1>2. m = (m \div f) * f + (m % f)
  BY <1>1, DivisionFacts
<1>3. m = q * (2 * e) + (t * e + y)
  BY <1>1, <1>2
<1>4. q * (2 * e) + (t * e + y) = (2 * q + t) * e + y
  BY SMT
<1>5. PICK k \in Int : k = 2 * q + t
  OBVIOUS
<1>6. (k * e + y) \div e = k /\ (k * e + y) % e = y
  BY DivisionIsUnique
<1>7. QED
  BY <1>1, <1>3, <1>4, <1>5, <1>6

LEMMA ShiftedIs ==
    \A t, y, z, f, d, e \in Int :
        2 * ((t * e + y) * d + z) + f = ((2 * z + f) + (2 * d) * y) + t * (2 * (d * e))
  BY SMT

ShiftedBits(D, d, e, f, y, z) ==
    /\ ((2 * D + f) % (2 * (d * e))) % (2 * d) = 2 * z + f
    /\ ((2 * D + f) % (2 * (d * e))) \div (2 * d) = y

LEMMA NextDividend ==
    ASSUME NEW D \in Int, NEW d \in Int, d > 0, NEW e \in Int, e > 0,
           NEW t, NEW y, NEW z, Bits(D, d, e, t, y, z), NEW f \in {0, 1}
    PROVE  ShiftedBits(D, d, e, f, y, z)
<1>1. t \in Int /\ y \in Int /\ z \in Int /\ f \in Int
  BY DEF Bits
<1>2. PICK w \in Int, l \in Int : w = 2 * d /\ l = 2 * z + f /\ w > 0 /\ 0 <= l /\ l < w
  BY <1>1 DEF Bits
<1>3. 0 <= l + w * y /\ l + w * y < w * e
  BY <1>1, <1>2, Leading DEF Bits
<1>4. PICK v \in Int, s \in Int : v = l + w * y /\ s = w * e /\ 0 <= v /\ v < s
  BY <1>1, <1>2, <1>3
<1>5. s = 2 * (d * e)
  BY <1>2, <1>4
<1>6. PICK x \in Int : x = 2 * D + f
  BY <1>1
<1>7. x = v + t * s
  <2>1. x = 2 * ((t * e + y) * d + z) + f
    BY <1>6 DEF Bits
  <2>2. v = (2 * z + f) + (2 * d) * y
    BY <1>2, <1>4
  <2>3. x = ((2 * z + f) + (2 * d) * y) + t * (2 * (d * e))
    BY <1>1, <2>1, ShiftedIs
  <2>4. QED
    BY <1>5, <2>2, <2>3, Zenon
<1>8. x % s = v
  <2>1. s > 0
    BY <1>4
  <2>2. QED
    BY <1>1, <1>4, <1>7, <2>1, ResidueIs, Zenon
<1>9. v = y * w + l
  <2>1. w * y = y * w /\ y * w \in Int
    BY <1>1
  <2>2. QED
    BY <1>1, <1>2, <1>4, <2>1
<1>10. v % w = l /\ v \div w = y
  BY <1>1, <1>2, <1>9, DivisionIsUnique
<1>11. QED
  BY <1>2, <1>5, <1>6, <1>8, <1>10, Zenon DEF ShiftedBits

LEMMA QuotientBit ==
    \A A, n, t, f, z \in Int :
        (2 * z + f) * n + (2 * A + t - f * n) = 2 * (z * n + A) + t
  BY SMT

(* The accumulator and the dividend's register after the round.            *)
RoundEnds(m, n, D, A, d, e, t, f) ==
    /\ 0 <= 2 * A + t - f * n /\ 2 * A + t - f * n < n
    /\ m \div e = (((2 * D + f) % (2 * (d * e))) % (2 * d)) * n + (2 * A + t - f * n)
    /\ m % e = ((2 * D + f) % (2 * (d * e))) \div (2 * d)

LEMMA OneRound ==
    ASSUME NEW m, NEW n, NEW D, NEW A, NEW d, NEW e, BeforeRound(m, n, D, A, d, e)
    PROVE  /\ D \div (d * e) \in {0, 1}
           /\ 2 * A + (D \div (d * e)) < 2 * (d * e)
           /\ \A f \in {0, 1} : (f = 1 <=> 2 * A + (D \div (d * e)) >= n) =>
                    RoundEnds(m, n, D, A, d, e, D \div (d * e), f)
<1>1. /\ m \in Int /\ n \in Int /\ D \in Int /\ A \in Int /\ d \in Int /\ e \in Int
      /\ d > 0 /\ e > 0 /\ 0 <= D /\ D < 2 * (d * e) /\ n <= d * e /\ 0 <= A /\ A < n
  BY DEF BeforeRound
<1>2. PICK t, y, z : /\ Bits(D, d, e, t, y, z)
                     /\ D \div (d * e) = t /\ D \div d = t * e + y /\ D % d = z
  BY <1>1, BitsOfDividend, ZenonT(30)
<1>3. t \in {0, 1} /\ t \in Int /\ y \in Int /\ z \in Int /\ 0 <= y /\ y < e
  BY <1>2 DEF Bits
<1>4. m \div (2 * e) = z * n + A /\ m % (2 * e) = t * e + y
  BY <1>2 DEF BeforeRound
<1>5. m \div e = 2 * (z * n + A) + t /\ m % e = y
  <2>1. PICK q \in Int : q = z * n + A
    BY <1>1, <1>3
  <2>2. m \div (2 * e) = q
    BY <1>4, <2>1, Zenon
  <2>3. m \div e = 2 * q + t /\ m % e = y
    <3>1. m \in Int /\ e \in Int /\ e > 0
      BY <1>1
    <3>2. QED
      BY <1>3, <1>4, <2>2, <3>1, NextBitOfMagnitude
  <2>4. QED
    BY <2>1, <2>3, Zenon
<1>6. 2 * A + t < 2 * (d * e)
  <2>1. PICK p \in Int : p = d * e
    BY <1>1
  <2>2. QED
    BY <1>1, <1>3, <2>1
<1>7. ASSUME NEW f \in {0, 1}, f = 1 <=> 2 * A + t >= n
      PROVE  RoundEnds(m, n, D, A, d, e, t, f)
  <2>1. ShiftedBits(D, d, e, f, y, z)
    BY <1>1, <1>2, NextDividend
  <2>2. (2 * z + f) * n + (2 * A + t - f * n) = 2 * (z * n + A) + t
    <3>1. f \in Int
      OBVIOUS
    <3>2. QED
      BY <1>1, <1>3, <3>1, QuotientBit
  <2>3. 0 <= 2 * A + t - f * n /\ 2 * A + t - f * n < n
    <3>1. CASE f = 1
      <4>1. f * n = n
        BY <1>1, <3>1
      <4>2. QED
        BY <1>1, <1>3, <1>7, <3>1, <4>1
    <3>2. CASE f = 0
      <4>1. f * n = 0
        BY <1>1, <3>2
      <4>2. QED
        BY <1>1, <1>3, <1>7, <3>2, <4>1
    <3>3. QED
      BY <3>1, <3>2
  <2>4. QED
    BY <1>5, <2>1, <2>2, <2>3, Zenon DEF RoundEnds, ShiftedBits
<1>8. QED
  BY <1>2, <1>3, <1>6, <1>7

(* The same with registers: c rounds are to go.                            *)
SoFar(m, n, D, A, c) ==
    /\ A < n
    /\ m \div 2^c = (D % 2^(2 * WordBits - c)) * n + A
    /\ m % 2^c = D \div 2^(2 * WordBits - c)

LEMMA WholePower == 2^(2 * WordBits) = PairSize
<1>1. WordBits \in Nat /\ 2 * WordBits = WordBits + WordBits
  BY WordBitsAssumption
<1>2. 2^(WordBits + WordBits) = 2^WordBits * 2^WordBits
  BY <1>1, PowersMultiply
<1>3. QED
  BY <1>1, <1>2 DEF PairSize, WordSize

LEMMA LoopPowers ==
    ASSUME NEW c \in 1 .. 2 * WordBits
    PROVE  \E d, e \in Int :
              /\ d > 0 /\ e > 0 /\ d = 2^(2 * WordBits - c) /\ e = 2^(c - 1)
              /\ 2^c = 2 * e /\ 2^(2 * WordBits - (c - 1)) = 2 * d
              /\ 2 * (d * e) = PairSize /\ PairSize \div 2 = d * e
<1>1. /\ WordBits \in Nat /\ c - 1 \in Nat /\ c \in Nat /\ 2 * WordBits - c \in Nat
      /\ (c - 1) + 1 = c /\ 2 * WordBits - (c - 1) = (2 * WordBits - c) + 1
      /\ (2 * WordBits - c) + c = 2 * WordBits
  BY WordBitsAssumption
<1>2. PICK d \in Int, e \in Int : d > 0 /\ e > 0 /\ d = 2^(2 * WordBits - c) /\ e = 2^(c - 1)
  <2>1. 2^(2 * WordBits - c) \in Nat /\ 2^(2 * WordBits - c) > 0
    BY <1>1, PowerOfTwo, Zenon
  <2>2. 2^(c - 1) \in Nat /\ 2^(c - 1) > 0
    BY <1>1, PowerOfTwo, Zenon
  <2>3. QED
    BY <2>1, <2>2
<1>3. 2^((c - 1) + 1) = 2 * e
  BY <1>1, <1>2, PowerDoubles, Zenon
<1>4. 2^((2 * WordBits - c) + 1) = 2 * d
  BY <1>1, <1>2, PowerDoubles, Zenon
<1>5. 2^((2 * WordBits - c) + c) = 2^(2 * WordBits - c) * 2^c
  BY <1>1, PowersMultiply, Zenon
<1>6. PairSize = d * (2 * e)
  BY <1>1, <1>2, <1>3, <1>5, WholePower, Zenon
<1>7. PICK x \in Int : x = d * e
  OBVIOUS
<1>8. PairSize = 2 * x /\ PairSize = x * 2 + 0
  BY <1>6, <1>7
<1>9. PairSize \div 2 = x
  <2>1. (x * 2 + 0) \div 2 = x
    <3>1. 2 \in Int /\ 2 > 0 /\ 0 \in Int /\ 0 <= 0 /\ 0 < 2
      OBVIOUS
    <3>2. QED
      BY <3>1, DivisionIsUnique, Zenon
  <2>2. QED
    BY <1>8, <2>1, Zenon
<1>10. 2 * (d * e) = PairSize /\ PairSize \div 2 = d * e /\ 2^c = 2 * e
       /\ 2^(2 * WordBits - (c - 1)) = 2 * d
  BY <1>1, <1>3, <1>4, <1>7, <1>8, <1>9
<1>11. QED
  BY <1>2, <1>10

LEMMA MagnitudeFacts ==
    ASSUME NEW l \in Int, 0 <= l, l < PairSize
    PROVE  /\ Magnitude(Signed(l)) \in Int /\ 0 <= Magnitude(Signed(l))
           /\ 2 * Magnitude(Signed(l)) <= PairSize
           /\ Magnitude(Signed(l)) = 0 <=> l = 0
           /\ Signed(l) < 0 => Magnitude(Signed(l)) = - Signed(l)
           /\ ~(Signed(l) < 0) => Magnitude(Signed(l)) = Signed(l)
<1>1. PICK a \in Int : /\ a = Signed(l) /\ 2 * a < PairSize /\ -PairSize <= 2 * a
                       /\ a = 0 <=> l = 0
  BY SignedFacts
<1>2. QED
  BY <1>1, WordFacts DEF Magnitude

LEMMA SubtractsIs ==
    ASSUME NEW p \in Pairs, NEW q \in Pairs
    PROVE  Subtracts(p, q) <=> Value(p) >= Value(q)
<1>1. /\ p.lo \in Int /\ 0 <= p.lo /\ p.lo < WordSize /\ p.hi \in Int
      /\ q.lo \in Int /\ 0 <= q.lo /\ q.lo < WordSize /\ q.hi \in Int
      /\ Value(p) = p.lo + WordSize * p.hi /\ Value(q) = q.lo + WordSize * q.hi
      /\ Value(p) \in Int /\ Value(q) \in Int
  BY PairValue, WordFacts
<1>2. p.hi > q.hi => Value(p) > Value(q)
  BY <1>1, WordFacts, Lexicographic
<1>3. q.hi > p.hi => Value(q) > Value(p)
  BY <1>1, WordFacts, Lexicographic
<1>4. p.hi = q.hi => (Value(p) >= Value(q) <=> p.lo >= q.lo)
  <2>1. PICK x \in Int : x = WordSize * p.hi
    BY <1>1, WordFacts
  <2>2. QED
    BY <1>1, <2>1
<1>5. QED
  BY <1>1, <1>2, <1>3, <1>4 DEF Subtracts

LEMMA ShiftedFacts ==
    ASSUME NEW p \in Pairs, NEW b \in Int
    PROVE  Shifted(p, b) \in Pairs /\ Value(Shifted(p, b)) = (2 * Value(p) + b) % PairSize
<1>1. 2 * Value(p) + b \in Int
  BY PairValue
<1>2. QED
  BY <1>1, PairOfNumber DEF Shifted

LEMMA RoundKeepsSoFar ==
    ASSUME NEW m \in Int, NEW p \in Pairs, NEW q \in Pairs, NEW a \in Pairs,
           NEW c \in 1 .. 2 * WordBits, 2 * Value(q) <= PairSize,
           SoFar(m, Value(q), Value(p), Value(a), c)
    PROVE  LET shifted == Shifted(a, TopBit(p))
               fits    == Subtracts(shifted, q)
               a2      == IF fits THEN SubPairs(shifted, q) ELSE shifted
               p2      == Shifted(p, IF fits THEN 1 ELSE 0)
           IN  a2 \in Pairs /\ p2 \in Pairs /\ SoFar(m, Value(q), Value(p2), Value(a2), c - 1)
<1> DEFINE shifted == Shifted(a, TopBit(p))
           fits    == Subtracts(shifted, q)
           a2      == IF fits THEN SubPairs(shifted, q) ELSE shifted
           p2      == Shifted(p, IF fits THEN 1 ELSE 0)
<1>1. PICK D \in Int, A \in Int, n \in Int :
         /\ D = Value(p) /\ A = Value(a) /\ n = Value(q)
         /\ 0 <= D /\ D < PairSize /\ 0 <= A
  BY PairValue
<1>2. PICK d \in Int, e \in Int :
         /\ d > 0 /\ e > 0 /\ d = 2^(2 * WordBits - c) /\ e = 2^(c - 1)
         /\ 2^c = 2 * e /\ 2^(2 * WordBits - (c - 1)) = 2 * d
         /\ 2 * (d * e) = PairSize /\ PairSize \div 2 = d * e
  BY LoopPowers
<1>3. A < n /\ m \div (2 * e) = (D % d) * n + A /\ m % (2 * e) = D \div d
  BY <1>1, <1>2, Zenon DEF SoFar
<1>4. n <= d * e /\ D < 2 * (d * e)
  <2>1. PICK x \in Int : x = d * e
    OBVIOUS
  <2>2. QED
    BY <1>1, <1>2, <2>1
<1>5. BeforeRound(m, n, D, A, d, e)
  BY <1>1, <1>2, <1>3, <1>4 DEF BeforeRound
<1>6. PICK t \in {0, 1} :
         /\ t = D \div (d * e) /\ 2 * A + t < 2 * (d * e)
         /\ \A f \in {0, 1} : (f = 1 <=> 2 * A + t >= n) => RoundEnds(m, n, D, A, d, e, t, f)
  BY <1>5, OneRound
<1>7. TopBit(p) = t
  BY <1>1, <1>2, <1>6 DEF TopBit
<1>8. shifted \in Pairs /\ Value(shifted) = 2 * A + t
  <2>1. t \in Int
    OBVIOUS
  <2>2. shifted \in Pairs /\ Value(shifted) = (2 * A + t) % PairSize
    BY <1>1, <1>7, <2>1, ShiftedFacts
  <2>3. PICK x \in Int : x = 2 * A + t /\ 0 <= x /\ x < PairSize
    BY <1>1, <1>2, <1>6, <2>1
  <2>4. x % PairSize = x
    BY <2>3, WordFacts, SmallIsItself
  <2>5. QED
    BY <2>2, <2>3, <2>4
<1> HIDE DEF shifted
<1>9. PICK f \in {0, 1} : f = (IF fits THEN 1 ELSE 0)
  OBVIOUS
<1>10. f = 1 <=> 2 * A + t >= n
  <2>1. fits <=> Value(shifted) >= Value(q)
    BY <1>8, SubtractsIs
  <2>2. QED
    BY <1>1, <1>8, <1>9, <2>1
<1>11. RoundEnds(m, n, D, A, d, e, t, f)
  BY <1>6, <1>10
<1>12. p2 \in Pairs /\ Value(p2) = (2 * D + f) % PairSize
  <2>1. p2 = Shifted(p, f) /\ f \in Int
    BY <1>9
  <2>2. QED
    BY <1>1, <2>1, ShiftedFacts
<1>13. a2 \in Pairs /\ Value(a2) = 2 * A + t - f * n
  <2>1. CASE fits
    <3>1. a2 = SubPairs(shifted, q) /\ f = 1
      BY <1>9, <2>1
    <3>2. a2 \in Pairs /\ Value(a2) = (2 * A + t - n) % PairSize
      BY <1>1, <1>8, <3>1, SubPairsSubtracts
    <3>3. f * n = n
      BY <3>1
    <3>4. PICK x \in Int : x = 2 * A + t - n /\ 0 <= x /\ x < PairSize
      <4>1. 0 <= 2 * A + t - n /\ 2 * A + t - n < n
        BY <1>11, <3>3 DEF RoundEnds
      <4>2. n < PairSize
        BY <1>1, PairValue
      <4>3. t \in Int
        OBVIOUS
      <4>4. QED
        BY <4>1, <4>2, <4>3, WordFacts
    <3>5. x % PairSize = x
      BY <3>4, WordFacts, SmallIsItself
    <3>6. QED
      BY <3>2, <3>3, <3>4, <3>5
  <2>2. CASE ~fits
    <3>1. a2 = shifted /\ f = 0
      BY <1>9, <2>2
    <3>2. f * n = 0
      BY <3>1
    <3>3. QED
      BY <1>8, <3>1, <3>2
  <2>3. QED
    BY <2>1, <2>2
<1> HIDE DEF a2, p2
<1>14. SoFar(m, Value(q), Value(p2), Value(a2), c - 1)
  <2>1. /\ Value(a2) < n
        /\ m \div e = (Value(p2) % (2 * d)) * n + Value(a2)
        /\ m % e = Value(p2) \div (2 * d)
    BY <1>2, <1>11, <1>12, <1>13 DEF RoundEnds
  <2>2. QED
    BY <1>1, <1>2, <2>1, Zenon DEF SoFar
<1>15. QED
  BY <1>12, <1>13, <1>14 DEF a2, p2, shifted

(* The loop's first and last state.                                        *)
LEMMA LoopStarts ==
    ASSUME NEW m \in Int, 0 <= m, m < PairSize, NEW n \in Int, n > 0
    PROVE  SoFar(m, n, m, 0, 2 * WordBits)
<1>1. m \div PairSize = 0 /\ m % PairSize = m
  <2>1. 0 * PairSize + m = m
    BY WordFacts
  <2>2. (0 * PairSize + m) \div PairSize = 0 /\ (0 * PairSize + m) % PairSize = m
    <3>1. 0 \in Int
      OBVIOUS
    <3>2. QED
      BY <3>1, WordFacts, DivisionIsUnique, Zenon
  <2>3. QED
    BY <2>1, <2>2, Zenon
<1>2. 2^(2 * WordBits - 2 * WordBits) = 1
  <2>1. 2 * WordBits - 2 * WordBits = 0
    BY WordBitsAssumption
  <2>2. 2^0 = 1
    OBVIOUS
  <2>3. QED
    BY <2>1, <2>2
<1>3. m % 1 = 0 /\ m \div 1 = m
  OBVIOUS
<1>4. 0 * n + 0 = 0
  OBVIOUS
<1>5. QED
  BY <1>1, <1>2, <1>3, <1>4, WholePower DEF SoFar

LEMMA LoopDone ==
    ASSUME NEW m \in Int, NEW n \in Int, n > 0, NEW D \in Int, 0 <= D, D < PairSize,
           NEW A \in Int, 0 <= A, SoFar(m, n, D, A, 0)
    PROVE  D = m \div n /\ A = m % n
<1>1. 2 * WordBits - 0 = 2 * WordBits
  BY WordBitsAssumption
<1>2. D % PairSize = D
  BY WordFacts, SmallIsItself
<1>3. 2^0 = 1
  OBVIOUS
<1>4. m \div 1 = D * n + A /\ A < n
  BY <1>1, <1>2, <1>3, WholePower, Zenon DEF SoFar
<1>5. m \div 1 = m
  OBVIOUS
<1>6. (D * n + A) \div n = D /\ (D * n + A) % n = A
  BY <1>4, DivisionIsUnique
<1>7. QED
  BY <1>4, <1>5, <1>6

LEMMA MagnitudeOfPair ==
    ASSUME NEW l \in Int, 0 <= l, l < PairSize, NEW p, p = Pair(l)
    PROVE  /\ p \in Pairs /\ Value(p) = l
           /\ IsNegative(p) <=> Signed(l) < 0
           /\ (IF IsNegative(p) THEN NegatePair(p) ELSE p) \in Pairs
           /\ Value(IF IsNegative(p) THEN NegatePair(p) ELSE p) = Magnitude(Signed(l))
<1>1. p \in Pairs /\ Value(p) = l
  BY WordFacts, PairOfNumber, SmallIsItself
<1>2. IsNegative(p) <=> Signed(l) < 0
  BY <1>1, SignedPair
<1>3. CASE Signed(l) < 0
  <2>1. NegatePair(p) \in Pairs /\ Value(NegatePair(p)) = (-l) % PairSize
    BY <1>1, NegatePairNegates
  <2>2. Magnitude(Signed(l)) = PairSize - l /\ 0 <= PairSize - l /\ PairSize - l < PairSize
    <3>1. 2 * l >= PairSize
      BY <1>3, SignedFacts
    <3>2. Signed(l) = l - PairSize
      BY <3>1, WordFacts DEF Signed
    <3>3. QED
      BY <1>3, <3>1, <3>2, WordFacts, MagnitudeFacts
  <2>3. (-l) % PairSize = PairSize - l
    <3>1. PICK x \in Int, r \in Int, k \in Int :
             x = -l /\ r = PairSize - l /\ k = -1 /\ x = r + k * PairSize
      BY WordFacts
    <3>2. x % PairSize = r
      BY <2>2, <3>1, WordFacts, ResidueIs
    <3>3. QED
      BY <3>1, <3>2
  <2>4. QED
    BY <1>1, <1>2, <1>3, <2>1, <2>2, <2>3
<1>4. CASE ~(Signed(l) < 0)
  <2>1. ~(2 * l >= PairSize)
    BY <1>4, SignedFacts
  <2>2. Signed(l) = l
    BY <2>1, WordFacts DEF Signed
  <2>3. QED
    BY <1>1, <1>2, <1>4, <2>2, MagnitudeFacts
<1>5. QED
  BY <1>3, <1>4

-----------------------------------------------------------------------------
(* The invariant holds at first and every step keeps it.                   *)
LEMMA ArithmeticInit == Init => ArithmeticInv
<1> SUFFICES ASSUME Init PROVE ArithmeticInv
  OBVIOUS
<1>1. left \in Int /\ right \in Int
  BY WordFacts DEF Init
<1>2. Typed
  BY <1>1, PairOfNumber, HostAssumption DEF Init, Typed
<1>3. AtPlace
  BY DEF Init, AtPlace, Operands
<1>4. QED
  BY <1>2, <1>3 DEF ArithmeticInv

LEMMA OperandFacts ==
    ASSUME Typed
    PROVE  /\ left \in Int /\ 0 <= left /\ left < PairSize
           /\ right \in Int /\ 0 <= right /\ right < PairSize
  BY WordFacts DEF Typed

LEMMA OperandPairs ==
    ASSUME Typed, Operands
    PROVE  /\ Value(dividend) = left /\ Value(divisor) = right
           /\ IsZero(divisor) <=> right = 0
<1>1. Value(dividend) = left /\ Value(divisor) = right
  BY OperandFacts, MagnitudeOfPair DEF Operands
<1>2. QED
  BY <1>1, ZeroIs DEF Typed

LEMMA StraightLineKeeps ==
    ASSUME ArithmeticInv, StraightLine
    PROVE  ArithmeticInv'
<1>1. Typed /\ Operands /\ op \in Straight /\ accumulator = Host
  BY DEF ArithmeticInv, AtPlace, StraightLine
<1>2. /\ Result(op, dividend, divisor) \in Pairs
      /\ Value(Result(op, dividend, divisor)) = Whole(op, Signed(left), Signed(right))
  BY <1>1, OperandPairs, StraightIsWhole DEF Typed
<1>3. Typed'
  BY <1>1, <1>2 DEF Typed, StraightLine, Inputs, Helper
<1>4. ~Dividing
  BY <1>1 DEF Straight, Dividing, Comparisons, HighCondition, CondJumps
<1>5. AtPlace'
  <2>1. pc' = "done" /\ op' = op /\ left' = left /\ right' = right
        /\ dividend' = Result(op, dividend, divisor)
    BY DEF StraightLine, Inputs
  <2>2. PairsActAsWhole'
    BY <1>2, <2>1 DEF PairsActAsWhole
  <2>3. ~Dividing'
    BY <1>4, <2>1 DEF Dividing
  <2>4. QED
    BY <2>1, <2>2, <2>3 DEF AtPlace
<1>6. QED
  BY <1>3, <1>5 DEF ArithmeticInv

LEMMA EnterHelperKeeps ==
    ASSUME ArithmeticInv, EnterHelper
    PROVE  ArithmeticInv'
<1>1. Typed /\ Operands /\ Dividing /\ accumulator = Host
  BY DEF ArithmeticInv, AtPlace, EnterHelper, Dividing
<1>2. Zero \in Pairs
  BY PairOfNumber DEF Zero
<1>3. Typed'
  BY <1>1, <1>2 DEF Typed, EnterHelper, Inputs
<1>4. Operands' /\ Called'
  BY <1>1 DEF Operands, Called, Dividing, EnterHelper, Inputs
<1>5. /\ pc' = "by_zero" \/ pc' = "sl_divmod_abs"
      /\ pc' = "by_zero" <=> right' = 0
  BY <1>1, OperandPairs DEF EnterHelper, Inputs
<1>6. AtPlace'
  BY <1>4, <1>5 DEF AtPlace
<1>7. QED
  BY <1>3, <1>6 DEF ArithmeticInv

LEMMA DivideByZeroKeeps ==
    ASSUME ArithmeticInv, DivideByZero
    PROVE  ArithmeticInv'
<1>1. Typed /\ Operands /\ Called /\ right = 0
  BY DEF ArithmeticInv, AtPlace, DivideByZero
<1>2. Zero \in Pairs /\ Value(Zero) = 0
  <2>1. Value(Zero) = 0 % PairSize /\ Zero \in Pairs
    BY PairOfNumber DEF Zero
  <2>2. 0 % PairSize = 0
    BY WordFacts, SmallIsItself
  <2>3. QED
    BY <2>1, <2>2
<1>3. accumulator' = Host /\ pc' = "done"
  BY <1>1 DEF DivideByZero, Leave, Called
<1>4. Typed'
  BY <1>1, <1>2, <1>3, HostAssumption DEF Typed, DivideByZero, Inputs
<1>5. Divided'
  BY <1>1, <1>2, <1>3, OperandPairs DEF Divided, DivideByZero, Inputs
<1>6. Dividing' /\ op' \notin Straight
  BY <1>1 DEF Called, Dividing, DivideByZero, Inputs, Straight, Comparisons, HighCondition, CondJumps
<1>7. AtPlace'
  BY <1>3, <1>5, <1>6 DEF AtPlace
<1>8. QED
  BY <1>4, <1>7 DEF ArithmeticInv

LEMMA MakeMagnitudesKeeps ==
    ASSUME ArithmeticInv, MakeMagnitudes
    PROVE  ArithmeticInv'
<1>1. Typed /\ Operands /\ Called /\ right # 0
  BY DEF ArithmeticInv, AtPlace, MakeMagnitudes
<1>2. /\ left \in Int /\ 0 <= left /\ left < PairSize
      /\ right \in Int /\ 0 <= right /\ right < PairSize
  BY <1>1, OperandFacts
<1>3. /\ IsNegative(dividend) <=> Signed(left) < 0
      /\ dividend' \in Pairs /\ Value(dividend') = Magnitude(Signed(left))
  BY <1>1, <1>2, MagnitudeOfPair DEF Operands, MakeMagnitudes
<1>4. /\ IsNegative(divisor) <=> Signed(right) < 0
      /\ divisor' \in Pairs /\ Value(divisor') = Magnitude(Signed(right))
  BY <1>1, <1>2, MagnitudeOfPair DEF Operands, MakeMagnitudes
<1>5. accumulator' \in Pairs /\ Value(accumulator') = 0
  <2>1. Zero \in Pairs /\ Value(Zero) = 0
    BY ZeroIs, BitPair DEF Zero
  <2>2. QED
    BY <2>1 DEF MakeMagnitudes
<1>6. pc' = "sl_divmod_loop" /\ count' = 2 * WordBits
      /\ negative' = [dividend |-> IsNegative(dividend), divisor |-> IsNegative(divisor)]
      /\ op' = op /\ left' = left /\ right' = right /\ saved' = saved
  BY DEF MakeMagnitudes, Inputs
<1>7. negative' \in [dividend : BOOLEAN, divisor : BOOLEAN]
  <2>1. IsNegative(dividend) \in BOOLEAN /\ IsNegative(divisor) \in BOOLEAN
    BY DEF IsNegative
  <2>2. QED
    BY <1>6, <2>1
<1>8. Typed'
  BY <1>1, <1>3, <1>4, <1>5, <1>6, <1>7 DEF Typed
<1>9. SignsKept'
  BY <1>3, <1>4, <1>6 DEF SignsKept
<1>10. QuotientSoFar'
  <2>1. /\ Magnitude(Signed(left)) \in Int /\ 0 <= Magnitude(Signed(left))
        /\ Magnitude(Signed(left)) < PairSize
        /\ Magnitude(Signed(right)) \in Int /\ Magnitude(Signed(right)) > 0
    BY <1>1, <1>2, MagnitudeFacts, WordFacts
  <2>2. SoFar(Magnitude(Signed(left)), Magnitude(Signed(right)),
              Magnitude(Signed(left)), 0, 2 * WordBits)
    BY <2>1, LoopStarts
  <2>3. QED
    BY <1>3, <1>4, <1>5, <1>6, <2>2 DEF SoFar, QuotientSoFar
<1>11. count' \in 1 .. 2 * WordBits
  BY <1>6, WordBitsAssumption
<1>12. AtPlace'
  BY <1>1, <1>6, <1>9, <1>10, <1>11 DEF AtPlace, Called, Dividing
<1>13. QED
  BY <1>8, <1>12 DEF ArithmeticInv

LEMMA DivideOneBitKeeps ==
    ASSUME ArithmeticInv, DivideOneBit
    PROVE  ArithmeticInv'
<1> DEFINE m == Magnitude(Signed(left))
           n == Magnitude(Signed(right))
<1>1. /\ Typed /\ Called /\ SignsKept /\ right # 0
      /\ count \in 1 .. 2 * WordBits /\ QuotientSoFar /\ pc = "sl_divmod_loop"
  BY DEF ArithmeticInv, AtPlace, DivideOneBit
<1>2. /\ m \in Int /\ 0 <= m /\ m < PairSize
      /\ n \in Int /\ n > 0 /\ 2 * n <= PairSize
  BY <1>1, OperandFacts, MagnitudeFacts, WordFacts
<1>3. /\ Value(divisor) = n
      /\ SoFar(m, Value(divisor), Value(dividend), Value(accumulator), count)
  BY <1>1 DEF QuotientSoFar, SoFar
<1> HIDE DEF m, n
<1>4. /\ accumulator' \in Pairs /\ dividend' \in Pairs
      /\ SoFar(m, Value(divisor), Value(dividend'), Value(accumulator'), count - 1)
  <2>1. dividend \in Pairs /\ divisor \in Pairs /\ accumulator \in Pairs
    BY <1>1 DEF Typed
  <2>2. 2 * Value(divisor) <= PairSize
    BY <1>2, <1>3
  <2>3. QED
    BY <1>1, <1>2, <1>3, <2>1, <2>2, RoundKeepsSoFar DEF DivideOneBit
<1>5. /\ divisor' = divisor /\ saved' = saved /\ negative' = negative /\ count' = count - 1
      /\ op' = op /\ left' = left /\ right' = right
      /\ pc' = IF count' = 0 THEN "signs" ELSE "sl_divmod_loop"
  BY <1>1 DEF DivideOneBit, Inputs, LoopEnds
<1>6. Typed'
  BY <1>1, <1>4, <1>5 DEF Typed
<1>7. Called' /\ SignsKept' /\ right' # 0
  BY <1>1, <1>5 DEF Called, Dividing, SignsKept
<1>8. CASE count' = 0
  <2>1. SoFar(m, n, Value(dividend'), Value(accumulator'), 0)
    BY <1>3, <1>4, <1>5, <1>8
  <2>2. /\ Value(dividend') \in Int /\ 0 <= Value(dividend') /\ Value(dividend') < PairSize
        /\ Value(accumulator') \in Int /\ 0 <= Value(accumulator')
    BY <1>4, PairValue
  <2>3. Value(dividend') = m \div n /\ Value(accumulator') = m % n
    BY <1>2, <2>1, <2>2, LoopDone
  <2>4. Value(dividend)' = Quotient' /\ Value(accumulator)' = Remainder'
    BY <1>5, <2>3 DEF Quotient, Remainder, m, n
  <2>5. AtPlace'
    BY <1>5, <1>7, <1>8, <2>4 DEF AtPlace
  <2>6. QED
    BY <1>6, <2>5 DEF ArithmeticInv
<1>9. CASE count' # 0
  <2>1. count' \in 1 .. 2 * WordBits
    BY <1>1, <1>5, <1>9, WordBitsAssumption
  <2>2. QuotientSoFar'
    BY <1>3, <1>4, <1>5 DEF QuotientSoFar, SoFar, m, n
  <2>3. AtPlace'
    BY <1>5, <1>7, <1>9, <2>1, <2>2 DEF AtPlace
  <2>4. QED
    BY <1>6, <2>3 DEF ArithmeticInv
<1>10. QED
  BY <1>8, <1>9

LEMMA GiveSignsKeeps ==
    ASSUME ArithmeticInv, GiveSigns
    PROVE  ArithmeticInv'
<1>1. /\ Typed /\ Called /\ SignsKept /\ right # 0
      /\ Value(dividend) = Quotient /\ Value(accumulator) = Remainder
  BY DEF ArithmeticInv, AtPlace, GiveSigns
<1>2. /\ dividend \in Pairs /\ accumulator \in Pairs
      /\ negative.dividend \in BOOLEAN /\ negative.divisor \in BOOLEAN
  BY <1>1 DEF Typed
<1>3. /\ Value(dividend) \in Int /\ 0 <= Value(dividend) /\ Value(dividend) < PairSize
      /\ Value(accumulator) \in Int /\ 0 <= Value(accumulator) /\ Value(accumulator) < PairSize
  BY <1>2, PairValue
<1>4. /\ accumulator' = Host /\ pc' = "done"
      /\ op' = op /\ left' = left /\ right' = right /\ negative' = negative
  BY <1>1 DEF GiveSigns, Leave, Called, Inputs
<1>5. /\ NegatePair(dividend) \in Pairs /\ Value(NegatePair(dividend)) = (- Quotient) % PairSize
      /\ NegatePair(accumulator) \in Pairs /\ Value(NegatePair(accumulator)) = (- Remainder) % PairSize
      /\ Value(dividend) = Quotient % PairSize /\ Value(accumulator) = Remainder % PairSize
  <2>1. Value(dividend) % PairSize = Value(dividend) /\ Value(accumulator) % PairSize = Value(accumulator)
    BY <1>3, WordFacts, SmallIsItself
  <2>2. QED
    BY <1>1, <1>2, <2>1, NegatePairNegates
<1>6. dividend' \in Pairs /\ Value(dividend') = SignedQuotient % PairSize
  <2>1. dividend' = IF negative.dividend # negative.divisor THEN NegatePair(dividend) ELSE dividend
    BY DEF GiveSigns
  <2>2. (negative.dividend # negative.divisor) <=> ((Signed(left) < 0) # (Signed(right) < 0))
    BY <1>1, <1>2 DEF SignsKept
  <2>3. CASE (Signed(left) < 0) # (Signed(right) < 0)
    <3>1. dividend' = NegatePair(dividend) /\ SignedQuotient = - Quotient
      BY <2>1, <2>2, <2>3 DEF SignedQuotient
    <3>2. QED
      BY <1>5, <3>1
  <2>4. CASE ~((Signed(left) < 0) # (Signed(right) < 0))
    <3>1. dividend' = dividend /\ SignedQuotient = Quotient
      BY <2>1, <2>2, <2>4 DEF SignedQuotient
    <3>2. QED
      BY <1>2, <1>5, <3>1
  <2>5. QED
    BY <2>3, <2>4
<1>7. divisor' \in Pairs /\ Value(divisor') = SignedRemainder % PairSize
  <2>1. divisor' = IF negative.dividend THEN NegatePair(accumulator) ELSE accumulator
    BY DEF GiveSigns, RemainderNegative
  <2>2. CASE Signed(left) < 0
    <3>1. divisor' = NegatePair(accumulator) /\ SignedRemainder = - Remainder
      BY <1>1, <2>1, <2>2 DEF SignedRemainder, SignsKept
    <3>2. QED
      BY <1>5, <3>1
  <2>3. CASE ~(Signed(left) < 0)
    <3>1. divisor' = accumulator /\ SignedRemainder = Remainder
      BY <1>1, <2>1, <2>3 DEF SignedRemainder, SignsKept
    <3>2. QED
      BY <1>2, <1>5, <3>1
  <2>4. QED
    BY <2>2, <2>3
<1>8. Typed'
  BY <1>1, <1>4, <1>6, <1>7, HostAssumption DEF Typed
<1>9. Divided'
  <2>1. SignedQuotient' = SignedQuotient /\ SignedRemainder' = SignedRemainder
    BY <1>4 DEF SignedQuotient, SignedRemainder, Quotient, Remainder
  <2>2. QED
    BY <1>1, <1>4, <1>6, <1>7, <2>1 DEF Divided
<1>10. Dividing' /\ op' \notin Straight
  BY <1>1, <1>4 DEF Called, Dividing, Straight, Comparisons, HighCondition, CondJumps
<1>11. AtPlace'
  BY <1>4, <1>9, <1>10 DEF AtPlace
<1>12. QED
  BY <1>8, <1>11 DEF ArithmeticInv

LEMMA ArithmeticNext ==
    ASSUME ArithmeticInv, [Next]_vars
    PROVE  ArithmeticInv'
<1>1. CASE StraightLine
  BY <1>1, StraightLineKeeps
<1>2. CASE EnterHelper
  BY <1>2, EnterHelperKeeps
<1>3. CASE DivideByZero
  BY <1>3, DivideByZeroKeeps
<1>4. CASE MakeMagnitudes
  BY <1>4, MakeMagnitudesKeeps
<1>5. CASE DivideOneBit
  BY <1>5, DivideOneBitKeeps
<1>6. CASE GiveSigns
  BY <1>6, GiveSignsKeeps
<1>7. CASE UNCHANGED vars
  BY <1>7 DEF vars, ArithmeticInv, Typed, AtPlace, Operands, Called, Dividing, SignsKept, Divided,
              QuotientSoFar, PairsActAsWhole, Quotient, Remainder, SignedQuotient, SignedRemainder
<1>8. QED
  BY <1>1, <1>2, <1>3, <1>4, <1>5, <1>6, <1>7 DEF Next

LEMMA ArithmeticInvariant == Spec => []ArithmeticInv
  BY ArithmeticInit, ArithmeticNext, PTL DEF Spec

-----------------------------------------------------------------------------
(* The words of a pair carry, borrow, multiply and compare like one        *)
(* register, for words of every width: emit_add, emit_sub, emit_mul,       *)
(* emit_compare and emit_logic of the 32-bit back ends.                    *)
THEOREM PairsAreWhole == Spec => []PairsActAsWhole
<1>1. ArithmeticInv => PairsActAsWhole
  BY DEF ArithmeticInv, AtPlace, PairsActAsWhole
<1>2. QED
  BY <1>1, ArithmeticInvariant, PTL

(* The loop of sl_divmod divides the bits it has seen, for every number of *)
(* rounds.                                                                 *)
THEOREM LoopDivides == Spec => []QuotientSoFar
<1>1. ArithmeticInv => QuotientSoFar
  BY DEF ArithmeticInv, AtPlace, QuotientSoFar
<1>2. QED
  BY <1>1, ArithmeticInvariant, PTL

-----------------------------------------------------------------------------
(* What the division gives, read as signed numbers.                        *)
LEMMA QuotientFacts ==
    ASSUME Typed, right # 0
    PROVE  /\ Signed(left) \in Int /\ Signed(right) \in Int /\ Signed(right) # 0
           /\ Quotient \in Int /\ 0 <= Quotient /\ 2 * Quotient <= PairSize
           /\ Remainder \in Int /\ 0 <= Remainder /\ Remainder < Magnitude(Signed(right))
           /\ 2 * Remainder < PairSize
           /\ Magnitude(Signed(left)) = Quotient * Magnitude(Signed(right)) + Remainder
           /\ 2 * Quotient = PairSize =>
                 2 * Magnitude(Signed(left)) = PairSize /\ Magnitude(Signed(right)) = 1
<1>1. PICK m \in Int, n \in Int :
         /\ m = Magnitude(Signed(left)) /\ n = Magnitude(Signed(right))
         /\ 0 <= m /\ 2 * m <= PairSize /\ n > 0 /\ 2 * n <= PairSize
  BY OperandFacts, MagnitudeFacts
<1>2. PICK q \in Int, r \in Int : /\ q = Quotient /\ r = Remainder
                                  /\ m = q * n + r /\ 0 <= r /\ r < n
  BY <1>1, DivisionFacts DEF Quotient, Remainder
<1>3. 0 <= q /\ q * n >= q
  <2>1. ASSUME q <= -1 PROVE FALSE
    <3>1. q * n <= (-1) * n
      BY <1>1, <2>1, Z3
    <3>2. q * n \in Int
      OBVIOUS
    <3>3. QED
      BY <1>1, <1>2, <3>1, <3>2
  <2>2. 0 <= q
    BY <2>1
  <2>3. q * n >= q * 1
    BY <1>1, <2>2, Z3
  <2>4. QED
    BY <2>2, <2>3
<1>4. q <= m /\ q * n \in Int
  BY <1>2, <1>3
<1>5. 2 * q = PairSize => 2 * m = PairSize /\ n = 1
  <2>1. SUFFICES ASSUME 2 * q = PairSize PROVE 2 * m = PairSize /\ n = 1
    OBVIOUS
  <2>2. 2 * m = PairSize /\ q = m
    BY <1>1, <1>4, <2>1
  <2>3. q > 0
    BY <2>1, WordFacts
  <2>4. ASSUME n >= 2 PROVE FALSE
    <3>1. q * n >= q * 2
      BY <2>3, <2>4, Z3
    <3>2. QED
      BY <1>2, <1>4, <2>2, <2>3, <3>1
  <2>5. QED
    BY <1>1, <2>2, <2>4
<1>6. /\ Signed(left) \in Int /\ Signed(right) \in Int /\ Signed(right) # 0
  BY OperandFacts, SignedFacts
<1>7. 2 * q <= PairSize /\ 2 * r < PairSize
  BY <1>1, <1>2, <1>4, WordFacts
<1>8. QED
  BY <1>1, <1>2, <1>3, <1>5, <1>6, <1>7

LEMMA SignedDivision ==
    ASSUME Typed, right # 0
    PROVE  /\ SignedQuotient \in Int /\ SignedRemainder \in Int
           /\ SignedQuotient * Signed(right) + SignedRemainder = Signed(left)
           /\ Magnitude(SignedRemainder) < Magnitude(Signed(right))
           /\ SignedRemainder # 0 => (SignedRemainder < 0 <=> Signed(left) < 0)
           /\ 2 * SignedRemainder < PairSize /\ -PairSize <= 2 * SignedRemainder
<1>1. PICK a \in Int, b \in Int, q \in Int, r \in Int, m \in Int, n \in Int :
         /\ a = Signed(left) /\ b = Signed(right) /\ q = Quotient /\ r = Remainder
         /\ m = Magnitude(a) /\ n = Magnitude(b) /\ m = q * n + r
         /\ 0 <= r /\ r < n /\ 2 * r < PairSize /\ b # 0
  <2>1. Magnitude(Signed(left)) \in Int /\ Magnitude(Signed(right)) \in Int
    BY OperandFacts, MagnitudeFacts
  <2>2. QED
    BY <2>1, QuotientFacts
<1>2. PICK sq \in Int, sr \in Int :
         /\ sq = SignedQuotient /\ sr = SignedRemainder
         /\ sq = IF (a < 0) # (b < 0) THEN -q ELSE q
         /\ sr = IF a < 0 THEN -r ELSE r
  BY <1>1 DEF SignedQuotient, SignedRemainder
<1>3. m = (IF a < 0 THEN -a ELSE a) /\ n = (IF b < 0 THEN -b ELSE b)
  BY <1>1 DEF Magnitude
<1>4. sq * b + sr = a
  <2>1. CASE a < 0 /\ b < 0
    <3>1. a = -m /\ b = -n /\ sq = q /\ sr = -r
      BY <1>2, <1>3, <2>1
    <3>2. q * (-n) + (-r) = -(q * n + r)
      OBVIOUS
    <3>3. QED
      BY <1>1, <3>1, <3>2, Zenon
  <2>2. CASE a < 0 /\ ~(b < 0)
    <3>1. a = -m /\ b = n /\ sq = -q /\ sr = -r
      BY <1>2, <1>3, <2>2
    <3>2. (-q) * n + (-r) = -(q * n + r)
      OBVIOUS
    <3>3. QED
      BY <1>1, <3>1, <3>2, Zenon
  <2>3. CASE ~(a < 0) /\ b < 0
    <3>1. a = m /\ b = -n /\ sq = -q /\ sr = r
      BY <1>2, <1>3, <2>3
    <3>2. (-q) * (-n) + r = q * n + r
      OBVIOUS
    <3>3. QED
      BY <1>1, <3>1, <3>2, Zenon
  <2>4. CASE ~(a < 0) /\ ~(b < 0)
    <3>1. a = m /\ b = n /\ sq = q /\ sr = r
      BY <1>2, <1>3, <2>4
    <3>2. QED
      BY <1>1, <3>1, Zenon
  <2>5. QED
    BY <2>1, <2>2, <2>3, <2>4
<1>5. Magnitude(sr) = r /\ (sr # 0 => (sr < 0 <=> a < 0)) /\ 2 * sr < PairSize /\ -PairSize <= 2 * sr
  <2>1. -PairSize < 2 * r
    BY <1>1, WordFacts
  <2>2. QED
    BY <1>1, <1>2, <2>1, WordFacts DEF Magnitude
<1>6. QED
  BY <1>1, <1>2, <1>4, <1>5

(* Division truncates towards zero, on numbers of every width, and the     *)
(* caller's registers are back: sl_divmod of the 32-bit back ends.         *)
THEOREM DivisionIsTruncating == Spec => []DivisionTruncates
<1>1. ASSUME ArithmeticInv PROVE DivisionTruncates
  <2>1. SUFFICES ASSUME pc = "done", Dividing
                 PROVE  LET a == Signed(left)
                            b == Signed(right)
                            q == Signed(Value(dividend))
                            r == Signed(Value(divisor))
                        IN  /\ (q * b + r - a) % PairSize = 0
                            /\ IF b = 0 THEN q = 0
                                        ELSE /\ Magnitude(r) < Magnitude(b)
                                             /\ r # 0 => (r < 0 <=> a < 0)
                            /\ accumulator = Host
    BY DEF DivisionTruncates, Dividing
  <2>2. Typed /\ Divided
    BY <1>1, <2>1 DEF ArithmeticInv, AtPlace
  <2>3. PICK a \in Int, b \in Int :
           /\ a = Signed(left) /\ b = Signed(right)
           /\ b = 0 <=> right = 0
    BY <2>2, OperandFacts, SignedFacts
  <2>4. CASE right = 0
    <3>1. Value(dividend) = 0 /\ Value(divisor) = left /\ accumulator = Host
      BY <2>2, <2>4 DEF Divided
    <3>2. Signed(0) = 0
      BY WordFacts, SignedFacts
    <3>3. 0 * b + a - a = 0 /\ 0 % PairSize = 0
      BY WordFacts, SmallIsItself
    <3>4. QED
      BY <2>3, <2>4, <3>1, <3>2, <3>3
  <2>5. CASE right # 0
    <3>1. PICK sq \in Int, sr \in Int :
             /\ sq = SignedQuotient /\ sr = SignedRemainder /\ sq * b + sr = a
             /\ Magnitude(sr) < Magnitude(b) /\ (sr # 0 => (sr < 0 <=> a < 0))
             /\ 2 * sr < PairSize /\ -PairSize <= 2 * sr
             /\ Value(dividend) = sq % PairSize /\ Value(divisor) = sr % PairSize
      <4>1. /\ SignedQuotient \in Int /\ SignedRemainder \in Int
            /\ SignedQuotient * Signed(right) + SignedRemainder = Signed(left)
            /\ Magnitude(SignedRemainder) < Magnitude(Signed(right))
            /\ SignedRemainder # 0 => (SignedRemainder < 0 <=> Signed(left) < 0)
            /\ 2 * SignedRemainder < PairSize /\ -PairSize <= 2 * SignedRemainder
        BY <2>2, <2>5, SignedDivision
      <4>2. /\ Value(dividend) = SignedQuotient % PairSize
            /\ Value(divisor) = SignedRemainder % PairSize
        BY <2>2, <2>5 DEF Divided
      <4>3. QED
        BY <2>3, <4>1, <4>2, Zenon
    <3>2. Signed(Value(divisor)) = sr
      BY <3>1, SignedOfResidue
    <3>3. PICK q \in Int, k \in Int : q = Signed(Value(dividend)) /\ q = sq + k * PairSize
      <4>1. sq % PairSize \in Int /\ 0 <= sq % PairSize /\ sq % PairSize < PairSize
        BY WordFacts, DivisionFacts
      <4>2. PICK v \in Int, i \in Int : v = sq % PairSize /\ v = sq + i * PairSize
        BY <4>1, WordFacts, ResidueOf
      <4>3. PICK q \in Int, j \in Int : q = Signed(v) /\ q = v + j * PairSize
        BY <4>1, <4>2, SignedFacts
      <4>4. q = sq + (i + j) * PairSize
        <5>1. PICK s \in Int : s = PairSize
          BY WordFacts
        <5>2. (sq + i * s) + j * s = sq + (i + j) * s
          BY SMT
        <5>3. QED
          BY <4>2, <4>3, <5>1, <5>2
      <4>5. QED
        BY <3>1, <4>2, <4>3, <4>4
    <3>4. (q * b + sr - a) % PairSize = 0
      <4>1. PICK s \in Int : s = PairSize /\ s > 0
        BY WordFacts
      <4>2. PICK x \in Int, c \in Int : x = q * b + sr - a /\ c = k * b
        OBVIOUS
      <4>3. (sq + k * s) * b + sr - (sq * b + sr) = 0 + (k * b) * s
        BY SMT
      <4>4. x = 0 + c * s
        BY <3>1, <3>3, <4>1, <4>2, <4>3, Zenon
      <4>5. x % s = 0
        <5>1. 0 \in Int /\ 0 <= 0
          OBVIOUS
        <5>2. QED
          BY <4>1, <4>4, <5>1, ResidueIs, Zenon
      <4>6. QED
        BY <4>1, <4>2, <4>5
    <3>5. accumulator = Host
      BY <2>2 DEF Divided
    <3>6. QED
      <4>1. b # 0
        BY <2>3, <2>5
      <4>2. IF b = 0 THEN q = 0
                     ELSE /\ Magnitude(sr) < Magnitude(b)
                          /\ sr # 0 => (sr < 0 <=> a < 0)
        BY <3>1, <4>1
      <4>3. QED
        BY <2>3, <3>2, <3>3, <3>4, <3>5, <4>2, Zenon
  <2>6. QED
    BY <2>4, <2>5
<1>2. QED
  BY <1>1, ArithmeticInvariant, PTL

-----------------------------------------------------------------------------
(* The 64-bit back ends: one register instead of a pair.                   *)
LEMMA WideNumberIs == \A n : Wide!Number(n) = Signed(n)
  BY DEF Wide!Number, Signed

LEMMA WideLogic ==
    ASSUME NEW l \in Int, NEW r \in Int
    PROVE  /\ Wide!emit_logic("OP_AND", l, r) = IF l # 0 /\ r # 0 THEN 1 ELSE 0
           /\ Wide!emit_logic("OP_OR", l, r) = IF l # 0 \/ r # 0 THEN 1 ELSE 0
<1>1. 0 % 2 = 0 /\ 1 % 2 = 1
  OBVIOUS
<1>2. QED
  BY <1>1 DEF Wide!emit_logic, Wide!And, Wide!Or, Wide!Set

LEMMA WideStraight ==
    ASSUME NEW o \in Straight, NEW l \in Int, 0 <= l, l < PairSize,
           NEW r \in Int, 0 <= r, r < PairSize
    PROVE  Wide!emit_straight(o, l, r) = Whole(o, Signed(l), Signed(r))
<1>1. PICK a \in Int, b \in Int :
         /\ a = Signed(l) /\ b = Signed(r)
         /\ a = 0 <=> l = 0
         /\ b = 0 <=> r = 0
         /\ a = b <=> l = r
  <2>1. Signed(l) = Signed(r) => l = r
    BY SignedFacts
  <2>2. QED
    BY <2>1, SignedFacts
<1>2. /\ (l + r) % PairSize = (a + b) % PairSize
      /\ (l - r) % PairSize = (a - b) % PairSize
      /\ (l * r) % PairSize = (a * b) % PairSize
      /\ (-l) % PairSize = (-a) % PairSize
  BY <1>1, SignsDoNotMatter
<1>3. CASE o \in Comparisons
  <2>1. o \in {"OP_GT", "OP_GE", "OP_LT", "OP_LE", "OP_EQ", "OP_NEQ"}
    BY <1>3 DEF Comparisons, HighCondition
  <2>2. Wide!emit_straight(o, l, r) = Wide!emit_compare(o, l, r)
    BY <2>1 DEF Wide!emit_straight
  <2>3. Wide!emit_compare(o, l, r) = Whole(o, a, b)
    BY <1>1, <2>1, WideNumberIs DEF Wide!emit_compare, Whole, Wide!Set, Truth
  <2>4. QED
    BY <1>1, <2>2, <2>3
<1>4. CASE o \in {"OP_AND", "OP_OR"}
  <2>1. Wide!emit_straight(o, l, r) = Wide!emit_logic(o, l, r)
    BY <1>4 DEF Wide!emit_straight
  <2>2. Wide!emit_logic(o, l, r) = Whole(o, a, b)
    BY <1>1, <1>4, WideLogic DEF Whole, Truth
  <2>3. QED
    BY <1>1, <2>1, <2>2
<1>5. CASE o \in {"OP_NOT", "OP_JMP_TRUE", "OP_JMP_FALSE", "OP_JMP_NEQ"}
  <2>1. Wide!emit_straight(o, l, r) = Whole(o, a, b)
    BY <1>1, <1>5 DEF Wide!emit_straight, Whole, Wide!Set, Truth
  <2>2. QED
    BY <1>1, <2>1
<1>6. CASE o = "OP_ADD"
  BY <1>1, <1>2, <1>6 DEF Wide!emit_straight, Whole, Wide!Register, Wide!Set, Truth
<1>7. CASE o = "OP_SUB"
  BY <1>1, <1>2, <1>7 DEF Wide!emit_straight, Whole, Wide!Register, Wide!Set, Truth
<1>8. CASE o = "OP_MUL"
  BY <1>1, <1>2, <1>8 DEF Wide!emit_straight, Whole, Wide!Register, Wide!Set, Truth
<1>9. CASE o = "OP_MINUS"
  BY <1>1, <1>2, <1>9 DEF Wide!emit_straight, Whole, Wide!Register, Wide!Set, Truth
<1>10. QED
  BY <1>3, <1>4, <1>5, <1>6, <1>7, <1>8, <1>9 DEF Straight, CondJumps

(* The quotient that idiv and sdiv round towards zero.                     *)
LEMMA WideQuotient ==
    ASSUME Typed, right # 0
    PROVE  Wide!Toward0(Signed(left), Signed(right)) = SignedQuotient
<1>1. Wide!Absolute(Signed(left)) = Magnitude(Signed(left))
      /\ Wide!Absolute(Signed(right)) = Magnitude(Signed(right))
  BY DEF Wide!Absolute, Magnitude
<1>2. Quotient \in Int /\ Signed(left) \in Int /\ Signed(right) \in Int
  BY QuotientFacts
<1>3. Wide!Toward0(Signed(left), Signed(right))
        = Quotient * (IF (Signed(left) < 0) = (Signed(right) < 0) THEN 1 ELSE -1)
  BY <1>1 DEF Wide!Toward0, Quotient
<1>4. CASE (Signed(left) < 0) # (Signed(right) < 0)
  <2>1. Wide!Toward0(Signed(left), Signed(right)) = Quotient * (-1)
    BY <1>3, <1>4
  <2>2. SignedQuotient = -Quotient
    BY <1>4 DEF SignedQuotient
  <2>3. QED
    BY <1>2, <2>1, <2>2
<1>5. CASE ~((Signed(left) < 0) # (Signed(right) < 0))
  <2>1. Wide!Toward0(Signed(left), Signed(right)) = Quotient * 1
    BY <1>3, <1>5
  <2>2. SignedQuotient = Quotient
    BY <1>5 DEF SignedQuotient
  <2>3. QED
    BY <1>2, <2>1, <2>2
<1>6. QED
  BY <1>4, <1>5

(* idiv finds no place for the quotient of the smallest number by -1.      *)
LEMMA WideFits ==
    ASSUME Typed, right # 0
    PROVE  Wide!Fits(SignedQuotient) <=> ~(2 * left = PairSize /\ Signed(right) = -1)
<1>1. PICK a \in Int, b \in Int, q \in Int, s \in Int :
         /\ a = Signed(left) /\ b = Signed(right) /\ q = Quotient /\ s = PairSize /\ s > 3
         /\ 0 <= q /\ 2 * q <= s
         /\ 2 * q = s => 2 * Magnitude(a) = s /\ Magnitude(b) = 1
         /\ b # 0 /\ 2 * a < s
  <2>1. /\ Signed(left) \in Int /\ Signed(right) \in Int /\ Signed(right) # 0
        /\ Quotient \in Int /\ 0 <= Quotient /\ 2 * Quotient <= PairSize
        /\ 2 * Quotient = PairSize =>
              2 * Magnitude(Signed(left)) = PairSize /\ Magnitude(Signed(right)) = 1
    BY QuotientFacts
  <2>2. PairSize \in Int /\ PairSize > 3
    BY WordSizeFacts
  <2>3. 2 * Signed(left) < PairSize
    BY OperandFacts, SignedFacts
  <2>4. QED
    BY <2>1, <2>2, <2>3, Zenon
<1>2. PICK t \in Int : t = SignedQuotient /\ t = IF (a < 0) # (b < 0) THEN -q ELSE q
  BY <1>1 DEF SignedQuotient
<1>3. Wide!Fits(t) <=> 2 * t < s
  BY <1>1, <1>2 DEF Wide!Fits
<1>4. a = (IF 2 * left < s THEN left ELSE left - s) /\ left \in Int /\ 0 <= left /\ left < s
  BY <1>1, OperandFacts DEF Signed
<1>5. ASSUME ~(2 * t < s) PROVE 2 * left = s /\ b = -1
  <2>1. t = q /\ 2 * q = s
    BY <1>1, <1>2, <1>5
  <2>2. 2 * Magnitude(a) = s /\ Magnitude(b) = 1
    BY <1>1, <2>1
  <2>3. a < 0
    BY <1>1, <2>2 DEF Magnitude
  <2>4. b < 0
    BY <1>1, <1>2, <2>1, <2>3
  <2>5. QED
    BY <1>1, <1>4, <2>2, <2>3, <2>4 DEF Magnitude
<1>6. ASSUME 2 * left = s, b + 1 = 0 PROVE ~(2 * t < s)
  <2>1. a = left - s /\ a < 0
    BY <1>1, <1>4, <1>6
  <2>2. Magnitude(Signed(left)) = left /\ Magnitude(Signed(right)) = 1
    <3>1. -a = left
      BY <1>4, <1>6, <2>1
    <3>2. b < 0 /\ -b = 1
      BY <1>6
    <3>3. Magnitude(a) = left /\ Magnitude(b) = 1
      BY <2>1, <3>1, <3>2, Zenon DEF Magnitude
    <3>4. QED
      BY <1>1, <3>3
  <2>3. q = left
    BY <1>1, <1>4, <2>2 DEF Quotient
  <2>4. t = q
    BY <1>1, <1>2, <1>6, <2>1
  <2>5. QED
    BY <1>4, <1>6, <2>3, <2>4
<1>7. b = -1 <=> b + 1 = 0
  OBVIOUS
<1>8. QED
  BY <1>1, <1>2, <1>3, <1>5, <1>6, <1>7

(* The remainder the 64-bit back ends compute by multiplying back.         *)
LEMMA WideRemainder ==
    ASSUME Typed, right # 0
    PROVE  /\ Wide!msub(Wide!Register(SignedQuotient), right, left) = SignedRemainder % PairSize
           /\ Signed(left) - SignedQuotient * Signed(right) = SignedRemainder
<1>1. PICK a \in Int, b \in Int, sq \in Int, sr \in Int, s \in Int, l \in Int, r \in Int :
         /\ a = Signed(left) /\ b = Signed(right) /\ sq = SignedQuotient /\ sr = SignedRemainder
         /\ s = PairSize /\ s > 0 /\ l = left /\ r = right /\ sq * b + sr = a
  <2>1. /\ SignedQuotient \in Int /\ SignedRemainder \in Int
        /\ SignedQuotient * Signed(right) + SignedRemainder = Signed(left)
    BY SignedDivision
  <2>2. Signed(left) \in Int /\ Signed(right) \in Int /\ left \in Int /\ right \in Int
    BY QuotientFacts, OperandFacts
  <2>3. QED
    BY <2>1, <2>2, WordFacts, Zenon
<1>2. PICK i \in Int, j \in Int, k \in Int :
         /\ a = l + i * s /\ b = r + j * s /\ sq % s = sq + k * s
  <2>1. \E i \in Int : a = l + i * s
    <3>1. \E i \in Int : Signed(left) = left + i * PairSize
      BY OperandFacts, SignedFacts
    <3>2. QED
      BY <1>1, <3>1, Zenon
  <2>2. \E j \in Int : b = r + j * s
    <3>1. \E j \in Int : Signed(right) = right + j * PairSize
      BY OperandFacts, SignedFacts
    <3>2. QED
      BY <1>1, <3>1, Zenon
  <2>3. \E k \in Int : sq % s = sq + k * s
    BY <1>1, ResidueOf
  <2>4. QED
    BY <2>1, <2>2, <2>3, Zenon
<1>3. PICK v \in Int, x \in Int : v = sq % s /\ x = l - v * r
  <2>1. sq % s \in Int
    BY <1>1, DivisionFacts
  <2>2. QED
    BY <2>1
<1>4. PICK c \in Int : c = sq * j - k * (b - j * s) - i
  OBVIOUS
<1>5. x = sr + c * s
  <2>1. ((sq * b + sr) - i * s) - (sq + k * s) * (b - j * s)
          = sr + (sq * j - k * (b - j * s) - i) * s
    BY SMT
  <2>2. l = (sq * b + sr) - i * s
    <3>1. PICK y \in Int : y = i * s
      BY <1>1
    <3>2. QED
      BY <1>1, <1>2, <3>1
  <2>3. r = b - j * s
    <3>1. PICK y \in Int : y = j * s
      BY <1>1
    <3>2. QED
      BY <1>1, <1>2, <3>1
  <2>4. v = sq + k * s
    BY <1>2, <1>3
  <2>5. QED
    BY <1>3, <1>4, <2>1, <2>2, <2>3, <2>4, Zenon
<1>6. x % s = sr % s
  BY <1>1, <1>5, MultiplesVanish
<1>7. Wide!msub(Wide!Register(SignedQuotient), right, left) = x % s
  BY <1>1, <1>3 DEF Wide!msub, Wide!Register
<1>8. a - sq * b = sr
  <2>1. PICK y \in Int : y = sq * b
    OBVIOUS
  <2>2. QED
    BY <1>1, <2>1
<1>9. QED
  BY <1>1, <1>6, <1>7, <1>8

(* A program means the same on every target, for registers of every width: *)
(* the pairs of the 32-bit back ends, the registers of x64 and those of    *)
(* AArch64 get the same bits, but for the divisions at which x64 traps.    *)
THEOREM EveryTargetAgrees == Spec => []BackEndsAgree
<1>1. ASSUME ArithmeticInv, pc = "done"
      PROVE  /\ Answer = Wide!AArch64(op, left, right)
             /\ LET x == Wide!X64(op, left, right)
                    unanswerable == Signed(right) = 0 \/ (2 * left = PairSize /\ Signed(right) = -1)
                IN  x = IF op \in {"OP_DIV", "OP_MOD"} /\ unanswerable THEN Wide!Trap ELSE Answer
  <2>1. Typed
    BY <1>1 DEF ArithmeticInv
  <2>2. /\ left \in Int /\ 0 <= left /\ left < PairSize
        /\ right \in Int /\ 0 <= right /\ right < PairSize
    BY <2>1, OperandFacts
  <2>3. Signed(right) = 0 <=> right = 0
    BY <2>2, SignedFacts
  <2>4. CASE op \in Straight
    <3>1. op \notin {"OP_DIV", "OP_MOD"}
      BY <2>4 DEF Straight, Comparisons, HighCondition, CondJumps
    <3>2. Answer = Wide!emit_straight(op, left, right)
      <4>1. Answer = Whole(op, Signed(left), Signed(right))
        BY <1>1, <2>4, <3>1 DEF ArithmeticInv, AtPlace, PairsActAsWhole, Answer
      <4>2. QED
        BY <2>2, <2>4, <4>1, WideStraight
    <3>3. Wide!AArch64(op, left, right) = Wide!emit_straight(op, left, right)
      BY <3>1 DEF Wide!AArch64
    <3>4. Wide!X64(op, left, right) = Wide!emit_straight(op, left, right)
      BY <3>1 DEF Wide!X64
    <3>5. QED
      BY <3>1, <3>2, <3>3, <3>4
  <2>5. CASE Dividing /\ right = 0
    <3>1. Value(dividend) = 0 /\ Value(divisor) = left
      BY <1>1, <2>5 DEF ArithmeticInv, AtPlace, Divided
    <3>2. Wide!sdiv(left, right) = 0
      BY <2>5 DEF Wide!sdiv
    <3>3. Wide!msub(0, right, left) = left
      <4>1. left - 0 * right = left
        BY <2>2
      <4>2. left % PairSize = left
        BY <2>2, WordFacts, SmallIsItself
      <4>3. QED
        BY <4>1, <4>2 DEF Wide!msub, Wide!Register
    <3>4. Answer = Wide!AArch64(op, left, right)
      <4>1. CASE op = "OP_DIV"
        BY <3>1, <3>2, <4>1 DEF Answer, Wide!AArch64
      <4>2. CASE op = "OP_MOD"
        BY <3>1, <3>2, <3>3, <4>2 DEF Answer, Wide!AArch64
      <4>3. QED
        BY <2>5, <4>1, <4>2 DEF Dividing
    <3>5. Wide!X64(op, left, right) = Wide!Trap
      <4>1. Wide!idiv(left, right) = [rax |-> Wide!Trap, rdx |-> Wide!Trap]
        BY <2>3, <2>5, WideNumberIs DEF Wide!idiv
      <4>2. QED
        BY <2>5, <4>1 DEF Wide!X64, Dividing
    <3>6. QED
      BY <2>3, <2>5, <3>4, <3>5 DEF Dividing
  <2>6. CASE Dividing /\ right # 0
    <3>1. /\ Value(dividend) = SignedQuotient % PairSize
          /\ Value(divisor) = SignedRemainder % PairSize
      BY <1>1, <2>6 DEF ArithmeticInv, AtPlace, Divided
    <3>2. /\ Wide!Number(left) = Signed(left) /\ Wide!Number(right) = Signed(right)
          /\ Wide!Toward0(Signed(left), Signed(right)) = SignedQuotient
      BY <2>1, <2>6, WideNumberIs, WideQuotient
    <3>3. Wide!sdiv(left, right) = Wide!Register(SignedQuotient)
          /\ Wide!Register(SignedQuotient) = SignedQuotient % PairSize
      BY <2>6, <3>2 DEF Wide!sdiv, Wide!Register
    <3>4. Wide!msub(Wide!sdiv(left, right), right, left) = SignedRemainder % PairSize
      BY <2>1, <2>6, <3>3, WideRemainder
    <3>5. Answer = Wide!AArch64(op, left, right)
      <4>1. CASE op = "OP_DIV"
        BY <3>1, <3>3, <4>1 DEF Answer, Wide!AArch64
      <4>2. CASE op = "OP_MOD"
        BY <3>1, <3>4, <4>2 DEF Answer, Wide!AArch64
      <4>3. QED
        BY <2>6, <4>1, <4>2 DEF Dividing
    <3>6. Wide!Fits(SignedQuotient) <=> ~(2 * left = PairSize /\ Signed(right) = -1)
      BY <2>1, <2>6, WideFits
    <3>7. CASE 2 * left = PairSize /\ Signed(right) = -1
      <4>1. Wide!idiv(left, right) = [rax |-> Wide!Trap, rdx |-> Wide!Trap]
        BY <3>2, <3>6, <3>7 DEF Wide!idiv
      <4>2. Wide!X64(op, left, right) = Wide!Trap
        BY <2>6, <4>1 DEF Wide!X64, Dividing
      <4>3. QED
        BY <2>6, <3>5, <3>7, <4>2 DEF Dividing
    <3>8. CASE ~(2 * left = PairSize /\ Signed(right) = -1)
      <4>1. Wide!idiv(left, right) = [rax |-> SignedQuotient % PairSize,
                                      rdx |-> SignedRemainder % PairSize]
        <5>1. Wide!Fits(SignedQuotient) /\ Signed(right) # 0
          BY <2>3, <2>6, <3>6, <3>8
        <5>2. Signed(left) - SignedQuotient * Signed(right) = SignedRemainder
          BY <2>1, <2>6, WideRemainder
        <5>3. QED
          BY <3>2, <5>1, <5>2, Zenon DEF Wide!idiv, Wide!Register
      <4>2. Wide!X64(op, left, right) = Answer
        <5>1. CASE op = "OP_DIV"
          BY <3>1, <4>1, <5>1 DEF Answer, Wide!X64
        <5>2. CASE op = "OP_MOD"
          BY <3>1, <4>1, <5>2 DEF Answer, Wide!X64
        <5>3. QED
          BY <2>6, <5>1, <5>2 DEF Dividing
      <4>3. QED
        BY <2>3, <2>6, <3>5, <3>8, <4>2
    <3>9. QED
      BY <3>7, <3>8
  <2>7. QED
    BY <2>1, <2>4, <2>5, <2>6 DEF Typed, Ops, Dividing
<1>2. ArithmeticInv => BackEndsAgree
  BY <1>1 DEF BackEndsAgree
<1>3. QED
  BY <1>2, ArithmeticInvariant, PTL
===============================================================================
