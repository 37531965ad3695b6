--------------------------- MODULE CallFramesProofs ---------------------------
(***************************************************************************)
(* For every program, whatever its functions declare and its calls pass,   *)
(* on each of the five back ends: the stack pointer is aligned at every    *)
(* call, main gives the C runtime its registers back, and the frames in    *)
(* memory are the activations the language promises.                       *)
(***************************************************************************)
EXTENDS CallFrames, SequenceTheorems, FiniteSetTheorems, WellFoundedInduction, TLAPS
-----------------------------------------------------------------------------
(* Numbers.                                                                *)
LEMMA RoundingUp ==
    ASSUME NEW n \in Nat
    PROVE  /\ AlignUp(n) \in Nat /\ n <= AlignUp(n) /\ AlignUp(n) % 16 = 0
<1> DEFINE q == (n + 15) \div 16
<1>1. q \in Nat /\ 16 * q <= n + 15 /\ n + 15 < 16 * q + 16
  BY SMT
<1>2. AlignUp(n) = 16 * q
  BY DEF AlignUp
<1> HIDE DEF q
<1>3. (16 * q) % 16 = 0 /\ 16 * q \in Nat /\ n <= 16 * q
  BY <1>1, SMT
<1>4. QED
  BY <1>2, <1>3

LEMMA RoundingDown ==
    ASSUME NEW n \in Int
    PROVE  /\ AlignDown(n) \in Int /\ AlignDown(n) <= n /\ n < AlignDown(n) + 16
           /\ AlignDown(n) % 16 = 0 /\ AlignDown(n) % 4 = 0 /\ AlignDown(n) % 8 = 0
<1>1. AlignDown(n) = n - (n % 16) /\ n % 16 \in 0 .. 15
  BY DEF AlignDown
<1>2. \E q \in Int : n = 16 * q + (n % 16)
  BY SMT
<1>3. PICK q \in Int : n = 16 * q + (n % 16)
  BY <1>2
<1>4. AlignDown(n) = 16 * q
  BY <1>1, <1>3
<1>5. (16 * q) % 16 = 0 /\ (16 * q) % 4 = 0 /\ (16 * q) % 8 = 0 /\ 16 * q \in Int
  BY SMT
<1>6. QED
  BY <1>1, <1>3, <1>4, <1>5

LEMMA Multiples ==
    ASSUME NEW a \in Int, a % 16 = 0, NEW n \in Nat, n % 16 = 0
    PROVE  /\ (a - n) % 16 = 0 /\ (a - n) % 4 = 0 /\ a % 4 = 0 /\ a % 8 = 0 /\ (a - 16) % 16 = 0
  BY SMT

(* An address is one of the machine's words.                               *)
LEMMA WordAt ==
    ASSUME NEW a \in Int
    PROVE  a \in Words <=> a % 4 = 0 /\ -(4 * StackWords) <= a /\ a <= 124
<1>0. StackWords \in Nat
  BY MachineAssumption
<1>1. ASSUME a \in Words PROVE a % 4 = 0 /\ -(4 * StackWords) <= a /\ a <= 124
  <2>1. PICK k \in -(StackWords) .. 31 : a = 4 * k
    BY <1>1 DEF Words
  <2>2. QED
    BY <1>0, <2>1
<1>2. ASSUME a % 4 = 0, -(4 * StackWords) <= a, a <= 124 PROVE a \in Words
  <2>1. \E k \in Int : a = 4 * k
    BY <1>2
  <2>2. PICK k \in Int : a = 4 * k
    BY <2>1
  <2>3. k \in -(StackWords) .. 31
    BY <1>0, <1>2, <2>2
  <2>4. QED
    BY <2>2, <2>3 DEF Words
<1>3. QED
  BY <1>1, <1>2

-----------------------------------------------------------------------------
(* The slots of a function's variables.                                    *)
LEMMA SlotFacts ==
    ASSUME NEW f \in Functions
    PROVE  /\ Len(Slots(f)) \in Nat /\ DOMAIN Slots(f) = 1 .. Len(Slots(f))
           /\ \A i \in 1 .. Len(Slots(f)) : Slots(f)[i].length \in Nat
           /\ Len(Parameters[f]) \in Nat /\ DOMAIN Parameters[f] = 1 .. Len(Parameters[f])
           /\ \A i \in 1 .. Len(Parameters[f]) :
                 /\ i \in 1 .. Len(Slots(f))
                 /\ Slots(f)[i].name = Parameters[f][i] /\ Slots(f)[i].length = 1
<1> DEFINE ps == Parameters[f]
           ls == Locals[f]
           S  == [i \in DOMAIN ps |-> [name |-> ps[i], length |-> 1]]
           R  == {S[i] : i \in DOMAIN S} \cup ToSet(ls)
<1>1. /\ ps \in Seq(ToSet(ps)) /\ ls \in Seq(ToSet(ls)) /\ \A local \in ToSet(ls) : local.length \in Nat
  BY CodeAssumption
<1>2. Slots(f) = S \o ls
  BY DEF Slots
<1>3. /\ Len(ps) \in Nat /\ DOMAIN ps = 1 .. Len(ps) /\ DOMAIN S = 1 .. Len(ps)
      /\ Len(ls) \in Nat /\ DOMAIN ls = 1 .. Len(ls)
      /\ \A i \in 1 .. Len(ls) : ls[i] \in ToSet(ls)
  <2> HIDE DEF ps, ls
  <2>1. Len(ps) \in Nat /\ DOMAIN ps = 1 .. Len(ps) /\ Len(ls) \in Nat /\ DOMAIN ls = 1 .. Len(ls)
    BY <1>1, LenProperties
  <2>2. QED
    BY <2>1 DEF ToSet
<1>4. \A i \in 1 .. Len(ps) : S[i].name = ps[i] /\ S[i].length = 1 /\ S[i] \in R
  BY <1>3
<1>5. S \in Seq(R) /\ Len(S) = Len(ps) /\ ls \in Seq(R)
  <2> HIDE DEF R, ps, ls
  <2>1. S \in [1 .. Len(ps) -> R]
    BY <1>3, <1>4
  <2>2. S \in Seq(R) /\ Len(S) = Len(ps)
    <3> HIDE DEF S
    <3>1. S \in Seq(R)
      BY <1>3, <2>1, SeqDef
    <3>2. QED
      BY <1>3, <3>1, LenProperties
  <2>3. ls \in Seq(R)
    BY <1>1, SeqMonotonic DEF R
  <2>4. QED
    BY <2>2, <2>3
<1> HIDE DEF ps, ls, S, R
<1>6. /\ S \o ls \in Seq(R) /\ Len(S \o ls) = Len(ps) + Len(ls)
      /\ \A i \in 1 .. Len(ps) + Len(ls) : (S \o ls)[i] = IF i <= Len(ps) THEN S[i] ELSE ls[i - Len(ps)]
  BY <1>5, ConcatProperties
<1> DEFINE all == S \o ls
<1> HIDE DEF all
<1>7. /\ all \in Seq(R) /\ Len(all) = Len(ps) + Len(ls) /\ DOMAIN all = 1 .. Len(ps) + Len(ls)
      /\ \A i \in 1 .. Len(ps) + Len(ls) : all[i] = IF i <= Len(ps) THEN S[i] ELSE ls[i - Len(ps)]
  BY <1>6, LenProperties DEF all
<1>8. \A i \in 1 .. Len(ps) : i \in 1 .. Len(ps) + Len(ls) /\ all[i] = S[i]
  BY <1>3, <1>7
<1>9. \A i \in 1 .. Len(ps) + Len(ls) : all[i].length \in Nat
  <2> TAKE i \in 1 .. Len(ps) + Len(ls)
  <2>1. CASE i <= Len(ps)
    BY <1>3, <1>4, <1>8, <2>1
  <2>2. CASE ~(i <= Len(ps))
    <3>1. i - Len(ps) \in 1 .. Len(ls)
      BY <1>3, <2>2
    <3>2. all[i] = ls[i - Len(ps)]
      BY <1>7, <2>2
    <3>3. QED
      BY <1>1, <1>3, <3>1, <3>2
  <2>3. QED
    BY <2>1, <2>2
<1>10. QED
  BY <1>2, <1>3, <1>4, <1>7, <1>8, <1>9 DEF ps, all

LEMMA OneVariable ==
    ASSUME NEW j, NEW n \in Nat
    PROVE  IsFiniteSet({j} \X (0 .. n - 1)) /\ Cardinality({j} \X (0 .. n - 1)) = n
<1> DEFINE A == {j}
           B == 0 .. n - 1
<1>1. IsFiniteSet(A) /\ Cardinality(A) = 1
  BY FS_Singleton
<1>2. IsFiniteSet(B) /\ Cardinality(B) = n
  <2>1. 0 \in Int /\ n - 1 \in Int /\ (0 > n - 1 => n = 0) /\ (n - 1) - 0 + 1 = n
    OBVIOUS
  <2> DEFINE last == n - 1
  <2> HIDE DEF last
  <2>2. IsFiniteSet(0 .. last) /\ Cardinality(0 .. last) = IF 0 > last THEN 0 ELSE last - 0 + 1
    BY <2>1, FS_Interval DEF last
  <2>3. QED
    BY <2>1, <2>2 DEF last
<1> HIDE DEF A, B
<1>3. IsFiniteSet(A \X B) /\ Cardinality(A \X B) = Cardinality(A) * Cardinality(B)
  BY <1>1, <1>2, FS_Product
<1>4. Cardinality(A \X B) = n
  BY <1>1, <1>2, <1>3
<1>5. QED
  BY <1>3, <1>4 DEF A, B

LEMMA ElementsFinite ==
    ASSUME NEW f \in Functions, NEW i \in 0 .. Len(Slots(f))
    PROVE  IsFiniteSet(ElementsUpTo(f, i)) /\ SlotsUpTo(f, i) \in Nat
<1> DEFINE E(j) == {j} \X (0 .. Slots(f)[j].length - 1)
           F    == {E(j) : j \in 1 .. i}
<1>1. \A j \in 1 .. i : IsFiniteSet(E(j))
  <2> TAKE j \in 1 .. i
  <2>1. j \in 1 .. Len(Slots(f))
    BY SlotFacts
  <2>2. Slots(f)[j].length \in Nat
    BY <2>1, SlotFacts
  <2>3. QED
    BY <2>2, OneVariable
<1> HIDE DEF E
<1>2. IsFiniteSet(F)
  <2>1. IsFiniteSet(1 .. i)
    <3>1. 1 \in Int /\ i \in Int
      OBVIOUS
    <3>2. QED
      BY <3>1, FS_Interval
  <2> DEFINE S == 1 .. i
             e == [j \in S |-> E(j)]
  <2>2. e \in Surjection(S, F)
    BY DEF Surjection
  <2> HIDE DEF S, F, e
  <2>3. QED
    BY <2>1, <2>2, FS_Surjection DEF S
<1>3. \A e \in F : IsFiniteSet(e)
  BY <1>1
<1>4. IsFiniteSet(UNION F)
  <2> HIDE DEF F
  <2>1. QED
    BY <1>2, <1>3, FS_UNION
<1>5. ElementsUpTo(f, i) = UNION F
  BY DEF ElementsUpTo, E
<1>6. QED
  BY <1>4, <1>5, FS_CardinalityType DEF SlotsUpTo

(* A variable's slots come after those of the ones before it.              *)
LEMMA NextVariable ==
    ASSUME NEW f \in Functions, NEW i \in 1 .. Len(Slots(f))
    PROVE  /\ i - 1 \in 0 .. Len(Slots(f)) /\ SlotsUpTo(f, i) \in Nat /\ SlotsUpTo(f, i - 1) \in Nat
           /\ SlotsUpTo(f, i) = SlotsUpTo(f, i - 1) + Slots(f)[i].length
<1> DEFINE p == i - 1
           A == ElementsUpTo(f, p)
           B == {i} \X (0 .. Slots(f)[i].length - 1)
<1>1. /\ Len(Slots(f)) \in Nat /\ p \in 0 .. Len(Slots(f)) /\ i \in 0 .. Len(Slots(f))
      /\ Slots(f)[i].length \in Nat
  BY SlotFacts
<1>2. IsFiniteSet(A) /\ IsFiniteSet(B) /\ Cardinality(B) = Slots(f)[i].length
  BY <1>1, ElementsFinite, OneVariable
<1>3. ElementsUpTo(f, i) = A \cup B
  <2>1. \A j : j \in 1 .. i <=> j \in 1 .. p \/ j = i
    OBVIOUS
  <2> HIDE DEF p
  <2>2. QED
    BY <2>1 DEF ElementsUpTo
<1>4. A \cap B = {}
  <2>1. \A j \in 1 .. p : j # i
    OBVIOUS
  <2> HIDE DEF p
  <2>2. QED
    BY <2>1 DEF ElementsUpTo
<1>5. SlotsUpTo(f, p) \in Nat /\ SlotsUpTo(f, i) \in Nat /\ Cardinality(A) = SlotsUpTo(f, p)
  BY <1>1, ElementsFinite DEF SlotsUpTo
<1>6. Cardinality(A \cup B) = Cardinality(A) + Cardinality(B) - Cardinality(A \cap B)
  <2> HIDE DEF A, B
  <2>1. QED
    BY <1>2, FS_Union
<1>7. Cardinality(A \cap B) = 0
  <2> HIDE DEF A, B
  <2>1. QED
    BY <1>4, FS_EmptySet
<1> HIDE DEF A, B, p
<1>8. SlotsUpTo(f, i) = SlotsUpTo(f, p) + Slots(f)[i].length
  <2>1. SlotsUpTo(f, i) = Cardinality(A \cup B)
    BY <1>3 DEF SlotsUpTo
  <2>2. QED
    BY <1>1, <1>2, <1>5, <1>6, <1>7, <2>1
<1>9. QED
  BY <1>1, <1>5, <1>8 DEF p

LEMMA SlotsGrow ==
    ASSUME NEW f \in Functions, NEW j \in 0 .. Len(Slots(f)), NEW i \in 0 .. j
    PROVE  SlotsUpTo(f, i) <= SlotsUpTo(f, j)
<1>1. i \in 0 .. Len(Slots(f)) /\ \A k : k \in 1 .. i => k \in 1 .. j
  BY SlotFacts
<1>2. ElementsUpTo(f, i) \subseteq ElementsUpTo(f, j)
  BY <1>1 DEF ElementsUpTo
<1>3. IsFiniteSet(ElementsUpTo(f, j))
  BY ElementsFinite
<1>4. QED
  BY <1>2, <1>3, FS_Subset DEF SlotsUpTo

-----------------------------------------------------------------------------
(* Where a cell lies, below the frame pointer.                             *)
Below(b, f, c) == Offsets[b][f][c[1]] + SlotSize * c[2]

LEMMA OffsetOf ==
    ASSUME NEW b \in Abis, NEW f \in Functions, NEW i \in 1 .. Len(Slots(f))
    PROVE  Offsets[b][f][Slots(f)[i].name] = -(SlotSize * (Reserved(b) + SlotsUpTo(f, i)))
<1> DEFINE v == Slots(f)[i].name
<1>1. DOMAIN Slots(f) = 1 .. Len(Slots(f))
  BY SlotFacts
<1>2. \A j \in DOMAIN Slots(f) : Slots(f)[j].name = v => j = i
  BY <1>1, CodeAssumption
<1>3. (CHOOSE j \in DOMAIN Slots(f) : Slots(f)[j].name = v) = i
  BY <1>1, <1>2
<1>4. v \in {Slots(f)[j].name : j \in DOMAIN Slots(f)}
  BY <1>1
<1>5. Offsets[b][f][v] = LET j == CHOOSE j \in DOMAIN Slots(f) : Slots(f)[j].name = v
                         IN  -(SlotSize * (Reserved(b) + SlotsUpTo(f, j)))
  BY <1>4 DEF Offsets
<1>6. QED
  BY <1>3, <1>5

(* What the numbers of the five back ends have in common.                  *)
LEMMA BackEnds ==
    ASSUME NEW b \in Abis
    PROVE  /\ b.word \in {4, 8} /\ b.saves \in BOOLEAN /\ (b.saves <=> b.word = 4)
           /\ b.registers \in Nat /\ b.reserved \in Nat /\ b.spare \in Nat
           /\ b.saves => b.reserved = 1
           /\ b.shadow \in Nat /\ b.shadow % 8 = 0 /\ b.shadow % 4 = 0
           /\ b.window \in Nat /\ b.window % 16 = 0
           /\ b.owned \in Nat /\ b.owned <= b.window
<1>1. \/ b = X64Abi \/ b = X64MasmAbi \/ b = AArch64Abi \/ b = X86Abi
  BY MachineAssumption DEF X86MasmAbi
<1>2. CASE b = X64Abi
  BY <1>2 DEF X64Abi
<1>3. CASE b = X64MasmAbi
  BY <1>3 DEF X64MasmAbi
<1>4. CASE b = AArch64Abi
  BY <1>4 DEF AArch64Abi
<1>5. CASE b = X86Abi
  BY <1>5 DEF X86Abi
<1>6. QED
  BY <1>1, <1>2, <1>3, <1>4, <1>5

Slots8(b, f) == SlotSize * (Reserved(b) + SlotsUpTo(f, Len(Slots(f))))

LEMMA FrameSizeOf ==
    ASSUME NEW b \in Abis, NEW f \in Functions
    PROVE  /\ FrameSizes[b][f] \in Nat /\ FrameSizes[b][f] % 16 = 0
           /\ Slots8(b, f) \in Nat /\ Slots8(b, f) <= FrameSizes[b][f]
<1> DEFINE n == SlotsUpTo(f, Len(Slots(f)))
           z == SlotSize * (Reserved(b) + n + b.spare)
<1>1. n \in Nat
  <2>1. Len(Slots(f)) \in 0 .. Len(Slots(f))
    BY SlotFacts
  <2>2. QED
    BY <2>1, ElementsFinite
<1> HIDE DEF n
<1>2. z \in Nat /\ SlotSize * (Reserved(b) + n) \in Nat /\ SlotSize * (Reserved(b) + n) <= z
  BY <1>1, BackEnds DEF SlotSize, Reserved
<1>3. FrameSizes[b][f] = AlignUp(z)
  BY DEF FrameSizes, FrameBytes, n
<1> HIDE DEF z
<1>4. AlignUp(z) \in Nat /\ z <= AlignUp(z) /\ AlignUp(z) % 16 = 0
  BY <1>2, RoundingUp
<1>5. Slots8(b, f) = SlotSize * (Reserved(b) + n)
  BY DEF Slots8, n
<1> DEFINE x == SlotSize * (Reserved(b) + n)
<1> HIDE DEF x
<1>6. x \in Nat /\ x <= z /\ Slots8(b, f) = x
  BY <1>2, <1>5 DEF x
<1>7. QED
  BY <1>2, <1>3, <1>4, <1>6

(* A cell lies in the frame, below what is reserved, and not on another.   *)
LEMMA CellPlace ==
    ASSUME NEW b \in Abis, NEW f \in Functions, NEW c \in CellsOf(f)
    PROVE  \E i \in 1 .. Len(Slots(f)), k \in Nat :
              /\ k < Slots(f)[i].length /\ c = <<Slots(f)[i].name, k>>
              /\ Below(b, f, c) = 8 * (k - b.reserved - SlotsUpTo(f, i))
<1>1. DOMAIN Slots(f) = 1 .. Len(Slots(f)) /\ \A i \in 1 .. Len(Slots(f)) : Slots(f)[i].length \in Nat
  BY SlotFacts
<1>2. PICK i \in 1 .. Len(Slots(f)) : \E k \in 0 .. Slots(f)[i].length - 1 : c = <<Slots(f)[i].name, k>>
  BY <1>1 DEF CellsOf, Cells
<1>3. PICK k \in 0 .. Slots(f)[i].length - 1 : c = <<Slots(f)[i].name, k>>
  BY <1>2
<1>4. k \in Nat /\ k < Slots(f)[i].length
  BY <1>1
<1>5. Offsets[b][f][c[1]] = -(8 * (b.reserved + SlotsUpTo(f, i)))
  BY <1>3, OffsetOf DEF SlotSize, Reserved
<1>6. SlotsUpTo(f, i) \in Nat /\ b.reserved \in Nat
  BY NextVariable, BackEnds
<1> DEFINE o == Offsets[b][f][c[1]]
           u == SlotsUpTo(f, i)
           r == b.reserved
<1> HIDE DEF o, u, r
<1>7. Below(b, f, c) = o + 8 * k
  BY <1>3 DEF Below, SlotSize, o
<1>8. o = -(8 * (r + u)) /\ u \in Nat /\ r \in Nat /\ k \in Nat
  BY <1>5, <1>6 DEF o, u, r
<1>9. Below(b, f, c) = 8 * (k - r - u)
  BY ONLY <1>7, <1>8
<1>10. QED
  BY <1>3, <1>4, <1>9 DEF u, r

LEMMA CellBounds ==
    ASSUME NEW b \in Abis, NEW f \in Functions, NEW c \in CellsOf(f)
    PROVE  /\ Below(b, f, c) \in Int /\ Below(b, f, c) % 8 = 0 /\ Below(b, f, c) % 4 = 0
           /\ -(Slots8(b, f)) <= Below(b, f, c)
           /\ Below(b, f, c) + 8 <= -(8 * b.reserved)
<1>1. PICK i \in 1 .. Len(Slots(f)), k \in Nat :
          /\ k < Slots(f)[i].length
          /\ Below(b, f, c) = 8 * (k - b.reserved - SlotsUpTo(f, i))
  BY CellPlace
<1> DEFINE n == Len(Slots(f))
           u == SlotsUpTo(f, i)
           t == SlotsUpTo(f, n)
           l == Slots(f)[i].length
           v == SlotsUpTo(f, i - 1)
           d == Below(b, f, c)
<1>2. u \in Nat /\ v \in Nat /\ u = v + l /\ l \in Nat /\ b.reserved \in Nat
  BY NextVariable, SlotFacts, BackEnds
<1>3. u <= t /\ t \in Nat
  <2>1. n \in 0 .. n /\ i \in 0 .. n
    BY SlotFacts
  <2>2. QED
    BY <2>1, SlotsGrow, ElementsFinite
<1>4. Slots8(b, f) = 8 * (b.reserved + t)
  BY DEF Slots8, SlotSize, Reserved
<1> DEFINE r == b.reserved
           w == k - r - u
<1> HIDE DEF u, t, v, l, r
<1>5. w \in Int /\ d = 8 * w
  BY <1>1, <1>2 DEF u, r
<1>6. -(r + t) <= w /\ w + 1 <= -r
  <2>1. k < l
    BY <1>1 DEF l
  <2>2. r \in Nat
    BY <1>2 DEF r
  <2>3. QED
    BY <1>2, <1>3, <2>1, <2>2
<1> HIDE DEF w, d
<1>7. d \in Int /\ d % 8 = 0 /\ d % 4 = 0
  BY <1>5
<1>8. -(8 * (r + t)) <= d /\ d + 8 <= -(8 * r)
  <2>1. r \in Nat
    BY <1>2 DEF r
  <2>2. QED
    BY <1>3, <1>5, <1>6, <2>1
<1>9. QED
  BY <1>4, <1>7, <1>8 DEF d, r, t

LEMMA CellsApart ==
    ASSUME NEW b \in Abis, NEW f \in Functions, NEW c \in CellsOf(f), NEW e \in CellsOf(f), c # e
    PROVE  Below(b, f, c) + 8 <= Below(b, f, e) \/ Below(b, f, e) + 8 <= Below(b, f, c)
<1>1. PICK i \in 1 .. Len(Slots(f)), k \in Nat :
          /\ k < Slots(f)[i].length /\ c = <<Slots(f)[i].name, k>>
          /\ Below(b, f, c) = 8 * (k - b.reserved - SlotsUpTo(f, i))
  BY CellPlace
<1>2. PICK j \in 1 .. Len(Slots(f)), m \in Nat :
          /\ m < Slots(f)[j].length /\ e = <<Slots(f)[j].name, m>>
          /\ Below(b, f, e) = 8 * (m - b.reserved - SlotsUpTo(f, j))
  BY CellPlace
<1> DEFINE n == Len(Slots(f))
           u == SlotsUpTo(f, i)
           v == SlotsUpTo(f, j)
           r == b.reserved
           x == k - r - u
           y == m - r - v
<1>3. n \in Nat /\ u \in Nat /\ v \in Nat /\ r \in Nat
  BY NextVariable, SlotFacts, BackEnds
<1>4. x \in Int /\ y \in Int /\ k \in Nat /\ m \in Nat
  BY <1>3
<1>5. x + 1 <= y \/ y + 1 <= x
  <2>1. CASE i = j
    <3>1. k # m
      BY <1>1, <1>2, <2>1
    <3>2. QED
      BY <1>3, <2>1, <3>1
  <2>2. CASE i < j
    <3>1. /\ v = SlotsUpTo(f, j - 1) + Slots(f)[j].length /\ SlotsUpTo(f, j - 1) \in Nat
          /\ Slots(f)[j].length \in Nat
      BY NextVariable, SlotFacts
    <3>2. u <= SlotsUpTo(f, j - 1)
      <4>1. j - 1 \in 0 .. n /\ i \in 0 .. j - 1
        BY <1>3, <2>2
      <4>2. QED
        BY <4>1, SlotsGrow
    <3> DEFINE length == Slots(f)[j].length
               slots  == SlotsUpTo(f, j - 1)
    <3>3. m < length /\ length \in Nat /\ slots \in Nat /\ v = slots + length /\ u <= slots
      BY <1>2, <3>1, <3>2
    <3> HIDE DEF length, slots, u, v, r
    <3>4. y + 1 <= x
      BY ONLY <1>3, <1>4, <3>3
    <3>5. QED
      BY <3>4
  <2>3. CASE j < i
    <3>1. /\ u = SlotsUpTo(f, i - 1) + Slots(f)[i].length /\ SlotsUpTo(f, i - 1) \in Nat
          /\ Slots(f)[i].length \in Nat
      BY NextVariable, SlotFacts
    <3>2. v <= SlotsUpTo(f, i - 1)
      <4>1. i - 1 \in 0 .. n /\ j \in 0 .. i - 1
        BY <1>3, <2>3
      <4>2. QED
        BY <4>1, SlotsGrow
    <3> DEFINE length == Slots(f)[i].length
               slots  == SlotsUpTo(f, i - 1)
    <3>3. k < length /\ length \in Nat /\ slots \in Nat /\ u = slots + length /\ v <= slots
      BY <1>1, <3>1, <3>2
    <3> HIDE DEF length, slots, u, v, r
    <3>4. x + 1 <= y
      BY ONLY <1>3, <1>4, <3>3
    <3>5. QED
      BY <3>4
  <2>4. QED
    BY <2>1, <2>2, <2>3
<1>6. Below(b, f, c) = 8 * x /\ Below(b, f, e) = 8 * y
  BY <1>1, <1>2
<1> HIDE DEF x, y
<1>7. 8 * x + 8 <= 8 * y \/ 8 * y + 8 <= 8 * x
  BY <1>4, <1>5
<1>8. QED
  BY <1>6, <1>7

-----------------------------------------------------------------------------
(* Memory.                                                                 *)
LEMMA PutKeeps ==
    ASSUME NEW m, NEW a, NEW v
    PROVE  /\ DOMAIN Put(m, a, v) = DOMAIN m
           /\ \A x \in DOMAIN m : x # a /\ x # a + 4 => Put(m, a, v)[x] = m[x]
BY DEF Put

LEMMA PutGets ==
    ASSUME NEW m, NEW a \in Int, a \in DOMAIN m, a + 4 \in DOMAIN m, NEW v
    PROVE  /\ Put(m, a, v)[a] = <<v, 0>> /\ Put(m, a, v)[a + 4] = <<v, 1>>
           /\ Fetch(Put(m, a, v), a) = v
<1>1. a # a + 4
  OBVIOUS
<1>2. Put(m, a, v)[a] = <<v, 0>> /\ Put(m, a, v)[a + 4] = <<v, 1>>
  BY <1>1 DEF Put
<1>3. QED
  BY <1>2 DEF Fetch

LEMMA FetchSame ==
    ASSUME NEW m, NEW n, NEW a, m[a] = n[a], m[a + 4] = n[a + 4]
    PROVE  Fetch(m, a) = Fetch(n, a)
BY DEF Fetch

LEMMA FetchPair ==
    ASSUME NEW m, NEW a, NEW v, m[a] = <<v, 0>>, m[a + 4] = <<v, 1>>
    PROVE  Fetch(m, a) = v
BY DEF Fetch

(* The memories in between.                                                *)
Step(m, move) == Put(m, move.to, Load(m, move.from))

Trace(m, moves, n, g) ==
    g = [i \in 0 .. n |-> IF i = 0 THEN m ELSE Step(g[i - 1], moves[i])]

LEMMA TraceStarts ==
    ASSUME NEW m, NEW moves PROVE \E g : Trace(m, moves, 0, g)
<1> DEFINE g == [i \in 0 .. 0 |-> m]
<1>1. \A i \in 0 .. 0 : i = 0
  OBVIOUS
<1>2. g = [i \in 0 .. 0 |-> IF i = 0 THEN m ELSE Step(g[i - 1], moves[i])]
  BY <1>1
<1> HIDE DEF g
<1>3. QED
  BY <1>2 DEF Trace

LEMMA TraceGoesOn ==
    ASSUME NEW m, NEW moves, NEW n \in Nat, NEW g, Trace(m, moves, n, g)
    PROVE  \E h : Trace(m, moves, n + 1, h)
<1> DEFINE next == Step(g[n], moves[n + 1])
           h    == [i \in 0 .. n + 1 |-> IF i <= n THEN g[i] ELSE next]
           F(i) == IF i = 0 THEN m ELSE Step(h[i - 1], moves[i])
<1>1. \A i \in 0 .. n : g[i] = IF i = 0 THEN m ELSE Step(g[i - 1], moves[i])
  BY DEF Trace
<1> HIDE DEF next
<1>2. h[0] = m /\ h[n + 1] = next
  <2>1. g[0] = m
    BY <1>1
  <2>2. 0 \in 0 .. n + 1 /\ n + 1 \in 0 .. n + 1 /\ 0 <= n /\ ~(n + 1 <= n)
    OBVIOUS
  <2>3. QED
    BY <2>1, <2>2
<1>3. \A i \in 0 .. n : h[i] = g[i]
  OBVIOUS
<1> HIDE DEF h
<1>4. \A i \in 0 .. n + 1 : h[i] = F(i)
  <2> TAKE i \in 0 .. n + 1
  <2>1. CASE i = 0
    BY <1>2, <2>1
  <2>2. CASE i \in 1 .. n
    <3>1. i \in 0 .. n /\ i - 1 \in 0 .. n /\ i # 0
      BY <2>2
    <3>2. h[i] = g[i] /\ h[i - 1] = g[i - 1]
      BY <1>3, <3>1
    <3>3. g[i] = Step(g[i - 1], moves[i])
      BY <1>1, <3>1
    <3>4. QED
      BY <3>1, <3>2, <3>3
  <2>3. CASE i = n + 1
    <3>1. n + 1 - 1 = n /\ n + 1 # 0 /\ n \in 0 .. n
      OBVIOUS
    <3>2. h[n + 1 - 1] = g[n]
      BY <1>3, <3>1
    <3>3. h[n + 1] = Step(h[n + 1 - 1], moves[n + 1])
      BY <1>2, <3>2 DEF next
    <3>4. QED
      BY <2>3, <3>1, <3>3
  <2>4. QED
    BY <2>1, <2>2, <2>3
<1>5. h = [i \in 0 .. n + 1 |-> F(i)]
  <2>1. h = [i \in 0 .. n + 1 |-> h[i]]
    BY DEF h
  <2> HIDE DEF F
  <2>2. QED
    BY <1>4, <2>1
<1>6. Trace(m, moves, n + 1, h)
  BY <1>5 DEF Trace
<1>7. QED
  BY <1>6

LEMMA LeastNatural ==
    ASSUME NEW S \in SUBSET Nat, S # {}
    PROVE  \E m \in S : \A k \in S : m <= k
<1> DEFINE R == OpToRel(<, Nat)
<1>1. IsWellFoundedOn(R, Nat)
  BY NatLessThanWellFounded
<1> HIDE DEF R
<1>2. PICK m \in S : \A k \in S : ~(<<k, m>> \in R)
  BY <1>1, WFMin
<1>3. ASSUME NEW k \in S PROVE m <= k
  <2>1. m \in Nat /\ k \in Nat
    OBVIOUS
  <2>2. ~(k < m)
    BY <1>2, <2>1 DEF R, OpToRel
  <2>3. QED
    BY <2>1, <2>2
<1>4. QED
  BY <1>3

(* A set of numbers that has zero and with each number the next has all.   *)
LEMMA AllNaturals ==
    ASSUME NEW P \in SUBSET Nat, 0 \in P, \A n \in P : n + 1 \in P
    PROVE  P = Nat
<1> SUFFICES ASSUME Nat \ P # {} PROVE FALSE
  OBVIOUS
<1>1. PICK m \in Nat \ P : \A k \in Nat \ P : m <= k
  <2> DEFINE S == Nat \ P
  <2>1. S \in SUBSET Nat /\ S # {}
    OBVIOUS
  <2> HIDE DEF S
  <2>2. \E m \in S : \A k \in S : m <= k
    BY <2>1, LeastNatural
  <2>3. QED
    BY <2>2 DEF S
<1>2. m # 0 /\ m - 1 \in Nat /\ ~(m <= m - 1) /\ m - 1 + 1 = m
  BY <1>1
<1>3. m - 1 \in P
  BY <1>1, <1>2
<1>4. m \in P
  BY <1>2, <1>3
<1>5. QED
  BY <1>1, <1>4

LEMMA TraceExists ==
    ASSUME NEW m, NEW moves, NEW n \in Nat PROVE \E g : Trace(m, moves, n, g)
<1> DEFINE P == {k \in Nat : \E g : Trace(m, moves, k, g)}
<1>1. 0 \in P
  BY TraceStarts
<1>2. \A k \in P : k + 1 \in P
  BY TraceGoesOn
<1> HIDE DEF P
<1>3. P = Nat
  <2>1. P \in SUBSET Nat
    BY DEF P
  <2>2. QED
    BY <1>1, <1>2, <2>1, AllNaturals
<1>4. QED
  BY <1>3 DEF P

LEMMA MovedTrace ==
    ASSUME NEW m, NEW moves, Len(moves) \in Nat
    PROVE  \E g : Trace(m, moves, Len(moves), g) /\ Moved(m, moves) = g[Len(moves)]
<1> DEFINE g == CHOOSE h : Trace(m, moves, Len(moves), h)
<1>1. Trace(m, moves, Len(moves), g)
  BY TraceExists, Zenon
<1>2. Moved(m, moves) = g[Len(moves)]
  BY DEF Moved, Trace, Step
<1> HIDE DEF g
<1>3. QED
  BY <1>1, <1>2

LEMMA TraceFacts ==
    ASSUME NEW m, NEW moves, NEW n \in Nat, NEW g, Trace(m, moves, n, g)
    PROVE  /\ g[0] = m
           /\ \A i \in 1 .. n : i - 1 \in 0 .. n /\ g[i] = Step(g[i - 1], moves[i])
<1>1. \A i \in 0 .. n : g[i] = IF i = 0 THEN m ELSE Step(g[i - 1], moves[i])
  BY DEF Trace
<1>2. g[0] = m
  BY <1>1
<1>3. ASSUME NEW i \in 1 .. n PROVE i - 1 \in 0 .. n /\ g[i] = Step(g[i - 1], moves[i])
  <2>1. i \in 0 .. n /\ i # 0 /\ i - 1 \in 0 .. n
    OBVIOUS
  <2>2. QED
    BY <1>1, <2>1
<1>4. QED
  BY <1>2, <1>3

(* Moves change the words they store into and no other.                    *)
LEMMA TraceKeeps ==
    ASSUME NEW m, NEW moves, NEW n \in Nat, NEW g, Trace(m, moves, n, g)
    PROVE  /\ DOMAIN g[n] = DOMAIN m
           /\ \A x \in DOMAIN m :
                 (\A i \in 1 .. n : x # moves[i].to /\ x # moves[i].to + 4) => g[n][x] = m[x]
<1>2. n \in Nat
  OBVIOUS
<1>3. g[0] = m
  BY TraceFacts, Zenon
<1>9. \A i \in 1 .. n : i - 1 \in 0 .. n /\ g[i] = Step(g[i - 1], moves[i])
  BY TraceFacts, SMT
<1> DEFINE Same(k) ==
               /\ DOMAIN g[k] = DOMAIN m
               /\ \A x \in DOMAIN m :
                     (\A i \in 1 .. n : x # moves[i].to /\ x # moves[i].to + 4) => g[k][x] = m[x]
           P == {k \in Nat : k <= n => Same(k)}
<1>4. 0 \in P
  BY <1>3
<1>5. ASSUME NEW k \in P PROVE k + 1 \in P
  <2>1. k \in Nat /\ k + 1 \in Nat
    OBVIOUS
  <2>2. ASSUME k + 1 <= n PROVE Same(k + 1)
    <3>1. Same(k)
      <4>1. k <= n
        BY <1>2, <2>1, <2>2
      <4>2. QED
        BY <4>1
    <3>2. k + 1 \in 1 .. n /\ k + 1 - 1 = k
      BY <1>2, <2>1, <2>2
    <3> DEFINE to == moves[k + 1].to
               v  == Load(g[k], moves[k + 1].from)
    <3>3. g[k + 1] = Put(g[k], to, v)
      BY <1>9, <3>2 DEF Step
    <3>4. DOMAIN g[k + 1] = DOMAIN g[k]
          /\ \A x \in DOMAIN g[k] : x # to /\ x # to + 4 => g[k + 1][x] = g[k][x]
      <4> HIDE DEF to, v
      <4>1. QED
        BY <3>3, PutKeeps
    <3>5. ASSUME NEW x \in DOMAIN m, \A i \in 1 .. n : x # moves[i].to /\ x # moves[i].to + 4
          PROVE  g[k + 1][x] = m[x]
      <4>1. g[k][x] = m[x] /\ x \in DOMAIN g[k]
        BY <3>1, <3>5
      <4>2. x # to /\ x # to + 4
        BY <3>2, <3>5
      <4> HIDE DEF to, v
      <4>3. QED
        BY <3>4, <4>1, <4>2
    <3>6. QED
      BY <3>1, <3>4, <3>5
  <2>3. QED
    BY <2>1, <2>2
<1> HIDE DEF Same
<1>6. P = Nat
  <2>1. P \in SUBSET Nat
    OBVIOUS
  <2> HIDE DEF P
  <2>2. QED
    BY <1>4, <1>5, <2>1, AllNaturals
<1>7. Same(n)
  <2>1. n \in P
    BY <1>2, <1>6
  <2>2. QED
    BY <1>2, <2>1
<1>8. QED
  BY <1>7 DEF Same

LEMMA MovedKeeps ==
    ASSUME NEW m, NEW moves, Len(moves) \in Nat
    PROVE  /\ DOMAIN Moved(m, moves) = DOMAIN m
           /\ \A x \in DOMAIN m :
                 (\A i \in 1 .. Len(moves) : x # moves[i].to /\ x # moves[i].to + 4)
                     => Moved(m, moves)[x] = m[x]
<1>1. PICK g : Trace(m, moves, Len(moves), g) /\ Moved(m, moves) = g[Len(moves)]
  BY MovedTrace
<1>2. /\ DOMAIN g[Len(moves)] = DOMAIN m
      /\ \A x \in DOMAIN m :
            (\A i \in 1 .. Len(moves) : x # moves[i].to /\ x # moves[i].to + 4)
                => g[Len(moves)][x] = m[x]
  <2>0. Len(moves) \in Nat /\ Trace(m, moves, Len(moves), g)
    BY <1>1
  <2>1. DOMAIN g[Len(moves)] = DOMAIN m
    BY ONLY <2>0, TraceKeeps
  <2>2. \A x \in DOMAIN m :
            (\A i \in 1 .. Len(moves) : x # moves[i].to /\ x # moves[i].to + 4)
                => g[Len(moves)][x] = m[x]
    BY <2>0, TraceKeeps
  <2>3. QED
    BY <2>1, <2>2
<1>3. QED
  BY <1>1, <1>2

-----------------------------------------------------------------------------
(* The chain of frames.  The operators below take the back end, the memory *)
(* and the frames they speak of as parameters, so that the state before a  *)
(* step and the state after it are two of their arguments.                 *)
FrameRecords == [function : Functions, base : Int, site : Sites \cup {<<>>}]

SavedIn(b, m, a) ==
    IF b.word = 8 THEN Fetch(m, a) ELSE IF m[a][2] = 2 THEN m[a][1] ELSE Garbage

SaveIn(b, m, a, v) == IF b.word = 8 THEN Put(m, a, v) ELSE [m EXCEPT ![a] = <<v, 2>>]

\* The stack pointer while a function runs, and the size of a call's area.
RunsAt(b, f, base) ==
    IF b.saves THEN AlignDown(base - b.word - FrameSizes[b][f]) ELSE base - FrameSizes[b][f]

OnStack(b, n)  == IF n <= b.registers THEN 0 ELSE n - b.registers
Area(b, site)  == AlignUp(b.shadow + SlotSize * OnStack(b, Len(site.arguments)))
Top(b, frame)  == RunsAt(b, frame.function, frame.base) - Area(b, frame.site)

\* The lowest word the prologue saves a register in.
Floor(b, base) == base - (IF b.saves THEN b.word ELSE 0)

Placed(b, base) ==
    /\ base \in Int /\ base % 4 = 0 /\ (~b.saves => base % 16 = 0)
    /\ base + 2 * b.word <= 12 /\ -(4 * StackWords) <= base - b.word

\* The call a frame is in is one of its function.
CallsFrom(frame) == frame.site \in Sites /\ frame.site.caller = frame.function

Chain(b, fs) ==
    /\ fs \in Seq(FrameRecords)
    /\ \A k \in 1 .. Len(fs) : Placed(b, fs[k].base)
    /\ \A k \in 1 .. Len(fs) : k # Len(fs) =>
           CallsFrom(fs[k]) /\ fs[k + 1].base + 2 * b.word = Top(b, fs[k])
    /\ \A j, k \in 1 .. Len(fs) : j < k => fs[k].base + 2 * b.word <= Floor(b, fs[j].base)

Linked(b, m, fs) ==
    \A k \in 1 .. Len(fs) :
        /\ SavedIn(b, m, fs[k].base) = IF k = 1 THEN fs[1].base + 2 * b.word + 64 ELSE fs[k - 1].base
        /\ SavedIn(b, m, fs[k].base + b.word) = k - 1
        /\ b.saves /\ k = 1 => SavedIn(b, m, fs[1].base - b.word) = 0

\* The pointers, for each thing the machine may be about.
Poised(b, md, s, p, kp, fs) ==
    /\ md \in {"calling", "running", "library", "returned", "host"}
    /\ ~b.saves => kp = 0
    /\ fs = <<>> => /\ md \in {"calling", "host"} /\ p = s + 64 /\ kp = 0
                    /\ s \in Int /\ s % 4 = 0 /\ s <= 12 /\ (~b.saves => s % 16 = 0)
    /\ fs # <<>> =>
           LET last == fs[Len(fs)]
               runs == RunsAt(b, last.function, last.base)
           IN  /\ md # "host" /\ p = last.base
               /\ md = "running" => s = runs
               /\ md = "library" => s = runs - b.window
               /\ md \in {"calling", "returned"} => CallsFrom(last) /\ s = Top(b, last)

FramesInv ==
    /\ abi \in Abis /\ DOMAIN mem = Words
    /\ Chain(abi, frames) /\ Linked(abi, mem, frames)
    /\ Poised(abi, mode, sp, fp, kept, frames)

LEMMA SavedSame ==
    ASSUME NEW b, NEW m, NEW n, NEW a, m[a] = n[a], m[a + 4] = n[a + 4] \/ b.word # 8
    PROVE  SavedIn(b, m, a) = SavedIn(b, n, a)
<1>1. CASE b.word = 8
  BY <1>1, FetchSame DEF SavedIn
<1>2. CASE b.word # 8
  BY <1>2 DEF SavedIn
<1>3. QED
  BY <1>1, <1>2

LEMMA SaveKeeps ==
    ASSUME NEW b \in Abis, NEW m, DOMAIN m = Words, NEW a \in Int, NEW v
    PROVE  /\ DOMAIN SaveIn(b, m, a, v) = Words
           /\ \A x \in Words : x < a \/ a + b.word <= x => SaveIn(b, m, a, v)[x] = m[x]
<1>1. Words \subseteq Int /\ b.word \in {4, 8}
  BY BackEnds DEF Words
<1>2. CASE b.word = 8
  <2>1. SaveIn(b, m, a, v) = Put(m, a, v)
    BY <1>2 DEF SaveIn
  <2>2. \A x \in Words : x < a \/ a + b.word <= x => x # a /\ x # a + 4
    BY <1>1, <1>2
  <2>3. QED
    BY <2>1, <2>2, PutKeeps
<1>3. CASE b.word # 8
  <2>1. SaveIn(b, m, a, v) = [m EXCEPT ![a] = <<v, 2>>]
    BY <1>3 DEF SaveIn
  <2>2. \A x \in Words : x < a \/ a + b.word <= x => x # a
    BY <1>1
  <2>3. QED
    BY <2>1, <2>2
<1>4. QED
  BY <1>2, <1>3

LEMMA SaveGets ==
    ASSUME NEW b, NEW m, DOMAIN m = Words, NEW a \in Int, a \in Words, a + 4 \in Words, NEW v
    PROVE  SavedIn(b, SaveIn(b, m, a, v), a) = v
<1>1. CASE b.word = 8
  BY <1>1, PutGets DEF SavedIn, SaveIn
<1>2. CASE b.word # 8
  <2> DEFINE n == [m EXCEPT ![a] = <<v, 2>>]
  <2>1. n[a] = <<v, 2>>
    OBVIOUS
  <2>2. SaveIn(b, m, a, v) = n
    BY <1>2 DEF SaveIn
  <2>3. SavedIn(b, n, a) = IF n[a][2] = 2 THEN n[a][1] ELSE Garbage
    BY <1>2 DEF SavedIn
  <2> HIDE DEF n
  <2>4. n[a][2] = 2 /\ n[a][1] = v
    BY <2>1
  <2>5. QED
    BY <2>2, <2>3, <2>4
<1>3. QED
  BY <1>1, <1>2

(* What is saved at a placed frame lies in words of the machine.           *)
LEMMA PlacedWords ==
    ASSUME NEW b \in Abis, NEW base, Placed(b, base)
    PROVE  /\ base \in Int /\ b.word \in {4, 8} /\ base - b.word \in Int /\ base + b.word \in Int
           /\ Floor(b, base) \in Int /\ Floor(b, base) <= base /\ base - b.word <= Floor(b, base)
           /\ b.saves => b.word = 4 /\ Floor(b, base) = base - b.word
           /\ \A x \in {base - 4, base - b.word, base, base + 4, base + b.word, base + b.word + 4} :
                 x \in Words
<1>1. b.word \in {4, 8} /\ b.saves \in BOOLEAN /\ (b.saves <=> b.word = 4)
  BY BackEnds
<1>2. base \in Int /\ base % 4 = 0 /\ base + 2 * b.word <= 12 /\ -(4 * StackWords) <= base - b.word
  BY DEF Placed
<1>3. ASSUME NEW x \in {base - 4, base - b.word, base, base + 4, base + b.word, base + b.word + 4}
      PROVE  x \in Words
  <2>1. StackWords \in Nat
    BY MachineAssumption
  <2> DEFINE l == -(4 * StackWords)
  <2>2. l \in Int /\ l <= base - b.word
    BY <1>2, <2>1
  <2> HIDE DEF l
  <2>3. x \in Int /\ x % 4 = 0 /\ l <= x /\ x <= 124
    BY <1>1, <1>2, <2>2
  <2>4. QED
    BY <2>3, WordAt DEF l
<1>4. QED
  BY <1>1, <1>2, <1>3 DEF Floor

(* The frames are linked as before when no word from the innermost one's   *)
(* saved registers on has changed.                                         *)
LEMMA LinkedSame ==
    ASSUME NEW b \in Abis, NEW m, NEW n, NEW fs, Chain(b, fs), Linked(b, m, fs),
           NEW low \in Int, fs # <<>> => low <= Floor(b, fs[Len(fs)].base),
           \A x \in Words : low <= x => n[x] = m[x]
    PROVE  Linked(b, n, fs)
<1>1. fs \in Seq(FrameRecords) /\ Len(fs) \in Nat
  BY LenProperties DEF Chain
<1>2. ASSUME NEW k \in 1 .. Len(fs)
      PROVE  /\ SavedIn(b, n, fs[k].base) = SavedIn(b, m, fs[k].base)
             /\ SavedIn(b, n, fs[k].base + b.word) = SavedIn(b, m, fs[k].base + b.word)
             /\ b.saves => SavedIn(b, n, fs[k].base - b.word) = SavedIn(b, m, fs[k].base - b.word)
  <2> DEFINE base == fs[k].base
             last == fs[Len(fs)].base
  <2>1. Placed(b, base) /\ Placed(b, last) /\ Len(fs) \in 1 .. Len(fs) /\ fs # <<>>
    <3>1. Len(fs) \in 1 .. Len(fs) /\ fs # <<>>
      BY <1>1, EmptySeq
    <3>2. QED
      BY <3>1 DEF Chain
  <2>3. k < Len(fs) => last + 2 * b.word <= Floor(b, base)
    <3>1. \A j, i \in 1 .. Len(fs) : j < i => fs[i].base + 2 * b.word <= Floor(b, fs[j].base)
      BY DEF Chain
    <3>2. QED
      BY <2>1, <3>1
  <2>4. k = Len(fs) \/ k < Len(fs)
    BY <1>1
  <2>5. low <= Floor(b, last)
    BY <2>1
  <2>6. Floor(b, last) <= Floor(b, base)
    <3>1. CASE k = Len(fs)
      <4>1. Floor(b, last) \in Int
        BY <2>1, PlacedWords
      <4>2. last = base
        BY <3>1
      <4> HIDE DEF last, base
      <4>3. QED
        BY <4>1, <4>2
    <3>2. CASE k < Len(fs)
      <4> HIDE DEF last, base
      <4>1. Floor(b, last) \in Int /\ Floor(b, base) \in Int /\ Floor(b, last) <= last
            /\ last \in Int /\ b.word \in {4, 8}
        BY <2>1, PlacedWords
      <4>2. QED
        BY <2>3, <3>2, <4>1
    <3>3. QED
      BY <2>4, <3>1, <3>2
  <2> HIDE DEF last, base
  <2>7. base \in Int /\ b.word \in {4, 8} /\ Floor(b, base) \in Int /\ Floor(b, base) <= base
        /\ Floor(b, last) \in Int
        /\ (b.saves => b.word = 4 /\ Floor(b, base) = base - b.word)
        /\ {base - b.word, base, base + 4, base + b.word, base + b.word + 4} \subseteq Words
    BY <2>1, PlacedWords
  <2>8. low \in Int /\ low <= base
    BY <2>5, <2>6, <2>7
  <2>9. n[base] = m[base] /\ n[base + 4] = m[base + 4]
        /\ n[base + b.word] = m[base + b.word] /\ n[base + b.word + 4] = m[base + b.word + 4]
    <3>1. low <= base + 4 /\ low <= base + b.word /\ low <= base + b.word + 4
      BY ONLY <2>7, <2>8
    <3>2. QED
      BY <2>7, <2>8, <3>1
  <2>10. b.saves => n[base - b.word] = m[base - b.word] /\ b.word # 8
    <3>1. b.saves => low <= base - b.word
      BY <2>5, <2>6, <2>7
    <3>2. QED
      BY <2>7, <3>1
  <2>11. SavedIn(b, n, base) = SavedIn(b, m, base)
    BY <2>9, SavedSame
  <2>12. SavedIn(b, n, base + b.word) = SavedIn(b, m, base + b.word)
    BY <2>9, SavedSame
  <2>13. b.saves => SavedIn(b, n, base - b.word) = SavedIn(b, m, base - b.word)
    BY <2>10, SavedSame
  <2>14. QED
    BY <2>11, <2>12, <2>13 DEF base
<1>3. ASSUME NEW k \in 1 .. Len(fs), k = 1
      PROVE  b.saves => SavedIn(b, n, fs[1].base - b.word) = SavedIn(b, m, fs[1].base - b.word)
  BY <1>2, <1>3
<1>4. QED
  BY <1>2, <1>3 DEF Linked

-----------------------------------------------------------------------------
(* The pointers.                                                           *)
LEMMA RunsBelow ==
    ASSUME NEW b \in Abis, NEW f \in Functions, NEW base, Placed(b, base)
    PROVE  /\ RunsAt(b, f, base) \in Int /\ RunsAt(b, f, base) % 16 = 0
           /\ RunsAt(b, f, base) <= Floor(b, base)
           /\ RunsAt(b, f, base) <= base - FrameSizes[b][f]
<1> DEFINE size == FrameSizes[b][f]
<1>1. size \in Nat /\ size % 16 = 0
  BY FrameSizeOf
<1>2. base \in Int /\ b.word \in {4, 8} /\ (~b.saves => base % 16 = 0)
  BY BackEnds DEF Placed
<1>3. CASE b.saves
  <2> DEFINE low == base - b.word - size
  <2>1. RunsAt(b, f, base) = AlignDown(low) /\ Floor(b, base) = base - b.word
    BY <1>3 DEF RunsAt, Floor
  <2> HIDE DEF size
  <2>2. low \in Int /\ low <= base - b.word /\ low <= base - size
    BY <1>1, <1>2
  <2> HIDE DEF low
  <2>3. AlignDown(low) \in Int /\ AlignDown(low) <= low /\ AlignDown(low) % 16 = 0
    BY <2>2, RoundingDown
  <2>4. AlignDown(low) <= base - b.word /\ AlignDown(low) <= base - size
    BY <1>1, <1>2, <2>2, <2>3
  <2>5. QED
    BY <2>1, <2>3, <2>4 DEF size
<1>4. CASE ~b.saves
  <2>1. RunsAt(b, f, base) = base - size /\ Floor(b, base) = base
    BY <1>2, <1>4 DEF RunsAt, Floor
  <2> HIDE DEF size
  <2>2. (base - size) % 16 = 0 /\ base - size \in Int /\ base - size <= base
    BY <1>1, <1>2, <1>4, Multiples
  <2>3. QED
    BY <2>1, <2>2 DEF size
<1>5. QED
  BY <1>3, <1>4

LEMMA AreaOf ==
    ASSUME NEW b \in Abis, NEW site \in Sites
    PROVE  Area(b, site) \in Nat /\ Area(b, site) % 16 = 0
<1>1. Len(site.arguments) \in Nat
  BY CodeAssumption, LenProperties
<1>2. OnStack(b, Len(site.arguments)) \in Nat
  BY <1>1, BackEnds DEF OnStack
<1>3. b.shadow + SlotSize * OnStack(b, Len(site.arguments)) \in Nat
  BY <1>2, BackEnds DEF SlotSize
<1>4. QED
  BY <1>3, RoundingUp DEF Area

LEMMA TopBelow ==
    ASSUME NEW b \in Abis, NEW frame \in FrameRecords, Placed(b, frame.base), frame.site \in Sites
    PROVE  /\ Top(b, frame) \in Int /\ Top(b, frame) % 16 = 0 /\ Top(b, frame) % 4 = 0
           /\ Top(b, frame) <= RunsAt(b, frame.function, frame.base)
           /\ Top(b, frame) <= Floor(b, frame.base)
<1> DEFINE r == RunsAt(b, frame.function, frame.base)
           a == Area(b, frame.site)
           l == Floor(b, frame.base)
<1>1. r \in Int /\ r % 16 = 0 /\ r <= l
  BY RunsBelow DEF FrameRecords
<1>2. a \in Nat /\ a % 16 = 0
  BY AreaOf
<1>3. l \in Int
  BY PlacedWords
<1>4. Top(b, frame) = r - a
  BY DEF Top
<1> HIDE DEF r, a, l
<1>5. (r - a) % 16 = 0 /\ (r - a) % 4 = 0 /\ r - a \in Int /\ r - a <= r
  BY <1>1, <1>2, Multiples
<1>6. r - a <= l
  BY <1>1, <1>2, <1>3
<1>7. QED
  BY <1>4, <1>5, <1>6 DEF r, l

(* A cell lies between the stack pointer and the saved registers.          *)
LEMMA CellInFrame ==
    ASSUME NEW b \in Abis, NEW f \in Functions, NEW base, Placed(b, base), NEW c \in CellsOf(f)
    PROVE  LET a == base + Below(b, f, c)
           IN  a \in Int /\ a % 4 = 0 /\ a + 8 <= Floor(b, base) /\ RunsAt(b, f, base) <= a
<1> DEFINE d == Below(b, f, c)
           n == FrameSizes[b][f]
           s == Slots8(b, f)
           r == RunsAt(b, f, base)
<1>1. d \in Int /\ d % 4 = 0 /\ -s <= d /\ d + 8 <= -(8 * b.reserved)
  BY CellBounds
<1>2. n \in Nat /\ s \in Nat /\ s <= n
  BY FrameSizeOf
<1>3. r \in Int /\ r <= base - n
  BY RunsBelow
<1>4. base \in Int /\ base % 4 = 0
  BY DEF Placed
<1>5. b.word \in {4, 8} /\ b.reserved \in Nat /\ (b.saves => b.word = 4 /\ b.reserved = 1)
  BY BackEnds
<1> HIDE DEF d, n, s, r
<1>6. base + d \in Int /\ (base + d) % 4 = 0
  BY <1>1, <1>4
<1>7. base + d + 8 <= Floor(b, base)
  <2>1. CASE b.saves
    BY <1>1, <1>4, <1>5, <2>1 DEF Floor
  <2>2. CASE ~b.saves
    BY <1>1, <1>4, <1>5, <2>2 DEF Floor
  <2>3. QED
    BY <2>1, <2>2
<1>8. r <= base + d
  BY <1>1, <1>2, <1>3, <1>4
<1>9. QED
  BY <1>6, <1>7, <1>8 DEF d, r

-----------------------------------------------------------------------------
(* The chain.                                                              *)
LEMMA InnermostFrame ==
    ASSUME NEW b, NEW fs, Chain(b, fs), fs # <<>>
    PROVE  /\ Len(fs) \in Nat /\ Len(fs) \in 1 .. Len(fs) /\ Last(fs) = fs[Len(fs)]
           /\ Last(fs) \in FrameRecords /\ Placed(b, Last(fs).base) /\ DOMAIN fs = 1 .. Len(fs)
<1>1. fs \in Seq(FrameRecords) /\ Last(fs) = fs[Len(fs)]
  BY DEF Chain, Last
<1>2. Len(fs) \in Nat /\ DOMAIN fs = 1 .. Len(fs)
  BY <1>1, LenProperties
<1>3. Len(fs) \in 1 .. Len(fs)
  <2>1. Len(fs) # 0
    BY <1>1, EmptySeq
  <2>2. QED
    BY <1>2, <2>1
<1>4. fs[Len(fs)] \in FrameRecords
  BY <1>1, <1>3, ElementOfSeq
<1>5. QED
  BY <1>1, <1>2, <1>3, <1>4 DEF Chain

(* The site the innermost frame calls from does not matter to the chain.   *)
LEMMA ChainMarked ==
    ASSUME NEW b, NEW fs, Chain(b, fs), fs # <<>>, NEW s \in Sites \cup {<<>>}
    PROVE  LET gs == [fs EXCEPT ![Len(fs)].site = s]
           IN  /\ Chain(b, gs) /\ gs # <<>> /\ Len(gs) = Len(fs)
               /\ gs[Len(fs)].site = s /\ gs[Len(fs)].base = fs[Len(fs)].base
               /\ gs[Len(fs)].function = fs[Len(fs)].function
               /\ \A k \in 1 .. Len(fs) : gs[k].base = fs[k].base
<1> DEFINE n  == Len(fs)
           gs == [fs EXCEPT ![n].site = s]
           new == [fs[n] EXCEPT !.site = s]
<1>1. n \in Nat /\ n \in 1 .. n /\ fs[n] \in FrameRecords /\ DOMAIN fs = 1 .. n
  BY InnermostFrame DEF Last
<1>2. new \in FrameRecords /\ new.site = s /\ new.base = fs[n].base /\ new.function = fs[n].function
  <2> HIDE DEF n
  <2>1. QED
    BY <1>1 DEF FrameRecords
<1>3. gs = [fs EXCEPT ![n] = new]
  BY <1>1
<1>4. fs \in Seq(FrameRecords)
  BY DEF Chain
<1> HIDE DEF new
<1>5. gs \in Seq(FrameRecords) /\ Len(gs) = n
  BY <1>1, <1>2, <1>3, <1>4, ExceptSeq
<1>6. gs[n] = new /\ \A k \in 1 .. n : k # n => gs[k] = fs[k]
  BY <1>1, <1>3, <1>4, ExceptSeq
<1>7. \A k \in 1 .. n : gs[k].base = fs[k].base
  BY <1>2, <1>6
<1> HIDE DEF gs, n
<1>8. gs # <<>>
  BY <1>1, <1>5, EmptySeq
<1>9. Chain(b, gs)
  <2>1. \A k \in 1 .. n : Placed(b, gs[k].base)
    BY <1>7 DEF Chain, n
  <2>2. ASSUME NEW k \in 1 .. n, k # n
        PROVE  CallsFrom(gs[k]) /\ gs[k + 1].base + 2 * b.word = Top(b, gs[k])
    <3>1. CallsFrom(fs[k]) /\ fs[k + 1].base + 2 * b.word = Top(b, fs[k])
      BY <2>2 DEF Chain, n
    <3>2. k + 1 \in 1 .. n
      BY <1>1, <2>2
    <3>3. gs[k] = fs[k] /\ gs[k + 1].base = fs[k + 1].base
      BY <1>6, <1>7, <2>2, <3>2
    <3>4. QED
      BY <3>1, <3>3
  <2>3. ASSUME NEW j \in 1 .. n, NEW k \in 1 .. n, j < k
        PROVE  gs[k].base + 2 * b.word <= Floor(b, gs[j].base)
    <3>1. fs[k].base + 2 * b.word <= Floor(b, fs[j].base)
      BY <2>3 DEF Chain, n
    <3>2. QED
      BY <1>7, <3>1
  <2>4. QED
    BY <1>5, <2>1, <2>2, <2>3 DEF Chain
<1>10. QED
  BY <1>2, <1>5, <1>6, <1>7, <1>8, <1>9 DEF gs, n

LEMMA LinkedMarked ==
    ASSUME NEW b, NEW m, NEW fs, NEW gs, Linked(b, m, fs), Len(gs) = Len(fs), Len(fs) \in Nat,
           \A k \in 1 .. Len(fs) : gs[k].base = fs[k].base
    PROVE  Linked(b, m, gs)
<1> SUFFICES ASSUME NEW k \in 1 .. Len(fs)
             PROVE  /\ SavedIn(b, m, gs[k].base) =
                           IF k = 1 THEN gs[1].base + 2 * b.word + 64 ELSE gs[k - 1].base
                    /\ SavedIn(b, m, gs[k].base + b.word) = k - 1
                    /\ b.saves /\ k = 1 => SavedIn(b, m, gs[1].base - b.word) = 0
  BY DEF Linked
<1>1. /\ SavedIn(b, m, fs[k].base) = IF k = 1 THEN fs[1].base + 2 * b.word + 64 ELSE fs[k - 1].base
      /\ SavedIn(b, m, fs[k].base + b.word) = k - 1
      /\ b.saves /\ k = 1 => SavedIn(b, m, fs[1].base - b.word) = 0
  BY DEF Linked
<1>2. gs[k].base = fs[k].base /\ 1 \in 1 .. Len(fs) /\ (k # 1 => k - 1 \in 1 .. Len(fs))
  OBVIOUS
<1>3. gs[1].base = fs[1].base /\ (k # 1 => gs[k - 1].base = fs[k - 1].base)
  BY <1>2
<1>4. QED
  BY <1>1, <1>2, <1>3

(* A call appends a frame whose base lies right below the caller's area.   *)
LEMMA ChainGrown ==
    ASSUME NEW b \in Abis, NEW fs, Chain(b, fs), NEW f \in Functions, NEW base, Placed(b, base),
           fs # <<>> => CallsFrom(fs[Len(fs)]) /\ base + 2 * b.word = Top(b, fs[Len(fs)])
    PROVE  LET new == [function |-> f, base |-> base, site |-> <<>>]
               gs  == Append(fs, new)
           IN  /\ Chain(b, gs) /\ Len(fs) \in Nat /\ Len(gs) = Len(fs) + 1 /\ gs # <<>>
               /\ gs[Len(fs) + 1] = new /\ \A k \in 1 .. Len(fs) : gs[k] = fs[k]
<1> DEFINE n   == Len(fs)
           new == [function |-> f, base |-> base, site |-> <<>>]
           gs  == Append(fs, new)
<1>1. fs \in Seq(FrameRecords) /\ new \in FrameRecords
  BY DEF Chain, Placed, FrameRecords
<1>2. new.base = base
  OBVIOUS
<1> HIDE DEF new
<1>3. n \in Nat
  BY <1>1, LenProperties
<1>4. gs \in Seq(FrameRecords) /\ Len(gs) = n + 1
  BY <1>1, AppendProperties
<1>5. gs[n + 1] = new /\ \A k \in 1 .. n : gs[k] = fs[k]
  BY <1>1, AppendProperties
<1> HIDE DEF gs
<1>6. gs # <<>>
  BY <1>3, <1>4, EmptySeq
<1>7. \A k \in 1 .. n + 1 : k \in 1 .. n \/ k = n + 1
  BY <1>3
<1>8. \A k \in 1 .. n + 1 : Placed(b, gs[k].base)
  BY <1>2, <1>5, <1>7 DEF Chain
<1>9. n # 0 => /\ fs # <<>> /\ n \in 1 .. n /\ fs[n] \in FrameRecords /\ Placed(b, fs[n].base)
               /\ CallsFrom(fs[n]) /\ base + 2 * b.word = Top(b, fs[n])
  <2>1. SUFFICES ASSUME n # 0 PROVE fs # <<>>
    BY InnermostFrame
  <2>2. QED
    BY <2>1, EmptySeq
<1>10. ASSUME NEW k \in 1 .. n + 1, k # n + 1
       PROVE  CallsFrom(gs[k]) /\ gs[k + 1].base + 2 * b.word = Top(b, gs[k])
  <2>1. k \in 1 .. n /\ n # 0 /\ gs[k] = fs[k]
    BY <1>3, <1>5, <1>7, <1>10
  <2>2. CASE k = n
    BY <1>2, <1>5, <1>9, <2>1, <2>2
  <2>3. CASE k # n
    <3>1. k + 1 \in 1 .. n
      BY <1>3, <2>1, <2>3
    <3>2. CallsFrom(fs[k]) /\ fs[k + 1].base + 2 * b.word = Top(b, fs[k])
      BY <2>1, <2>3 DEF Chain
    <3>3. gs[k + 1] = fs[k + 1]
      BY <1>5, <3>1
    <3>4. QED
      BY <2>1, <3>2, <3>3
  <2>4. QED
    BY <2>2, <2>3
<1>11. n # 0 => base + 2 * b.word <= Floor(b, fs[n].base)
  <2>1. SUFFICES ASSUME n # 0 PROVE Top(b, fs[n]) <= Floor(b, fs[n].base)
    BY <1>9
  <2>2. QED
    BY <1>9, <2>1, TopBelow DEF CallsFrom
<1>12. ASSUME NEW j \in 1 .. n + 1, NEW k \in 1 .. n + 1, j < k
       PROVE  gs[k].base + 2 * b.word <= Floor(b, gs[j].base)
  <2>1. j \in 1 .. n /\ n # 0 /\ gs[j] = fs[j]
    BY <1>3, <1>5, <1>7, <1>12
  <2>2. CASE k = n + 1
    <3>1. gs[k].base = base
      BY <1>2, <1>5, <2>2
    <3>2. CASE j = n
      BY <1>11, <2>1, <3>1, <3>2
    <3>3. CASE j # n
      <4>1. j < n
        BY <1>3, <2>1, <3>3
      <4>2. fs[n].base + 2 * b.word <= Floor(b, fs[j].base)
        BY <1>9, <2>1, <4>1 DEF Chain
      <4>3. Placed(b, fs[j].base)
        BY <2>1 DEF Chain
      <4> DEFINE lj == Floor(b, fs[j].base)
                 ln == Floor(b, fs[n].base)
                 bn == fs[n].base
      <4>4. bn \in Int /\ b.word \in {4, 8} /\ ln \in Int /\ ln <= bn
        BY <1>9, <2>1, PlacedWords
      <4>5. lj \in Int
        BY <4>3, PlacedWords
      <4>6. base \in Int /\ base + 2 * b.word <= ln /\ bn + 2 * b.word <= lj
        BY <1>11, <2>1, <4>2 DEF Placed
      <4> HIDE DEF lj, ln, bn
      <4>7. base + 2 * b.word <= lj
        BY <4>4, <4>5, <4>6
      <4>8. QED
        BY <2>1, <3>1, <4>7 DEF lj
    <3>4. QED
      BY <3>2, <3>3
  <2>3. CASE k \in 1 .. n
    <3>1. fs[k].base + 2 * b.word <= Floor(b, fs[j].base)
      BY <1>12, <2>1, <2>3 DEF Chain
    <3>2. gs[k] = fs[k]
      BY <1>5, <2>3
    <3>3. QED
      BY <2>1, <3>1, <3>2
  <2>4. QED
    BY <1>7, <2>2, <2>3
<1>13. Chain(b, gs)
  BY <1>4, <1>8, <1>10, <1>12 DEF Chain
<1>14. QED
  BY <1>3, <1>4, <1>5, <1>6, <1>13 DEF gs, new

(* A return leaves the frames outside the innermost one.                   *)
LEMMA ChainCut ==
    ASSUME NEW b \in Abis, NEW m, NEW fs, Chain(b, fs), Linked(b, m, fs), NEW n \in Nat, n # 0,
           Len(fs) = n + 1
    PROVE  LET gs == SubSeq(fs, 1, n)
           IN  /\ Chain(b, gs) /\ Linked(b, m, gs) /\ gs # <<>> /\ Len(gs) = n
               /\ gs[n] = fs[n] /\ CallsFrom(gs[n])
               /\ fs[n + 1].base + 2 * b.word = Top(b, gs[n])
<1> DEFINE gs == SubSeq(fs, 1, n)
<1>1. fs \in Seq(FrameRecords)
  BY DEF Chain
<1>2. gs \in Seq(FrameRecords) /\ Len(gs) = n /\ \A k \in 1 .. n : gs[k] = fs[k]
  <2>1. \A k \in 1 .. n : fs[k] \in FrameRecords /\ k \in 1 .. Len(fs)
    <3>1. \A k \in 1 .. n : k \in 1 .. Len(fs)
      OBVIOUS
    <3>2. QED
      BY <1>1, <3>1, ElementOfSeq
  <2>2. gs = [k \in 1 .. n |-> fs[k]]
    <3>1. gs = [k \in 1 .. 1 + n - 1 |-> fs[k + 1 - 1]]
      OBVIOUS
    <3>2. QED
      BY <3>1
  <2>3. QED
    BY <2>1, <2>2, SeqDef
<1> HIDE DEF gs
<1>3. gs # <<>>
  BY <1>2, EmptySeq
<1>4. n \in 1 .. n /\ n \in 1 .. Len(fs) /\ n # Len(fs) /\ \A k \in 1 .. n : k \in 1 .. Len(fs)
  OBVIOUS
<1>5. CallsFrom(fs[n]) /\ fs[n + 1].base + 2 * b.word = Top(b, fs[n])
  <2>1. \A k \in 1 .. Len(fs) : k # Len(fs) =>
           CallsFrom(fs[k]) /\ fs[k + 1].base + 2 * b.word = Top(b, fs[k])
    BY DEF Chain
  <2>2. QED
    BY <1>4, <2>1
<1>6. Chain(b, gs)
  <2>1. \A k \in 1 .. n : Placed(b, gs[k].base)
    BY <1>2, <1>4 DEF Chain
  <2>2. ASSUME NEW k \in 1 .. n, k # n
        PROVE  CallsFrom(gs[k]) /\ gs[k + 1].base + 2 * b.word = Top(b, gs[k])
    <3>1. k + 1 \in 1 .. n /\ k \in 1 .. Len(fs) /\ k # Len(fs)
      BY <2>2
    <3>2. CallsFrom(fs[k]) /\ fs[k + 1].base + 2 * b.word = Top(b, fs[k])
      BY <3>1 DEF Chain
    <3>3. gs[k] = fs[k] /\ gs[k + 1] = fs[k + 1]
      BY <1>2, <3>1
    <3>4. QED
      BY <3>2, <3>3
  <2>3. ASSUME NEW j \in 1 .. n, NEW k \in 1 .. n, j < k
        PROVE  gs[k].base + 2 * b.word <= Floor(b, gs[j].base)
    <3>1. fs[k].base + 2 * b.word <= Floor(b, fs[j].base)
      BY <1>4, <2>3 DEF Chain
    <3>2. QED
      BY <1>2, <3>1
  <2>4. QED
    BY <1>2, <2>1, <2>2, <2>3 DEF Chain
<1>7. Linked(b, m, gs)
  <2> SUFFICES ASSUME NEW k \in 1 .. n
               PROVE  /\ SavedIn(b, m, gs[k].base) =
                             IF k = 1 THEN gs[1].base + 2 * b.word + 64 ELSE gs[k - 1].base
                      /\ SavedIn(b, m, gs[k].base + b.word) = k - 1
                      /\ b.saves /\ k = 1 => SavedIn(b, m, gs[1].base - b.word) = 0
    BY <1>2 DEF Linked
  <2>1. /\ SavedIn(b, m, fs[k].base) = IF k = 1 THEN fs[1].base + 2 * b.word + 64 ELSE fs[k - 1].base
        /\ SavedIn(b, m, fs[k].base + b.word) = k - 1
        /\ b.saves /\ k = 1 => SavedIn(b, m, fs[1].base - b.word) = 0
    BY <1>4 DEF Linked
  <2>2. gs[k] = fs[k] /\ 1 \in 1 .. n /\ (k # 1 => k - 1 \in 1 .. n)
    BY <1>2
  <2>3. gs[1] = fs[1] /\ (k # 1 => gs[k - 1] = fs[k - 1])
    BY <1>2, <2>2
  <2>4. QED
    BY <2>1, <2>2, <2>3
<1>8. QED
  BY <1>2, <1>3, <1>4, <1>5, <1>6, <1>7 DEF gs

\* What the prologue saves: the frame it is called by, the pointer p and ebx.
Saves(b, m, base, caller, p, kp) ==
    LET linked == SaveIn(b, SaveIn(b, m, base + b.word, caller), base, p)
    IN  IF b.saves THEN SaveIn(b, linked, base - b.word, kp) ELSE linked

(* What the prologue saves links the new frame to the one it is called by. *)
LEMMA LinkedGrown ==
    ASSUME NEW b \in Abis, NEW m, DOMAIN m = Words, NEW fs, Chain(b, fs), Linked(b, m, fs),
           NEW base, Placed(b, base), NEW p, NEW kp,
           fs = <<>> => p = base + 2 * b.word + 64 /\ kp = 0,
           fs # <<>> => /\ p = fs[Len(fs)].base /\ base + 2 * b.word <= Floor(b, fs[Len(fs)].base),
           NEW gs, Len(gs) = Len(fs) + 1, \A k \in 1 .. Len(fs) : gs[k] = fs[k],
           gs[Len(fs) + 1].base = base
    PROVE  /\ DOMAIN Saves(b, m, base, Len(fs), p, kp) = Words
           /\ Linked(b, Saves(b, m, base, Len(fs), p, kp), gs)
<1> DEFINE n  == Len(fs)
           m1 == SaveIn(b, m, base + b.word, n)
           m2 == SaveIn(b, m1, base, p)
           m3 == IF b.saves THEN SaveIn(b, m2, base - b.word, kp) ELSE m2
<1>0. b \in Abis /\ DOMAIN m = Words
  OBVIOUS
<1>1. n \in Nat /\ (fs = <<>> <=> n = 0)
  BY LenProperties, EmptySeq DEF Chain
<1>2. /\ base \in Int /\ b.word \in {4, 8} /\ base - b.word \in Int /\ base + b.word \in Int
      /\ (b.saves => b.word = 4)
      /\ {base - 4, base - b.word, base, base + 4, base + b.word, base + b.word + 4} \subseteq Words
  BY PlacedWords
<1> HIDE DEF n
<1>3. DOMAIN m1 = Words /\ \A x \in Words : x < base + b.word \/ base + b.word + b.word <= x => m1[x] = m[x]
  BY ONLY <1>0, <1>2, SaveKeeps
<1>4. SavedIn(b, m1, base + b.word) = n
  BY <1>2, SaveGets
<1> HIDE DEF m1
<1>5. DOMAIN m2 = Words /\ \A x \in Words : x < base \/ base + b.word <= x => m2[x] = m1[x]
  BY <1>2, <1>3, SaveKeeps
<1>6. SavedIn(b, m2, base) = p
  BY <1>2, <1>3, SaveGets
<1> HIDE DEF m2
<1>7. DOMAIN m3 = Words /\ \A x \in Words : base <= x => m3[x] = m2[x]
  <2>1. CASE b.saves
    <3>1. m3 = SaveIn(b, m2, base - b.word, kp)
      BY <2>1
    <3>2. DOMAIN m3 = Words
          /\ \A x \in Words : x < base - b.word \/ base - b.word + b.word <= x => m3[x] = m2[x]
      <4> HIDE DEF m3
      <4>1. QED
        BY ONLY <1>0, <1>2, <1>5, <3>1, SaveKeeps
    <3>3. base - b.word + b.word = base
      <4>1. base \in Int /\ b.word \in {4, 8}
        BY <1>2
      <4>2. QED
        BY ONLY <4>1
    <3>4. QED
      BY <3>2, <3>3
  <2>2. CASE ~b.saves
    BY <1>5, <2>2
  <2>3. QED
    BY <2>1, <2>2
<1>8. b.saves => SavedIn(b, m3, base - b.word) = kp
  <2>1. SUFFICES ASSUME b.saves PROVE SavedIn(b, SaveIn(b, m2, base - b.word, kp), base - b.word) = kp
    OBVIOUS
  <2>2. base - b.word + 4 \in Words
    <3>1. base - b.word + 4 = base
      BY <1>2, <2>1
    <3>2. QED
      BY <1>2, <3>1
  <2>3. QED
    BY <1>2, <1>5, <2>2, SaveGets
<1> HIDE DEF m3
<1>9. SavedIn(b, m3, base) = p
  <2>1. m3[base] = m2[base] /\ m3[base + 4] = m2[base + 4]
    <3>1. base <= base /\ base <= base + 4
      BY <1>2
    <3>2. QED
      BY <1>2, <1>7, <3>1
  <2>2. QED
    BY <1>6, <2>1, SavedSame
<1>10. SavedIn(b, m3, base + b.word) = n
  <2> DEFINE a == base + b.word
  <2>1. /\ a \in Words /\ a + 4 \in Words /\ base <= a /\ base <= a + 4
        /\ base + b.word <= a /\ base + b.word <= a + 4
    <3>1. base \in Int /\ b.word \in {4, 8} /\ a \in Words /\ a + 4 \in Words
      BY <1>2
    <3>2. base <= a /\ base <= a + 4 /\ base + b.word <= a /\ base + b.word <= a + 4
      BY ONLY <3>1
    <3>3. QED
      BY <3>1, <3>2
  <2> HIDE DEF a
  <2>2. m3[a] = m1[a] /\ m3[a + 4] = m1[a + 4]
    BY <1>5, <1>7, <2>1
  <2>3. SavedIn(b, m3, a) = SavedIn(b, m1, a)
    BY <2>2, SavedSame
  <2>4. QED
    BY <1>4, <2>3 DEF a
<1>11. Linked(b, m3, fs)
  <2> DEFINE low == base + 2 * b.word
  <2>1. low \in Int /\ (fs # <<>> => low <= Floor(b, fs[Len(fs)].base))
    <3>1. base \in Int /\ b.word \in {4, 8}
      BY <1>2
    <3>2. low \in Int
      BY ONLY <3>1
    <3>3. QED
      BY <3>2
  <2>2. ASSUME NEW x \in Words, low <= x PROVE m3[x] = m[x]
    <3>1. x \in Int
      BY DEF Words
    <3>2. base <= x /\ base + b.word <= x /\ base + b.word + b.word <= x
      <4>1. base \in Int /\ b.word \in {4, 8} /\ base + 2 * b.word <= x
        BY <1>2, <2>2
      <4>2. QED
        BY ONLY <3>1, <4>1
    <3>3. QED
      BY <1>3, <1>5, <1>7, <3>2
  <2> HIDE DEF low
  <2>3. QED
    BY <2>1, <2>2, LinkedSame
<1>12. ASSUME NEW k \in 1 .. n + 1
       PROVE  /\ SavedIn(b, m3, gs[k].base) =
                     IF k = 1 THEN gs[1].base + 2 * b.word + 64 ELSE gs[k - 1].base
              /\ SavedIn(b, m3, gs[k].base + b.word) = k - 1
              /\ b.saves /\ k = 1 => SavedIn(b, m3, gs[1].base - b.word) = 0
  <2>1. CASE k \in 1 .. n
    <3>1. /\ SavedIn(b, m3, fs[k].base) =
                 IF k = 1 THEN fs[1].base + 2 * b.word + 64 ELSE fs[k - 1].base
          /\ SavedIn(b, m3, fs[k].base + b.word) = k - 1
          /\ b.saves /\ k = 1 => SavedIn(b, m3, fs[1].base - b.word) = 0
      BY <1>11, <2>1 DEF Linked, n
    <3>2. 1 \in 1 .. n /\ (k # 1 => k - 1 \in 1 .. n)
      BY <1>1, <2>1
    <3>3. gs[k] = fs[k] /\ gs[1] = fs[1] /\ (k # 1 => gs[k - 1] = fs[k - 1])
      BY <2>1, <3>2 DEF n
    <3>4. QED
      BY <3>1, <3>3
  <2>2. CASE k = n + 1
    <3>1. gs[k].base = base /\ k - 1 = n
      BY <1>1, <2>2 DEF n
    <3>2. CASE k = 1
      <4>1. n = 0 /\ fs = <<>>
        BY <1>1, <2>2, <3>2
      <4>2. p = base + 2 * b.word + 64 /\ kp = 0 /\ gs[1].base = base
        BY <3>1, <3>2, <4>1
      <4>3. QED
        BY <1>8, <1>9, <1>10, <3>1, <3>2, <4>2
    <3>3. CASE k # 1
      <4>1. n \in 1 .. n /\ fs # <<>>
        BY <1>1, <2>2, <3>3
      <4>2. p = fs[n].base /\ gs[n] = fs[n]
        BY <4>1 DEF n
      <4>3. QED
        BY <1>9, <1>10, <3>1, <3>3, <4>2
    <3>4. QED
      BY <3>2, <3>3
  <2>3. k \in 1 .. n \/ k = n + 1
    BY <1>1
  <2>4. QED
    BY <2>1, <2>2, <2>3
<1>13. Linked(b, m3, gs)
  BY <1>12 DEF Linked, n
<1>14. QED
  BY <1>7, <1>13 DEF Saves, m3, m2, m1, n

-----------------------------------------------------------------------------
(* The steps.                                                              *)
LEMMA FunctionLength ==
    ASSUME NEW k \in Nat, NEW g, g = [j \in 1 .. k |-> g[j]]
    PROVE  Len(g) = k
<1> DEFINE R == {g[j] : j \in 1 .. k}
<1>1. g \in [1 .. k -> R]
  OBVIOUS
<1> HIDE DEF R
<1>2. g \in Seq(R)
  BY <1>1, SeqDef
<1>3. DOMAIN g = 1 .. k /\ Len(g) \in Nat /\ DOMAIN g = 1 .. Len(g)
  BY <1>1, <1>2, LenProperties
<1>4. QED
  BY <1>3

LEMMA WriteBelow ==
    ASSUME NEW b \in Abis, NEW m, DOMAIN m = Words, NEW fs, Chain(b, fs), Linked(b, m, fs), fs # <<>>,
           NEW a \in Int, a + 8 <= Floor(b, fs[Len(fs)].base), NEW v
    PROVE  DOMAIN Put(m, a, v) = Words /\ Linked(b, Put(m, a, v), fs)
<1> DEFINE low == Floor(b, fs[Len(fs)].base)
<1>1. low \in Int
  BY InnermostFrame, PlacedWords
<1>2. ASSUME NEW x \in Words, low <= x PROVE Put(m, a, v)[x] = m[x]
  <2>1. x \in Int
    BY DEF Words
  <2> HIDE DEF low
  <2>2. x # a /\ x # a + 4
    <3>1. a + 8 <= low
      BY DEF low
    <3>2. QED
      BY <1>1, <1>2, <2>1, <3>1
  <2>3. QED
    BY <2>2, PutKeeps
<1>3. DOMAIN Put(m, a, v) = Words
  BY PutKeeps
<1>4. low <= low
  BY <1>1
<1> HIDE DEF low
<1>5. fs # <<>> => low <= Floor(b, fs[Len(fs)].base)
  BY <1>4 DEF low
<1>6. Linked(b, Put(m, a, v), fs)
  BY <1>1, <1>2, <1>5, LinkedSame
<1>7. QED
  BY <1>3, <1>6

LEMMA MovesBelow ==
    ASSUME NEW b \in Abis, NEW m, DOMAIN m = Words, NEW fs, Chain(b, fs), Linked(b, m, fs), fs # <<>>,
           NEW moves, Len(moves) \in Nat,
           \A i \in 1 .. Len(moves) :
              moves[i].to \in Int /\ moves[i].to + 8 <= Floor(b, fs[Len(fs)].base)
    PROVE  DOMAIN Moved(m, moves) = Words /\ Linked(b, Moved(m, moves), fs)
<1> DEFINE low == Floor(b, fs[Len(fs)].base)
           n   == Moved(m, moves)
<1>1. low \in Int /\ low <= low
  <2>1. low \in Int
    BY InnermostFrame, PlacedWords
  <2>2. QED
    BY <2>1
<1> HIDE DEF low
<1>2. ASSUME NEW x \in Words, low <= x PROVE n[x] = m[x]
  <2>1. x \in Int
    BY DEF Words
  <2>2. \A i \in 1 .. Len(moves) : x # moves[i].to /\ x # moves[i].to + 4
    <3>1. \A i \in 1 .. Len(moves) : moves[i].to \in Int /\ moves[i].to + 8 <= low
      BY DEF low
    <3>2. QED
      BY <1>1, <1>2, <2>1, <3>1
  <2>3. QED
    BY <2>2, MovedKeeps
<1>3. DOMAIN n = Words
  BY MovedKeeps
<1> HIDE DEF n
<1>4. fs # <<>> => low <= Floor(b, fs[Len(fs)].base)
  BY <1>1 DEF low
<1>5. Linked(b, n, fs)
  BY <1>1, <1>2, <1>4, LinkedSame
<1>6. QED
  BY <1>3, <1>5 DEF n

(* The state of the machine while a function of the program is executed.   *)
LEMMA Executing ==
    ASSUME FramesInv, frames # <<>>
    PROVE  /\ Len(frames) \in Nat /\ Len(frames) \in 1 .. Len(frames) /\ DOMAIN frames = 1 .. Len(frames)
           /\ Current = frames[Len(frames)].function /\ Current \in Functions
           /\ fp = frames[Len(frames)].base /\ Placed(abi, fp)
           /\ Last(frames) = frames[Len(frames)] /\ frames[Len(frames)] \in FrameRecords
<1>1. /\ Len(frames) \in Nat /\ Len(frames) \in 1 .. Len(frames) /\ Last(frames) = frames[Len(frames)]
      /\ Last(frames) \in FrameRecords /\ Placed(abi, Last(frames).base) /\ DOMAIN frames = 1 .. Len(frames)
  BY InnermostFrame DEF FramesInv
<1>2. fp = frames[Len(frames)].base
  BY DEF FramesInv, Poised
<1>3. QED
  BY <1>1, <1>2 DEF Current, FrameRecords

LEMMA PlaceOfCell ==
    ASSUME NEW b \in Abis, NEW base \in Int, NEW f \in Functions, NEW c \in CellsOf(f)
    PROVE  base + Offsets[b][f][c[1]] + SlotSize * c[2] = base + Below(b, f, c)
<1>1. PICK i \in 1 .. Len(Slots(f)), k \in Nat : c = <<Slots(f)[i].name, k>>
  BY CellPlace
<1>2. Offsets[b][f][c[1]] = -(SlotSize * (Reserved(b) + SlotsUpTo(f, i)))
  BY <1>1, OffsetOf
<1>3. SlotsUpTo(f, i) \in Nat /\ Reserved(b) \in Nat
  BY NextVariable, BackEnds DEF Reserved
<1>4. Offsets[b][f][c[1]] \in Int /\ base \in Int /\ SlotSize * c[2] \in Int
  BY <1>1, <1>2, <1>3 DEF SlotSize
<1> DEFINE o == Offsets[b][f][c[1]]
           e == SlotSize * c[2]
<1> HIDE DEF o, e
<1>5. base + o + e = base + (o + e)
  BY <1>4 DEF o, e
<1>6. QED
  BY <1>5 DEF Below, o, e

LEMMA CellAtIs ==
    ASSUME NEW base, Placed(abi, base), abi \in Abis, NEW f \in Functions, NEW c \in CellsOf(f)
    PROVE  CellAt(f, base, c) = base + Below(abi, f, c)
<1>1. base \in Int
  BY DEF Placed
<1>2. QED
  BY <1>1, PlaceOfCell DEF CellAt

LEMMA CellWritten ==
    ASSUME FramesInv, frames # <<>>, NEW c \in CellsOf(Current), NEW v
    PROVE  LET n == Put(mem, CellAt(Current, fp, c), v)
           IN  DOMAIN n = Words /\ Linked(abi, n, frames)
<1>2. Current \in Functions /\ Placed(abi, fp) /\ fp = frames[Len(frames)].base /\ abi \in Abis
  BY Executing DEF FramesInv
<1>3. fp + Below(abi, Current, c) \in Int /\ fp + Below(abi, Current, c) + 8 <= Floor(abi, fp)
  BY <1>2, CellInFrame
<1>4. CellAt(Current, fp, c) = fp + Below(abi, Current, c)
  BY <1>2, CellAtIs
<1>5. QED
  BY <1>2, <1>3, <1>4, WriteBelow DEF FramesInv

LEMMA FramesInvStarts == Init => FramesInv
<1> SUFFICES ASSUME Init PROVE FramesInv
  OBVIOUS
<1>1. abi \in Abis /\ mode = "calling" /\ fp = sp + 64 /\ kept = 0 /\ frames = <<>>
  BY DEF Init
<1>2. sp \in Int /\ sp % 4 = 0 /\ sp <= 12 /\ (~abi.saves => sp % 16 = 0)
  <2>1. sp \in IF abi.saves THEN {0, 4, 8, 12} ELSE {0}
    BY DEF Init
  <2>2. CASE abi.saves
    <3>1. sp \in {0, 4, 8, 12}
      BY <2>1, <2>2
    <3>2. QED
      BY <2>2, <3>1
  <2>3. CASE ~abi.saves
    <3>1. sp = 0
      BY <2>1, <2>3
    <3>2. QED
      BY <3>1
  <2>4. QED
    BY <2>2, <2>3
<1>3. DOMAIN mem = Words
  BY DEF Init
<1>4. frames \in Seq(FrameRecords) /\ Len(frames) = 0
  BY <1>1, EmptySeq
<1>5. Chain(abi, frames) /\ Linked(abi, mem, frames)
  BY <1>4 DEF Chain, Linked
<1>6. Poised(abi, mode, sp, fp, kept, frames)
  BY <1>1, <1>2 DEF Poised
<1>7. QED
  BY <1>1, <1>3, <1>5, <1>6 DEF FramesInv

LEMMA PendingOf ==
    ASSUME NEW site \in Sites
    PROVE  /\ Len(Pending(site)) \in Nat /\ Len(Pending(site)) = Len(site.arguments)
           /\ \A i \in 1 .. Len(site.arguments) : ArgumentAt(Pending(site), i) = site.arguments[i]
<1> DEFINE n == Len(site.arguments)
           g == [i \in 1 .. n |-> site.arguments[n - i + 1]]
<1>1. n \in Nat
  BY CodeAssumption, LenProperties
<1>2. Pending(site) = g
  BY DEF Pending, Reverse
<1> HIDE DEF n
<1>3. Len(g) = n
  <2>1. g = [j \in 1 .. n |-> g[j]]
    OBVIOUS
  <2> HIDE DEF g
  <2>2. QED
    BY <1>1, <2>1, FunctionLength
<1>4. ASSUME NEW i \in 1 .. n PROVE ArgumentAt(g, i) = site.arguments[i]
  <2>1. n + 1 - i \in 1 .. n /\ n - (n + 1 - i) + 1 = i
    BY <1>1
  <2>2. ArgumentAt(g, i) = g[n + 1 - i]
    BY <1>3 DEF ArgumentAt
  <2>3. g[n + 1 - i] = site.arguments[n - (n + 1 - i) + 1]
    BY <2>1
  <2> HIDE DEF g
  <2>4. QED
    BY <2>1, <2>2, <2>3
<1> HIDE DEF g
<1>5. QED
  BY <1>1, <1>2, <1>3, <1>4 DEF n

(* The outgoing arguments lie in the area the call takes off the stack.    *)
LEMMA OutgoingInArea ==
    ASSUME abi \in Abis, NEW site \in Sites, NEW top \in Int, top % 4 = 0,
           NEW j \in 1 .. StackArguments(Len(site.arguments))
    PROVE  LET a == Outgoing(top, abi.registers + j)
           IN  /\ a \in Int /\ a % 4 = 0 /\ top <= a /\ a + 8 <= top + CallSize(site)
               /\ a = top + abi.shadow + 8 * (j - 1)
<1> DEFINE k == StackArguments(Len(site.arguments))
           u == abi.shadow + SlotSize * k
           h == abi.shadow
           a == Outgoing(top, abi.registers + j)
<1>1. Len(site.arguments) \in Nat
  BY CodeAssumption, LenProperties
<1>2. k \in Nat /\ h \in Nat /\ h % 4 = 0 /\ abi.registers \in Nat
  BY <1>1, BackEnds DEF StackArguments
<1>3. a = top + h + 8 * ((abi.registers + j) - abi.registers - 1)
  BY DEF Outgoing, SlotSize
<1>4. u \in Nat /\ u = h + 8 * k
  BY <1>2 DEF SlotSize
<1>5. CallSize(site) = AlignUp(u)
  BY DEF CallSize
<1>6. j \in 1 .. k
  OBVIOUS
<1> HIDE DEF k, u, h, a
<1>7. AlignUp(u) \in Nat /\ u <= AlignUp(u)
  BY <1>4, RoundingUp
<1>8. (abi.registers + j) - abi.registers - 1 = j - 1
  BY <1>2, <1>6
<1>9. a = top + h + 8 * (j - 1)
  BY <1>3, <1>8
<1>10. a \in Int /\ a % 4 = 0 /\ top <= a /\ a + 8 <= top + u
  BY <1>2, <1>4, <1>6, <1>9
<1>11. a + 8 <= top + AlignUp(u)
  BY <1>4, <1>7, <1>10
<1>12. QED
  BY <1>5, <1>9, <1>10, <1>11 DEF h, a

LEMMA CallSizeIs == ASSUME NEW site PROVE CallSize(site) = Area(abi, site)
BY DEF CallSize, Area, StackArguments, OnStack

(* The stores of a call.                                                   *)
ArgumentMoves(site) ==
    [j \in 1 .. StackArguments(Len(Pending(site))) |->
        [to   |-> Outgoing(sp - CallSize(site), abi.registers + j),
         from |-> Located(ArgumentAt(Pending(site), abi.registers + j))]]

LEMMA RunningAt ==
    ASSUME FramesInv, mode = "running"
    PROVE  /\ frames # <<>> /\ sp = RunsAt(abi, frames[Len(frames)].function, fp)
           /\ sp \in Int /\ sp % 16 = 0 /\ sp <= Floor(abi, fp) /\ Floor(abi, fp) \in Int
<1> DEFINE n == Len(frames)
<1>1. abi \in Abis /\ Poised(abi, mode, sp, fp, kept, frames)
  BY DEF FramesInv
<1>2. frames # <<>>
  BY <1>1 DEF Poised
<1>3. fp = frames[n].base /\ Placed(abi, fp) /\ frames[n] \in FrameRecords
  BY <1>2, Executing
<1>4. sp = RunsAt(abi, frames[n].function, fp)
  BY <1>1, <1>2 DEF Poised
<1>5. frames[n].function \in Functions
  BY <1>3 DEF FrameRecords
<1>6. sp \in Int /\ sp % 16 = 0 /\ sp <= Floor(abi, fp)
  BY <1>1, <1>3, <1>4, <1>5, RunsBelow
<1>7. QED
  BY <1>1, <1>2, <1>3, <1>4, <1>6, PlacedWords

LEMMA ArgumentsMoved ==
    ASSUME FramesInv, mode = "running", NEW site \in Sites
    PROVE  LET top   == sp - CallSize(site)
               moves == ArgumentMoves(site)
           IN  /\ top \in Int /\ top % 4 = 0 /\ top <= sp
               /\ StackArguments(Len(site.arguments)) \in Nat
               /\ Len(moves) = StackArguments(Len(site.arguments))
               /\ \A j \in 1 .. Len(moves) :
                      /\ moves[j].to = Outgoing(top, abi.registers + j)
                      /\ moves[j].from = Located(ArgumentAt(Pending(site), abi.registers + j))
                      /\ moves[j].to \in Int /\ moves[j].to % 4 = 0
                      /\ top <= moves[j].to /\ moves[j].to + 8 <= sp
                      /\ moves[j].to = top + abi.shadow + 8 * (j - 1)
<1> DEFINE size  == CallSize(site)
           top   == sp - size
           k     == StackArguments(Len(site.arguments))
           moves == ArgumentMoves(site)
<1>1. abi \in Abis
  BY DEF FramesInv
<1>2. sp \in Int /\ sp % 16 = 0
  BY RunningAt
<1>3. size \in Nat /\ size % 16 = 0
  BY <1>1, AreaOf, CallSizeIs
<1>4. k \in Nat
  <2>1. Len(site.arguments) \in Nat
    BY PendingOf
  <2>2. QED
    BY <1>1, <2>1, BackEnds DEF StackArguments
<1> HIDE DEF size
<1>5. top \in Int /\ top % 4 = 0 /\ top <= sp /\ top + size = sp
  BY <1>2, <1>3, Multiples
<1> HIDE DEF top
<1>6. moves = [j \in 1 .. k |-> [to   |-> Outgoing(top, abi.registers + j),
                                 from |-> Located(ArgumentAt(Pending(site), abi.registers + j))]]
  BY PendingOf DEF ArgumentMoves, top, size
<1> HIDE DEF k, moves
<1>7. /\ \A j \in 1 .. k : /\ moves[j].to = Outgoing(top, abi.registers + j)
                           /\ moves[j].from = Located(ArgumentAt(Pending(site), abi.registers + j))
      /\ moves = [j \in 1 .. k |-> moves[j]]
  BY <1>6
<1>8. Len(moves) = k
  BY <1>4, <1>7, FunctionLength
<1>9. ASSUME NEW j \in 1 .. k
      PROVE  LET a == Outgoing(top, abi.registers + j)
             IN  a \in Int /\ a % 4 = 0 /\ top <= a /\ a + 8 <= top + size
                 /\ a = top + abi.shadow + 8 * (j - 1)
  BY <1>1, <1>5, OutgoingInArea DEF k, size
<1>10. QED
  BY <1>4, <1>5, <1>7, <1>8, <1>9 DEF k, moves, top, size

LEMMA FramesInvPlacesArguments ==
    ASSUME FramesInv, NEW site \in Sites, PlacesArguments(site)
    PROVE  FramesInv'
<1> DEFINE n     == Len(frames)
           top   == sp - CallSize(site)
           moves == ArgumentMoves(site)
<1>1. /\ mode = "running" /\ abi' = abi /\ fp' = fp /\ kept' = kept /\ mode' = "calling"
      /\ sp' = top /\ frames' = [frames EXCEPT ![n].site = site]
  BY DEF PlacesArguments, Running
<1>2. mem' = Moved(mem, moves)
  BY DEF PlacesArguments, ArgumentMoves
<1>3. abi \in Abis /\ DOMAIN mem = Words /\ Chain(abi, frames) /\ Linked(abi, mem, frames)
      /\ Poised(abi, mode, sp, fp, kept, frames)
  BY DEF FramesInv
<1>4. frames # <<>> /\ sp = RunsAt(abi, frames[n].function, fp) /\ sp \in Int
      /\ sp <= Floor(abi, fp) /\ Floor(abi, fp) \in Int
  BY <1>1, RunningAt
<1>5. n \in Nat /\ n \in 1 .. n /\ fp = frames[n].base /\ Placed(abi, fp) /\ frames[n] \in FrameRecords
      /\ Current = frames[n].function
  BY <1>4, Executing
<1>6. site.caller = frames[n].function
  <2>1. site.caller = Current
    BY DEF PlacesArguments
  <2>2. QED
    BY <1>5, <2>1
<1>7. CallSize(site) = Area(abi, site)
  BY CallSizeIs
<1>8. Len(moves) \in Nat /\ \A i \in 1 .. Len(moves) : moves[i].to \in Int /\ moves[i].to + 8 <= sp
  BY <1>1, ArgumentsMoved
<1> HIDE DEF n, top, moves
<1>9. \A i \in 1 .. Len(moves) :
          moves[i].to \in Int /\ moves[i].to + 8 <= Floor(abi, frames[Len(frames)].base)
  <2> DEFINE low == Floor(abi, fp)
  <2>1. low \in Int /\ sp <= low /\ low = Floor(abi, frames[Len(frames)].base)
    BY <1>4, <1>5 DEF n
  <2> HIDE DEF low
  <2>2. \A i \in 1 .. Len(moves) : moves[i].to \in Int /\ moves[i].to + 8 <= low
    BY <1>4, <1>8, <2>1
  <2>3. QED
    BY <2>1, <2>2
<1>10. DOMAIN mem' = Words /\ Linked(abi, mem', frames)
  BY <1>2, <1>3, <1>4, <1>8, <1>9, MovesBelow
<1> DEFINE gs == [frames EXCEPT ![Len(frames)].site = site]
<1>11. /\ Chain(abi, gs) /\ gs # <<>> /\ Len(gs) = n /\ gs[n].site = site /\ gs[n].base = frames[n].base
       /\ gs[n].function = frames[n].function /\ \A k \in 1 .. n : gs[k].base = frames[k].base
  BY <1>3, <1>4, ChainMarked DEF n
<1>12. frames' = gs
  BY <1>1 DEF n
<1> HIDE DEF gs
<1>13. Linked(abi, mem', gs)
  BY <1>5, <1>10, <1>11, LinkedMarked DEF n
<1>14. Poised(abi, "calling", top, fp, kept, gs)
  <2>1. top = Top(abi, gs[n])
    BY <1>4, <1>5, <1>7, <1>11 DEF Top, top
  <2>2. ~abi.saves => kept = 0
    BY <1>3 DEF Poised
  <2>3. CallsFrom(gs[n])
    BY <1>6, <1>11 DEF CallsFrom
  <2>4. QED
    BY <1>5, <1>11, <2>1, <2>2, <2>3 DEF Poised
<1>15. QED
  BY <1>1, <1>3, <1>10, <1>11, <1>12, <1>13, <1>14 DEF FramesInv

LEMMA FramesInvAssigns ==
    ASSUME FramesInv, NEW c \in CellsOf(Current), NEW value, Assigns(c, value)
    PROVE  FramesInv'
<1>1. /\ mode = "running" /\ abi' = abi /\ fp' = fp /\ sp' = sp /\ mode' = mode /\ frames' = frames
      /\ mem' = Put(mem, CellAt(Current, fp, c), value)
      /\ kept' = IF abi.saves THEN Garbage ELSE kept
  BY DEF Assigns, Running
<1>2. abi \in Abis /\ Chain(abi, frames) /\ Poised(abi, mode, sp, fp, kept, frames)
  BY DEF FramesInv
<1>3. frames # <<>>
  BY <1>1, <1>2 DEF Poised
<1>4. DOMAIN mem' = Words /\ Linked(abi, mem', frames)
  BY <1>1, <1>3, CellWritten
<1>5. Poised(abi, mode, sp, fp, kept', frames)
  BY <1>1, <1>2, <1>3 DEF Poised
<1>6. QED
  BY <1>1, <1>2, <1>4, <1>5 DEF FramesInv

LEMMA FramesInvCallsLibrary ==
    ASSUME FramesInv, CallsLibrary PROVE FramesInv'
<1>1. /\ mode = "running" /\ abi' = abi /\ fp' = fp /\ sp' = sp - abi.window /\ mode' = "library"
      /\ frames' = frames /\ mem' = mem /\ kept' = kept
  BY DEF CallsLibrary, Running
<1>2. Poised(abi, mode, sp, fp, kept, frames)
  BY DEF FramesInv
<1>3. Poised(abi, "library", sp - abi.window, fp, kept, frames)
  BY <1>1, <1>2 DEF Poised
<1>4. QED
  BY <1>1, <1>3 DEF FramesInv

LEMMA FramesInvLibraryReturns ==
    ASSUME FramesInv, LibraryReturns PROVE FramesInv'
<1> DEFINE n    == Len(frames)
           runs == RunsAt(abi, frames[n].function, frames[n].base)
<1>1. /\ mode = "library" /\ abi' = abi /\ fp' = fp /\ sp' = sp + abi.window /\ mode' = "running"
      /\ frames' = frames /\ kept' = kept
      /\ mem' = [a \in Words |-> IF a < sp + abi.owned THEN Unwritten ELSE mem[a]]
  BY DEF LibraryReturns
<1>2. /\ abi \in Abis /\ Chain(abi, frames) /\ Linked(abi, mem, frames)
      /\ Poised(abi, mode, sp, fp, kept, frames)
  BY DEF FramesInv
<1>3. frames # <<>>
  BY <1>1, <1>2 DEF Poised
<1>4. n \in Nat /\ frames[n].function \in Functions /\ Placed(abi, frames[n].base)
  BY <1>3, Executing
<1>5. sp = runs - abi.window /\ fp = frames[n].base
  BY <1>1, <1>2, <1>3 DEF Poised
<1>6. runs \in Int /\ runs <= Floor(abi, frames[n].base) /\ Floor(abi, frames[n].base) \in Int
  BY <1>2, <1>4, RunsBelow, PlacedWords
<1>7. abi.window \in Nat /\ abi.owned \in Nat /\ abi.owned <= abi.window
  BY <1>2, BackEnds
<1>8. Linked(abi, mem', frames)
  <2> DEFINE low == Floor(abi, frames[n].base)
  <2>1. low \in Int /\ low <= low /\ sp + abi.owned <= low
    <3> HIDE DEF runs, n
    <3>1. QED
      BY <1>5, <1>6, <1>7
  <2>2. sp + abi.owned \in Int
    <3> HIDE DEF runs, n
    <3>1. QED
      BY <1>5, <1>6, <1>7
  <2>3. ASSUME NEW x \in Words, low <= x PROVE mem'[x] = mem[x]
    <3>1. x \in Int
      BY DEF Words
    <3> HIDE DEF low
    <3>2. ~(x < sp + abi.owned)
      BY <2>1, <2>2, <2>3, <3>1
    <3>3. QED
      BY <1>1, <3>2
  <2>4. low <= Floor(abi, frames[Len(frames)].base)
    BY <2>1
  <2> HIDE DEF low
  <2>5. QED
    BY <1>2, <2>1, <2>3, <2>4, LinkedSame
<1>9. DOMAIN mem' = Words
  BY <1>1
<1>10. sp + abi.window = runs
  <2> HIDE DEF runs
  <2>1. QED
    BY <1>5, <1>6, <1>7
<1>11. Poised(abi, "running", runs, fp, kept, frames)
  BY <1>2, <1>3, <1>5 DEF Poised
<1>12. QED
  BY <1>1, <1>2, <1>8, <1>9, <1>10, <1>11 DEF FramesInv

(* Where a return takes the frame pointer, the stack pointer and ebx.      *)
LEMMA FramesInvReturns ==
    ASSUME FramesInv, NEW c, Returns(c)
    PROVE  FramesInv'
<1> DEFINE n    == Len(frames)
           base == frames[n].base
           to   == SavedIn(abi, mem, fp + abi.word)
<1>1. mode = "running" /\ abi' = abi /\ mem' = mem /\ sp' = fp + 2 * abi.word
  BY DEF Returns, Running
<1>2. /\ fp' = SavedIn(abi, mem, fp)
      /\ kept' = IF abi.saves THEN SavedIn(abi, mem, fp - abi.word) ELSE kept
  BY DEF Returns, Saved, SavedIn, KeptAt
<1>3. /\ mode' = IF to = 0 THEN "host" ELSE IF to \in DOMAIN frames THEN "returned" ELSE "lost"
      /\ frames' = IF to \in DOMAIN frames THEN SubSeq(frames, 1, to) ELSE <<>>
  BY DEF Returns, Saved, SavedIn
<1>4. abi \in Abis /\ DOMAIN mem = Words /\ Chain(abi, frames) /\ Linked(abi, mem, frames)
      /\ Poised(abi, mode, sp, fp, kept, frames)
  BY DEF FramesInv
<1>5. frames # <<>>
  BY <1>1, <1>4 DEF Poised
<1>6. n \in Nat /\ n \in 1 .. n /\ DOMAIN frames = 1 .. n /\ fp = base /\ Placed(abi, fp)
  BY <1>5, Executing
<1>7. /\ SavedIn(abi, mem, base) = IF n = 1 THEN frames[1].base + 2 * abi.word + 64 ELSE frames[n - 1].base
      /\ SavedIn(abi, mem, base + abi.word) = n - 1
      /\ abi.saves /\ n = 1 => SavedIn(abi, mem, frames[1].base - abi.word) = 0
  BY <1>4, <1>6 DEF Linked
<1>8. to = n - 1
  BY <1>6, <1>7
<1>9. ~abi.saves => kept' = 0
  BY <1>2, <1>4 DEF Poised
<1> HIDE DEF n, base, to
<1>10. CASE n = 1
  <2>1. to = 0 /\ to \notin DOMAIN frames
    BY <1>6, <1>8, <1>10
  <2>2. mode' = "host" /\ frames' = <<>>
    BY <1>3, <2>1
  <2>3. fp = frames[1].base /\ fp \in Int /\ abi.word \in {4, 8}
    BY <1>4, <1>6, <1>10, BackEnds DEF Placed, base
  <2>4. fp' = fp + 2 * abi.word + 64
    BY <1>2, <1>6, <1>7, <1>10, <2>3
  <2>5. kept' = 0
    <3>1. abi.saves => kept' = SavedIn(abi, mem, frames[1].base - abi.word)
      BY <1>2, <2>3
    <3>2. abi.saves \/ ~abi.saves
      OBVIOUS
    <3>3. QED
      BY <1>7, <1>9, <1>10, <3>1
  <2>6. sp' \in Int /\ sp' % 4 = 0 /\ sp' <= 12 /\ (~abi.saves => sp' % 16 = 0)
    <3>1. fp % 4 = 0 /\ fp + 2 * abi.word <= 12 /\ (~abi.saves => fp % 16 = 0)
      BY <1>6 DEF Placed
    <3>2. ~abi.saves => abi.word = 8
      BY <1>4, BackEnds
    <3>3. QED
      BY <1>1, <2>3, <3>1, <3>2
  <2>7. Poised(abi, "host", sp', fp', kept', <<>>)
    BY <1>1, <1>9, <2>4, <2>5, <2>6 DEF Poised
  <2>8. Chain(abi, <<>>) /\ Linked(abi, mem, <<>>)
    <3>1. Len(<<>>) = 0 /\ <<>> \in Seq(FrameRecords)
      BY EmptySeq
    <3>2. QED
      BY <3>1 DEF Chain, Linked
  <2>9. QED
    BY <1>1, <1>4, <2>2, <2>7, <2>8 DEF FramesInv
<1>11. CASE n # 1
  <2> DEFINE k  == n - 1
             gs == SubSeq(frames, 1, k)
  <2>1. k \in Nat /\ k # 0 /\ n = k + 1 /\ to = k /\ to \in DOMAIN frames
    BY <1>6, <1>8, <1>11
  <2>2. mode' = "returned" /\ frames' = gs
    BY <1>3, <2>1
  <2> HIDE DEF k
  <2>3. /\ Chain(abi, gs) /\ Linked(abi, mem, gs) /\ gs # <<>> /\ Len(gs) = k
        /\ gs[k] = frames[k] /\ CallsFrom(gs[k])
        /\ frames[k + 1].base + 2 * abi.word = Top(abi, gs[k])
    BY <1>4, <2>1, ChainCut, SMTT(60) DEF n
  <2> HIDE DEF gs
  <2>4. fp' = gs[k].base
    BY <1>2, <1>6, <1>7, <1>11, <2>3 DEF k
  <2>5. sp' = Top(abi, gs[k])
    BY <1>1, <1>6, <2>1, <2>3 DEF base
  <2>6. Poised(abi, "returned", sp', fp', kept', gs)
    BY <1>9, <2>3, <2>4, <2>5 DEF Poised
  <2>7. QED
    BY <1>1, <1>4, <2>2, <2>3, <2>6 DEF FramesInv
<1>12. QED
  BY <1>10, <1>11

LEMMA FramesInvContinues ==
    ASSUME FramesInv, Continues
    PROVE  FramesInv'
<1> DEFINE n    == Len(frames)
           site == frames[n].site
           runs == RunsAt(abi, frames[n].function, frames[n].base)
           gs   == [frames EXCEPT ![Len(frames)].site = <<>>]
<1>1. abi \in Abis /\ DOMAIN mem = Words /\ Chain(abi, frames) /\ Linked(abi, mem, frames)
      /\ Poised(abi, mode, sp, fp, kept, frames)
  BY DEF FramesInv
<1>2. /\ mode = "returned" /\ abi' = abi /\ fp' = fp /\ kept' = kept /\ mode' = "running"
      /\ frames' = gs
  BY DEF Continues
<1>3. frames # <<>>
  BY <1>1, <1>2 DEF Poised
<1>4. n \in Nat /\ n \in 1 .. n /\ Last(frames) = frames[n] /\ fp = frames[n].base
      /\ Placed(abi, fp) /\ Current = frames[n].function /\ Current \in Functions
  BY <1>3, Executing
<1>5. /\ sp' = sp + CallSize(site)
      /\ mem' = IF site.target = <<>> THEN mem ELSE Put(mem, CellAt(Current, fp, site.target), rax)
  BY <1>4 DEF Continues
<1>6. site \in Sites /\ site.caller = frames[n].function /\ sp = Top(abi, frames[n])
  BY <1>1, <1>2, <1>3 DEF Poised, CallsFrom
<1>7. DOMAIN mem' = Words /\ Linked(abi, mem', frames)
  <2>1. CASE site.target = <<>>
    BY <1>1, <1>5, <2>1
  <2>2. CASE site.target # <<>>
    <3>1. mem' = Put(mem, CellAt(Current, fp, site.target), rax)
      BY <1>5, <2>2
    <3>2. site.target \in CellsOf(Current)
      BY <1>4, <1>6, <2>2, CodeAssumption
    <3> HIDE DEF site
    <3>3. QED
      BY <1>3, <3>1, <3>2, CellWritten
  <2>3. QED
    BY <2>1, <2>2
<1>8. sp' = runs
  <2> DEFINE a == Area(abi, site)
  <2>1. runs \in Int
    BY <1>1, <1>4, RunsBelow
  <2>2. a \in Nat
    BY <1>1, <1>6, AreaOf
  <2>3. sp = runs - a /\ sp' = sp + a
    BY <1>5, <1>6, CallSizeIs DEF Top
  <2> HIDE DEF runs, a
  <2>4. QED
    BY <2>1, <2>2, <2>3
<1>9. /\ Chain(abi, gs) /\ gs # <<>> /\ Len(gs) = n /\ gs[n].base = frames[n].base
      /\ gs[n].function = frames[n].function /\ \A k \in 1 .. n : gs[k].base = frames[k].base
  <2>1. <<>> \in Sites \cup {<<>>} /\ Chain(abi, frames) /\ frames # <<>>
    BY <1>1, <1>3
  <2>2. QED
    BY ONLY <2>1, ChainMarked
<1> HIDE DEF gs
<1>10. Linked(abi, mem', gs)
  BY <1>4, <1>7, <1>9, LinkedMarked
<1>11. Poised(abi, "running", runs, fp, kept, gs)
  <2>1. ~abi.saves => kept = 0
    BY <1>1 DEF Poised
  <2>2. runs = RunsAt(abi, gs[n].function, gs[n].base)
    BY <1>9
  <2> HIDE DEF runs
  <2>3. QED
    BY <1>4, <1>9, <2>1, <2>2 DEF Poised
<1>12. QED
  BY <1>1, <1>2, <1>7, <1>8, <1>9, <1>10, <1>11 DEF FramesInv

(* The stack pointer at a call, and where it puts the new frame.           *)
LEMMA CallAligned ==
    ASSUME FramesInv, mode = "calling"
    PROVE  /\ sp \in Int /\ sp % 4 = 0 /\ sp <= 12 /\ (~abi.saves => sp % 16 = 0)
           /\ frames # <<>> => sp % 16 = 0 /\ sp <= Floor(abi, frames[Len(frames)].base)
<1>1. abi \in Abis /\ Chain(abi, frames) /\ Poised(abi, mode, sp, fp, kept, frames)
  BY DEF FramesInv
<1>2. CASE frames = <<>>
  BY <1>1, <1>2 DEF Poised
<1>3. CASE frames # <<>>
  <2> DEFINE last == frames[Len(frames)]
             low  == Floor(abi, last.base)
  <2>1. last.site \in Sites /\ sp = Top(abi, last)
    BY <1>1, <1>3 DEF Poised, CallsFrom
  <2>2. last \in FrameRecords /\ Placed(abi, last.base)
    BY <1>3, Executing
  <2> HIDE DEF last
  <2>3. sp \in Int /\ sp % 16 = 0 /\ sp % 4 = 0 /\ sp <= low
    BY <1>1, <2>1, <2>2, TopBelow
  <2>4. low \in Int /\ low <= last.base /\ abi.word \in {4, 8}
    BY <1>1, <2>2, PlacedWords
  <2>5. last.base \in Int /\ last.base + 2 * abi.word <= 12
    BY <2>2 DEF Placed
  <2> HIDE DEF low
  <2>6. sp <= 12
    BY <2>3, <2>4, <2>5
  <2>7. QED
    BY <2>3, <2>6 DEF low, last
<1>4. QED
  BY <1>2, <1>3

LEMMA NewBase ==
    ASSUME FramesInv, mode = "calling", NEW f \in Functions, HasRoom(f)
    PROVE  /\ Placed(abi, sp - 2 * abi.word) /\ sp - 2 * abi.word + 2 * abi.word = sp
           /\ abi.word \in {4, 8} /\ sp - 2 * abi.word \in Int
           /\ sp - abi.word = (sp - 2 * abi.word) + abi.word
<1> DEFINE w    == abi.word
           size == FrameSizes[abi][f]
<1>1. abi \in Abis /\ w \in {4, 8} /\ abi.saves \in BOOLEAN /\ (abi.saves <=> w = 4)
  BY BackEnds DEF FramesInv
<1>2. sp \in Int /\ sp % 4 = 0 /\ sp <= 12 /\ (~abi.saves => sp % 16 = 0)
  BY CallAligned
<1>3. size \in Nat
  BY <1>1, FrameSizeOf
<1>4. sp - (3 * w + size + 16) >= -(4 * StackWords) /\ StackWords \in Nat
  BY MachineAssumption DEF HasRoom
<1> HIDE DEF w, size
<1> DEFINE base == sp - 2 * w
           l    == -(4 * StackWords)
<1>5. l \in Int /\ sp - (3 * w + size + 16) >= l
  BY <1>4
<1> HIDE DEF l
<1>6. base \in Int /\ base % 4 = 0 /\ (~abi.saves => base % 16 = 0)
  BY <1>1, <1>2
<1>7. base + 2 * w <= 12 /\ base + 2 * w = sp /\ sp - w = base + w
  BY <1>1, <1>2
<1>8. l <= base - w
  BY <1>1, <1>2, <1>3, <1>5
<1>9. Placed(abi, base)
  BY <1>6, <1>7, <1>8 DEF Placed, w, l
<1>10. QED
  BY <1>1, <1>6, <1>7, <1>9 DEF w

LEMMA CalleeKnown ==
    ASSUME FramesInv, mode = "calling" PROVE Callee \in Functions
<1>1. CASE frames = <<>>
  BY <1>1, CodeAssumption DEF Callee
<1>2. CASE frames # <<>>
  <2>1. Last(frames).site \in Sites
    BY <1>2, Executing DEF FramesInv, Poised, CallsFrom
  <2>2. Last(frames).site.callee \in Functions
    BY <2>1, CodeAssumption
  <2>3. QED
    BY <1>2, <2>2 DEF Callee
<1>3. QED
  BY <1>1, <1>2

LEMMA ParameterCell ==
    ASSUME NEW f \in Functions, NEW i \in 1 .. Len(Parameters[f])
    PROVE  <<Parameters[f][i], 0>> \in CellsOf(f)
<1>1. i \in 1 .. Len(Slots(f)) /\ Slots(f)[i].name = Parameters[f][i] /\ Slots(f)[i].length = 1
      /\ DOMAIN Slots(f) = 1 .. Len(Slots(f))
  BY SlotFacts
<1>2. 0 \in 0 .. Slots(f)[i].length - 1
  BY <1>1
<1>3. QED
  BY <1>1, <1>2 DEF CellsOf, Cells

(* The stores of emit_arguments.                                           *)
EntryMoves(f, base) ==
    [i \in DOMAIN Parameters[f] |->
        [to   |-> CellAt(f, base, <<Parameters[f][i], 0>>),
         from |-> IF i <= abi.registers THEN Known(regs[i]) ELSE At(Incoming(base, i))]]

LEMMA EntryMoved ==
    ASSUME abi \in Abis, NEW f \in Functions, NEW base, Placed(abi, base)
    PROVE  LET moves == EntryMoves(f, base)
           IN  /\ Len(moves) = Len(Parameters[f]) /\ Len(moves) \in Nat
               /\ \A i \in 1 .. Len(moves) :
                      LET c == <<Parameters[f][i], 0>>
                      IN  /\ c \in CellsOf(f) /\ moves[i].to = base + Below(abi, f, c)
                          /\ moves[i].to \in Int /\ moves[i].to + 8 <= Floor(abi, base)
                          /\ moves[i].from = IF i <= abi.registers THEN Known(regs[i])
                                             ELSE At(Incoming(base, i))
<1> DEFINE p     == Len(Parameters[f])
           moves == EntryMoves(f, base)
<1>1. p \in Nat /\ DOMAIN Parameters[f] = 1 .. p
  BY SlotFacts
<1>2. moves = [i \in 1 .. p |->
                  [to   |-> CellAt(f, base, <<Parameters[f][i], 0>>),
                   from |-> IF i <= abi.registers THEN Known(regs[i]) ELSE At(Incoming(base, i))]]
  BY <1>1 DEF EntryMoves
<1> HIDE DEF p, moves
<1>3. /\ moves = [i \in 1 .. p |-> moves[i]]
      /\ \A i \in 1 .. p :
             /\ moves[i].to = CellAt(f, base, <<Parameters[f][i], 0>>)
             /\ moves[i].from = IF i <= abi.registers THEN Known(regs[i]) ELSE At(Incoming(base, i))
  BY <1>2
<1>4. Len(moves) = p
  BY <1>1, <1>3, FunctionLength
<1>5. ASSUME NEW i \in 1 .. p
      PROVE  LET c == <<Parameters[f][i], 0>>
             IN  /\ c \in CellsOf(f) /\ moves[i].to = base + Below(abi, f, c)
                 /\ moves[i].to \in Int /\ moves[i].to + 8 <= Floor(abi, base)
  <2> DEFINE c == <<Parameters[f][i], 0>>
  <2>1. c \in CellsOf(f)
    BY ParameterCell DEF p
  <2>2. moves[i].to = CellAt(f, base, c)
    BY <1>3
  <2> HIDE DEF c
  <2>3. CellAt(f, base, c) = base + Below(abi, f, c)
    BY <2>1, CellAtIs
  <2>4. base + Below(abi, f, c) \in Int /\ base + Below(abi, f, c) + 8 <= Floor(abi, base)
    BY <2>1, CellInFrame
  <2>5. QED
    BY <2>1, <2>2, <2>3, <2>4 DEF c
<1>6. QED
  BY <1>1, <1>3, <1>4, <1>5 DEF p, moves

(* What a call finds, and what the prologue makes of it.                   *)
LEMMA Entered ==
    ASSUME FramesInv, Enters
    PROVE  LET f     == Callee
               base  == sp - 2 * abi.word
               saved == Saves(abi, mem, base, Len(frames), fp, kept)
           IN  /\ mode = "calling" /\ f \in Functions /\ HasRoom(f) /\ abi \in Abis
               /\ Placed(abi, base) /\ base + 2 * abi.word = sp
               /\ abi' = abi /\ kept' = kept /\ mode' = "running" /\ fp' = base
               /\ frames' = Append(frames, [function |-> f, base |-> base, site |-> <<>>])
               /\ sp' = RunsAt(abi, f, base)
               /\ mem' = Moved(saved, EntryMoves(f, base))
<1> DEFINE f      == Callee
           n      == Len(frames)
           base   == sp - 2 * abi.word
           moves  == EntryMoves(f, base)
<1>1. mode = "calling" /\ abi' = abi /\ kept' = kept /\ mode' = "running" /\ HasRoom(f) /\ fp' = base
  BY DEF Enters
<1>2. frames' = Append(frames, [function |-> f, base |-> base, site |-> <<>>])
  BY DEF Enters
<1>3. sp' = RunsAt(abi, f, base)
  BY DEF Enters, RunsAt
<1>4. f \in Functions
  BY <1>1, CalleeKnown
<1>5. Placed(abi, base) /\ base + 2 * abi.word = sp /\ sp - abi.word = base + abi.word
  BY <1>1, <1>4, NewBase
<1>6. mem' = Moved(Saves(abi, mem, base, n, fp, kept), moves)
  <2>1. mem' = Moved(IF abi.saves
                     THEN Save(Save(Save(mem, sp - abi.word, n), base, fp), base - abi.word, kept)
                     ELSE Save(Save(mem, sp - abi.word, n), base, fp),
                     moves)
    BY DEF Enters, EntryMoves
  <2>2. \A m, a, v : Save(m, a, v) = SaveIn(abi, m, a, v)
    BY DEF Save, SaveIn
  <2> HIDE DEF moves, base, n
  <2>3. QED
    BY <1>5, <2>1, <2>2 DEF Saves
<1>7. abi \in Abis
  BY DEF FramesInv
<1> HIDE DEF f, base, n
<1>8. QED
  BY <1>1, <1>2, <1>3, <1>4, <1>5, <1>6, <1>7 DEF f, base, n

LEMMA FramesInvEnters ==
    ASSUME FramesInv, Enters PROVE FramesInv'
<1> DEFINE f      == Callee
           n      == Len(frames)
           base   == sp - 2 * abi.word
           new    == [function |-> f, base |-> base, site |-> <<>>]
           gs     == Append(frames, new)
           saved  == Saves(abi, mem, base, n, fp, kept)
           moves  == EntryMoves(f, base)
<1>1. abi \in Abis /\ DOMAIN mem = Words /\ Chain(abi, frames) /\ Linked(abi, mem, frames)
      /\ Poised(abi, mode, sp, fp, kept, frames)
  BY DEF FramesInv
<1>2. /\ mode = "calling" /\ abi' = abi /\ kept' = kept /\ mode' = "running" /\ fp' = base
      /\ f \in Functions /\ Placed(abi, base) /\ base + 2 * abi.word = sp
      /\ frames' = gs /\ sp' = RunsAt(abi, f, base) /\ mem' = Moved(saved, moves)
  BY Entered
<1> HIDE DEF f, base
<1>3. Len(moves) \in Nat
      /\ \A i \in 1 .. Len(moves) : moves[i].to \in Int /\ moves[i].to + 8 <= Floor(abi, base)
  BY <1>1, <1>2, EntryMoved
<1> HIDE DEF moves
<1>4. frames # <<>> => CallsFrom(frames[n]) /\ sp = Top(abi, frames[n]) /\ fp = frames[n].base
                       /\ sp <= Floor(abi, frames[n].base)
  BY <1>1, <1>2, CallAligned DEF Poised
<1>5. /\ Chain(abi, gs) /\ n \in Nat /\ Len(gs) = n + 1 /\ gs # <<>>
      /\ gs[n + 1] = new /\ \A k \in 1 .. n : gs[k] = frames[k]
  BY <1>1, <1>2, <1>4, ChainGrown
<1>6. new.base = base /\ new.function = f
  OBVIOUS
<1> HIDE DEF new, gs, n
<1>7. DOMAIN saved = Words /\ Linked(abi, saved, gs)
  <2>1. frames = <<>> => fp = base + 2 * abi.word + 64 /\ kept = 0
    BY <1>1, <1>2 DEF Poised
  <2>2. frames # <<>> => /\ fp = frames[Len(frames)].base
                         /\ base + 2 * abi.word <= Floor(abi, frames[Len(frames)].base)
    BY <1>2, <1>4 DEF n
  <2>3. Len(gs) = Len(frames) + 1 /\ (\A k \in 1 .. Len(frames) : gs[k] = frames[k])
        /\ gs[Len(frames) + 1].base = base
    BY <1>5, <1>6 DEF n
  <2>4. DOMAIN Saves(abi, mem, base, Len(frames), fp, kept) = Words
    BY <1>1, <1>2, <2>1, <2>2, <2>3, LinkedGrown
  <2>5. Linked(abi, Saves(abi, mem, base, Len(frames), fp, kept), gs)
    BY <1>1, <1>2, <2>1, <2>2, <2>3, LinkedGrown
  <2>6. QED
    BY <2>4, <2>5 DEF n
<1> HIDE DEF saved
<1>8. \A i \in 1 .. Len(moves) : moves[i].to \in Int /\ moves[i].to + 8 <= Floor(abi, gs[Len(gs)].base)
  BY <1>3, <1>5, <1>6
<1>9. DOMAIN mem' = Words /\ Linked(abi, mem', gs)
  BY <1>1, <1>2, <1>3, <1>5, <1>7, <1>8, MovesBelow
<1>10. Poised(abi, "running", sp', base, kept, gs)
  <2>1. ~abi.saves => kept = 0
    BY <1>1 DEF Poised
  <2>2. QED
    BY <1>2, <1>5, <1>6, <2>1 DEF Poised
<1>11. QED
  BY <1>1, <1>2, <1>5, <1>9, <1>10 DEF FramesInv

LEMMA FramesInvInductive == FramesInv /\ [Next]_vars => FramesInv'
<1> SUFFICES ASSUME FramesInv, [Next]_vars PROVE FramesInv'
  OBVIOUS
<1>1. ASSUME NEW site \in Sites, PlacesArguments(site) PROVE FramesInv'
  BY <1>1, FramesInvPlacesArguments
<1>2. ASSUME Enters PROVE FramesInv'
  BY <1>2, FramesInvEnters
<1>3. ASSUME CallsLibrary PROVE FramesInv'
  BY <1>3, FramesInvCallsLibrary
<1>4. ASSUME LibraryReturns PROVE FramesInv'
  BY <1>4, FramesInvLibraryReturns
<1>5. ASSUME Continues PROVE FramesInv'
  BY <1>5, FramesInvContinues
<1>6. ASSUME NEW c, Returns(c) PROVE FramesInv'
  BY <1>6, FramesInvReturns
<1>7. ASSUME Running, NEW c \in Assigned[Current], NEW value \in Values, Assigns(c, value)
      PROVE  FramesInv'
  <2>1. frames # <<>>
    BY <1>7 DEF FramesInv, Poised, Running
  <2>2. Current \in Functions
    BY <2>1, Executing
  <2>3. c \in CellsOf(Current)
    BY <1>7, <2>2, CodeAssumption
  <2>4. QED
    BY <1>7, <2>3, FramesInvAssigns
<1>8. CASE UNCHANGED vars
  BY <1>8 DEF vars, FramesInv
<1>9. QED
  BY <1>1, <1>2, <1>3, <1>4, <1>5, <1>6, <1>7, <1>8 DEF Next

(* Every frame lies right below the call area of its caller, what it saved *)
(* leads back there, and the pointers are where the code that runs next    *)
(* takes them to be.                                                       *)
THEOREM FramesStayLinked == Spec => []FramesInv
  BY FramesInvStarts, FramesInvInductive, PTL DEF Spec

(* At every call the emitted code makes the stack pointer is a multiple of *)
(* sixteen.                                                                *)
THEOREM CallsStayAligned == Spec => []CallsAligned
<1>1. FramesInv => CallsAligned
  <2> SUFFICES ASSUME FramesInv, mode \in {"calling", "library"}, frames # <<>> PROVE sp % 16 = 0
    BY DEF CallsAligned
  <2>1. CASE mode = "calling"
    BY <2>1, CallAligned
  <2>2. CASE mode = "library"
    <3> DEFINE last == frames[Len(frames)]
               runs == RunsAt(abi, last.function, last.base)
    <3>1. sp = runs - abi.window /\ abi \in Abis
      BY <2>2 DEF FramesInv, Poised
    <3>2. runs \in Int /\ runs % 16 = 0
      BY <3>1, Executing, RunsBelow
    <3>3. abi.window \in Nat /\ abi.window % 16 = 0
      BY <3>1, BackEnds
    <3> HIDE DEF runs
    <3>4. (runs - abi.window) % 16 = 0
      BY <3>2, <3>3, Multiples
    <3>5. QED
      BY <3>1, <3>4
  <2>3. QED
    BY <2>1, <2>2
<1>2. QED
  BY <1>1, FramesStayLinked, PTL

(* main gives the C runtime its stack pointer, frame pointer and ebx back. *)
THEOREM HostGetsItsRegisters == Spec => []HostIsRestored
<1>1. FramesInv => HostIsRestored
  BY DEF FramesInv, Poised, HostIsRestored
<1>2. QED
  BY <1>1, FramesStayLinked, PTL

-----------------------------------------------------------------------------
(* The frames in memory are the activations.  Two facts more are needed: a *)
(* frame lies in the machine's memory, and when the call instruction comes *)
(* every argument is where the callee will look for it.                    *)
Roomy(b, fs) ==
    \A k \in 1 .. Len(fs) : -(4 * StackWords) <= RunsAt(b, fs[k].function, fs[k].base)

ValueIn(b, m, frame, operand) ==
    IF operand.literal THEN operand.value
    ELSE Fetch(m, frame.base + Below(b, frame.function, operand.cell))

PassedAt(b, s, i) == s + b.shadow + SlotSize * (i - b.registers - 1)

Passed(b, m, s, rs, frame) ==
    \A i \in 1 .. Len(frame.site.arguments) :
        ValueIn(b, m, frame, frame.site.arguments[i]) =
            IF i <= b.registers THEN rs[i] ELSE Fetch(m, PassedAt(b, s, i))

ActivationsInv ==
    /\ FramesInv
    /\ Roomy(abi, frames)
    /\ mode = "calling" /\ frames # <<>> /\ -(4 * StackWords) <= sp =>
           Passed(abi, mem, sp, regs, frames[Len(frames)])

LEMMA MemoryBottom ==
    ASSUME NEW a \in Int, a % 4 = 0, -(4 * StackWords) <= a, a + 8 <= 124
    PROVE  a \in Words /\ a + 4 \in Words
<1> DEFINE l == -(4 * StackWords)
<1>1. l \in Int
  BY MachineAssumption
<1> HIDE DEF l
<1>2. l <= a /\ a <= 124 /\ a + 4 \in Int /\ (a + 4) % 4 = 0 /\ l <= a + 4 /\ a + 4 <= 124
  BY <1>1 DEF l
<1>3. QED
  BY <1>2, WordAt DEF l

(* A cell of a frame that lies in memory.                                  *)
LEMMA CellWords ==
    ASSUME NEW b \in Abis, NEW f \in Functions, NEW base, Placed(b, base), NEW c \in CellsOf(f),
           -(4 * StackWords) <= RunsAt(b, f, base)
    PROVE  LET a == base + Below(b, f, c)
           IN  a \in Int /\ a \in Words /\ a + 4 \in Words /\ RunsAt(b, f, base) <= a
               /\ a + 8 <= Floor(b, base)
<1> DEFINE a == base + Below(b, f, c)
           r == RunsAt(b, f, base)
           l == -(4 * StackWords)
<1>1. a \in Int /\ a % 4 = 0 /\ a + 8 <= Floor(b, base) /\ r <= a
  BY CellInFrame
<1>2. Floor(b, base) \in Int /\ Floor(b, base) <= base /\ base \in Int /\ b.word \in {4, 8}
  BY PlacedWords
<1>3. r \in Int /\ base + 2 * b.word <= 12
  BY RunsBelow DEF Placed
<1>4. l \in Int
  BY MachineAssumption
<1>5. l <= r
  OBVIOUS
<1> HIDE DEF a, r, l
<1>6. l <= a /\ a + 8 <= 124
  BY <1>1, <1>2, <1>3, <1>4, <1>5
<1>7. a \in Words /\ a + 4 \in Words
  BY <1>1, <1>6, MemoryBottom DEF l
<1>8. QED
  BY <1>1, <1>7 DEF a, r

ActOf(b, m, frame) ==
    [function |-> frame.function,
     cells    |-> [c \in CellsOf(frame.function) |->
                      Fetch(m, frame.base + Below(b, frame.function, c))]]

Acts(b, m, fs) == [k \in 1 .. Len(fs) |-> ActOf(b, m, fs[k])]

(* An activation is what it was if no word from its frame's lowest on has  *)
(* changed.                                                                *)
LEMMA CellSame ==
    ASSUME NEW b \in Abis, NEW f \in Functions, NEW base, Placed(b, base), NEW c \in CellsOf(f),
           -(4 * StackWords) <= RunsAt(b, f, base),
           NEW m, NEW n, NEW low \in Int, low <= RunsAt(b, f, base),
           \A x \in Words : low <= x => n[x] = m[x]
    PROVE  Fetch(n, base + Below(b, f, c)) = Fetch(m, base + Below(b, f, c))
<1> DEFINE a == base + Below(b, f, c)
           r == RunsAt(b, f, base)
<1>1. a \in Int /\ a \in Words /\ a + 4 \in Words /\ r <= a
  BY CellWords
<1>2. r \in Int /\ low <= r
  BY RunsBelow
<1> HIDE DEF a, r
<1>3. low <= a /\ low <= a + 4
  BY <1>1, <1>2
<1>4. n[a] = m[a] /\ n[a + 4] = m[a + 4]
  BY <1>1, <1>3
<1>5. Fetch(n, a) = Fetch(m, a)
  BY <1>4, FetchSame
<1>6. QED
  BY <1>5 DEF a

LEMMA ActSame ==
    ASSUME NEW b \in Abis, NEW frame, frame.function \in Functions, Placed(b, frame.base),
           -(4 * StackWords) <= RunsAt(b, frame.function, frame.base),
           NEW m, NEW n, NEW low \in Int, low <= RunsAt(b, frame.function, frame.base),
           \A x \in Words : low <= x => n[x] = m[x]
    PROVE  ActOf(b, n, frame) = ActOf(b, m, frame)
<1> DEFINE f    == frame.function
           base == frame.base
<1>1. \A c \in CellsOf(f) : Fetch(n, base + Below(b, f, c)) = Fetch(m, base + Below(b, f, c))
  BY CellSame
<1> HIDE DEF f, base
<1>2. [c \in CellsOf(f) |-> Fetch(n, base + Below(b, f, c))]
      = [c \in CellsOf(f) |-> Fetch(m, base + Below(b, f, c))]
  BY <1>1
<1>3. QED
  BY <1>2 DEF ActOf, f, base

(* The frames outside the innermost one.                                   *)
LEMMA OlderRuns ==
    ASSUME NEW b \in Abis, NEW fs, Chain(b, fs), NEW k \in 1 .. Len(fs), NEW j \in 1 .. Len(fs), j < k
    PROVE  fs[k].base + 2 * b.word <= RunsAt(b, fs[j].function, fs[j].base)
<1> DEFINE r == RunsAt(b, fs[j].function, fs[j].base)
<1>1. fs \in Seq(FrameRecords) /\ Len(fs) \in Nat
  BY LenProperties DEF Chain
<1>2. fs[j] \in FrameRecords /\ Placed(b, fs[j].base) /\ Placed(b, fs[k].base)
  BY <1>1, ElementOfSeq DEF Chain
<1>3. CallsFrom(fs[j]) /\ fs[j + 1].base + 2 * b.word = Top(b, fs[j])
  BY <1>1 DEF Chain
<1>4. Top(b, fs[j]) \in Int /\ Top(b, fs[j]) <= r
  BY <1>2, <1>3, TopBelow DEF CallsFrom
<1>5. r \in Int
  BY <1>2, RunsBelow DEF FrameRecords
<1>6. CASE k = j + 1
  <2> DEFINE t == Top(b, fs[j])
             a == fs[k].base + 2 * b.word
  <2>1. a = t
    BY <1>3, <1>6
  <2> HIDE DEF r, t, a
  <2>2. a <= r
    BY <1>4, <2>1 DEF t
  <2>3. QED
    BY <2>2 DEF a, r
<1>7. CASE k # j + 1
  <2> DEFINE i == j + 1
             d == Floor(b, fs[i].base)
             t == Top(b, fs[j])
  <2>1. i \in 1 .. Len(fs) /\ i < k
    BY <1>1, <1>7
  <2> HIDE DEF i
  <2>2. fs[k].base + 2 * b.word <= d /\ Placed(b, fs[i].base)
    BY <2>1 DEF Chain
  <2>3. d \in Int /\ d <= fs[i].base /\ fs[i].base \in Int /\ b.word \in {4, 8} /\ fs[k].base \in Int
    BY <1>2, <2>2, PlacedWords
  <2>4. fs[i].base + 2 * b.word = t /\ t \in Int /\ t <= r
    BY <1>3, <1>4 DEF i
  <2> DEFINE x == fs[k].base
             y == fs[i].base
             w == b.word
  <2>5. x + 2 * w <= d /\ d \in Int /\ d <= y /\ y \in Int /\ w \in {4, 8} /\ x \in Int
        /\ y + 2 * w = t /\ t \in Int /\ t <= r /\ r \in Int
    BY <1>5, <2>2, <2>3, <2>4
  <2> HIDE DEF r, d, t, x, y, w
  <2>6. x + 2 * w <= r
    BY <2>5
  <2>7. QED
    BY <2>6 DEF r, x, w
<1>8. QED
  BY <1>6, <1>7

Clear(a, c) == a + 8 <= c \/ c + 8 <= a

LEMMA ClearWords ==
    ASSUME NEW a \in Int, NEW c \in Int, Clear(a, c)
    PROVE  a # c /\ a # c + 4 /\ a + 4 # c /\ a + 4 # c + 4
BY DEF Clear

LEMMA PutClear ==
    ASSUME NEW m, NEW a \in Int, NEW c \in Int, Clear(a, c), a \in DOMAIN m, a + 4 \in DOMAIN m, NEW v
    PROVE  Put(m, c, v)[a] = m[a] /\ Put(m, c, v)[a + 4] = m[a + 4]
<1>1. a # c /\ a # c + 4 /\ a + 4 # c /\ a + 4 # c + 4
  BY ClearWords
<1>2. \A x \in DOMAIN m : x # c /\ x # c + 4 => Put(m, c, v)[x] = m[x]
  BY PutKeeps
<1>3. QED
  BY <1>1, <1>2

(* Moves put every value where it is wanted, if no target meets another    *)
(* target or a place a later move loads from.                              *)
LEMMA TraceStores ==
    ASSUME NEW m, NEW moves, NEW n \in Nat, NEW g, Trace(m, moves, n, g),
           \A i \in 1 .. n : /\ moves[i].to \in Int /\ moves[i].to \in DOMAIN m
                             /\ moves[i].to + 4 \in DOMAIN m,
           \A i, j \in 1 .. n : i # j => Clear(moves[i].to, moves[j].to),
           \A i \in 1 .. n : ~moves[i].from.literal =>
                  /\ moves[i].from.at \in Int /\ moves[i].from.at \in DOMAIN m
                  /\ moves[i].from.at + 4 \in DOMAIN m
                  /\ \A j \in 1 .. n : Clear(moves[i].from.at, moves[j].to)
    PROVE  \A i \in 1 .. n : Fetch(g[n], moves[i].to) = Load(m, moves[i].from)
<1> DEFINE to(i) == moves[i].to
           at(i) == moves[i].from.at
           v(i)  == Load(m, moves[i].from)
           Loads(k) == \A i \in 1 .. n : ~moves[i].from.literal =>
                           g[k][at(i)] = m[at(i)] /\ g[k][at(i) + 4] = m[at(i) + 4]
           Stores(k) == \A i \in 1 .. n : i <= k =>
                           g[k][to(i)] = <<v(i), 0>> /\ g[k][to(i) + 4] = <<v(i), 1>>
           Good(k) == DOMAIN g[k] = DOMAIN m /\ Loads(k) /\ Stores(k)
           P == {k \in Nat : k <= n => Good(k)}
<1>1. g[0] = m
  BY TraceFacts, Zenon
<1>2. \A i \in 1 .. n : i - 1 \in 0 .. n /\ g[i] = Step(g[i - 1], moves[i])
  BY TraceFacts, SMT
<1>3. 0 \in P
  <2>1. Stores(0)
    OBVIOUS
  <2>2. Loads(0) /\ DOMAIN g[0] = DOMAIN m
    BY <1>1, Zenon
  <2> HIDE DEF Stores, Loads
  <2>3. QED
    BY <2>1, <2>2
<1>4. ASSUME NEW k \in P PROVE k + 1 \in P
  <2>1. k \in Nat /\ k + 1 \in Nat
    OBVIOUS
  <2> SUFFICES ASSUME k + 1 <= n PROVE Good(k + 1)
    BY <2>1
  <2> DEFINE h == k + 1
  <2>2. k <= n /\ h \in 1 .. n /\ h - 1 = k
    BY <2>1
  <2>3. Good(k)
    BY <2>2
  <2> HIDE DEF P, Loads, Stores
  <2>4. DOMAIN g[k] = DOMAIN m /\ Loads(k) /\ Stores(k)
    BY <2>3
  <2> DEFINE w == Load(g[k], moves[h].from)
  <2>5. g[h] = Put(g[k], to(h), w)
    <3>1. g[h] = Step(g[h - 1], moves[h])
      BY <1>2, <2>2
    <3>2. QED
      BY <2>2, <3>1 DEF Step
  <2> HIDE DEF h
  <2>6. w = v(h)
    <3>1. CASE moves[h].from.literal
      BY <3>1 DEF Load
    <3>2. CASE ~moves[h].from.literal
      <4>1. g[k][at(h)] = m[at(h)] /\ g[k][at(h) + 4] = m[at(h) + 4]
        BY <2>2, <2>4, <3>2 DEF Loads
      <4>2. Fetch(g[k], at(h)) = Fetch(m, at(h))
        BY <4>1, FetchSame
      <4>3. w = Fetch(g[k], at(h)) /\ v(h) = Fetch(m, at(h))
        BY <3>2 DEF Load
      <4>4. QED
        BY <4>2, <4>3
    <3>3. QED
      BY <3>1, <3>2
  <2> HIDE DEF w
  <2>7. DOMAIN g[h] = DOMAIN m
    BY <2>4, <2>5, PutKeeps
  <2>8. Loads(h)
    <3> SUFFICES ASSUME NEW i \in 1 .. n, ~moves[i].from.literal
                 PROVE  g[h][at(i)] = m[at(i)] /\ g[h][at(i) + 4] = m[at(i) + 4]
      BY DEF Loads
    <3> DEFINE a == at(i)
               c == to(h)
    <3>1. g[k][a] = m[a] /\ g[k][a + 4] = m[a + 4]
      BY <2>4 DEF Loads
    <3>2. a \in Int /\ c \in Int /\ Clear(a, c) /\ a \in DOMAIN g[k] /\ a + 4 \in DOMAIN g[k]
      BY <2>2, <2>4
    <3> HIDE DEF a, c
    <3>3. Put(g[k], c, w)[a] = g[k][a] /\ Put(g[k], c, w)[a + 4] = g[k][a + 4]
      BY <3>2, PutClear
    <3>4. QED
      BY <2>5, <3>1, <3>3 DEF a, c
  <2>9. Stores(h)
    <3> SUFFICES ASSUME NEW i \in 1 .. n, i <= h
                 PROVE  g[h][to(i)] = <<v(i), 0>> /\ g[h][to(i) + 4] = <<v(i), 1>>
      BY DEF Stores
    <3> DEFINE a == to(i)
               c == to(h)
               u == v(i)
    <3>1. a \in Int /\ c \in Int /\ a \in DOMAIN g[k] /\ a + 4 \in DOMAIN g[k]
          /\ c \in DOMAIN g[k] /\ c + 4 \in DOMAIN g[k]
      BY <2>2, <2>4
    <3>2. CASE i = h
      <4> HIDE DEF c
      <4>1. Put(g[k], c, w)[c] = <<w, 0>> /\ Put(g[k], c, w)[c + 4] = <<w, 1>>
        BY <3>1, PutGets
      <4>2. g[h][c] = <<w, 0>> /\ g[h][c + 4] = <<w, 1>>
        BY <2>5, <4>1 DEF c
      <4> HIDE DEF v
      <4>3. QED
        BY <2>6, <3>2, <4>2 DEF c
    <3>3. CASE i # h
      <4>1. i <= k
        BY <2>1, <3>3 DEF h
      <4>2. g[k][a] = <<u, 0>> /\ g[k][a + 4] = <<u, 1>>
        BY <2>4, <4>1 DEF Stores
      <4>3. Clear(a, c)
        BY <2>2, <3>3
      <4> HIDE DEF a, c, u
      <4>4. Put(g[k], c, w)[a] = g[k][a] /\ Put(g[k], c, w)[a + 4] = g[k][a + 4]
        BY <3>1, <4>3, PutClear
      <4>5. QED
        BY <2>5, <4>2, <4>4 DEF a, c, u
    <3>4. QED
      BY <3>2, <3>3
  <2>10. Good(h)
    BY <2>7, <2>8, <2>9
  <2>11. QED
    BY <2>10 DEF h
<1> HIDE DEF Good
<1>5. P = Nat
  <2>1. P \in SUBSET Nat
    OBVIOUS
  <2> HIDE DEF P
  <2>2. QED
    BY <1>3, <1>4, <2>1, AllNaturals
<1>6. Good(n)
  <2>1. n \in P
    BY <1>5
  <2>2. QED
    BY <2>1
<1>7. Stores(n)
  BY <1>6 DEF Good
<1>8. ASSUME NEW i \in 1 .. n PROVE Fetch(g[n], to(i)) = v(i)
  <2>1. i <= n
    OBVIOUS
  <2>2. g[n][to(i)] = <<v(i), 0>> /\ g[n][to(i) + 4] = <<v(i), 1>>
    BY <1>7, <2>1
  <2> HIDE DEF v, to
  <2>3. QED
    BY <2>2, FetchPair
<1>9. QED
  BY <1>8

LEMMA MovedStores ==
    ASSUME NEW m, NEW moves, Len(moves) \in Nat,
           \A i \in 1 .. Len(moves) :
                  /\ moves[i].to \in Int /\ moves[i].to \in DOMAIN m /\ moves[i].to + 4 \in DOMAIN m,
           \A i, j \in 1 .. Len(moves) : i # j => Clear(moves[i].to, moves[j].to),
           \A i \in 1 .. Len(moves) : ~moves[i].from.literal =>
                  /\ moves[i].from.at \in Int /\ moves[i].from.at \in DOMAIN m
                  /\ moves[i].from.at + 4 \in DOMAIN m
                  /\ \A j \in 1 .. Len(moves) : Clear(moves[i].from.at, moves[j].to)
    PROVE  \A i \in 1 .. Len(moves) : Fetch(Moved(m, moves), moves[i].to) = Load(m, moves[i].from)
<1>1. PICK g : Trace(m, moves, Len(moves), g) /\ Moved(m, moves) = g[Len(moves)]
  BY MovedTrace
<1>2. Trace(m, moves, Len(moves), g)
  BY <1>1
<1>3. \A i \in 1 .. Len(moves) : Fetch(g[Len(moves)], moves[i].to) = Load(m, moves[i].from)
  BY <1>2, TraceStores
<1>4. QED
  BY <1>1, <1>3

-----------------------------------------------------------------------------
(* The sequence of activations.                                            *)
LEMMA ActsFacts ==
    ASSUME NEW b, NEW m, NEW fs, Len(fs) \in Nat
    PROVE  /\ Len(Acts(b, m, fs)) = Len(fs) /\ DOMAIN Acts(b, m, fs) = 1 .. Len(fs)
           /\ \A k \in 1 .. Len(fs) : Acts(b, m, fs)[k] = ActOf(b, m, fs[k])
           /\ Acts(b, m, fs) = <<>> <=> Len(fs) = 0
<1> DEFINE n == Len(fs)
           A == Acts(b, m, fs)
           R == {ActOf(b, m, fs[k]) : k \in 1 .. n}
<1>1. n \in Nat
  OBVIOUS
<1>2. A = [k \in 1 .. n |-> ActOf(b, m, fs[k])]
  BY DEF Acts
<1> HIDE DEF n
<1>3. A \in [1 .. n -> R] /\ \A k \in 1 .. n : A[k] = ActOf(b, m, fs[k])
  BY <1>2
<1> HIDE DEF A, R
<1>4. A \in Seq(R)
  BY <1>1, <1>3, SeqDef
<1>5. DOMAIN A = 1 .. n
  BY <1>3
<1>6. A = [k \in 1 .. n |-> A[k]]
  BY <1>3
<1>7. Len(A) = n
  BY <1>1, <1>6, FunctionLength
<1>8. A = <<>> <=> n = 0
  BY <1>4, <1>7, EmptySeq
<1>9. QED
  BY <1>3, <1>5, <1>7, <1>8 DEF n, A

LEMMA ActsAre ==
    ASSUME NEW b \in Abis, NEW fs, Chain(b, fs), NEW m
    PROVE  [k \in DOMAIN fs |->
               [function |-> fs[k].function,
                cells    |-> [c \in CellsOf(fs[k].function) |->
                                 Fetch(m, fs[k].base + Offsets[b][fs[k].function][c[1]] + SlotSize * c[2])]]]
           = Acts(b, m, fs)
<1>1. fs \in Seq(FrameRecords) /\ DOMAIN fs = 1 .. Len(fs)
  BY LenProperties DEF Chain
<1> DEFINE F(k) == [function |-> fs[k].function,
                    cells    |-> [c \in CellsOf(fs[k].function) |->
                                     Fetch(m, fs[k].base + Offsets[b][fs[k].function][c[1]] + SlotSize * c[2])]]
<1>2. ASSUME NEW k \in 1 .. Len(fs) PROVE F(k) = ActOf(b, m, fs[k])
  <2> DEFINE f    == fs[k].function
             base == fs[k].base
  <2>0. fs[k] \in FrameRecords
    BY <1>1, ElementOfSeq
  <2>1. f \in Functions /\ base \in Int
    BY <2>0 DEF FrameRecords
  <2> HIDE DEF f, base
  <2>2. \A c \in CellsOf(f) : base + Offsets[b][f][c[1]] + SlotSize * c[2] = base + Below(b, f, c)
    BY <2>1, PlaceOfCell
  <2>3. [c \in CellsOf(f) |-> Fetch(m, base + Offsets[b][f][c[1]] + SlotSize * c[2])]
        = [c \in CellsOf(f) |-> Fetch(m, base + Below(b, f, c))]
    BY <2>2
  <2>4. QED
    BY <2>3 DEF ActOf, f, base
<1> HIDE DEF F
<1>3. [k \in DOMAIN fs |-> F(k)] = [k \in 1 .. Len(fs) |-> ActOf(b, m, fs[k])]
  BY <1>1, <1>2
<1>4. QED
  BY <1>3 DEF Acts, F

LEMMA ActsSame ==
    ASSUME NEW b, NEW m, NEW n, NEW fs, NEW gs, Len(gs) = Len(fs),
           \A k \in 1 .. Len(fs) : gs[k].function = fs[k].function /\ gs[k].base = fs[k].base,
           \A k \in 1 .. Len(fs) : ActOf(b, n, fs[k]) = ActOf(b, m, fs[k])
    PROVE  Acts(b, n, gs) = Acts(b, m, fs)
<1>1. \A k \in 1 .. Len(fs) : ActOf(b, n, gs[k]) = ActOf(b, n, fs[k])
  BY DEF ActOf
<1>2. \A k \in 1 .. Len(fs) : ActOf(b, n, gs[k]) = ActOf(b, m, fs[k])
  BY <1>1
<1>3. QED
  BY <1>2 DEF Acts

(* One cell of the innermost activation changes.                           *)
WithCell(A, l, c, v) == [A EXCEPT ![l].cells[c] = v]

LEMMA ActsChanged ==
    ASSUME NEW b, NEW m, NEW n, NEW fs, NEW gs, Len(gs) = Len(fs), Len(fs) \in Nat, Len(fs) # 0,
           \A k \in 1 .. Len(fs) : gs[k].function = fs[k].function /\ gs[k].base = fs[k].base,
           \A k \in 1 .. Len(fs) : k # Len(fs) => ActOf(b, n, fs[k]) = ActOf(b, m, fs[k]),
           NEW last, last = fs[Len(fs)], NEW c \in CellsOf(last.function), NEW x,
           x = Fetch(n, last.base + Below(b, last.function, c)),
           \A e \in CellsOf(last.function) : e # c =>
               Fetch(n, last.base + Below(b, last.function, e)) = Fetch(m, last.base + Below(b, last.function, e))
    PROVE  Acts(b, n, gs) = WithCell(Acts(b, m, fs), Len(fs), c, x)
<1> DEFINE f == last.function
           base == last.base
           l == Len(fs)
           A == Acts(b, m, fs)
           v == Fetch(n, base + Below(b, f, c))
           B == [A EXCEPT ![l].cells[c] = v]
<1>0. c \in CellsOf(f)
      /\ \A e \in CellsOf(f) : e # c => Fetch(n, base + Below(b, f, e)) = Fetch(m, base + Below(b, f, e))
  OBVIOUS
<1>1. l \in Nat /\ l \in 1 .. l
  OBVIOUS
<1>2. DOMAIN A = 1 .. l /\ \A k \in 1 .. l : A[k] = ActOf(b, m, fs[k])
  BY ActsFacts
<1>3. Acts(b, n, gs) = [k \in 1 .. l |-> ActOf(b, n, fs[k])]
  <2>1. \A k \in 1 .. l : ActOf(b, n, gs[k]) = ActOf(b, n, fs[k])
    BY DEF ActOf
  <2>2. QED
    BY <2>1 DEF Acts
<1>4. A[l] = [function |-> f, cells |-> [e \in CellsOf(f) |-> Fetch(m, base + Below(b, f, e))]]
  BY <1>1, <1>2 DEF ActOf
<1>5. ActOf(b, n, fs[l]) = [function |-> f, cells |-> [e \in CellsOf(f) |-> Fetch(n, base + Below(b, f, e))]]
  BY DEF ActOf
<1> HIDE DEF l, A, v, f, base
<1>6. [A[l] EXCEPT !.cells[c] = v] = ActOf(b, n, fs[l])
  <2> DEFINE X == [e \in CellsOf(f) |-> Fetch(m, base + Below(b, f, e))]
             Y == [e \in CellsOf(f) |-> Fetch(n, base + Below(b, f, e))]
  <2>1. [X EXCEPT ![c] = v] = Y
    BY <1>0 DEF v
  <2> HIDE DEF X, Y
  <2>2. A[l] = [function |-> f, cells |-> X] /\ ActOf(b, n, fs[l]) = [function |-> f, cells |-> Y]
    BY <1>4, <1>5 DEF X, Y
  <2>3. [A[l] EXCEPT !.cells[c] = v] = [function |-> f, cells |-> [X EXCEPT ![c] = v]]
    BY <2>2
  <2>4. QED
    BY <2>1, <2>2, <2>3
<1>7. B = [k \in 1 .. l |-> ActOf(b, n, fs[k])]
  <2>1. B = [A EXCEPT ![l] = [A[l] EXCEPT !.cells[c] = v]]
    BY <1>1, <1>2
  <2>2. B = [A EXCEPT ![l] = ActOf(b, n, fs[l])]
    BY <1>6, <2>1
  <2>3. \A k \in 1 .. l : k # l => A[k] = ActOf(b, n, fs[k])
    BY <1>2 DEF l
  <2> HIDE DEF B
  <2>4. QED
    BY <1>1, <1>2, <2>2, <2>3
<1>8. v = x
  BY DEF v, f, base
<1>9. QED
  BY <1>3, <1>7, <1>8 DEF A, l, WithCell

(* A change below the innermost frame, or inside it, is none to the frames *)
(* outside it.                                                             *)
LEMMA OlderActsSame ==
    ASSUME NEW b \in Abis, NEW fs, Chain(b, fs), Roomy(b, fs), NEW m, NEW n, NEW low \in Int,
           fs # <<>>, low <= fs[Len(fs)].base + 2 * b.word,
           \A x \in Words : low <= x => n[x] = m[x]
    PROVE  \A k \in 1 .. Len(fs) : k # Len(fs) => ActOf(b, n, fs[k]) = ActOf(b, m, fs[k])
<1> DEFINE l == Len(fs)
<1> SUFFICES ASSUME NEW k \in 1 .. l, k # l PROVE ActOf(b, n, fs[k]) = ActOf(b, m, fs[k])
  OBVIOUS
<1>1. l \in Nat /\ l \in 1 .. l /\ Placed(b, fs[l].base)
  BY InnermostFrame DEF Last
<1>2. k < l
  BY <1>1
<1>3. fs \in Seq(FrameRecords)
  BY DEF Chain
<1>4. fs[k] \in FrameRecords /\ Placed(b, fs[k].base)
  BY <1>3, ElementOfSeq DEF Chain
<1> DEFINE r == RunsAt(b, fs[k].function, fs[k].base)
           t == fs[l].base + 2 * b.word
<1>5. t <= r
  BY <1>1, <1>2, OlderRuns
<1>6. fs[k].function \in Functions /\ -(4 * StackWords) <= r
  BY <1>4 DEF FrameRecords, Roomy
<1>7. r \in Int
  BY <1>4, <1>6, RunsBelow
<1>8. t \in Int
  BY <1>1, BackEnds DEF Placed
<1>9. low <= t
  OBVIOUS
<1> HIDE DEF r, t, l
<1>10. low <= r
  BY <1>5, <1>7, <1>8, <1>9
<1>11. QED
  BY <1>4, <1>6, <1>10, ActSame DEF r

(* A change below the stack pointer is none to any frame.                  *)
LEMMA AllActsSame ==
    ASSUME NEW b \in Abis, NEW fs, Chain(b, fs), Roomy(b, fs), NEW m, NEW n, NEW low \in Int,
           fs # <<>> => low <= RunsAt(b, fs[Len(fs)].function, fs[Len(fs)].base),
           \A x \in Words : low <= x => n[x] = m[x]
    PROVE  \A k \in 1 .. Len(fs) : ActOf(b, n, fs[k]) = ActOf(b, m, fs[k])
<1> SUFFICES ASSUME NEW k \in 1 .. Len(fs) PROVE ActOf(b, n, fs[k]) = ActOf(b, m, fs[k])
  OBVIOUS
<1> DEFINE l    == Len(fs)
           r    == RunsAt(b, fs[l].function, fs[l].base)
           base == fs[l].base
<1>1. fs # <<>>
  <2>1. Len(fs) \in Nat /\ Len(fs) # 0
    <3>1. Len(fs) \in Nat
      BY LenProperties DEF Chain
    <3>2. QED
      BY <3>1
  <2>2. QED
    BY <2>1, EmptySeq DEF Chain
<1>2. l \in 1 .. l /\ Placed(b, base) /\ fs[l] \in FrameRecords
  BY <1>1, InnermostFrame DEF Last
<1>3. fs[l].function \in Functions /\ -(4 * StackWords) <= r
  BY <1>2 DEF FrameRecords, Roomy
<1>4. r \in Int /\ r <= Floor(b, base)
  BY <1>2, <1>3, RunsBelow
<1>5. Floor(b, base) \in Int /\ Floor(b, base) <= base /\ b.word \in {4, 8} /\ base \in Int
  BY <1>2, PlacedWords
<1>6. low <= r
  BY <1>1
<1>7. low <= base + 2 * b.word
  <2> HIDE DEF r, base
  <2>1. QED
    BY <1>4, <1>5, <1>6
<1>8. CASE k = l
  BY <1>2, <1>3, <1>6, <1>8, ActSame
<1>9. CASE k # l
  BY <1>1, <1>7, <1>9, OlderActsSame
<1>10. QED
  BY <1>8, <1>9

-----------------------------------------------------------------------------
(* The activations of the abstract specification.                          *)
LEMMA ActivatedIs == FramesInv => Activated = Acts(abi, mem, frames)
<1> SUFFICES ASSUME FramesInv PROVE Activated = Acts(abi, mem, frames)
  OBVIOUS
<1>1. abi \in Abis /\ Chain(abi, frames)
  BY DEF FramesInv
<1>2. QED
  BY <1>1, ActsAre DEF Activated, Contents, CellAt

LEMMA ActivatedNext == FramesInv' => Activated' = Acts(abi', mem', frames')
<1> SUFFICES ASSUME FramesInv' PROVE Activated' = Acts(abi', mem', frames')
  OBVIOUS
<1>1. abi' \in Abis /\ Chain(abi', frames')
  BY DEF FramesInv
<1>2. QED
  BY <1>1, ActsAre DEF Activated, Contents, CellAt

LEMMA RoomySame ==
    ASSUME NEW b, NEW fs, NEW gs, Roomy(b, fs), Len(gs) = Len(fs),
           \A k \in 1 .. Len(fs) : gs[k].function = fs[k].function /\ gs[k].base = fs[k].base
    PROVE  Roomy(b, gs)
BY DEF Roomy

LEMMA MarkedSame ==
    ASSUME NEW b, NEW fs, Chain(b, fs), fs # <<>>, NEW s \in Sites \cup {<<>>}
    PROVE  LET gs == [fs EXCEPT ![Len(fs)].site = s]
           IN  /\ Len(gs) = Len(fs)
               /\ \A k \in 1 .. Len(fs) : gs[k].function = fs[k].function /\ gs[k].base = fs[k].base
<1> DEFINE n  == Len(fs)
           gs == [fs EXCEPT ![n].site = s]
<1>1. Len(gs) = n /\ gs[n].base = fs[n].base /\ gs[n].function = fs[n].function
  BY ChainMarked
<1>2. \A k \in 1 .. n : k # n => gs[k] = fs[k]
  BY InnermostFrame
<1> HIDE DEF gs, n
<1>3. \A k \in 1 .. n : gs[k].function = fs[k].function /\ gs[k].base = fs[k].base
  BY <1>1, <1>2
<1>4. QED
  BY <1>1, <1>3 DEF gs, n

LEMMA ArgumentIsOperand ==
    ASSUME NEW site \in Sites, NEW i \in 1 .. Len(site.arguments)
    PROVE  Operand(site.caller, site.arguments[i])
<1>1. site.arguments \in Seq(ToSet(site.arguments))
  BY CodeAssumption
<1>2. i \in DOMAIN site.arguments
  BY <1>1, LenProperties
<1>3. site.arguments[i] \in ToSet(site.arguments)
  BY <1>2 DEF ToSet
<1>4. QED
  BY <1>3, CodeAssumption

(* What emit_call loads is the value of the operand.                       *)
LEMMA LoadIsValue ==
    ASSUME FramesInv, mode = "running", NEW operand, Operand(Current, operand)
    PROVE  Load(mem, Located(operand)) = ValueIn(abi, mem, frames[Len(frames)], operand)
<1>1. abi \in Abis /\ frames # <<>>
  BY RunningAt DEF FramesInv
<1>2. Current = frames[Len(frames)].function /\ Current \in Functions
      /\ fp = frames[Len(frames)].base /\ Placed(abi, fp)
  BY <1>1, Executing
<1>3. CASE operand.literal
  BY <1>3 DEF Located, Load, ValueIn
<1>4. CASE ~operand.literal
  <2>1. operand.cell \in CellsOf(Current)
    BY <1>4 DEF Operand
  <2>2. CellAt(Current, fp, operand.cell) = fp + Below(abi, Current, operand.cell)
    BY <1>1, <1>2, <2>1, CellAtIs
  <2>3. Load(mem, Located(operand)) = Fetch(mem, CellAt(Current, fp, operand.cell))
    BY <1>4 DEF Located, Load, At
  <2>4. QED
    BY <1>2, <1>4, <2>2, <2>3 DEF ValueIn
<1>5. QED
  BY <1>3, <1>4

LEMMA SourceIsCell ==
    ASSUME FramesInv, Roomy(abi, frames), mode = "running", NEW operand, Operand(Current, operand),
           ~Located(operand).literal
    PROVE  LET a == Located(operand).at
           IN  a \in Int /\ a \in Words /\ a + 4 \in Words /\ sp <= a
<1>1. abi \in Abis /\ frames # <<>> /\ sp = RunsAt(abi, frames[Len(frames)].function, fp)
  BY RunningAt DEF FramesInv
<1>2. Current = frames[Len(frames)].function /\ Current \in Functions
      /\ fp = frames[Len(frames)].base /\ Placed(abi, fp) /\ Len(frames) \in 1 .. Len(frames)
  BY <1>1, Executing
<1>3. ~operand.literal /\ Located(operand) = At(CellAt(Current, fp, operand.cell))
  BY DEF Located
<1>4. operand.cell \in CellsOf(Current)
  BY <1>3 DEF Operand
<1>5. Located(operand).at = fp + Below(abi, Current, operand.cell)
  BY <1>1, <1>2, <1>3, <1>4, CellAtIs DEF At
<1>6. -(4 * StackWords) <= RunsAt(abi, Current, fp)
  BY <1>2 DEF Roomy
<1>7. QED
  BY <1>1, <1>2, <1>4, <1>5, <1>6, CellWords

LEMMA ValueSame ==
    ASSUME NEW b \in Abis, NEW frame \in FrameRecords, Placed(b, frame.base),
           -(4 * StackWords) <= RunsAt(b, frame.function, frame.base),
           NEW m, NEW n, NEW low \in Int, low <= RunsAt(b, frame.function, frame.base),
           \A x \in Words : low <= x => n[x] = m[x],
           NEW operand, Operand(frame.function, operand),
           NEW other, other.function = frame.function, other.base = frame.base
    PROVE  ValueIn(b, n, other, operand) = ValueIn(b, m, frame, operand)
<1>1. frame.function \in Functions
  BY DEF FrameRecords
<1>2. CASE operand.literal
  BY <1>2 DEF ValueIn
<1>3. CASE ~operand.literal
  <2>1. operand.cell \in CellsOf(frame.function)
    BY <1>3 DEF Operand
  <2>2. Fetch(n, frame.base + Below(b, frame.function, operand.cell))
        = Fetch(m, frame.base + Below(b, frame.function, operand.cell))
    BY <1>1, <2>1, CellSame
  <2>3. QED
    BY <1>3, <2>2 DEF ValueIn
<1>4. QED
  BY <1>2, <1>3

(* The stores of a call change nothing from the stack pointer on.          *)
LEMMA MovedBelow ==
    ASSUME NEW m, DOMAIN m = Words, NEW moves, Len(moves) \in Nat, NEW low \in Int,
           \A i \in 1 .. Len(moves) : moves[i].to \in Int /\ moves[i].to + 8 <= low
    PROVE  \A x \in Words : low <= x => Moved(m, moves)[x] = m[x]
<1> SUFFICES ASSUME NEW x \in Words, low <= x PROVE Moved(m, moves)[x] = m[x]
  OBVIOUS
<1>1. x \in Int
  BY DEF Words
<1>2. \A i \in 1 .. Len(moves) : x # moves[i].to /\ x # moves[i].to + 4
  BY <1>1
<1>3. QED
  BY <1>2, MovedKeeps

(* OP_ARG and emit_call change no activation and put every argument where  *)
(* the callee will look for it.                                            *)
LEMMA ArgumentsPassed ==
    ASSUME FramesInv, Roomy(abi, frames), mode = "running", NEW site \in Sites, site.caller = Current,
           -(4 * StackWords) <= sp - CallSize(site),
           NEW j \in 1 .. StackArguments(Len(site.arguments)),
           abi.registers + j \in 1 .. Len(site.arguments)
    PROVE  Fetch(Moved(mem, ArgumentMoves(site)), PassedAt(abi, sp - CallSize(site), abi.registers + j))
           = Load(mem, Located(site.arguments[abi.registers + j]))
<1> DEFINE size  == CallSize(site)
           top   == sp - size
           moves == ArgumentMoves(site)
           h     == abi.shadow
           r     == abi.registers
           k     == StackArguments(Len(site.arguments))
           l     == -(4 * StackWords)
<1>1. abi \in Abis /\ DOMAIN mem = Words
  BY DEF FramesInv
<1>2. /\ top \in Int /\ top % 4 = 0 /\ top <= sp /\ k \in Nat /\ Len(moves) = k
      /\ \A i \in 1 .. Len(moves) :
             /\ moves[i].from = Located(ArgumentAt(Pending(site), abi.registers + i))
             /\ moves[i].to \in Int /\ moves[i].to % 4 = 0
             /\ top <= moves[i].to /\ moves[i].to + 8 <= sp
             /\ moves[i].to = top + abi.shadow + 8 * (i - 1)
  BY ArgumentsMoved
<1>3. sp \in Int /\ sp <= Floor(abi, fp) /\ Floor(abi, fp) \in Int /\ frames # <<>>
  BY RunningAt
<1>4. sp <= 12
  <2>1. Placed(abi, fp)
    BY <1>3, Executing
  <2>2. Floor(abi, fp) <= fp /\ fp \in Int /\ abi.word \in {4, 8}
    BY <1>1, <2>1, PlacedWords
  <2>3. fp + 2 * abi.word <= 12
    BY <2>1 DEF Placed
  <2>4. QED
    BY <1>3, <2>2, <2>3
<1>5. l \in Int /\ l <= top
  BY MachineAssumption
<1>6. h \in Nat /\ r \in Nat
  BY <1>1, BackEnds
<1>7. \A i \in 1 .. k : r + i \in 1 .. Len(site.arguments)
  <2>1. Len(site.arguments) \in Nat
    BY PendingOf
  <2>2. k = IF Len(site.arguments) <= r THEN 0 ELSE Len(site.arguments) - r
    BY DEF StackArguments
  <2> HIDE DEF k, r
  <2>3. QED
    BY <1>6, <2>1, <2>2
<1> HIDE DEF size, top, moves, h, r, k, l
<1>8. ASSUME NEW i \in 1 .. k
      PROVE  /\ moves[i].from = Located(site.arguments[r + i])
             /\ Operand(Current, site.arguments[r + i])
  <2>1. r + i \in 1 .. Len(site.arguments)
    BY <1>7
  <2>2. ArgumentAt(Pending(site), r + i) = site.arguments[r + i]
    BY <2>1, PendingOf
  <2>3. Operand(site.caller, site.arguments[r + i])
    BY <2>1, ArgumentIsOperand
  <2>4. moves[i].from = Located(ArgumentAt(Pending(site), r + i))
    BY <1>2 DEF r
  <2>5. QED
    BY <2>2, <2>3, <2>4
<1>9. ASSUME NEW i \in 1 .. k
      PROVE  moves[i].to \in Int /\ moves[i].to \in Words /\ moves[i].to + 4 \in Words
  <2> DEFINE a == moves[i].to
  <2>1. a \in Int /\ a % 4 = 0 /\ top <= a /\ a + 8 <= sp
    BY <1>2
  <2> HIDE DEF a
  <2>2. l <= a /\ a + 8 <= 124
    BY <1>2, <1>3, <1>4, <1>5, <2>1
  <2>3. a \in Words /\ a + 4 \in Words
    BY <2>1, <2>2, MemoryBottom DEF l
  <2>4. QED
    BY <2>1, <2>3 DEF a
<1>10. ASSUME NEW i \in 1 .. k, NEW e \in 1 .. k, i # e
       PROVE  Clear(moves[i].to, moves[e].to)
  <2>1. moves[i].to = top + h + 8 * (i - 1) /\ moves[e].to = top + h + 8 * (e - 1)
    BY <1>2 DEF h
  <2>2. i \in Int /\ e \in Int
    BY <1>2
  <2> DEFINE a == moves[i].to
             c == moves[e].to
  <2> HIDE DEF a, c
  <2>3. a + 8 <= c \/ c + 8 <= a
    BY <1>2, <1>6, <1>10, <2>1, <2>2 DEF a, c
  <2>4. QED
    BY <2>3 DEF Clear, a, c
<1>11. ASSUME NEW i \in 1 .. k, ~moves[i].from.literal
       PROVE  /\ moves[i].from.at \in Int /\ moves[i].from.at \in Words /\ moves[i].from.at + 4 \in Words
              /\ \A e \in 1 .. k : Clear(moves[i].from.at, moves[e].to)
  <2> DEFINE a == moves[i].from.at
  <2>1. a \in Int /\ a \in Words /\ a + 4 \in Words /\ sp <= a
    <3>1. ~Located(site.arguments[r + i]).literal
      BY <1>8, <1>11
    <3>2. a = Located(site.arguments[r + i]).at
      BY <1>8
    <3> HIDE DEF a
    <3>3. QED
      BY <1>8, <3>1, <3>2, SourceIsCell
  <2>2. \A e \in 1 .. k : Clear(a, moves[e].to)
    <3> HIDE DEF a
    <3>1. \A e \in 1 .. k : moves[e].to \in Int /\ moves[e].to + 8 <= sp
      BY <1>2
    <3>2. QED
      BY ONLY <1>3, <2>1, <3>1 DEF Clear
  <2>3. QED
    BY <2>1, <2>2
<1>12. \A i \in 1 .. k : Fetch(Moved(mem, moves), moves[i].to) = Load(mem, moves[i].from)
  <2>1. Len(moves) \in Nat /\ Len(moves) = k
    BY <1>2
  <2>2. \A i \in 1 .. Len(moves) :
            moves[i].to \in Int /\ moves[i].to \in DOMAIN mem /\ moves[i].to + 4 \in DOMAIN mem
    BY <1>1, <1>9, <2>1
  <2>3. \A i, e \in 1 .. Len(moves) : i # e => Clear(moves[i].to, moves[e].to)
    BY <1>10, <2>1
  <2>4. \A i \in 1 .. Len(moves) : ~moves[i].from.literal =>
            /\ moves[i].from.at \in Int /\ moves[i].from.at \in DOMAIN mem
            /\ moves[i].from.at + 4 \in DOMAIN mem
            /\ \A e \in 1 .. Len(moves) : Clear(moves[i].from.at, moves[e].to)
    BY <1>1, <1>11, <2>1
  <2>5. QED
    BY <2>1, <2>2, <2>3, <2>4, MovedStores
<1>13. j \in 1 .. k
  BY DEF k
<1>14. PassedAt(abi, top, r + j) = moves[j].to
  <2>1. PassedAt(abi, top, r + j) = top + h + 8 * ((r + j) - r - 1)
    BY DEF PassedAt, SlotSize, h, r
  <2>2. (r + j) - r - 1 = j - 1
    BY <1>2, <1>6, <1>13
  <2>3. moves[j].to = top + h + 8 * (j - 1)
    BY <1>2, <1>13 DEF h
  <2>4. QED
    BY <2>1, <2>2, <2>3
<1>15. Fetch(Moved(mem, moves), PassedAt(abi, top, r + j)) = Load(mem, Located(site.arguments[r + j]))
  BY <1>8, <1>12, <1>13, <1>14
<1>16. QED
  BY <1>15 DEF moves, top, size, r

LEMMA StepPlacesArguments ==
    ASSUME ActivationsInv, NEW site \in Sites, PlacesArguments(site)
    PROVE  /\ Acts(abi', mem', frames') = Acts(abi, mem, frames) /\ Answer' = Answer
           /\ Roomy(abi', frames')
           /\ -(4 * StackWords) <= sp' => Passed(abi', mem', sp', regs', frames'[Len(frames')])
<1> DEFINE n     == Len(frames)
           last  == frames[n]
           size  == CallSize(site)
           top   == sp - size
           moves == ArgumentMoves(site)
           gs    == [frames EXCEPT ![n].site = site]
           count == Len(site.arguments)
<1>1. FramesInv /\ Roomy(abi, frames) /\ abi \in Abis /\ DOMAIN mem = Words /\ Chain(abi, frames)
  BY DEF ActivationsInv, FramesInv
<1>2. /\ mode = "running" /\ abi' = abi /\ mode' = "calling" /\ sp' = top /\ frames' = gs
      /\ site.caller = Current
  BY DEF PlacesArguments, Running
<1>3. mem' = Moved(mem, moves)
  BY DEF PlacesArguments, ArgumentMoves
<1>4. regs' = [i \in 1 .. RegisterArguments(Len(Pending(site))) |->
                  Load(mem, Located(ArgumentAt(Pending(site), i)))]
  BY DEF PlacesArguments
<1>5. frames # <<>> /\ sp = RunsAt(abi, last.function, fp) /\ sp \in Int
  BY <1>1, <1>2, RunningAt
<1>6. n \in Nat /\ n \in 1 .. n /\ fp = last.base /\ Placed(abi, fp) /\ last \in FrameRecords
      /\ Current = last.function /\ Current \in Functions
  BY <1>1, <1>5, Executing
<1>7. Len(gs) = n /\ \A k \in 1 .. n : gs[k].function = frames[k].function /\ gs[k].base = frames[k].base
  BY <1>1, <1>5, MarkedSame
<1>8. gs[n].site = site
  BY <1>1, <1>5, ChainMarked
<1>9. Len(moves) \in Nat /\ \A i \in 1 .. Len(moves) : moves[i].to \in Int /\ moves[i].to + 8 <= sp
  BY <1>1, <1>2, ArgumentsMoved
<1>10. -(4 * StackWords) <= sp
  <2>1. -(4 * StackWords) <= RunsAt(abi, last.function, last.base)
    BY <1>1, <1>6 DEF Roomy
  <2>2. QED
    BY <1>5, <1>6, <2>1
<1> HIDE DEF gs, moves
<1>11. \A x \in Words : sp <= x => mem'[x] = mem[x]
  BY <1>1, <1>3, <1>5, <1>9, MovedBelow
<1>12. sp <= sp /\ sp <= RunsAt(abi, last.function, last.base)
  BY <1>5, <1>6
<1>13. Acts(abi', mem', frames') = Acts(abi, mem, frames)
  <2>1. \A k \in 1 .. n : ActOf(abi, mem', frames[k]) = ActOf(abi, mem, frames[k])
    BY <1>1, <1>5, <1>11, <1>12, AllActsSame
  <2>2. QED
    BY <1>2, <1>7, <2>1, ActsSame
<1>14. Roomy(abi', frames')
  BY <1>1, <1>2, <1>7, RoomySame
<1>15. Answer' = Answer
  BY <1>2 DEF Answer
<1>16. ASSUME -(4 * StackWords) <= top PROVE Passed(abi, mem', top, regs', gs[n])
  <2>1. count \in Nat /\ Len(Pending(site)) = count /\ abi.registers \in Nat
    BY <1>1, PendingOf, BackEnds
  <2> SUFFICES ASSUME NEW i \in 1 .. count
               PROVE  ValueIn(abi, mem', gs[n], site.arguments[i]) =
                          IF i <= abi.registers THEN regs'[i] ELSE Fetch(mem', PassedAt(abi, top, i))
    BY <1>8 DEF Passed
  <2> DEFINE operand == site.arguments[i]
             value   == ValueIn(abi, mem, last, operand)
  <2>2. Operand(Current, operand)
    BY <1>2, ArgumentIsOperand
  <2>3. Load(mem, Located(operand)) = value
    BY <1>1, <1>2, <2>2, LoadIsValue
  <2>4. ValueIn(abi, mem', gs[n], operand) = value
    <3>1. -(4 * StackWords) <= RunsAt(abi, last.function, last.base)
      BY <1>1, <1>6 DEF Roomy
    <3>2. Operand(last.function, operand) /\ Placed(abi, last.base)
          /\ gs[n].function = last.function /\ gs[n].base = last.base
      BY <1>6, <1>7, <2>2
    <3> HIDE DEF last, operand
    <3>3. QED
      BY <1>1, <1>5, <1>6, <1>11, <1>12, <3>1, <3>2, ValueSame
  <2> HIDE DEF value
  <2>5. CASE i <= abi.registers
    <3>1. i \in 1 .. RegisterArguments(Len(Pending(site)))
      BY <2>1, <2>5 DEF RegisterArguments
    <3>2. ArgumentAt(Pending(site), i) = operand
      BY PendingOf
    <3>3. regs'[i] = Load(mem, Located(operand))
      BY <1>4, <3>1, <3>2
    <3>4. QED
      BY <2>3, <2>4, <2>5, <3>3
  <2>6. CASE ~(i <= abi.registers)
    <3> DEFINE j == i - abi.registers
    <3>1. j \in 1 .. StackArguments(count) /\ abi.registers + j = i
      BY <2>1, <2>6 DEF StackArguments
    <3> HIDE DEF j
    <3>2. Fetch(Moved(mem, moves), PassedAt(abi, sp - CallSize(site), abi.registers + j))
          = Load(mem, Located(site.arguments[abi.registers + j]))
      BY <1>1, <1>2, <1>16, <3>1, ArgumentsPassed DEF moves
    <3>3. QED
      BY <1>3, <2>3, <2>4, <2>6, <3>1, <3>2
  <2>7. QED
    BY <2>5, <2>6
<1>17. QED
  BY <1>2, <1>7, <1>13, <1>14, <1>15, <1>16

(* The innermost activation.                                               *)
LEMMA LastAct ==
    ASSUME NEW b, NEW m, NEW fs, Len(fs) \in Nat, Len(fs) # 0
    PROVE  LET A    == Acts(b, m, fs)
               last == fs[Len(fs)]
           IN  /\ A # <<>> /\ Len(A) = Len(fs) /\ Last(A).function = last.function
               /\ DOMAIN Last(A).cells = CellsOf(last.function)
               /\ \A c \in CellsOf(last.function) :
                      Last(A).cells[c] = Fetch(m, last.base + Below(b, last.function, c))
<1> DEFINE A    == Acts(b, m, fs)
           last == fs[Len(fs)]
<1>1. Len(A) = Len(fs) /\ A # <<>> /\ \A k \in 1 .. Len(fs) : A[k] = ActOf(b, m, fs[k])
  BY ActsFacts
<1>2. Len(fs) \in 1 .. Len(fs)
  OBVIOUS
<1> HIDE DEF A
<1>3. Last(A) = ActOf(b, m, last)
  BY <1>1, <1>2 DEF Last
<1> HIDE DEF last
<1>4. /\ ActOf(b, m, last).function = last.function
      /\ DOMAIN ActOf(b, m, last).cells = CellsOf(last.function)
      /\ \A c \in CellsOf(last.function) :
             ActOf(b, m, last).cells[c] = Fetch(m, last.base + Below(b, last.function, c))
  BY DEF ActOf
<1>5. QED
  BY <1>1, <1>3, <1>4 DEF A, last

(* A store into a cell of the innermost frame changes that cell alone.     *)
LEMMA CellChanged ==
    ASSUME FramesInv, Roomy(abi, frames), frames # <<>>, NEW c \in CellsOf(Current), NEW v,
           NEW gs, Len(gs) = Len(frames),
           \A k \in 1 .. Len(frames) : gs[k].function = frames[k].function /\ gs[k].base = frames[k].base
    PROVE  Acts(abi, Put(mem, CellAt(Current, fp, c), v), gs)
           = [Acts(abi, mem, frames) EXCEPT ![Len(frames)].cells[c] = v]
<1> DEFINE l == Len(frames)
           f == Current
           d == fp + Below(abi, f, c)
           n == Put(mem, d, v)
<1>1. abi \in Abis /\ DOMAIN mem = Words /\ Chain(abi, frames)
  BY DEF FramesInv
<1>2. l \in Nat /\ l \in 1 .. l /\ f = frames[l].function /\ f \in Functions
      /\ fp = frames[l].base /\ Placed(abi, fp)
  BY Executing
<1>3. CellAt(f, fp, c) = d
  BY <1>1, <1>2, CellAtIs
<1>4. -(4 * StackWords) <= RunsAt(abi, f, fp)
  BY <1>2 DEF Roomy
<1>5. d \in Int /\ d \in Words /\ d + 4 \in Words /\ d + 8 <= Floor(abi, fp)
  BY <1>1, <1>2, <1>4, CellWords
<1>6. Floor(abi, fp) \in Int /\ Floor(abi, fp) <= fp /\ fp \in Int /\ abi.word \in {4, 8}
  BY <1>1, <1>2, PlacedWords
<1>7. \A e \in CellsOf(f) :
          e # c => Fetch(n, fp + Below(abi, f, e)) = Fetch(mem, fp + Below(abi, f, e))
  <2> SUFFICES ASSUME NEW e \in CellsOf(f), e # c
               PROVE  Fetch(n, fp + Below(abi, f, e)) = Fetch(mem, fp + Below(abi, f, e))
    OBVIOUS
  <2> DEFINE a == fp + Below(abi, f, e)
  <2>1. a \in Int /\ a \in Words /\ a + 4 \in Words
    BY <1>1, <1>2, <1>4, CellWords
  <2>2. Clear(a, d)
    <3> DEFINE x == Below(abi, f, e)
               y == Below(abi, f, c)
    <3>1. x \in Int /\ y \in Int /\ (x + 8 <= y \/ y + 8 <= x)
      BY <1>1, <1>2, CellBounds, CellsApart
    <3> HIDE DEF x, y
    <3>2. fp + x + 8 <= fp + y \/ fp + y + 8 <= fp + x
      BY <1>6, <3>1
    <3>3. QED
      BY <3>2 DEF Clear, x, y
  <2> HIDE DEF a, d
  <2>3. n[a] = mem[a] /\ n[a + 4] = mem[a + 4]
    BY <1>1, <1>5, <2>1, <2>2, PutClear
  <2>4. Fetch(n, a) = Fetch(mem, a)
    BY <2>3, FetchSame
  <2>5. QED
    BY <2>4 DEF a
<1>8. \A k \in 1 .. l : k # l => ActOf(abi, n, frames[k]) = ActOf(abi, mem, frames[k])
  <2> DEFINE low == fp + 2 * abi.word
  <2>1. low \in Int /\ low <= frames[l].base + 2 * abi.word
    BY <1>2, <1>6
  <2>2. \A x \in Words : low <= x => n[x] = mem[x]
    <3> SUFFICES ASSUME NEW x \in Words, low <= x PROVE n[x] = mem[x]
      OBVIOUS
    <3>1. x \in Int
      BY DEF Words
    <3> HIDE DEF d
    <3>2. x # d /\ x # d + 4
      BY <1>5, <1>6, <3>1
    <3>3. QED
      BY <1>1, <3>2, PutKeeps
  <2> HIDE DEF low, n
  <2>3. abi \in Abis /\ Chain(abi, frames) /\ Roomy(abi, frames) /\ frames # <<>>
    BY <1>1
  <2>4. \A k \in 1 .. Len(frames) :
            k # Len(frames) => ActOf(abi, n, frames[k]) = ActOf(abi, mem, frames[k])
    BY ONLY <2>1, <2>2, <2>3, OlderActsSame
  <2>5. QED
    BY <2>4
<1>9. Fetch(n, d) = v
  <2> HIDE DEF d
  <2>1. QED
    BY <1>1, <1>5, PutGets
<1> HIDE DEF n, f
<1> DEFINE last == frames[Len(frames)]
<1>10. /\ last = frames[Len(frames)] /\ c \in CellsOf(last.function)
       /\ v = Fetch(n, last.base + Below(abi, last.function, c))
       /\ \A e \in CellsOf(last.function) : e # c =>
              Fetch(n, last.base + Below(abi, last.function, e))
              = Fetch(mem, last.base + Below(abi, last.function, e))
       /\ Len(frames) \in Nat /\ Len(frames) # 0
  <2>1. f = last.function /\ fp = last.base /\ c \in CellsOf(f) /\ Len(frames) \in Nat /\ Len(frames) # 0
    BY <1>2 DEF f
  <2>2. v = Fetch(n, fp + Below(abi, f, c))
    BY <1>9
  <2> HIDE DEF last
  <2>3. QED
    BY <1>7, <2>1, <2>2 DEF last
<1> HIDE DEF last
<1>11. \A k \in 1 .. Len(frames) :
           k # Len(frames) => ActOf(abi, n, frames[k]) = ActOf(abi, mem, frames[k])
  BY <1>8
<1>12. Acts(abi, n, gs) = WithCell(Acts(abi, mem, frames), Len(frames), c, v)
  BY <1>10, <1>11, ActsChanged, SMTT(30)
<1>13. QED
  BY <1>3, <1>12 DEF n, f, WithCell

(* A computation assigns to one cell of the innermost activation.          *)
LEMMA StepAssigns ==
    ASSUME ActivationsInv, FramesInv', NEW c \in CellsOf(Current), NEW value, Assigns(c, value)
    PROVE  Promised!Next /\ Roomy(abi', frames')
<1> DEFINE A == Acts(abi, mem, frames)
           B == Acts(abi', mem', frames')
           n == Len(frames)
<1>1. FramesInv /\ Roomy(abi, frames)
  BY DEF ActivationsInv
<1>2. mode = "running" /\ abi' = abi /\ mode' = mode /\ frames' = frames
      /\ mem' = Put(mem, CellAt(Current, fp, c), value)
  BY DEF Assigns, Running
<1>3. frames # <<>>
  BY <1>1, <1>2, RunningAt
<1>4. n \in Nat /\ n # 0 /\ Current = frames[n].function
  BY <1>1, <1>3, Executing
<1>5. B = [A EXCEPT ![n].cells[c] = value]
  BY <1>1, <1>2, <1>3, CellChanged
<1>6. A # <<>> /\ Len(A) = n /\ Last(A).function = Current /\ c \in Cells[Last(A).function]
  BY <1>4, LastAct DEF CellsOf
<1>7. Len(B) = n
  BY <1>2, <1>4, LastAct
<1>8. Last(B).cells[c] = value
  <2> DEFINE d == fp + Below(abi, Current, c)
  <2>1. Last(B).cells[c] = Fetch(mem', frames[n].base + Below(abi, Current, c))
    BY <1>2, <1>4, LastAct
  <2>2. fp = frames[n].base /\ Placed(abi, fp) /\ Current \in Functions /\ n \in 1 .. n
    BY <1>1, <1>3, Executing
  <2>3. abi \in Abis /\ DOMAIN mem = Words
    BY <1>1 DEF FramesInv
  <2>4. -(4 * StackWords) <= RunsAt(abi, Current, fp)
    BY <1>1, <1>4, <2>2 DEF Roomy
  <2>5. d \in Int /\ d \in Words /\ d + 4 \in Words
    BY <2>2, <2>3, <2>4, CellWords
  <2>6. mem' = Put(mem, d, value)
    BY <1>2, <2>2, <2>3, CellAtIs
  <2>7. Last(B).cells[c] = Fetch(mem', d)
    BY <2>1, <2>2
  <2> HIDE DEF d, B
  <2>8. Fetch(mem', d) = value
    BY <2>3, <2>5, <2>6, PutGets
  <2>9. QED
    BY <2>7, <2>8
<1>9. Activated = A /\ Activated' = B /\ Answer = <<>> /\ Answer' = <<>>
  BY <1>1, <1>2, ActivatedIs, ActivatedNext DEF Answer
<1>10. Roomy(abi', frames')
  BY <1>1, <1>2
<1> HIDE DEF A, B
<1>11. Promised!Assign(c, Last(Activated').cells[c])
  BY <1>5, <1>6, <1>8, <1>9 DEF Promised!Assign, Promised!Current, Promised!Last, Last
<1>12. Promised!Next
  BY <1>6, <1>7, <1>9, <1>11 DEF Promised!Next, Promised!Current, Promised!Last, Last
<1>13. QED
  BY <1>10, <1>12

(* The library changes no activation.                                      *)
LEMMA StepCallsLibrary ==
    ASSUME ActivationsInv, CallsLibrary
    PROVE  /\ Acts(abi', mem', frames') = Acts(abi, mem, frames) /\ Answer' = Answer
           /\ Roomy(abi', frames')
<1>1. Roomy(abi, frames) /\ mode = "running" /\ mode' = "library" /\ abi' = abi /\ mem' = mem
      /\ frames' = frames
  BY DEF ActivationsInv, CallsLibrary, Running
<1>2. QED
  BY <1>1 DEF Answer

LEMMA StepLibraryReturns ==
    ASSUME ActivationsInv, LibraryReturns
    PROVE  /\ Acts(abi', mem', frames') = Acts(abi, mem, frames) /\ Answer' = Answer
           /\ Roomy(abi', frames')
<1> DEFINE n    == Len(frames)
           runs == RunsAt(abi, frames[n].function, frames[n].base)
           low  == sp + abi.owned
<1>1. FramesInv /\ Roomy(abi, frames) /\ abi \in Abis /\ Chain(abi, frames)
      /\ Poised(abi, mode, sp, fp, kept, frames)
  BY DEF ActivationsInv, FramesInv
<1>2. /\ mode = "library" /\ mode' = "running" /\ abi' = abi /\ frames' = frames
      /\ mem' = [a \in Words |-> IF a < low THEN Unwritten ELSE mem[a]]
  BY DEF LibraryReturns
<1>3. frames # <<>> /\ sp = runs - abi.window
  BY <1>1, <1>2 DEF Poised
<1>4. runs \in Int
  BY <1>1, <1>3, Executing, RunsBelow
<1>5. abi.window \in Nat /\ abi.owned \in Nat /\ abi.owned <= abi.window
  BY <1>1, BackEnds
<1>6. low \in Int /\ low <= runs
  <2> HIDE DEF runs
  <2>1. QED
    BY <1>3, <1>4, <1>5
<1>7. \A x \in Words : low <= x => mem'[x] = mem[x]
  <2> SUFFICES ASSUME NEW x \in Words, low <= x PROVE mem'[x] = mem[x]
    OBVIOUS
  <2>1. x \in Int
    BY DEF Words
  <2>2. ~(x < low)
    BY <1>6, <2>1
  <2> HIDE DEF low
  <2>3. QED
    BY <1>2, <2>2
<1> HIDE DEF low
<1>8. \A k \in 1 .. n : ActOf(abi, mem', frames[k]) = ActOf(abi, mem, frames[k])
  BY <1>1, <1>6, <1>7, AllActsSame
<1>9. Acts(abi, mem', frames) = Acts(abi, mem, frames)
  BY <1>8, ActsSame
<1>10. QED
  BY <1>1, <1>2, <1>9 DEF Answer

(* A return drops the innermost activation and hands over the value of one *)
(* of its cells.                                                           *)
LEMMA StepReturns ==
    ASSUME ActivationsInv, FramesInv', NEW c \in CellsOf(Current), Returns(c)
    PROVE  Promised!Next /\ Roomy(abi', frames')
<1> DEFINE A  == Acts(abi, mem, frames)
           B  == Acts(abi', mem', frames')
           n  == Len(frames)
           to == SavedIn(abi, mem, fp + abi.word)
<1>1. FramesInv /\ Roomy(abi, frames) /\ abi \in Abis /\ Linked(abi, mem, frames)
  BY DEF ActivationsInv, FramesInv
<1>2. mode = "running" /\ abi' = abi /\ mem' = mem /\ rax' = Fetch(mem, CellAt(Current, fp, c))
  BY DEF Returns, Running
<1>3. /\ mode' = IF to = 0 THEN "host" ELSE IF to \in DOMAIN frames THEN "returned" ELSE "lost"
      /\ frames' = IF to \in DOMAIN frames THEN SubSeq(frames, 1, to) ELSE <<>>
  BY DEF Returns, Saved, SavedIn
<1>4. frames # <<>>
  BY <1>1, <1>2, RunningAt
<1>5. n \in Nat /\ n \in 1 .. n /\ DOMAIN frames = 1 .. n /\ fp = frames[n].base /\ Placed(abi, fp)
      /\ Current = frames[n].function /\ Current \in Functions
  BY <1>1, <1>4, Executing
<1>6. to = n - 1
  <2>1. SavedIn(abi, mem, frames[n].base + abi.word) = n - 1
    BY <1>1, <1>5 DEF Linked
  <2>2. QED
    BY <1>5, <2>1
<1>7. /\ A # <<>> /\ Len(A) = n /\ Last(A).function = Current /\ c \in Cells[Current]
      /\ Last(A).cells[c] = rax'
  <2>1. CellAt(Current, fp, c) = fp + Below(abi, Current, c)
    BY <1>1, <1>5, CellAtIs
  <2>2. A # <<>> /\ Len(A) = n /\ Last(A).function = Current
        /\ Last(A).cells[c] = Fetch(mem, fp + Below(abi, Current, c))
    BY <1>5, LastAct
  <2>3. QED
    BY <1>2, <2>1, <2>2 DEF CellsOf
<1> HIDE DEF to
<1>8. /\ Len(frames') = n - 1 /\ \A k \in 1 .. n - 1 : frames'[k] = frames[k]
      /\ n = 1 => mode' = "host"
      /\ n # 1 => mode' = "returned"
  <2>1. CASE n = 1
    <3>1. to = 0 /\ to \notin DOMAIN frames
      BY <1>5, <1>6, <2>1
    <3>2. mode' = "host" /\ frames' = <<>>
      BY <1>3, <3>1
    <3>3. Len(frames') = 0
      BY <3>2, EmptySeq
    <3>4. n - 1 = 0
      BY <2>1
    <3>5. QED
      BY <2>1, <3>2, <3>3, <3>4
  <2>2. CASE n # 1
    <3> DEFINE k == n - 1
    <3>1. k \in Nat /\ k # 0 /\ n = k + 1 /\ to = k /\ to \in DOMAIN frames
      BY <1>5, <1>6, <2>2
    <3>2. mode' = "returned" /\ frames' = SubSeq(frames, 1, k)
      BY <1>3, <3>1
    <3> HIDE DEF k
    <3>3. Len(frames') = k /\ \A i \in 1 .. k : frames'[i] = frames[i]
      <4>1. frames' = [i \in 1 .. k |-> frames[i]]
        <5>1. SubSeq(frames, 1, k) = [i \in 1 .. 1 + k - 1 |-> frames[i + 1 - 1]]
          BY <3>1
        <5>2. QED
          BY <3>1, <3>2, <5>1
      <4>2. frames' = [i \in 1 .. k |-> frames'[i]] /\ \A i \in 1 .. k : frames'[i] = frames[i]
        BY <4>1
      <4>3. QED
        BY <3>1, <4>2, FunctionLength
    <3>4. QED
      BY <2>2, <3>2, <3>3 DEF k
  <2>3. QED
    BY <2>1, <2>2
<1>9. Len(B) = n - 1 /\ B = Front(A) /\ (B = <<>> <=> n = 1)
  <2>1. n - 1 \in Nat
    BY <1>5
  <2>2. Len(B) = n - 1 /\ (B = <<>> <=> n - 1 = 0)
    BY <1>8, <2>1, ActsFacts
  <2>3. B = [k \in 1 .. n - 1 |-> ActOf(abi, mem, frames[k])]
    BY <1>2, <1>8 DEF Acts
  <2>4. \A k \in 1 .. n : A[k] = ActOf(abi, mem, frames[k])
    BY <1>5, ActsFacts
  <2> HIDE DEF A, B
  <2>5. Front(A) = [k \in 1 .. n - 1 |-> A[k]]
    <3>1. Front(A) = SubSeq(A, 1, n - 1)
      BY <1>7 DEF Front
    <3> DEFINE k == n - 1
    <3>2. k \in Nat
      BY <2>1
    <3> HIDE DEF k
    <3>3. SubSeq(A, 1, k) = [i \in 1 .. k |-> A[i]]
      <4>1. SubSeq(A, 1, k) = [i \in 1 .. 1 + k - 1 |-> A[i + 1 - 1]]
        BY <3>2
      <4>2. QED
        BY <3>2, <4>1
    <3>4. QED
      BY <3>1, <3>3 DEF k
  <2>6. \A k \in 1 .. n - 1 : A[k] = ActOf(abi, mem, frames[k])
    BY <1>5, <2>4
  <2>7. B = Front(A)
    BY <2>3, <2>5, <2>6
  <2>8. n - 1 = 0 <=> n = 1
    BY <1>5
  <2>9. QED
    BY <2>2, <2>7, <2>8
<1>10. Activated = A /\ Activated' = B /\ Answer = <<>>
       /\ Answer' = IF B = <<>> THEN <<>> ELSE <<Last(A).cells[c]>>
  <2>1. Answer' = IF n = 1 THEN <<>> ELSE <<rax'>>
    BY <1>8 DEF Answer
  <2>2. Answer = <<>>
    BY <1>2 DEF Answer
  <2>3. QED
    BY <1>1, <1>7, <1>9, <2>1, <2>2, ActivatedIs, ActivatedNext
<1>11. Roomy(abi', frames')
  <2>1. ASSUME NEW k \in 1 .. n - 1
        PROVE  -(4 * StackWords) <= RunsAt(abi, frames'[k].function, frames'[k].base)
    <3>1. k \in 1 .. n /\ frames'[k] = frames[k]
      BY <1>5, <1>8
    <3>2. QED
      BY <1>1, <3>1 DEF Roomy
  <2>2. QED
    BY <1>2, <1>8, <2>1 DEF Roomy
<1> HIDE DEF A, B
<1>12. Promised!Return(c)
  BY <1>7, <1>9, <1>10
  DEF Promised!Return, Promised!Current, Promised!Last, Promised!Front, Last, Front
<1>13. Promised!Next
  BY <1>5, <1>7, <1>12 DEF Promised!Next
<1>14. QED
  BY <1>11, <1>13

(* The caller goes on with the value in the variable the call assigns to.  *)
LEMMA StepContinues ==
    ASSUME ActivationsInv, FramesInv', Continues
    PROVE  Promised!Next /\ Roomy(abi', frames')
<1> DEFINE A    == Acts(abi, mem, frames)
           B    == Acts(abi', mem', frames')
           n    == Len(frames)
           site == frames[n].site
           gs   == [frames EXCEPT ![n].site = <<>>]
<1>1. FramesInv /\ Roomy(abi, frames) /\ Chain(abi, frames) /\ Poised(abi, mode, sp, fp, kept, frames)
  BY DEF ActivationsInv, FramesInv
<1>2. mode = "returned" /\ abi' = abi /\ mode' = "running" /\ frames' = gs
  BY DEF Continues
<1>3. frames # <<>>
  BY <1>1, <1>2 DEF Poised
<1>4. n \in Nat /\ n \in 1 .. n /\ Last(frames) = frames[n] /\ Current = frames[n].function
      /\ Current \in Functions
  BY <1>1, <1>3, Executing
<1>5. mem' = IF site.target = <<>> THEN mem ELSE Put(mem, CellAt(Current, fp, site.target), rax)
  BY <1>4 DEF Continues
<1>6. site \in Sites /\ site.caller = Current
  BY <1>1, <1>2, <1>3, <1>4 DEF Poised, CallsFrom
<1>7. Len(gs) = n /\ \A k \in 1 .. n : gs[k].function = frames[k].function /\ gs[k].base = frames[k].base
  BY <1>1, <1>3, MarkedSame
<1>8. A # <<>> /\ Last(A).function = Current /\ Len(A) = n
  BY <1>4, LastAct
<1> HIDE DEF gs
<1>9. B = IF site.target = <<>> THEN A ELSE [A EXCEPT ![n].cells[site.target] = rax]
  <2>1. CASE site.target = <<>>
    <3>1. mem' = mem
      BY <1>5, <2>1
    <3>2. B = A
      BY <1>2, <1>7, <3>1, ActsSame
    <3>3. QED
      BY <2>1, <3>2
  <2>2. CASE site.target # <<>>
    <3>1. site.target \in CellsOf(Current)
      BY <1>6, <2>2, CodeAssumption
    <3>2. mem' = Put(mem, CellAt(Current, fp, site.target), rax)
      BY <1>5, <2>2
    <3> HIDE DEF site
    <3>3. Acts(abi, Put(mem, CellAt(Current, fp, site.target), rax), gs)
          = [A EXCEPT ![n].cells[site.target] = rax]
      BY <1>1, <1>3, <1>7, <3>1, CellChanged
    <3>4. QED
      BY <1>2, <2>2, <3>2, <3>3
  <2>3. QED
    BY <2>1, <2>2
<1>10. Activated = A /\ Activated' = B /\ Answer = <<rax>> /\ Answer' = <<>>
  BY <1>1, <1>2, ActivatedIs, ActivatedNext DEF Answer
<1>11. Roomy(abi', frames')
  BY <1>1, <1>2, <1>7, RoomySame
<1>12. <<rax>> # <<>> /\ <<rax>>[1] = rax
  OBVIOUS
<1> HIDE DEF A, B, site
<1>13. Promised!Store(site)
  BY <1>6, <1>8, <1>9, <1>10, <1>12 DEF Promised!Store, Promised!Current, Promised!Last, Last
<1>14. Promised!Next
  BY <1>6, <1>13 DEF Promised!Next
<1>15. QED
  BY <1>11, <1>14

(* The prologue saves registers below the stack pointer of the call.       *)
LEMMA SavesKeeps ==
    ASSUME NEW b \in Abis, NEW m, DOMAIN m = Words, NEW base, Placed(b, base),
           NEW caller, NEW p, NEW kp
    PROVE  /\ DOMAIN Saves(b, m, base, caller, p, kp) = Words
           /\ \A x \in Words : base + 2 * b.word <= x => Saves(b, m, base, caller, p, kp)[x] = m[x]
<1> DEFINE m1 == SaveIn(b, m, base + b.word, caller)
           m2 == SaveIn(b, m1, base, p)
           m3 == SaveIn(b, m2, base - b.word, kp)
           S  == Saves(b, m, base, caller, p, kp)
<1>1. base \in Int /\ b.word \in {4, 8} /\ base - b.word \in Int /\ base + b.word \in Int
  BY PlacedWords
<1>2. S = IF b.saves THEN m3 ELSE m2
  BY DEF Saves
<1> HIDE DEF S
<1>3. DOMAIN m1 = Words /\ \A x \in Words : base + b.word + b.word <= x => m1[x] = m[x]
  BY <1>1, SaveKeeps
<1> HIDE DEF m1
<1>4. DOMAIN m2 = Words /\ \A x \in Words : base + b.word <= x => m2[x] = m1[x]
  BY <1>1, <1>3, SaveKeeps
<1> HIDE DEF m2
<1>5. DOMAIN m3 = Words /\ \A x \in Words : base - b.word + b.word <= x => m3[x] = m2[x]
  BY <1>1, <1>4, SaveKeeps
<1> HIDE DEF m3
<1>6. ASSUME NEW x \in Words, base + 2 * b.word <= x PROVE m2[x] = m[x] /\ m3[x] = m[x]
  <2>1. x \in Int
    BY DEF Words
  <2>2. base + b.word + b.word <= x /\ base + b.word <= x /\ base - b.word + b.word <= x
    BY <1>1, <1>6, <2>1
  <2>3. QED
    BY <1>3, <1>4, <1>5, <2>2
<1>7. QED
  BY <1>2, <1>4, <1>5, <1>6 DEF S

LEMMA RoomForFrame ==
    ASSUME FramesInv, mode = "calling", NEW f \in Functions, HasRoom(f)
    PROVE  -(4 * StackWords) <= RunsAt(abi, f, sp - 2 * abi.word) /\ -(4 * StackWords) <= sp
<1> DEFINE w    == abi.word
           size == FrameSizes[abi][f]
           l    == -(4 * StackWords)
           base == sp - 2 * w
           r    == RunsAt(abi, f, base)
<1>1. abi \in Abis /\ w \in {4, 8} /\ abi.saves \in BOOLEAN
  BY BackEnds DEF FramesInv
<1>2. sp \in Int /\ l \in Int
  BY CallAligned, MachineAssumption
<1>3. size \in Nat
  BY <1>1, FrameSizeOf
<1>4. sp - (3 * w + size + 16) >= l
  BY DEF HasRoom
<1>5. r = IF abi.saves THEN AlignDown(base - w - size) ELSE base - size
  BY DEF RunsAt
<1> HIDE DEF size, l, r
<1> DEFINE d == base - w - size
<1>6. base \in Int /\ d \in Int /\ base = sp - 2 * w
  BY <1>1, <1>2, <1>3
<1>7. d = sp - 3 * w - size
  BY <1>1, <1>2, <1>3
<1> HIDE DEF w, d
<1>8. AlignDown(d) \in Int /\ d < AlignDown(d) + 16
  BY <1>6, RoundingDown
<1>9. l <= sp
  BY <1>1, <1>2, <1>3, <1>4
<1>10. l <= AlignDown(d)
  BY <1>1, <1>2, <1>3, <1>4, <1>6, <1>7, <1>8
<1>11. l <= base - size
  BY <1>1, <1>2, <1>3, <1>4, <1>6
<1>12. l <= r
  BY <1>5, <1>10, <1>11 DEF d
<1>13. QED
  BY <1>9, <1>12 DEF l, r, w

(* An argument on the stack lies in the machine's words, from the stack    *)
(* pointer on.                                                             *)
LEMMA IncomingWords ==
    ASSUME FramesInv, mode = "calling", frames # <<>>, -(4 * StackWords) <= sp,
           NEW i \in 1 .. Len(frames[Len(frames)].site.arguments), ~(i <= abi.registers)
    PROVE  LET a == PassedAt(abi, sp, i)
           IN  a \in Int /\ sp <= a /\ a \in Words /\ a + 4 \in Words
<1> DEFINE last == frames[Len(frames)]
           site == last.site
           j    == i - abi.registers
           r    == RunsAt(abi, last.function, last.base)
           a    == PassedAt(abi, sp, i)
           l    == -(4 * StackWords)
           size == CallSize(site)
<1>1. abi \in Abis /\ Poised(abi, mode, sp, fp, kept, frames)
  BY DEF FramesInv
<1>2. last \in FrameRecords /\ Placed(abi, last.base) /\ last.function \in Functions
  BY Executing DEF FrameRecords
<1>3. site \in Sites /\ sp = r - Area(abi, site)
  BY <1>1 DEF Poised, CallsFrom, Top
<1>4. sp \in Int /\ sp % 4 = 0
  BY CallAligned
<1>5. r \in Int /\ r <= Floor(abi, last.base)
  BY <1>1, <1>2, RunsBelow
<1>6. Floor(abi, last.base) \in Int /\ Floor(abi, last.base) <= last.base /\ last.base \in Int
      /\ abi.word \in {4, 8}
  BY <1>1, <1>2, PlacedWords
<1>7. last.base + 2 * abi.word <= 12
  BY <1>2 DEF Placed
<1>8. size \in Nat /\ size = Area(abi, site)
  BY <1>1, <1>3, AreaOf, CallSizeIs
<1>9. abi.registers \in Nat /\ Len(site.arguments) \in Nat
  BY <1>1, <1>3, BackEnds, PendingOf
<1>10. j \in 1 .. StackArguments(Len(site.arguments)) /\ abi.registers + j = i
  BY <1>9 DEF StackArguments
<1> HIDE DEF j
<1>11. LET o == Outgoing(sp, abi.registers + j)
       IN  o \in Int /\ o % 4 = 0 /\ sp <= o /\ o + 8 <= sp + size
  BY <1>1, <1>3, <1>4, <1>10, OutgoingInArea
<1>12. Outgoing(sp, abi.registers + j) = a
  BY <1>10 DEF Outgoing, PassedAt
<1>13. l \in Int /\ l <= sp
  BY MachineAssumption
<1> HIDE DEF a, l, r, size, site, last
<1>14. a \in Int /\ a % 4 = 0 /\ sp <= a /\ a + 8 <= sp + size
  BY <1>11, <1>12
<1>15. l <= a /\ a + 8 <= 124
  <2> DEFINE low  == Floor(abi, last.base)
             base == last.base
             w    == abi.word
             area == Area(abi, site)
  <2>1. sp = r - area /\ size = area /\ area \in Nat /\ r \in Int /\ r <= low /\ low \in Int
        /\ low <= base /\ base \in Int /\ w \in {4, 8} /\ base + 2 * w <= 12
    BY <1>3, <1>5, <1>6, <1>7, <1>8
  <2> HIDE DEF low, base, w, area
  <2>2. sp + size = r
    BY <2>1
  <2>3. r <= 12
    BY <2>1
  <2>4. QED
    BY <1>4, <1>13, <1>14, <2>1, <2>2, <2>3
<1>16. a \in Words /\ a + 4 \in Words
  BY <1>14, <1>15, MemoryBottom DEF l
<1>17. QED
  BY <1>14, <1>16 DEF a

LEMMA ParametersDiffer ==
    ASSUME NEW f \in Functions, NEW i \in 1 .. Len(Parameters[f]), NEW j \in 1 .. Len(Parameters[f]), i # j
    PROVE  <<Parameters[f][i], 0>> # <<Parameters[f][j], 0>>
<1>1. /\ i \in 1 .. Len(Slots(f)) /\ Slots(f)[i].name = Parameters[f][i]
      /\ j \in 1 .. Len(Slots(f)) /\ Slots(f)[j].name = Parameters[f][j]
      /\ DOMAIN Slots(f) = 1 .. Len(Slots(f))
  BY SlotFacts
<1>2. Slots(f)[i].name = Slots(f)[j].name => i = j
  BY <1>1, CodeAssumption
<1>3. QED
  BY <1>1, <1>2

(* emit_arguments: every parameter starts as the argument passed for it.   *)
LEMMA ParametersStored ==
    ASSUME FramesInv, mode = "calling", frames # <<>>, NEW f \in Functions, HasRoom(f),
           Len(Parameters[f]) = Len(frames[Len(frames)].site.arguments),
           NEW base, base = sp - 2 * abi.word,
           NEW saved, DOMAIN saved = Words, \A x \in Words : sp <= x => saved[x] = mem[x]
    PROVE  \A i \in 1 .. Len(Parameters[f]) :
               Fetch(Moved(saved, EntryMoves(f, base)), base + Below(abi, f, <<Parameters[f][i], 0>>))
               = IF i <= abi.registers THEN regs[i] ELSE Fetch(mem, PassedAt(abi, sp, i))
<1> DEFINE p     == Len(Parameters[f])
           moves == EntryMoves(f, base)
           C(i)  == <<Parameters[f][i], 0>>
<1>1. abi \in Abis /\ sp \in Int
  BY CallAligned DEF FramesInv
<1>2. Placed(abi, base) /\ base + 2 * abi.word = sp /\ base \in Int /\ abi.word \in {4, 8}
  BY NewBase
<1>3. -(4 * StackWords) <= RunsAt(abi, f, base) /\ -(4 * StackWords) <= sp
  BY RoomForFrame
<1>4. Floor(abi, base) \in Int /\ Floor(abi, base) <= base
  BY <1>1, <1>2, PlacedWords
<1>5. p \in Nat
  BY SlotFacts
<1>6. /\ Len(moves) = p
      /\ \A i \in 1 .. p :
             /\ C(i) \in CellsOf(f) /\ moves[i].to = base + Below(abi, f, C(i))
             /\ moves[i].to \in Int /\ moves[i].to + 8 <= Floor(abi, base)
             /\ moves[i].from = IF i <= abi.registers THEN Known(regs[i]) ELSE At(Incoming(base, i))
  BY <1>1, <1>2, EntryMoved
<1> HIDE DEF p, moves, C
<1>7. ASSUME NEW i \in 1 .. p PROVE moves[i].to \in Words /\ moves[i].to + 4 \in Words
  <2>1. C(i) \in CellsOf(f) /\ moves[i].to = base + Below(abi, f, C(i))
    BY <1>6
  <2>2. QED
    BY <1>1, <1>2, <1>3, <2>1, CellWords
<1>8. ASSUME NEW i \in 1 .. p, NEW j \in 1 .. p, i # j PROVE Clear(moves[i].to, moves[j].to)
  <2> DEFINE x == Below(abi, f, C(i))
             y == Below(abi, f, C(j))
  <2>1. C(i) # C(j)
    BY <1>8, ParametersDiffer DEF C, p
  <2>2. C(i) \in CellsOf(f) /\ C(j) \in CellsOf(f)
    BY <1>6
  <2>3. x \in Int /\ y \in Int /\ (x + 8 <= y \/ y + 8 <= x)
    BY <1>1, <2>1, <2>2, CellBounds, CellsApart
  <2>4. moves[i].to = base + x /\ moves[j].to = base + y
    BY <1>6
  <2> HIDE DEF x, y
  <2>5. base + x + 8 <= base + y \/ base + y + 8 <= base + x
    BY <1>2, <2>3
  <2>6. QED
    BY <2>4, <2>5 DEF Clear
<1>9. ASSUME NEW i \in 1 .. p, ~(i <= abi.registers)
      PROVE  /\ moves[i].from = At(PassedAt(abi, sp, i))
             /\ PassedAt(abi, sp, i) \in Int /\ sp <= PassedAt(abi, sp, i)
             /\ PassedAt(abi, sp, i) \in Words /\ PassedAt(abi, sp, i) + 4 \in Words
  <2>1. Incoming(base, i) = PassedAt(abi, sp, i)
    BY <1>2 DEF Incoming, PassedAt
  <2>2. moves[i].from = At(Incoming(base, i))
    BY <1>6, <1>9
  <2>3. i \in 1 .. Len(frames[Len(frames)].site.arguments)
    BY DEF p
  <2>4. QED
    BY <1>3, <1>9, <2>1, <2>2, <2>3, IncomingWords
<1>10. ASSUME NEW i \in 1 .. p, ~moves[i].from.literal
       PROVE  /\ moves[i].from.at \in Int /\ moves[i].from.at \in Words /\ moves[i].from.at + 4 \in Words
              /\ \A j \in 1 .. p : Clear(moves[i].from.at, moves[j].to)
  <2> DEFINE a == PassedAt(abi, sp, i)
  <2>1. ~(i <= abi.registers)
    <3> SUFFICES ASSUME i <= abi.registers PROVE FALSE
      OBVIOUS
    <3>1. moves[i].from = Known(regs[i])
      BY <1>6
    <3>2. Known(regs[i]).literal
      BY DEF Known
    <3>3. QED
      BY <1>10, <3>1, <3>2
  <2>2. moves[i].from.at = a /\ a \in Int /\ sp <= a /\ a \in Words /\ a + 4 \in Words
    <3>1. moves[i].from = At(a) /\ a \in Int /\ sp <= a /\ a \in Words /\ a + 4 \in Words
      BY <1>9, <2>1
    <3>2. At(a).at = a
      BY DEF At
    <3>3. QED
      BY <3>1, <3>2
  <2> HIDE DEF a
  <2>3. \A j \in 1 .. p : moves[j].to \in Int /\ moves[j].to + 8 <= Floor(abi, base)
    BY <1>6
  <2>4. Floor(abi, base) <= a
    BY <1>1, <1>2, <1>4, <2>2
  <2>5. \A j \in 1 .. p : Clear(a, moves[j].to)
    BY ONLY <1>4, <2>2, <2>3, <2>4 DEF Clear
  <2>6. QED
    BY <2>2, <2>5
<1>11. \A i \in 1 .. p : Fetch(Moved(saved, moves), moves[i].to) = Load(saved, moves[i].from)
  <2>1. Len(moves) \in Nat /\ Len(moves) = p
    BY <1>5, <1>6
  <2>2. \A i \in 1 .. Len(moves) :
            moves[i].to \in Int /\ moves[i].to \in DOMAIN saved /\ moves[i].to + 4 \in DOMAIN saved
    BY <1>6, <1>7, <2>1
  <2>3. \A i, e \in 1 .. Len(moves) : i # e => Clear(moves[i].to, moves[e].to)
    BY <1>8, <2>1
  <2>4. \A i \in 1 .. Len(moves) : ~moves[i].from.literal =>
            /\ moves[i].from.at \in Int /\ moves[i].from.at \in DOMAIN saved
            /\ moves[i].from.at + 4 \in DOMAIN saved
            /\ \A e \in 1 .. Len(moves) : Clear(moves[i].from.at, moves[e].to)
    BY <1>10, <2>1
  <2>5. \A i \in 1 .. Len(moves) : Fetch(Moved(saved, moves), moves[i].to) = Load(saved, moves[i].from)
    BY ONLY <2>1, <2>2, <2>3, <2>4, MovedStores
  <2>6. QED
    BY ONLY <2>1, <2>5
<1>12. ASSUME NEW i \in 1 .. p
       PROVE  Fetch(Moved(saved, moves), base + Below(abi, f, C(i)))
              = IF i <= abi.registers THEN regs[i] ELSE Fetch(mem, PassedAt(abi, sp, i))
  <2>1. Fetch(Moved(saved, moves), base + Below(abi, f, C(i))) = Load(saved, moves[i].from)
    BY <1>6, <1>11
  <2>2. CASE i <= abi.registers
    <3>1. moves[i].from = Known(regs[i])
      BY <1>6, <2>2
    <3>2. QED
      BY <2>1, <2>2, <3>1 DEF Load, Known
  <2>3. CASE ~(i <= abi.registers)
    <3> DEFINE a == PassedAt(abi, sp, i)
    <3>1. moves[i].from = At(a) /\ a \in Int /\ sp <= a /\ a \in Words /\ a + 4 \in Words
      BY <1>9, <2>3
    <3> HIDE DEF a
    <3>2. sp <= a + 4
      BY <1>1, <3>1
    <3>3. saved[a] = mem[a] /\ saved[a + 4] = mem[a + 4]
      BY <3>1, <3>2
    <3>4. Fetch(saved, a) = Fetch(mem, a)
      BY <3>3, FetchSame
    <3>5. Load(saved, moves[i].from) = Fetch(saved, a)
      BY <3>1 DEF Load, At
    <3>6. QED
      BY <2>1, <2>3, <3>4, <3>5 DEF a
  <2>4. QED
    BY <2>2, <2>3
<1>13. QED
  BY <1>12 DEF p, moves, C

(* A call, as emit_call, the prologue and emit_arguments make it: a new    *)
(* activation whose parameters are the arguments.                          *)
LEMMA StepEnters ==
    ASSUME ActivationsInv, FramesInv', Enters
    PROVE  Promised!Next /\ Roomy(abi', frames')
<1> DEFINE f     == Callee
           n     == Len(frames)
           last  == frames[n]
           site  == last.site
           base  == sp - 2 * abi.word
           new   == [function |-> f, base |-> base, site |-> <<>>]
           gs    == Append(frames, new)
           saved == Saves(abi, mem, base, n, fp, kept)
           moves == EntryMoves(f, base)
           A     == Acts(abi, mem, frames)
           B     == Acts(abi', mem', frames')
<1>1. FramesInv /\ Roomy(abi, frames) /\ DOMAIN mem = Words /\ Chain(abi, frames)
      /\ Poised(abi, mode, sp, fp, kept, frames)
  BY DEF ActivationsInv, FramesInv
<1>2. /\ mode = "calling" /\ f \in Functions /\ HasRoom(f) /\ abi \in Abis
      /\ Placed(abi, base) /\ base + 2 * abi.word = sp /\ abi' = abi /\ mode' = "running"
      /\ frames' = gs /\ mem' = Moved(saved, moves)
  BY <1>1, Entered
<1>3. frames # <<>> => site \in Sites /\ site.caller = last.function /\ f = site.callee
                       /\ CallsFrom(last) /\ sp = Top(abi, last)
  <2> SUFFICES ASSUME frames # <<>>
               PROVE  site \in Sites /\ site.caller = last.function /\ f = site.callee
                      /\ CallsFrom(last) /\ sp = Top(abi, last)
    OBVIOUS
  <2>1. CallsFrom(last) /\ sp = Top(abi, last)
    BY <1>1, <1>2 DEF Poised
  <2>2. Last(frames) = last
    BY <1>1, Executing
  <2>3. f = Last(frames).site.callee
    BY DEF Callee
  <2> HIDE DEF f, last
  <2>4. QED
    BY <2>1, <2>2, <2>3 DEF CallsFrom
<1> HIDE DEF f, base
<1>4. sp \in Int /\ base \in Int /\ abi.word \in {4, 8} /\ Floor(abi, base) \in Int
      /\ Floor(abi, base) <= base
  BY <1>1, <1>2, CallAligned, PlacedWords
<1>5. DOMAIN saved = Words /\ \A x \in Words : sp <= x => saved[x] = mem[x]
  BY <1>1, <1>2, SavesKeeps
<1> HIDE DEF saved
<1>6. Len(moves) \in Nat /\ \A i \in 1 .. Len(moves) : moves[i].to \in Int /\ moves[i].to + 8 <= sp
  <2>1. Len(moves) \in Nat
        /\ \A i \in 1 .. Len(moves) : moves[i].to \in Int /\ moves[i].to + 8 <= Floor(abi, base)
    BY <1>2, EntryMoved
  <2> HIDE DEF moves
  <2>2. Floor(abi, base) <= sp
    BY <1>2, <1>4
  <2>3. \A i \in 1 .. Len(moves) : moves[i].to + 8 <= sp
    BY <1>4, <2>1, <2>2
  <2>4. QED
    BY <2>1, <2>3
<1> HIDE DEF moves
<1>7. \A x \in Words : sp <= x => mem'[x] = mem[x]
  <2>1. \A x \in Words : sp <= x => Moved(saved, moves)[x] = saved[x]
    <3>1. DOMAIN saved = Words /\ sp \in Int /\ Len(moves) \in Nat
      BY <1>4, <1>5, <1>6
    <3>2. \A i \in 1 .. Len(moves) : moves[i].to \in Int /\ moves[i].to + 8 <= sp
      BY <1>6
    <3>3. QED
      BY ONLY <3>1, <3>2, MovedBelow
  <2>2. QED
    BY <1>2, <1>5, <2>1
<1>8. frames # <<>> => sp <= RunsAt(abi, last.function, last.base)
  <2> SUFFICES ASSUME frames # <<>> PROVE Top(abi, last) <= RunsAt(abi, last.function, last.base)
    BY <1>3
  <2>1. last \in FrameRecords /\ Placed(abi, last.base)
    BY <1>1, Executing
  <2>2. QED
    BY <1>2, <1>3, <2>1, TopBelow
<1>9. \A k \in 1 .. n : ActOf(abi, mem', frames[k]) = ActOf(abi, mem, frames[k])
  <2>1. abi \in Abis /\ Chain(abi, frames) /\ Roomy(abi, frames) /\ sp \in Int
    BY <1>1, <1>2, <1>4
  <2>2. frames # <<>> => sp <= RunsAt(abi, frames[Len(frames)].function, frames[Len(frames)].base)
    BY <1>8
  <2>3. QED
    BY ONLY <2>1, <2>2, <1>7, AllActsSame
<1>10. n \in Nat /\ Len(gs) = n + 1 /\ gs[n + 1] = new /\ \A k \in 1 .. n : gs[k] = frames[k]
  <2>1. frames # <<>> => CallsFrom(frames[Len(frames)]) /\ base + 2 * abi.word = Top(abi, frames[Len(frames)])
    BY <1>2, <1>3
  <2>2. QED
    BY <1>1, <1>2, <2>1, ChainGrown
<1>11. new.function = f /\ new.base = base
  OBVIOUS
<1> HIDE DEF new, gs, last
<1>12. Roomy(abi', frames')
  <2>1. -(4 * StackWords) <= RunsAt(abi, f, base)
    BY <1>1, <1>2, RoomForFrame DEF base
  <2>2. ASSUME NEW k \in 1 .. n + 1 PROVE -(4 * StackWords) <= RunsAt(abi, gs[k].function, gs[k].base)
    <3>1. CASE k = n + 1
      BY <1>10, <1>11, <2>1, <3>1
    <3>2. CASE k \in 1 .. n
      BY <1>1, <1>10, <3>2 DEF Roomy
    <3>3. QED
      BY <1>10, <3>1, <3>2
  <2>3. QED
    BY <1>2, <1>10, <2>2 DEF Roomy
<1>13. /\ B # <<>> /\ Len(B) = n + 1 /\ Last(B).function = f /\ DOMAIN Last(B).cells = Cells[f]
       /\ \A c \in CellsOf(f) : Last(B).cells[c] = Fetch(mem', base + Below(abi, f, c))
  <2>1. Len(gs) \in Nat /\ Len(gs) # 0 /\ gs[Len(gs)] = new /\ Len(gs) = n + 1
    BY <1>10
  <2>2. QED
    BY <1>2, <1>11, <2>1, LastAct DEF CellsOf
<1>14. Front(B) = A
  <2>1. \A k \in 1 .. n + 1 : B[k] = ActOf(abi, mem', gs[k])
    <3>1. n + 1 \in Nat /\ Len(gs) = n + 1
      BY <1>10
    <3>2. QED
      BY <1>2, <3>1, ActsFacts
  <2> HIDE DEF B
  <2>2. \A k \in 1 .. n : B[k] = ActOf(abi, mem, frames[k])
    <3>1. \A k \in 1 .. n : k \in 1 .. n + 1
      BY <1>10
    <3>2. QED
      BY <1>9, <1>10, <2>1, <3>1
  <2>3. Front(B) = [k \in 1 .. n |-> B[k]]
    <3>1. Front(B) = SubSeq(B, 1, n)
      <4>1. Len(B) - 1 = n
        BY <1>10, <1>13
      <4>2. QED
        BY <4>1 DEF Front
    <3>2. SubSeq(B, 1, n) = [i \in 1 .. 1 + n - 1 |-> B[i + 1 - 1]]
      BY <1>10
    <3> HIDE DEF n
    <3>3. QED
      BY <1>10, <3>1, <3>2
  <2>4. QED
    BY <2>2, <2>3 DEF Acts
<1>15. Activated = A /\ Activated' = B /\ Answer = <<>> /\ Answer' = <<>>
  BY <1>1, <1>2, ActivatedIs, ActivatedNext DEF Answer
<1> HIDE DEF B
<1>16. CASE frames = <<>>
  <2>1. A = <<>> /\ f = "main"
    BY <1>10, <1>16, ActsFacts, EmptySeq DEF f, Callee
  <2>2. DOMAIN <<>> = {}
    OBVIOUS
  <2> HIDE DEF A
  <2>3. Promised!Start("main", <<>>)
    BY <1>13, <1>14, <1>15, <2>1, <2>2 DEF Promised!Start, Promised!Last, Promised!Front, Last, Front
  <2>4. QED
    BY <1>12, <1>15, <2>1, <2>3 DEF Promised!Next
<1>17. CASE frames # <<>>
  <2>1. site \in Sites /\ site.caller = last.function /\ f = site.callee
    BY <1>3, <1>17
  <2> DEFINE count == Len(site.arguments)
             value(i) == Promised!ValueOf(site.arguments[i])
  <2>2. count \in Nat /\ DOMAIN site.arguments = 1 .. count /\ Len(Parameters[f]) = count
    BY <2>1, CodeAssumption, LenProperties
  <2>3. n # 0 /\ Last(frames) = last /\ n \in 1 .. n
    BY <1>1, <1>17, Executing DEF last
  <2>4. A # <<>> /\ Last(A).function = last.function
        /\ \A c \in CellsOf(last.function) :
               Last(A).cells[c] = Fetch(mem, last.base + Below(abi, last.function, c))
    BY <1>10, <2>3, LastAct DEF last
  <2> HIDE DEF A
  <2>5. Passed(abi, mem, sp, regs, last)
    <3>1. -(4 * StackWords) <= sp
      BY <1>1, <1>2, RoomForFrame
    <3>2. QED
      BY <1>2, <1>17, <3>1 DEF ActivationsInv, last
  <2>6. ASSUME NEW i \in 1 .. count
        PROVE  Last(B).cells[<<Parameters[f][i], 0>>] = value(i)
    <3> DEFINE c       == <<Parameters[f][i], 0>>
               operand == site.arguments[i]
    <3>1. c \in CellsOf(f)
      BY <1>2, <2>2, ParameterCell
    <3>2. Fetch(mem', base + Below(abi, f, c))
          = IF i <= abi.registers THEN regs[i] ELSE Fetch(mem, PassedAt(abi, sp, i))
      <4>1. Len(Parameters[f]) = Len(frames[Len(frames)].site.arguments)
        BY <2>2 DEF last
      <4>2. \A j \in 1 .. Len(Parameters[f]) :
               Fetch(Moved(saved, EntryMoves(f, base)), base + Below(abi, f, <<Parameters[f][j], 0>>))
               = IF j <= abi.registers THEN regs[j] ELSE Fetch(mem, PassedAt(abi, sp, j))
        BY <1>1, <1>2, <1>5, <1>17, <4>1, ParametersStored DEF base
      <4>3. QED
        BY <1>2, <2>2, <4>2 DEF moves
    <3>3. ValueIn(abi, mem, last, operand)
          = IF i <= abi.registers THEN regs[i] ELSE Fetch(mem, PassedAt(abi, sp, i))
      BY <2>5 DEF Passed
    <3>4. value(i) = ValueIn(abi, mem, last, operand)
      <4>1. Operand(last.function, operand)
        BY <2>1, ArgumentIsOperand
      <4>2. Promised!Current = Last(A)
        BY <1>15 DEF Promised!Current, Promised!Last, Last
      <4> HIDE DEF operand
      <4>3. Promised!ValueOf(operand) = IF operand.literal THEN operand.value
                                        ELSE Last(A).cells[operand.cell]
        BY <4>2 DEF Promised!ValueOf
      <4>4. QED
        BY <2>4, <4>1, <4>3 DEF Operand, ValueIn, operand
    <3>5. Last(B).cells[c] = Fetch(mem', base + Below(abi, f, c))
      BY <1>13, <3>1
    <3>6. QED
      BY <3>2, <3>3, <3>4, <3>5
  <2> DEFINE values == [i \in DOMAIN site.arguments |-> Promised!ValueOf(site.arguments[i])]
  <2>7. DOMAIN values = 1 .. count /\ \A i \in 1 .. count : values[i] = value(i)
    BY <2>2
  <2> HIDE DEF value, count
  <2>8. Promised!Start(site.callee, values)
    <3> HIDE DEF values
    <3>1. \A i \in DOMAIN values : Last(B).cells[<<Parameters[f][i], 0>>] = values[i]
      BY <2>6, <2>7
    <3>2. QED
      BY <1>13, <1>14, <1>15, <2>1, <3>1
      DEF Promised!Start, Promised!Last, Promised!Front, Last, Front
  <2>9. Promised!CallFrom(site)
    <3>1. site.caller = Promised!Current.function
      BY <1>15, <2>1, <2>4 DEF Promised!Current, Promised!Last, Last
    <3>2. QED
      BY <1>15, <2>4, <2>8, <3>1 DEF Promised!CallFrom
  <2>10. QED
    BY <1>12, <2>1, <2>9 DEF Promised!Next
<1>18. QED
  BY <1>16, <1>17

LEMMA ActivationsStart == Init => ActivationsInv /\ Promised!Init
<1> SUFFICES ASSUME Init PROVE ActivationsInv /\ Promised!Init
  OBVIOUS
<1>1. FramesInv /\ frames = <<>> /\ mode = "calling"
  BY FramesInvStarts DEF Init
<1>2. Len(frames) = 0
  BY <1>1, EmptySeq
<1>3. Roomy(abi, frames)
  BY <1>2 DEF Roomy
<1>4. Activated = <<>>
  BY <1>1, <1>2, ActivatedIs, ActsFacts
<1>5. QED
  BY <1>1, <1>3, <1>4 DEF ActivationsInv, Promised!Init, Answer

LEMMA ActivationsStep ==
    ActivationsInv /\ [Next]_vars => ActivationsInv' /\ [Promised!Next]_(Promised!activationVars)
<1> SUFFICES ASSUME ActivationsInv, [Next]_vars
             PROVE  ActivationsInv' /\ [Promised!Next]_(Promised!activationVars)
  OBVIOUS
<1>1. FramesInv /\ FramesInv'
  BY FramesInvInductive DEF ActivationsInv
<1>2. Activated = Acts(abi, mem, frames) /\ Activated' = Acts(abi', mem', frames')
  BY <1>1, ActivatedIs, ActivatedNext
<1>3. ASSUME Acts(abi', mem', frames') = Acts(abi, mem, frames), Answer' = Answer
      PROVE  [Promised!Next]_(Promised!activationVars)
  BY <1>2, <1>3 DEF Promised!activationVars
<1>4. ASSUME mode' # "calling", Roomy(abi', frames') PROVE ActivationsInv'
  BY <1>1, <1>4 DEF ActivationsInv
<1>5. ASSUME NEW site \in Sites, PlacesArguments(site)
      PROVE  ActivationsInv' /\ [Promised!Next]_(Promised!activationVars)
  <2>1. /\ Acts(abi', mem', frames') = Acts(abi, mem, frames) /\ Answer' = Answer
        /\ Roomy(abi', frames')
        /\ -(4 * StackWords) <= sp' => Passed(abi', mem', sp', regs', frames'[Len(frames')])
    BY <1>5, StepPlacesArguments
  <2>2. ActivationsInv'
    BY <1>1, <2>1 DEF ActivationsInv
  <2>3. QED
    BY <1>3, <2>1, <2>2
<1>6. ASSUME Enters PROVE ActivationsInv' /\ [Promised!Next]_(Promised!activationVars)
  <2>1. mode' = "running"
    BY <1>6 DEF Enters
  <2>2. QED
    BY <1>1, <1>4, <1>6, <2>1, StepEnters
<1>7. ASSUME CallsLibrary PROVE ActivationsInv' /\ [Promised!Next]_(Promised!activationVars)
  <2>1. mode' = "library"
    BY <1>7 DEF CallsLibrary
  <2>2. QED
    BY <1>3, <1>4, <1>7, <2>1, StepCallsLibrary
<1>8. ASSUME LibraryReturns PROVE ActivationsInv' /\ [Promised!Next]_(Promised!activationVars)
  <2>1. mode' = "running"
    BY <1>8 DEF LibraryReturns
  <2>2. QED
    BY <1>3, <1>4, <1>8, <2>1, StepLibraryReturns
<1>9. ASSUME Continues PROVE ActivationsInv' /\ [Promised!Next]_(Promised!activationVars)
  <2>1. mode' = "running"
    BY <1>9 DEF Continues
  <2>2. QED
    BY <1>1, <1>4, <1>9, <2>1, StepContinues
<1>10. ASSUME Running PROVE Current \in Functions
  <2>1. frames # <<>>
    BY <1>1, <1>10, RunningAt DEF Running
  <2>2. QED
    BY <1>1, <2>1, Executing
<1>11. ASSUME Running, NEW c \in Results[Current], Returns(c)
       PROVE  ActivationsInv' /\ [Promised!Next]_(Promised!activationVars)
  <2>1. c \in CellsOf(Current)
    BY <1>10, <1>11, CodeAssumption
  <2>2. mode' # "calling"
    BY <1>11 DEF Returns
  <2>3. QED
    BY <1>1, <1>4, <1>11, <2>1, <2>2, StepReturns
<1>12. ASSUME Running, NEW c \in Assigned[Current], NEW value \in Values, Assigns(c, value)
       PROVE  ActivationsInv' /\ [Promised!Next]_(Promised!activationVars)
  <2>1. c \in CellsOf(Current)
    BY <1>10, <1>12, CodeAssumption
  <2>2. mode' # "calling"
    BY <1>12 DEF Assigns, Running
  <2>3. QED
    BY <1>1, <1>4, <1>12, <2>1, <2>2, StepAssigns
<1>13. CASE UNCHANGED vars
  <2>1. abi' = abi /\ mode' = mode /\ mem' = mem /\ sp' = sp /\ regs' = regs /\ rax' = rax
        /\ frames' = frames
    BY <1>13 DEF vars
  <2>2. ActivationsInv'
    BY <1>1, <2>1 DEF ActivationsInv
  <2>3. Acts(abi', mem', frames') = Acts(abi, mem, frames) /\ Answer' = Answer
    BY <2>1 DEF Answer
  <2>4. QED
    BY <1>3, <2>2, <2>3
<1>14. QED
  BY <1>5, <1>6, <1>7, <1>8, <1>9, <1>11, <1>12, <1>13 DEF Next

(* Through all nested and repeated calls the frames in memory are the      *)
(* activations the language promises: every variable of every activation   *)
(* keeps its value until the activation itself assigns to it, parameters   *)
(* start as the arguments, and the caller gets the value returned.         *)
THEOREM FramesImplementActivations == Spec => FramesAreActivations
<1>1. Init => ActivationsInv /\ Promised!Init
  BY ActivationsStart
<1>2. ActivationsInv /\ [Next]_vars => ActivationsInv' /\ [Promised!Next]_(Promised!activationVars)
  BY ActivationsStep
<1>3. QED
  BY <1>1, <1>2, PTL DEF Spec, FramesAreActivations, Promised!Spec
=============================================================================
