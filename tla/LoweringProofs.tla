---------------------------- MODULE LoweringProofs ----------------------------
(***************************************************************************)
(* For every function body the grammar derives, however long and however   *)
(* deeply nested: the link stacks follow the loops that are open, no jump  *)
(* or return goes to a label that is never placed, and no jump crosses the *)
(* boundary of a loop.                                                     *)
(***************************************************************************)
EXTENDS Lowering, SequenceTheorems, FiniteSetTheorems, WellFoundedInduction, TLAPS

-----------------------------------------------------------------------------
(* Sequences of whatever they hold.                                        *)
IsSeq(s) == s \in Seq(ToSet(s))

LEMMA SequenceOf == ASSUME NEW S, NEW s \in Seq(S) PROVE IsSeq(s)
<1>1. Len(s) \in Nat /\ s \in [1 .. Len(s) -> S] /\ DOMAIN s = 1 .. Len(s)
  BY LenProperties
<1>2. s \in [1 .. Len(s) -> ToSet(s)]
  BY <1>1 DEF ToSet
<1>3. QED
  BY <1>1, <1>2, SeqDef DEF IsSeq

LEMMA SequenceFacts ==
    ASSUME NEW s, IsSeq(s)
    PROVE  /\ Len(s) \in Nat /\ DOMAIN s = 1 .. Len(s)
           /\ \A k \in 1 .. Len(s) : s[k] \in ToSet(s)
           /\ \A e \in ToSet(s) : \E k \in 1 .. Len(s) : e = s[k]
           /\ s = <<>> <=> Len(s) = 0
<1>1. s \in Seq(ToSet(s))
  BY DEF IsSeq
<1>2. Len(s) \in Nat /\ DOMAIN s = 1 .. Len(s) /\ (s = <<>> <=> Len(s) = 0)
  BY <1>1, LenProperties, EmptySeq
<1>3. QED
  BY <1>2 DEF ToSet

LEMMA Joined ==
    ASSUME NEW s, NEW t, IsSeq(s), IsSeq(t)
    PROVE  /\ IsSeq(s \o t) /\ Len(s \o t) = Len(s) + Len(t)
           /\ \A k \in 1 .. Len(s) : (s \o t)[k] = s[k]
           /\ \A k \in 1 .. Len(t) : (s \o t)[Len(s) + k] = t[k]
           /\ ToSet(s \o t) = ToSet(s) \cup ToSet(t)
<1> DEFINE S == ToSet(s) \cup ToSet(t)
<1>1. s \in Seq(S) /\ t \in Seq(S)
  BY SeqMonotonic DEF IsSeq
<1>2. Len(s) \in Nat /\ Len(t) \in Nat /\ DOMAIN s = 1 .. Len(s) /\ DOMAIN t = 1 .. Len(t)
  BY SequenceFacts
<1>3. /\ s \o t \in Seq(S) /\ Len(s \o t) = Len(s) + Len(t)
      /\ \A k \in 1 .. Len(s) + Len(t) : (s \o t)[k] = IF k <= Len(s) THEN s[k] ELSE t[k - Len(s)]
  <2> HIDE DEF S
  <2> QED
    BY <1>1, ConcatProperties
<1> DEFINE st == s \o t
<1>4. IsSeq(st) /\ DOMAIN st = 1 .. Len(s) + Len(t)
  <2>1. IsSeq(st)
    BY <1>3, SequenceOf
  <2> HIDE DEF st
  <2>2. QED
    BY <1>3, <2>1, SequenceFacts DEF st
<1>5. /\ \A k \in 1 .. Len(s) : k \in 1 .. Len(s) + Len(t) /\ st[k] = s[k]
      /\ \A k \in 1 .. Len(t) : Len(s) + k \in 1 .. Len(s) + Len(t) /\ st[Len(s) + k] = t[k]
  <2>1. \A k \in 1 .. Len(s) : k \in 1 .. Len(s) + Len(t) /\ k <= Len(s)
    BY <1>2
  <2>2. \A k \in 1 .. Len(t) : /\ Len(s) + k \in 1 .. Len(s) + Len(t) /\ ~(Len(s) + k <= Len(s))
                               /\ Len(s) + k - Len(s) = k
    BY <1>2
  <2> HIDE DEF S
  <2>3. QED
    BY <1>3, <2>1, <2>2
<1>6. \A k \in 1 .. Len(s) + Len(t) : k \in 1 .. Len(s) \/ \E j \in 1 .. Len(t) : k = Len(s) + j
  <2> SUFFICES ASSUME NEW k \in 1 .. Len(s) + Len(t), k \notin 1 .. Len(s)
               PROVE  \E j \in 1 .. Len(t) : k = Len(s) + j
    OBVIOUS
  <2>1. k - Len(s) \in 1 .. Len(t) /\ k = Len(s) + (k - Len(s))
    BY <1>2
  <2>2. QED
    BY <2>1
<1>7. ToSet(st) = ToSet(s) \cup ToSet(t)
  <2> HIDE DEF st
  <2>1. ASSUME NEW e \in ToSet(st) PROVE e \in ToSet(s) \cup ToSet(t)
    <3>1. PICK k \in 1 .. Len(s) + Len(t) : e = st[k]
      BY <1>4 DEF ToSet
    <3>2. QED
      BY <1>2, <1>5, <1>6, <3>1, ZenonT(30) DEF ToSet
  <2>2. ASSUME NEW e \in ToSet(s) \cup ToSet(t) PROVE e \in ToSet(st)
    BY <1>2, <1>4, <1>5 DEF ToSet
  <2>3. QED
    BY <2>1, <2>2
<1>8. QED
  BY <1>3, <1>4, <1>5, <1>7

LEMMA Pushed ==
    ASSUME NEW s, NEW e, IsSeq(s)
    PROVE  /\ IsSeq(Append(s, e)) /\ Len(Append(s, e)) = Len(s) + 1
           /\ \A k \in 1 .. Len(s) : Append(s, e)[k] = s[k]
           /\ Append(s, e)[Len(s) + 1] = e
<1> DEFINE S == ToSet(s) \cup {e}
<1>1. s \in Seq(S) /\ e \in S
  BY SeqMonotonic DEF IsSeq
<1> HIDE DEF S
<1>2. /\ Append(s, e) \in Seq(S) /\ Len(Append(s, e)) = Len(s) + 1
      /\ \A k \in 1 .. Len(s) : Append(s, e)[k] = s[k]
      /\ Append(s, e)[Len(s) + 1] = e
  BY <1>1, AppendProperties
<1>3. QED
  BY <1>2, SequenceOf

LEMMA Shorter ==
    ASSUME NEW m \in Nat \ {0}
    PROVE  /\ m - 1 \in Nat /\ m - 1 - 1 + 1 = m - 1 /\ (~ 1 <= m - 1 => m - 1 = 0)
           /\ \A k \in 1 .. m - 1 : 1 + k - 1 = k
  OBVIOUS

LEMMA Popped ==
    ASSUME NEW s, IsSeq(s), s # <<>>
    PROVE  /\ IsSeq(Front(s)) /\ Len(Front(s)) = Len(s) - 1 /\ Len(s) \in Nat \ {0}
           /\ \A k \in 1 .. Len(s) - 1 : Front(s)[k] = s[k]
           /\ Last(s) = s[Len(s)]
<1>1. s \in Seq(ToSet(s)) /\ Len(s) \in Nat \ {0}
  BY SequenceFacts DEF IsSeq
<1> DEFINE n == Len(s) - 1
           S == ToSet(s)
           f == SubSeq(s, 1, n)
<1>2. n \in Int /\ 1 \in Int /\ \A k \in 1 .. n : k \in 1 .. Len(s)
  BY <1>1
<1>3. \A k \in 1 .. n : s[k] \in S
  <2> HIDE DEF n
  <2> QED
    BY <1>2, SequenceFacts
<1>4. /\ f \in Seq(S) /\ Len(f) = IF 1 <= n THEN n - 1 + 1 ELSE 0
      /\ \A k \in 1 .. n - 1 + 1 : f[k] = s[1 + k - 1]
  <2> HIDE DEF n, S
  <2> QED
    BY <1>2, <1>3, SubSeqProperties
<1>5. n \in Nat /\ n - 1 + 1 = n /\ (~ 1 <= n => n = 0) /\ \A k \in 1 .. n : 1 + k - 1 = k
  BY <1>1, Shorter
<1>6. Len(f) = n /\ \A k \in 1 .. n : f[k] = s[k]
  <2> HIDE DEF n, S, f
  <2> QED
    BY <1>4, <1>5
<1>7. IsSeq(f)
  BY <1>4, SequenceOf
<1>8. QED
  BY <1>1, <1>6, <1>7 DEF Front, Last

LEMMA OneOrTwo ==
    ASSUME NEW a, NEW b
    PROVE  /\ IsSeq(<<>>) /\ Len(<<>>) = 0 /\ ToSet(<<>>) = {}
           /\ IsSeq(<<a>>) /\ Len(<<a>>) = 1 /\ <<a>>[1] = a /\ ToSet(<<a>>) = {a}
           /\ IsSeq(<<a, b>>) /\ Len(<<a, b>>) = 2 /\ <<a, b>>[1] = a /\ <<a, b>>[2] = b
           /\ ToSet(<<a, b>>) = {a, b}
<1>1. IsSeq(<<>>) /\ Len(<<>>) = 0 /\ ToSet(<<>>) = {}
  <2>1. <<>> \in Seq({a}) /\ Len(<<>>) = 0
    BY EmptySeq
  <2>2. DOMAIN <<>> = {}
    BY <2>1, LenProperties
  <2>3. QED
    BY <2>1, <2>2, SequenceOf DEF ToSet
<1>2. /\ IsSeq(<<a>>) /\ Len(<<a>>) = 1 /\ <<a>>[1] = a
  <2> DEFINE none == <<>>
  <2>1. <<a>> = Append(none, a)
    OBVIOUS
  <2>2. IsSeq(none) /\ Len(none) + 1 = 1
    BY <1>1
  <2> HIDE DEF none
  <2>3. QED
    BY <2>1, <2>2, Pushed
<1>3. /\ IsSeq(<<a, b>>) /\ Len(<<a, b>>) = 2 /\ <<a, b>>[1] = a /\ <<a, b>>[2] = b
  <2> DEFINE one == <<a>>
  <2>1. <<a, b>> = Append(one, b)
    OBVIOUS
  <2>2. 1 \in 1 .. Len(one) /\ Len(one) + 1 = 2
    BY <1>2
  <2> HIDE DEF one
  <2>3. QED
    BY <1>2, <2>1, <2>2, Pushed, ZenonT(30) DEF one
<1>4. ToSet(<<a>>) = {a} /\ ToSet(<<a, b>>) = {a, b}
  <2> DEFINE one == <<a>>
             two == <<a, b>>
  <2>1. DOMAIN one = 1 .. 1 /\ DOMAIN two = 1 .. 2 /\ one[1] = a /\ two[1] = a /\ two[2] = b
    BY <1>2, <1>3, SequenceFacts
  <2> HIDE DEF one, two
  <2>2. ToSet(one) = {a} /\ ToSet(two) = {a, b}
    <3>1. \A k : k \in 1 .. 1 <=> k = 1
      OBVIOUS
    <3>2. \A k : k \in 1 .. 2 <=> k = 1 \/ k = 2
      OBVIOUS
    <3>3. QED
      BY <2>1, <3>1, <3>2 DEF ToSet
  <2>3. QED
    BY <2>2 DEF one, two
<1>5. QED
  BY <1>1, <1>2, <1>3, <1>4
-----------------------------------------------------------------------------
(* Code and the labels it places.                                          *)
Targeted(i) == IsLabel(i) \/ IsJump(i) \/ IsReturn(i)

(* Below labels, the labels placed are those not owed, each placed once;   *)
(* and no instruction mentions any other.                                  *)
Lands(code, labels, owed) ==
    /\ IsSeq(code) /\ labels \in Nat /\ owed \subseteq 0 .. labels - 1
    /\ \A i \in ToSet(code) : Targeted(i) => i.target \in 0 .. labels - 1
    /\ \A n \in 0 .. labels - 1 :
          IF n \in owed THEN Places(code, n) = {} ELSE \E p : Places(code, n) = {p}

LEMMA PlacesJoined ==
    ASSUME NEW code, NEW is, IsSeq(code), IsSeq(is), NEW n
    PROVE  Places(code \o is, n) = Places(code, n) \cup {Len(code) + p : p \in Places(is, n)}
<1> DEFINE all == code \o is
<1>1. /\ DOMAIN code = 1 .. Len(code) /\ DOMAIN is = 1 .. Len(is) /\ Len(code) \in Nat /\ Len(is) \in Nat
      /\ DOMAIN all = 1 .. Len(code) + Len(is)
      /\ \A k \in 1 .. Len(code) : all[k] = code[k]
      /\ \A k \in 1 .. Len(is) : all[Len(code) + k] = is[k]
  <2>1. /\ IsSeq(all) /\ Len(all) = Len(code) + Len(is)
        /\ \A k \in 1 .. Len(code) : all[k] = code[k]
        /\ \A k \in 1 .. Len(is) : all[Len(code) + k] = is[k]
    BY Joined
  <2> HIDE DEF all
  <2>2. QED
    BY <2>1, SequenceFacts
<1> HIDE DEF all
<1>2. ASSUME NEW p \in Places(all, n)
      PROVE  p \in Places(code, n) \cup {Len(code) + q : q \in Places(is, n)}
  <2>1. p \in 1 .. Len(code) + Len(is) /\ IsLabel(all[p]) /\ all[p].target = n
    BY <1>1 DEF Places
  <2>2. CASE p \in 1 .. Len(code)
    BY <1>1, <2>1, <2>2 DEF Places
  <2>3. CASE p \notin 1 .. Len(code)
    <3>1. p - Len(code) \in 1 .. Len(is) /\ Len(code) + (p - Len(code)) = p
      BY <1>1, <2>1, <2>3
    <3>2. p - Len(code) \in Places(is, n)
      BY <1>1, <2>1, <3>1 DEF Places
    <3>3. QED
      BY <3>1, <3>2
  <2>4. QED
    BY <2>2, <2>3
<1>3. ASSUME NEW p \in Places(code, n) PROVE p \in Places(all, n)
  <2>1. p \in 1 .. Len(code) /\ IsLabel(code[p]) /\ code[p].target = n
    BY <1>1 DEF Places
  <2>2. p \in 1 .. Len(code) + Len(is) /\ all[p] = code[p]
    BY <1>1, <2>1
  <2>3. QED
    BY <1>1, <2>1, <2>2 DEF Places
<1>4. ASSUME NEW p \in Places(is, n) PROVE Len(code) + p \in Places(all, n)
  <2>1. p \in 1 .. Len(is) /\ IsLabel(is[p]) /\ is[p].target = n
    BY <1>1 DEF Places
  <2>2. Len(code) + p \in 1 .. Len(code) + Len(is) /\ all[Len(code) + p] = is[p]
    BY <1>1, <2>1
  <2>3. QED
    BY <1>1, <2>1, <2>2 DEF Places
<1>5. QED
  BY <1>2, <1>3, <1>4 DEF all

(* A label that is made is owed.                                           *)
LEMMA LandsMade ==
    ASSUME NEW code, NEW labels, NEW owed, Lands(code, labels, owed)
    PROVE  /\ labels + 1 \in Nat /\ labels \notin owed
           /\ Lands(code, labels + 1, owed \cup {labels})
<1>1. /\ IsSeq(code) /\ labels \in Nat /\ owed \subseteq 0 .. labels - 1
      /\ \A i \in ToSet(code) : Targeted(i) => i.target \in 0 .. labels - 1
  BY DEF Lands
<1>2. /\ labels + 1 \in Nat /\ labels \notin owed /\ labels + 1 - 1 = labels
      /\ 0 .. labels = 0 .. labels - 1 \cup {labels} /\ labels \notin 0 .. labels - 1
  BY <1>1
<1>3. Places(code, labels) = {}
  <2>1. \A p \in DOMAIN code : IsLabel(code[p]) => code[p].target \in 0 .. labels - 1
    BY <1>1, SequenceFacts DEF Targeted
  <2>2. QED
    BY <1>2, <2>1 DEF Places
<1>4. \A n \in 0 .. labels :
          IF n \in owed \cup {labels} THEN Places(code, n) = {} ELSE \E p : Places(code, n) = {p}
  BY <1>2, <1>3 DEF Lands
<1> DEFINE more == labels + 1
<1>5. /\ more \in Nat /\ owed \cup {labels} \subseteq 0 .. more - 1 /\ 0 .. more - 1 = 0 .. labels
      /\ 0 .. labels - 1 \subseteq 0 .. more - 1
  BY <1>1, <1>2
<1>6. Lands(code, more, owed \cup {labels})
  <2> HIDE DEF more
  <2> QED
    BY <1>1, <1>4, <1>5 DEF Lands
<1>7. QED
  BY <1>2, <1>6

(* Instructions without a label place nothing.                             *)
LEMMA LandsPlain ==
    ASSUME NEW code, NEW labels, NEW owed, Lands(code, labels, owed),
           NEW is, IsSeq(is),
           \A i \in ToSet(is) : ~IsLabel(i) /\ (Targeted(i) => i.target \in 0 .. labels - 1)
    PROVE  Lands(code \o is, labels, owed)
<1>1. IsSeq(code)
  BY DEF Lands
<1>2. IsSeq(code \o is) /\ ToSet(code \o is) = ToSet(code) \cup ToSet(is)
  BY <1>1, Joined
<1>3. \A n : Places(is, n) = {}
  BY SequenceFacts DEF Places
<1>4. \A n : Places(code \o is, n) = Places(code, n)
  <2>1. \A n : Places(code \o is, n) = Places(code, n) \cup {Len(code) + p : p \in Places(is, n)}
    BY <1>1, PlacesJoined
  <2>2. QED
    BY <1>3, <2>1
<1> DEFINE all == code \o is
<1> HIDE DEF all
<1>5. IsSeq(all) /\ ToSet(all) = ToSet(code) \cup ToSet(is) /\ \A n : Places(all, n) = Places(code, n)
  BY <1>2, <1>4 DEF all
<1>6. Lands(all, labels, owed)
  BY <1>5 DEF Lands
<1>7. QED
  BY <1>6 DEF all

(* One label among them is placed, and owed no longer.                     *)
LEMMA LandsPlaced ==
    ASSUME NEW code, NEW labels, NEW owed, Lands(code, labels, owed),
           NEW is, IsSeq(is), NEW at \in 1 .. Len(is), IsLabel(is[at]), is[at].target \in owed,
           \A k \in 1 .. Len(is) : IsLabel(is[k]) => k = at,
           \A i \in ToSet(is) : Targeted(i) => i.target \in 0 .. labels - 1
    PROVE  Lands(code \o is, labels, owed \ {is[at].target})
<1> DEFINE label == is[at].target
<1>1. IsSeq(code) /\ label \in 0 .. labels - 1
  BY DEF Lands
<1>2. IsSeq(code \o is) /\ ToSet(code \o is) = ToSet(code) \cup ToSet(is)
  BY <1>1, Joined
<1>3. \A n : Places(is, n) = IF n = label THEN {at} ELSE {}
  BY SequenceFacts DEF Places
<1>4. /\ \A n : n # label => Places(code \o is, n) = Places(code, n)
      /\ Places(code \o is, label) = {Len(code) + at}
  <2>1. Places(code, label) = {}
    BY <1>1 DEF Lands
  <2> HIDE DEF label
  <2>2. \A n : Places(code \o is, n) = Places(code, n) \cup {Len(code) + p : p \in Places(is, n)}
    BY <1>1, PlacesJoined
  <2> DEFINE all == code \o is
  <2> HIDE DEF all
  <2>3. \A n : Places(all, n) = Places(code, n) \cup {Len(code) + p : p \in Places(is, n)}
    BY <2>2 DEF all
  <2>4. ASSUME NEW n, n # label PROVE Places(all, n) = Places(code, n)
    <3>1. Places(is, n) = {}
      BY <1>3, <2>4
    <3>2. QED
      BY <2>3, <3>1
  <2>5. Places(all, label) = {Len(code) + at}
    <3>1. Places(is, label) = {at}
      BY <1>3
    <3>2. {Len(code) + p : p \in {at}} = {Len(code) + at}
      OBVIOUS
    <3>3. QED
      BY <2>1, <2>3, <3>1, <3>2
  <2>6. QED
    BY <2>4, <2>5 DEF all
<1> DEFINE all == code \o is
<1> HIDE DEF all, label
<1>5. /\ IsSeq(all) /\ ToSet(all) = ToSet(code) \cup ToSet(is)
      /\ \A n : n # label => Places(all, n) = Places(code, n)
      /\ Places(all, label) = {Len(code) + at}
  BY <1>2, <1>4 DEF all
<1>6. Lands(all, labels, owed \ {label})
  BY <1>1, <1>5 DEF Lands
<1>7. QED
  BY <1>6 DEF all, label

(* One label in front of code without any.                                 *)
LEMMA LabelInFront ==
    ASSUME NEW l, NEW is, IsSeq(is), \A i \in ToSet(is) : ~IsLabel(i)
    PROVE  LET ls == <<l>> \o is
           IN  /\ IsSeq(ls) /\ 1 \in 1 .. Len(ls) /\ ls[1] = l
               /\ ToSet(ls) = {l} \cup ToSet(is)
               /\ \A k \in 1 .. Len(ls) : IsLabel(ls[k]) => k = 1
<1> DEFINE one == <<l>>
           ls  == one \o is
<1>1. IsSeq(one) /\ Len(one) = 1 /\ one[1] = l /\ ToSet(one) = {l}
  BY OneOrTwo
<1> HIDE DEF one
<1>2. /\ IsSeq(ls) /\ Len(ls) = 1 + Len(is) /\ \A k \in 1 .. 1 : ls[k] = one[k]
      /\ \A k \in 1 .. Len(is) : ls[1 + k] = is[k]
      /\ ToSet(ls) = {l} \cup ToSet(is)
  <2>1. /\ IsSeq(ls) /\ Len(ls) = Len(one) + Len(is) /\ \A k \in 1 .. Len(one) : ls[k] = one[k]
        /\ \A k \in 1 .. Len(is) : ls[Len(one) + k] = is[k]
        /\ ToSet(ls) = ToSet(one) \cup ToSet(is)
    <3>1. IsSeq(one) /\ IsSeq(is)
      BY <1>1
    <3>2. QED
      BY ONLY <3>1, Joined
  <2> HIDE DEF ls
  <2>2. QED
    BY <1>1, <2>1
<1> HIDE DEF ls
<1>3. Len(is) \in Nat /\ \A k \in 1 .. Len(is) : ~IsLabel(is[k])
  BY SequenceFacts
<1>4. ASSUME NEW k \in 1 .. Len(ls), k # 1 PROVE ~IsLabel(ls[k])
  <2>1. k - 1 \in 1 .. Len(is) /\ 1 + (k - 1) = k
    BY <1>2, <1>3, <1>4
  <2>2. ls[k] = is[k - 1]
    BY <1>2, <2>1
  <2>3. QED
    BY <1>3, <2>1, <2>2
<1>5. 1 \in 1 .. Len(ls) /\ ls[1] = l
  <2>1. 1 \in 1 .. 1 /\ 1 \in 1 .. 1 + Len(is)
    BY <1>3
  <2>2. QED
    BY <1>1, <1>2, <2>1
<1>6. QED
  BY <1>2, <1>4, <1>5 DEF ls, one

-----------------------------------------------------------------------------
(* The open constructs, the labels they owe, and the loops among them.     *)
Kinds == {"body", "while", "then", "else"}

OwedOf(ret, c) ==
    CASE c.c = "body"  -> ret
      [] c.c = "then"  -> c.other
      [] OTHER         -> c.exit

OwedIn(ret, open) == {OwedOf(ret, open[k]) : k \in DOMAIN open}

LoopsIn(open)     == {k \in DOMAIN open : open[k].c = "while"}
RankIn(open, k)   == Cardinality({j \in LoopsIn(open) : j <= k})

(* No two constructs owe the same label, and the entry of an open loop is  *)
(* a label that was made.                                                  *)
Nested(ret, labels, open) ==
    /\ IsSeq(open)
    /\ \A k \in 1 .. Len(open) : /\ open[k].c \in Kinds
                                 /\ open[k].c = "while" => open[k].enter \in 0 .. labels - 1
    /\ \A j, k \in 1 .. Len(open) : OwedOf(ret, open[j]) = OwedOf(ret, open[k]) => j = k

LEMMA MoreLabels ==
    ASSUME NEW ret, NEW labels \in Nat, NEW more \in Nat, labels <= more, NEW open,
           Nested(ret, labels, open)
    PROVE  Nested(ret, more, open)
<1>1. 0 .. labels - 1 \subseteq 0 .. more - 1
  OBVIOUS
<1>2. QED
  BY <1>1 DEF Nested

LEMMA Opening ==
    ASSUME NEW ret, NEW labels, NEW open, Nested(ret, labels, open),
           NEW c, c.c \in Kinds, OwedOf(ret, c) \notin OwedIn(ret, open),
           c.c = "while" => c.enter \in 0 .. labels - 1
    PROVE  /\ Nested(ret, labels, Append(open, c))
           /\ OwedIn(ret, Append(open, c)) = OwedIn(ret, open) \cup {OwedOf(ret, c)}
           /\ LoopsIn(Append(open, c)) = LoopsIn(open) \cup {k \in {Len(open) + 1} : c.c = "while"}
           /\ \A k \in LoopsIn(open) : Append(open, c)[k] = open[k]
<1> DEFINE o == Append(open, c)
<1>1. IsSeq(open) /\ Len(open) \in Nat /\ DOMAIN open = 1 .. Len(open)
  BY SequenceFacts DEF Nested
<1>2. /\ IsSeq(o) /\ Len(o) = Len(open) + 1
      /\ \A k \in 1 .. Len(open) : o[k] = open[k]
      /\ o[Len(open) + 1] = c
  BY <1>1, Pushed
<1>3. \A k : k \in 1 .. Len(open) + 1 <=> k \in 1 .. Len(open) \/ k = Len(open) + 1
  BY <1>1
<1> HIDE DEF o
<1>4. DOMAIN o = 1 .. Len(open) + 1
  BY <1>2, SequenceFacts
<1>5. OwedIn(ret, o) = OwedIn(ret, open) \cup {OwedOf(ret, c)}
  BY <1>1, <1>2, <1>3, <1>4 DEF OwedIn
<1>6. LoopsIn(o) = LoopsIn(open) \cup {k \in {Len(open) + 1} : c.c = "while"}
  BY <1>1, <1>2, <1>3, <1>4 DEF LoopsIn
<1>7. Nested(ret, labels, o)
  <2>1. \A k \in 1 .. Len(open) : OwedOf(ret, open[k]) # OwedOf(ret, c)
    BY <1>1 DEF OwedIn
  <2>2. \A j, k \in 1 .. Len(open) + 1 : OwedOf(ret, o[j]) = OwedOf(ret, o[k]) => j = k
    BY <1>2, <1>3, <2>1 DEF Nested
  <2>3. \A k \in 1 .. Len(open) + 1 : /\ o[k].c \in Kinds
                                      /\ o[k].c = "while" => o[k].enter \in 0 .. labels - 1
    BY <1>2, <1>3 DEF Nested
  <2>4. QED
    BY <1>2, <2>2, <2>3 DEF Nested
<1>8. \A k \in LoopsIn(open) : o[k] = open[k]
  BY <1>1, <1>2 DEF LoopsIn
<1>9. QED
  BY <1>5, <1>6, <1>7, <1>8 DEF o

LEMMA Closing ==
    ASSUME NEW ret, NEW labels, NEW open, Nested(ret, labels, open), open # <<>>
    PROVE  LET o == Front(open)
           IN  /\ Nested(ret, labels, o)
               /\ OwedIn(ret, o) = OwedIn(ret, open) \ {OwedOf(ret, Last(open))}
               /\ LoopsIn(o) = LoopsIn(open) \ {Len(open)}
               /\ \A k \in LoopsIn(o) : o[k] = open[k]
               /\ Last(open) = open[Len(open)] /\ Len(open) \in 1 .. Len(open)
               /\ Last(open).c \in Kinds /\ OwedOf(ret, Last(open)) \in OwedIn(ret, open)
<1> DEFINE o == Front(open)
           l == Last(open)
<1>1. IsSeq(open) /\ DOMAIN open = 1 .. Len(open)
  BY SequenceFacts DEF Nested
<1>2. /\ IsSeq(o) /\ Len(o) = Len(open) - 1 /\ Len(open) \in Nat \ {0}
      /\ \A k \in 1 .. Len(open) - 1 : o[k] = open[k]
      /\ l = open[Len(open)]
  BY <1>1, Popped
<1>3. \A k : k \in 1 .. Len(open) - 1 <=> k \in 1 .. Len(open) /\ k # Len(open)
  BY <1>2
<1>4. Len(open) \in 1 .. Len(open)
  BY <1>2
<1> HIDE DEF o, l
<1>5. DOMAIN o = 1 .. Len(open) - 1
  BY <1>2, SequenceFacts
<1>6. \A j, k \in 1 .. Len(open) : OwedOf(ret, open[j]) = OwedOf(ret, open[k]) => j = k
  BY DEF Nested
<1>7. OwedIn(ret, o) = OwedIn(ret, open) \ {OwedOf(ret, l)}
  BY <1>1, <1>2, <1>3, <1>4, <1>5, <1>6 DEF OwedIn
<1>8. LoopsIn(o) = LoopsIn(open) \ {Len(open)} /\ \A k \in LoopsIn(o) : o[k] = open[k]
  BY <1>1, <1>2, <1>3, <1>5 DEF LoopsIn
<1>9. Nested(ret, labels, o)
  <2>1. \A j, k \in 1 .. Len(open) - 1 : OwedOf(ret, o[j]) = OwedOf(ret, o[k]) => j = k
    BY <1>2, <1>3, <1>6
  <2>2. \A k \in 1 .. Len(open) - 1 : /\ o[k].c \in Kinds
                                      /\ o[k].c = "while" => o[k].enter \in 0 .. labels - 1
    BY <1>2, <1>3 DEF Nested
  <2>3. QED
    BY <1>2, <2>1, <2>2 DEF Nested
<1>10. l.c \in Kinds /\ OwedOf(ret, l) \in OwedIn(ret, open)
  BY <1>1, <1>2, <1>4 DEF Nested, OwedIn
<1>11. QED
  BY <1>2, <1>4, <1>7, <1>8, <1>9, <1>10 DEF o, l

LEMMA LoopsCounted ==
    ASSUME NEW open, IsSeq(open)
    PROVE  /\ IsFiniteSet(LoopsIn(open)) /\ Cardinality(LoopsIn(open)) \in Nat
           /\ LoopsIn(open) \subseteq 1 .. Len(open)
           /\ \A k : RankIn(open, k) \in 0 .. Cardinality(LoopsIn(open))
<1> DEFINE L == LoopsIn(open)
<1>1. L \subseteq 1 .. Len(open) /\ Len(open) \in Nat
  BY SequenceFacts DEF LoopsIn
<1>2. IsFiniteSet(1 .. Len(open))
  BY <1>1, FS_Interval
<1>3. IsFiniteSet(L) /\ Cardinality(L) \in Nat
  <2> HIDE DEF L
  <2> QED
    BY <1>1, <1>2, FS_Subset, FS_CardinalityType
<1>4. ASSUME NEW k PROVE RankIn(open, k) \in 0 .. Cardinality(L)
  <2> DEFINE below == {j \in L : j <= k}
  <2>1. below \in SUBSET L
    OBVIOUS
  <2> HIDE DEF below, L
  <2>2. IsFiniteSet(below) /\ Cardinality(below) <= Cardinality(L)
    BY <1>3, <2>1, FS_Subset
  <2>3. Cardinality(below) \in Nat
    BY <2>2, FS_CardinalityType
  <2>4. Cardinality(below) \in 0 .. Cardinality(L)
    BY <1>3, <2>2, <2>3
  <2>5. QED
    BY <2>4 DEF RankIn, below, L
<1>5. QED
  BY <1>1, <1>3, <1>4

(* One link stack holds the entry, or the exit, of every open loop above   *)
(* NoLabel, and every label on it was made.                                *)
Follows(links, labels, open, end) ==
    /\ IsSeq(links) /\ Len(links) = 1 + Cardinality(LoopsIn(open))
    /\ links[1] = NoLabel
    /\ \A k \in 1 .. Len(links) : links[k] # NoLabel => links[k] \in 0 .. labels - 1
    /\ \A k \in LoopsIn(open) : links[1 + RankIn(open, k)] = open[k][end]

LEMMA FollowsMore ==
    ASSUME NEW links, NEW labels \in Nat, NEW more \in Nat, labels <= more, NEW open, NEW end,
           Follows(links, labels, open, end)
    PROVE  Follows(links, more, open, end)
<1>1. 0 .. labels - 1 \subseteq 0 .. more - 1
  OBVIOUS
<1>2. QED
  BY <1>1 DEF Follows

(* A construct that is no loop comes or goes: the links stay.              *)
LEMMA LinksKept ==
    ASSUME NEW links, NEW labels, NEW open, NEW end, Follows(links, labels, open, end),
           NEW o, LoopsIn(o) = LoopsIn(open), \A k \in LoopsIn(open) : o[k] = open[k]
    PROVE  Follows(links, labels, o, end)
<1>1. \A k : RankIn(o, k) = RankIn(open, k)
  BY DEF RankIn
<1>2. QED
  BY <1>1 DEF Follows

(* A loop is opened: its label is pushed.                                  *)
LEMMA LinksPushed ==
    ASSUME NEW links, NEW labels, NEW open, NEW end, Follows(links, labels, open, end),
           IsSeq(open), NEW c, c[end] \in 0 .. labels - 1,
           NEW o, LoopsIn(o) = LoopsIn(open) \cup {Len(open) + 1},
           \A k \in LoopsIn(open) : o[k] = open[k], o[Len(open) + 1] = c
    PROVE  Follows(Append(links, c[end]), labels, o, end)
<1> DEFINE L == LoopsIn(open)
           n == Cardinality(L)
           m == Len(open) + 1
           p == Append(links, c[end])
<1>1. /\ IsFiniteSet(L) /\ n \in Nat /\ L \subseteq 1 .. Len(open) /\ Len(open) \in Nat
      /\ \A k : RankIn(open, k) \in 0 .. n
  BY LoopsCounted, SequenceFacts
<1>2. m \notin L /\ m \in Nat /\ \A k \in L : k <= m /\ ~(m <= k) /\ k \in Nat
  BY <1>1
<1>3. IsSeq(links) /\ Len(links) = 1 + n
  BY DEF Follows
<1>4. /\ IsSeq(p) /\ Len(p) = Len(links) + 1
      /\ \A k \in 1 .. Len(links) : p[k] = links[k]
      /\ p[Len(links) + 1] = c[end]
  BY <1>3, Pushed
<1>5. LoopsIn(o) = L \cup {m} /\ Cardinality(L \cup {m}) = n + 1
  <2> HIDE DEF L, m
  <2>1. Cardinality(L \cup {m}) = Cardinality(L) + 1
    BY <1>1, <1>2, FS_AddElement
  <2>2. QED
    BY <2>1 DEF m, L
<1>6. ASSUME NEW k \in L PROVE RankIn(o, k) = RankIn(open, k)
  <2>1. {j \in L \cup {m} : j <= k} = {j \in L : j <= k}
    BY <1>2
  <2>2. QED
    BY <1>5, <2>1 DEF RankIn
<1>7. RankIn(o, m) = n + 1
  <2>1. {j \in L \cup {m} : j <= m} = L \cup {m}
    BY <1>2
  <2>2. QED
    BY <1>5, <2>1 DEF RankIn
<1>8. ASSUME NEW k \in LoopsIn(o) PROVE p[1 + RankIn(o, k)] = o[k][end]
  <2>1. CASE k \in L
    <3>1. 1 + RankIn(open, k) \in 1 .. Len(links)
      <4>1. RankIn(open, k) \in 0 .. n
        BY <1>1
      <4>2. QED
        BY <1>1, <1>3, <4>1
    <3>2. links[1 + RankIn(open, k)] = open[k][end] /\ o[k] = open[k]
      BY <2>1 DEF Follows
    <3>3. QED
      BY <1>4, <1>6, <2>1, <3>1, <3>2
  <2>2. CASE k = m
    <3>1. 1 + RankIn(o, k) = Len(links) + 1
      BY <1>1, <1>3, <1>7, <2>2
    <3>2. QED
      BY <1>4, <2>2, <3>1
  <2>3. QED
    BY <1>5, <2>1, <2>2
<1>9. \A k \in 1 .. Len(p) : p[k] # NoLabel => p[k] \in 0 .. labels - 1
  <2>1. \A k : k \in 1 .. Len(p) => k \in 1 .. Len(links) \/ k = Len(links) + 1
    BY <1>1, <1>3, <1>4
  <2>2. QED
    BY <1>4, <2>1 DEF Follows
<1>10. p[1] = NoLabel /\ Len(p) = 1 + (n + 1)
  <2>1. 1 \in 1 .. Len(links) /\ 1 + n + 1 = 1 + (n + 1)
    BY <1>1, <1>3
  <2>2. QED
    BY <1>3, <1>4, <2>1 DEF Follows
<1> HIDE DEF p
<1>11. Follows(p, labels, o, end)
  BY <1>4, <1>5, <1>8, <1>9, <1>10 DEF Follows
<1>12. QED
  BY <1>11 DEF p

(* The innermost construct, a loop, is closed: its label is popped.        *)
LEMMA LinksPopped ==
    ASSUME NEW links, NEW labels, NEW open, NEW end, Follows(links, labels, open, end),
           IsSeq(open), Len(open) \in LoopsIn(open),
           NEW o, LoopsIn(o) = LoopsIn(open) \ {Len(open)},
           \A k \in LoopsIn(o) : o[k] = open[k]
    PROVE  Follows(Front(links), labels, o, end)
<1> DEFINE L == LoopsIn(open)
           n == Cardinality(L)
           m == Len(open)
           M == LoopsIn(o)
           f == Front(links)
<1>1. /\ IsFiniteSet(L) /\ n \in Nat /\ L \subseteq 1 .. m /\ m \in Nat
      /\ \A k : RankIn(open, k) \in 0 .. n
  BY LoopsCounted, SequenceFacts
<1>2. M = L \ {m} /\ Cardinality(M) = n - 1 /\ IsFiniteSet(M)
  <2> HIDE DEF L, m
  <2>1. IsFiniteSet(L \ {m}) /\ Cardinality(L \ {m}) = Cardinality(L) - 1
    BY <1>1, FS_RemoveElement DEF L, m
  <2>2. QED
    BY <2>1 DEF m, L
<1>3. Cardinality(M) \in Nat
  BY <1>2, FS_CardinalityType
<1>4. IsSeq(links) /\ Len(links) = 1 + n /\ links # <<>>
  <2>1. IsSeq(links) /\ Len(links) = 1 + n
    BY DEF Follows
  <2>2. QED
    BY <1>1, <2>1, SequenceFacts
<1>5. /\ IsSeq(f) /\ Len(f) = Len(links) - 1
      /\ \A k \in 1 .. Len(links) - 1 : f[k] = links[k]
  BY <1>4, Popped
<1>6. ASSUME NEW k \in M
      PROVE  RankIn(o, k) = RankIn(open, k) /\ RankIn(o, k) \in 0 .. n - 1
  <2> DEFINE below == {j \in M : j <= k}
  <2>1. k < m
    BY <1>1, <1>2, <1>6
  <2>2. {j \in L : j <= k} = below
    BY <1>1, <1>2, <2>1
  <2>3. below \in SUBSET M
    OBVIOUS
  <2>4. RankIn(open, k) = Cardinality(below) /\ RankIn(o, k) = Cardinality(below)
    BY <2>2 DEF RankIn
  <2> HIDE DEF below, M
  <2>5. IsFiniteSet(below) /\ Cardinality(below) <= Cardinality(M)
    BY <1>2, <2>3, FS_Subset
  <2>6. Cardinality(below) \in Nat
    BY <2>5, FS_CardinalityType
  <2>7. Cardinality(below) \in 0 .. n - 1
    BY <1>1, <1>2, <1>3, <2>5, <2>6
  <2>8. QED
    BY <2>4, <2>7
<1>7. ASSUME NEW k \in M PROVE f[1 + RankIn(o, k)] = o[k][end]
  <2>1. RankIn(o, k) = RankIn(open, k) /\ RankIn(o, k) \in 0 .. n - 1
    BY <1>6
  <2>2. 1 + RankIn(o, k) \in 1 .. Len(links) - 1
    BY <1>1, <1>4, <2>1
  <2>3. links[1 + RankIn(open, k)] = open[k][end] /\ o[k] = open[k]
    BY <1>2 DEF Follows
  <2>4. QED
    BY <1>5, <2>1, <2>2, <2>3
<1>8. /\ Len(f) = 1 + Cardinality(M) /\ 1 \in 1 .. Len(links) - 1
      /\ \A k \in 1 .. Len(f) : k \in 1 .. Len(links) /\ k \in 1 .. Len(links) - 1
  BY <1>1, <1>2, <1>3, <1>4, <1>5
<1>9. /\ f[1] = NoLabel
      /\ \A k \in 1 .. Len(f) : f[k] # NoLabel => f[k] \in 0 .. labels - 1
  BY <1>5, <1>8 DEF Follows
<1> HIDE DEF f
<1>10. Follows(f, labels, o, end)
  BY <1>5, <1>7, <1>8, <1>9 DEF Follows
<1>11. QED
  BY <1>10 DEF f

-----------------------------------------------------------------------------
(* The generator's state, field by field.                                  *)
Fields == {"code", "heads", "tails", "labels", "open", "ret", "errors"}

IsGen(g, code, heads, tails, labels, open, ret) ==
    /\ DOMAIN g = Fields
    /\ g.code = code /\ g.heads = heads /\ g.tails = tails
    /\ g.labels = labels /\ g.open = open /\ g.ret = ret

LEMMA Updates ==
    ASSUME NEW g, NEW code, NEW heads, NEW tails, NEW labels, NEW open, NEW ret,
           IsGen(g, code, heads, tails, labels, open, ret)
    PROVE  /\ \A is : IsGen(EmitAll(g, is), code \o is, heads, tails, labels, open, ret)
           /\ \A n : IsGen([g EXCEPT !.labels = @ + n], code, heads, tails, labels + n, open, ret)
           /\ \A n, x : IsGen(PushLoop(g, n, x), code, Append(heads, n), Append(tails, x), labels, open, ret)
           /\ IsGen(PopLoop(g), code, Front(heads), Front(tails), labels, open, ret)
           /\ \A c : IsGen(Opened(g, c), code, heads, tails, labels, Append(open, c), ret)
           /\ IsGen(Closed(g), code, heads, tails, labels, Front(open), ret)
           /\ \A n : IsGen([g EXCEPT !.errors = @ + n], code, heads, tails, labels, open, ret)
           /\ Innermost(g) = Last(open)
<1>1. \A is : IsGen(EmitAll(g, is), code \o is, heads, tails, labels, open, ret)
  BY DEF IsGen, Fields, EmitAll
<1>2. \A n : IsGen([g EXCEPT !.labels = @ + n], code, heads, tails, labels + n, open, ret)
  BY DEF IsGen, Fields
<1>3. \A n, x : IsGen(PushLoop(g, n, x), code, Append(heads, n), Append(tails, x), labels, open, ret)
  BY DEF IsGen, Fields, PushLoop
<1>4. IsGen(PopLoop(g), code, Front(heads), Front(tails), labels, open, ret)
  BY DEF IsGen, Fields, PopLoop
<1>5. \A c : IsGen(Opened(g, c), code, heads, tails, labels, Append(open, c), ret)
  BY DEF IsGen, Fields, Opened
<1>6. IsGen(Closed(g), code, heads, tails, labels, Front(open), ret)
  BY DEF IsGen, Fields, Closed
<1>7. \A n : IsGen([g EXCEPT !.errors = @ + n], code, heads, tails, labels, open, ret)
  BY DEF IsGen, Fields
<1>8. Innermost(g) = Last(open)
  BY DEF IsGen, Innermost
<1>9. QED
  BY <1>1, <1>2, <1>3, <1>4, <1>5, <1>6, <1>7, <1>8

-----------------------------------------------------------------------------
(* What holds of the generator between two statements.                     *)
Sound(code, heads, tails, labels, open, ret) ==
    /\ ret \in 0 .. labels - 1
    /\ Lands(code, labels, OwedIn(ret, open))
    /\ Nested(ret, labels, open)
    /\ Follows(heads, labels, open, "enter")
    /\ Follows(tails, labels, open, "exit")

GenInv(g) ==
    /\ DOMAIN g = Fields
    /\ Sound(g.code, g.heads, g.tails, g.labels, g.open, g.ret)

LEMMA GenIs ==
    ASSUME NEW g, NEW code, NEW heads, NEW tails, NEW labels, NEW open, NEW ret,
           IsGen(g, code, heads, tails, labels, open, ret),
           Sound(code, heads, tails, labels, open, ret)
    PROVE  GenInv(g)
BY DEF IsGen, GenInv

(* Instructions without a label, whose jumps and returns go to labels that *)
(* were made.                                                              *)
Plainly(is, labels) ==
    IsSeq(is) /\ \A i \in ToSet(is) : ~IsLabel(i) /\ (Targeted(i) => i.target \in 0 .. labels - 1)

LEMMA StraightIsPlain ==
    ASSUME NEW is, Straight(is), NEW labels PROVE Plainly(is, labels)
BY DEF Straight, Plainly, IsSeq, Targeted

LEMMA JumpIsPlain ==
    ASSUME NEW op \in {"jmp", "jmp_false", "return", "return_val"}, NEW o, NEW labels,
           NEW n \in 0 .. labels - 1
    PROVE  /\ Plainly(<<Jump(op, o, n)>>, labels)
           /\ ~IsLabel(Jump(op, o, n)) /\ Jump(op, o, n).target = n
<1> DEFINE j == Jump(op, o, n)
           js == <<j>>
<1>1. ~IsLabel(j) /\ j.target = n
  BY DEF Jump, Instr, IsLabel
<1>2. IsSeq(js) /\ ToSet(js) = {j}
  BY OneOrTwo
<1> HIDE DEF j, js
<1>3. Plainly(js, labels)
  BY <1>1, <1>2 DEF Plainly
<1>4. QED
  BY <1>1, <1>3 DEF j, js

LEMMA PlainJoined ==
    ASSUME NEW is, NEW js, NEW labels, Plainly(is, labels), Plainly(js, labels)
    PROVE  Plainly(is \o js, labels)
<1>1. IsSeq(is) /\ IsSeq(js)
  BY DEF Plainly
<1>2. IsSeq(is \o js) /\ ToSet(is \o js) = ToSet(is) \cup ToSet(js)
  BY ONLY <1>1, Joined
<1>3. QED
  BY <1>2 DEF Plainly

LEMMA EmittedPlain ==
    ASSUME NEW code, NEW heads, NEW tails, NEW labels, NEW open, NEW ret,
           Sound(code, heads, tails, labels, open, ret), NEW is, Plainly(is, labels)
    PROVE  Sound(code \o is, heads, tails, labels, open, ret)
<1>1. Lands(code \o is, labels, OwedIn(ret, open))
  BY LandsPlain DEF Sound, Plainly
<1>2. QED
  BY <1>1 DEF Sound

LEMMA Regrouped ==
    ASSUME NEW s, NEW t, NEW u, IsSeq(s), IsSeq(t), IsSeq(u)
    PROVE  (s \o t) \o u = s \o (t \o u)
<1> DEFINE S == (ToSet(s) \cup ToSet(t)) \cup ToSet(u)
<1>1. s \in Seq(S) /\ t \in Seq(S) /\ u \in Seq(S)
  BY SeqMonotonic DEF IsSeq
<1> HIDE DEF S
<1>2. QED
  BY <1>1, ConcatAssociative

(* The tests a sound state answers at once.                                *)
LEMMA SoundFacts ==
    ASSUME NEW code, NEW heads, NEW tails, NEW labels, NEW open, NEW ret,
           Sound(code, heads, tails, labels, open, ret)
    PROVE  /\ labels \in Nat /\ labels + 1 \in Nat /\ labels + 2 \in Nat
           /\ labels <= labels + 1 /\ labels <= labels + 2 /\ labels + 1 + 1 = labels + 2
           /\ labels \in 0 .. labels + 1 - 1 /\ labels \in 0 .. labels + 2 - 1
           /\ labels + 1 \in 0 .. labels + 2 - 1 /\ labels # labels + 1
           /\ 0 .. labels - 1 \subseteq 0 .. labels + 1 - 1
           /\ 0 .. labels - 1 \subseteq 0 .. labels + 2 - 1
           /\ IsSeq(open) /\ OwedIn(ret, open) \subseteq 0 .. labels - 1
           /\ labels \notin OwedIn(ret, open) /\ labels + 1 \notin OwedIn(ret, open)
<1>1. labels \in Nat /\ OwedIn(ret, open) \subseteq 0 .. labels - 1 /\ IsSeq(open)
  BY DEF Sound, Lands, Nested
<1>2. \A n \in 0 .. labels - 1 : n # labels /\ n # labels + 1
  BY <1>1
<1>3. QED
  BY <1>1, <1>2

(* Labels are made: owed by nobody yet.                                    *)
LEMMA Made ==
    ASSUME NEW code, NEW heads, NEW tails, NEW labels, NEW open, NEW ret,
           Sound(code, heads, tails, labels, open, ret)
    PROVE  /\ Lands(code, labels + 1, OwedIn(ret, open) \cup {labels})
           /\ Lands(code, labels + 2, (OwedIn(ret, open) \cup {labels}) \cup {labels + 1})
<1>1. Lands(code, labels + 1, OwedIn(ret, open) \cup {labels})
  BY LandsMade DEF Sound
<1>2. Lands(code, labels + 1 + 1, (OwedIn(ret, open) \cup {labels}) \cup {labels + 1})
  BY <1>1, LandsMade
<1>3. labels + 1 + 1 = labels + 2
  BY SoundFacts
<1> DEFINE more == labels + 1
<1>4. QED
  BY <1>1, <1>2, <1>3

LEMMA WhileHeadSound ==
    ASSUME NEW g, GenInv(g), NEW s, Straight(s.eval)
    PROVE  GenInv(WhileHead(g, s))
<1> DEFINE code  == g.code
           enter == g.labels
           exit  == g.labels + 1
           more  == g.labels + 2
           open  == g.open
           ret   == g.ret
           label == LabelInst(enter)
           jump  == Jump("jmp_false", Condition(s.cond), exit)
           rest  == s.eval \o <<jump>>
           is    == <<label>> \o s.eval \o <<jump>>
           c     == [c |-> "while", enter |-> enter, exit |-> exit]
           g1    == [g EXCEPT !.labels = @ + 2]
           g2    == PushLoop(g1, enter, exit)
           g3    == EmitAll(g2, is)
           o     == Append(open, c)
<1>1. Sound(code, g.heads, g.tails, enter, open, ret)
      /\ IsGen(g, code, g.heads, g.tails, enter, open, ret)
  BY DEF GenInv, IsGen
<1>2. WhileHead(g, s) = Opened(g3, c)
  BY DEF WhileHead
<1>3. /\ c.c = "while" /\ c.c \in Kinds /\ OwedOf(ret, c) = exit
      /\ c["enter"] = enter /\ c.enter = enter /\ c["exit"] = exit
  BY DEF Kinds, OwedOf
<1>4. /\ enter \in Nat /\ more \in Nat /\ enter <= more /\ enter # exit
      /\ enter \in 0 .. more - 1 /\ exit \in 0 .. more - 1
      /\ IsSeq(open) /\ enter \notin OwedIn(ret, open) /\ exit \notin OwedIn(ret, open)
  BY <1>1, SoundFacts
<1>5. IsLabel(label) /\ label.target = enter
  BY DEF LabelInst, Instr, IsLabel
<1>6. is = <<label>> \o rest
  <2>1. IsSeq(<<label>>) /\ IsSeq(<<jump>>) /\ IsSeq(s.eval)
    BY OneOrTwo DEF Straight, IsSeq
  <2> DEFINE first == <<label>>
             last  == <<jump>>
             eval  == s.eval
  <2>2. is = (first \o eval) \o last /\ rest = eval \o last
    OBVIOUS
  <2>3. IsSeq(first) /\ IsSeq(eval) /\ IsSeq(last)
    BY <2>1
  <2> HIDE DEF first, last, eval, is, rest
  <2>4. (first \o eval) \o last = first \o (eval \o last)
    BY ONLY <2>3, Regrouped
  <2>5. QED
    BY <2>2, <2>4 DEF first
<1> HIDE DEF g1, g2, g3, c, is, o
<1>7. Lands(code \o is, more, OwedIn(ret, open) \cup {exit})
  <2>1. Lands(code, more, (OwedIn(ret, open) \cup {enter}) \cup {exit})
    BY <1>1, Made
  <2>2. Plainly(rest, more)
    <3>1. Plainly(s.eval, more)
      BY StraightIsPlain
    <3>2. Plainly(<<jump>>, more)
      <4> HIDE DEF more, exit
      <4> QED
        BY <1>4, JumpIsPlain
    <3> HIDE DEF jump, more
    <3>3. QED
      BY <3>1, <3>2, PlainJoined
  <2> HIDE DEF rest, label, more, exit, enter
  <2>3. /\ IsSeq(is) /\ 1 \in 1 .. Len(is) /\ is[1] = label
        /\ ToSet(is) = {label} \cup ToSet(rest)
        /\ \A k \in 1 .. Len(is) : IsLabel(is[k]) => k = 1
    <3>1. IsSeq(rest) /\ \A i \in ToSet(rest) : ~IsLabel(i)
      BY <2>2 DEF Plainly
    <3>2. QED
      BY <1>6, <3>1, LabelInFront
  <2>4. \A i \in ToSet(is) : Targeted(i) => i.target \in 0 .. more - 1
    BY <1>4, <1>5, <2>2, <2>3 DEF Plainly
  <2>5. Lands(code \o is, more, ((OwedIn(ret, open) \cup {enter}) \cup {exit}) \ {enter})
    <3> DEFINE owed == (OwedIn(ret, open) \cup {enter}) \cup {exit}
    <3>1. is[1].target = enter /\ IsLabel(is[1]) /\ enter \in owed
      BY <1>5, <2>3
    <3> HIDE DEF owed
    <3>2. Lands(code \o is, more, owed \ {is[1].target})
      BY <2>1, <2>3, <2>4, <3>1, LandsPlaced DEF owed
    <3>3. QED
      BY <3>1, <3>2 DEF owed
  <2>6. ((OwedIn(ret, open) \cup {enter}) \cup {exit}) \ {enter} = OwedIn(ret, open) \cup {exit}
    BY <1>4
  <2>7. QED
    BY <2>5, <2>6
<1>8. /\ Nested(ret, more, o) /\ OwedIn(ret, o) = OwedIn(ret, open) \cup {exit}
      /\ LoopsIn(o) = LoopsIn(open) \cup {Len(open) + 1}
      /\ \A k \in LoopsIn(open) : o[k] = open[k]
      /\ o[Len(open) + 1] = c
  <2> HIDE DEF more, exit, enter
  <2>1. Nested(ret, more, open)
    BY <1>1, <1>4, MoreLabels DEF Sound
  <2>2. o[Len(open) + 1] = c
    BY <1>4, Pushed DEF o
  <2>3. /\ c.c \in Kinds /\ OwedOf(ret, c) \notin OwedIn(ret, open)
        /\ c.c = "while" => c.enter \in 0 .. more - 1
    BY <1>3, <1>4
  <2> HIDE DEF open, ret
  <2>4. Nested(ret, more, Append(open, c))
    BY <2>1, <2>3, Opening
  <2>5. OwedIn(ret, Append(open, c)) = OwedIn(ret, open) \cup {OwedOf(ret, c)}
    BY <2>1, <2>3, Opening
  <2>6. LoopsIn(Append(open, c)) = LoopsIn(open) \cup {k \in {Len(open) + 1} : c.c = "while"}
    BY <2>1, <2>3, Opening
  <2>7. \A k \in LoopsIn(open) : Append(open, c)[k] = open[k]
    BY <1>4, LoopsCounted, Pushed
  <2>8. {k \in {Len(open) + 1} : c.c = "while"} = {Len(open) + 1}
    BY <1>3
  <2>9. QED
    BY <1>3, <2>2, <2>4, <2>5, <2>6, <2>7, <2>8 DEF o
<1>9. /\ Follows(Append(g.heads, enter), more, o, "enter")
      /\ Follows(Append(g.tails, exit), more, o, "exit")
  <2> HIDE DEF more, exit, enter
  <2>1. Follows(g.heads, more, open, "enter") /\ Follows(g.tails, more, open, "exit")
    BY <1>1, <1>4, FollowsMore DEF Sound
  <2>2. c["enter"] \in 0 .. more - 1 /\ c["exit"] \in 0 .. more - 1
    BY <1>3, <1>4
  <2>3. /\ Follows(Append(g.heads, c["enter"]), more, o, "enter")
        /\ Follows(Append(g.tails, c["exit"]), more, o, "exit")
    BY <1>4, <1>8, <2>1, <2>2, LinksPushed
  <2>4. QED
    BY <1>3, <2>3
<1>10. IsGen(Opened(g3, c), code \o is, Append(g.heads, enter), Append(g.tails, exit), more, o, ret)
  <2>1. IsGen(g1, code, g.heads, g.tails, more, open, ret)
    BY <1>1, Updates DEF g1
  <2> HIDE DEF more, exit, enter, code, open, ret
  <2>2. IsGen(g2, code, Append(g.heads, enter), Append(g.tails, exit), more, open, ret)
    BY <2>1, Updates DEF g2
  <2>3. IsGen(g3, code \o is, Append(g.heads, enter), Append(g.tails, exit), more, open, ret)
    BY <2>2, Updates DEF g3
  <2>4. QED
    BY <2>3, Updates DEF o
<1>11. Sound(code \o is, Append(g.heads, enter), Append(g.tails, exit), more, o, ret)
  <2>1. ret \in 0 .. more - 1
    BY <1>1, SoundFacts DEF Sound
  <2> HIDE DEF more, exit, enter, code, open, ret
  <2>2. QED
    BY <1>7, <1>8, <1>9, <2>1 DEF Sound
<1>12. QED
  BY <1>2, <1>10, <1>11, GenIs

(* A construct that is no loop opens over the labels made so far.          *)
LEMMA BranchOpened ==
    ASSUME NEW code, NEW heads, NEW tails, NEW open, NEW ret, NEW c,
           NEW more, ret \in 0 .. more - 1, Lands(code, more, OwedIn(ret, open) \cup {OwedOf(ret, c)}),
           Nested(ret, more, open),
           Follows(heads, more, open, "enter"), Follows(tails, more, open, "exit"),
           c.c \in {"then", "else"}, OwedOf(ret, c) \notin OwedIn(ret, open)
    PROVE  Sound(code, heads, tails, more, Append(open, c), ret)
<1> DEFINE o == Append(open, c)
<1>1. IsSeq(open) /\ c.c \in Kinds /\ c.c # "while"
  BY DEF Nested, Kinds
<1>2. Nested(ret, more, o)
  BY <1>1, Opening
<1>3. OwedIn(ret, o) = OwedIn(ret, open) \cup {OwedOf(ret, c)}
  BY <1>1, Opening
<1>4. LoopsIn(o) = LoopsIn(open)
  <2>1. LoopsIn(o) = LoopsIn(open) \cup {k \in {Len(open) + 1} : c.c = "while"}
    BY <1>1, Opening
  <2>2. {k \in {Len(open) + 1} : c.c = "while"} = {}
    BY <1>1
  <2>3. QED
    BY <2>1, <2>2
<1>5. \A k \in LoopsIn(open) : o[k] = open[k]
  BY <1>1, LoopsCounted, Pushed
<1> HIDE DEF o
<1>6. Follows(heads, more, o, "enter") /\ Follows(tails, more, o, "exit")
  BY <1>4, <1>5, LinksKept
<1>7. Sound(code, heads, tails, more, o, ret)
  BY <1>2, <1>3, <1>6 DEF Sound
<1>8. QED
  BY <1>7 DEF o

(* A construct that is no loop closes: its label was placed.               *)
LEMMA BranchClosed ==
    ASSUME NEW heads, NEW tails, NEW labels, NEW open, NEW ret,
           Nested(ret, labels, open), open # <<>>, Last(open).c # "while",
           Follows(heads, labels, open, "enter"), Follows(tails, labels, open, "exit")
    PROVE  /\ Nested(ret, labels, Front(open))
           /\ OwedIn(ret, Front(open)) = OwedIn(ret, open) \ {OwedOf(ret, Last(open))}
           /\ Follows(heads, labels, Front(open), "enter")
           /\ Follows(tails, labels, Front(open), "exit")
<1> DEFINE o == Front(open)
<1>1. /\ Nested(ret, labels, o)
      /\ OwedIn(ret, o) = OwedIn(ret, open) \ {OwedOf(ret, Last(open))}
      /\ LoopsIn(o) = LoopsIn(open) \ {Len(open)}
      /\ \A k \in LoopsIn(o) : o[k] = open[k]
      /\ Last(open) = open[Len(open)]
  BY Closing, ZenonT(30)
<1> HIDE DEF o
<1>2. LoopsIn(o) = LoopsIn(open)
  <2>1. Len(open) \notin LoopsIn(open)
    BY <1>1 DEF LoopsIn
  <2>2. QED
    BY <1>1, <2>1
<1>3. Follows(heads, labels, o, "enter") /\ Follows(tails, labels, o, "exit")
  BY <1>1, <1>2, LinksKept
<1>4. QED
  BY <1>1, <1>3 DEF o

(* The code that places the label of the innermost construct, beside a     *)
(* jump or a plain instruction.                                            *)
LEMMA OwedPlaced ==
    ASSUME NEW code, NEW labels, NEW owed, Lands(code, labels, owed), NEW n \in owed,
           NEW j, ~IsLabel(j), Targeted(j) => j.target \in 0 .. labels - 1
    PROVE  /\ Lands(code \o <<LabelInst(n)>>, labels, owed \ {n})
           /\ Lands(code \o <<LabelInst(n), j>>, labels, owed \ {n})
           /\ Lands(code \o <<j, LabelInst(n)>>, labels, owed \ {n})
<1> DEFINE l  == LabelInst(n)
           s1 == <<l>>
           s2 == <<l, j>>
           s3 == <<j, l>>
<1>1. IsLabel(l) /\ l.target = n /\ n \in 0 .. labels - 1
  BY DEF LabelInst, Instr, IsLabel, Lands
<1> HIDE DEF l
<1>2. /\ IsSeq(s1) /\ Len(s1) = 1 /\ s1[1] = l /\ ToSet(s1) = {l}
      /\ IsSeq(s2) /\ Len(s2) = 2 /\ s2[1] = l /\ s2[2] = j /\ ToSet(s2) = {l, j}
      /\ IsSeq(s3) /\ Len(s3) = 2 /\ s3[1] = j /\ s3[2] = l /\ ToSet(s3) = {j, l}
  BY OneOrTwo
<1> HIDE DEF s1, s2, s3
<1>3. /\ \A k \in 1 .. 1 : k = 1
      /\ \A k \in 1 .. 2 : k = 1 \/ k = 2
      /\ 1 \in 1 .. 1 /\ 1 \in 1 .. 2 /\ 2 \in 1 .. 2
  OBVIOUS
<1>4. Lands(code \o s1, labels, owed \ {n})
  <2>1. 1 \in 1 .. Len(s1) /\ IsLabel(s1[1]) /\ s1[1].target = n
        /\ \A k \in 1 .. Len(s1) : IsLabel(s1[k]) => k = 1
    BY <1>1, <1>2, <1>3
  <2>2. \A i \in ToSet(s1) : Targeted(i) => i.target \in 0 .. labels - 1
    BY <1>1, <1>2
  <2>3. Lands(code \o s1, labels, owed \ {s1[1].target})
    BY <1>2, <2>1, <2>2, LandsPlaced
  <2>4. QED
    BY <2>1, <2>3
<1>5. Lands(code \o s2, labels, owed \ {n})
  <2>1. 1 \in 1 .. Len(s2) /\ IsLabel(s2[1]) /\ s2[1].target = n
        /\ \A k \in 1 .. Len(s2) : IsLabel(s2[k]) => k = 1
    BY <1>1, <1>2, <1>3
  <2>2. \A i \in ToSet(s2) : Targeted(i) => i.target \in 0 .. labels - 1
    BY <1>1, <1>2
  <2>3. Lands(code \o s2, labels, owed \ {s2[1].target})
    BY <1>2, <2>1, <2>2, LandsPlaced
  <2>4. QED
    BY <2>1, <2>3
<1>6. Lands(code \o s3, labels, owed \ {n})
  <2>1. 2 \in 1 .. Len(s3) /\ IsLabel(s3[2]) /\ s3[2].target = n
        /\ \A k \in 1 .. Len(s3) : IsLabel(s3[k]) => k = 2
    BY <1>1, <1>2, <1>3
  <2>2. \A i \in ToSet(s3) : Targeted(i) => i.target \in 0 .. labels - 1
    BY <1>1, <1>2
  <2>3. Lands(code \o s3, labels, owed \ {s3[2].target})
    BY <1>2, <2>1, <2>2, LandsPlaced
  <2>4. QED
    BY <2>1, <2>3
<1>7. QED
  BY <1>4, <1>5, <1>6 DEF s1, s2, s3, l

LEMMA IfHeadSound ==
    ASSUME NEW g, GenInv(g), NEW s, Straight(s.eval)
    PROVE  GenInv(IfHead(g, s))
<1> DEFINE code  == g.code
           other == g.labels
           more  == g.labels + 1
           open  == g.open
           ret   == g.ret
           jump  == Jump("jmp_false", s.cond, other)
           is    == s.eval \o <<jump>>
           c     == [c |-> "then", other |-> other]
           g1    == [g EXCEPT !.labels = @ + 1]
           g2    == EmitAll(g1, is)
<1>1. Sound(code, g.heads, g.tails, other, open, ret)
      /\ IsGen(g, code, g.heads, g.tails, other, open, ret)
  BY DEF GenInv, IsGen
<1>2. IfHead(g, s) = Opened(g2, c)
  BY DEF IfHead
<1>3. c.c \in {"then", "else"} /\ OwedOf(ret, c) = other
  BY DEF OwedOf
<1>4. /\ other \in Nat /\ more \in Nat /\ other <= more
      /\ other \in 0 .. more - 1 /\ other \notin OwedIn(ret, open) /\ ret \in 0 .. more - 1
  BY <1>1, SoundFacts DEF Sound
<1>5. Lands(code, more, OwedIn(ret, open) \cup {OwedOf(ret, c)})
  BY <1>1, <1>3, Made
<1>6. Plainly(is, more)
  <2>1. Plainly(s.eval, more)
    BY StraightIsPlain
  <2> HIDE DEF more, other
  <2>2. Plainly(<<jump>>, more)
    BY <1>4, JumpIsPlain
  <2> HIDE DEF jump
  <2>3. QED
    BY <2>1, <2>2, PlainJoined
<1> HIDE DEF g1, g2, c, is, other, more, code, open, ret
<1>7. /\ Nested(ret, more, open)
      /\ Follows(g.heads, more, open, "enter") /\ Follows(g.tails, more, open, "exit")
  BY <1>1, <1>4, MoreLabels, FollowsMore DEF Sound
<1>8. Sound(code, g.heads, g.tails, more, Append(open, c), ret)
  BY <1>3, <1>4, <1>5, <1>7, BranchOpened
<1>9. Sound(code \o is, g.heads, g.tails, more, Append(open, c), ret)
  BY <1>6, <1>8, EmittedPlain
<1>10. IsGen(Opened(g2, c), code \o is, g.heads, g.tails, more, Append(open, c), ret)
  <2>1. IsGen(g1, code, g.heads, g.tails, more, open, ret)
    BY <1>1, Updates DEF g1, more, other
  <2>2. IsGen(g2, code \o is, g.heads, g.tails, more, open, ret)
    BY <2>1, Updates DEF g2
  <2>3. QED
    BY <2>2, Updates
<1>11. QED
  BY <1>2, <1>9, <1>10, GenIs

LEMMA ElseHeadSound ==
    ASSUME NEW g, GenInv(g), g.open # <<>>, Innermost(g).c = "then"
    PROVE  /\ GenInv(ElseHead(g)) /\ ElseHead(g).open # <<>>
           /\ Innermost(ElseHead(g)).c = "else"
<1> DEFINE code  == g.code
           exit  == g.labels
           more  == g.labels + 1
           open  == g.open
           ret   == g.ret
           b     == Last(open)
           jump  == Jump("jmp", NoOperand, exit)
           is    == <<jump, LabelInst(b.other)>>
           c     == [c |-> "else", exit |-> exit]
           g1    == [g EXCEPT !.labels = @ + 1]
           g2    == EmitAll(g1, is)
           g3    == Closed(g2)
<1>1. Sound(code, g.heads, g.tails, exit, open, ret)
      /\ IsGen(g, code, g.heads, g.tails, exit, open, ret)
  BY DEF GenInv, IsGen
<1>2. ElseHead(g) = Opened(g3, c)
  BY DEF ElseHead, Innermost
<1>3. /\ c.c = "else" /\ OwedOf(ret, c) = exit
      /\ b.c = "then" /\ OwedOf(ret, b) = b.other
  BY DEF OwedOf, Innermost
<1>4. /\ exit \in Nat /\ more \in Nat /\ exit <= more
      /\ exit \in 0 .. more - 1 /\ exit \notin OwedIn(ret, open) /\ ret \in 0 .. more - 1
  BY <1>1, SoundFacts DEF Sound
<1>5. Lands(code, more, OwedIn(ret, open) \cup {exit})
  BY <1>1, Made
<1> HIDE DEF g1, g2, g3, c, exit, more, code, ret
<1>6. b.other \in OwedIn(ret, open)
  <2>1. Nested(ret, exit, open) /\ open # <<>>
    BY <1>1 DEF Sound
  <2> HIDE DEF open
  <2>2. OwedOf(ret, b) \in OwedIn(ret, open)
    BY <2>1, Closing
  <2>3. QED
    BY <1>3, <2>2
<1> HIDE DEF open
<1>7. Lands(code \o is, more, (OwedIn(ret, open) \cup {exit}) \ {b.other})
  <2>1. ~IsLabel(jump) /\ jump.target \in 0 .. more - 1
    BY <1>4 DEF Jump, Instr, IsLabel
  <2> HIDE DEF jump, b
  <2>2. QED
    BY <1>5, <1>6, <2>1, OwedPlaced
<1> HIDE DEF is
<1>8. /\ Nested(ret, more, open)
      /\ Follows(g.heads, more, open, "enter") /\ Follows(g.tails, more, open, "exit")
  BY <1>1, <1>4, MoreLabels, FollowsMore DEF Sound
<1>9. /\ Nested(ret, more, Front(open))
      /\ OwedIn(ret, Front(open)) = OwedIn(ret, open) \ {b.other}
      /\ Follows(g.heads, more, Front(open), "enter") /\ Follows(g.tails, more, Front(open), "exit")
  <2>1. open # <<>> /\ Last(open).c # "while" /\ OwedOf(ret, Last(open)) = b.other
    BY <1>3 DEF open
  <2> HIDE DEF b
  <2>2. Nested(ret, more, Front(open))
    BY <1>8, <2>1, BranchClosed
  <2>3. OwedIn(ret, Front(open)) = OwedIn(ret, open) \ {OwedOf(ret, Last(open))}
    BY <1>8, <2>1, Closing
  <2>4. Follows(g.heads, more, Front(open), "enter")
    BY <1>8, <2>1, BranchClosed
  <2>5. Follows(g.tails, more, Front(open), "exit")
    BY <1>8, <2>1, BranchClosed
  <2>6. QED
    BY <2>1, <2>2, <2>3, <2>4, <2>5
<1> HIDE DEF b
<1>10. Sound(code \o is, g.heads, g.tails, more, Append(Front(open), c), ret)
  <2> DEFINE o == Front(open)
             now == code \o is
  <2>1. OwedOf(ret, c) \notin OwedIn(ret, o)
    BY <1>3, <1>4, <1>9
  <2>2. (OwedIn(ret, open) \cup {exit}) \ {b.other} = OwedIn(ret, o) \cup {OwedOf(ret, c)}
    BY <1>3, <1>4, <1>6, <1>9
  <2> HIDE DEF o, now
  <2>3. Lands(now, more, OwedIn(ret, o) \cup {OwedOf(ret, c)})
    BY <1>7, <2>2 DEF now
  <2>4. /\ Nested(ret, more, o)
        /\ Follows(g.heads, more, o, "enter") /\ Follows(g.tails, more, o, "exit")
    BY <1>9 DEF o
  <2>5. Sound(now, g.heads, g.tails, more, Append(o, c), ret)
    BY <1>3, <1>4, <2>1, <2>3, <2>4, BranchOpened
  <2>6. QED
    BY <2>5 DEF o, now
<1>11. IsGen(Opened(g3, c), code \o is, g.heads, g.tails, more, Append(Front(open), c), ret)
  <2>1. IsGen(g1, code, g.heads, g.tails, more, open, ret)
    BY <1>1, Updates DEF g1, more, exit
  <2>2. IsGen(g2, code \o is, g.heads, g.tails, more, open, ret)
    BY <2>1, Updates DEF g2
  <2>3. IsGen(g3, code \o is, g.heads, g.tails, more, Front(open), ret)
    BY <2>2, Updates DEF g3
  <2>4. QED
    BY <2>3, Updates
<1>12. Append(Front(open), c) # <<>> /\ Last(Append(Front(open), c)) = c
  <2> DEFINE o == Front(open)
             p == Append(o, c)
  <2>1. IsSeq(o)
    BY <1>9 DEF Nested
  <2>2. Len(o) \in Nat /\ IsSeq(p) /\ Len(p) = Len(o) + 1 /\ p[Len(o) + 1] = c
    <3> HIDE DEF o
    <3> QED
      BY <2>1, Pushed, SequenceFacts
  <2> HIDE DEF o, p
  <2>3. p # <<>> /\ p[Len(p)] = c
    BY <2>2, SequenceFacts
  <2>4. QED
    BY <2>3 DEF Last, o, p
<1>13. QED
  <2> DEFINE h == Opened(g3, c)
             p == Append(Front(open), c)
  <2> HIDE DEF p
  <2>1. h.open = p /\ Innermost(h) = Last(p)
    BY <1>11 DEF IsGen, Innermost, p
  <2>2. p # <<>> /\ Last(p).c = "else"
    BY <1>3, <1>12 DEF p
  <2>3. QED
    BY <1>2, <1>10, <1>11, <2>1, <2>2, GenIs

LEMMA ElseTailSound ==
    ASSUME NEW g, GenInv(g), g.open # <<>>, Innermost(g).c = "else"
    PROVE  GenInv(ElseTail(g))
<1> DEFINE code == g.code
           open == g.open
           ret  == g.ret
           b    == Last(open)
           is   == <<LabelInst(b.exit)>>
           o    == Front(open)
           g1   == EmitAll(g, is)
<1>1. Sound(code, g.heads, g.tails, g.labels, open, ret)
      /\ IsGen(g, code, g.heads, g.tails, g.labels, open, ret)
  BY DEF GenInv, IsGen
<1>2. ElseTail(g) = Closed(g1)
  BY DEF ElseTail, Emit, Innermost
<1>3. open # <<>> /\ Last(open).c # "while" /\ OwedOf(ret, Last(open)) = b.exit
  BY DEF OwedOf, Innermost
<1> HIDE DEF code, open, ret, b, g1
<1>4. Nested(ret, g.labels, open)
  BY <1>1 DEF Sound
<1>5. OwedIn(ret, o) = OwedIn(ret, open) \ {OwedOf(ret, Last(open))}
  BY <1>3, <1>4, Closing
<1>6. OwedOf(ret, Last(open)) \in OwedIn(ret, open)
  BY <1>3, <1>4, Closing
<1>7. Lands(code \o is, g.labels, OwedIn(ret, o))
  <2>1. Lands(code, g.labels, OwedIn(ret, open)) /\ b.exit \in OwedIn(ret, open)
    BY <1>1, <1>3, <1>6 DEF Sound
  <2>2. ~IsLabel(Plain("exit")) /\ ~Targeted(Plain("exit"))
    BY DEF Plain, Instr, IsLabel, Targeted, IsJump, IsJmp, IsJmpCond, IsReturn
  <2>3. Lands(code \o is, g.labels, OwedIn(ret, open) \ {b.exit})
    BY <2>1, <2>2, OwedPlaced
  <2>4. QED
    BY <1>3, <1>5, <2>3
<1>8. Sound(code \o is, g.heads, g.tails, g.labels, o, ret)
  <2>1. Follows(g.heads, g.labels, open, "enter") /\ Follows(g.tails, g.labels, open, "exit")
    BY <1>1 DEF Sound
  <2>2. Nested(ret, g.labels, o)
    BY <1>3, <1>4, <2>1, BranchClosed
  <2>3. Follows(g.heads, g.labels, o, "enter")
    BY <1>3, <1>4, <2>1, BranchClosed
  <2>4. Follows(g.tails, g.labels, o, "exit")
    BY <1>3, <1>4, <2>1, BranchClosed
  <2>5. QED
    BY <1>1, <1>7, <2>2, <2>3, <2>4 DEF Sound
<1> HIDE DEF is
<1>9. IsGen(Closed(g1), code \o is, g.heads, g.tails, g.labels, o, ret)
  <2>1. IsGen(g1, code \o is, g.heads, g.tails, g.labels, open, ret)
    BY <1>1, Updates DEF g1
  <2>2. QED
    BY <2>1, Updates
<1>10. QED
  BY <1>2, <1>8, <1>9, GenIs

LEMMA FunctionTailSound ==
    ASSUME NEW g, GenInv(g), g.open # <<>>, Innermost(g).c = "body"
    PROVE  GenInv(Closed(FunctionTail(g)))
<1> DEFINE code == g.code
           open == g.open
           ret  == g.ret
           b    == Last(open)
           is   == <<LabelInst(ret), Plain("exit")>>
           o    == Front(open)
           g1   == EmitAll(g, is)
<1>1. Sound(code, g.heads, g.tails, g.labels, open, ret)
      /\ IsGen(g, code, g.heads, g.tails, g.labels, open, ret)
  BY DEF GenInv, IsGen
<1>2. FunctionTail(g) = g1
  BY DEF FunctionTail
<1>3. open # <<>> /\ Last(open).c # "while" /\ OwedOf(ret, Last(open)) = ret
  BY DEF OwedOf, Innermost
<1> HIDE DEF code, open, ret, b, g1
<1>4. Nested(ret, g.labels, open)
  BY <1>1 DEF Sound
<1>5. OwedIn(ret, o) = OwedIn(ret, open) \ {OwedOf(ret, Last(open))}
  BY <1>3, <1>4, Closing
<1>6. OwedOf(ret, Last(open)) \in OwedIn(ret, open)
  BY <1>3, <1>4, Closing
<1>7. Lands(code \o is, g.labels, OwedIn(ret, o))
  <2>1. Lands(code, g.labels, OwedIn(ret, open)) /\ ret \in OwedIn(ret, open)
    BY <1>1, <1>3, <1>6 DEF Sound
  <2>2. ~IsLabel(Plain("exit")) /\ ~Targeted(Plain("exit"))
    BY DEF Plain, Instr, IsLabel, Targeted, IsJump, IsJmp, IsJmpCond, IsReturn
  <2>3. Lands(code \o is, g.labels, OwedIn(ret, open) \ {ret})
    BY <2>1, <2>2, OwedPlaced
  <2>4. QED
    BY <1>3, <1>5, <2>3
<1>8. Sound(code \o is, g.heads, g.tails, g.labels, o, ret)
  <2>1. Follows(g.heads, g.labels, open, "enter") /\ Follows(g.tails, g.labels, open, "exit")
    BY <1>1 DEF Sound
  <2>2. Nested(ret, g.labels, o)
    BY <1>3, <1>4, <2>1, BranchClosed
  <2>3. Follows(g.heads, g.labels, o, "enter")
    BY <1>3, <1>4, <2>1, BranchClosed
  <2>4. Follows(g.tails, g.labels, o, "exit")
    BY <1>3, <1>4, <2>1, BranchClosed
  <2>5. QED
    BY <1>1, <1>7, <2>2, <2>3, <2>4 DEF Sound
<1> HIDE DEF is
<1>9. IsGen(Closed(g1), code \o is, g.heads, g.tails, g.labels, o, ret)
  <2>1. IsGen(g1, code \o is, g.heads, g.tails, g.labels, open, ret)
    BY <1>1, Updates DEF g1
  <2>2. QED
    BY <2>1, Updates
<1>10. QED
  BY <1>2, <1>8, <1>9, GenIs

LEMMA WhileTailSound ==
    ASSUME NEW g, GenInv(g), g.open # <<>>, Innermost(g).c = "while"
    PROVE  GenInv(WhileTail(g))
<1> DEFINE code  == g.code
           heads == g.heads
           tails == g.tails
           open  == g.open
           ret   == g.ret
           w     == Last(open)
           jump  == Jump("jmp", NoOperand, w.enter)
           is    == <<jump, LabelInst(w.exit)>>
           o     == Front(open)
           g1    == EmitAll(g, is)
           g2    == PopLoop(g1)
<1>1. Sound(code, heads, tails, g.labels, open, ret)
      /\ IsGen(g, code, heads, tails, g.labels, open, ret)
  BY DEF GenInv, IsGen
<1>2. WhileTail(g) = Closed(g2)
  BY DEF WhileTail, Innermost
<1>3. open # <<>> /\ w.c = "while" /\ OwedOf(ret, w) = w.exit
  BY DEF OwedOf, Innermost
<1> HIDE DEF code, heads, tails, open, ret, g1, g2
<1>4. Nested(ret, g.labels, open) /\ IsSeq(open)
  BY <1>1 DEF Sound, Nested
<1>5. OwedIn(ret, o) = OwedIn(ret, open) \ {w.exit}
  <2>1. OwedIn(ret, o) = OwedIn(ret, open) \ {OwedOf(ret, Last(open))}
    BY <1>3, <1>4, Closing
  <2>2. QED
    BY <1>3, <2>1
<1>6. w.exit \in OwedIn(ret, open)
  <2>1. OwedOf(ret, Last(open)) \in OwedIn(ret, open)
    BY <1>3, <1>4, Closing
  <2>2. QED
    BY <1>3, <2>1
<1>7. /\ Nested(ret, g.labels, o)
      /\ LoopsIn(o) = LoopsIn(open) \ {Len(open)}
      /\ \A k \in LoopsIn(o) : o[k] = open[k]
      /\ w = open[Len(open)] /\ Len(open) \in 1 .. Len(open)
  <2>1. Nested(ret, g.labels, o)
    BY <1>3, <1>4, Closing
  <2>2. LoopsIn(o) = LoopsIn(open) \ {Len(open)}
    BY <1>3, <1>4, Closing
  <2>3. \A k \in LoopsIn(o) : o[k] = open[k]
    <3>1. /\ IsSeq(o) /\ Len(o) = Len(open) - 1
          /\ \A k \in 1 .. Len(open) - 1 : o[k] = open[k]
      BY <1>3, <1>4, Popped
    <3> HIDE DEF o
    <3>2. QED
      BY <3>1, LoopsCounted
  <2>4. w = open[Len(open)] /\ Len(open) \in 1 .. Len(open)
    BY <1>3, <1>4, Closing
  <2>5. QED
    BY <2>1, <2>2, <2>3, <2>4
<1>8. w.enter \in 0 .. g.labels - 1 /\ Len(open) \in LoopsIn(open)
  <2>1. DOMAIN open = 1 .. Len(open)
    BY <1>4, SequenceFacts
  <2> HIDE DEF w
  <2>2. QED
    BY <1>3, <1>4, <1>7, <2>1 DEF Nested, LoopsIn
<1> HIDE DEF o, w
<1>9. Lands(code \o is, g.labels, OwedIn(ret, o))
  <2>1. Lands(code, g.labels, OwedIn(ret, open))
    BY <1>1 DEF Sound
  <2>2. ~IsLabel(jump) /\ jump.target \in 0 .. g.labels - 1
    BY <1>8 DEF Jump, Instr, IsLabel
  <2> HIDE DEF jump
  <2>3. Lands(code \o is, g.labels, OwedIn(ret, open) \ {w.exit})
    BY <1>6, <2>1, <2>2, OwedPlaced
  <2>4. QED
    BY <1>5, <2>3
<1> HIDE DEF is
<1>10. Sound(code \o is, Front(heads), Front(tails), g.labels, o, ret)
  <2>1. Follows(heads, g.labels, open, "enter") /\ Follows(tails, g.labels, open, "exit")
    BY <1>1 DEF Sound
  <2>2. Follows(Front(heads), g.labels, o, "enter")
    BY <1>4, <1>7, <1>8, <2>1, LinksPopped
  <2>3. Follows(Front(tails), g.labels, o, "exit")
    BY <1>4, <1>7, <1>8, <2>1, LinksPopped
  <2>4. QED
    BY <1>1, <1>7, <1>9, <2>2, <2>3 DEF Sound
<1>11. IsGen(Closed(g2), code \o is, Front(heads), Front(tails), g.labels, o, ret)
  <2>1. IsGen(g1, code \o is, heads, tails, g.labels, open, ret)
    BY <1>1, Updates DEF g1
  <2>2. IsGen(g2, code \o is, Front(heads), Front(tails), g.labels, open, ret)
    BY <2>1, Updates DEF g2
  <2>3. QED
    BY <2>2, Updates DEF o
<1>12. QED
  BY <1>2, <1>10, <1>11, GenIs

LEMMA EmitSound ==
    ASSUME NEW g, GenInv(g), NEW is, Plainly(is, g.labels)
    PROVE  GenInv(EmitAll(g, is))
<1>1. Sound(g.code, g.heads, g.tails, g.labels, g.open, g.ret)
      /\ IsGen(g, g.code, g.heads, g.tails, g.labels, g.open, g.ret)
  BY DEF GenInv, IsGen
<1>2. Sound(g.code \o is, g.heads, g.tails, g.labels, g.open, g.ret)
  BY <1>1, EmittedPlain
<1>3. IsGen(EmitAll(g, is), g.code \o is, g.heads, g.tails, g.labels, g.open, g.ret)
  BY <1>1, Updates
<1>4. QED
  BY <1>2, <1>3, GenIs

LEMMA JumpOrErrorSound ==
    ASSUME NEW g, GenInv(g), NEW n, n # NoLabel => n \in 0 .. g.labels - 1
    PROVE  GenInv(JumpOrError(g, n))
<1>1. CASE n = NoLabel
  <2>1. Sound(g.code, g.heads, g.tails, g.labels, g.open, g.ret)
        /\ IsGen(g, g.code, g.heads, g.tails, g.labels, g.open, g.ret)
    BY DEF GenInv, IsGen
  <2> DEFINE h == [g EXCEPT !.errors = @ + 1]
  <2>2. IsGen(h, g.code, g.heads, g.tails, g.labels, g.open, g.ret)
    BY <2>1, Updates
  <2>3. JumpOrError(g, n) = h
    BY <1>1 DEF JumpOrError
  <2> HIDE DEF h
  <2>4. QED
    BY <2>1, <2>2, <2>3, GenIs
<1>2. CASE n # NoLabel
  <2> DEFINE js == <<Jump("jmp", NoOperand, n)>>
  <2>1. Plainly(js, g.labels)
    BY <1>2, JumpIsPlain
  <2>2. JumpOrError(g, n) = EmitAll(g, js)
    BY <1>2 DEF JumpOrError, Emit
  <2> HIDE DEF js
  <2>3. QED
    BY <2>1, <2>2, EmitSound
<1>3. QED
  BY <1>1, <1>2

LEMMA BreakContinueSound ==
    ASSUME NEW g, GenInv(g)
    PROVE  GenInv(BreakTo(g)) /\ GenInv(ContinueTo(g))
<1>1. ASSUME NEW links, NEW end, Follows(links, g.labels, g.open, end)
      PROVE  Last(links) # NoLabel => Last(links) \in 0 .. g.labels - 1
  <2>1. IsSeq(links) /\ Len(links) = 1 + Cardinality(LoopsIn(g.open))
    BY <1>1 DEF Follows
  <2>2. Cardinality(LoopsIn(g.open)) \in Nat
    BY LoopsCounted DEF GenInv, Sound, Nested
  <2>3. Len(links) \in 1 .. Len(links)
    BY <2>1, <2>2
  <2>4. QED
    BY <1>1, <2>3 DEF Follows, Last
<1>2. /\ Last(g.tails) # NoLabel => Last(g.tails) \in 0 .. g.labels - 1
      /\ Last(g.heads) # NoLabel => Last(g.heads) \in 0 .. g.labels - 1
  BY <1>1 DEF GenInv, Sound
<1>3. QED
  BY <1>2, JumpOrErrorSound DEF BreakTo, ContinueTo

LEMMA ReturnSound ==
    ASSUME NEW g, GenInv(g), NEW s
    PROVE  GenInv(ReturnTo(g, s))
<1>1. g.ret \in 0 .. g.labels - 1
  BY DEF GenInv, Sound
<1> DEFINE r == <<Jump("return", NoOperand, g.ret)>>
           v == <<Jump("return_val", s.val, g.ret)>>
<1>2. Plainly(r, g.labels) /\ Plainly(v, g.labels)
  BY <1>1, JumpIsPlain
<1>3. ReturnTo(g, s) = EmitAll(g, r) \/ ReturnTo(g, s) = EmitAll(g, v)
  BY DEF ReturnTo, Emit
<1> HIDE DEF r, v
<1>4. QED
  BY <1>2, <1>3, EmitSound

-----------------------------------------------------------------------------
(* The parser's side: what is still to read is a sequence of statements    *)
(* whose expressions are straight code.                                    *)
Body(b) == IsSeq(b) /\ \A s \in ToSet(b) : s.t \in {"while", "if", "simple"} => Straight(s.eval)

LoweringInv == Body(body) /\ GenInv(gen)

LEMMA BodyRead ==
    ASSUME NEW b, Body(b), b # <<>>
    PROVE  /\ Body(Tail(b))
           /\ Head(b).t \in {"while", "if", "simple"} => Straight(Head(b).eval)
<1> DEFINE S == ToSet(b)
           t == Tail(b)
<1>1. b \in Seq(S) /\ \A s \in S : s.t \in {"while", "if", "simple"} => Straight(s.eval)
  BY DEF Body, IsSeq
<1> HIDE DEF S
<1>2. Head(b) \in S /\ t \in Seq(S)
  BY <1>1, HeadTailProperties
<1> HIDE DEF t
<1>3. IsSeq(t) /\ ToSet(t) \subseteq S
  <2>1. IsSeq(t)
    BY <1>2, SequenceOf
  <2>2. \A k \in DOMAIN t : t[k] \in S
    BY <1>2, ElementOfSeq, LenProperties
  <2>3. QED
    BY <2>1, <2>2 DEF ToSet
<1>4. QED
  BY <1>1, <1>2, <1>3 DEF Body, t

LEMMA Started == Init => LoweringInv
<1> SUFFICES ASSUME Init PROVE LoweringInv
  OBVIOUS
<1>1. Body(body)
  BY ProgramsAssumption DEF Init, Body, IsSeq
<1> DEFINE enter == Plain("enter")
           code  == <<enter>>
           none  == <<NoLabel>>
           b     == [c |-> "body"]
           open  == <<b>>
<1>2. IsGen(gen, code, none, none, 1, open, 0)
  BY DEF Init, FunctionHead, IsGen, Fields
<1>3. /\ IsSeq(code) /\ ToSet(code) = {enter} /\ ~IsLabel(enter) /\ ~Targeted(enter)
      /\ IsSeq(none) /\ Len(none) = 1 /\ none[1] = NoLabel
      /\ IsSeq(open) /\ Len(open) = 1 /\ open[1] = b
      /\ b.c = "body" /\ OwedOf(0, b) = 0
  <2>1. ~IsLabel(enter) /\ ~Targeted(enter)
    BY DEF Plain, Instr, IsLabel, Targeted, IsJump, IsJmp, IsJmpCond, IsReturn
  <2>2. b.c = "body" /\ OwedOf(0, b) = 0
    BY DEF OwedOf
  <2> HIDE DEF enter, b
  <2>3. QED
    BY <2>1, <2>2, OneOrTwo
<1> HIDE DEF enter, code, none, b, open
<1>4. \A k : (k \in 1 .. 1 <=> k = 1) /\ (k \in 0 .. 1 - 1 <=> k = 0)
  OBVIOUS
<1>5. DOMAIN open = 1 .. 1
  BY <1>3, SequenceFacts
<1>6. OwedIn(0, open) = {0} /\ LoopsIn(open) = {}
  BY <1>3, <1>4, <1>5 DEF OwedIn, LoopsIn
<1>7. Lands(code, 1, OwedIn(0, open))
  <2>1. \A n : Places(code, n) = {}
    BY <1>3, SequenceFacts DEF Places
  <2>2. QED
    BY <1>3, <1>4, <1>6, <2>1 DEF Lands
<1>8. Nested(0, 1, open)
  BY <1>3, <1>4 DEF Nested, Kinds
<1>9. ASSUME NEW end PROVE Follows(none, 1, open, end)
  <2>1. Cardinality(LoopsIn(open)) = 0
    BY <1>6, FS_EmptySet
  <2>2. QED
    BY <1>3, <1>4, <1>6, <2>1 DEF Follows
<1>10. Sound(code, none, none, 1, open, 0)
  BY <1>4, <1>7, <1>8, <1>9 DEF Sound
<1>11. QED
  BY <1>1, <1>2, <1>10, GenIs DEF LoweringInv

LEMMA StatementRead ==
    ASSUME NEW kind, LoweringInv, Reads(kind)
    PROVE  /\ Body(body') /\ GenInv(gen) /\ gen.open # <<>>
           /\ kind \in {"while", "if", "simple"} => Straight(Head(body).eval)
BY BodyRead DEF LoweringInv, Reads

LEMMA Stepped ==
    ASSUME LoweringInv, [Next]_vars PROVE LoweringInv'
<1>1. CASE UNCHANGED vars
  BY <1>1 DEF LoweringInv, vars
<1>2. CASE while_statement
  BY <1>2, StatementRead, WhileHeadSound DEF while_statement, LoweringInv
<1>3. CASE while_end
  BY <1>3, StatementRead, WhileTailSound DEF while_end, Closes, LoweringInv
<1>4. CASE if_statement
  BY <1>4, StatementRead, IfHeadSound DEF if_statement, LoweringInv
<1>5. CASE else_statement
  BY <1>5, StatementRead, ElseHeadSound DEF else_statement, LoweringInv
<1>6. CASE if_end_without_else
  <2>1. GenInv(gen) /\ gen.open # <<>> /\ Innermost(gen).c = "then"
        /\ Body(body') /\ gen' = ElseTail(ElseHead(gen))
    BY <1>6, StatementRead DEF if_end_without_else, Closes
  <2> DEFINE h == ElseHead(gen)
  <2>2. GenInv(h) /\ h.open # <<>> /\ Innermost(h).c = "else"
    BY <2>1, ElseHeadSound
  <2> HIDE DEF h
  <2>3. GenInv(ElseTail(h))
    BY <2>2, ElseTailSound
  <2>4. QED
    BY <2>1, <2>3 DEF h, LoweringInv
<1>7. CASE else_end
  BY <1>7, StatementRead, ElseTailSound DEF else_end, Closes, LoweringInv
<1>8. CASE break_statement
  BY <1>8, StatementRead, BreakContinueSound DEF break_statement, LoweringInv
<1>9. CASE continue_statement
  BY <1>9, StatementRead, BreakContinueSound DEF continue_statement, LoweringInv
<1>10. CASE return_statement
  BY <1>10, StatementRead, ReturnSound DEF return_statement, LoweringInv
<1>11. CASE simple_statement
  BY <1>11, StatementRead, StraightIsPlain, EmitSound DEF simple_statement, LoweringInv
<1>12. CASE function_end
  BY <1>12, StatementRead, FunctionTailSound DEF function_end, Closes, LoweringInv
<1>13. QED
  BY <1>1, <1>2, <1>3, <1>4, <1>5, <1>6, <1>7, <1>8, <1>9, <1>10, <1>11, <1>12 DEF Next

LEMMA LoweringInvariant == Spec => []LoweringInv
BY Started, Stepped, PTL DEF Spec

LEMMA LinksInvariant == LoweringInv => LinksFollowLoops
<1> SUFFICES ASSUME LoweringInv PROVE LinksFollowLoops
  OBVIOUS
<1>1. /\ Follows(gen.heads, gen.labels, gen.open, "enter")
      /\ Follows(gen.tails, gen.labels, gen.open, "exit")
  BY DEF LoweringInv, GenInv, Sound
<1>2. LoopsIn(gen.open) = Loops /\ \A k : RankIn(gen.open, k) = Rank(k)
  BY DEF LoopsIn, Loops, RankIn, Rank
<1>3. QED
  BY <1>1, <1>2 DEF Follows, LinksFollowLoops

(* The two link stacks hold exactly the loops the parser is inside of.     *)
THEOREM BreakLeavesTheLoop == Spec => []LinksFollowLoops
BY LoweringInvariant, LinksInvariant, PTL

LEMMA LandsInvariant == LoweringInv => EveryJumpLands
<1> SUFFICES ASSUME LoweringInv PROVE EveryJumpLands
  OBVIOUS
<1>1. Lands(gen.code, gen.labels, OwedIn(gen.ret, gen.open))
  BY DEF LoweringInv, GenInv, Sound
<1>2. OwedIn(gen.ret, gen.open) = Owed
  BY DEF OwedIn, Owed, OwedOf, OwedBy
<1>3. ASSUME NEW n \in 0 .. gen.labels - 1
      PROVE  Cardinality(Places(gen.code, n)) = IF n \in Owed THEN 0 ELSE 1
  BY <1>1, <1>2, FS_EmptySet, FS_Singleton DEF Lands
<1>4. \A i \in ToSet(gen.code) : IsJump(i) \/ IsReturn(i) => i.target \in 0 .. gen.labels - 1
  BY <1>1 DEF Lands, Targeted
<1>5. QED
  BY <1>3, <1>4 DEF EveryJumpLands

(* Every label is placed once and every jump and return goes to a label    *)
(* that is placed, or that an open construct will place.                   *)
THEOREM NoJumpToNowhere == Spec => []EveryJumpLands
BY LoweringInvariant, LandsInvariant, PTL

-----------------------------------------------------------------------------
(* What keeps jumps from crossing a loop.  Jump p goes to place q.         *)
Arrives(code, p, q) == IsJump(code[p]) /\ IsLabel(code[q]) /\ code[q].target = code[p].target

Placed(code, n) == \E q \in DOMAIN code : IsLabel(code[q]) /\ code[q].target = n

(* A finished loop lies from its entry at a, which something behind jumps  *)
(* back to, to its exit at z, whose label was made right after the entry's.*)
FinishedLoop(code, a, z) ==
    /\ IsLabel(code[a]) /\ IsLabel(code[z]) /\ code[z].target = code[a].target + 1
    /\ \E p \in DOMAIN code : IsJmp(code[p]) /\ a < p /\ Arrives(code, p, a)

Uncrossed(code) ==
    \A a, z, p \in DOMAIN code :
        FinishedLoop(code, a, z) /\ IsJump(code[p]) =>
            (p \in a .. z <=> \E q \in DOMAIN code : q \in a .. z /\ Arrives(code, p, q))

(* The place where an open loop was entered.                               *)
Enters(code, c, a) == IsLabel(code[a]) /\ code[a].target = c.enter

(* The labels owed by the k-th construct and those inside it.              *)
OwedFrom(ret, open, k) == {OwedOf(ret, open[j]) : j \in {i \in DOMAIN open : k <= i}}

(* The jumps behind the entry of an open loop are those that arrive behind *)
(* it, or will: their label is owed by the loop or a construct inside.     *)
JumpsInside(code, ret, open) ==
    \A k \in LoopsIn(open), a, p \in DOMAIN code :
        Enters(code, open[k], a) /\ IsJump(code[p]) =>
            (a <= p <=> \/ \E q \in DOMAIN code : a <= q /\ Arrives(code, p, q)
                        \/ code[p].target \in OwedFrom(ret, open, k))

(* Open loops are entered one behind the other, none in a finished one.    *)
EntersOutside(code, open) ==
    \A k \in LoopsIn(open), a, b, z \in DOMAIN code :
        Enters(code, open[k], a) /\ FinishedLoop(code, b, z) => a \notin b .. z

EntersAscend(code, open) ==
    \A j, k \in LoopsIn(open), a, b \in DOMAIN code :
        j < k /\ Enters(code, open[j], b) /\ Enters(code, open[k], a) => b < a

(* An open loop's entry is placed, and its exit is the label made next.    *)
EntersPlaced(ret, open) ==
    \A k \in LoopsIn(open) : open[k].exit = open[k].enter + 1 /\ open[k].enter \notin OwedIn(ret, open)

(* Who jumps back, jumps to a loop.                                        *)
BackToLoops(code, open) ==
    \A a, p \in DOMAIN code : IsJmp(code[p]) /\ a < p /\ Arrives(code, p, a) =>
        \/ \E k \in LoopsIn(open) : open[k].enter = code[a].target
        \/ Placed(code, code[a].target + 1)

Enclosed(code, ret, open) ==
    /\ Uncrossed(code)
    /\ JumpsInside(code, ret, open)
    /\ EntersOutside(code, open)
    /\ EntersAscend(code, open)
    /\ EntersPlaced(ret, open)
    /\ BackToLoops(code, open)

-----------------------------------------------------------------------------
(* Code that grows by one instruction, or by several that neither jump nor *)
(* are jumped to.                                                          *)
Extends(code, now, e, i) ==
    /\ DOMAIN now = DOMAIN code \cup {e} /\ e \in Nat /\ now[e] = i
    /\ \A p \in DOMAIN code : p \in Nat /\ p < e /\ now[p] = code[p]

Padded(code, now) ==
    /\ DOMAIN code \subseteq DOMAIN now /\ DOMAIN now \subseteq Nat
    /\ \A p \in DOMAIN code : now[p] = code[p]
    /\ \A p \in DOMAIN now : p \notin DOMAIN code => ~IsLabel(now[p]) /\ ~IsJump(now[p])

LEMMA AppendExtends ==
    ASSUME NEW code, IsSeq(code), NEW i
    PROVE  /\ IsSeq(code \o <<i>>)
           /\ Extends(code, code \o <<i>>, Len(code) + 1, i)
<1> DEFINE one == <<i>>
           now == code \o one
<1>1. IsSeq(one) /\ Len(one) = 1 /\ one[1] = i
  BY OneOrTwo
<1> HIDE DEF one
<1>2. /\ IsSeq(now) /\ Len(now) = Len(code) + 1
      /\ \A k \in 1 .. Len(code) : now[k] = code[k]
      /\ \A k \in 1 .. Len(one) : now[Len(code) + k] = one[k]
  <2>1. IsSeq(now) /\ Len(now) = Len(code) + Len(one)
    BY ONLY IsSeq(code), <1>1, Joined
  <2>2. \A k \in 1 .. Len(code) : now[k] = code[k]
    BY ONLY IsSeq(code), <1>1, Joined
  <2>3. \A k \in 1 .. Len(one) : now[Len(code) + k] = one[k]
    BY ONLY IsSeq(code), <1>1, Joined
  <2> HIDE DEF now
  <2>4. QED
    BY <1>1, <2>1, <2>2, <2>3
<1> HIDE DEF now
<1>3. now[Len(code) + 1] = i
  <2>1. 1 \in 1 .. Len(one)
    BY <1>1
  <2>2. QED
    BY <1>1, <1>2, <2>1
<1>4. /\ Len(code) \in Nat /\ DOMAIN code = 1 .. Len(code) /\ DOMAIN now = 1 .. Len(code) + 1
  BY <1>2, SequenceFacts
<1>5. Extends(code, now, Len(code) + 1, i)
  <2>1. 1 .. Len(code) + 1 = 1 .. Len(code) \cup {Len(code) + 1}
    BY <1>4
  <2>2. \A p \in 1 .. Len(code) : p \in Nat /\ p < Len(code) + 1
    BY <1>4
  <2>3. QED
    BY <1>2, <1>3, <1>4, <2>1, <2>2 DEF Extends
<1>6. QED
  BY <1>2, <1>5 DEF now, one

LEMMA QuietPads ==
    ASSUME NEW code, IsSeq(code), NEW is, IsSeq(is),
           \A i \in ToSet(is) : ~IsLabel(i) /\ ~IsJump(i)
    PROVE  IsSeq(code \o is) /\ Padded(code, code \o is)
<1> DEFINE now == code \o is
<1>1. IsSeq(is) /\ \A i \in ToSet(is) : ~IsLabel(i) /\ ~IsJump(i)
  OBVIOUS
<1>2. /\ IsSeq(now) /\ Len(now) = Len(code) + Len(is)
      /\ \A k \in 1 .. Len(code) : now[k] = code[k]
      /\ \A k \in 1 .. Len(is) : now[Len(code) + k] = is[k]
  BY <1>1, Joined
<1> HIDE DEF now
<1>3. /\ Len(code) \in Nat /\ DOMAIN code = 1 .. Len(code)
      /\ Len(is) \in Nat /\ DOMAIN now = 1 .. Len(code) + Len(is)
      /\ \A k \in 1 .. Len(is) : is[k] \in ToSet(is)
  BY <1>1, <1>2, SequenceFacts
<1>4. ASSUME NEW p \in DOMAIN now, p \notin DOMAIN code PROVE ~IsLabel(now[p]) /\ ~IsJump(now[p])
  <2>1. p - Len(code) \in 1 .. Len(is) /\ Len(code) + (p - Len(code)) = p
    BY <1>3, <1>4
  <2>2. now[p] = is[p - Len(code)]
    BY <1>2, <2>1
  <2>3. QED
    BY <1>1, <1>3, <2>1, <2>2
<1>5. DOMAIN code \subseteq DOMAIN now /\ DOMAIN now \subseteq Nat
  BY <1>3
<1>6. Padded(code, now)
  BY <1>2, <1>3, <1>4, <1>5 DEF Padded
<1>7. QED
  BY <1>2, <1>6 DEF now

(* Jumps and places are where they were.                                   *)
LEMMA PaddedFacts ==
    ASSUME NEW code, NEW now, Padded(code, now)
    PROVE  /\ \A p \in DOMAIN now : IsLabel(now[p]) \/ IsJump(now[p]) => p \in DOMAIN code
           /\ \A p \in DOMAIN code : p \in DOMAIN now /\ now[p] = code[p]
           /\ \A p, q \in DOMAIN now :
                 Arrives(now, p, q) <=> p \in DOMAIN code /\ q \in DOMAIN code /\ Arrives(code, p, q)
           /\ \A a, z \in DOMAIN now :
                 FinishedLoop(now, a, z) <=>
                     a \in DOMAIN code /\ z \in DOMAIN code /\ FinishedLoop(code, a, z)
           /\ \A n : Placed(now, n) <=> Placed(code, n)
<1>1. /\ \A p \in DOMAIN now : IsLabel(now[p]) \/ IsJump(now[p]) => p \in DOMAIN code
      /\ \A p \in DOMAIN code : p \in DOMAIN now /\ now[p] = code[p]
  BY DEF Padded
<1>2. ASSUME NEW p \in DOMAIN now, NEW q \in DOMAIN now
      PROVE  Arrives(now, p, q) <=> p \in DOMAIN code /\ q \in DOMAIN code /\ Arrives(code, p, q)
  BY <1>1 DEF Arrives
<1>3. ASSUME NEW a \in DOMAIN now, NEW z \in DOMAIN now
      PROVE  FinishedLoop(now, a, z) <=>
                 a \in DOMAIN code /\ z \in DOMAIN code /\ FinishedLoop(code, a, z)
  BY <1>1, <1>2 DEF FinishedLoop
<1>4. ASSUME NEW n PROVE Placed(now, n) <=> Placed(code, n)
  BY <1>1 DEF Placed
<1>5. QED
  BY <1>1, <1>2, <1>3, <1>4

LEMMA PaddingEncloses ==
    ASSUME NEW code, NEW now, Padded(code, now), NEW ret, NEW open, Enclosed(code, ret, open)
    PROVE  Enclosed(now, ret, open)
<1>1. /\ \A p \in DOMAIN now : IsLabel(now[p]) \/ IsJump(now[p]) => p \in DOMAIN code
      /\ \A p \in DOMAIN code : p \in DOMAIN now /\ now[p] = code[p]
  BY PaddedFacts
<1>2. \A p, q \in DOMAIN now :
          Arrives(now, p, q) <=> p \in DOMAIN code /\ q \in DOMAIN code /\ Arrives(code, p, q)
  BY PaddedFacts
<1>3. \A a, z \in DOMAIN now :
          FinishedLoop(now, a, z) <=> a \in DOMAIN code /\ z \in DOMAIN code /\ FinishedLoop(code, a, z)
  BY PaddedFacts
<1>4. \A n : Placed(now, n) <=> Placed(code, n)
  BY PaddedFacts
<1>5. \A c, a : a \in DOMAIN now => (Enters(now, c, a) <=> a \in DOMAIN code /\ Enters(code, c, a))
  BY <1>1 DEF Enters
<1>6. Uncrossed(now)
  BY <1>1, <1>2, <1>3 DEF Enclosed, Uncrossed
<1>7. JumpsInside(now, ret, open)
  BY <1>1, <1>2, <1>5 DEF Enclosed, JumpsInside
<1>8. EntersOutside(now, open)
  BY <1>3, <1>5 DEF Enclosed, EntersOutside
<1>9. EntersAscend(now, open)
  BY <1>5 DEF Enclosed, EntersAscend
<1>10. BackToLoops(now, open)
  <2> SUFFICES ASSUME NEW a \in DOMAIN now, NEW p \in DOMAIN now,
                      IsJmp(now[p]), a < p, Arrives(now, p, a)
               PROVE  \/ \E k \in LoopsIn(open) : open[k].enter = now[a].target
                      \/ Placed(now, now[a].target + 1)
    BY DEF BackToLoops
  <2>1. a \in DOMAIN code /\ p \in DOMAIN code /\ Arrives(code, p, a)
        /\ now[a] = code[a] /\ now[p] = code[p]
    BY <1>1, <1>2
  <2>2. QED
    BY <1>4, <2>1 DEF Enclosed, BackToLoops
<1>11. QED
  BY <1>6, <1>7, <1>8, <1>9, <1>10 DEF Enclosed

LEMMA ExtendedFacts ==
    ASSUME NEW code, NEW now, NEW e, NEW i, Extends(code, now, e, i)
    PROVE  /\ e \in DOMAIN now /\ e \notin DOMAIN code /\ e \in Nat /\ now[e] = i
           /\ \A p \in DOMAIN now : p \in Nat /\ (p \in DOMAIN code \/ p = e) /\ p <= e
           /\ \A p \in DOMAIN code : p \in DOMAIN now /\ p \in Nat /\ p < e /\ now[p] = code[p]
           /\ \A p, q \in DOMAIN code : Arrives(now, p, q) <=> Arrives(code, p, q)
           /\ \A c : \A a \in DOMAIN code : Enters(now, c, a) <=> Enters(code, c, a)
           /\ \A n : Placed(now, n) <=> Placed(code, n) \/ (IsLabel(i) /\ i.target = n)
<1>1. /\ DOMAIN now = DOMAIN code \cup {e} /\ e \in Nat /\ now[e] = i
      /\ \A p \in DOMAIN code : p \in Nat /\ p < e /\ now[p] = code[p]
  BY DEF Extends
<1>2. e \notin DOMAIN code
  BY <1>1
<1>3. \A p \in DOMAIN now : p \in Nat /\ (p \in DOMAIN code \/ p = e) /\ p <= e
  BY <1>1
<1>4. \A p, q \in DOMAIN code : Arrives(now, p, q) <=> Arrives(code, p, q)
  BY <1>1 DEF Arrives
<1>5. \A c : \A a \in DOMAIN code : Enters(now, c, a) <=> Enters(code, c, a)
  BY <1>1 DEF Enters
<1>6. ASSUME NEW n PROVE Placed(now, n) <=> Placed(code, n) \/ (IsLabel(i) /\ i.target = n)
  BY <1>1 DEF Placed
<1>7. QED
  BY <1>1, <1>2, <1>3, <1>4, <1>5, <1>6

(* A jump to a label that an open construct owes, or back to the entry of  *)
(* the innermost loop.                                                     *)
JumpsWell(code, ret, open, n) ==
    \/ ~Placed(code, n) /\ \A k \in LoopsIn(open) : n \in OwedFrom(ret, open, k)
    \/ \E k \in LoopsIn(open) :
          /\ open[k].enter = n /\ Placed(code, n) /\ ~Placed(code, n + 1)
          /\ \A j \in LoopsIn(open) : j \in Nat /\ k \in Nat /\ j <= k

LEMMA JumpEncloses ==
    ASSUME NEW code, NEW ret, NEW open, Enclosed(code, ret, open),
           NEW now, NEW e, NEW i, Extends(code, now, e, i),
           IsJump(i), JumpsWell(code, ret, open, i.target)
    PROVE  Enclosed(now, ret, open)
<1> DEFINE n == i.target
<1>1. /\ e \in DOMAIN now /\ e \notin DOMAIN code /\ e \in Nat /\ now[e] = i
      /\ \A p \in DOMAIN now : p \in Nat /\ (p \in DOMAIN code \/ p = e) /\ p <= e
      /\ \A p \in DOMAIN code : p \in DOMAIN now /\ p \in Nat /\ p < e /\ now[p] = code[p]
      /\ \A p, q \in DOMAIN code : Arrives(now, p, q) <=> Arrives(code, p, q)
      /\ \A c : \A a \in DOMAIN code : Enters(now, c, a) <=> Enters(code, c, a)
  BY ExtendedFacts
<1>2. ~IsLabel(i)
  BY DEF IsJump, IsJmp, IsJmpCond, IsLabel
<1>3. \A m : Placed(now, m) <=> Placed(code, m)
  BY <1>2, ExtendedFacts
<1>4. \A a \in DOMAIN now : IsLabel(now[a]) => a \in DOMAIN code
  BY <1>1, <1>2
<1>5. \A q \in DOMAIN code : Arrives(now, e, q) <=> IsLabel(code[q]) /\ code[q].target = n
  BY <1>1 DEF Arrives
<1>6. /\ \A p, q \in DOMAIN now : Arrives(now, p, q) => q \in DOMAIN code
      /\ \A c : \A a \in DOMAIN now : Enters(now, c, a) => a \in DOMAIN code
  BY <1>4 DEF Arrives, Enters
<1>7. ASSUME NEW a \in DOMAIN now, NEW z \in DOMAIN now, FinishedLoop(now, a, z)
      PROVE  a \in DOMAIN code /\ z \in DOMAIN code /\ FinishedLoop(code, a, z)
  <2>1. /\ a \in DOMAIN code /\ z \in DOMAIN code
        /\ IsLabel(code[a]) /\ IsLabel(code[z]) /\ code[z].target = code[a].target + 1
    BY <1>1, <1>4, <1>7 DEF FinishedLoop
  <2>2. PICK p \in DOMAIN now : IsJmp(now[p]) /\ a < p /\ Arrives(now, p, a)
    BY <1>7 DEF FinishedLoop
  <2>3. CASE p = e
    <3>1. code[a].target = n /\ Placed(code, n) /\ Placed(code, n + 1)
      BY <1>5, <2>1, <2>2, <2>3 DEF Placed
    <3>2. QED
      BY <3>1 DEF JumpsWell
  <2>4. CASE p \in DOMAIN code
    BY <1>1, <2>1, <2>2, <2>4 DEF FinishedLoop
  <2>5. QED
    BY <1>1, <2>3, <2>4
<1>8. ASSUME NEW q \in DOMAIN code, Arrives(now, e, q)
      PROVE  \E k \in LoopsIn(open) : Enters(code, open[k], q)
  <2>1. IsLabel(code[q]) /\ code[q].target = n
    BY <1>5, <1>8
  <2>2. QED
    BY <2>1 DEF JumpsWell, Placed, Enters
<1>9. Uncrossed(now)
  <2> SUFFICES ASSUME NEW a \in DOMAIN now, NEW z \in DOMAIN now, NEW p \in DOMAIN now,
                      FinishedLoop(now, a, z), IsJump(now[p])
               PROVE  p \in a .. z <=> \E q \in DOMAIN now : q \in a .. z /\ Arrives(now, p, q)
    BY DEF Uncrossed
  <2>1. a \in DOMAIN code /\ z \in DOMAIN code /\ FinishedLoop(code, a, z)
    BY <1>7
  <2>2. CASE p = e
    <3>1. p \notin a .. z
      BY <1>1, <2>1, <2>2
    <3>2. ASSUME NEW q \in DOMAIN now, q \in a .. z, Arrives(now, p, q) PROVE FALSE
      <4>1. q \in DOMAIN code
        BY <1>6, <3>2
      <4>2. PICK k \in LoopsIn(open) : Enters(code, open[k], q)
        BY <1>8, <2>2, <3>2, <4>1
      <4>3. QED
        BY <2>1, <3>2, <4>1, <4>2 DEF Enclosed, EntersOutside
    <3>3. QED
      BY <3>1, <3>2
  <2>3. CASE p \in DOMAIN code
    <3>1. p \in a .. z <=> \E q \in DOMAIN code : q \in a .. z /\ Arrives(code, p, q)
      BY <1>1, <2>1, <2>3 DEF Enclosed, Uncrossed
    <3>2. QED
      BY <1>1, <1>6, <2>3, <3>1
  <2>4. QED
    BY <1>1, <2>2, <2>3
<1>10. JumpsInside(now, ret, open)
  <2> SUFFICES ASSUME NEW k \in LoopsIn(open), NEW a \in DOMAIN now, NEW p \in DOMAIN now,
                      Enters(now, open[k], a), IsJump(now[p])
               PROVE  a <= p <=> \/ \E q \in DOMAIN now : a <= q /\ Arrives(now, p, q)
                                 \/ now[p].target \in OwedFrom(ret, open, k)
    BY DEF JumpsInside
  <2>1. a \in DOMAIN code /\ Enters(code, open[k], a)
    BY <1>1, <1>6
  <2>2. CASE p = e
    <3>1. a <= p
      BY <1>1, <2>2
    <3>2. CASE n \in OwedFrom(ret, open, k)
      BY <1>1, <2>2, <3>1, <3>2
    <3>3. CASE n \notin OwedFrom(ret, open, k)
      <4>1. PICK j \in LoopsIn(open) : open[j].enter = n /\ Placed(code, n) /\ k \in Nat /\ j \in Nat /\ k <= j
        BY <3>3 DEF JumpsWell
      <4>2. PICK q \in DOMAIN code : IsLabel(code[q]) /\ code[q].target = n
        BY <4>1 DEF Placed
      <4>3. Enters(code, open[j], q) /\ Arrives(now, p, q) /\ q \in Nat
        BY <1>1, <1>5, <2>2, <4>1, <4>2 DEF Enters
      <4>4. CASE k = j
        <5>1. Arrives(now, p, a)
          BY <1>5, <2>1, <2>2, <4>1, <4>4 DEF Enters
        <5>2. a <= a
          BY <1>1, <2>1
        <5>3. QED
          BY <3>1, <5>1, <5>2
      <4>5. CASE k # j
        <5>1. k < j
          BY <4>1, <4>5
        <5>2. a < q
          BY <2>1, <4>3, <5>1 DEF Enclosed, EntersAscend
        <5>3. a <= q /\ q \in DOMAIN now
          BY <1>1, <2>1, <4>3, <5>2
        <5>4. QED
          BY <3>1, <4>3, <5>3
      <4>6. QED
        BY <4>4, <4>5
    <3>4. QED
      BY <3>2, <3>3
  <2>3. CASE p \in DOMAIN code
    <3>1. a <= p <=> \/ \E q \in DOMAIN code : a <= q /\ Arrives(code, p, q)
                     \/ code[p].target \in OwedFrom(ret, open, k)
      BY <1>1, <2>1, <2>3 DEF Enclosed, JumpsInside
    <3>2. QED
      BY <1>1, <1>6, <2>3, <3>1
  <2>4. QED
    BY <1>1, <2>2, <2>3
<1>11. EntersOutside(now, open)
  BY <1>1, <1>6, <1>7 DEF Enclosed, EntersOutside
<1>12. EntersAscend(now, open)
  BY <1>1, <1>6 DEF Enclosed, EntersAscend
<1>13. BackToLoops(now, open)
  <2> SUFFICES ASSUME NEW a \in DOMAIN now, NEW p \in DOMAIN now,
                      IsJmp(now[p]), a < p, Arrives(now, p, a)
               PROVE  \/ \E k \in LoopsIn(open) : open[k].enter = now[a].target
                      \/ Placed(now, now[a].target + 1)
    BY DEF BackToLoops
  <2>1. a \in DOMAIN code /\ now[a] = code[a]
    BY <1>1, <1>6
  <2>2. CASE p = e
    BY <1>8, <2>1, <2>2 DEF Enters
  <2>3. CASE p \in DOMAIN code
    <3>1. IsJmp(code[p]) /\ Arrives(code, p, a)
      BY <1>1, <2>1, <2>3
    <3>2. QED
      BY <1>3, <2>1, <2>3, <3>1 DEF Enclosed, BackToLoops
  <2>4. QED
    BY <1>1, <2>2, <2>3
<1>14. QED
  BY <1>9, <1>10, <1>11, <1>12, <1>13 DEF Enclosed

(* A label that is placed at the end finishes no loop, unless it is the    *)
(* exit of an open one.                                                    *)
LEMMA LabelFinishesNothing ==
    ASSUME NEW code, NEW ret, NEW open, Enclosed(code, ret, open),
           NEW now, NEW e, NEW i, Extends(code, now, e, i),
           IsLabel(i), ~Placed(code, i.target),
           NEW a \in DOMAIN now, NEW z \in DOMAIN now, FinishedLoop(now, a, z)
    PROVE  /\ a \in DOMAIN code
           /\ z \in DOMAIN code => FinishedLoop(code, a, z)
           /\ z \notin DOMAIN code => \E k \in LoopsIn(open) : /\ Enters(code, open[k], a)
                                                               /\ open[k].exit = i.target
<1>1. /\ e \in DOMAIN now /\ e \notin DOMAIN code /\ e \in Nat /\ now[e] = i
      /\ \A p \in DOMAIN now : p \in Nat /\ (p \in DOMAIN code \/ p = e) /\ p <= e
      /\ \A p \in DOMAIN code : p \in DOMAIN now /\ p \in Nat /\ p < e /\ now[p] = code[p]
      /\ \A p, q \in DOMAIN code : Arrives(now, p, q) <=> Arrives(code, p, q)
  BY ExtendedFacts
<1>2. ~IsJump(i)
  BY DEF IsJump, IsJmp, IsJmpCond, IsLabel
<1>3. PICK p \in DOMAIN now : IsJmp(now[p]) /\ a < p /\ Arrives(now, p, a)
  BY DEF FinishedLoop
<1>4. p \in DOMAIN code
  BY <1>1, <1>2, <1>3 DEF Arrives
<1>5. a \in DOMAIN code
  BY <1>1, <1>3, <1>4
<1>6. IsLabel(code[a]) /\ IsJmp(code[p]) /\ Arrives(code, p, a)
  BY <1>1, <1>3, <1>4, <1>5 DEF FinishedLoop
<1>7. ASSUME z \in DOMAIN code PROVE FinishedLoop(code, a, z)
  BY <1>1, <1>3, <1>4, <1>5, <1>6, <1>7 DEF FinishedLoop
<1>8. ASSUME z \notin DOMAIN code
      PROVE  \E k \in LoopsIn(open) : Enters(code, open[k], a) /\ open[k].exit = i.target
  <2>1. i.target = code[a].target + 1
    BY <1>1, <1>5, <1>8 DEF FinishedLoop
  <2>2. PICK k \in LoopsIn(open) : open[k].enter = code[a].target
    BY <1>3, <1>4, <1>5, <1>6, <2>1 DEF Enclosed, BackToLoops
  <2>3. open[k].exit = i.target
    BY <2>1, <2>2 DEF Enclosed, EntersPlaced
  <2>4. QED
    BY <1>6, <2>2, <2>3 DEF Enters
<1>9. QED
  BY <1>5, <1>7, <1>8

(* A label is placed that no open loop has for its entry: constructs that  *)
(* owed it, owe it no longer.  Either the loops stay as they are, or the   *)
(* innermost one is finished.                                              *)
Released(code, ret, open, o, n) ==
    /\ ~Placed(code, n)
    /\ LoopsIn(o) \subseteq LoopsIn(open) /\ \A k \in LoopsIn(o) : o[k] = open[k]
    /\ \A k \in LoopsIn(open) : open[k].enter # n
    /\ \A k \in LoopsIn(o) : \A p \in DOMAIN code : IsJump(code[p]) =>
          (code[p].target \in OwedFrom(ret, open, k)
             <=> \/ code[p].target \in OwedFrom(ret, o, k)
                 \/ code[p].target = n)
    /\ EntersPlaced(ret, o)

LEMMA LabelEncloses ==
    ASSUME NEW code, NEW ret, NEW open, Enclosed(code, ret, open),
           NEW now, NEW e, NEW i, Extends(code, now, e, i), IsLabel(i),
           NEW o, Released(code, ret, open, o, i.target)
    PROVE  /\ JumpsInside(now, ret, o) /\ EntersAscend(now, o) /\ EntersPlaced(ret, o)
           /\ \A a, p \in DOMAIN now : IsJmp(now[p]) /\ a < p /\ Arrives(now, p, a) =>
                 \/ \E k \in LoopsIn(open) : open[k].enter = now[a].target
                 \/ Placed(now, now[a].target + 1)
           /\ \A k \in LoopsIn(open) : \A a \in DOMAIN now :
                 Enters(now, open[k], a) => a \in DOMAIN code /\ Enters(code, open[k], a)
<1> DEFINE n == i.target
<1>1. /\ e \in DOMAIN now /\ e \notin DOMAIN code /\ e \in Nat /\ now[e] = i
      /\ \A p \in DOMAIN now : p \in Nat /\ (p \in DOMAIN code \/ p = e) /\ p <= e
      /\ \A p \in DOMAIN code : p \in DOMAIN now /\ p \in Nat /\ p < e /\ now[p] = code[p]
      /\ \A p, q \in DOMAIN code : Arrives(now, p, q) <=> Arrives(code, p, q)
      /\ \A c : \A a \in DOMAIN code : Enters(now, c, a) <=> Enters(code, c, a)
  BY ExtendedFacts
<1>2. ~IsJump(i)
  BY DEF IsJump, IsJmp, IsJmpCond, IsLabel
<1>3. \A p \in DOMAIN now : IsJump(now[p]) => p \in DOMAIN code
  BY <1>1, <1>2
<1>4. \A p \in DOMAIN code : IsJump(code[p]) => (Arrives(now, p, e) <=> code[p].target = n)
  BY <1>1 DEF Arrives
<1>5. ASSUME NEW k \in LoopsIn(open), NEW a \in DOMAIN now, Enters(now, open[k], a)
      PROVE  a \in DOMAIN code /\ Enters(code, open[k], a)
  BY <1>1, <1>5 DEF Released, Enters
<1>6. \A k \in LoopsIn(o) : k \in LoopsIn(open) /\ o[k] = open[k]
  BY DEF Released
<1>7. JumpsInside(now, ret, o)
  <2> SUFFICES ASSUME NEW k \in LoopsIn(o), NEW a \in DOMAIN now, NEW p \in DOMAIN now,
                      Enters(now, o[k], a), IsJump(now[p])
               PROVE  a <= p <=> \/ \E q \in DOMAIN now : a <= q /\ Arrives(now, p, q)
                                 \/ now[p].target \in OwedFrom(ret, o, k)
    BY DEF JumpsInside
  <2>1. /\ k \in LoopsIn(open) /\ a \in DOMAIN code /\ Enters(code, open[k], a)
        /\ p \in DOMAIN code /\ IsJump(code[p]) /\ now[p] = code[p]
    BY <1>1, <1>3, <1>5, <1>6
  <2>2. a <= p <=> \/ \E q \in DOMAIN code : a <= q /\ Arrives(code, p, q)
                   \/ code[p].target \in OwedFrom(ret, open, k)
    BY <2>1 DEF Enclosed, JumpsInside
  <2>3. code[p].target \in OwedFrom(ret, open, k)
            <=> code[p].target \in OwedFrom(ret, o, k) \/ Arrives(now, p, e)
    BY <1>4, <2>1 DEF Released
  <2>4. (\E q \in DOMAIN now : a <= q /\ Arrives(now, p, q))
            <=> (\E q \in DOMAIN code : a <= q /\ Arrives(code, p, q)) \/ Arrives(now, p, e)
    <3>1. a <= e
      BY <1>1
    <3>2. QED
      BY <1>1, <2>1, <3>1
  <2>5. QED
    BY <2>1, <2>2, <2>3, <2>4
<1>8. EntersAscend(now, o)
  BY <1>5, <1>6 DEF Enclosed, EntersAscend
<1>9. ASSUME NEW a \in DOMAIN now, NEW p \in DOMAIN now,
             IsJmp(now[p]), a < p, Arrives(now, p, a)
      PROVE  \/ \E k \in LoopsIn(open) : open[k].enter = now[a].target
             \/ Placed(now, now[a].target + 1)
  <2>1. p \in DOMAIN code
    BY <1>3, <1>9 DEF IsJump
  <2>2. a \in DOMAIN code
    BY <1>1, <1>9, <2>1
  <2>3. IsJmp(code[p]) /\ Arrives(code, p, a) /\ now[a] = code[a]
    BY <1>1, <1>9, <2>1, <2>2
  <2>4. \A m : Placed(code, m) => Placed(now, m)
    BY ExtendedFacts
  <2>5. QED
    BY <1>9, <2>1, <2>2, <2>3, <2>4 DEF Enclosed, BackToLoops
<1>10. EntersPlaced(ret, o)
  BY DEF Released
<1>11. QED
  BY <1>5, <1>7, <1>8, <1>9, <1>10

(* The jumps of a loop that was finished before still stay in it or out.   *)
LEMMA LabelLeavesLoops ==
    ASSUME NEW code, NEW ret, NEW open, Enclosed(code, ret, open),
           NEW now, NEW e, NEW i, Extends(code, now, e, i), IsLabel(i),
           NEW a \in DOMAIN code, NEW z \in DOMAIN code, FinishedLoop(code, a, z),
           NEW p \in DOMAIN now, IsJump(now[p])
    PROVE  p \in a .. z <=> \E q \in DOMAIN now : q \in a .. z /\ Arrives(now, p, q)
<1>1. /\ e \in DOMAIN now /\ e \notin DOMAIN code /\ e \in Nat /\ now[e] = i
      /\ \A q \in DOMAIN now : q \in Nat /\ (q \in DOMAIN code \/ q = e) /\ q <= e
      /\ \A q \in DOMAIN code : q \in DOMAIN now /\ q \in Nat /\ q < e /\ now[q] = code[q]
      /\ \A r, q \in DOMAIN code : Arrives(now, r, q) <=> Arrives(code, r, q)
  BY ExtendedFacts
<1>2. p \in DOMAIN code
  BY <1>1 DEF IsJump, IsJmp, IsJmpCond, IsLabel
<1>3. p \in a .. z <=> \E q \in DOMAIN code : q \in a .. z /\ Arrives(code, p, q)
  BY <1>1, <1>2 DEF Enclosed, Uncrossed
<1>4. e \notin a .. z
  BY <1>1
<1>5. QED
  BY <1>1, <1>2, <1>3, <1>4

(* The exit of a branch, or a label nobody knew: all loops stay.           *)
LEMMA BranchEncloses ==
    ASSUME NEW code, NEW ret, NEW open, Enclosed(code, ret, open),
           NEW now, NEW e, NEW i, Extends(code, now, e, i), IsLabel(i),
           NEW o, Released(code, ret, open, o, i.target), LoopsIn(o) = LoopsIn(open),
           \A k \in LoopsIn(open) : open[k].exit # i.target
    PROVE  /\ Enclosed(now, ret, o)
           /\ \A a, z \in DOMAIN now : FinishedLoop(now, a, z) => z \in DOMAIN code
<1>1. /\ JumpsInside(now, ret, o) /\ EntersAscend(now, o) /\ EntersPlaced(ret, o)
      /\ \A a, p \in DOMAIN now : IsJmp(now[p]) /\ a < p /\ Arrives(now, p, a) =>
                 \/ \E k \in LoopsIn(open) : open[k].enter = now[a].target
                 \/ Placed(now, now[a].target + 1)
      /\ \A k \in LoopsIn(open) : \A a \in DOMAIN now :
                 Enters(now, open[k], a) => a \in DOMAIN code /\ Enters(code, open[k], a)
  BY LabelEncloses
<1>2. LoopsIn(o) = LoopsIn(open) /\ \A k \in LoopsIn(o) : o[k] = open[k]
  BY DEF Released
<1>3. ASSUME NEW a \in DOMAIN now, NEW z \in DOMAIN now, FinishedLoop(now, a, z)
      PROVE  a \in DOMAIN code /\ z \in DOMAIN code /\ FinishedLoop(code, a, z)
  BY <1>3, LabelFinishesNothing DEF Released
<1>4. Uncrossed(now)
  BY <1>3, LabelLeavesLoops DEF Uncrossed
<1>5. EntersOutside(now, o)
  BY <1>1, <1>2, <1>3 DEF Enclosed, EntersOutside
<1>6. BackToLoops(now, o)
  BY <1>1, <1>2 DEF BackToLoops
<1>7. QED
  BY <1>1, <1>3, <1>4, <1>5, <1>6 DEF Enclosed

(* The exit of the innermost loop: it is finished.                         *)
LEMMA ExitEncloses ==
    ASSUME NEW code, NEW ret, NEW open, Enclosed(code, ret, open),
           NEW now, NEW e, NEW i, Extends(code, now, e, i), IsLabel(i),
           NEW o, Released(code, ret, open, o, i.target),
           NEW m \in LoopsIn(open), LoopsIn(o) = LoopsIn(open) \ {m},
           \A k \in LoopsIn(o) : k < m,
           \A k \in LoopsIn(open) : open[k].exit = i.target => k = m,
           OwedFrom(ret, open, m) = {i.target}, open[m].exit = i.target
    PROVE  Enclosed(now, ret, o)
<1>1. /\ e \in DOMAIN now /\ e \notin DOMAIN code /\ e \in Nat /\ now[e] = i
      /\ \A p \in DOMAIN now : p \in Nat /\ (p \in DOMAIN code \/ p = e) /\ p <= e
      /\ \A p \in DOMAIN code : p \in DOMAIN now /\ p \in Nat /\ p < e /\ now[p] = code[p]
      /\ \A p, q \in DOMAIN code : Arrives(now, p, q) <=> Arrives(code, p, q)
  BY ExtendedFacts
<1>2. /\ JumpsInside(now, ret, o) /\ EntersAscend(now, o) /\ EntersPlaced(ret, o)
      /\ \A a, p \in DOMAIN now : IsJmp(now[p]) /\ a < p /\ Arrives(now, p, a) =>
                 \/ \E k \in LoopsIn(open) : open[k].enter = now[a].target
                 \/ Placed(now, now[a].target + 1)
      /\ \A k \in LoopsIn(open) : \A a \in DOMAIN now :
                 Enters(now, open[k], a) => a \in DOMAIN code /\ Enters(code, open[k], a)
  BY LabelEncloses
<1>3. ASSUME NEW a \in DOMAIN now, NEW z \in DOMAIN now, FinishedLoop(now, a, z)
      PROVE  \/ a \in DOMAIN code /\ z \in DOMAIN code /\ FinishedLoop(code, a, z)
             \/ z = e /\ a \in DOMAIN code /\ Enters(code, open[m], a)
  <2>1. a \in DOMAIN code /\ (z \in DOMAIN code => FinishedLoop(code, a, z))
        /\ (z \notin DOMAIN code => \E k \in LoopsIn(open) : /\ Enters(code, open[k], a)
                                                             /\ open[k].exit = i.target)
    BY <1>3, LabelFinishesNothing DEF Released
  <2>2. QED
    BY <1>1, <2>1
<1>4. Uncrossed(now)
  <2> SUFFICES ASSUME NEW a \in DOMAIN now, NEW z \in DOMAIN now, NEW p \in DOMAIN now,
                      FinishedLoop(now, a, z), IsJump(now[p])
               PROVE  p \in a .. z <=> \E q \in DOMAIN now : q \in a .. z /\ Arrives(now, p, q)
    BY DEF Uncrossed
  <2>1. CASE z = e /\ a \in DOMAIN code /\ Enters(code, open[m], a)
    <3>1. p \in DOMAIN code /\ now[p] = code[p]
      BY <1>1 DEF IsJump, IsJmp, IsJmpCond, IsLabel
    <3>2. a <= p <=> \/ \E q \in DOMAIN code : a <= q /\ Arrives(code, p, q)
                     \/ code[p].target = i.target
      BY <2>1, <3>1 DEF Enclosed, JumpsInside
    <3>3. Arrives(now, p, e) <=> code[p].target = i.target
      BY <1>1, <3>1 DEF Arrives
    <3>4. \A q \in DOMAIN now : q \in a .. z <=> a <= q
      BY <1>1, <2>1
    <3>5. (\E q \in DOMAIN now : a <= q /\ Arrives(now, p, q))
              <=> (\E q \in DOMAIN code : a <= q /\ Arrives(code, p, q)) \/ Arrives(now, p, e)
      <4>1. a <= e
        BY <1>1
      <4>2. QED
        BY <1>1, <3>1, <4>1
    <3>6. QED
      BY <3>2, <3>3, <3>4, <3>5
  <2>2. CASE a \in DOMAIN code /\ z \in DOMAIN code /\ FinishedLoop(code, a, z)
    BY <2>2, LabelLeavesLoops
  <2>3. QED
    BY <1>3, <2>1, <2>2
<1>5. EntersOutside(now, o)
  <2> SUFFICES ASSUME NEW k \in LoopsIn(o), NEW a \in DOMAIN now, NEW b \in DOMAIN now,
                      NEW z \in DOMAIN now, Enters(now, o[k], a), FinishedLoop(now, b, z)
               PROVE  a \notin b .. z
    BY DEF EntersOutside
  <2>1. k \in LoopsIn(open) /\ k < m /\ a \in DOMAIN code /\ Enters(code, open[k], a)
    BY <1>2 DEF Released
  <2>2. CASE z = e /\ b \in DOMAIN code /\ Enters(code, open[m], b)
    <3>1. a < b
      BY <2>1, <2>2 DEF Enclosed, EntersAscend
    <3>2. QED
      BY <1>1, <2>1, <2>2, <3>1
  <2>3. CASE b \in DOMAIN code /\ z \in DOMAIN code /\ FinishedLoop(code, b, z)
    BY <2>1, <2>3 DEF Enclosed, EntersOutside
  <2>4. QED
    BY <1>3, <2>2, <2>3
<1>6. BackToLoops(now, o)
  <2> SUFFICES ASSUME NEW a \in DOMAIN now, NEW p \in DOMAIN now,
                      IsJmp(now[p]), a < p, Arrives(now, p, a)
               PROVE  \/ \E k \in LoopsIn(o) : o[k].enter = now[a].target
                      \/ Placed(now, now[a].target + 1)
    BY DEF BackToLoops
  <2>1. CASE \E k \in LoopsIn(open) : open[k].enter = now[a].target
    <3>1. PICK k \in LoopsIn(open) : open[k].enter = now[a].target
      BY <2>1
    <3>2. CASE k = m
      <4>1. open[m].exit = open[m].enter + 1
        BY DEF Enclosed, EntersPlaced
      <4>2. Placed(now, i.target)
        BY ExtendedFacts
      <4>3. QED
        BY <3>1, <3>2, <4>1, <4>2
    <3>3. CASE k # m
      BY <3>1, <3>3 DEF Released
    <3>4. QED
      BY <3>2, <3>3
  <2>2. CASE Placed(now, now[a].target + 1)
    BY <2>2
  <2>3. QED
    BY <1>2, <2>1, <2>2
<1>7. QED
  BY <1>2, <1>4, <1>5, <1>6 DEF Enclosed

(* Constructs come or go that matter to no jump so far.                    *)
LEMMA OwedElsewhere ==
    ASSUME NEW code, NEW ret, NEW open, Enclosed(code, ret, open),
           NEW o, LoopsIn(o) = LoopsIn(open), \A k \in LoopsIn(open) : o[k] = open[k],
           \A k \in LoopsIn(open) : \A p \in DOMAIN code : IsJump(code[p]) =>
              (code[p].target \in OwedFrom(ret, open, k) <=> code[p].target \in OwedFrom(ret, o, k)),
           EntersPlaced(ret, o)
    PROVE  Enclosed(code, ret, o)
<1>1. JumpsInside(code, ret, o)
  BY DEF Enclosed, JumpsInside
<1>2. EntersOutside(code, o) /\ EntersAscend(code, o) /\ BackToLoops(code, o)
  BY DEF Enclosed, EntersOutside, EntersAscend, BackToLoops
<1>3. QED
  BY <1>1, <1>2 DEF Enclosed

(* A loop opens whose entry has just been placed.                          *)
LEMMA LoopEncloses ==
    ASSUME NEW code, NEW ret, NEW open, Enclosed(code, ret, open),
           NEW e \in DOMAIN code, \A p \in DOMAIN code : p \in Nat /\ p <= e,
           \A a, z \in DOMAIN code : FinishedLoop(code, a, z) => z # e,
           NEW o, NEW m \in Nat, LoopsIn(o) = LoopsIn(open) \cup {m},
           \A k \in LoopsIn(open) : o[k] = open[k] /\ k \in Nat /\ k < m,
           \A k \in LoopsIn(open), a \in DOMAIN code : Enters(code, open[k], a) => a # e,
           \A a \in DOMAIN code : Enters(code, o[m], a) => a = e,
           \A p \in DOMAIN code : IsJump(code[p]) =>
              /\ code[p].target # o[m].enter /\ code[p].target \notin OwedFrom(ret, o, m)
              /\ \A k \in LoopsIn(open) :
                    code[p].target \in OwedFrom(ret, open, k) <=> code[p].target \in OwedFrom(ret, o, k),
           EntersPlaced(ret, o), IsLabel(code[e])
    PROVE  Enclosed(code, ret, o)
<1>1. JumpsInside(code, ret, o)
  <2> SUFFICES ASSUME NEW k \in LoopsIn(o), NEW a \in DOMAIN code, NEW p \in DOMAIN code,
                      Enters(code, o[k], a), IsJump(code[p])
               PROVE  a <= p <=> \/ \E q \in DOMAIN code : a <= q /\ Arrives(code, p, q)
                                 \/ code[p].target \in OwedFrom(ret, o, k)
    BY DEF JumpsInside
  <2>1. CASE k = m
    <3>1. a = e
      BY <2>1
    <3>2. ~(a <= p)
      <4>1. p # e
        BY DEF IsJump, IsJmp, IsJmpCond, IsLabel
      <4>2. p <= e /\ p \in Nat /\ e \in Nat
        OBVIOUS
      <4>3. QED
        BY <3>1, <4>1, <4>2
    <3>3. \A q \in DOMAIN code : a <= q => q = e
      BY <3>1
    <3>4. ~Arrives(code, p, e)
      BY <2>1, <3>1 DEF Arrives, Enters
    <3>5. QED
      BY <2>1, <3>2, <3>3, <3>4
  <2>2. CASE k \in LoopsIn(open)
    BY <2>2 DEF Enclosed, JumpsInside
  <2>3. QED
    BY <2>1, <2>2
<1>2. EntersOutside(code, o)
  <2> SUFFICES ASSUME NEW k \in LoopsIn(o), NEW a \in DOMAIN code, NEW b \in DOMAIN code,
                      NEW z \in DOMAIN code, Enters(code, o[k], a), FinishedLoop(code, b, z)
               PROVE  a \notin b .. z
    BY DEF EntersOutside
  <2>1. CASE k = m
    <3>1. a = e /\ z # e /\ z <= e /\ z \in Nat /\ e \in Nat
      BY <2>1
    <3>2. QED
      BY <3>1
  <2>2. CASE k \in LoopsIn(open)
    BY <2>2 DEF Enclosed, EntersOutside
  <2>3. QED
    BY <2>1, <2>2
<1>3. EntersAscend(code, o)
  <2> SUFFICES ASSUME NEW j \in LoopsIn(o), NEW k \in LoopsIn(o), NEW a \in DOMAIN code,
                      NEW b \in DOMAIN code, j < k, Enters(code, o[j], b), Enters(code, o[k], a)
               PROVE  b < a
    BY DEF EntersAscend
  <2>1. j \in LoopsIn(open)
    BY DEF EntersAscend
  <2>2. CASE k = m
    <3>1. a = e /\ b # e /\ b <= e /\ b \in Nat /\ e \in Nat
      BY <2>1, <2>2
    <3>2. QED
      BY <3>1
  <2>3. CASE k \in LoopsIn(open)
    BY <2>1, <2>3 DEF Enclosed, EntersAscend
  <2>4. QED
    BY <2>2, <2>3
<1>4. BackToLoops(code, o)
  BY DEF Enclosed, BackToLoops
<1>5. QED
  BY <1>1, <1>2, <1>3, <1>4 DEF Enclosed

-----------------------------------------------------------------------------
(* What the labels of a sound state are for.                               *)
Fresh(code, n) == ~Placed(code, n) /\ \A p \in DOMAIN code : IsJump(code[p]) => code[p].target # n

LEMMA PlacedFacts ==
    ASSUME NEW code, NEW labels, NEW owed, Lands(code, labels, owed)
    PROVE  /\ \A n \in 0 .. labels - 1 : Placed(code, n) <=> n \notin owed
           /\ \A n : n \notin 0 .. labels - 1 => Fresh(code, n)
           /\ \A p \in DOMAIN code : IsJump(code[p]) => code[p].target \in 0 .. labels - 1
<1>1. \A n : Placed(code, n) <=> Places(code, n) # {}
  BY DEF Placed, Places
<1>2. \A n \in 0 .. labels - 1 : Placed(code, n) <=> n \notin owed
  BY <1>1 DEF Lands
<1>3. \A p \in DOMAIN code : Targeted(code[p]) => code[p].target \in 0 .. labels - 1
  <2>1. IsSeq(code)
    BY DEF Lands
  <2>2. \A p \in DOMAIN code : code[p] \in ToSet(code)
    BY <2>1, SequenceFacts
  <2>3. QED
    BY <2>2 DEF Lands
<1>4. \A p \in DOMAIN code : IsJump(code[p]) => code[p].target \in 0 .. labels - 1
  BY <1>3 DEF Targeted
<1>5. \A n : n \notin 0 .. labels - 1 => Fresh(code, n)
  BY <1>3 DEF Fresh, Placed, Targeted
<1>6. QED
  BY <1>2, <1>4, <1>5

LEMMA OwedPushed ==
    ASSUME NEW ret, NEW open, IsSeq(open), NEW c
    PROVE  /\ \A k \in 1 .. Len(open) :
                 OwedFrom(ret, Append(open, c), k) = OwedFrom(ret, open, k) \cup {OwedOf(ret, c)}
           /\ OwedFrom(ret, Append(open, c), Len(open) + 1) = {OwedOf(ret, c)}
           /\ OwedIn(ret, Append(open, c)) = OwedIn(ret, open) \cup {OwedOf(ret, c)}
<1> DEFINE o == Append(open, c)
           m == Len(open) + 1
<1>1. /\ Len(open) \in Nat /\ DOMAIN open = 1 .. Len(open)
      /\ IsSeq(o) /\ Len(o) = m
      /\ \A k \in 1 .. Len(open) : o[k] = open[k]
      /\ o[m] = c
  BY Pushed, SequenceFacts
<1> HIDE DEF o
<1>2. DOMAIN o = 1 .. Len(open) \cup {m}
  <2>1. DOMAIN o = 1 .. Len(open) + 1
    BY <1>1, SequenceFacts
  <2>2. QED
    BY <1>1, <2>1
<1>3. \A k \in 1 .. Len(open) : k <= m /\ k \in Nat /\ ~(m <= k)
  BY <1>1
<1>4. ASSUME NEW k \in 1 .. Len(open)
      PROVE  OwedFrom(ret, o, k) = OwedFrom(ret, open, k) \cup {OwedOf(ret, c)}
  <2>1. {i \in DOMAIN o : k <= i} = {i \in DOMAIN open : k <= i} \cup {m}
    BY <1>1, <1>2, <1>3
  <2>2. \A j \in {i \in DOMAIN open : k <= i} : o[j] = open[j]
    BY <1>1
  <2> HIDE DEF m
  <2>3. QED
    BY <1>1, <2>1, <2>2 DEF OwedFrom
<1>5. OwedFrom(ret, o, m) = {OwedOf(ret, c)}
  <2>1. {i \in DOMAIN o : m <= i} = {m}
    BY <1>1, <1>2, <1>3
  <2> HIDE DEF m
  <2>2. QED
    BY <1>1, <2>1 DEF OwedFrom
<1>6. OwedIn(ret, o) = OwedIn(ret, open) \cup {OwedOf(ret, c)}
  <2> HIDE DEF m
  <2>1. QED
    BY <1>1, <1>2 DEF OwedIn
<1>7. QED
  BY <1>4, <1>5, <1>6 DEF o

LEMMA OwedPopped ==
    ASSUME NEW ret, NEW open, IsSeq(open), open # <<>>
    PROVE  /\ \A k \in 1 .. Len(open) - 1 :
                 OwedFrom(ret, open, k) = OwedFrom(ret, Front(open), k) \cup {OwedOf(ret, Last(open))}
           /\ OwedFrom(ret, open, Len(open)) = {OwedOf(ret, Last(open))}
           /\ OwedIn(ret, Front(open)) \subseteq OwedIn(ret, open)
           /\ \A k \in 1 .. Len(open) : OwedOf(ret, Last(open)) \in OwedFrom(ret, open, k)
<1> DEFINE o == Front(open)
           l == Last(open)
           m == Len(open)
<1>1. /\ m \in Nat \ {0} /\ DOMAIN open = 1 .. m
      /\ IsSeq(o) /\ Len(o) = m - 1
      /\ \A k \in 1 .. m - 1 : o[k] = open[k]
      /\ l = open[m]
  BY Popped, SequenceFacts
<1> HIDE DEF o, l
<1>2. DOMAIN o = 1 .. m - 1 /\ 1 .. m = 1 .. m - 1 \cup {m} /\ m \in 1 .. m /\ m <= m
  BY <1>1, SequenceFacts
<1> HIDE DEF m
<1>3. \A k \in 1 .. m - 1 : k <= m /\ k \in Nat /\ ~(m <= k)
  BY <1>1
<1>4. ASSUME NEW k \in 1 .. m - 1
      PROVE  OwedFrom(ret, open, k) = OwedFrom(ret, o, k) \cup {OwedOf(ret, l)}
  <2>1. {i \in DOMAIN open : k <= i} = {i \in DOMAIN o : k <= i} \cup {m}
    BY <1>1, <1>2, <1>3
  <2>2. \A j \in {i \in DOMAIN o : k <= i} : o[j] = open[j]
    BY <1>1, <1>2
  <2>3. QED
    BY <1>1, <2>1, <2>2 DEF OwedFrom
<1>5. OwedFrom(ret, open, m) = {OwedOf(ret, l)}
  <2>1. {i \in DOMAIN open : m <= i} = {m}
    BY <1>1, <1>2, <1>3
  <2>2. QED
    BY <1>1, <2>1 DEF OwedFrom
<1>6. OwedIn(ret, o) \subseteq OwedIn(ret, open)
  BY <1>1, <1>2 DEF OwedIn
<1>7. ASSUME NEW k \in 1 .. m PROVE OwedOf(ret, l) \in OwedFrom(ret, open, k)
  <2>1. m \in {i \in DOMAIN open : k <= i}
    BY <1>1, <1>2
  <2>2. QED
    BY <1>1, <2>1 DEF OwedFrom
<1>8. QED
  BY <1>4, <1>5, <1>6, <1>7 DEF o, l, m

(* The numbers of open loops, and the labels the open constructs owe.      *)
LEMMA LoopFacts ==
    ASSUME NEW code, NEW heads, NEW tails, NEW labels, NEW open, NEW ret,
           Sound(code, heads, tails, labels, open, ret)
    PROVE  /\ IsSeq(open) /\ Len(open) \in Nat /\ IsSeq(code)
           /\ \A k \in LoopsIn(open) :
                 /\ k \in 1 .. Len(open) /\ k \in Nat /\ k <= Len(open) /\ k < Len(open) + 1
                 /\ OwedOf(ret, open[k]) = open[k].exit
                 /\ open[k].enter \in 0 .. labels - 1 /\ open[k].exit \in 0 .. labels - 1
                 /\ open[k].exit \in OwedFrom(ret, open, k)
                 /\ open[k].exit \in OwedIn(ret, open)
           /\ \A j, k \in 1 .. Len(open) : OwedOf(ret, open[j]) = OwedOf(ret, open[k]) => j = k
<1>1. /\ Nested(ret, labels, open) /\ OwedIn(ret, open) \subseteq 0 .. labels - 1
      /\ IsSeq(open) /\ IsSeq(code)
  BY DEF Sound, Lands, Nested
<1>2. Len(open) \in Nat /\ DOMAIN open = 1 .. Len(open)
  BY <1>1, SequenceFacts
<1>3. ASSUME NEW k \in LoopsIn(open)
      PROVE  /\ k \in 1 .. Len(open) /\ k \in Nat /\ k <= Len(open) /\ k < Len(open) + 1
             /\ OwedOf(ret, open[k]) = open[k].exit
             /\ open[k].enter \in 0 .. labels - 1 /\ open[k].exit \in 0 .. labels - 1
             /\ open[k].exit \in OwedFrom(ret, open, k)
             /\ open[k].exit \in OwedIn(ret, open)
  <2>1. k \in 1 .. Len(open) /\ open[k].c = "while"
    BY <1>2 DEF LoopsIn
  <2>2. k \in Nat /\ k <= Len(open) /\ k < Len(open) + 1 /\ k <= k
    BY <1>2, <2>1
  <2>3. OwedOf(ret, open[k]) = open[k].exit
    BY <2>1 DEF OwedOf
  <2>4. open[k].enter \in 0 .. labels - 1
    BY <1>1, <2>1 DEF Nested
  <2>5. open[k].exit \in OwedIn(ret, open)
    BY <1>2, <2>1, <2>3 DEF OwedIn
  <2>6. open[k].exit \in OwedFrom(ret, open, k)
    <3>1. k \in {i \in DOMAIN open : k <= i}
      BY <1>2, <2>1, <2>2
    <3>2. QED
      BY <2>3, <3>1 DEF OwedFrom
  <2>7. QED
    BY <1>1, <2>1, <2>2, <2>3, <2>4, <2>5, <2>6
<1>4. QED
  BY <1>1, <1>2, <1>3 DEF Nested

(* A label for which no open loop waits is placed and nobody jumped to it. *)
LEMMA FreshReleased ==
    ASSUME NEW code, NEW heads, NEW tails, NEW labels, NEW open, NEW ret,
           Sound(code, heads, tails, labels, open, ret), Enclosed(code, ret, open)
    PROVE  /\ Released(code, ret, open, open, labels)
           /\ Fresh(code, labels) /\ Fresh(code, labels + 1)
           /\ \A k \in LoopsIn(open) : open[k].enter # labels /\ open[k].exit # labels
<1>1. labels \notin 0 .. labels - 1 /\ labels + 1 \notin 0 .. labels - 1
  BY DEF Sound, Lands
<1>2. Fresh(code, labels) /\ Fresh(code, labels + 1)
  BY <1>1, PlacedFacts DEF Sound
<1>3. \A k \in LoopsIn(open) : open[k].enter # labels /\ open[k].exit # labels
  BY <1>1, LoopFacts
<1>4. Released(code, ret, open, open, labels)
  BY <1>2, <1>3 DEF Fresh, Released, Enclosed
<1>5. QED
  BY <1>2, <1>3, <1>4

LEMMA LoopOpens ==
    ASSUME NEW code, NEW heads, NEW tails, NEW labels, NEW open, NEW ret,
           Sound(code, heads, tails, labels, open, ret), Enclosed(code, ret, open),
           NEW i, IsLabel(i), i.target = labels,
           NEW is, IsSeq(is), \A x \in ToSet(is) : ~IsLabel(x) /\ ~IsJump(x),
           NEW j, IsJump(j), j.target = labels + 1,
           NEW c, c.c = "while", c.enter = labels, c.exit = labels + 1
    PROVE  Enclosed(((code \o <<i>>) \o is) \o <<j>>, ret, Append(open, c))
<1> DEFINE o   == Append(open, c)
           m   == Len(open) + 1
           e   == Len(code) + 1
           at  == code \o <<i>>
           pad == at \o is
           now == pad \o <<j>>
<1>1. /\ IsSeq(open) /\ Len(open) \in Nat /\ IsSeq(code)
      /\ \A k \in LoopsIn(open) :
            /\ k \in 1 .. Len(open) /\ k \in Nat /\ k < Len(open) + 1
            /\ open[k].enter \in 0 .. labels - 1
  BY LoopFacts
<1>2. /\ labels \in Nat /\ labels # labels + 1 /\ OwedIn(ret, open) \subseteq 0 .. labels - 1
      /\ labels \notin 0 .. labels - 1 /\ labels + 1 \notin 0 .. labels - 1
  BY DEF Sound, Lands
<1>3. OwedOf(ret, c) = labels + 1
  BY DEF OwedOf
<1>4. /\ \A k \in 1 .. Len(open) : OwedFrom(ret, o, k) = OwedFrom(ret, open, k) \cup {labels + 1}
      /\ OwedFrom(ret, o, m) = {labels + 1}
      /\ OwedIn(ret, o) = OwedIn(ret, open) \cup {labels + 1}
  <2>1. /\ \A k \in 1 .. Len(open) : OwedFrom(ret, o, k) = OwedFrom(ret, open, k) \cup {OwedOf(ret, c)}
        /\ OwedFrom(ret, o, m) = {OwedOf(ret, c)}
        /\ OwedIn(ret, o) = OwedIn(ret, open) \cup {OwedOf(ret, c)}
    BY <1>1, OwedPushed
  <2> HIDE DEF o, m
  <2>2. QED
    BY <1>3, <2>1
<1>5. /\ \A k \in 1 .. Len(open) : o[k] = open[k]
      /\ o[m] = c
  BY <1>1, Pushed
<1>6. LoopsIn(o) = LoopsIn(open) \cup {m}
  <2>1. DOMAIN o = 1 .. Len(open) + 1 /\ DOMAIN open = 1 .. Len(open)
    <3>1. IsSeq(o) /\ Len(o) = Len(open) + 1
      BY <1>1, Pushed
    <3> HIDE DEF o
    <3>2. QED
      BY <1>1, <3>1, SequenceFacts
  <2>2. 1 .. Len(open) + 1 = 1 .. Len(open) \cup {m}
    BY <1>1
  <2> HIDE DEF o, m
  <2>3. QED
    BY <1>5, <2>1, <2>2 DEF LoopsIn, m
<1>7. IsSeq(at) /\ Extends(code, at, e, i)
  BY <1>1, AppendExtends
<1> HIDE DEF o, m, e, at, pad, now
<1>8. /\ Released(code, ret, open, open, labels)
      /\ Fresh(code, labels) /\ Fresh(code, labels + 1)
      /\ \A k \in LoopsIn(open) : open[k].enter # labels /\ open[k].exit # labels
  BY FreshReleased
<1>9. /\ Enclosed(at, ret, open)
      /\ \A a, z \in DOMAIN at : FinishedLoop(at, a, z) => z \in DOMAIN code
  BY <1>7, <1>8, BranchEncloses
<1>10. /\ e \in DOMAIN at /\ e \notin DOMAIN code /\ e \in Nat /\ at[e] = i
       /\ \A p \in DOMAIN at : p \in Nat /\ (p \in DOMAIN code \/ p = e) /\ p <= e
       /\ \A p \in DOMAIN code : p \in DOMAIN at /\ p \in Nat /\ p < e /\ at[p] = code[p]
  BY <1>7, ExtendedFacts
<1>11. EntersPlaced(ret, o)
  <2> SUFFICES ASSUME NEW k \in LoopsIn(o)
               PROVE  o[k].exit = o[k].enter + 1 /\ o[k].enter \notin OwedIn(ret, o)
    BY DEF EntersPlaced
  <2>1. CASE k = m
    BY <1>2, <1>4, <1>5, <2>1
  <2>2. CASE k \in LoopsIn(open)
    <3>1. open[k].exit = open[k].enter + 1 /\ open[k].enter \notin OwedIn(ret, open)
      BY <2>2 DEF Enclosed, EntersPlaced
    <3>2. o[k] = open[k] /\ open[k].enter # labels + 1
      BY <1>1, <1>2, <1>5, <2>2
    <3>3. QED
      BY <1>4, <3>1, <3>2
  <2>3. QED
    BY <1>6, <2>1, <2>2
<1>12. \A p \in DOMAIN at : IsJump(at[p]) =>
          p \in DOMAIN code /\ at[p].target # labels /\ at[p].target # labels + 1
  BY <1>8, <1>10 DEF Fresh, IsJump, IsJmp, IsJmpCond, IsLabel
<1>13. Enclosed(at, ret, o)
  <2>1. \A k \in LoopsIn(open) : o[k] = open[k] /\ k \in Nat /\ k < m
    BY <1>1, <1>5 DEF m
  <2>2. \A k \in LoopsIn(open), a \in DOMAIN at : Enters(at, open[k], a) => a # e
    BY <1>8, <1>10 DEF Enters
  <2>3. \A a \in DOMAIN at : Enters(at, o[m], a) => a = e
    BY <1>5, <1>8, <1>10 DEF Enters, Fresh, Placed
  <2>4. \A p \in DOMAIN at : IsJump(at[p]) =>
              /\ at[p].target # o[m].enter /\ at[p].target \notin OwedFrom(ret, o, m)
              /\ \A k \in LoopsIn(open) :
                    at[p].target \in OwedFrom(ret, open, k) <=> at[p].target \in OwedFrom(ret, o, k)
    BY <1>1, <1>4, <1>5, <1>12
  <2>5. m \in Nat /\ IsLabel(at[e]) /\ \A a, z \in DOMAIN at : FinishedLoop(at, a, z) => z # e
    BY <1>1, <1>9, <1>10 DEF m
  <2>6. QED
    BY <1>6, <1>9, <1>10, <1>11, <2>1, <2>2, <2>3, <2>4, <2>5, LoopEncloses
<1>14. IsSeq(pad) /\ Padded(at, pad)
  BY <1>7, QuietPads DEF pad
<1>15. Enclosed(pad, ret, o)
  BY <1>13, <1>14, PaddingEncloses
<1>16. Extends(pad, now, Len(pad) + 1, j)
  BY <1>14, AppendExtends DEF now
<1>17. JumpsWell(pad, ret, o, labels + 1)
  <2>1. ~Placed(at, labels + 1)
    BY <1>2, <1>7, <1>8, ExtendedFacts DEF Fresh
  <2>2. ~Placed(pad, labels + 1)
    BY <1>14, <2>1, PaddedFacts
  <2>3. \A k \in LoopsIn(o) : labels + 1 \in OwedFrom(ret, o, k)
    BY <1>1, <1>4, <1>6
  <2>4. QED
    BY <2>2, <2>3 DEF JumpsWell
<1>18. Enclosed(now, ret, o)
  BY <1>15, <1>16, <1>17, JumpEncloses
<1>19. QED
  BY ONLY <1>18 DEF now, pad, at, o

(* The loop that is innermost jumps back and is left.                      *)
LEMMA LoopCloses ==
    ASSUME NEW code, NEW heads, NEW tails, NEW labels, NEW open, NEW ret,
           Sound(code, heads, tails, labels, open, ret), Enclosed(code, ret, open),
           open # <<>>, Last(open).c = "while",
           NEW j, IsJump(j), j.target = Last(open).enter,
           NEW i, IsLabel(i), i.target = Last(open).exit
    PROVE  Enclosed((code \o <<j>>) \o <<i>>, ret, Front(open))
<1> DEFINE o    == Front(open)
           l    == Last(open)
           m    == Len(open)
           back == code \o <<j>>
           now  == back \o <<i>>
<1>1. /\ IsSeq(open) /\ m \in Nat /\ IsSeq(code)
      /\ \A k \in LoopsIn(open) :
            /\ k \in 1 .. m /\ k \in Nat /\ k <= m
            /\ OwedOf(ret, open[k]) = open[k].exit
            /\ open[k].enter \in 0 .. labels - 1 /\ open[k].exit \in 0 .. labels - 1
            /\ open[k].exit \in OwedIn(ret, open)
      /\ \A x, k \in 1 .. m : OwedOf(ret, open[x]) = OwedOf(ret, open[k]) => x = k
  BY LoopFacts
<1>2. /\ LoopsIn(o) = LoopsIn(open) \ {m} /\ \A k \in LoopsIn(o) : o[k] = open[k]
      /\ l = open[m] /\ m \in 1 .. m
  <2>1. Nested(ret, labels, open) /\ open # <<>>
    BY DEF Sound
  <2> HIDE DEF back, now
  <2>2. QED
    BY ONLY <2>1, Closing
<1>3. m \in LoopsIn(open)
  <2>1. DOMAIN open = 1 .. m
    BY <1>1, SequenceFacts
  <2> HIDE DEF l, m
  <2>2. QED
    BY <1>2, <2>1 DEF LoopsIn, l
<1>4. OwedOf(ret, l) = l.exit
  BY DEF OwedOf
<1>5. /\ \A k \in 1 .. m - 1 : OwedFrom(ret, open, k) = OwedFrom(ret, o, k) \cup {l.exit}
      /\ OwedFrom(ret, open, m) = {l.exit}
      /\ OwedIn(ret, o) \subseteq OwedIn(ret, open)
  BY <1>1, <1>4, OwedPopped
<1>6. IsSeq(back) /\ Extends(code, back, Len(code) + 1, j)
  BY <1>1, AppendExtends
<1>7. Extends(back, now, Len(back) + 1, i)
  <2> HIDE DEF back
  <2> QED
    BY <1>6, AppendExtends
<1> HIDE DEF o, l, m, back, now
<1>8. /\ Placed(code, l.enter) /\ ~Placed(code, l.exit) /\ l.exit = l.enter + 1
      /\ l.enter \notin OwedIn(ret, open)
  <2>1. open[m].exit = open[m].enter + 1 /\ open[m].enter \notin OwedIn(ret, open)
    BY <1>3 DEF Enclosed, EntersPlaced
  <2>2. Lands(code, labels, OwedIn(ret, open))
    BY DEF Sound
  <2>3. \A n \in 0 .. labels - 1 : Placed(code, n) <=> n \notin OwedIn(ret, open)
    BY <2>2, PlacedFacts
  <2>4. QED
    BY <1>1, <1>2, <1>3, <2>1, <2>3
<1>9. JumpsWell(code, ret, open, j.target)
  <2>1. j.target = open[m].enter
    BY <1>2 DEF l
  <2>2. QED
    BY <1>1, <1>2, <1>3, <1>8, <2>1 DEF JumpsWell
<1>10. Enclosed(back, ret, open)
  BY <1>6, <1>9, JumpEncloses
<1>11. i.target = l.exit
  BY DEF l
<1>12. Released(back, ret, open, o, l.exit)
  <2>1. ~Placed(back, l.exit)
    <3>1. ~IsLabel(j)
      BY DEF IsJump, IsJmp, IsJmpCond, IsLabel
    <3>2. QED
      BY <1>6, <1>8, <3>1, ExtendedFacts
  <2>2. \A k \in LoopsIn(open) : open[k].enter # l.exit
    <3>1. l.exit \in OwedIn(ret, open)
      BY <1>1, <1>2, <1>3
    <3>2. QED
      BY <3>1 DEF Enclosed, EntersPlaced
  <2>3. \A k \in LoopsIn(o) : OwedFrom(ret, open, k) = OwedFrom(ret, o, k) \cup {l.exit}
    <3>1. \A k \in LoopsIn(o) : k \in 1 .. m - 1
      BY <1>1, <1>2
    <3>2. QED
      BY <1>5, <3>1
  <2>4. EntersPlaced(ret, o)
    BY <1>2, <1>5 DEF Enclosed, EntersPlaced
  <2>5. QED
    BY <1>2, <2>1, <2>2, <2>3, <2>4 DEF Released
<1>13. /\ \A k \in LoopsIn(o) : k < m
       /\ \A k \in LoopsIn(open) : open[k].exit = i.target => k = m
       /\ OwedFrom(ret, open, m) = {i.target} /\ open[m].exit = i.target
  BY <1>1, <1>2, <1>3, <1>5, <1>11
<1>14. Enclosed(now, ret, o)
  BY <1>2, <1>3, <1>7, <1>10, <1>11, <1>12, <1>13, ExitEncloses
<1>15. QED
  BY <1>14 DEF now, back, o

(* A branch opens: its label is new, so nobody has jumped there.           *)
LEMMA BranchPushed ==
    ASSUME NEW code, NEW heads, NEW tails, NEW labels, NEW open, NEW ret,
           Sound(code, heads, tails, labels, open, ret), Enclosed(code, ret, open),
           NEW c, c.c \in {"then", "else"}, OwedOf(ret, c) = labels
    PROVE  /\ Enclosed(code, ret, Append(open, c))
           /\ LoopsIn(Append(open, c)) = LoopsIn(open)
           /\ \A k \in LoopsIn(open) : Append(open, c)[k] = open[k]
           /\ JumpsWell(code, ret, Append(open, c), labels)
<1> DEFINE o == Append(open, c)
<1>1. /\ IsSeq(open)
      /\ \A k \in LoopsIn(open) : k \in 1 .. Len(open) /\ open[k].enter \in 0 .. labels - 1
  BY LoopFacts
<1>2. /\ \A k \in 1 .. Len(open) : OwedFrom(ret, o, k) = OwedFrom(ret, open, k) \cup {labels}
      /\ OwedIn(ret, o) = OwedIn(ret, open) \cup {labels}
  BY <1>1, OwedPushed
<1>3. LoopsIn(o) = LoopsIn(open)
  <2>1. c.c \in Kinds /\ OwedOf(ret, c) \notin OwedIn(ret, open) /\ c.c # "while" /\ Nested(ret, labels, open)
    <3>1. labels \notin OwedIn(ret, open)
      BY DEF Sound, Lands
    <3>2. QED
      BY <3>1 DEF Kinds, Sound
  <2>2. LoopsIn(o) = LoopsIn(open) \cup {k \in {Len(open) + 1} : c.c = "while"}
    BY <2>1, Opening
  <2>3. {k \in {Len(open) + 1} : c.c = "while"} = {}
    BY <2>1
  <2>4. QED
    BY <2>2, <2>3
<1>4. \A k \in LoopsIn(open) : o[k] = open[k]
  BY <1>1, Pushed
<1>5. Fresh(code, labels)
  BY FreshReleased
<1> HIDE DEF o
<1>6. EntersPlaced(ret, o)
  <2>1. \A k \in LoopsIn(open) : open[k].enter # labels
    BY <1>1 DEF Sound, Lands
  <2>2. QED
    BY <1>2, <1>3, <1>4, <2>1 DEF Enclosed, EntersPlaced
<1>7. Enclosed(code, ret, o)
  <2>1. \A k \in LoopsIn(open) : \A p \in DOMAIN code : IsJump(code[p]) =>
           (code[p].target \in OwedFrom(ret, open, k) <=> code[p].target \in OwedFrom(ret, o, k))
    BY <1>1, <1>2, <1>5 DEF Fresh
  <2>2. QED
    BY <1>3, <1>4, <1>6, <2>1, OwedElsewhere
<1>8. JumpsWell(code, ret, o, labels)
  BY <1>1, <1>2, <1>3, <1>5 DEF JumpsWell, Fresh
<1>9. QED
  BY <1>3, <1>4, <1>7, <1>8 DEF o

(* What closing a construct that is no loop takes from the owed labels.    *)
LEMMA BranchTop ==
    ASSUME NEW code, NEW heads, NEW tails, NEW labels, NEW open, NEW ret,
           Sound(code, heads, tails, labels, open, ret), Enclosed(code, ret, open),
           open # <<>>, Last(open).c # "while",
           NEW n, n = OwedOf(ret, Last(open))
    PROVE  /\ LoopsIn(Front(open)) = LoopsIn(open)
           /\ \A k \in LoopsIn(open) :
                 /\ Front(open)[k] = open[k] /\ k \in 1 .. Len(Front(open))
                 /\ OwedFrom(ret, open, k) = OwedFrom(ret, Front(open), k) \cup {n}
                 /\ open[k].enter # n /\ open[k].exit # n
           /\ ~Placed(code, n) /\ IsSeq(Front(open)) /\ OwedIn(ret, Front(open)) \subseteq OwedIn(ret, open)
<1> DEFINE o == Front(open)
           l == Last(open)
           m == Len(open)
<1>1. /\ IsSeq(open) /\ m \in Nat
      /\ \A k \in LoopsIn(open) :
            /\ k \in 1 .. m /\ k \in Nat /\ k <= m
            /\ OwedOf(ret, open[k]) = open[k].exit
      /\ \A x, k \in 1 .. m : OwedOf(ret, open[x]) = OwedOf(ret, open[k]) => x = k
  BY LoopFacts
<1>2. /\ LoopsIn(o) = LoopsIn(open) \ {m} /\ \A k \in LoopsIn(o) : o[k] = open[k]
      /\ l = open[m] /\ m \in 1 .. m
  <2>1. Nested(ret, labels, open) /\ open # <<>>
    BY DEF Sound
  <2>2. QED
    BY ONLY <2>1, Closing
<1>3. OwedOf(ret, l) \in OwedIn(ret, open)
  <2>1. Nested(ret, labels, open) /\ open # <<>>
    BY DEF Sound
  <2>2. QED
    BY ONLY <2>1, Closing
<1>4. m \notin LoopsIn(open)
  <2> HIDE DEF m, l
  <2> QED
    BY <1>2 DEF LoopsIn, l
<1>5. IsSeq(o) /\ Len(o) = m - 1
  BY <1>1, Popped
<1>6. /\ \A k \in 1 .. m - 1 : OwedFrom(ret, open, k) = OwedFrom(ret, o, k) \cup {n}
      /\ OwedIn(ret, o) \subseteq OwedIn(ret, open)
  <2>1. \A k \in 1 .. m - 1 : OwedFrom(ret, open, k) = OwedFrom(ret, o, k) \cup {OwedOf(ret, l)}
    BY <1>1, OwedPopped
  <2>2. OwedIn(ret, o) \subseteq OwedIn(ret, open)
    BY <1>1, OwedPopped
  <2> HIDE DEF o, l, m
  <2>3. QED
    BY <2>1, <2>2 DEF l
<1>7. n = OwedOf(ret, open[m])
  BY <1>2
<1> HIDE DEF o, l, m
<1>8. \A k \in LoopsIn(open) : k \in LoopsIn(o) /\ k \in 1 .. m - 1 /\ k \in 1 .. Len(o)
  BY <1>1, <1>2, <1>4, <1>5
<1>9. \A k \in LoopsIn(open) : open[k].exit # n
  BY <1>1, <1>2, <1>4, <1>7
<1>10. n \in OwedIn(ret, open)
  BY <1>3 DEF l
<1>11. \A k \in LoopsIn(open) : open[k].enter # n
  BY <1>10 DEF Enclosed, EntersPlaced
<1>12. ~Placed(code, n)
  <2>1. Lands(code, labels, OwedIn(ret, open))
    BY DEF Sound
  <2>2. n \in 0 .. labels - 1
    BY <1>10, <2>1 DEF Lands
  <2>3. QED
    BY <1>10, <2>1, <2>2, PlacedFacts
<1>13. LoopsIn(o) = LoopsIn(open)
  BY <1>2, <1>4
<1>14. QED
  BY <1>2, <1>5, <1>6, <1>8, <1>9, <1>11, <1>12, <1>13 DEF o

LEMMA BranchCloses ==
    ASSUME NEW code, NEW heads, NEW tails, NEW labels, NEW open, NEW ret,
           Sound(code, heads, tails, labels, open, ret), Enclosed(code, ret, open),
           open # <<>>, Last(open).c # "while",
           NEW i, IsLabel(i), i.target = OwedOf(ret, Last(open))
    PROVE  Enclosed(code \o <<i>>, ret, Front(open))
<1> DEFINE o   == Front(open)
           n   == i.target
           now == code \o <<i>>
<1>1. n = OwedOf(ret, Last(open))
  OBVIOUS
<1>2. Extends(code, now, Len(code) + 1, i)
  BY LoopFacts, AppendExtends
<1> HIDE DEF o, now
<1>3. /\ LoopsIn(o) = LoopsIn(open)
      /\ \A k \in LoopsIn(open) :
            /\ o[k] = open[k] /\ OwedFrom(ret, open, k) = OwedFrom(ret, o, k) \cup {n}
            /\ open[k].enter # n /\ open[k].exit # n
      /\ ~Placed(code, n) /\ OwedIn(ret, o) \subseteq OwedIn(ret, open)
  BY <1>1, BranchTop DEF o
<1>4. EntersPlaced(ret, o)
  BY <1>3 DEF Enclosed, EntersPlaced
<1>5. Released(code, ret, open, o, n)
  BY <1>3, <1>4 DEF Released
<1>6. Enclosed(now, ret, o)
  BY <1>2, <1>3, <1>5, BranchEncloses
<1>7. QED
  BY <1>6 DEF now, o

(* The first branch ends, the second begins.                               *)
LEMMA BranchTurns ==
    ASSUME NEW code, NEW heads, NEW tails, NEW labels, NEW open, NEW ret,
           Sound(code, heads, tails, labels, open, ret), Enclosed(code, ret, open),
           open # <<>>, Last(open).c # "while",
           NEW j, IsJump(j), j.target = labels,
           NEW i, IsLabel(i), i.target = OwedOf(ret, Last(open)),
           NEW c, c.c = "else", OwedOf(ret, c) = labels
    PROVE  Enclosed((code \o <<j>>) \o <<i>>, ret, Append(Front(open), c))
<1> DEFINE f    == Front(open)
           o    == Append(f, c)
           both == Append(open, c)
           n    == i.target
           over == code \o <<j>>
           now  == over \o <<i>>
<1>1. n = OwedOf(ret, Last(open))
  OBVIOUS
<1>2. IsSeq(over) /\ Extends(code, over, Len(code) + 1, j)
  BY LoopFacts, AppendExtends
<1>3. Extends(over, now, Len(over) + 1, i)
  <2> HIDE DEF over
  <2> QED
    BY <1>2, AppendExtends
<1>4. /\ LoopsIn(f) = LoopsIn(open)
      /\ \A k \in LoopsIn(open) :
            /\ f[k] = open[k] /\ k \in 1 .. Len(f)
            /\ OwedFrom(ret, open, k) = OwedFrom(ret, f, k) \cup {n}
            /\ open[k].enter # n /\ open[k].exit # n
      /\ ~Placed(code, n) /\ IsSeq(f) /\ OwedIn(ret, f) \subseteq OwedIn(ret, open)
  <2> HIDE DEF n, f, o, both, over, now
  <2> QED
    BY <1>1, BranchTop DEF f
<1>5. /\ Enclosed(code, ret, both) /\ LoopsIn(both) = LoopsIn(open)
      /\ \A k \in LoopsIn(open) : both[k] = open[k]
      /\ JumpsWell(code, ret, both, labels)
  <2>1. c.c \in {"then", "else"}
    OBVIOUS
  <2> HIDE DEF f, o, n, over, now, both
  <2>2. Enclosed(code, ret, both)
    BY <2>1, BranchPushed DEF both
  <2>3. LoopsIn(both) = LoopsIn(open)
    BY <2>1, BranchPushed DEF both
  <2>4. \A k \in LoopsIn(open) : both[k] = open[k]
    <3>1. IsSeq(open)
      BY LoopFacts
    <3>2. \A k \in 1 .. Len(open) : both[k] = open[k]
      BY <3>1, Pushed DEF both
    <3>3. QED
      BY <3>2, LoopFacts
  <2>5. JumpsWell(code, ret, both, labels)
    BY <2>1, BranchPushed DEF both
  <2>6. QED
    BY <2>2, <2>3, <2>4, <2>5
<1>6. \A k \in LoopsIn(open) : OwedFrom(ret, both, k) = OwedFrom(ret, open, k) \cup {labels}
  <2>1. IsSeq(open)
    BY LoopFacts
  <2>2. \A k \in LoopsIn(open) : k \in 1 .. Len(open)
    BY LoopFacts
  <2> HIDE DEF f, o, n, over, now, both
  <2>3. \A k \in 1 .. Len(open) : OwedFrom(ret, both, k) = OwedFrom(ret, open, k) \cup {OwedOf(ret, c)}
    <3>1. \A k \in 1 .. Len(open) :
              OwedFrom(ret, Append(open, c), k) = OwedFrom(ret, open, k) \cup {OwedOf(ret, c)}
      BY <2>1, OwedPushed, SMTT(30)
    <3>2. QED
      BY <3>1 DEF both
  <2>4. OwedOf(ret, c) = labels
    OBVIOUS
  <2>5. QED
    BY ONLY <2>2, <2>3, <2>4
<1> HIDE DEF f, both, n, over, now
<1>7. /\ \A k \in LoopsIn(open) : OwedFrom(ret, o, k) = OwedFrom(ret, f, k) \cup {labels}
      /\ \A k \in LoopsIn(open) : o[k] = open[k]
      /\ OwedIn(ret, o) = OwedIn(ret, f) \cup {labels}
  <2>1. /\ \A k \in 1 .. Len(f) : OwedFrom(ret, o, k) = OwedFrom(ret, f, k) \cup {OwedOf(ret, c)}
        /\ OwedIn(ret, o) = OwedIn(ret, f) \cup {OwedOf(ret, c)}
    BY <1>4, OwedPushed
  <2>2. \A k \in 1 .. Len(f) : o[k] = f[k]
    BY <1>4, Pushed
  <2> HIDE DEF o
  <2>3. QED
    BY <1>4, <2>1, <2>2
<1>8. LoopsIn(o) = LoopsIn(open)
  <2>1. Len(f) \in Nat /\ DOMAIN f = 1 .. Len(f)
    BY <1>4, SequenceFacts
  <2>2. /\ IsSeq(o) /\ Len(o) = Len(f) + 1 /\ o[Len(f) + 1] = c
        /\ \A k \in 1 .. Len(f) : o[k] = f[k]
    BY <1>4, Pushed
  <2> HIDE DEF o
  <2>3. DOMAIN o = 1 .. Len(f) \cup {Len(f) + 1}
    <3>1. DOMAIN o = 1 .. Len(f) + 1
      BY <2>2, SequenceFacts
    <3>2. QED
      BY <2>1, <3>1
  <2>4. LoopsIn(o) = LoopsIn(f)
    BY <2>1, <2>2, <2>3 DEF LoopsIn
  <2>5. QED
    BY <1>4, <2>4
<1> HIDE DEF o
<1>9. Enclosed(over, ret, both)
  BY <1>2, <1>5, JumpEncloses
<1>10. EntersPlaced(ret, o)
  <2>1. \A k \in LoopsIn(open) : open[k].enter # labels
    BY FreshReleased
  <2>2. QED
    BY <1>4, <1>7, <1>8, <2>1 DEF Enclosed, EntersPlaced
<1>11. Released(over, ret, both, o, n)
  <2>1. ~Placed(over, n)
    <3>1. ~IsLabel(j)
      BY DEF IsJump, IsJmp, IsJmpCond, IsLabel
    <3>2. QED
      BY <1>2, <1>4, <3>1, ExtendedFacts
  <2>2. \A k \in LoopsIn(o) : OwedFrom(ret, both, k) = OwedFrom(ret, o, k) \cup {n}
    BY <1>4, <1>6, <1>7, <1>8
  <2>3. QED
    BY <1>4, <1>5, <1>7, <1>8, <1>10, <2>1, <2>2 DEF Released
<1>12. Enclosed(now, ret, o)
  <2>1. \A k \in LoopsIn(both) : both[k].exit # i.target
    BY <1>4, <1>5 DEF n
  <2>2. LoopsIn(o) = LoopsIn(both)
    BY <1>5, <1>8
  <2>3. Released(over, ret, both, o, i.target)
    BY <1>11 DEF n
  <2>4. QED
    BY <1>3, <1>9, <2>1, <2>2, <2>3, BranchEncloses
<1>13. QED
  BY <1>12 DEF now, over, o, f

-----------------------------------------------------------------------------
(* The loop that break and continue see is the innermost one.              *)
LEMMA LeastNatural ==
    ASSUME NEW S \in SUBSET Nat, S # {}
    PROVE  \E m \in S : \A k \in S : m <= k
<1> DEFINE R == OpToRel(<, Nat)
<1>1. IsWellFoundedOn(R, Nat)
  BY NatLessThanWellFounded
<1>2. PICK m \in S : \A k \in S : <<k, m>> \notin R
  <2> HIDE DEF R
  <2> QED
    BY <1>1, WFMin
<1>3. ASSUME NEW k \in S PROVE m <= k
  <2>1. k \in Nat /\ m \in Nat
    OBVIOUS
  <2>2. <<k, m>> \notin R
    BY <1>2
  <2>3. ~(k < m)
    BY <2>1, <2>2 DEF OpToRel
  <2>4. QED
    BY <2>1, <2>3
<1>4. QED
  BY <1>3

LEMMA InnermostLoop ==
    ASSUME NEW open, IsSeq(open), LoopsIn(open) # {}
    PROVE  \E m \in LoopsIn(open) :
              /\ \A k \in LoopsIn(open) : k \in Nat /\ m \in Nat /\ k <= m
              /\ RankIn(open, m) = Cardinality(LoopsIn(open))
<1> DEFINE L == LoopsIn(open)
           S == {Len(open) - k : k \in L}
<1>1. Len(open) \in Nat /\ L \subseteq 1 .. Len(open)
  BY LoopsCounted, SequenceFacts
<1>2. S \in SUBSET Nat /\ S # {}
  <2>1. \A k \in L : Len(open) - k \in Nat
    BY <1>1
  <2>2. QED
    BY <2>1
<1>3. PICK s \in S : \A t \in S : s <= t
  <2> HIDE DEF S
  <2> QED
    BY <1>2, LeastNatural
<1>4. PICK m \in L : s = Len(open) - m
  OBVIOUS
<1>5. \A k \in L : k \in Nat /\ m \in Nat /\ k <= m
  <2>1. \A k \in L : Len(open) - m <= Len(open) - k
    BY <1>3, <1>4
  <2>2. \A k \in L : k \in Nat
    BY <1>1
  <2>3. QED
    BY <1>1, <2>1, <2>2
<1>6. {j \in L : j <= m} = L
  BY <1>5
<1>7. RankIn(open, m) = Cardinality(L)
  BY <1>6 DEF RankIn
<1>8. QED
  BY <1>5, <1>7

LEMMA InnermostLink ==
    ASSUME NEW links, NEW labels, NEW open, NEW end, Follows(links, labels, open, end),
           IsSeq(open), Last(links) # NoLabel
    PROVE  \E m \in LoopsIn(open) :
              /\ \A k \in LoopsIn(open) : k \in Nat /\ m \in Nat /\ k <= m
              /\ Last(links) = open[m][end]
<1>1. Len(links) = 1 + Cardinality(LoopsIn(open)) /\ links[1] = NoLabel
      /\ \A k \in LoopsIn(open) : links[1 + RankIn(open, k)] = open[k][end]
  BY DEF Follows
<1>2. LoopsIn(open) # {}
  <2> SUFFICES ASSUME LoopsIn(open) = {} PROVE FALSE
    OBVIOUS
  <2>1. Len(links) = 1
    BY <1>1, FS_EmptySet
  <2>2. QED
    BY <1>1, <2>1 DEF Last
<1>3. PICK m \in LoopsIn(open) : /\ \A k \in LoopsIn(open) : k \in Nat /\ m \in Nat /\ k <= m
                                 /\ RankIn(open, m) = Cardinality(LoopsIn(open))
  BY <1>2, InnermostLoop
<1>4. Last(links) = open[m][end]
  BY <1>1, <1>3 DEF Last
<1>5. QED
  BY <1>3, <1>4

LEMMA OwedInside ==
    ASSUME NEW code, NEW heads, NEW tails, NEW labels, NEW open, NEW ret,
           Sound(code, heads, tails, labels, open, ret),
           NEW m \in LoopsIn(open), NEW k \in LoopsIn(open), k <= m
    PROVE  open[m].exit \in OwedFrom(ret, open, k)
<1>1. m \in DOMAIN open
  BY DEF LoopsIn
<1>2. open[m].exit = OwedOf(ret, open[m])
  BY LoopFacts
<1>3. QED
  BY <1>1, <1>2 DEF OwedFrom

LEMMA TwoByTwo ==
    ASSUME NEW code, IsSeq(code), NEW a, NEW b
    PROVE  (code \o <<a>>) \o <<b>> = code \o <<a, b>>
<1> DEFINE s == <<a>>
           t == <<b>>
<1>1. IsSeq(s) /\ IsSeq(t)
  BY OneOrTwo
<1>2. s \o t = <<a, b>>
  <2>1. s \in Seq({a, b}) /\ b \in {a, b}
    OBVIOUS
  <2>2. <<a, b>> = Append(s, b)
    OBVIOUS
  <2> HIDE DEF s
  <2>3. Append(s, b) = s \o <<b>>
    BY <2>1, AppendIsConcat
  <2>4. QED
    BY <2>2, <2>3
<1> HIDE DEF s, t
<1>3. (code \o s) \o t = code \o (s \o t)
  <2>1. IsSeq(code)
    OBVIOUS
  <2>2. QED
    BY ONLY <1>1, <2>1, Regrouped
<1>4. QED
  BY <1>2, <1>3 DEF s, t

-----------------------------------------------------------------------------
(* The statements, one by one.                                             *)
EnclosedGen(g) == Enclosed(g.code, g.ret, g.open)

LEMMA EnclosedIs ==
    ASSUME NEW g, NEW code, NEW heads, NEW tails, NEW labels, NEW open, NEW ret,
           IsGen(g, code, heads, tails, labels, open, ret), Enclosed(code, ret, open)
    PROVE  EnclosedGen(g)
BY DEF IsGen, EnclosedGen

LEMMA Unfolded ==
    ASSUME NEW g, GenInv(g), EnclosedGen(g)
    PROVE  /\ Sound(g.code, g.heads, g.tails, g.labels, g.open, g.ret)
           /\ Enclosed(g.code, g.ret, g.open)
           /\ IsGen(g, g.code, g.heads, g.tails, g.labels, g.open, g.ret)
           /\ IsSeq(g.code)
BY DEF GenInv, EnclosedGen, IsGen, Sound, Lands

LEMMA WhileHeadEnclosed ==
    ASSUME NEW g, GenInv(g), EnclosedGen(g), NEW s, Straight(s.eval)
    PROVE  EnclosedGen(WhileHead(g, s))
<1> DEFINE code  == g.code
           enter == g.labels
           exit  == g.labels + 1
           label == LabelInst(enter)
           jump  == Jump("jmp_false", Condition(s.cond), exit)
           first == <<label>>
           eval  == s.eval
           tests == <<jump>>
           is    == (first \o eval) \o tests
           c     == [c |-> "while", enter |-> enter, exit |-> exit]
           g1    == [g EXCEPT !.labels = @ + 2]
           g2    == PushLoop(g1, enter, exit)
           g3    == EmitAll(g2, is)
           now   == ((code \o first) \o eval) \o tests
<1>1. WhileHead(g, s) = Opened(g3, c)
  BY DEF WhileHead
<1>2. IsLabel(label) /\ label.target = enter /\ IsJump(jump) /\ jump.target = exit
  BY DEF LabelInst, Jump, Instr, IsLabel, IsJump, IsJmp, IsJmpCond
<1>3. c.c = "while" /\ c.enter = enter /\ c.exit = exit
  OBVIOUS
<1> HIDE DEF label, jump, c
<1>4. IsSeq(first) /\ IsSeq(tests) /\ IsSeq(eval) /\ \A x \in ToSet(eval) : ~IsLabel(x) /\ ~IsJump(x)
  BY OneOrTwo DEF Straight, IsSeq
<1>5. Enclosed(now, g.ret, Append(g.open, c))
  <2>1. /\ Sound(code, g.heads, g.tails, enter, g.open, g.ret)
        /\ Enclosed(code, g.ret, g.open)
    BY Unfolded
  <2>2. jump.target = enter + 1 /\ c.exit = enter + 1
    BY <1>2, <1>3
  <2> HIDE DEF code, enter, eval, exit
  <2>3. IsSeq(eval) /\ \A x \in ToSet(eval) : ~IsLabel(x) /\ ~IsJump(x)
    BY <1>4
  <2>4. Enclosed(((code \o <<label>>) \o eval) \o <<jump>>, g.ret, Append(g.open, c))
    BY <1>2, <1>3, <2>1, <2>2, <2>3, LoopOpens
  <2>5. QED
    BY <2>4
<1>6. now = code \o is
  <2>1. IsSeq(code) /\ IsSeq(first) /\ IsSeq(eval) /\ IsSeq(tests)
    BY <1>4, Unfolded
  <2> HIDE DEF code, first, eval, tests
  <2> DEFINE head == first \o eval
  <2>2. IsSeq(head)
    BY ONLY <2>1, Joined
  <2>3. (code \o first) \o eval = code \o head
    BY ONLY <2>1, Regrouped, SMTT(30)
  <2> HIDE DEF head
  <2>4. (code \o head) \o tests = code \o (head \o tests)
    BY ONLY <2>1, <2>2, Regrouped, SMTT(30)
  <2>5. QED
    BY ONLY <2>3, <2>4 DEF head
<1>7. IsGen(Opened(g3, c), code \o is, Append(g.heads, enter), Append(g.tails, exit), g.labels + 2,
            Append(g.open, c), g.ret)
  <2>1. IsGen(g, code, g.heads, g.tails, g.labels, g.open, g.ret)
    BY Unfolded
  <2> HIDE DEF g1, g2, g3, is, code, enter, exit
  <2>2. IsGen(g1, code, g.heads, g.tails, g.labels + 2, g.open, g.ret)
    BY <2>1, Updates DEF g1
  <2>3. IsGen(g2, code, Append(g.heads, enter), Append(g.tails, exit), g.labels + 2, g.open, g.ret)
    BY <2>2, Updates DEF g2
  <2>4. IsGen(g3, code \o is, Append(g.heads, enter), Append(g.tails, exit), g.labels + 2, g.open, g.ret)
    BY <2>3, Updates DEF g3
  <2>5. QED
    BY <2>4, Updates
<1> HIDE DEF g3, is, now, code
<1>8. QED
  BY <1>1, <1>5, <1>6, <1>7, EnclosedIs

LEMMA WhileTailEnclosed ==
    ASSUME NEW g, GenInv(g), EnclosedGen(g), g.open # <<>>, Innermost(g).c = "while"
    PROVE  EnclosedGen(WhileTail(g))
<1> DEFINE code  == g.code
           open  == g.open
           w     == Last(open)
           jump  == Jump("jmp", NoOperand, w.enter)
           label == LabelInst(w.exit)
           is    == <<jump, label>>
           g1    == EmitAll(g, is)
           g2    == PopLoop(g1)
           now   == (code \o <<jump>>) \o <<label>>
<1>1. WhileTail(g) = Closed(g2)
  BY DEF WhileTail, Innermost
<1>2. open # <<>> /\ w.c = "while"
  BY DEF Innermost
<1>3. IsLabel(label) /\ label.target = w.exit /\ IsJump(jump) /\ jump.target = w.enter
  BY DEF LabelInst, Jump, Instr, IsLabel, IsJump, IsJmp, IsJmpCond
<1> HIDE DEF jump, label
<1>4. Enclosed(now, g.ret, Front(open))
  <2>1. /\ Sound(code, g.heads, g.tails, g.labels, open, g.ret)
        /\ Enclosed(code, g.ret, open)
    BY Unfolded
  <2> HIDE DEF code, open
  <2>2. QED
    BY <1>2, <1>3, <2>1, LoopCloses
<1>5. now = code \o is
  BY Unfolded, TwoByTwo
<1>6. IsGen(Closed(g2), code \o is, Front(g.heads), Front(g.tails), g.labels, Front(open), g.ret)
  <2>1. IsGen(g, code, g.heads, g.tails, g.labels, open, g.ret)
    BY Unfolded
  <2> HIDE DEF g1, g2, is, code, open
  <2>2. IsGen(g1, code \o is, g.heads, g.tails, g.labels, open, g.ret)
    BY <2>1, Updates DEF g1
  <2>3. IsGen(g2, code \o is, Front(g.heads), Front(g.tails), g.labels, open, g.ret)
    BY <2>2, Updates DEF g2
  <2>4. QED
    BY <2>3, Updates
<1> HIDE DEF g2, is, now, code, open
<1>7. QED
  BY <1>1, <1>4, <1>5, <1>6, EnclosedIs

LEMMA IfHeadEnclosed ==
    ASSUME NEW g, GenInv(g), EnclosedGen(g), NEW s, Straight(s.eval)
    PROVE  EnclosedGen(IfHead(g, s))
<1> DEFINE code  == g.code
           other == g.labels
           open  == g.open
           jump  == Jump("jmp_false", s.cond, other)
           eval  == s.eval
           last  == <<jump>>
           is    == eval \o last
           c     == [c |-> "then", other |-> other]
           g1    == [g EXCEPT !.labels = @ + 1]
           g2    == EmitAll(g1, is)
           o     == Append(open, c)
           pad   == code \o eval
           now   == pad \o last
<1>1. IfHead(g, s) = Opened(g2, c)
  BY DEF IfHead
<1>2. IsJump(jump) /\ jump.target = other
  BY DEF Jump, Instr, IsJump, IsJmpCond
<1>3. c.c \in {"then", "else"} /\ OwedOf(g.ret, c) = other
  BY DEF OwedOf
<1> HIDE DEF jump, c
<1>4. /\ IsSeq(last) /\ IsSeq(eval) /\ \A x \in ToSet(eval) : ~IsLabel(x) /\ ~IsJump(x)
  BY OneOrTwo DEF Straight, IsSeq
<1>5. /\ Sound(code, g.heads, g.tails, other, open, g.ret) /\ Enclosed(code, g.ret, open)
      /\ IsSeq(code) /\ IsGen(g, code, g.heads, g.tails, other, open, g.ret)
  BY Unfolded
<1>6. IsGen(Opened(g2, c), code \o is, g.heads, g.tails, other + 1, o, g.ret)
  <2> HIDE DEF g2, is, code, open, other
  <2>1. IsGen(g1, code, g.heads, g.tails, other + 1, open, g.ret)
    BY <1>5, Updates
  <2> HIDE DEF g1
  <2>2. IsGen(g2, code \o is, g.heads, g.tails, other + 1, open, g.ret)
    BY <2>1, Updates DEF g2
  <2>3. QED
    BY <2>2, Updates
<1> HIDE DEF code, open, other, eval, g2
<1>7. Enclosed(code, g.ret, o)
  BY <1>3, <1>5, BranchPushed
<1>8. JumpsWell(code, g.ret, o, other)
  BY <1>3, <1>5, BranchPushed
<1>9. IsSeq(pad) /\ Padded(code, pad)
  BY <1>4, <1>5, QuietPads
<1> HIDE DEF o, pad
<1>10. Enclosed(pad, g.ret, o)
  BY <1>7, <1>9, PaddingEncloses
<1>11. JumpsWell(pad, g.ret, o, other)
  <2>1. \A n : Placed(pad, n) <=> Placed(code, n)
    BY <1>9, PaddedFacts
  <2>2. QED
    BY <1>8, <2>1 DEF JumpsWell
<1>12. Enclosed(now, g.ret, o)
  <2>1. Extends(pad, now, Len(pad) + 1, jump)
    BY <1>9, AppendExtends
  <2> HIDE DEF now
  <2>2. QED
    BY <1>2, <1>10, <1>11, <2>1, JumpEncloses
<1>13. now = code \o is
  <2> HIDE DEF last
  <2>1. QED
    BY <1>4, <1>5, Regrouped DEF pad
<1> HIDE DEF now, is
<1>14. QED
  BY <1>1, <1>6, <1>12, <1>13, EnclosedIs

LEMMA ElseHeadEnclosed ==
    ASSUME NEW g, GenInv(g), EnclosedGen(g), g.open # <<>>, Innermost(g).c = "then"
    PROVE  EnclosedGen(ElseHead(g))
<1> DEFINE code  == g.code
           exit  == g.labels
           open  == g.open
           b     == Last(open)
           jump  == Jump("jmp", NoOperand, exit)
           label == LabelInst(b.other)
           is    == <<jump, label>>
           c     == [c |-> "else", exit |-> exit]
           g1    == [g EXCEPT !.labels = @ + 1]
           g2    == EmitAll(g1, is)
           g3    == Closed(g2)
           now   == (code \o <<jump>>) \o <<label>>
<1>1. ElseHead(g) = Opened(g3, c)
  BY DEF ElseHead, Innermost
<1>2. open # <<>> /\ b.c # "while" /\ OwedOf(g.ret, b) = b.other
  BY DEF Innermost, OwedOf
<1>3. c.c = "else" /\ OwedOf(g.ret, c) = exit
  BY DEF OwedOf
<1>4. IsLabel(label) /\ label.target = b.other /\ IsJump(jump) /\ jump.target = exit
  BY DEF LabelInst, Jump, Instr, IsLabel, IsJump, IsJmp, IsJmpCond
<1> HIDE DEF jump, label, c
<1>5. /\ Sound(code, g.heads, g.tails, exit, open, g.ret) /\ Enclosed(code, g.ret, open)
      /\ IsSeq(code) /\ IsGen(g, code, g.heads, g.tails, exit, open, g.ret)
  BY Unfolded
<1>6. Enclosed(now, g.ret, Append(Front(open), c))
  <2>1. label.target = OwedOf(g.ret, Last(open))
    BY <1>2, <1>4
  <2> HIDE DEF code, open, exit
  <2>2. QED
    BY <1>2, <1>3, <1>4, <1>5, <2>1, BranchTurns
<1>7. now = code \o is
  BY <1>5, TwoByTwo
<1>8. IsGen(Opened(g3, c), code \o is, g.heads, g.tails, exit + 1, Append(Front(open), c), g.ret)
  <2> HIDE DEF g2, g3, is, code, open, exit
  <2>1. IsGen(g1, code, g.heads, g.tails, exit + 1, open, g.ret)
    BY <1>5, Updates
  <2> HIDE DEF g1
  <2>2. IsGen(g2, code \o is, g.heads, g.tails, exit + 1, open, g.ret)
    BY <2>1, Updates DEF g2
  <2>3. IsGen(g3, code \o is, g.heads, g.tails, exit + 1, Front(open), g.ret)
    BY <2>2, Updates DEF g3
  <2>4. QED
    BY <2>3, Updates
<1> HIDE DEF g3, is, now, code, open
<1>9. QED
  BY <1>1, <1>6, <1>7, <1>8, EnclosedIs

LEMMA ElseTailEnclosed ==
    ASSUME NEW g, GenInv(g), EnclosedGen(g), g.open # <<>>, Innermost(g).c = "else"
    PROVE  EnclosedGen(ElseTail(g))
<1> DEFINE code  == g.code
           open  == g.open
           b     == Last(open)
           label == LabelInst(b.exit)
           is    == <<label>>
           g1    == EmitAll(g, is)
<1>1. ElseTail(g) = Closed(g1)
  BY DEF ElseTail, Emit, Innermost
<1>2. open # <<>> /\ b.c # "while" /\ OwedOf(g.ret, b) = b.exit
  BY DEF Innermost, OwedOf
<1>3. IsLabel(label) /\ label.target = b.exit
  BY DEF LabelInst, Instr, IsLabel
<1> HIDE DEF label
<1>4. /\ Sound(code, g.heads, g.tails, g.labels, open, g.ret) /\ Enclosed(code, g.ret, open)
      /\ IsGen(g, code, g.heads, g.tails, g.labels, open, g.ret)
  BY Unfolded
<1> HIDE DEF code, open, g1
<1>5. Enclosed(code \o is, g.ret, Front(open))
  BY <1>2, <1>3, <1>4, BranchCloses
<1> HIDE DEF is
<1>6. IsGen(Closed(g1), code \o is, g.heads, g.tails, g.labels, Front(open), g.ret)
  <2>1. IsGen(g1, code \o is, g.heads, g.tails, g.labels, open, g.ret)
    BY <1>4, Updates DEF g1
  <2>2. QED
    BY <2>1, Updates
<1>7. QED
  BY <1>1, <1>5, <1>6, EnclosedIs

LEMMA FunctionTailEnclosed ==
    ASSUME NEW g, GenInv(g), EnclosedGen(g), g.open # <<>>, Innermost(g).c = "body"
    PROVE  EnclosedGen(Closed(FunctionTail(g)))
<1> DEFINE code  == g.code
           open  == g.open
           label == LabelInst(g.ret)
           leave == Plain("exit")
           first == <<label>>
           last  == <<leave>>
           is    == <<label, leave>>
           g1    == EmitAll(g, is)
           at    == code \o first
           now   == at \o last
<1>1. FunctionTail(g) = g1
  BY DEF FunctionTail
<1>2. open # <<>> /\ Last(open).c # "while" /\ OwedOf(g.ret, Last(open)) = g.ret
  BY DEF Innermost, OwedOf
<1>3. IsLabel(label) /\ label.target = g.ret /\ ~IsLabel(leave) /\ ~IsJump(leave)
  BY DEF LabelInst, Plain, Instr, IsLabel, IsJump, IsJmp, IsJmpCond
<1> HIDE DEF label, leave
<1>4. /\ Sound(code, g.heads, g.tails, g.labels, open, g.ret) /\ Enclosed(code, g.ret, open)
      /\ IsSeq(code) /\ IsGen(g, code, g.heads, g.tails, g.labels, open, g.ret)
  BY Unfolded
<1>5. now = code \o is
  BY <1>4, TwoByTwo
<1>6. IsSeq(last) /\ \A x \in ToSet(last) : ~IsLabel(x) /\ ~IsJump(x)
  <2>1. \A x : IsSeq(<<x>>) /\ ToSet(<<x>>) = {x}
    BY OneOrTwo
  <2>2. IsSeq(last) /\ ToSet(last) = {leave}
    BY ONLY <2>1
  <2>3. QED
    BY <1>3, <2>2
<1>7. IsSeq(at)
  BY <1>4, AppendExtends
<1> HIDE DEF code, open, g1
<1>8. Enclosed(at, g.ret, Front(open))
  BY <1>2, <1>3, <1>4, BranchCloses
<1> HIDE DEF at, last
<1>9. Enclosed(now, g.ret, Front(open))
  BY <1>6, <1>7, <1>8, QuietPads, PaddingEncloses
<1> HIDE DEF is, now
<1>10. IsGen(Closed(g1), code \o is, g.heads, g.tails, g.labels, Front(open), g.ret)
  <2>1. IsGen(g1, code \o is, g.heads, g.tails, g.labels, open, g.ret)
    BY <1>4, Updates DEF g1
  <2>2. QED
    BY <2>1, Updates
<1>11. QED
  BY <1>1, <1>5, <1>9, <1>10, EnclosedIs

(* Code without labels and jumps; a return is no jump.                     *)
LEMMA QuietEnclosed ==
    ASSUME NEW g, GenInv(g), EnclosedGen(g), NEW is, IsSeq(is),
           \A x \in ToSet(is) : ~IsLabel(x) /\ ~IsJump(x)
    PROVE  EnclosedGen(EmitAll(g, is))
<1>1. Enclosed(g.code, g.ret, g.open) /\ IsSeq(g.code)
      /\ IsGen(g, g.code, g.heads, g.tails, g.labels, g.open, g.ret)
  BY Unfolded
<1>2. Padded(g.code, g.code \o is)
  BY <1>1, QuietPads
<1>3. Enclosed(g.code \o is, g.ret, g.open)
  BY <1>1, <1>2, PaddingEncloses
<1>4. IsGen(EmitAll(g, is), g.code \o is, g.heads, g.tails, g.labels, g.open, g.ret)
  BY <1>1, Updates
<1>5. QED
  BY <1>3, <1>4, EnclosedIs

LEMMA ReturnEnclosed ==
    ASSUME NEW g, GenInv(g), EnclosedGen(g), NEW s
    PROVE  EnclosedGen(ReturnTo(g, s))
<1> DEFINE r == Jump("return", NoOperand, g.ret)
           v == Jump("return_val", s.val, g.ret)
<1>1. ~IsLabel(r) /\ ~IsJump(r) /\ ~IsLabel(v) /\ ~IsJump(v)
  BY DEF Jump, Instr, IsLabel, IsJump, IsJmp, IsJmpCond
<1>2. ReturnTo(g, s) = EmitAll(g, <<r>>) \/ ReturnTo(g, s) = EmitAll(g, <<v>>)
  BY DEF ReturnTo, Emit
<1> HIDE DEF r, v
<1>3. \A x : IsSeq(<<x>>) /\ ToSet(<<x>>) = {x}
  BY OneOrTwo
<1>4. EnclosedGen(EmitAll(g, <<r>>))
  BY <1>1, <1>3, QuietEnclosed
<1>5. EnclosedGen(EmitAll(g, <<v>>))
  BY <1>1, <1>3, QuietEnclosed
<1>6. QED
  BY <1>2, <1>4, <1>5

LEMMA JumpOrErrorEnclosed ==
    ASSUME NEW g, GenInv(g), EnclosedGen(g), NEW n,
           n # NoLabel => JumpsWell(g.code, g.ret, g.open, n)
    PROVE  EnclosedGen(JumpOrError(g, n))
<1>1. Enclosed(g.code, g.ret, g.open) /\ IsSeq(g.code)
      /\ IsGen(g, g.code, g.heads, g.tails, g.labels, g.open, g.ret)
  BY Unfolded
<1>2. CASE n = NoLabel
  <2> DEFINE h == [g EXCEPT !.errors = @ + 1]
  <2>1. IsGen(h, g.code, g.heads, g.tails, g.labels, g.open, g.ret)
    BY <1>1, Updates
  <2>2. JumpOrError(g, n) = h
    BY <1>2 DEF JumpOrError
  <2> HIDE DEF h
  <2>3. QED
    BY <1>1, <2>1, <2>2, EnclosedIs
<1>3. CASE n # NoLabel
  <2> DEFINE j   == Jump("jmp", NoOperand, n)
             js  == <<j>>
             now == g.code \o js
  <2>1. IsJump(j) /\ j.target = n
    BY DEF Jump, Instr, IsJump, IsJmp
  <2> HIDE DEF j
  <2>2. Extends(g.code, now, Len(g.code) + 1, j)
    BY <1>1, AppendExtends
  <2> HIDE DEF now
  <2>3. Enclosed(now, g.ret, g.open)
    BY <1>1, <1>3, <2>1, <2>2, JumpEncloses
  <2>4. JumpOrError(g, n) = EmitAll(g, js)
    BY <1>3 DEF JumpOrError, Emit, j
  <2> HIDE DEF js
  <2>5. IsGen(EmitAll(g, js), now, g.heads, g.tails, g.labels, g.open, g.ret)
    BY <1>1, Updates DEF now
  <2>6. QED
    BY <2>3, <2>4, <2>5, EnclosedIs
<1>4. QED
  BY <1>2, <1>3

LEMMA BreakContinueEnclosed ==
    ASSUME NEW g, GenInv(g), EnclosedGen(g)
    PROVE  EnclosedGen(BreakTo(g)) /\ EnclosedGen(ContinueTo(g))
<1> DEFINE code == g.code
           open == g.open
           ret  == g.ret
<1>1. /\ Sound(code, g.heads, g.tails, g.labels, open, ret) /\ Enclosed(code, ret, open)
  BY Unfolded
<1> HIDE DEF code, open, ret
<1>2. /\ IsSeq(open) /\ Lands(code, g.labels, OwedIn(ret, open))
      /\ Follows(g.heads, g.labels, open, "enter") /\ Follows(g.tails, g.labels, open, "exit")
  BY <1>1 DEF Sound, Nested
<1>3. \A k \in LoopsIn(open) :
         /\ open[k].enter \in 0 .. g.labels - 1 /\ open[k].exit \in 0 .. g.labels - 1
         /\ open[k].exit \in OwedIn(ret, open)
         /\ open[k].exit = open[k].enter + 1 /\ open[k].enter \notin OwedIn(ret, open)
  BY <1>1, LoopFacts DEF Enclosed, EntersPlaced
<1>4. \A n \in 0 .. g.labels - 1 : Placed(code, n) <=> n \notin OwedIn(ret, open)
  BY <1>2, PlacedFacts
<1>5. ASSUME Last(g.heads) # NoLabel PROVE JumpsWell(code, ret, open, Last(g.heads))
  <2>1. PICK m \in LoopsIn(open) :
            /\ \A k \in LoopsIn(open) : k \in Nat /\ m \in Nat /\ k <= m
            /\ Last(g.heads) = open[m]["enter"]
    BY <1>2, <1>5, InnermostLink
  <2>2. QED
    BY <1>3, <1>4, <2>1 DEF JumpsWell
<1>6. ASSUME Last(g.tails) # NoLabel PROVE JumpsWell(code, ret, open, Last(g.tails))
  <2>1. PICK m \in LoopsIn(open) :
            /\ \A k \in LoopsIn(open) : k \in Nat /\ m \in Nat /\ k <= m
            /\ Last(g.tails) = open[m]["exit"]
    BY <1>2, <1>6, InnermostLink
  <2>2. ~Placed(code, open[m].exit)
    BY <1>3, <1>4
  <2>3. \A k \in LoopsIn(open) : open[m].exit \in OwedFrom(ret, open, k)
    BY <1>1, <2>1, OwedInside
  <2>4. QED
    BY <2>1, <2>2, <2>3 DEF JumpsWell
<1>7. QED
  BY <1>5, <1>6, JumpOrErrorEnclosed DEF BreakTo, ContinueTo, code, open, ret

LEMMA SimpleEnclosed ==
    ASSUME NEW g, GenInv(g), EnclosedGen(g), NEW is, Straight(is)
    PROVE  EnclosedGen(EmitAll(g, is))
<1>1. IsSeq(is) /\ \A x \in ToSet(is) : ~IsLabel(x) /\ ~IsJump(x)
  BY DEF Straight, IsSeq
<1>2. QED
  BY <1>1, QuietEnclosed

-----------------------------------------------------------------------------
(* The body before its first statement, and every statement after it.      *)
EnclosedInv == LoweringInv /\ EnclosedGen(gen)

LEMMA EnclosedAtFirst == Init => EnclosedInv
<1> SUFFICES ASSUME Init PROVE EnclosedInv
  OBVIOUS
<1> DEFINE enter == Plain("enter")
           code  == <<enter>>
           b     == [c |-> "body"]
           open  == <<b>>
<1>1. gen.code = code /\ gen.open = open /\ gen.ret = 0
  BY DEF Init, FunctionHead
<1>2. ~IsLabel(enter) /\ ~IsJump(enter) /\ b.c # "while"
  BY DEF Plain, Instr, IsLabel, IsJump, IsJmp, IsJmpCond
<1> HIDE DEF enter, b
<1>3. /\ IsSeq(code) /\ ToSet(code) = {enter} /\ IsSeq(open) /\ ToSet(open) = {b}
  BY OneOrTwo
<1> HIDE DEF code, open
<1>4. \A p \in DOMAIN code : ~IsLabel(code[p]) /\ ~IsJump(code[p])
  BY <1>2, <1>3, SequenceFacts
<1>5. LoopsIn(open) = {}
  <2>1. \A k \in DOMAIN open : open[k] = b
    BY <1>3, SequenceFacts
  <2>2. QED
    BY <1>2, <2>1 DEF LoopsIn
<1>6. Enclosed(code, 0, open)
  <2>1. Uncrossed(code)
    BY <1>4 DEF Uncrossed
  <2>2. JumpsInside(code, 0, open) /\ EntersOutside(code, open) /\ EntersAscend(code, open)
        /\ EntersPlaced(0, open)
    BY <1>5 DEF JumpsInside, EntersOutside, EntersAscend, EntersPlaced
  <2>3. BackToLoops(code, open)
    BY <1>4 DEF BackToLoops, Arrives
  <2>4. QED
    BY <2>1, <2>2, <2>3 DEF Enclosed
<1>7. QED
  BY <1>1, <1>6, Started DEF EnclosedInv, EnclosedGen

LEMMA EnclosedOnward ==
    ASSUME EnclosedInv, [Next]_vars PROVE EnclosedInv'
<1> SUFFICES EnclosedGen(gen')
  BY Stepped DEF EnclosedInv
<1>0. LoweringInv /\ EnclosedGen(gen)
  BY DEF EnclosedInv
<1>1. CASE UNCHANGED vars
  BY <1>0, <1>1 DEF vars
<1>2. CASE while_statement
  BY <1>0, <1>2, StatementRead, WhileHeadEnclosed DEF while_statement
<1>3. CASE while_end
  BY <1>0, <1>3, StatementRead, WhileTailEnclosed DEF while_end, Closes
<1>4. CASE if_statement
  BY <1>0, <1>4, StatementRead, IfHeadEnclosed DEF if_statement
<1>5. CASE else_statement
  BY <1>0, <1>5, StatementRead, ElseHeadEnclosed DEF else_statement
<1>6. CASE if_end_without_else
  <2>1. GenInv(gen) /\ gen.open # <<>> /\ Innermost(gen).c = "then"
        /\ gen' = ElseTail(ElseHead(gen))
    BY <1>0, <1>6, StatementRead DEF if_end_without_else, Closes
  <2> DEFINE h == ElseHead(gen)
  <2>2. GenInv(h) /\ h.open # <<>> /\ Innermost(h).c = "else"
    BY <2>1, ElseHeadSound
  <2>3. EnclosedGen(h)
    BY <1>0, <2>1, ElseHeadEnclosed
  <2> HIDE DEF h
  <2>4. EnclosedGen(ElseTail(h))
    BY <2>2, <2>3, ElseTailEnclosed
  <2>5. QED
    BY <2>1, <2>4 DEF h
<1>7. CASE else_end
  BY <1>0, <1>7, StatementRead, ElseTailEnclosed DEF else_end, Closes
<1>8. CASE break_statement
  BY <1>0, <1>8, StatementRead, BreakContinueEnclosed DEF break_statement
<1>9. CASE continue_statement
  BY <1>0, <1>9, StatementRead, BreakContinueEnclosed DEF continue_statement
<1>10. CASE return_statement
  BY <1>0, <1>10, StatementRead, ReturnEnclosed DEF return_statement
<1>11. CASE simple_statement
  BY <1>0, <1>11, StatementRead, SimpleEnclosed DEF simple_statement
<1>12. CASE function_end
  BY <1>0, <1>12, StatementRead, FunctionTailEnclosed DEF function_end, Closes
<1>13. QED
  BY <1>1, <1>2, <1>3, <1>4, <1>5, <1>6, <1>7, <1>8, <1>9, <1>10, <1>11, <1>12 DEF Next

LEMMA EnclosedInvariant == Spec => []EnclosedInv
BY EnclosedAtFirst, EnclosedOnward, PTL DEF Spec

(* At the end nothing is owed: a label has one place, and who goes to the  *)
(* label arrives there.                                                    *)
LEMMA OnePlace ==
    ASSUME NEW code, NEW labels, Lands(code, labels, {}), NEW n \in 0 .. labels - 1
    PROVE  /\ PlaceOf(code, n) \in DOMAIN code
           /\ IsLabel(code[PlaceOf(code, n)]) /\ code[PlaceOf(code, n)].target = n
           /\ \A q \in DOMAIN code : IsLabel(code[q]) /\ code[q].target = n => q = PlaceOf(code, n)
<1>1. PICK p : Places(code, n) = {p}
  BY DEF Lands
<1>2. PlaceOf(code, n) = p
  BY <1>1 DEF PlaceOf
<1>3. QED
  BY <1>1, <1>2 DEF Places

LEMMA CrossedInvariant == EnclosedInv => NoJumpCrossesALoop
<1> SUFFICES ASSUME EnclosedInv, Finished,
                    NEW p \in DOMAIN gen.code, NEW r \in LoopRegions, IsJump(gen.code[p])
             PROVE  p \in r[1] .. r[2] <=> PlaceOf(gen.code, gen.code[p].target) \in r[1] .. r[2]
  BY DEF NoJumpCrossesALoop
<1> DEFINE code   == gen.code
           labels == gen.labels
<1>1. IsSeq(code) /\ labels \in Nat /\ Lands(code, labels, {}) /\ Uncrossed(code)
  <2>1. /\ Sound(code, gen.heads, gen.tails, labels, gen.open, gen.ret)
        /\ Enclosed(code, gen.ret, gen.open)
    BY Unfolded DEF EnclosedInv, LoweringInv
  <2>2. OwedIn(gen.ret, gen.open) = {}
    <3>1. DOMAIN gen.open = {}
      BY EmptySeq, OneOrTwo, SequenceFacts DEF Finished
    <3>2. QED
      BY <3>1 DEF OwedIn
  <2>3. Lands(code, labels, {})
    BY <2>1, <2>2 DEF Sound
  <2>4. QED
    BY <2>1, <2>3 DEF Lands, Enclosed
<1>2. PICK m \in 1 .. labels - 2 :
          /\ r = <<PlaceOf(code, m), PlaceOf(code, m + 1)>>
          /\ \E k \in DOMAIN code : IsJmp(code[k]) /\ code[k].target = m /\ PlaceOf(code, m) < k
  BY DEF LoopRegions
<1> DEFINE a == PlaceOf(code, m)
           z == PlaceOf(code, m + 1)
           n == code[p].target
           at == PlaceOf(code, n)
<1>3. m \in 0 .. labels - 1 /\ m + 1 \in 0 .. labels - 1
  BY <1>1
<1>4. n \in 0 .. labels - 1
  BY <1>1, SequenceFacts DEF Lands, Targeted
<1> HIDE DEF code, labels
<1>5. a \in DOMAIN code /\ IsLabel(code[a]) /\ code[a].target = m
  BY <1>1, <1>3, OnePlace
<1>6. z \in DOMAIN code /\ IsLabel(code[z]) /\ code[z].target = m + 1
  BY <1>1, <1>3, OnePlace
<1>7. /\ at \in DOMAIN code /\ IsLabel(code[at]) /\ code[at].target = n
      /\ \A q \in DOMAIN code : IsLabel(code[q]) /\ code[q].target = n => q = at
  BY <1>1, <1>4, OnePlace
<1>8. p \in DOMAIN code /\ IsJump(code[p])
  BY DEF code
<1> HIDE DEF a, z, at, n
<1>9. r[1] = a /\ r[2] = z
  BY <1>2 DEF a, z
<1>10. FinishedLoop(code, a, z)
  <2>1. PICK k \in DOMAIN code : IsJmp(code[k]) /\ code[k].target = m /\ a < k
    BY <1>2 DEF a
  <2>2. Arrives(code, k, a)
    BY <1>5, <2>1 DEF Arrives, IsJump
  <2>3. QED
    BY <1>5, <1>6, <2>1, <2>2 DEF FinishedLoop
<1>11. p \in a .. z <=> \E q \in DOMAIN code : q \in a .. z /\ Arrives(code, p, q)
  BY <1>1, <1>5, <1>6, <1>8, <1>10 DEF Uncrossed
<1>12. \A q \in DOMAIN code : Arrives(code, p, q) <=> q = at
  BY <1>7, <1>8 DEF Arrives, n
<1>13. p \in a .. z <=> at \in a .. z
  BY <1>7, <1>11, <1>12
<1>14. QED
  BY <1>9, <1>13 DEF at, n, code

(* No jump, not even a break or a continue, goes into or out of a loop     *)
(* otherwise than through its entry and its exit.                          *)
THEOREM NoLoopIsCrossed == Spec => []NoJumpCrossesALoop
BY EnclosedInvariant, CrossedInvariant, PTL
=============================================================================
