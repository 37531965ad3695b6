----------------------------- MODULE LexerProofs -----------------------------
(***************************************************************************)
(* For every text and every size of the buffer: the lexer sees the         *)
(* characters of the text one after the other, as if there were no buffer, *)
(* and the line it gives a token or an error is the one the text has.      *)
(***************************************************************************)
EXTENDS Lexer, FiniteSetTheorems, SequenceTheorems, TLAPS

-----------------------------------------------------------------------------
(* The scanner at a place of the text, and at its end.  A line is counted  *)
(* two characters late.                                                    *)
Symbols == {text[k] : k \in DOMAIN text} \cup {EOF, ""}

Scanners == [file : BOOLEAN, read : Nat, buffer : Seq(Symbols), position : Nat,
             line : Nat, last : Symbols, char : Symbols]

NewlinesTo(n) == {i \in 1 .. n : text[i] = Newline}

IsWindow(s) == \* the buffer holds the text up to read
    /\ s.read \in 0 .. Len(text)
    /\ Len(s.buffer) <= BufferSize /\ Len(s.buffer) <= s.read
    /\ s.position \in 0 .. Len(s.buffer)
    /\ \A k \in 1 .. Len(s.buffer) : s.buffer[k] = text[s.read - Len(s.buffer) + k]

StandsAt(s, p) ==
    /\ s.char = IF p = 0 THEN "" ELSE text[p]
    /\ s.last = IF p <= 1 THEN "" ELSE text[p - 1]
    /\ s.line = 1 + Cardinality(NewlinesTo(p - 2))

Runs(s) == s \in Scanners /\ s.file /\ IsWindow(s) /\ StandsAt(s, Place(s))

Closed(s) ==
    /\ s \in Scanners /\ ~s.file
    /\ s.position \in 0 .. Len(s.buffer) /\ Len(s.buffer) <= BufferSize
    /\ s.char = EOF /\ s.line = 1 + Cardinality(NewlinesTo(Len(text) - 2))

Scanned(s) == (Runs(s) /\ Place(s) >= 1) \/ Closed(s)

LEMMA TextFacts ==
    ASSUME text \in Texts
    PROVE  /\ text \in Seq(Symbols) /\ Len(text) \in Nat /\ DOMAIN text = 1 .. Len(text)
           /\ \A i \in 1 .. Len(text) : text[i] \in Symbols /\ text[i] # EOF
<1> DEFINE S == {text[k] : k \in DOMAIN text} \ {EOF}
<1>1. text \in Seq(S)
  BY TextsAssumption
<1>2. S \subseteq Symbols /\ EOF \notin S
  BY DEF Symbols
<1> HIDE DEF S
<1>3. text \in Seq(Symbols)
  BY <1>1, <1>2, SeqMonotonic
<1>4. Len(text) \in Nat /\ DOMAIN text = 1 .. Len(text)
  BY <1>1, LenProperties
<1>5. \A i \in 1 .. Len(text) : text[i] \in S
  BY <1>1, ElementOfSeq
<1>6. QED
  BY <1>2, <1>3, <1>4, <1>5

LEMMA NewlinesCounted ==
    ASSUME NEW n \in Int
    PROVE  /\ Cardinality(NewlinesTo(n)) \in Nat
           /\ n < 1 => Cardinality(NewlinesTo(n)) = 0
           /\ n >= 0 => Cardinality(NewlinesTo(n + 1)) = Cardinality(NewlinesTo(n))
                            + IF text[n + 1] = Newline THEN 1 ELSE 0
<1>1. IsFiniteSet(NewlinesTo(n))
  <2>1. NewlinesTo(n) \in SUBSET (1 .. n)
    BY DEF NewlinesTo
  <2>2. IsFiniteSet(1 .. n)
    BY FS_Interval
  <2>3. QED
    BY <2>1, <2>2, FS_Subset
<1>2. Cardinality(NewlinesTo(n)) \in Nat
  BY <1>1, FS_CardinalityType
<1>3. n < 1 => NewlinesTo(n) = {}
  BY DEF NewlinesTo
<1>4. ASSUME n >= 0, text[n + 1] = Newline
      PROVE  Cardinality(NewlinesTo(n + 1)) = Cardinality(NewlinesTo(n)) + 1
  <2>1. NewlinesTo(n + 1) = NewlinesTo(n) \cup {n + 1} /\ n + 1 \notin NewlinesTo(n)
    BY <1>4 DEF NewlinesTo
  <2>2. QED
    BY <1>1, <2>1, FS_AddElement
<1>5. ASSUME n >= 0, text[n + 1] # Newline PROVE NewlinesTo(n + 1) = NewlinesTo(n)
  BY <1>5 DEF NewlinesTo
<1>6. QED
  BY <1>2, <1>3, <1>4, <1>5, FS_EmptySet

-----------------------------------------------------------------------------
(* FileScanner's operations.                                               *)
LEMMA TakeStepsOn ==
    ASSUME text \in Texts, NEW s, Runs(s), s.position < Len(s.buffer)
    PROVE  Runs(Take(s)) /\ Place(Take(s)) = Place(s) + 1
<1> DEFINE p == Place(s)
           t == Take(s)
           c == s.buffer[s.position + 1]
<1>1. /\ s \in Scanners /\ s.file /\ IsWindow(s) /\ StandsAt(s, p)
      /\ s.read \in Nat /\ s.position \in Nat /\ s.line \in Nat
      /\ s.buffer \in Seq(Symbols) /\ s.char \in Symbols
  BY DEF Runs, Scanners
<1>2. Len(s.buffer) \in Nat /\ Len(text) \in Nat
  BY <1>1, LenProperties, TextFacts
<1>3. s.position + 1 \in 1 .. Len(s.buffer)
  BY <1>1, <1>2
<1>4. p = s.read - Len(s.buffer) + s.position /\ p \in Nat /\ p + 1 \in 1 .. Len(text)
  BY <1>1, <1>2, <1>3 DEF Place, IsWindow
<1>5. c = text[p + 1] /\ c \in Symbols
  <2>1. s.read - Len(s.buffer) + (s.position + 1) = p + 1
    <3>1. PICK r \in Nat, l \in Nat, q \in Nat : r = s.read /\ l = Len(s.buffer) /\ q = s.position
      BY <1>1, <1>2
    <3>2. r - l + (q + 1) = r - l + q + 1
      OBVIOUS
    <3>3. QED
      BY <1>4, <3>1, <3>2
  <2>2. c = text[s.read - Len(s.buffer) + (s.position + 1)]
    BY <1>1, <1>3 DEF IsWindow
  <2>3. QED
    BY <1>4, <2>1, <2>2, TextFacts
<1>6. t = [s EXCEPT !.position = s.position + 1, !.last = s.char, !.char = c,
                    !.line = IF s.last = Newline THEN s.line + 1 ELSE s.line]
  BY DEF Take
<1> HIDE DEF t, c
<1>7. /\ t \in Scanners /\ t.file /\ t.read = s.read /\ t.buffer = s.buffer
      /\ t.position = s.position + 1 /\ t.last = s.char /\ t.char = c
      /\ t.line = IF s.last = Newline THEN s.line + 1 ELSE s.line
  <2> DEFINE l == IF s.last = Newline THEN s.line + 1 ELSE s.line
  <2>1. l \in Nat /\ s.position + 1 \in Nat
    BY <1>1
  <2>2. t = [s EXCEPT !.position = s.position + 1, !.last = s.char, !.char = c, !.line = l]
    BY <1>6
  <2> HIDE DEF l, p
  <2>3. t \in Scanners
    BY <1>1, <1>5, <2>1, <2>2 DEF Scanners
  <2>4. /\ t.file = s.file /\ t.read = s.read /\ t.buffer = s.buffer
        /\ t.position = s.position + 1 /\ t.last = s.char /\ t.char = c /\ t.line = l
    BY <1>1, <2>2 DEF Scanners
  <2>5. QED
    BY <1>1, <2>3, <2>4 DEF l
<1>8. IsWindow(t)
  BY <1>1, <1>2, <1>3, <1>7 DEF IsWindow
<1>9. Place(t) = p + 1
  BY <1>1, <1>2, <1>4, <1>7 DEF Place
<1> HIDE DEF p
<1>10. t.line = 1 + Cardinality(NewlinesTo(p - 1))
  <2>1. s.last = IF p <= 1 THEN "" ELSE text[p - 1]
    BY <1>1 DEF StandsAt
  <2>2. s.line = 1 + Cardinality(NewlinesTo(p - 2))
    BY <1>1 DEF StandsAt
  <2>3. CASE p <= 1
    <3>1. p - 1 < 1 /\ p - 2 < 1 /\ p - 1 \in Int /\ p - 2 \in Int
      BY <1>4, <2>3
    <3>2. Cardinality(NewlinesTo(p - 1)) = 0 /\ Cardinality(NewlinesTo(p - 2)) = 0
      BY <3>1, NewlinesCounted
    <3>3. s.last # Newline
      BY <2>1, <2>3 DEF Newline
    <3>4. QED
      BY <1>7, <2>2, <3>2, <3>3
  <2>4. CASE p > 1
    <3>1. p - 2 >= 0 /\ p - 2 \in Int /\ p - 2 + 1 = p - 1 /\ ~(p <= 1)
      BY <1>4, <2>4
    <3>2. /\ Cardinality(NewlinesTo(p - 2)) \in Nat
          /\ Cardinality(NewlinesTo(p - 2 + 1)) = Cardinality(NewlinesTo(p - 2))
                 + IF text[p - 2 + 1] = Newline THEN 1 ELSE 0
      BY <3>1, NewlinesCounted
    <3>3. QED
      BY <1>7, <2>1, <2>2, <3>1, <3>2
  <2>5. QED
    BY <1>4, <2>3, <2>4
<1>11. ASSUME NEW q, q = p + 1 PROVE StandsAt(t, q)
  <2>1. q # 0 /\ q - 1 = p /\ q - 2 = p - 1 /\ (q <= 1 <=> p = 0)
    BY <1>4, <1>11
  <2>2. s.char = IF p = 0 THEN "" ELSE text[p]
    BY <1>1 DEF StandsAt
  <2>3. t.last = IF q <= 1 THEN "" ELSE text[q - 1]
    BY <1>7, <2>1, <2>2
  <2>4. t.char = IF q = 0 THEN "" ELSE text[q]
    BY <1>5, <1>7, <1>11, <2>1
  <2>5. t.line = 1 + Cardinality(NewlinesTo(q - 2))
    BY <1>10, <2>1
  <2>6. QED
    BY <2>3, <2>4, <2>5, Zenon DEF StandsAt
<1>12. QED
  BY <1>7, <1>8, <1>9, <1>11 DEF Runs, t, p

(* What is left of the text is read in pieces; an empty piece is its end.  *)
LEMMA RefillStays ==
    ASSUME text \in Texts, NEW s, Runs(s), s.position = Len(s.buffer)
    PROVE  /\ Runs(Refill(s)) /\ Place(Refill(s)) = Place(s) /\ Refill(s).position = 0
           /\ Refill(s).buffer = <<>> => Place(s) = Len(text)
           /\ Refill(s).buffer # <<>> => Refill(s).position < Len(Refill(s).buffer)
<1> DEFINE n == Least(BufferSize, Len(text) - s.read)
           b == SubSeq(text, s.read + 1, s.read + n)
           t == Refill(s)
<1>1. /\ s \in Scanners /\ s.file /\ IsWindow(s) /\ StandsAt(s, Place(s))
      /\ s.read \in Nat /\ s.position \in Nat /\ s.buffer \in Seq(Symbols)
  BY DEF Runs, Scanners
<1>2. /\ Len(s.buffer) \in Nat /\ Len(text) \in Nat /\ text \in Seq(Symbols)
      /\ s.read \in 0 .. Len(text)
  BY <1>1, LenProperties, TextFacts DEF IsWindow
<1>3. n \in Nat /\ n <= BufferSize /\ s.read + n <= Len(text) /\ (n = 0 => s.read = Len(text))
  BY <1>2, BufferAssumption DEF Least
<1>4. t = [s EXCEPT !.buffer = b, !.read = s.read + n, !.position = 0]
  BY DEF Refill
<1> HIDE DEF n, t
<1>5. b \in Seq(Symbols) /\ Len(b) = n /\ \A k \in 1 .. n : b[k] = text[s.read + k]
  <2>1. PICK from \in Int, to \in Int : from = s.read + 1 /\ to = s.read + n
    BY <1>2, <1>3
  <2>2. \A i \in from .. to : i \in 1 .. Len(text)
    BY <1>2, <1>3, <2>1
  <2>3. \A i \in from .. to : text[i] \in Symbols
    BY <2>2, TextFacts
  <2>4. /\ SubSeq(text, from, to) \in Seq(Symbols)
        /\ Len(SubSeq(text, from, to)) = IF from <= to THEN to - from + 1 ELSE 0
        /\ \A k \in 1 .. to - from + 1 : SubSeq(text, from, to)[k] = text[from + k - 1]
    BY <2>3, SubSeqProperties
  <2>5. b = SubSeq(text, from, to)
    BY <2>1
  <2> HIDE DEF b
  <2>6. /\ n = IF from <= to THEN to - from + 1 ELSE 0
        /\ n = to - from + 1
        /\ \A k \in 1 .. n : from + k - 1 = s.read + k
    <3>1. n \in Nat /\ s.read \in Nat /\ from = s.read + 1 /\ to = s.read + n
      BY <1>1, <1>3, <2>1
    <3>2. PICK m \in Nat, r \in Nat : m = n /\ r = s.read
      BY <3>1
    <3>3. from = r + 1 /\ to = r + m
      BY <3>1, <3>2, Zenon
    <3>4. m = to - from + 1 /\ (from <= to <=> m # 0)
      BY <3>3
    <3>5. \A k \in 1 .. m : from + k - 1 = r + k
      BY <3>3
    <3>6. m = IF from <= to THEN to - from + 1 ELSE 0
      BY <3>4, Zenon
    <3>7. QED
      BY <3>2, <3>4, <3>5, <3>6, Zenon
  <2>7. QED
    BY <2>4, <2>5, <2>6
<1> HIDE DEF b
<1>6. /\ t \in Scanners /\ t.file /\ t.read = s.read + n /\ t.buffer = b /\ t.position = 0
      /\ t.last = s.last /\ t.char = s.char /\ t.line = s.line
  <2>1. t \in Scanners
    <3>1. s.read + n \in Nat /\ 0 \in Nat
      BY <1>1, <1>3
    <3>2. QED
      BY <1>1, <1>4, <1>5, <3>1 DEF Scanners
  <2>2. /\ t.file = s.file /\ t.read = s.read + n /\ t.buffer = b /\ t.position = 0
        /\ t.last = s.last /\ t.char = s.char /\ t.line = s.line
    BY <1>1, <1>4 DEF Scanners
  <2>3. QED
    BY <1>1, <2>1, <2>2
<1>7. Place(s) = s.read /\ Place(t) = s.read
  BY <1>1, <1>2, <1>3, <1>5, <1>6 DEF Place
<1>8. IsWindow(t)
  <2>1. /\ t.read \in 0 .. Len(text) /\ Len(t.buffer) <= BufferSize /\ Len(t.buffer) <= t.read
        /\ t.position \in 0 .. Len(t.buffer)
    BY <1>2, <1>3, <1>5, <1>6
  <2>2. \A k \in 1 .. n : t.read - Len(t.buffer) + k = s.read + k
    BY <1>2, <1>3, <1>5, <1>6
  <2>3. \A k \in 1 .. Len(t.buffer) : t.buffer[k] = text[t.read - Len(t.buffer) + k]
    BY <1>5, <1>6, <2>2
  <2>4. QED
    BY <2>1, <2>3 DEF IsWindow
<1>9. StandsAt(t, s.read)
  BY <1>1, <1>6, <1>7, Zenon DEF StandsAt
<1>10. b = <<>> <=> n = 0
  BY <1>3, <1>5, EmptySeq
<1>11. QED
  BY <1>3, <1>5, <1>6, <1>7, <1>8, <1>9, <1>10 DEF Runs, t

(* move: one character on, or closed behind the last one, and then for     *)
(* ever.                                                                   *)
LEMMA MoveScans ==
    ASSUME text \in Texts, NEW s, Runs(s) \/ Closed(s)
    PROVE  /\ Scanned(move(s))
           /\ Runs(s) => Place(move(s)) = Place(s) + 1
           /\ Closed(s) => Place(move(s)) = Place(s)
<1>1. CASE Closed(s)
  <2>1. /\ s \in Scanners /\ ~s.file /\ s.char = EOF /\ s.char \in Symbols
        /\ move(s) = [s EXCEPT !.char = EOF]
    BY <1>1 DEF Closed, move, Scanners
  <2>2. move(s) = s
    BY <2>1 DEF Scanners
  <2>3. ~Runs(s)
    BY <2>1 DEF Runs
  <2>4. QED
    BY <1>1, <2>2, <2>3 DEF Scanned
<1>2. CASE Runs(s)
  <2>1. /\ s.file /\ ~Closed(s) /\ IsWindow(s) /\ s \in Scanners
    BY <1>2 DEF Runs, Closed
  <2>2. /\ s.position \in 0 .. Len(s.buffer) /\ Len(s.buffer) \in Nat
        /\ Place(s) \in Nat /\ Len(text) \in Nat
    <3>1. s.position \in 0 .. Len(s.buffer) /\ s.read \in Nat /\ Len(s.buffer) <= s.read
      BY <2>1 DEF IsWindow, Scanners
    <3>2. s.buffer \in Seq(Symbols)
      BY <2>1 DEF Scanners
    <3>3. Len(s.buffer) \in Nat /\ Len(text) \in Nat
      BY <3>2, LenProperties, TextFacts
    <3>4. QED
      BY <2>1, <3>1, <3>3 DEF Place
  <2>3. CASE s.position < Len(s.buffer)
    <3>1. move(s) = Take(s)
      BY <2>1, <2>3 DEF move
    <3>2. Runs(Take(s)) /\ Place(Take(s)) = Place(s) + 1
      BY <1>2, <2>3, TakeStepsOn
    <3>3. QED
      BY <2>1, <2>2, <3>1, <3>2 DEF Scanned
  <2>4. CASE s.position = Len(s.buffer)
    <3> DEFINE r == Refill(s)
    <3>1. move(s) = IF r.buffer = <<>> THEN CloseFile(r) ELSE Take(r)
      BY <2>1, <2>2, <2>4 DEF move
    <3>2. /\ Runs(r) /\ Place(r) = Place(s) /\ r.position = 0
          /\ r.buffer = <<>> => Place(s) = Len(text)
          /\ r.buffer # <<>> => r.position < Len(r.buffer)
      BY <1>2, <2>4, RefillStays
    <3> HIDE DEF r
    <3>3. CASE r.buffer # <<>>
      <4>1. Runs(Take(r)) /\ Place(Take(r)) = Place(r) + 1
        BY <3>2, <3>3, TakeStepsOn
      <4>2. QED
        BY <2>1, <2>2, <3>1, <3>2, <3>3, <4>1 DEF Scanned
    <3>4. CASE r.buffer = <<>>
      <4> DEFINE t == CloseFile(r)
      <4>1. r \in Scanners /\ IsWindow(r) /\ StandsAt(r, Len(text)) /\ r.char \in Symbols
        BY <3>2, <3>4 DEF Runs, Scanners
      <4>2. t = [r EXCEPT !.file = FALSE, !.last = r.char, !.char = EOF] /\ EOF \in Symbols
        BY DEF CloseFile, Symbols
      <4> HIDE DEF t
      <4>3. /\ t \in Scanners /\ ~t.file /\ t.position = r.position /\ t.buffer = r.buffer
            /\ t.char = EOF /\ t.line = r.line
        BY <4>1, <4>2 DEF Scanners
      <4>4. /\ t.position \in 0 .. Len(t.buffer) /\ Len(t.buffer) <= BufferSize
            /\ t.line = 1 + Cardinality(NewlinesTo(Len(text) - 2))
        BY <4>1, <4>3, Zenon DEF IsWindow, StandsAt
      <4>5. Closed(t) /\ Place(t) = Len(text) + 1
        BY <4>3, <4>4 DEF Closed, Place
      <4>6. QED
        BY <2>1, <3>1, <3>2, <3>4, <4>5 DEF Scanned, t
    <3>5. QED
      BY <3>3, <3>4
  <2>5. QED
    BY <2>2, <2>3, <2>4
<1>3. QED
  BY <1>1, <1>2

-----------------------------------------------------------------------------
(* The inductive invariant.  A reader stands behind the place where its    *)
(* lexeme began; only those of names and numbers begin on it, and these    *)
(* take the first character in any case.                                   *)
Begun ==
    mode \in Modes \ {"next", "end"} =>
        /\ start \in 1 .. Len(text) /\ start <= Place(scanner)
        /\ start = Place(scanner) => \/ mode = "identifier" /\ current_char \in Letters
                                     \/ mode = "number" /\ current_char \in Digits

Reported ==
    /\ \E S : found \in Seq(S)
    /\ \A k \in DOMAIN found : found[k].kind \in Kinds /\ found[k].to \in 1 .. Len(text)
    /\ LineOfToken

LexInv ==
    /\ text \in Texts /\ mode \in Modes
    /\ value \in -(LongMax + 1) .. LongMax
    /\ Scanned(scanner) /\ Begun /\ Reported

LEMMA PlaceFacts ==
    ASSUME text \in Texts, NEW s, Scanned(s)
    PROVE  /\ Len(text) \in Nat
           /\ s.file => Runs(s) /\ Place(s) \in 1 .. Len(text) /\ s.char = text[Place(s)]
           /\ ~s.file => Closed(s) /\ Place(s) = Len(text) + 1 /\ s.char = EOF
<1>1. Len(text) \in Nat
  BY TextFacts
<1>2. CASE Closed(s)
  BY <1>1, <1>2 DEF Closed, Place
<1>3. CASE Runs(s) /\ Place(s) >= 1
  <2>1. s.file /\ IsWindow(s) /\ StandsAt(s, Place(s)) /\ s.read \in Nat /\ s.buffer \in Seq(Symbols)
    BY <1>3 DEF Runs, Scanners
  <2>2. Len(s.buffer) \in Nat
    BY <2>1, LenProperties
  <2>3. Place(s) = s.read - Len(s.buffer) + s.position /\ s.position \in Nat
    BY <2>1, <2>2 DEF Place, IsWindow
  <2>4. Place(s) \in 1 .. Len(text)
    BY <1>1, <1>3, <2>1, <2>2, <2>3 DEF IsWindow
  <2>5. s.char = text[Place(s)]
    <3>1. Place(s) # 0
      BY <2>4
    <3>2. s.char = IF Place(s) = 0 THEN "" ELSE text[Place(s)]
      BY <2>1, Zenon DEF StandsAt
    <3>3. QED
      BY <3>1, <3>2
  <2>6. QED
    BY <1>1, <1>3, <2>1, <2>4, <2>5
<1>4. QED
  BY <1>2, <1>3 DEF Scanned

(* What a step may do to the scanner.                                      *)
LEMMA ScannerSteps ==
    ASSUME text \in Texts, Scanned(scanner), NEW s \in {scanner, move(scanner)}
    PROVE  /\ Scanned(s) /\ Place(s) >= Place(scanner)
           /\ \A i \in 1 .. Len(text) :
                 i <= Place(scanner) /\ s = move(scanner) => i < Place(move(scanner))
<1>1. Scanned(move(scanner)) /\ Place(move(scanner)) \in Nat /\ Place(scanner) \in Nat
  <2>1. Runs(scanner) \/ Closed(scanner)
    BY DEF Scanned
  <2>2. Scanned(move(scanner))
    BY <2>1, MoveScans
  <2>3. QED
    BY <2>2, PlaceFacts
<1>2. CASE scanner.file
  <2>1. Runs(scanner) /\ Place(scanner) \in Nat
    BY <1>2, PlaceFacts
  <2>2. Place(move(scanner)) = Place(scanner) + 1
    BY <2>1, MoveScans
  <2>3. QED
    BY <1>1, <2>1, <2>2
<1>3. CASE ~scanner.file
  <2>1. Closed(scanner) /\ Place(scanner) = Len(text) + 1 /\ Len(text) \in Nat
    BY <1>3, PlaceFacts
  <2>2. Place(move(scanner)) = Place(scanner)
    BY <2>1, MoveScans
  <2>3. QED
    BY <1>1, <2>1, <2>2
<1>4. QED
  BY <1>2, <1>3

LEMMA LexInit == Init => LexInv
<1> SUFFICES ASSUME Init PROVE LexInv
  OBVIOUS
<1>1. text \in Texts
  BY DEF Init
<1>2. PICK opened \in BOOLEAN : (opened \/ text = <<>>) /\ scanner = move(NewScanner(opened))
  BY DEF Init
<1> DEFINE s == NewScanner(opened)
<1>3. /\ s \in Scanners /\ s.file = opened /\ s.read = 0 /\ s.buffer = <<>> /\ s.position = 0
      /\ s.line = 1 /\ s.last = "" /\ s.char = ""
  <2>1. <<>> \in Seq(Symbols) /\ "" \in Symbols
    BY EmptySeq DEF Symbols
  <2>2. QED
    BY <2>1 DEF NewScanner, Scanners
<1> HIDE DEF s
<1>4. Len(s.buffer) = 0 /\ Len(text) \in Nat /\ BufferSize \in Nat
  BY <1>1, <1>3, EmptySeq, TextFacts, BufferAssumption
<1>5. ASSUME opened PROVE Scanned(scanner)
  <2>1. PICK n \in Nat : n = Len(s.buffer) /\ n = 0
    BY <1>4
  <2>2. s.read \in 0 .. Len(text) /\ s.position \in 0 .. n /\ 1 .. n = {} /\ n <= BufferSize /\ n <= s.read
    <3>1. s.read = 0 /\ s.position = 0
      BY <1>3
    <3>2. QED
      BY <1>4, <2>1, <3>1
  <2>3. IsWindow(s)
    BY <2>1, <2>2, Zenon DEF IsWindow
  <2>4. Place(s) = 0
    <3>1. Place(s) = s.read - n + s.position /\ s.read = 0 /\ s.position = 0
      BY <1>3, <1>5, <2>1 DEF Place
    <3>2. QED
      BY <2>1, <3>1
  <2>5. Cardinality(NewlinesTo(0 - 2)) = 0 /\ 0 <= 1 /\ 1 + 0 = 1
    <3>1. 0 - 2 \in Int /\ 0 - 2 < 1
      OBVIOUS
    <3>2. QED
      BY <3>1, NewlinesCounted
  <2>6. StandsAt(s, 0)
    <3>1. s.char = "" /\ s.last = "" /\ s.line = 1 + Cardinality(NewlinesTo(0 - 2))
      <4>1. s.char = "" /\ s.last = "" /\ s.line = 1
        BY <1>3, Zenon
      <4>2. QED
        BY <2>5, <4>1, Zenon
    <3>2. QED
      BY <2>5, <3>1, Zenon DEF StandsAt
  <2>7. Runs(s)
    BY <1>3, <1>5, <2>3, <2>4, <2>6, Zenon DEF Runs
  <2>8. Scanned(move(s))
    BY <1>1, <2>7, MoveScans
  <2>9. QED
    BY <1>2, <2>8 DEF s
<1>6. ASSUME ~opened PROVE Scanned(scanner)
  <2>1. Len(text) = 0
    BY <1>2, <1>6, EmptySeq
  <2>2. Cardinality(NewlinesTo(Len(text) - 2)) = 0 /\ Cardinality(NewlinesTo(0 - 2)) = 0
    BY <2>1, NewlinesCounted
  <2> DEFINE t == move(s)
  <2>3. t = [s EXCEPT !.char = EOF] /\ EOF \in Symbols
    BY <1>3, <1>6 DEF move, Symbols
  <2> HIDE DEF t
  <2>4. t \in Scanners /\ ~t.file /\ t.position = 0 /\ t.buffer = s.buffer /\ t.char = EOF /\ t.line = 1
    BY <1>3, <1>6, <2>3 DEF Scanners
  <2>5. Closed(t)
    BY <1>4, <2>2, <2>4 DEF Closed
  <2>6. QED
    BY <1>2, <2>5 DEF Scanned, s, t
<1>7. Scanned(scanner)
  BY <1>5, <1>6
<1>8. mode \in Modes /\ Begun
  BY DEF Init, Modes, Begun
<1>9. value \in -(LongMax + 1) .. LongMax
  BY NumbersAssumption DEF Init
<1>10. Reported
  <2>1. found = <<>> /\ found \in Seq({}) /\ DOMAIN found = {}
    BY EmptySeq DEF Init
  <2>2. QED
    BY <2>1 DEF Reported, LineOfToken
<1>11. QED
  BY <1>1, <1>7, <1>8, <1>9, <1>10 DEF LexInv

-----------------------------------------------------------------------------
(* What the steps have in common.                                          *)
LineAt(to) ==
    LET newlines == {i \in 1 .. to - 1 : text[i] = Newline}
        unseen   == {i \in newlines : i = to - 1 /\ to = Len(text)}
    IN  1 + Cardinality(newlines \ unseen)

LEMMA LineIsRight ==
    ASSUME text \in Texts, NEW s, Scanned(s), Place(s) > 1
    PROVE  Place(s) - 1 \in 1 .. Len(text) /\ s.line = LineAt(Place(s) - 1)
<1>1. PICK to \in Int : to = Place(s) - 1 /\ to \in 1 .. Len(text) /\ Len(text) \in Nat
  BY PlaceFacts
<1>2. CASE Runs(s)
  <2>1. s.file /\ Place(s) \in 1 .. Len(text)
    BY <1>2, PlaceFacts DEF Runs
  <2>2. to # Len(text) /\ Place(s) - 2 = to - 1
    BY <1>1, <2>1
  <2>3. LineAt(to) = 1 + Cardinality(NewlinesTo(to - 1))
    <3>1. {i \in NewlinesTo(to - 1) : i = to - 1 /\ to = Len(text)} = {}
      BY <2>2
    <3>2. NewlinesTo(to - 1) \ {} = NewlinesTo(to - 1)
      OBVIOUS
    <3>3. QED
      BY <3>1, <3>2 DEF LineAt, NewlinesTo
  <2>4. s.line = 1 + Cardinality(NewlinesTo(Place(s) - 2))
    BY <1>2 DEF Runs, StandsAt
  <2>5. QED
    BY <1>1, <2>2, <2>3, <2>4
<1>3. CASE Closed(s)
  <2>1. Place(s) = Len(text) + 1
    BY <1>3, PlaceFacts DEF Closed
  <2>2. to = Len(text)
    BY <1>1, <2>1
  <2>3. LineAt(to) = 1 + Cardinality(NewlinesTo(to - 2))
    <3>1. NewlinesTo(to - 1) \ {i \in NewlinesTo(to - 1) : i = to - 1 /\ to = Len(text)} = NewlinesTo(to - 2)
      BY <1>1, <2>2 DEF NewlinesTo
    <3>2. QED
      BY <3>1 DEF LineAt, NewlinesTo
  <2>4. s.line = 1 + Cardinality(NewlinesTo(Len(text) - 2))
    BY <1>3 DEF Closed
  <2>5. QED
    BY <1>1, <2>2, <2>3, <2>4
<1>4. QED
  BY <1>2, <1>3 DEF Scanned

(* The file stays as it is.                                                *)
LEMMA ScannedNext ==
    ASSUME text' = text, NEW s, s = scanner', Scanned(s)
    PROVE  Scanned(scanner)'
<1>1. Symbols' = Symbols
  BY DEF Symbols
<1>2. Scanners' = Scanners
  BY <1>1 DEF Scanners
<1>3. \A n : NewlinesTo(n)' = NewlinesTo(n)
  BY DEF NewlinesTo
<1>4. Place(scanner)' = Place(s)
  BY DEF Place
<1>5. IsWindow(s) => IsWindow(scanner)'
  BY DEF IsWindow
<1>6. StandsAt(s, Place(s)) => StandsAt(scanner, Place(scanner))'
  BY <1>3, <1>4 DEF StandsAt
<1>7. Runs(s) => Runs(scanner)'
  BY <1>2, <1>5, <1>6 DEF Runs
<1>8. Closed(s) => Closed(scanner)'
  BY <1>2, <1>3 DEF Closed
<1>9. QED
  BY <1>4, <1>7, <1>8 DEF Scanned

(* A step that goes on with the lexeme, or between two.                    *)
LEMMA OnwardKeeps ==
    ASSUME LexInv, text' = text, found' = found, mode' \in Modes,
           value' \in -(LongMax + 1) .. LongMax,
           scanner' \in {scanner, move(scanner)}, Begun'
    PROVE  LexInv'
<1>1. text \in Texts /\ Scanned(scanner) /\ Reported
  BY DEF LexInv
<1>2. Scanned(scanner)'
  <2>1. PICK s \in {scanner, move(scanner)} : s = scanner'
    OBVIOUS
  <2>2. Scanned(s)
    BY <1>1, ScannerSteps
  <2>3. QED
    BY <2>1, <2>2, ScannedNext
<1>3. Reported'
  BY <1>1 DEF Reported, LineOfToken, Latest
<1>4. QED
  BY <1>1, <1>2, <1>3 DEF LexInv

LEMMA MovedBehind ==
    ASSUME LexInv, text' = text, scanner' = move(scanner),
           start' \in 1 .. Len(text), start' <= Place(scanner)
    PROVE  Begun'
<1>1. text \in Texts /\ Scanned(scanner)
  BY DEF LexInv
<1>2. PICK s \in {scanner, move(scanner)} : s = move(scanner) /\ s = scanner'
  OBVIOUS
<1>3. PICK i \in 1 .. Len(text) : i = start'
  OBVIOUS
<1>4. i < Place(s) /\ Place(s) \in Nat
  <2>1. i < Place(s) /\ Scanned(s)
    BY <1>1, <1>2, <1>3, ScannerSteps
  <2>2. QED
    BY <1>1, <2>1, PlaceFacts
<1>5. Place(s) = Place(scanner)'
  BY <1>2 DEF Place
<1>6. start' < Place(scanner)' /\ Place(scanner)' \in Nat /\ start' \in 1 .. Len(text)'
  BY <1>3, <1>4, <1>5
<1>7. start' <= Place(scanner)' /\ start' # Place(scanner)'
  BY <1>3, <1>6
<1>8. QED
  BY <1>6, <1>7 DEF Begun

(* A reader's end: what it reports lies behind its lexeme's first          *)
(* character.                                                              *)
LEMMA EndsKeeps ==
    ASSUME LexInv, NEW kind \in Kinds, NEW meaning, NEW s \in {scanner, move(scanner)},
           start \in 1 .. Len(text), start < Place(s), Ends(kind, meaning, s)
    PROVE  LexInv'
<1>1. text \in Texts /\ Scanned(scanner) /\ Reported /\ value \in -(LongMax + 1) .. LongMax
  BY DEF LexInv
<1>2. scanner' = s /\ mode' = "next" /\ text' = text /\ value' = value
  BY DEF Ends, Goto
<1>3. Scanned(s)
  BY <1>1, ScannerSteps
<1>4. Scanned(scanner)'
  BY <1>2, <1>3, ScannedNext
<1>5. Begun' /\ mode' \in Modes
  BY <1>2 DEF Begun, Modes
<1>6. Place(s) > 1
  BY <1>1, <1>3, PlaceFacts
<1> DEFINE e == [kind |-> kind, value |-> meaning, from |-> start, to |-> Place(s) - 1, line |-> s.line]
<1>7. e.kind \in Kinds /\ e.to \in 1 .. Len(text) /\ e.line = LineAt(e.to)
  <2>1. Place(s) - 1 \in 1 .. Len(text) /\ s.line = LineAt(Place(s) - 1)
    BY <1>1, <1>3, <1>6, LineIsRight
  <2>2. e.kind = kind /\ e.to = Place(s) - 1 /\ e.line = s.line
    OBVIOUS
  <2> HIDE DEF e
  <2>3. QED
    BY <2>1, <2>2
<1>8. found' = Append(found, e)
  BY DEF Ends
<1> HIDE DEF e
<1>9. PICK S : found \in Seq(S)
  BY <1>1 DEF Reported
<1> DEFINE T == S \cup {e}
<1>10. found \in Seq(T) /\ e \in T
  BY <1>9, SeqMonotonic
<1> HIDE DEF T
<1>11. /\ found' \in Seq(T) /\ Len(found') = Len(found) + 1 /\ Len(found) \in Nat
       /\ \A k \in 1 .. Len(found) : found'[k] = found[k]
       /\ found'[Len(found) + 1] = e
       /\ DOMAIN found = 1 .. Len(found)
  BY <1>8, <1>10, AppendProperties, LenProperties
<1>12. DOMAIN found' = 1 .. Len(found) + 1
  BY <1>11, LenProperties
<1>13. \A k \in DOMAIN found' : found'[k].kind \in Kinds /\ found'[k].to \in 1 .. Len(text)
  <2>1. \A k \in 1 .. Len(found) : found[k].kind \in Kinds /\ found[k].to \in 1 .. Len(text)
    BY <1>1, <1>11 DEF Reported
  <2>2. \A k \in 1 .. Len(found) + 1 : k \in 1 .. Len(found) \/ k = Len(found) + 1
    BY <1>11
  <2>3. QED
    BY <1>7, <1>11, <1>12, <2>1, <2>2
<1>14. LineOfToken'
  <2>1. Latest' = e
    BY <1>11 DEF Latest
  <2>2. QED
    BY <1>2, <1>7, <2>1 DEF LineOfToken, LineAt
<1>15. Reported'
  BY <1>2, <1>11, <1>13, <1>14 DEF Reported
<1>16. QED
  BY <1>1, <1>2, <1>4, <1>5, <1>15 DEF LexInv

-----------------------------------------------------------------------------
(* One lemma for each reader.                                              *)
LEMMA ReaderFacts ==
    ASSUME LexInv
    PROVE  /\ text \in Texts /\ Scanned(scanner) /\ Len(text) \in Nat
           /\ value \in -(LongMax + 1) .. LongMax /\ 0 \in -(LongMax + 1) .. LongMax
           /\ current_char # EOF => Place(scanner) \in 1 .. Len(text)
           /\ Place(scanner) \in Nat
<1>1. text \in Texts /\ Scanned(scanner) /\ value \in -(LongMax + 1) .. LongMax
  BY DEF LexInv
<1>2. 0 \in -(LongMax + 1) .. LongMax
  BY NumbersAssumption
<1>3. QED
  BY <1>1, <1>2, PlaceFacts DEF current_char

\* A reader that has passed the first character, and one that is still on it.
LEMMA Within ==
    ASSUME LexInv, mode \in Modes \ {"next", "end"}
    PROVE  /\ start \in 1 .. Len(text) /\ start <= Place(scanner)
           /\ \/ mode \notin {"identifier", "number"}
              \/ mode = "identifier" /\ current_char \notin Letters
              \/ mode = "number" /\ current_char \notin Digits
              => start < Place(scanner)
           /\ start < Place(move(scanner))
<1>1. /\ start \in 1 .. Len(text) /\ start <= Place(scanner)
      /\ start = Place(scanner) => \/ mode = "identifier" /\ current_char \in Letters
                                   \/ mode = "number" /\ current_char \in Digits
  BY DEF LexInv, Begun
<1>2. text \in Texts /\ Scanned(scanner) /\ Place(scanner) \in Nat
  BY ReaderFacts
<1>3. start < Place(move(scanner))
  <2>1. PICK i \in 1 .. Len(text) : i = start
    BY <1>1
  <2>2. i < Place(move(scanner))
    BY <1>1, <1>2, <2>1, ScannerSteps
  <2>3. QED
    BY <2>1, <2>2
<1>4. QED
  BY <1>1, <1>2, <1>3

\* A step that stays in its lexeme, or leaves it for the next one.
LEMMA PassKeeps ==
    ASSUME LexInv, text' = text, found' = found, start' = start,
           mode \in Modes \ {"next", "end"}, mode' \in Modes,
           value' \in -(LongMax + 1) .. LongMax,
           \/ scanner' = move(scanner)
           \/ scanner' = scanner /\ (mode' \in {"next", "end"} \/ start < Place(scanner))
    PROVE  LexInv'
<1>1. start \in 1 .. Len(text) /\ start <= Place(scanner) /\ Place(scanner) \in Nat /\ Len(text) \in Nat
  BY Within, ReaderFacts
<1>2. CASE scanner' = move(scanner)
  BY <1>1, <1>2, MovedBehind, OnwardKeeps
<1>3. CASE scanner' = scanner /\ mode' \in {"next", "end"}
  <2>1. Begun'
    BY <1>3 DEF Begun
  <2>2. QED
    BY <1>3, <2>1, OnwardKeeps
<1>4. CASE scanner' = scanner /\ start < Place(scanner)
  <2>1. Place(scanner)' = Place(scanner)
    BY <1>4 DEF Place
  <2>2. start' \in 1 .. Len(text)' /\ start' <= Place(scanner)' /\ start' # Place(scanner)'
    BY <1>1, <1>4, <2>1
  <2>3. Begun'
    BY <2>2 DEF Begun
  <2>4. QED
    BY <1>4, <2>3, OnwardKeeps
<1>5. QED
  BY <1>2, <1>3, <1>4

LEMMA BetweenKeeps == LexInv /\ (skip_blanks \/ EndOfFile) => LexInv'
<1> SUFFICES ASSUME LexInv, skip_blanks \/ EndOfFile PROVE LexInv'
  OBVIOUS
<1>1. /\ text' = text /\ found' = found /\ value' = value
      /\ mode' \in {"next", "end"} /\ scanner' \in {scanner, move(scanner)}
  BY DEF skip_blanks, EndOfFile, advance, Goto
<1>2. Begun' /\ mode' \in Modes
  BY <1>1 DEF Begun, Modes
<1>3. QED
  BY <1>1, <1>2, ReaderFacts, OnwardKeeps

LEMMA next_tokenKeeps == LexInv /\ next_token => LexInv'
<1> SUFFICES ASSUME LexInv, next_token PROVE LexInv'
  OBVIOUS
<1>1. /\ text' = text /\ found' = found /\ value' = 0 /\ current_char # EOF
      /\ start' = Place(scanner) /\ mode' \in {"identifier", "number", "string", "char", "operator"}
      /\ \/ scanner' = move(scanner)
         \/ scanner' = scanner /\ mode' = "identifier" /\ current_char \in Letters
         \/ scanner' = scanner /\ mode' = "number" /\ current_char \in Digits
  BY DEF next_token, Begin, advance, Goto
<1>2. Place(scanner) \in 1 .. Len(text) /\ Len(text) \in Nat /\ value' \in -(LongMax + 1) .. LongMax
  BY <1>1, ReaderFacts
<1>3. mode' \in Modes /\ scanner' \in {scanner, move(scanner)}
  BY <1>1 DEF Modes
<1>4. Begun'
  <2>1. CASE scanner' = move(scanner)
    <3>1. start' \in 1 .. Len(text) /\ start' <= Place(scanner)
      BY <1>1, <1>2
    <3>2. QED
      BY <1>1, <2>1, <3>1, MovedBehind
  <2>2. CASE scanner' = scanner
    <3>1. Place(scanner)' = Place(scanner) /\ current_char' = current_char
      BY <1>1, <2>2 DEF Place, current_char
    <3>2. start' \in 1 .. Len(text)' /\ start' <= Place(scanner)'
      BY <1>1, <1>2, <3>1
    <3>3. \/ mode' = "identifier" /\ current_char' \in Letters
          \/ mode' = "number" /\ current_char' \in Digits
          \/ scanner' = move(scanner)
      BY <1>1, <3>1
    <3>4. QED
      BY <2>1, <3>2, <3>3 DEF Begun
  <2>3. QED
    BY <1>3, <2>1, <2>2
<1>5. QED
  BY <1>1, <1>2, <1>3, <1>4, OnwardKeeps

LEMMA read_identifierKeeps == LexInv /\ read_identifier => LexInv'
<1> SUFFICES ASSUME LexInv, read_identifier PROVE LexInv'
  OBVIOUS
<1>1. mode = "identifier" /\ mode \in Modes \ {"next", "end"}
  BY DEF read_identifier, Modes
<1>2. CASE Collect(current_char)
  BY <1>1, <1>2, ReaderFacts, PassKeeps DEF Collect, advance
<1>3. CASE /\ current_char \notin Letters \cup Digits
           /\ Ends(IF word \in Keywords THEN "KEYWORD" ELSE "ID", word, scanner)
  <2>1. start \in 1 .. Len(text) /\ start < Place(scanner)
    BY <1>1, <1>3, Within
  <2>2. (IF word \in Keywords THEN "KEYWORD" ELSE "ID") \in Kinds
    BY DEF Kinds
  <2>3. QED
    BY <1>3, <2>1, <2>2, EndsKeeps
<1>4. QED
  BY <1>2, <1>3 DEF read_identifier

LEMMA LongTyped == ASSUME NEW n \in Int PROVE AsLong(n) \in -(LongMax + 1) .. LongMax
<1>1. LongMax \in Nat
  BY NumbersAssumption
<1>2. PICK w \in Nat \ {0} : w = 2 * (LongMax + 1)
  BY <1>1
<1>3. PICK m \in Int : m = n + LongMax + 1
  BY <1>1
<1>4. m % w \in 0 .. w - 1
  BY <1>2, <1>3
<1>5. AsLong(n) = (m % w) - (LongMax + 1)
  BY <1>2, <1>3 DEF AsLong
<1>6. QED
  BY <1>1, <1>2, <1>4, <1>5

LEMMA ErrorKeeps ==
    ASSUME LexInv, NEW s \in {scanner, move(scanner)}, start \in 1 .. Len(text),
           start < Place(s), LEXICAL_ERROR(s)
    PROVE  LexInv'
<1>1. "error" \in Kinds
  BY DEF Kinds
<1>2. Ends("error", <<>>, s)
  BY DEF LEXICAL_ERROR
<1>3. QED
  BY <1>1, <1>2, EndsKeeps

LEMMA read_numberKeeps == LexInv /\ read_number => LexInv'
<1> SUFFICES ASSUME LexInv, read_number PROVE LexInv'
  OBVIOUS
<1>1. mode = "number" /\ mode \in Modes \ {"next", "end"} /\ value \in Int
  BY ReaderFacts, NumbersAssumption DEF read_number, Modes
<1>2. CASE /\ current_char \in Digits
           /\ value' = AsLong(value * 10 + DigitValue[current_char]) /\ advance
           /\ UNCHANGED <<text, mode, start, word, found>>
  <2>1. DigitValue[current_char] \in Int
    BY <1>2 DEF Digits, DigitValue
  <2>2. value' \in -(LongMax + 1) .. LongMax
    <3>1. value * 10 + DigitValue[current_char] \in Int
      BY <1>1, <2>1
    <3>2. QED
      BY <1>2, <3>1, LongTyped
  <2>3. QED
    BY <1>1, <1>2, <2>2, PassKeeps DEF advance
<1>3. CASE current_char \notin Digits
  <2>1. start \in 1 .. Len(text) /\ start < Place(scanner)
    BY <1>1, <1>3, Within
  <2>2. CASE Goto("not_a_number") /\ UNCHANGED <<text, scanner, start, word, value, found>>
    <3>1. mode' \in Modes
      BY <2>2 DEF Goto, Modes
    <3>2. QED
      BY <1>1, <2>1, <2>2, <3>1, ReaderFacts, PassKeeps
  <2>3. CASE LEXICAL_ERROR(scanner)
    BY <2>1, <2>3, ErrorKeeps
  <2>4. CASE Ends("C_INTEGER", AsInt(value), scanner)
    <3>1. "C_INTEGER" \in Kinds
      BY DEF Kinds
    <3>2. QED
      BY <2>1, <2>4, <3>1, EndsKeeps
  <2>5. QED
    BY <1>3, <2>2, <2>3, <2>4 DEF read_number
<1>4. "." \notin Digits /\ \A c \in Letters : c \notin Digits
  BY DEF Digits, DigitValue, Letters
<1>5. QED
  BY <1>2, <1>3, <1>4 DEF read_number

LEMMA skip_not_a_numberKeeps == LexInv /\ skip_not_a_number => LexInv'
<1> SUFFICES ASSUME LexInv, skip_not_a_number PROVE LexInv'
  OBVIOUS
<1>1. mode = "not_a_number" /\ mode \in Modes \ {"next", "end"}
  BY DEF skip_not_a_number, Modes
<1>2. start \in 1 .. Len(text) /\ start < Place(scanner)
  BY <1>1, Within
<1>3. CASE Pass(mode)
  BY <1>1, <1>3, ReaderFacts, PassKeeps DEF Pass, Goto, advance
<1>4. CASE LEXICAL_ERROR(scanner)
  BY <1>2, <1>4, ErrorKeeps
<1>5. QED
  BY <1>3, <1>4 DEF skip_not_a_number

\* The readers that never stand on the place where they began.
LEMMA PassedKeeps ==
    ASSUME LexInv, mode \in Modes \ {"next", "end", "identifier", "number"},
           \/ text' = text /\ found' = found /\ start' = start /\ value' = value
              /\ mode' \in Modes /\ scanner' \in {scanner, move(scanner)}
           \/ \E s \in {scanner, move(scanner)} :
                 \/ LEXICAL_ERROR(s)
                 \/ \E kind \in Kinds, meaning \in {word, <<word[1], current_char>>} :
                       Ends(kind, meaning, s)
    PROVE  LexInv'
<1>1. mode \in Modes \ {"next", "end"}
  OBVIOUS
<1>2. start \in 1 .. Len(text) /\ start < Place(scanner) /\ start < Place(move(scanner))
  BY <1>1, Within
<1>3. CASE /\ text' = text /\ found' = found /\ start' = start /\ value' = value
           /\ mode' \in Modes /\ scanner' \in {scanner, move(scanner)}
  BY <1>1, <1>2, <1>3, ReaderFacts, PassKeeps
<1>4. CASE \E s \in {scanner, move(scanner)} : LEXICAL_ERROR(s)
  BY <1>2, <1>4, ErrorKeeps
<1>5. CASE \E s \in {scanner, move(scanner)} :
             \E kind \in Kinds, meaning \in {word, <<word[1], current_char>>} : Ends(kind, meaning, s)
  BY <1>2, <1>5, EndsKeeps
<1>6. QED
  BY <1>3, <1>4, <1>5

LEMMA read_stringKeeps == LexInv /\ read_string => LexInv'
<1> SUFFICES ASSUME LexInv, read_string PROVE LexInv'
  OBVIOUS
<1>1. mode \in {"string", "string escape"} /\ "C_STRING" \in Kinds
  BY DEF read_string, Kinds
<1>2. mode \in Modes \ {"next", "end", "identifier", "number"}
  BY <1>1 DEF Modes
<1>3. \/ Ends("C_STRING", word, move(scanner)) \/ LEXICAL_ERROR(scanner)
      \/ /\ text' = text /\ found' = found /\ start' = start /\ value' = value
         /\ mode' \in {"string", "string escape"} /\ scanner' = move(scanner)
  BY DEF read_string, Pass, Collect, Goto, advance
<1>4. mode' \in {"string", "string escape"} => mode' \in Modes
  BY DEF Modes
<1>5. QED
  BY <1>1, <1>2, <1>3, <1>4, PassedKeeps

LEMMA read_charKeeps == LexInv /\ read_char => LexInv'
<1> SUFFICES ASSUME LexInv, read_char PROVE LexInv'
  OBVIOUS
<1>1. mode \in {"char", "char escape", "char end"} /\ "C_CHAR" \in Kinds
  BY DEF read_char, Kinds
<1>2. mode \in Modes \ {"next", "end", "identifier", "number"}
  BY <1>1 DEF Modes
<1>3. \/ Ends("C_CHAR", word, move(scanner))
      \/ LEXICAL_ERROR(scanner) \/ LEXICAL_ERROR(move(scanner))
      \/ /\ text' = text /\ found' = found /\ start' = start /\ value' = value
         /\ mode' \in {"char escape", "char end"} /\ scanner' = move(scanner)
  BY DEF read_char, Pass, Goto, advance
<1>4. mode' \in {"char escape", "char end"} => mode' \in Modes
  BY DEF Modes
<1>5. QED
  BY <1>1, <1>2, <1>3, <1>4, PassedKeeps

LEMMA read_operatorKeeps == LexInv /\ read_operator => LexInv'
<1> SUFFICES ASSUME LexInv, read_operator PROVE LexInv'
  OBVIOUS
<1>1. mode = "operator" /\ "OP" \in Kinds
  BY DEF read_operator, Kinds
<1>2. mode \in Modes \ {"next", "end", "identifier", "number"}
  BY <1>1 DEF Modes
<1>3. \/ Ends("OP", <<word[1], current_char>>, move(scanner)) \/ Ends("OP", word, scanner)
      \/ LEXICAL_ERROR(scanner)
      \/ /\ text' = text /\ found' = found /\ start' = start /\ value' = value
         /\ mode' \in {"line comment", "block comment"} /\ scanner' = scanner
  BY DEF read_operator, Goto
<1>4. mode' \in {"line comment", "block comment"} => mode' \in Modes
  BY DEF Modes
<1>5. QED
  BY <1>1, <1>2, <1>3, <1>4, PassedKeeps

LEMMA CommentKeeps == LexInv /\ (skip_line_comment \/ skip_block_comment) => LexInv'
<1> SUFFICES ASSUME LexInv, skip_line_comment \/ skip_block_comment PROVE LexInv'
  OBVIOUS
<1>1. mode \in {"line comment", "block comment", "block star"}
  BY DEF skip_line_comment, skip_block_comment
<1>2. mode \in Modes \ {"next", "end", "identifier", "number"}
  BY <1>1 DEF Modes
<1>3. \/ LEXICAL_ERROR(scanner)
      \/ /\ text' = text /\ found' = found /\ start' = start /\ value' = value
         /\ mode' \in {"line comment", "block comment", "block star", "next"}
         /\ scanner' \in {scanner, move(scanner)}
  BY <1>1 DEF skip_line_comment, skip_block_comment, Pass, Goto, advance
<1>4. mode' \in {"line comment", "block comment", "block star", "next"} => mode' \in Modes
  BY DEF Modes
<1>5. QED
  BY <1>2, <1>3, <1>4, PassedKeeps

LEMMA LexNext == LexInv /\ [Next]_vars => LexInv'
<1> SUFFICES ASSUME LexInv, [Next]_vars PROVE LexInv'
  OBVIOUS
<1>1. CASE UNCHANGED vars
  <2>1. /\ text' = text /\ scanner' = scanner /\ mode' = mode /\ start' = start
        /\ value' = value /\ found' = found
    BY <1>1 DEF vars
  <2>2. mode' \in Modes /\ value' \in -(LongMax + 1) .. LongMax /\ Begun
    BY <2>1 DEF LexInv
  <2>3. Begun'
    BY <2>1, <2>2 DEF Begun, Place, current_char
  <2>4. QED
    BY <2>1, <2>2, <2>3, OnwardKeeps
<1>2. CASE Next
  BY <1>2, BetweenKeeps, next_tokenKeeps, read_identifierKeeps, read_numberKeeps,
     skip_not_a_numberKeeps, read_stringKeeps, read_charKeeps, read_operatorKeeps, CommentKeeps
     DEF Next
<1>3. QED
  BY <1>1, <1>2

(* The buffer is invisible, for every text and whatever the buffer holds:  *)
(* the current character is the one at the scanner's place in the text     *)
(* until the file is closed, and the end mark from then on; and what is    *)
(* reported lies in the text.                                              *)
THEOREM BufferIsInvisible == Spec => []TypeOK
<1>1. LexInv => TypeOK
  <2> SUFFICES ASSUME LexInv PROVE TypeOK
    OBVIOUS
  <2>1. text \in Texts /\ Scanned(scanner) /\ Reported
    BY DEF LexInv
  <2>2. scanner.position \in 0 .. Len(scanner.buffer) /\ Len(scanner.buffer) <= BufferSize
    BY <2>1 DEF Scanned, Runs, Closed, IsWindow
  <2>3. current_char = IF scanner.file THEN text[Place(scanner)] ELSE EOF
    BY <2>1, PlaceFacts DEF current_char
  <2>4. QED
    BY <2>1, <2>2, <2>3 DEF LexInv, TypeOK, Reported
<1>2. QED
  BY <1>1, LexInit, LexNext, PTL DEF Spec

(* Every token and every error is given the line its last character is on, *)
(* in every text and with every size of the buffer; but a character alone  *)
(* on the last line is given the line before.                              *)
THEOREM LinesAreRight == Spec => []LineOfToken
<1>1. LexInv => LineOfToken
  BY DEF LexInv, Reported
<1>2. QED
  BY <1>1, LexInit, LexNext, PTL DEF Spec
=============================================================================
