-------------------------------- MODULE Lexer --------------------------------
(***************************************************************************)
(* The scanner and the lexer (commons/scanner.cpp, lexer.cpp): a file is   *)
(* read through a buffer, one character a step, and cut into tokens while  *)
(* the parser asks for them.  A reader that finds a malformed lexeme       *)
(* reports it and returns nothing; next_token goes on where the reader     *)
(* stopped.                                                                *)
(*                                                                         *)
(* Characters are strings of length one; the code treats all letters alike *)
(* and looks at single ones only after a backslash.  Of the keywords and   *)
(* the letters there are as many as a run needs.  The column is left out.  *)
(***************************************************************************)
EXTENDS Integers, Sequences, FiniteSets

CONSTANTS
    Texts,             \* the contents of the file
    BufferSize,        \* BUFFER_SIZE, 128 in the code
    Keywords,          \* the reserved words, as sequences of letters
    LongMax, IntMax    \* the largest long and the largest int

ASSUME BufferAssumption == BufferSize \in Nat \ {0}
ASSUME NumbersAssumption == LongMax \in Nat /\ IntMax \in Nat /\ IntMax <= LongMax

EOF     == "EOF"       \* -1 in the code, which no byte equals

ASSUME TextsAssumption == \A t \in Texts : t \in Seq({t[k] : k \in DOMAIN t} \ {EOF})

Newline == "\n"
Return  == "\r"
Quote   == "\""
Tick    == "'"
Escape  == "\\"
Blanks  == {" ", "\t", Newline, Return}

DigitValue == [d \in {"0", "1", "2", "3", "4", "5", "6", "7", "8", "9"} |->
    CASE d = "0" -> 0 [] d = "1" -> 1 [] d = "2" -> 2 [] d = "3" -> 3 [] d = "4" -> 4
      [] d = "5" -> 5 [] d = "6" -> 6 [] d = "7" -> 7 [] d = "8" -> 8 [] d = "9" -> 9]
Digits  == DOMAIN DigitValue
Letters == {"a", "f", "i", "n", "t", "_"}

Singles == {<<c>> : c \in {"+", "-", "*", "/", "%", "!", ">", "<", "&", "=", ",", ";", ":",
                           "(", ")", "[", "]", "{", "}"}}
Doubles == {<<"+", "+">>, <<"-", "-">>, <<"!", "=">>, <<">", "=">>, <<">", ">">>, <<"<", "=">>,
            <<"<", "<">>, <<"&", "&">>, <<"|", "|">>, <<"=", "=">>}

VARIABLES
    text,      \* the file
    scanner,   \* the FileScanner; its char is also the lexer's current_char
    mode,      \* the reader that is at work, and where in it
    start,     \* where its lexeme began
    word,      \* the characters it has collected
    value,     \* the number it has collected
    found      \* the tokens returned and the errors reported, in order

vars == <<text, scanner, mode, start, word, value, found>>

-----------------------------------------------------------------------------
(* FileScanner.  position counts the characters of the buffer that have    *)
(* been handed out.                                                        *)
Least(m, n) == IF m < n THEN m ELSE n

Refill(s) ==
    LET n == Least(BufferSize, Len(text) - s.read)
    IN  [s EXCEPT !.buffer = SubSeq(text, s.read + 1, s.read + n), !.read = @ + n, !.position = 0]

\* Mutant of CloseFile: the last character stays current.
CloseFileOnly(s) == [s EXCEPT !.file = FALSE, !.last = s.char]

CloseFile(s) == [s EXCEPT !.file = FALSE, !.last = s.char, !.char = EOF]

\* Mutant of Take: a line is counted with its newline, before the error that ends there.
TakeEager(s) ==
    [s EXCEPT !.position = @ + 1, !.last = s.char, !.char = s.buffer[s.position + 1],
              !.line = IF s.buffer[s.position + 1] = Newline THEN @ + 1 ELSE @]

(* A line is counted when the character behind its first one is taken:     *)
(* last_char is then the newline.                                          *)
Take(s) ==
    [s EXCEPT !.position = @ + 1, !.last = s.char, !.char = s.buffer[s.position + 1],
              !.line = IF s.last = Newline THEN @ + 1 ELSE @]

move(s) ==
    IF ~s.file THEN [s EXCEPT !.char = EOF]
    ELSE IF s.position < Len(s.buffer) THEN Take(s)
    ELSE LET r == Refill(s) IN IF r.buffer = <<>> THEN CloseFile(r) ELSE Take(r)

(* The scanner of a file that could not be opened is at its end.           *)
NewScanner(opened) ==
    [file |-> opened, read |-> 0, buffer |-> <<>>, position |-> 0,
     line |-> 1, last |-> "", char |-> ""]

current_char == scanner.char
\* The position of a scanner's character in the text.
Place(s) == IF s.file THEN s.read - Len(s.buffer) + s.position ELSE Len(text) + 1

-----------------------------------------------------------------------------
Init ==
    /\ text \in Texts
    /\ \E opened \in BOOLEAN :
          /\ opened \/ text = <<>>
          /\ scanner = move(NewScanner(opened))
    /\ mode = "next" /\ start = 1 /\ word = <<>> /\ value = 0 /\ found = <<>>

advance == scanner' = move(scanner)
Goto(m) == mode' = m

(* A reader ends with the scanner at s.                                    *)
Ends(kind, meaning, s) ==
    /\ scanner' = s
    /\ found' = Append(found, [kind |-> kind, value |-> meaning, from |-> start,
                               to |-> Place(s) - 1, line |-> s.line])
    /\ Goto("next")
    /\ UNCHANGED <<text, start, word, value>>

LEXICAL_ERROR(s) == Ends("error", <<>>, s)

(* next_token: blanks are skipped, the first character chooses the reader. *)
skip_blanks ==
    /\ mode = "next" /\ current_char \in Blanks
    /\ advance
    /\ UNCHANGED <<text, mode, start, word, value, found>>

EndOfFile ==
    /\ mode = "next" /\ current_char = EOF
    /\ Goto("end")
    /\ UNCHANGED <<text, scanner, start, word, value, found>>

Begin(m) ==
    /\ mode = "next" /\ current_char \notin Blanks \cup {EOF}
    /\ start' = Place(scanner) /\ value' = 0
    /\ Goto(m)
    /\ UNCHANGED <<text, found>>

next_token ==
    \/ /\ current_char \in Letters
       /\ Begin("identifier") /\ word' = <<>> /\ UNCHANGED scanner
    \/ /\ current_char \in Digits
       /\ Begin("number") /\ word' = <<>> /\ UNCHANGED scanner
    \/ current_char = Quote /\ Begin("string") /\ word' = <<>> /\ advance
    \/ current_char = Tick /\ Begin("char") /\ word' = <<>> /\ advance
    \/ /\ current_char \notin Letters \cup Digits \cup {Quote, Tick}
       /\ Begin("operator") /\ word' = <<current_char>> /\ advance

-----------------------------------------------------------------------------
(* One action for each state of a reader; Collect is a round of its loop.  *)
Collect(c) ==
    /\ word' = Append(word, c) /\ advance
    /\ UNCHANGED <<text, mode, start, value, found>>
Pass(m) ==
    /\ Goto(m) /\ advance
    /\ UNCHANGED <<text, start, word, value, found>>

read_identifier ==
    /\ mode = "identifier"
    /\ \/ current_char \in Letters \cup Digits /\ Collect(current_char)
       \/ /\ current_char \notin Letters \cup Digits
          /\ Ends(IF word \in Keywords THEN "KEYWORD" ELSE "ID", word, scanner)

(* The overflow of a long wraps around.                                    *)
AsLong(n) == ((n + LongMax + 1) % (2 * (LongMax + 1))) - (LongMax + 1)
AsInt(n)  == ((n + IntMax + 1) % (2 * (IntMax + 1))) - (IntMax + 1)

\* Mutant of read_number: a letter after the digits begins a token of its own.
read_number_short ==
    /\ mode = "number"
    /\ \/ /\ current_char \in Digits
          /\ value' = AsLong(value * 10 + DigitValue[current_char]) /\ advance
          /\ UNCHANGED <<text, mode, start, word, found>>
       \/ current_char = "." /\ LEXICAL_ERROR(scanner)
       \/ /\ current_char \notin Digits \cup {"."}
          /\ IF value > IntMax THEN LEXICAL_ERROR(scanner)
                               ELSE Ends("C_INTEGER", AsInt(value), scanner)

(* The loop after a point starts on the point and skips nothing.           *)
read_number ==
    /\ mode = "number"
    /\ \/ /\ current_char \in Digits
          /\ value' = AsLong(value * 10 + DigitValue[current_char]) /\ advance
          /\ UNCHANGED <<text, mode, start, word, found>>
       \/ /\ current_char \in Letters
          /\ Goto("not_a_number") /\ UNCHANGED <<text, scanner, start, word, value, found>>
       \/ current_char = "." /\ LEXICAL_ERROR(scanner)
       \/ /\ current_char \notin Digits \cup Letters \cup {"."}
          /\ IF value > IntMax THEN LEXICAL_ERROR(scanner)
                               ELSE Ends("C_INTEGER", AsInt(value), scanner)

skip_not_a_number ==
    /\ mode = "not_a_number"
    /\ \/ current_char \in Digits \cup Letters \cup {"."} /\ Pass(mode)
       \/ current_char \notin Digits \cup Letters \cup {"."} /\ LEXICAL_ERROR(scanner)

Unescaped(c) ==
    CASE c = "n" -> Newline [] c = "r" -> Return [] c = "t" -> "\t" [] c = "0" -> "NUL"
      [] OTHER -> c

read_string ==
    \/ /\ mode = "string"
       /\ \/ current_char = Quote /\ Ends("C_STRING", word, move(scanner))
          \/ current_char \in {Newline, Return, EOF} /\ LEXICAL_ERROR(scanner)
          \/ current_char = Escape /\ Pass("string escape")
          \/ current_char \notin {Quote, Newline, Return, EOF, Escape} /\ Collect(current_char)
    \/ /\ mode = "string escape"
       /\ word' = Append(word, Unescaped(current_char)) /\ advance /\ Goto("string")
       /\ UNCHANGED <<text, start, value, found>>

(* A character that may not stand alone leaves valid = false: the reader   *)
(* does not pass it, but for a tick.                                       *)
read_char ==
    \/ /\ mode = "char"
       /\ \/ current_char = Escape /\ Pass("char escape")
          \/ current_char = Tick /\ LEXICAL_ERROR(move(scanner))
          \/ current_char \in {Newline, Return} /\ LEXICAL_ERROR(scanner)
          \/ /\ current_char \notin {Escape, Tick, Newline, Return}
             /\ word' = <<current_char>> /\ advance /\ Goto("char end")
             /\ UNCHANGED <<text, start, value, found>>
    \/ /\ mode = "char escape"
       /\ word' = <<Unescaped(current_char)>> /\ advance /\ Goto("char end")
       /\ UNCHANGED <<text, start, value, found>>
    \/ /\ mode = "char end"
       /\ IF current_char = Tick THEN Ends("C_CHAR", word, move(scanner))
                                 ELSE LEXICAL_ERROR(scanner)

(* The operator's first character has been passed.  What "/" begins may be *)
(* a comment.                                                              *)
read_operator ==
    /\ mode = "operator"
    /\ LET op == word[1] IN
       \/ op = "/" /\ current_char = "/" /\ Goto("line comment")
          /\ UNCHANGED <<text, scanner, start, word, value, found>>
       \/ op = "/" /\ current_char = "*" /\ Goto("block comment")
          /\ UNCHANGED <<text, scanner, start, word, value, found>>
       \/ <<op, current_char>> \in Doubles /\ Ends("OP", <<op, current_char>>, move(scanner))
       \/ /\ <<op, current_char>> \notin Doubles /\ ~(op = "/" /\ current_char \in {"/", "*"})
          /\ IF word \in Singles THEN Ends("OP", word, scanner) ELSE LEXICAL_ERROR(scanner)

skip_line_comment ==
    /\ mode = "line comment"
    /\ \/ current_char \notin {Newline, Return, EOF} /\ Pass(mode)
       \/ /\ current_char \in {Newline, Return, EOF} /\ Goto("next")
          /\ UNCHANGED <<text, scanner, start, word, value, found>>

\* Mutant of skip_block_comment: a star that does not close takes the next character with it.
skip_block_comment_greedy ==
    \/ /\ mode = "block comment"
       /\ \/ current_char = EOF /\ LEXICAL_ERROR(scanner)
          \/ current_char = "*" /\ Pass("block star")
          \/ current_char \notin {EOF, "*"} /\ Pass(mode)
    \/ /\ mode = "block star"
       /\ IF current_char = "/" THEN Pass("next") ELSE Pass("block comment")

\* Mutant of skip_block_comment: the end of the file is not looked for.
skip_block_comment_endless ==
    \/ mode = "block comment" /\ Pass(IF current_char = "*" THEN "block star" ELSE mode)
    \/ /\ mode = "block star"
       /\ IF current_char = "/" THEN Pass("next")
          ELSE Goto("block comment") /\ UNCHANGED <<text, scanner, start, word, value, found>>

(* The first star is the one that opens the comment.                       *)
skip_block_comment ==
    \/ /\ mode = "block comment"
       /\ \/ current_char = EOF /\ LEXICAL_ERROR(scanner)
          \/ current_char = "*" /\ Pass("block star")
          \/ current_char \notin {EOF, "*"} /\ Pass(mode)
    \/ /\ mode = "block star"
       /\ IF current_char = "/" THEN Pass("next")
          ELSE Goto("block comment") /\ UNCHANGED <<text, scanner, start, word, value, found>>

-----------------------------------------------------------------------------
Next ==
    \/ skip_blanks \/ EndOfFile \/ next_token
    \/ read_identifier \/ read_number \/ skip_not_a_number
    \/ read_string \/ read_char \/ read_operator
    \/ skip_line_comment \/ skip_block_comment

(* The parser asks until it is handed END, and a reader is a loop.         *)
Spec == Init /\ [][Next]_vars /\ WF_vars(Next)

-----------------------------------------------------------------------------
Modes == {"next", "identifier", "number", "not_a_number", "string", "string escape", "char",
          "char escape", "char end", "operator", "line comment", "block comment", "block star",
          "end"}
Kinds == {"ID", "KEYWORD", "C_INTEGER", "C_CHAR", "C_STRING", "OP", "error"}

(* The buffer is invisible: whatever its size, the current character is    *)
(* the one at the scanner's place in the text, up to the end of the file   *)
(* and the end mark from there on.                                         *)
TypeOK ==
    /\ text \in Texts
    /\ mode \in Modes
    /\ scanner.position \in 0 .. Len(scanner.buffer) /\ Len(scanner.buffer) <= BufferSize
    /\ current_char = IF scanner.file THEN text[Place(scanner)] ELSE EOF
    /\ value \in -(LongMax + 1) .. LongMax
    /\ \A k \in DOMAIN found : found[k].kind \in Kinds /\ found[k].to \in 1 .. Len(text)

(* The words of the language, said of sequences and not of a scanner.      *)
Word(from, to) == SubSeq(text, from, to)
Escapes(s) == \* is the character escaped, by a backslash that is not?
    LET escaped[i \in 1 .. Len(s)] == i > 1 /\ s[i - 1] = Escape /\ ~escaped[i - 1]
    IN  escaped

IsIdentifier(s) == s[1] \in Letters /\ \A i \in DOMAIN s : s[i] \in Letters \cup Digits
IsNumber(s)     == \A i \in DOMAIN s : s[i] \in Digits
\* Digits with a tail: a name may not begin with a digit, and no number has a point.
HasTail(s, first, rest) ==
    \E n \in 1 .. Len(s) - 1 :
        /\ IsNumber(SubSeq(s, 1, n)) /\ s[n + 1] \in first
        /\ \A i \in n + 2 .. Len(s) : s[i] \in rest
IsFraction(s)   == HasTail(s, {"."}, Letters \cup Digits)
IsBadNumber(s)  == HasTail(s, Letters, Letters \cup Digits \cup {"."}) \/ IsFraction(s)
IsOneLine(s)    == \A i \in DOMAIN s : s[i] \notin {Newline, Return}
IsString(s) ==
    /\ Len(s) > 1 /\ s[1] = Quote /\ s[Len(s)] = Quote /\ ~Escapes(s)[Len(s)]
    /\ IsOneLine(s) /\ \A i \in 2 .. Len(s) - 1 : s[i] = Quote => Escapes(s)[i]
IsChar(s) ==
    /\ Len(s) \in {3, 4} /\ s[1] = Tick /\ s[Len(s)] = Tick /\ IsOneLine(s)
    /\ IF Len(s) = 4 THEN s[2] = Escape ELSE s[2] \notin {Escape, Tick}
IsOperator(s) == s \in Singles \cup Doubles
IsLexeme(s) == \/ IsIdentifier(s) \/ IsNumber(s) \/ IsBadNumber(s)
               \/ IsString(s) \/ IsChar(s) \/ IsOperator(s)

(* A block comment ends with the first star and slash behind its opening.  *)
Opens(from, c) == from < Len(text) /\ Word(from, from + 1) = <<"/", c>>
IsComment(s) ==
    \/ /\ Len(s) > 3 /\ s[1] = "/" /\ s[2] = "*"
       /\ \A i \in 3 .. Len(s) - 1 : (s[i] = "*" /\ s[i + 1] = "/") <=> i = Len(s) - 1
    \/ Len(s) > 1 /\ s[1] = "/" /\ s[2] = "/" /\ IsOneLine(s)

Decimal(s) ==
    LET number[i \in 0 .. Len(s)] == IF i = 0 THEN 0 ELSE 10 * number[i - 1] + DigitValue[s[i]]
    IN  number[Len(s)]

(* The characters a literal stands for.                                    *)
Contents(s) ==
    LET places == SelectSeq([i \in 1 .. Len(s) - 2 |-> i + 1],
                            LAMBDA i : s[i] # Escape \/ Escapes(s)[i])
    IN  [k \in DOMAIN places |-> IF Escapes(s)[places[k]] THEN Unescaped(s[places[k]])
                                                          ELSE s[places[k]]]

Denotes(kind, s, meaning) ==
    CASE kind = "C_INTEGER" -> IsNumber(s) /\ Decimal(s) <= IntMax /\ meaning = Decimal(s)
      [] kind = "C_STRING"  -> IsString(s) /\ meaning = Contents(s)
      [] kind = "C_CHAR"    -> IsChar(s) /\ meaning = Contents(s)
      [] kind = "KEYWORD"   -> meaning = s /\ s \in Keywords
      [] kind = "ID"        -> meaning = s /\ IsIdentifier(s) /\ s \notin Keywords
      [] kind = "OP"        -> meaning = s /\ IsOperator(s)

Latest == found[Len(found)]

(* Where the code does not do what the documents say of the language: a    *)
(* literal goes on behind a line's end if a backslash stands before it     *)
(* (lexer.cpp:165); what follows the point of a fraction is read as a      *)
(* token of its own (:229); a number that overflows a long is compared     *)
(* with INT_MAX when it has wrapped (:235); the star that opens a comment  *)
(* may close it (:113).                                                    *)
Lexeme            == Word(Latest.from, Latest.to)
OnTwoLines        == Latest.kind \in {"C_STRING", "C_CHAR"} /\ ~IsOneLine(Lexeme)
Overflows         == Latest.kind = "C_INTEGER" /\ Decimal(Lexeme) > LongMax
Inside(IsBad(_))  == \* does the token begin in what has been reported as a bad number?
    \E k \in DOMAIN found : found[k].kind = "error" /\ IsBad(Word(found[k].from, Latest.from))
ClosedByItsOpener == \E i \in 1 .. Len(text) - 2 : Word(i, i + 2) = <<"/", "*", "/">>

(* A token is the longest word of the language at its place, no comment    *)
(* begins there, and it carries what the word denotes; what has been       *)
(* reported as a bad number takes no second place.  Left out are the three *)
(* kinds of literals of which StringsOnOneLine, FractionsInOnePlace and    *)
(* LiteralsFit say that the code takes them for something else.            *)
TokensAreLongest ==
    found # <<>> /\ Latest.kind # "error" /\ ~OnTwoLines /\ ~Overflows /\ ~Inside(IsFraction) =>
        /\ Denotes(Latest.kind, Lexeme, Latest.value)
        /\ ~Opens(Latest.from, "/") /\ ~Opens(Latest.from, "*")
        /\ \A n \in Latest.to + 1 .. Len(text) : ~IsLexeme(Word(Latest.from, n))
        /\ ~Inside(IsBadNumber)

(* No word of the language begins there, or it is a number that may not    *)
(* stand there.                                                            *)
Malformed(from) ==
    LET lexemes == {n \in from .. Len(text) : IsLexeme(Word(from, n))}
        longest == CHOOSE n \in lexemes : \A m \in lexemes : m <= n
    IN  IF Opens(from, "*") THEN \A n \in from .. Len(text) : ~IsComment(Word(from, n))
        ELSE \/ lexemes = {}
             \/ IsBadNumber(Word(from, longest))
             \/ IsNumber(Word(from, longest)) /\ Decimal(Word(from, longest)) > IntMax

(* The text between two places is made of blanks and comments.             *)
Skippable(from, to) ==
    LET reached[i \in from - 1 .. to] ==
            \/ i = from - 1
            \/ i >= from /\ text[i] \in Blanks /\ reached[i - 1]
            \/ \E j \in from .. i : reached[j - 1] /\ IsComment(Word(j, i))
    IN  reached[to]

(* Nothing is lost in silence: what lies between two tokens is blank or a  *)
(* comment, and what is reported as an error is no word of the language.   *)
(* Texts with a comment that its own opening closes are left out: see      *)
(* CommentsAreClosed.                                                      *)
DroppedIsExplained ==
    ~ClosedByItsOpener =>
        /\ found # <<>> =>
              LET before == IF Len(found) = 1 THEN 0 ELSE found[Len(found) - 1].to
              IN  /\ Skippable(before + 1, Latest.from - 1)
                  /\ Latest.kind = "error" => Malformed(Latest.from)
        /\ mode = "end" => Skippable(IF found = <<>> THEN 1 ELSE Latest.to + 1, Len(text))

(* grammar_EN.md, 1.4: a string is on a single line.                       *)
StringsOnOneLine == found # <<>> /\ Latest.kind = "C_STRING" => IsOneLine(Lexeme)

(* compiler-design_EN.md, 3.2: 1.5 takes exactly one token's place; it     *)
(* does not yield an error and then a token.                               *)
FractionsInOnePlace == found # <<>> /\ Latest.kind # "error" => ~Inside(IsFraction)

(* grammar_EN.md, 1.4: an integer literal is at most INT_MAX, and it is a  *)
(* decimal number.                                                         *)
LiteralsFit ==
    found # <<>> /\ Latest.kind = "C_INTEGER" => Denotes("C_INTEGER", Lexeme, Latest.value)

(* grammar_EN.md, 1.2: a block comment without its end is reported.  A     *)
(* file in which nothing was found or reported is blanks and comments.     *)
CommentsAreClosed == mode = "end" /\ found = <<>> => Skippable(1, Len(text))

(* Every message of the lexer and of the parser names the scanner's line   *)
(* (error.cpp:28): while a token is current that is the line its last      *)
(* character is on.  Only a character alone on the last line, with no      *)
(* newline after it, is reported one line early (scanner.cpp:57).          *)
LineOfToken ==
    found # <<>> =>
        LET newlines == {i \in 1 .. Latest.to - 1 : text[i] = Newline}
            unseen   == {i \in newlines : i = Latest.to - 1 /\ Latest.to = Len(text)}
        IN  Latest.line = 1 + Cardinality(newlines \ unseen)

(* Every file is read to its end, however malformed: each error passes at  *)
(* least one character, and no reader waits for a character that does not  *)
(* come.                                                                   *)
LexerEnds == <>(mode = "end")
=============================================================================
