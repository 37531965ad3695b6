------------------------------- MODULE MCLexer -------------------------------
(***************************************************************************)
(* Texts for the lexer: every short text over all characters, and longer   *)
(* ones over the characters that a reader with a loop of its own looks at. *)
(***************************************************************************)
EXTENDS Lexer

Sequences(S, n) == UNION {[1 .. k -> S] : k \in 0 .. n}

AnyCharacter == {"i", "f", "n", "7", " ", "\n", "\r", "\"", "'", "\\", "/", "*", "+", "=", "|", ".", "#"}

MCTexts ==
         Sequences(AnyCharacter, 3)
    \cup Sequences({"/", "*", "i", "\n"}, 5)
    \cup Sequences({"\"", "\\", "n", "\n", "'"}, 5)
    \cup Sequences({"2", "5", "6", "i", ".", "\n"}, 4)

MCKeywords == {<<"i", "f">>}
=============================================================================
