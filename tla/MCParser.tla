------------------------------- MODULE MCParser -------------------------------
(***************************************************************************)
(* Programs for the parser: statements written from trees, every short     *)
(* sequence of tokens, and programs with one token too many, too few or    *)
(* wrong.                                                                  *)
(***************************************************************************)
EXTENDS ParsedPrograms

MCNames      == {"i", "j", "a", "p", "q", "z", "f", "s", "h", "m"}
MCInteger    == ("2" :> 2) @@ ("3" :> 3) @@ ("0" :> 0)
MCCharacters == "'c'" :> 1
MCWorth      == MCInteger @@ MCCharacters

MCDeclared ==
    ("i" :> Plain("int")) @@ ("j" :> Plain("int")) @@ ("a" :> Array("int"))
    @@ ("p" :> Pointer("int")) @@ ("q" :> Pointer("char")) @@ ("z" :> Plain("int"))
MCSignatures ==
    ("f" :> [result |-> Plain("int"), params |-> <<Plain("int"), Plain("int")>>])
    @@ ("s" :> [result |-> Plain("char"), params |-> <<Pointer("int")>>])
    @@ ("h" :> [result |-> Nothing, params |-> <<>>])

MCLayout ==
    ("i" :> 8) @@ ("j" :> 16) @@ ("a" :> 24) @@ ("p" :> 48) @@ ("q" :> 56) @@ ("z" :> 64)
\* p leads to a[1], q to z.
MCStorage ==
    (8 :> 2) @@ (16 :> -7) @@ (24 :> 1) @@ (32 :> 5) @@ (40 :> 0) @@ (48 :> 32) @@ (56 :> 64) @@ (64 :> 6)

-----------------------------------------------------------------------------
(* Inside the body of a function with these variables; z is left to the    *)
(* definitions.                                                            *)
VariableOf(x, t) ==
    [Named(x, t.base) EXCEPT !.pointer = t.holds = "address", !.array = IF t.holds = "array" THEN 3 ELSE 0]
FunctionOf(f) ==
    [name |-> f, type |-> MCSignatures[f].result.base, declare |-> FALSE,
     params |-> [k \in DOMAIN MCSignatures[f].params |-> VariableOf("i", MCSignatures[f].params[k])]]

Main == [NoFunction EXCEPT !.name = "m", !.type = "int"]
MCBody ==
    [Blank EXCEPT !.temps = 1,
        !.fun = Main, !.code = <<Inst("enter", NULL, NULL, NULL)>>, !.ret = Named(".L0", "label"),
        !.functions = ("m" :> Main) @@ [f \in DOMAIN MCSignatures |-> FunctionOf(f)],
        !.scopes = <<Empty, Empty, [x \in DOMAIN MCDeclared \ {"z"} |-> VariableOf(x, MCDeclared[x])]>>]

FromTheTop(w) == [tokens |-> w, rule |-> "program", tree |-> NoTree, frame |-> "none"]
Inside(w, tree, frame) == [tokens |-> w \o <<"}">>, rule |-> "rest", tree |-> tree, frame |-> frame]

-----------------------------------------------------------------------------
(* Trees.                                                                  *)
BinaryOps == Comparing \cup {"=", "||", "&&", "+", "-", "*", "/", "%"}
UnaryOps  == {"!", "-", "++", "--", "&", "*"}
Leaves    == {Leaf(x) : x \in {"i", "a", "p", "2"}}
Simple    == Leaves \cup {Leaf("q"), Leaf("j"), Leaf("'c'"), Apply("h", <<>>)}
Small ==
    {Prefix(op, e) : op \in UnaryOps, e \in Simple}
    \cup {Postfix(op, e) : op \in {"++", "--"}, e \in Simple}
    \cup {Index(x, e) : x \in {"a", "p", "i"}, e \in Simple}
    \cup {Binary(op, l, r) : op \in BinaryOps, l \in Simple, r \in Simple}
    \cup {Apply("s", <<e>>) : e \in Simple} \cup {Apply("f", <<l, r>>) : l, r \in Leaves}
    \cup {Apply("f", <<e>>) : e \in Leaves}
Few ==
    {Prefix("*", Leaf("p")), Prefix("++", Leaf("i")), Prefix("-", Leaf("j")), Prefix("&", Leaf("i")),
     Postfix("++", Leaf("i")), Postfix("--", Leaf("j")), Index("a", Leaf("2")), Index("p", Leaf("i")),
     Binary("=", Leaf("i"), Leaf("3")), Binary("+", Leaf("p"), Leaf("2")),
     Binary("-", Leaf("p"), Leaf("a")), Binary("-", Leaf("i"), Leaf("3")),
     Apply("f", <<Leaf("i"), Leaf("j")>>), Apply("s", <<Leaf("a")>>)}
Pairs ==
    {Binary(o, Binary(n, Leaf("i"), Leaf("3")), Leaf("j")) : o, n \in BinaryOps}
    \cup {Binary(o, Leaf("i"), Binary(n, Leaf("3"), Leaf("j"))) : o, n \in BinaryOps}
    \cup {Binary(o, l, r) : o \in BinaryOps, l \in Few, r \in Few}
    \cup {Prefix(op, e) : op \in UnaryOps, e \in Few}
    \cup {Postfix(op, e) : op \in {"++", "--"}, e \in Few}
    \cup {Index(x, e) : x \in {"a", "p"}, e \in Few}
    \cup {Prefix(op, Prefix(on, e)) : op, on \in UnaryOps, e \in Leaves}

Statement(tree, frame) ==
    CASE frame = "expression" -> Inside(Written(tree) \o <<";">>, tree, frame)
      [] frame = "definition" -> Inside(<<"int", "z", "=">> \o Written(tree) \o <<";">>, tree, frame)
      [] OTHER -> Inside(<<frame>> \o Written(tree) \o <<";">>, tree, frame)
Shallow ==
    {Statement(e, frame) : e \in Small, frame \in {"expression", "output", "return", "input", "definition"}}
Deep == {Statement(e, "output") : e \in Pairs}

-----------------------------------------------------------------------------
(* Sequences of tokens.                                                    *)
SequencesOf(S, n) == UNION {[1 .. k -> S] : k \in 0 .. n}
\* At most n tokens of S after the given ones.
After(w, S, n) == {Inside(w \o more, NoTree, "none") : more \in SequencesOf(S, n)}
Segments == {FromTheTop(w) : w \in SequencesOf({"-", "[", "]", "int", "f", "(", ")", "{", "}", ";"}, 3)}

(* Programs of which one token is left out, doubled or replaced.           *)
Whole1 == <<"int", "z", "=", "2", ",", "*", "p", ";",
            "-", "[", "void", "]", "f", "(", "int", "i", ",", "char", "*", "q", ")", ";",
            "-", "[", "int", "]", "m", "(", ")", "{", "int", "i", ";", "while", "(", "i", ")", "{",
            "if", "(", "i", ")", "break", ";", "else", "{", "continue", ";", "}", "}",
            "input", "i", ";", "return", "i", ";", "}">>
Whole2 == <<"-", "[", "int", "]", "s", "(", "int", "*", "p", ")", "{", "int", "a", "[", "2", "]", ";",
            "a", "[", "0", "]", "=", "*", "p", ";", "return", "(", "a", "[", "0", "]", ")", ";", "}",
            "-", "[", "int", "]", "m", "(", ")", "{", "int", "i", "=", "3", ";",
            "if", "(", "s", "(", "&", "i", ")", ")", "{", "output", "i", "++", ";", "}", "}">>
Spoiled(w) ==
    {w} \cup {RemoveAt(w, k) : k \in DOMAIN w}
    \cup {InsertAt(w, k, w[k]) : k \in DOMAIN w}
    \cup {[w EXCEPT ![k] = t] : k \in DOMAIN w, t \in {"i", ";", "}", "("}}

MCPrograms ==
    {Shallow, Deep, Segments,
     After(<<>>, {"i", "2", "(", ")", "[", "]", "+", "++", "*", "=", ",", ";"}, 3),
     After(<<"if">>, {"(", ")", "{", "}", "i", "else", ";"}, 3),
     After(<<"while">>, {"(", ")", "{", "}", "i", "break", ";"}, 3),
     After(<<"int">>, {"*", "z", "[", "2", "]", "=", ",", ";"}, 3),
     {FromTheTop(w) : w \in Spoiled(Whole1)}, {FromTheTop(w) : w \in Spoiled(Whole2)}}

(* A pointer is moved up by one.                                           *)
PointerPrograms ==
    {{Statement(Prefix("*", Prefix("++", Leaf("p"))), "output"),
      Statement(Postfix("++", Leaf("p")), "expression"),
      Statement(Prefix("++", Leaf("p")), "expression")}}
=============================================================================
