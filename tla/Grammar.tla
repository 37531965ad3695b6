-------------------------------- MODULE Grammar --------------------------------
(***************************************************************************)
(* The grammar of the language as its manual gives it (grammar_EN.md       *)
(* section 3), and what it derives.  This is the specification that the    *)
(* parser, which sees one token and knows follow sets, is compared with.   *)
(***************************************************************************)
EXTENDS Integers, Sequences

Token(kinds)  == [is |-> "token", of |-> kinds]
Rule(name)    == [is |-> "rule", of |-> name]
Concat(parts) == [is |-> "concat", of |-> parts]
OneOf(parts)  == [is |-> "one of", of |-> parts]
Optional(e)   == [is |-> "optional", of |-> e]
Repeated(e)   == [is |-> "repeated", of |-> e]

One(kind) == Token({kind})
\* operand (operators operand)*
Chain(operand, operators) ==
    Concat(<<Rule(operand), Repeated(Concat(<<Token(operators), Rule(operand)>>))>>)
TypeName == Token({"int", "char", "void"})

Rules == [
    program    |-> Repeated(Rule("segment")),
    segment    |-> OneOf({Concat(<<TypeName, Rule("definition")>>),
                          Concat(<<One("-"), One("["), TypeName, One("]"), One("ID"), One("("),
                                   Optional(Rule("parameters")), One(")"),
                                   OneOf({Rule("block"), One(";")})>>)}),
    definition |-> Concat(<<Rule("declarator"),
                            OneOf({One(";"), Concat(<<One(","), Rule("definition")>>)})>>),
    declarator |-> Concat(<<Optional(One("*")), One("ID"),
                            Optional(Concat(<<One("["), One("C_INTEGER"), One("]")>>)),
                            Optional(Concat(<<One("="), Rule("expr")>>))>>),
    parameters |-> Chain("parameter", {","}),
    parameter  |-> Concat(<<TypeName, Optional(One("*")), One("ID")>>),
    block      |-> Concat(<<One("{"), Rule("body"), One("}")>>),
    body       |-> Repeated(OneOf({Concat(<<TypeName, Rule("definition")>>), Rule("statement")})),
    statement  |->
        OneOf({Concat(<<One("while"), One("("), Optional(Rule("expr")), One(")"), Rule("block")>>),
               Concat(<<One("if"), One("("), Rule("expr"), One(")"), Rule("branch"),
                        Optional(Concat(<<One("else"), Rule("branch")>>))>>),
               Concat(<<Token({"break", "continue"}), One(";")>>),
               \* "output;" is derived, and reported as an expression without a value (3.4)
               Concat(<<Token({"return", "output"}), Optional(Rule("expr")), One(";")>>),
               Concat(<<One("input"), Rule("expr"), One(";")>>),
               Concat(<<Optional(Rule("expr")), One(";")>>)}),
    branch     |-> OneOf({Rule("block"), Rule("statement")}),
    expr       |-> Concat(<<Rule("or"), Optional(Concat(<<One("="), Rule("expr")>>))>>),
    or         |-> Chain("and", {"||"}),
    and        |-> Chain("compare", {"&&"}),
    compare    |-> Chain("arith", {">", ">=", "<", "<=", "==", "!="}),
    arith      |-> Chain("item", {"+", "-"}),
    item       |-> Chain("factor", {"*", "/", "%"}),
    factor     |-> OneOf({Concat(<<Token({"!", "-", "++", "--", "&", "*"}), Rule("factor")>>),
                          Concat(<<Rule("element"), Optional(Token({"++", "--"}))>>)}),
    element    |-> OneOf({Token({"ID", "C_INTEGER", "C_CHAR", "C_STRING"}),
                          Concat(<<One("("), Rule("expr"), One(")")>>),
                          Concat(<<One("ID"), One("["), Rule("expr"), One("]")>>),
                          Concat(<<One("ID"), One("("), Optional(Chain("expr", {","})), One(")")>>)}),
    \* What is left of a file when the parser is inside a function.
    rest       |-> Concat(<<Rule("body"), One("}"), Rule("program")>>)]

RECURSIVE Ends(_, _, _)
\* Where a phrase derived from e that starts at token i of w may end.
Ends(e, w, i) ==
    CASE e.is = "token"    -> IF i <= Len(w) /\ w[i] \in e.of THEN {i + 1} ELSE {}
      [] e.is = "rule"     -> Ends(Rules[e.of], w, i)
      [] e.is = "concat"   -> IF e.of = <<>> THEN {i}
                              ELSE UNION {Ends(Concat(Tail(e.of)), w, j) : j \in Ends(e.of[1], w, i)}
      [] e.is = "one of"   -> UNION {Ends(part, w, i) : part \in e.of}
      [] e.is = "optional" -> {i} \cup Ends(e.of, w, i)
      [] e.is = "repeated" -> {i} \cup UNION {Ends(e, w, j) : j \in Ends(e.of, w, i) \ {i}}

Derives(name, w) == Len(w) + 1 \in Ends(Rule(name), w, 1)
=============================================================================
