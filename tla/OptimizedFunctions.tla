--------------------------- MODULE OptimizedFunctions ------------------------
(***************************************************************************)
(* Functions for the runs of the optimiser: over a parameter a, a global   *)
(* g, a local x declared with a literal, a local y declared without, a     *)
(* pointer p and temporaries.                                              *)
(***************************************************************************)
EXTENDS ProgramSets

A == Var("a")
G == Var("g")
X == Var("x")
Y == Var("y")
P == Var("p")
T == Var("t")

MCParams   == {"a"}
MCPointers == {"p", "gp"}
MCInits    == [v \in {"x"} |-> 1]

Do(eval) == <<Simple(eval)>>
Set(v, op, l, r) == Do(LowerBinary("t", op, l, r) \o LowerAssign(v, T))

Locals == Do(<<Declare("x"), Declare("y")>>)

IfElse(c, then, else) == <<If(<<>>, c)>> \o then \o <<Else>> \o else \o <<End>>
Loop(c, body)         == <<While(<<>>, c)>> \o body \o <<End>>
UntilA(c, body)       == Loop(c, body \o IfElse(A, <<Break>>, <<>>))
Finish                == Do(LowerPrint(X)) \o <<Return(Y), End>>

Steps == {
    Do(LowerAssign("y", Lit(0))),
    Do(LowerIncrement("x")),
    Do(LowerRead("x")),
    Set("y", "mul", X, A),
    Set("y", "sub", A, X),
    Set("y", "mod", A, X),
    Set("y", "div", A, X),
    Set("y", "and", X, A),
    Set("y", "or", Lit(0), A),
    Do(LowerAddressOf("p", "x") \o LowerStore("p", A) \o LowerLoad("t", "p") \o LowerAssign("y", T)),
    Do(LowerAddressOf("p", "x") \o LowerReadCell("p")),
    Do(LowerAddressOf("p", "x") \o LowerProc("f", <<P>>)),
    Do(LowerAssign("g", Lit(1)) \o LowerAssign("y", G)),
    Do(LowerCall("t", "h", <<Y>>) \o LowerAssign("g", T)) }

(* Every function starts with a call, after which its globals are unknown. *)
Starting(body) == Do(LowerProc("h", <<>>)) \o Locals \o body \o Finish

Shapes(c, s1, s2) == {
    Starting(s1 \o UntilA(c, s2)),
    Starting(IfElse(c, s1, s2) \o Set("y", "add", Y, G)) }


CodeOf(bodies) == {Lowered(b).code : b \in bodies}
=============================================================================
