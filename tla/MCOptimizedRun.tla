--------------------------- MODULE MCOptimizedRun ----------------------------
(***************************************************************************)
(* Every pair of steps, before and inside a loop and on the two sides of a *)
(* conditional, and the functions of the counterexamples.                  *)
(***************************************************************************)
EXTENDS OptimizedRun, OptimizedFunctions

GraphsOf(functions) == {GraphOf(c) : c \in functions}

Sound == CodeOf(UNION {Shapes(c, s1, s2) : c \in {X, A, Lit(1)}, s1 \in Steps, s2 \in Steps})
SoundGraphs == GraphsOf(Sound)

-----------------------------------------------------------------------------
(* The functions of the counterexamples.                                   *)
Counterexample(body) == CodeOf({Locals \o body \o Finish})

\* if(a){ g = 1; } y = g + 1;
GlobalMet    == Counterexample(IfElse(A, Do(LowerAssign("g", Lit(1))), <<>>) \o Set("y", "add", G, Lit(1)))
\* gp = &x; x = 2; y = h(); y = x + 1;
AddressKept  == Counterexample(Do(LowerAddressOf("p", "x") \o LowerAssign("gp", P) \o LowerAssign("x", Lit(2))
                                  \o LowerCall("u", "h", <<>>) \o LowerAssign("y", Var("u")))
                               \o Set("y", "add", X, Lit(1)))
\* x = 7; y = x + 1;  where 7 is the largest int
OneTooMany   == Counterexample(Do(LowerAssign("x", Lit(7))) \o Set("y", "add", X, Lit(1)))

Counterexamples       == GlobalMet \cup AddressKept \cup OneTooMany
CounterexampleGraphs  == GraphsOf(Counterexamples)
=============================================================================
