---------------------------- MODULE MCSymbolTable ----------------------------
(***************************************************************************)
(* The symbol table on a small instance.  Nothing in it tells one variable *)
(* name or one function name from another, so TLC may take the names of    *)
(* each kind for interchangeable.                                          *)
(***************************************************************************)
EXTENDS SymbolTable, TLC

CONSTANTS x, y, f, g

VariableNames  == {x, y}
FunctionsNamed == {f, g}
SameUpToNames  == Permutations(VariableNames) \cup Permutations(FunctionsNamed)
=============================================================================
