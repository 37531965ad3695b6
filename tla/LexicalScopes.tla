---------------------------- MODULE LexicalScopes ----------------------------
(***************************************************************************)
(* What the language promises of names: scopes nest, a name can be         *)
(* declared once in each scope, and a use means the declaration in the     *)
(* nearest scope around it that has one.                                   *)
(***************************************************************************)
EXTENDS Integers, Sequences

CONSTANTS
    Names,     \* the names of variables
    Decls      \* the declarations, as positive numbers

Undeclared == 0    \* not a declaration

VARIABLES
    scopes,    \* the open scopes, outermost first: what each declares a name as
    meaning    \* what the last use of a name was taken to mean

scopeVars == <<scopes, meaning>>

EmptyScope == [n \in Names |-> Undeclared]
Innermost  == scopes[Len(scopes)]

(* The declaration of n in the innermost of the scopes that has one.       *)
Nearest(n) ==
    LET having == {k \in DOMAIN scopes : scopes[k][n] # Undeclared}
    IN  IF having = {} THEN Undeclared
        ELSE scopes[CHOOSE k \in having : \A j \in having : j <= k][n]

Init == scopes = <<EmptyScope>> /\ meaning = Undeclared

OpenScope ==
    /\ scopes' = Append(scopes, EmptyScope)
    /\ UNCHANGED meaning

CloseScope ==
    /\ Len(scopes) > 1
    /\ scopes' = SubSeq(scopes, 1, Len(scopes) - 1)
    /\ UNCHANGED meaning

DeclareName(n, d) ==
    /\ Innermost[n] = Undeclared
    /\ \A k \in DOMAIN scopes, m \in Names : scopes[k][m] # d
    /\ scopes' = [scopes EXCEPT ![Len(scopes)][n] = d]
    /\ UNCHANGED meaning

UseName(n) ==
    /\ meaning' = Nearest(n)
    /\ UNCHANGED scopes

Next ==
    \/ OpenScope \/ CloseScope
    \/ \E n \in Names : UseName(n) \/ \E d \in Decls : DeclareName(n, d)

Spec == Init /\ [][Next]_scopeVars
=============================================================================
