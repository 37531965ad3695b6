---------------------------- MODULE ProgramSets -----------------------------
(***************************************************************************)
(* Builders for the sets of function bodies the model-checking modules     *)
(* run on.  A body fragment is a sequence of the statements of Lowering;   *)
(* the builders only make fragments the grammar of the language derives.   *)
(***************************************************************************)
EXTENDS IRGenerator

Whiles(conds, bodies) == {<<While(<<>>, c)>> \o b \o <<End>> : c \in conds, b \in bodies}
Ifs(conds, bodies)    == {<<If(<<>>, c)>> \o b \o <<End>> : c \in conds, b \in bodies}
IfElses(conds, as, bs) ==
    {<<If(<<>>, c)>> \o a \o <<Else>> \o b \o <<End>> : c \in conds, a \in as, b \in bs}

Followed(as, bs) == {a \o b : a \in as, b \in bs}

Bodies(as) == {a \o <<End>> : a \in as}
=============================================================================
