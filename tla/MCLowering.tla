----------------------------- MODULE MCLowering -----------------------------
(***************************************************************************)
(* Bodies with up to two statements per level and two levels of nesting,   *)
(* misplaced breaks and continues among them.                              *)
(***************************************************************************)
EXTENDS Lowering, ProgramSets

Conds  == {Var("c")}
Leaves == {<<Break>>, <<Continue>>, <<Return(Void)>>, <<Simple(LowerPrint(Var("c")))>>}

Flat   == {<<>>} \cup Leaves
Inner  == Whiles(Conds, Flat) \cup Ifs(Conds, Flat) \cup IfElses(Conds, Flat, Flat)
Nested == Flat \cup Inner \cup Followed(Inner, Leaves) \cup Followed(Leaves, Inner)
Outer  == Whiles(Conds \cup {Void}, Nested) \cup Ifs(Conds, Nested)

MCPrograms == Bodies(Nested \cup Outer \cup Followed(Outer, Leaves)
                            \cup Followed(Inner, Inner))
=============================================================================
