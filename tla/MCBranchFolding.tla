-------------------------- MODULE MCBranchFolding ---------------------------
(***************************************************************************)
(* Two families of functions.  Single has one loop or one conditional with *)
(* breaks, continues and returns at every place but the body of an endless *)
(* loop; Nested has loops in loops, endless ones with returns among them.  *)
(***************************************************************************)
EXTENDS BranchFolding, ProgramSets

C == {Var("c")}
K == {Var("c"), Lit(1)}

Prints  == <<Simple(LowerPrint(Var("c")))>>
Leave   == <<Return(Void)>>
Outs    == {<<Break>>, <<Continue>>}

CodeOf(bodies) ==
    {Lowered(b).code : b \in {p \in bodies : Lowered(p).errors = 0}}
GraphsOf(functions) == {GraphOf(c) : c \in functions}

InLoop      == {<<>>, Prints} \cup Outs
LoopBodies  == InLoop \cup Ifs(C, InLoop) \cup Followed(Ifs(C, InLoop), Outs)
SingleLoops == Whiles(K, LoopBodies)
Branches    == IfElses(C, {<<>>, Leave}, {<<>>, Leave})

InnerBodies == {<<>>, Leave} \cup Ifs(C, {Leave, <<Break>>, <<Continue>>})
InnerLoops  == Whiles(K, InnerBodies)
OuterBodies == Followed(InnerLoops, {<<>>} \cup Ifs(C, {<<Break>>}))
Closing     == {<<>>, Leave}

Single == CodeOf(Bodies(SingleLoops \cup Followed(SingleLoops, {Prints}) \cup Branches
                        \cup Ifs(C, Followed(Whiles(K, InLoop), Closing))))
Nested == CodeOf(Bodies(Followed(Whiles(K, OuterBodies), Closing)))

SingleGraphs == GraphsOf(Single)
NestedGraphs == GraphsOf(Nested)
=============================================================================
