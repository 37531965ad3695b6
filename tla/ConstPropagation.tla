--------------------------- MODULE ConstPropagation --------------------------
(***************************************************************************)
(* ConstPropagation::optimize (optimization/const_opt.cpp) on one          *)
(* function: do_analyse iterates the transfer function over the blocks in  *)
(* layout order until a whole round changes nothing, algebra_simplify      *)
(* rewrites the instructions with what is known in front of each, and      *)
(* condition_jump_simplify folds the branches (BranchFolding) before the   *)
(* reachable blocks are exported.                                          *)
(***************************************************************************)
EXTENDS BranchFolding, ConstLattice

CONSTANTS
    Globals,        \* the program's global variables
    Params,         \* the function's parameters
    Pointers,       \* the variables that hold addresses (not is_basic_type)
    Inits,          \* the locals declared with a literal, and the literal
    TakesAddress    \* the functions with a pointer among their parameters

VARIABLES
    source,         \* the function's code before any rewriting
    stage,          \* "analyse", "simplify", "fold"; "run" when the result is used
    outs,           \* Block::out_vals
    facts,          \* IntermediateInstruct::in_vals
    visiting,       \* the block do_analyse is about to visit
    changed         \* the negation of stopIter

analysisVars == <<source, stage, outs, facts, visiting, changed>>
optVars      == <<allVars, analysisVars>>

Declared(c)   == {c[p].l.var : p \in {q \in DOMAIN c : IsDeclare(c[q])}}
Registered(c) == Globals \cup Params \cup Declared(c)

initial_lattice_value(v) ==
    IF v \in Pointers THEN NAC
    ELSE IF v \in DOMAIN Inits THEN Inits[v]
    ELSE UNDEF

Bounds(c) == [v \in Registered(c) |-> IF v \in Params \ Globals THEN NAC ELSE initial_lattice_value(v)]
Unseen(c) == [v \in Registered(c) |-> UNDEF]

-----------------------------------------------------------------------------
(* The transfer function.                                                  *)
ValueOf(o, vals) ==
    IF IsLit(o) THEN o.lit
    ELSE IF IsVar(o) /\ o.var \in DOMAIN vals THEN vals[o.var]
    ELSE NAC

Killed(vals, S)       == [v \in DOMAIN vals |-> IF v \in S THEN NAC ELSE vals[v]]
Assigned(vals, v, n)  == [w \in DOMAIN vals |-> IF w = v THEN n ELSE vals[w]]

\* Mutant of KillsAll: an address passed to a function kills nothing.
KillsOnStore(i) == i.op \in {"ptr_set", "read_cell"}

KillsAll(i) ==
    \/ i.op \in {"ptr_set", "read_cell"}
    \/ i.op = "arg" /\ IsVar(i.l) /\ i.l.var \in Pointers
    \/ i.op \in {"proc", "call"} /\ i.l.fun \in TakesAddress

fx(i, vals) ==
    CASE i.op \in UnaryOps             -> Assigned(vals, i.res, EvalUnary(i.op, ValueOf(i.l, vals)))
      [] i.op \in BinaryOps            ->
            Assigned(vals, i.res, EvalBinary(i.op, ValueOf(i.l, vals), ValueOf(i.r, vals)))
      [] KillsAll(i)                   -> Killed(vals, DOMAIN vals)
      [] i.op \in {"lea", "ptr_get", "read"} -> Killed(vals, {i.res})
      [] i.op \in {"proc", "call"} /\ ~KillsAll(i) -> Killed(vals, Globals \cup {i.res})
      [] OTHER                         -> vals

(* A block without predecessors keeps the value "unseen".                  *)
Joined(k, preds, vals) ==
    LET live == SelectSeq(preds, LAMBDA b : b # Gone)
    IN  [v \in DOMAIN vals[k] |-> FoldLeft(ux, UNDEF, [j \in DOMAIN live |-> vals[live[j]][v]])]

union_blocks(k) == Joined(k, prev[k], outs)

(* What is known in front of each instruction of a block and behind the    *)
(* last, from what is known on entry.                                      *)
AlongBlock(c, block, ins) ==
    LET step(known_so_far, p) == Append(known_so_far, fx(c[p], Last(known_so_far)))
    IN  FoldLeft(step, <<ins>>, block)

transform_block(k, ins) == AlongBlock(code, blocks[k], ins)

-----------------------------------------------------------------------------
OptInit ==
    /\ GraphInit
    /\ known = [k \in DOMAIN blocks |-> {"unknown"}]
    /\ source = code
    /\ stage = "analyse"
    /\ outs = [k \in DOMAIN blocks |-> IF k = Entry THEN Bounds(code) ELSE Unseen(code)]
    /\ facts = [p \in DOMAIN code |-> Unseen(code)]
    /\ visiting = 2 /\ changed = FALSE

\* Mutant of VisitBlock: the out values are stored before they are compared.
VisitBlockOverwrites ==
    /\ stage = "analyse" /\ visiting \in DOMAIN blocks
    /\ \E vals \in {transform_block(visiting, union_blocks(visiting))} :
       LET b == blocks[visiting]
       IN  /\ facts' = [p \in DOMAIN facts |->
                            IF Contains(b, p) THEN vals[p - b[1] + 1] ELSE facts[p]]
           /\ outs' = [outs EXCEPT ![visiting] = Last(vals)]
           /\ changed' = (changed \/ Last(vals) # outs'[visiting])
    /\ visiting' = visiting + 1
    /\ UNCHANGED <<allVars, source, stage>>

VisitBlock ==
    /\ stage = "analyse" /\ visiting \in DOMAIN blocks
    /\ \E vals \in {transform_block(visiting, union_blocks(visiting))} :
       LET b == blocks[visiting]
       IN  /\ facts' = [p \in DOMAIN facts |->
                            IF Contains(b, p) THEN vals[p - b[1] + 1] ELSE facts[p]]
           /\ outs' = [outs EXCEPT ![visiting] = Last(vals)]
           /\ changed' = (changed \/ Last(vals) # outs[visiting])
    /\ visiting' = visiting + 1
    /\ UNCHANGED <<allVars, source, stage>>

\* Mutant of EndRound: stopIter is not set back at the start of a round.
EndRoundKeepsFlag ==
    /\ stage = "analyse" /\ visiting \notin DOMAIN blocks
    /\ IF changed THEN visiting' = 2 /\ stage' = stage
                  ELSE stage' = "simplify" /\ UNCHANGED visiting
    /\ UNCHANGED <<allVars, source, outs, facts, changed>>

EndRound ==
    /\ stage = "analyse" /\ visiting \notin DOMAIN blocks
    /\ IF changed THEN visiting' = 2 /\ stage' = stage
                  ELSE stage' = "simplify" /\ UNCHANGED visiting
    /\ changed' = FALSE
    /\ UNCHANGED <<allVars, source, outs, facts>>

-----------------------------------------------------------------------------
(* algebra_simplify.  The result is not a constant here; left is looked at *)
(* first, right only when left is unknown.                                 *)
SimplifyBinary(i, left, right) ==
    LET OnLeft(S)  == IsConst(left) /\ left \in S
        OnRight(S) == ~IsConst(left) /\ IsConst(right) /\ right \in S
        Either(S)  == OnLeft(S) \/ OnRight(S)
        NonZero    == Long \ {0}
        Becomes(op, l, r) == Compute(op, i.res, l, r)
        Copy(o)    == Becomes("assign", o, NoOperand)
        Test(o)    == Becomes("neq", o, Lit(0))
    IN  CASE i.op = "add" /\ OnLeft({0})  -> Copy(i.r)
          [] i.op = "add" /\ OnRight({0}) -> Copy(i.l)
          [] i.op = "sub" /\ OnLeft({0})  -> Becomes("minus", i.r, NoOperand)
          [] i.op = "sub" /\ OnRight({0}) -> Copy(i.l)
          [] i.op = "mul" /\ Either({0})  -> Copy(Lit(0))
          [] i.op = "mul" /\ OnLeft({1})  -> Copy(i.r)
          [] i.op = "mul" /\ OnRight({1}) -> Copy(i.l)
          [] i.op = "div" /\ OnLeft({0})  -> Copy(Lit(0))
          [] i.op = "div" /\ OnRight({1}) -> Copy(i.l)
          [] i.op = "mod" /\ (OnLeft({0}) \/ OnRight({1})) -> Copy(Lit(0))
          [] i.op = "and" /\ Either({0})       -> Copy(Lit(0))
          [] i.op = "and" /\ OnLeft(NonZero)   -> Test(i.r)
          [] i.op = "and" /\ OnRight(NonZero)  -> Test(i.l)
          [] i.op = "or"  /\ Either(NonZero)   -> Copy(Lit(1))
          [] i.op = "or"  /\ OnLeft({0})       -> Test(i.r)
          [] i.op = "or"  /\ OnRight({0})      -> Test(i.l)
          [] OTHER -> IF IsConst(left) THEN Becomes(i.op, Lit(ToInt(left)), i.r)
                      ELSE IF IsConst(right) THEN Becomes(i.op, i.l, Lit(ToInt(right)))
                      ELSE i

Simplified(i, vals) ==
    LET after == fx(i, vals)
    IN  CASE IsExpr(i) /\ i.res \in DOMAIN vals ->
                IF IsConst(after[i.res])
                THEN Compute("assign", i.res, Lit(ToInt(after[i.res])), NoOperand)
                ELSE IF i.op \in BinaryOps
                THEN SimplifyBinary(i, ValueOf(i.l, vals), ValueOf(i.r, vals))
                ELSE i
          [] i.op \in {"arg", "return_val"} /\ IsVar(i.l) /\ IsConst(ValueOf(i.l, after)) ->
                [i EXCEPT !.l = Lit(ToInt(ValueOf(i.l, after)))]
          [] OTHER -> i

(* The position of the jump at the end of a block is that of its last      *)
(* instruction; a function without variables has no values to go by.       *)
KnownOf(k) ==
    LET p == Last(blocks[k])
        c == ValueOf(code[p].l, facts[p])
    IN  IF EndsInBranch(k) /\ Registered(source) # {} /\ IsConst(c) THEN BranchOn(c) ELSE "unknown"

Simplify ==
    /\ stage = "simplify"
    /\ code' = [p \in DOMAIN code |-> Simplified(code[p], facts[p])]
    /\ known' = [k \in DOMAIN blocks |-> {KnownOf(k)}]
    /\ stage' = "fold"
    /\ UNCHANGED <<vars, blocks, at, cut, outcome, source, outs, facts, visiting, changed>>

condition_jump_simplify ==
    /\ stage = "fold" /\ phase # "done"
    /\ FoldNext
    /\ UNCHANGED analysisVars

OptNext == VisitBlock \/ EndRound \/ Simplify \/ condition_jump_simplify

-----------------------------------------------------------------------------
(* Information is only ever lost: the value a block hands on goes from     *)
(* unseen to a constant to "not a constant" and never back.  The rounds    *)
(* come to an end because of this, each variable changing at most twice.   *)
OutsDescend ==
    [][\A k \in Blocks : \A v \in Registered(source) : Below(outs'[k][v], outs[k][v])]_outs

(* What is known of block k agrees with what its predecessors hand on.     *)
Settled(k) ==
    LET vals == transform_block(k, union_blocks(k))
    IN  /\ outs[k] = Last(vals)
        /\ \A p \in DOMAIN code : Contains(blocks[k], p) => facts[p] = vals[p - blocks[k][1] + 1]

(* When do_analyse has finished, the values of every block and in front of *)
(* every instruction follow from those at the ends of its predecessors:    *)
(* no claim rests on what a predecessor said in an earlier round.          *)
AnalysisSettled == stage = "simplify" => \A k \in Blocks \ {Entry} : Settled(k)

(* The optimisation of every function comes to an end.                     *)
OptimizationEnds == <>(phase = "done")
=============================================================================
