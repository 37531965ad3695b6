----------------------- MODULE ConstPropagationProofs ------------------------
(***************************************************************************)
(* The optimiser, for hosts of every width and for every function: the     *)
(* algebra the analysis relies on, that do_analyse stops at a fixed point, *)
(* and that the whole of optimize, with what runs after it, uses the flow  *)
(* graph as FlowGraph says a client may.                                   *)
(***************************************************************************)
EXTENDS OptimizedRun, BranchFoldingProofs

(* The two marks are different longs: no value is both "unseen" and "not   *)
(* a constant".                                                            *)
LEMMA MarksDiffer == NAC \in Int /\ UNDEF \in Int /\ NAC # UNDEF
  BY WidthAssumption DEF NAC, UNDEF

(* union_blocks folds ux over the predecessors in list order.  Because ux  *)
(* is commutative, associative and idempotent, neither the order of the    *)
(* list nor a duplicated edge changes the result.                          *)
THEOREM MeetIsSemilattice ==
    ASSUME NEW a \in Int, NEW b \in Int, NEW c \in Int
    PROVE  /\ ux(a, b) = ux(b, a)
           /\ ux(a, ux(b, c)) = ux(ux(a, b), c)
           /\ ux(a, a) = a
           /\ ux(UNDEF, a) = a
           /\ ux(NAC, a) = NAC
<1>1. ux(a, b) = ux(b, a)
  BY DEF ux
<1>2. ux(a, ux(b, c)) = ux(ux(a, b), c)
  BY MarksDiffer DEF ux
<1>3. ux(a, a) = a /\ ux(UNDEF, a) = a /\ ux(NAC, a) = NAC
  BY MarksDiffer DEF ux
<1>4. QED
  BY <1>1, <1>2, <1>3

(* ux computes the greatest lower bound of the order Below: what the       *)
(* analysis claims at a join is implied by every predecessor, and nothing  *)
(* more is given away than the predecessors' disagreement forces.          *)
THEOREM MeetIsGreatestLowerBound ==
    ASSUME NEW a \in Int, NEW b \in Int
    PROVE  /\ Below(ux(a, b), a)
           /\ Below(ux(a, b), b)
           /\ \A c \in Int : Below(c, a) /\ Below(c, b) => Below(c, ux(a, b))
  BY MarksDiffer DEF ux, Below

(* The transfer of a binary operator is monotone: when an operand loses    *)
(* information the result never regains any.  This is what makes the       *)
(* round-robin iteration of do_analyse settle.                             *)
THEOREM BinaryTransferIsMonotone ==
    ASSUME NEW op, NEW l1 \in Int, NEW l2 \in Int, NEW r1 \in Int, NEW r2 \in Int,
           Below(l1, l2), Below(r1, r2)
    PROVE  Below(EvalBinary(op, l1, r1), EvalBinary(op, l2, r2))
<1>1. CASE l1 = NAC \/ r1 = NAC
  BY <1>1 DEF EvalBinary, Below
<1>2. CASE l1 # NAC /\ r1 # NAC /\ (l2 = UNDEF \/ r2 = UNDEF)
  BY <1>2, MarksDiffer DEF EvalBinary, Below
<1>3. CASE l1 # NAC /\ r1 # NAC /\ l2 # UNDEF /\ r2 # UNDEF
  <2>1. l1 = l2 /\ r1 = r2
    BY <1>3 DEF Below
  <2>2. QED
    BY <2>1 DEF Below
<1>4. QED
  BY <1>1, <1>2, <1>3

-----------------------------------------------------------------------------
(* do_analyse ends at a fixed point.  While it runs, the blocks before the *)
(* cursor are settled for as long as nothing has changed in this round.    *)
Cleared(k) == k # Entry /\ k < visiting

AnalysisInv ==
    /\ stage \in {"analyse", "simplify"} =>
          /\ Apart(blocks)
          /\ outs = [k \in Blocks |-> outs[k]] /\ DOMAIN facts = DOMAIN code
          /\ changed \in BOOLEAN /\ visiting \in Nat \ {0}
    /\ stage = "analyse" /\ ~changed => \A k \in Blocks : Cleared(k) => Settled(k)
    /\ AnalysisSettled

LEMMA SameTransfer ==
    ASSUME UNCHANGED <<code, blocks, prev, outs>>, NEW k
    PROVE  transform_block(k, union_blocks(k))' = transform_block(k, union_blocks(k))
  BY DEF transform_block, union_blocks

LEMMA AnalysisStarts == ASSUME RunInit PROVE AnalysisInv
<1>1. GraphInit /\ OptInit
  BY DEF RunInit, OptInit
<1>2. code \in Functions /\ blocks = BlocksOf(code) /\ DOMAIN blocks = Blocks
  BY <1>1, GraphStarts DEF GraphInit, FoldInv
<1>3. Apart(blocks)
  BY <1>2, BlocksAreCut DEF Cut
<1>4. outs = [k \in Blocks |-> outs[k]] /\ DOMAIN facts = DOMAIN code
  BY <1>1, <1>2 DEF OptInit
<1>5. stage = "analyse" /\ visiting = 2 /\ changed = FALSE
  BY <1>1 DEF OptInit
<1>6. \A k \in Blocks : ~Cleared(k)
  <2>1. PICK n \in Nat : Blocks = 1 .. n
    <3>1. TypeOK
      BY <1>1, GraphStarts, InitTypeOK
    <3>2. QED
      BY <3>1, GraphsAssumption DEF TypeOK, GraphOK, Blocks
  <2>2. QED
    BY <1>5, <2>1 DEF Cleared, Entry
<1>7. changed \in BOOLEAN
  BY <1>5
<1>8. visiting \in Nat \ {0}
  BY <1>5
<1>9. QED
  BY <1>3, <1>4, <1>5, <1>6, <1>7, <1>8 DEF AnalysisInv, AnalysisSettled

LEMMA VisitKeeps ==
    ASSUME TypeOK, FoldInv, AnalysisInv, VisitBlock
    PROVE  AnalysisInv'
<1>1. PICK vals : /\ vals = transform_block(visiting, union_blocks(visiting))
                  /\ facts' = [p \in DOMAIN facts |->
                        IF Contains(blocks[visiting], p) THEN vals[p - blocks[visiting][1] + 1] ELSE facts[p]]
                  /\ outs' = [outs EXCEPT ![visiting] = Last(vals)]
                  /\ changed' = (changed \/ Last(vals) # outs[visiting])
  BY DEF VisitBlock
<1>2. /\ stage = "analyse" /\ stage' = stage /\ visiting' = visiting + 1
      /\ UNCHANGED <<code, blocks, next, prev>>
      /\ visiting \in Blocks /\ DOMAIN blocks = Blocks
  BY DEF VisitBlock, allVars, foldVars, vars, FoldInv
<1>3. /\ Apart(blocks) /\ outs = [k \in Blocks |-> outs[k]] /\ DOMAIN facts = DOMAIN code
      /\ changed \in BOOLEAN /\ visiting \in Nat \ {0}
  BY <1>2 DEF AnalysisInv
<1>4. Blocks' = Blocks
  BY <1>2 DEF Blocks
<1>5. outs' = [k \in Blocks |-> outs'[k]] /\ DOMAIN facts' = DOMAIN code'
  BY <1>1, <1>2, <1>3
<1>6. ASSUME ~changed', NEW k \in Blocks, k # Entry, k < visiting + 1 PROVE Settled(k)'
  <2>1. ~changed /\ Last(vals) = outs[visiting]
    BY <1>1, <1>3, <1>6
  <2>2. outs' = outs
    BY <1>1, <1>2, <1>3, <2>1
  <2>3. transform_block(k, union_blocks(k))' = transform_block(k, union_blocks(k))
    BY <1>2, <2>2, SameTransfer
  <2>4. PICK here : here = transform_block(k, union_blocks(k))
    OBVIOUS
  <2>5. /\ outs[k] = Last(here)
        /\ \A p \in DOMAIN code : Contains(blocks[k], p) => facts'[p] = here[p - blocks[k][1] + 1]
    <3>1. CASE k = visiting
      BY <1>1, <1>3, <2>1, <2>4, <3>1
    <3>2. CASE k # visiting
      <4>1. Settled(k)
        <5>1. PICK n \in Nat : Blocks = 1 .. n
          BY GraphsAssumption DEF TypeOK, GraphOK, Blocks
        <5>2. k < visiting
          BY <1>3, <1>6, <3>2, <5>1
        <5>3. QED
          BY <1>2, <1>6, <2>1, <5>2 DEF AnalysisInv, Cleared
      <4>2. \A p \in DOMAIN code : Contains(blocks[k], p) => ~Contains(blocks[visiting], p)
        BY <1>2, <1>3, <3>2 DEF Apart
      <4>3. \A p \in DOMAIN code : Contains(blocks[k], p) => facts'[p] = facts[p]
        BY <1>1, <1>3, <4>2
      <4>4. QED
        BY <2>4, <4>1, <4>3 DEF Settled
    <3>3. QED
      BY <3>1, <3>2
  <2>6. QED
    BY <1>2, <2>2, <2>3, <2>4, <2>5 DEF Settled
<1>7. changed' \in BOOLEAN /\ visiting' \in Nat \ {0}
  BY <1>1, <1>2, <1>3
<1>8. Apart(blocks')
  BY <1>2, <1>3
<1>9. QED
  BY <1>2, <1>4, <1>5, <1>6, <1>7, <1>8 DEF AnalysisInv, AnalysisSettled, Cleared

LEMMA EndRoundKeeps ==
    ASSUME TypeOK, FoldInv, AnalysisInv, EndRound
    PROVE  AnalysisInv'
<1>1. PICK n \in Nat \ {0} : Blocks = 1 .. n
  BY GraphsAssumption DEF TypeOK, GraphOK, Blocks
<1>2. /\ stage = "analyse" /\ visiting \notin Blocks /\ changed' = FALSE
      /\ UNCHANGED <<code, blocks, next, prev, outs, facts>>
      /\ IF changed THEN visiting' = 2 /\ stage' = stage
                    ELSE stage' = "simplify" /\ UNCHANGED visiting
  BY DEF EndRound, allVars, foldVars, vars, FoldInv
<1>3. /\ Apart(blocks) /\ outs = [k \in Blocks |-> outs[k]] /\ DOMAIN facts = DOMAIN code
      /\ changed \in BOOLEAN /\ visiting \in Nat \ {0}
  BY <1>2 DEF AnalysisInv
<1>4. Blocks' = Blocks
  BY <1>2 DEF Blocks
<1>5. \A k : Settled(k)' <=> Settled(k)
  BY <1>2, SameTransfer DEF Settled
<1>6. /\ Apart(blocks') /\ outs' = [k \in Blocks' |-> outs'[k]] /\ DOMAIN facts' = DOMAIN code'
      /\ changed' \in BOOLEAN /\ visiting' \in Nat \ {0}
  <2>1. Apart(blocks')
    BY <1>2, <1>3
  <2>2. outs' = [k \in Blocks' |-> outs'[k]] /\ DOMAIN facts' = DOMAIN code'
    BY <1>2, <1>3, <1>4
  <2>3. changed' \in BOOLEAN
    BY <1>2
  <2>4. visiting' \in Nat \ {0}
    <3>1. CASE changed
      BY <1>2, <3>1
    <3>2. CASE ~changed
      BY <1>2, <1>3, <3>2
    <3>3. QED
      BY <3>1, <3>2
  <2>5. QED
    BY <2>1, <2>2, <2>3, <2>4
<1>7. CASE changed
  <2>1. stage' = "analyse" /\ visiting' = 2
    BY <1>2, <1>7
  <2>2. \A k \in Blocks : ~(k # Entry /\ k < 2)
    BY <1>1 DEF Entry
  <2>3. QED
    BY <1>4, <1>6, <2>1, <2>2 DEF AnalysisInv, AnalysisSettled, Cleared
<1>8. CASE ~changed
  <2>1. stage' = "simplify"
    BY <1>2, <1>8
  <2>2. \A k \in Blocks \ {Entry} : Cleared(k)
    <3>1. PICK e \in Blocks : e = Entry
      BY <1>1 DEF Entry
    <3>2. QED
      BY <1>1, <1>2, <1>3, <1>8 DEF Cleared
  <2>3. \A k \in Blocks \ {Entry} : Settled(k)
    BY <1>2, <1>8, <2>2 DEF AnalysisInv
  <2>4. QED
    BY <1>4, <1>5, <1>6, <2>1, <2>3 DEF AnalysisInv, AnalysisSettled
<1>9. QED
  BY <1>3, <1>7, <1>8

-----------------------------------------------------------------------------
(* algebra_simplify leaves jumps and labels alone and makes none.          *)
Quiet(i) == i.op \notin {"jmp", "jmp_false", "label"}

IsInstr(i) == i = Instr(i.op, i.res, i.l, i.r, i.target)

LEMMA ComputesAreQuiet ==
    ASSUME NEW op, NEW res, NEW l, NEW r, op \notin {"jmp", "jmp_false", "label"}
    PROVE  IsInstr(Compute(op, res, l, r)) /\ Quiet(Compute(op, res, l, r))
  BY DEF IsInstr, Quiet, Compute, Instr

LEMMA SimplifiedBinary ==
    ASSUME NEW i, IsInstr(i), Quiet(i), NEW left, NEW right
    PROVE  IsInstr(SimplifyBinary(i, left, right)) /\ Quiet(SimplifyBinary(i, left, right))
<1>1. /\ \A res, l, r : IsInstr(Compute("assign", res, l, r)) /\ Quiet(Compute("assign", res, l, r))
      /\ \A res, l, r : IsInstr(Compute("minus", res, l, r)) /\ Quiet(Compute("minus", res, l, r))
      /\ \A res, l, r : IsInstr(Compute("neq", res, l, r)) /\ Quiet(Compute("neq", res, l, r))
  BY ComputesAreQuiet
<1>2. \A res, l, r : IsInstr(Compute(i.op, res, l, r)) /\ Quiet(Compute(i.op, res, l, r))
  BY ComputesAreQuiet DEF Quiet
<1>3. QED
  BY <1>1, <1>2 DEF SimplifyBinary

LEMMA SimplifiedKeeps ==
    ASSUME NEW i, IsInstr(i), NEW vals
    PROVE  /\ IsInstr(Simplified(i, vals))
           /\ Quiet(i) => Quiet(Simplified(i, vals))
           /\ ~Quiet(i) => Simplified(i, vals) = i
<1>1. CASE ~Quiet(i)
  <2>1. ~IsExpr(i) /\ i.op \notin {"arg", "return_val"}
    BY <1>1 DEF Quiet, IsExpr, UnaryOps, BinaryOps
  <2>2. Simplified(i, vals) = i
    BY <2>1 DEF Simplified
  <2>3. QED
    BY <1>1, <2>2
<1>2. CASE Quiet(i)
  <2>1. \A l : IsInstr([i EXCEPT !.l = l]) /\ Quiet([i EXCEPT !.l = l])
    BY <1>2 DEF IsInstr, Instr, Quiet
  <2>2. \A res, l : IsInstr(Compute("assign", res, l, NoOperand)) /\ Quiet(Compute("assign", res, l, NoOperand))
    BY ComputesAreQuiet
  <2>3. \A left, right : /\ IsInstr(SimplifyBinary(i, left, right))
                         /\ Quiet(SimplifyBinary(i, left, right))
    BY <1>2, SimplifiedBinary
  <2>4. IsInstr(Simplified(i, vals)) /\ Quiet(Simplified(i, vals))
    BY <1>2, <2>1, <2>2, <2>3 DEF Simplified
  <2>5. QED
    BY <1>2, <2>4
<1>3. QED
  BY <1>1, <1>2

LEMMA SimplifyKeeps == ASSUME FoldInv, Simplify PROVE FoldInv' /\ UNCHANGED vars
<1>1. /\ code' = [p \in DOMAIN code |-> Simplified(code[p], facts[p])]
      /\ UNCHANGED <<vars, blocks>> /\ cut' = cut /\ at' = at
  BY DEF Simplify
<1>2. ASSUME NEW p \in DOMAIN code
      PROVE  /\ IsInstr(code'[p])
             /\ Quiet(code[p]) => Quiet(code'[p])
             /\ ~Quiet(code[p]) => code'[p] = code[p]
  <2>1. IsInstr(code[p])
    BY DEF FoldInv, IsInstr
  <2>2. PICK vals : vals = facts[p]
    OBVIOUS
  <2>3. code'[p] = Simplified(code[p], vals)
    BY <1>1, <2>2
  <2>4. QED
    BY <2>1, <2>3, SimplifiedKeeps
<1>3. \A i : Quiet(i) <=> ~IsJump(i) /\ ~IsLabel(i)
  BY DEF Quiet, IsJump, IsJmp, IsJmpCond, IsLabel
<1>4. DOMAIN code' = DOMAIN code
  BY <1>1
<1>5. \A p \in DOMAIN code :
        /\ code'[p] = Instr(code'[p].op, code'[p].res, code'[p].l, code'[p].r, code'[p].target)
        /\ code'[p].target = code[p].target \/ ~IsJump(code'[p])
        /\ IsJump(code'[p]) <=> IsJump(code[p])
        /\ IsLabel(code'[p]) <=> IsLabel(code[p])
  <2>1. SUFFICES ASSUME NEW p \in DOMAIN code
                 PROVE  /\ IsInstr(code'[p])
                        /\ code'[p].target = code[p].target \/ ~IsJump(code'[p])
                        /\ IsJump(code'[p]) <=> IsJump(code[p])
                        /\ IsLabel(code'[p]) <=> IsLabel(code[p])
    BY DEF IsInstr
  <2>2. QED
    BY <1>2, <1>3
<1>6. ASSUME NEW label PROVE PlaceOf(code', label) = PlaceOf(code, label)
  <2>1. ASSUME NEW p \in DOMAIN code
        PROVE  (IsLabel(code'[p]) /\ code'[p].target = label) <=> (IsLabel(code[p]) /\ code[p].target = label)
    BY <1>2, <1>3
  <2>2. Places(code', label) = Places(code, label)
    BY <1>4, <2>1 DEF Places
  <2>3. QED
    BY <2>2 DEF PlaceOf
<1>7. QED
  BY <1>1, <1>4, <1>5, <1>6, RewrittenInv

LEMMA RunStep ==
    ASSUME TypeOK, FoldInv, AnalysisInv, [RunNext]_sysVars
    PROVE  FoldInv' /\ AnalysisInv' /\ [Next]_vars
<1>1. UNCHANGED allVars => FoldInv' /\ [Next]_vars
  BY FoldStep
<1>2. CASE UNCHANGED optVars
  <2>1. UNCHANGED <<code, blocks, next, prev>> /\ UNCHANGED <<stage, outs, facts, visiting, changed>>
    BY <1>2 DEF optVars, allVars, analysisVars, foldVars, vars
  <2>2. \A k : Settled(k)' <=> Settled(k)
    BY <2>1, SameTransfer DEF Settled
  <2>3. Blocks' = Blocks
    BY <2>1 DEF Blocks
  <2>4. AnalysisInv'
    BY <2>1, <2>2, <2>3 DEF AnalysisInv, AnalysisSettled, Cleared, Apart
  <2>5. QED
    BY <1>1, <1>2, <2>4 DEF optVars
<1>3. CASE VisitBlock \/ EndRound
  <2>1. UNCHANGED allVars
    BY <1>3 DEF VisitBlock, EndRound
  <2>2. QED
    BY <1>1, <1>3, <2>1, VisitKeeps, EndRoundKeeps
<1>4. CASE Simplify
  <2>1. stage' = "fold"
    BY <1>4 DEF Simplify
  <2>2. AnalysisInv'
    BY <2>1 DEF AnalysisInv, AnalysisSettled
  <2>3. QED
    BY <1>4, <2>2, SimplifyKeeps
<1>5. CASE condition_jump_simplify
  <2>1. stage' = "fold" /\ FoldNext
    BY <1>5 DEF condition_jump_simplify, analysisVars
  <2>2. AnalysisInv'
    BY <2>1 DEF AnalysisInv, AnalysisSettled
  <2>3. QED
    BY <2>1, <2>2, FoldStep
<1>6. CASE Enter
  <2>1. stage' = "run" /\ UNCHANGED allVars
    BY <1>6 DEF Enter
  <2>2. AnalysisInv'
    BY <2>1 DEF AnalysisInv, AnalysisSettled
  <2>3. QED
    BY <1>1, <2>1, <2>2
<1>7. CASE Running \/ Stopped
  <2>1. UNCHANGED optVars
    BY <1>7 DEF Running, Passes, Declares, Computes, Reads, TakesAddressOf, Loads, Stores, PushesArgument,
                Calls, Jumps, Branches, Stops, RunOptimized, Stopped, sysVars
  <2>2. QED
    BY <1>2, <2>1
<1>8. CASE UNCHANGED sysVars
  BY <1>2, <1>8 DEF sysVars
<1>9. QED
  BY <1>3, <1>4, <1>5, <1>6, <1>7, <1>8 DEF RunNext, Optimize, OptNext

LEMMA RunningInv == RunSpec => [](TypeOK /\ FoldInv /\ AnalysisInv)
<1>1. RunInit => TypeOK /\ FoldInv /\ AnalysisInv
  BY GraphStarts, InitTypeOK, AnalysisStarts DEF RunInit, OptInit
<1>2. TypeOK /\ FoldInv /\ AnalysisInv /\ [RunNext]_sysVars => TypeOK' /\ FoldInv' /\ AnalysisInv'
  BY RunStep, NextTypeOK
<1>3. QED
  BY <1>1, <1>2, PTL DEF RunSpec

(* When do_analyse has finished, what it holds to be true of a block       *)
(* follows from what it holds of the predecessors, and so does what it     *)
(* says in front of each instruction: no claim is left over from an        *)
(* earlier round.                                                          *)
THEOREM AnalysisReachesFixedPoint == RunSpec => []AnalysisSettled
<1>1. AnalysisInv => AnalysisSettled
  BY DEF AnalysisInv
<1>2. QED
  BY <1>1, RunningInv, PTL

(* optimize, pass by pass, and the program that runs afterwards use the    *)
(* graph as its specification says.                                        *)
THEOREM OptimizerUsesTheGraph == RunSpec => Spec
<1>1. RunInit => Init
  BY GraphStarts DEF RunInit, OptInit
<1>2. TypeOK /\ FoldInv /\ AnalysisInv /\ [RunNext]_sysVars => [Next]_vars
  BY RunStep
<1>3. QED
  BY <1>1, <1>2, RunningInv, PTL DEF RunSpec, Spec
=============================================================================
