---------------------------- MODULE BranchFolding ---------------------------
(***************************************************************************)
(* condition_jump_simplify (optimization/const_opt.cpp) at work on the     *)
(* flow graph of one function: every conditional jump whose condition the  *)
(* analysis knows is turned into a fall-through or an unconditional jump,  *)
(* and the graph is rewired to match; then write_opt_code exports the      *)
(* blocks that are still reachable.                                        *)
(*                                                                         *)
(* What the analysis knows of the conditions is an input here, one set of  *)
(* possible outcomes for every block that ends in a branch: a variable may *)
(* turn out unknown, zero or nonzero, a literal is what it is.             *)
(***************************************************************************)
EXTENDS FlowGraph, ThreeAddressCode

CONSTANT Functions       \* the code of the functions, as the generator leaves it

VARIABLES
    code,        \* the instructions; folding rewrites a jump in place
    blocks,      \* Block::inner_instructs: the positions each block holds
    at,          \* the block condition_jump_simplify looks at
    cut,         \* the jump target about to be unlinked from block at - 1, or Gone
    known,       \* what the analysis may say of the branch that ends each block
    outcome      \* what was decided about it

foldVars == <<code, blocks, at, cut, known, outcome>>
allVars  == <<vars, foldVars>>

GraphOf(c) == [next |-> InitialNext(c, BlocksOf(c)), prev |-> InitialPrev(c, BlocksOf(c))]

(* A body is not empty (generate_function_head), and every jump in it goes *)
(* to a label it holds: the generator places the labels it makes.  Graphs  *)
(* has what link_blocks builds for them.                                   *)
ASSUME FunctionsAssumption ==
    /\ \A c \in Functions :
         /\ c \in Seq(ToSet(c)) /\ c # <<>>
         /\ \A p \in DOMAIN c :
              /\ c[p] = Instr(c[p].op, c[p].res, c[p].l, c[p].r, c[p].target)
              /\ IsJump(c[p]) => Places(c, c[p].target) # {}
    /\ {GraphOf(c) : c \in Functions} \subseteq Graphs

JumpOf(k)       == LastOf(code, blocks, k)
TargetOf(k)     == TargetBlock(code, blocks, k)
EndsInBranch(k) == blocks[k] # <<>> /\ IsJmpCond(JumpOf(k))

(* The graph of a function on which folding has not started.               *)
GraphInit ==
    /\ code \in Functions
    /\ blocks = BlocksOf(code)
    /\ next = GraphOf(code).next /\ prev = GraphOf(code).prev
    /\ visited = {} /\ asked = Entry /\ verdict = "none"
    /\ search = <<>> /\ pending = <<>>
    /\ phase = "fold" /\ exported = {}
    /\ at = 1 /\ cut = Gone
    /\ outcome = [k \in DOMAIN blocks |-> "unknown"]

\* Mutant of BranchOn: the jump is taken on a true condition.
BranchOnTrue(n) == IF n = 0 THEN "never" ELSE "taken"

(* The jump is taken when its condition is zero.                           *)
BranchOn(n) == IF n = 0 THEN "taken" ELSE "never"

MayBe(cond) == IF IsLit(cond) THEN {BranchOn(cond.lit)} ELSE {"unknown", "taken", "never"}

FoldInit ==
    /\ GraphInit
    /\ known = [k \in DOMAIN blocks |-> IF EndsInBranch(k) THEN MayBe(JumpOf(k).l) ELSE {"unknown"}]

Looking == phase = "fold" /\ Idle /\ cut = Gone /\ at \in DOMAIN blocks

JumpErased(k) == [blocks EXCEPT ![k] = Front(@)]

\* Mutant of MovesOn: the block is looked at again.
StaysPut == at' = at

MovesOn == at' = at + 1

FoldSkips ==
    /\ Looking
    /\ EndsInBranch(at) => "unknown" \in known[at]
    /\ MovesOn
    /\ UNCHANGED <<vars, code, blocks, cut, known, outcome>>

Decides(o) ==
    /\ Looking /\ EndsInBranch(at)
    /\ o \in known[at]
    /\ outcome' = [outcome EXCEPT ![at] = o]
    /\ MovesOn

(* A jump always taken to the next block is deleted, any other becomes     *)
(* unconditional; its sequential edge stays.                               *)
FoldTaken ==
    /\ Decides("taken")
    /\ \/ /\ TargetOf(at) = at + 1
          /\ blocks' = JumpErased(at)
          /\ link(at, at + 1)
          /\ UNCHANGED code
       \/ /\ TargetOf(at) # at + 1
          /\ code' = [code EXCEPT ![Last(blocks[at])] = [@ EXCEPT !.op = "jmp"]]
          /\ UNCHANGED <<vars, blocks>>
    /\ UNCHANGED <<cut, known>>

\* Mutant of FoldNever: the edge to the next block is taken away instead.
FoldNeverCutsNext ==
    /\ Decides("never")
    /\ blocks' = JumpErased(at)
    /\ link(at, at + 1)
    /\ cut' = at + 1
    /\ UNCHANGED <<code, known>>

(* A jump never taken is deleted; the sequential edge is made sure of, and *)
(* the jump edge goes unless it leads to the same block.                   *)
FoldNever ==
    /\ Decides("never")
    /\ blocks' = JumpErased(at)
    /\ link(at, at + 1)
    /\ cut' = IF TargetOf(at) # at + 1 THEN TargetOf(at) ELSE Gone
    /\ UNCHANGED <<code, known>>

FoldUnlinks ==
    /\ cut # Gone
    /\ un_link(at - 1, cut)
    /\ cut' = Gone
    /\ UNCHANGED <<code, blocks, at, known, outcome>>

FoldEnds ==
    /\ at \notin DOMAIN blocks /\ cut = Gone
    /\ ExportBegins
    /\ UNCHANGED foldVars

GraphWorks ==
    /\ Searching \/ Pruning \/ ExportContinues \/ ExportEnds
    /\ UNCHANGED foldVars

FoldNext ==
    \/ FoldSkips \/ FoldTaken \/ FoldNever \/ FoldUnlinks \/ FoldEnds
    \/ GraphWorks

FoldSpec == FoldInit /\ [][FoldNext]_allVars /\ WF_allVars(FoldNext)
-----------------------------------------------------------------------------
(* Where control can go from the end of block k when the program runs: a   *)
(* folded branch only goes one way, and a return goes to the return point. *)
LabelBlock(label) == BlockOf(blocks, PlaceOf(code, label))

Flow(k) ==
    CASE outcome[k] = "never" -> {k + 1}
      [] outcome[k] = "taken" /\ blocks[k] # <<>> /\ IsJmp(JumpOf(k)) -> {TargetOf(k)}
      [] outcome[k] = "taken" -> {k + 1}
      [] outcome[k] = "unknown" /\ EndsInBranch(k) -> {k + 1, TargetOf(k)}
      [] OTHER -> IF blocks[k] # <<>> /\ IsJump(JumpOf(k)) THEN {TargetOf(k)}
                  ELSE {k + 1} \cap Blocks

Leaves(k) == \E j \in DOMAIN blocks[k] : IsReturn(code[blocks[k][j]])
ReturnPoint(k) ==
    LabelBlock(code[CHOOSE p \in ToSet(blocks[k]) : IsReturn(code[p])].target)

FlowOrReturn(k) == IF Leaves(k) THEN {ReturnPoint(k)} ELSE Flow(k)

Executable ==
    LET reach[n \in 0 .. Cardinality(Blocks)] ==
            IF n = 0 THEN {Entry}
            ELSE reach[n - 1] \cup UNION {FlowOrReturn(k) : k \in reach[n - 1]}
    IN  reach[Cardinality(Blocks)]
-----------------------------------------------------------------------------
Copies(s, b) == Cardinality({k \in DOMAIN s : s[k] = b})

(* The two directions of every edge are kept in step: block b is in the    *)
(* successor list of a exactly as often as a is in the predecessor list of *)
(* b, through every deduplicated link, single erasure and pruning.         *)
EdgesMirrored ==
    \A a, b \in Blocks : Copies(next[a], b) = Copies(prev[b], a)

(* Pruning takes the edges of a block away only when nothing reaches it.   *)
PrunesOnlyDead == verdict = "no" /\ pending # <<>> => ~Reachable(asked)

(* Code that can run is in the optimised function.                         *)
ExecutableExported == phase = "done" => Executable \subseteq exported

(* The passes over one function come to an end.                            *)
FoldingEnds == <>(phase = "done")
=============================================================================
