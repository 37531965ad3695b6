-------------------------- MODULE ThreeAddressCode --------------------------
(***************************************************************************)
(* The intermediate instructions a function's body is lowered to           *)
(* (ir/inter_code.cpp), the leader rule that cuts an instruction sequence  *)
(* into basic blocks (ir/inter_code_collection.cpp) and the edges that the *)
(* layout of those blocks implies (dataflow/data_flow_graph.cpp).          *)
(*                                                                         *)
(* An instruction is identified by its position in the function's code;    *)
(* the program identifies it by its address.  Labels are instructions, as  *)
(* in the program, and carry the number Variable::tempId gave them.        *)
(***************************************************************************)
EXTENDS Integers, Sequences, FiniteSets, SequencesExt

NoOperand == [none |-> TRUE]
Lit(n)    == [lit |-> n]
Var(v)    == [var |-> v]

IsLit(o) == "lit" \in DOMAIN o
IsVar(o) == "var" \in DOMAIN o

NoVar   == ""
NoLabel == -1

Instr(op, res, l, r, target) ==
    [op |-> op, res |-> res, l |-> l, r |-> r, target |-> target]

LabelInst(n)        == Instr("label", NoVar, NoOperand, NoOperand, n)
Plain(op)           == Instr(op, NoVar, NoOperand, NoOperand, NoLabel)
Jump(op, l, target) == Instr(op, NoVar, l, NoOperand, target)
Declare(v)          == Instr("declare", NoVar, Var(v), NoOperand, NoLabel)
Compute(op, res, l, r) == Instr(op, res, l, r, NoLabel)

UnaryOps  == {"assign", "minus", "not"}
BinaryOps == {"add", "sub", "mul", "div", "mod",
              "gt", "ge", "eq", "neq", "le", "lt", "and", "or"}

IsExpr(i)    == i.op \in UnaryOps \cup BinaryOps
IsDeclare(i) == i.op = "declare"
IsJmp(i)     == i.op = "jmp"
\* The generator only ever emits the "false" form of the conditional jump.
IsJmpCond(i) == i.op = "jmp_false"
IsJump(i)    == IsJmp(i) \/ IsJmpCond(i)
IsReturn(i)  == i.op \in {"return", "return_val"}
IsLabel(i)   == i.op = "label"

(* The position of a label in a code sequence.                             *)
Places(code, label) == {p \in DOMAIN code : IsLabel(code[p]) /\ code[p].target = label}
PlaceOf(code, label) == CHOOSE p \in Places(code, label) : TRUE

Targets(code) == {code[p].target : p \in {q \in DOMAIN code : IsJump(code[q])}}

\* The elements of a set of numbers in ascending order.
Ascending(S) ==
    [k \in 1 .. Cardinality(S) |-> CHOOSE x \in S : Cardinality({y \in S : y < x}) = k - 1]

-----------------------------------------------------------------------------
(***************************************************************************)
(* mark_all_first_inst: the first two instructions and the last one are    *)
(* leaders whatever they are, then the successor and the target of every   *)
(* jump.  A return is not a jump here, so the return point is no leader.   *)
(***************************************************************************)
Leaders(code) ==
    LET n == Len(code)
        jumps == {p \in 1 .. n : IsJump(code[p])}
    IN  {p \in 1 .. n : p <= 2 \/ (n > 2 /\ p = n)}
        \cup {p + 1 : p \in jumps \ {n}}
        \cup {PlaceOf(code, code[p].target) : p \in jumps}

(* create_new_blocks: block k holds the positions from the k-th leader up  *)
(* to the next one.                                                        *)
BlocksOf(code) ==
    LET starts == Ascending(Leaders(code))
        last(k) == IF k = Len(starts) THEN Len(code) ELSE starts[k + 1] - 1
    IN  [k \in DOMAIN starts |-> [j \in 1 .. last(k) - starts[k] + 1 |-> starts[k] + j - 1]]

BlockOf(blocks, p) == CHOOSE k \in DOMAIN blocks : Contains(blocks[k], p)

(***************************************************************************)
(* link_blocks: the sequential edge first, unless the block ends in an     *)
(* unconditional jump, then the edge of the jump.  Nothing removes         *)
(* duplicates: a conditional jump to the next block gives it two edges.    *)
(***************************************************************************)
LastOf(code, blocks, k) == code[Last(blocks[k])]

FallsInto(code, blocks, k) == k < Len(blocks) /\ ~IsJmp(LastOf(code, blocks, k))

TargetBlock(code, blocks, k) == BlockOf(blocks, PlaceOf(code, LastOf(code, blocks, k).target))

JumpsTo(code, blocks, j, k) ==
    IsJump(LastOf(code, blocks, j)) /\ TargetBlock(code, blocks, j) = k

InitialNext(code, blocks) ==
    [k \in DOMAIN blocks |->
        (IF FallsInto(code, blocks, k) THEN <<k + 1>> ELSE <<>>)
        \o (IF IsJump(LastOf(code, blocks, k)) THEN <<TargetBlock(code, blocks, k)>> ELSE <<>>)]

InitialPrev(code, blocks) ==
    [k \in DOMAIN blocks |->
        (IF k > 1 /\ FallsInto(code, blocks, k - 1) THEN <<k - 1>> ELSE <<>>)
        \o Ascending({j \in DOMAIN blocks : JumpsTo(code, blocks, j, k)})]
=============================================================================
