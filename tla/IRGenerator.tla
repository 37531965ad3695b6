----------------------------- MODULE IRGenerator -----------------------------
(***************************************************************************)
(* The intermediate code generator (ir_generator.cpp) as operators on its  *)
(* state, and the statements of a function body as the parser delivers     *)
(* them to it, in source order.  "while" and "if" open a construct, "else" *)
(* ends the first branch and opens the second, "end" closes the innermost  *)
(* construct (the last "end" closes the body).  The code of the            *)
(* expressions inside a statement comes with the statement, built by the   *)
(* Lower... operators.                                                     *)
(*                                                                         *)
(* A generator state g is a record:                                        *)
(*   code   the instructions emitted so far                                *)
(*   heads  head_link, tails  tail_link: the loops break and continue see  *)
(*   labels the next number Variable::tempId hands to a label              *)
(*   open   the constructs whose parser call has not returned              *)
(*   ret    the function's return point                                    *)
(*   errors the semantic errors reported                                   *)
(***************************************************************************)
EXTENDS ThreeAddressCode

-----------------------------------------------------------------------------
(* Expressions.  A temporary is declared before the instruction that fills *)
(* it; an increment of a plain variable works in place.                    *)
LowerBinary(tmp, op, l, r) == <<Declare(tmp), Compute(op, tmp, l, r)>>
LowerAssign(x, o)          == <<Compute("assign", x, o, NoOperand)>>
LowerIncrement(x)          == <<Compute("add", x, Var(x), Lit(1))>>
LowerRead(x)               == <<Compute("read", x, NoOperand, NoOperand)>>
\* input *p: the target of the read is the cell p points to.
LowerReadCell(p)           == <<Compute("read_cell", NoVar, Var(p), NoOperand)>>
LowerPrint(o)              == <<Compute("print", NoVar, o, NoOperand)>>
LowerAddressOf(tmp, x)     == <<Declare(tmp), Compute("lea", tmp, Var(x), NoOperand)>>
LowerStore(p, o)           == <<Compute("ptr_set", NoVar, Var(p), o)>>
LowerLoad(tmp, p)          == <<Declare(tmp), Compute("ptr_get", tmp, Var(p), NoOperand)>>

\* Arguments are pushed from the last to the first, then the call is emitted.
LowerArguments(args) ==
    [k \in DOMAIN args |-> Compute("arg", NoVar, Reverse(args)[k], NoOperand)]
LowerCall(tmp, f, args) ==
    <<>> \o LowerArguments(args)
         \o <<Declare(tmp), Compute("call", tmp, [fun |-> f], NoOperand)>>
LowerProc(f, args) ==
    <<>> \o LowerArguments(args) \o <<Compute("proc", NoVar, [fun |-> f], NoOperand)>>

Void == [void |-> TRUE]
\* A condition without a value counts as true.
Condition(o) == IF o = Void THEN Lit(1) ELSE o

(* The statements a body is made of.                                       *)
While(eval, cond) == [t |-> "while", eval |-> eval, cond |-> cond]
If(eval, cond)    == [t |-> "if", eval |-> eval, cond |-> cond]
Else              == [t |-> "else"]
End               == [t |-> "end"]
Break             == [t |-> "break"]
Continue          == [t |-> "continue"]
Return(o)         == [t |-> "return", val |-> o]
Simple(eval)      == [t |-> "simple", eval |-> eval]

-----------------------------------------------------------------------------
EmitAll(g, is) == [g EXCEPT !.code = @ \o is]
Emit(g, i)     == EmitAll(g, <<i>>)

(* generate_function_head: the return point is created now, placed last.   *)
FunctionHead ==
    [code |-> <<Plain("enter")>>, heads |-> <<NoLabel>>, tails |-> <<NoLabel>>,
     labels |-> 1, open |-> <<[c |-> "body"]>>, ret |-> 0, errors |-> 0]

FunctionTail(g) == EmitAll(g, <<LabelInst(g.ret), Plain("exit")>>)

\* Mutant of PopLoop: the loop's tail stays on its stack.
PopHeadOnly(g) == [g EXCEPT !.heads = Front(@)]

PushLoop(g, enter, exit) == [g EXCEPT !.heads = Append(@, enter), !.tails = Append(@, exit)]
PopLoop(g)               == [g EXCEPT !.heads = Front(@), !.tails = Front(@)]

Opened(g, construct) == [g EXCEPT !.open = Append(@, construct)]
Closed(g)            == [g EXCEPT !.open = Front(@)]
Innermost(g)         == Last(g.open)

(* generate_while_head, the condition's code, generate_while_conditions.   *)
WhileHead(g, s) ==
    LET enter == g.labels
        exit  == g.labels + 1
        h     == PushLoop([g EXCEPT !.labels = @ + 2], enter, exit)
    IN  Opened(EmitAll(h, <<LabelInst(enter)>> \o s.eval
                          \o <<Jump("jmp_false", Condition(s.cond), exit)>>),
               [c |-> "while", enter |-> enter, exit |-> exit])

WhileTail(g) ==
    LET w == Innermost(g)
    IN  Closed(PopLoop(EmitAll(g, <<Jump("jmp", NoOperand, w.enter), LabelInst(w.exit)>>)))

IfHead(g, s) ==
    LET other == g.labels
    IN  Opened(EmitAll([g EXCEPT !.labels = @ + 1],
                       s.eval \o <<Jump("jmp_false", s.cond, other)>>),
               [c |-> "then", other |-> other])

(* generate_else_head runs after every first branch, else or no else.      *)
ElseHead(g) ==
    LET exit == g.labels
    IN  Opened(Closed(EmitAll([g EXCEPT !.labels = @ + 1],
                              <<Jump("jmp", NoOperand, exit), LabelInst(Innermost(g).other)>>)),
               [c |-> "else", exit |-> exit])

\* Mutant of ElseTail: a branch without else leaves its exit label unplaced.
ElseTailUnplaced(g) == Closed(g)

ElseTail(g) == Closed(Emit(g, LabelInst(Innermost(g).exit)))

JumpOrError(g, label) ==
    IF label = NoLabel THEN [g EXCEPT !.errors = @ + 1]
                       ELSE Emit(g, Jump("jmp", NoOperand, label))

\* Mutant of BreakTo: break leaves the outermost loop.
BreakOutermost(g) == JumpOrError(g, IF Len(g.tails) > 1 THEN g.tails[2] ELSE NoLabel)

BreakTo(g)    == JumpOrError(g, Last(g.tails))
ContinueTo(g) == JumpOrError(g, Last(g.heads))

ReturnTo(g, s) ==
    Emit(g, IF s.val = Void THEN Jump("return", NoOperand, g.ret)
                            ELSE Jump("return_val", s.val, g.ret))

-----------------------------------------------------------------------------
(* The same translation as an operator, for the modules that start from    *)
(* the finished code of a function.                                        *)
Translate(g, s) ==
    CASE s.t = "while"    -> WhileHead(g, s)
      [] s.t = "if"       -> IfHead(g, s)
      [] s.t = "else"     -> ElseHead(g)
      [] s.t = "break"    -> BreakTo(g)
      [] s.t = "continue" -> ContinueTo(g)
      [] s.t = "return"   -> ReturnTo(g, s)
      [] s.t = "simple"   -> EmitAll(g, s.eval)
      [] s.t = "end" ->
            CASE Innermost(g).c = "while" -> WhileTail(g)
              [] Innermost(g).c = "then"  -> ElseTail(ElseHead(g))
              [] Innermost(g).c = "else"  -> ElseTail(g)
              [] OTHER                    -> Closed(FunctionTail(g))

Lowered(program) == FoldLeft(Translate, FunctionHead, program)
=============================================================================
