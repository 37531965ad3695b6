---------------------------- MODULE ParsedPrograms ----------------------------
(***************************************************************************)
(* What the parser makes of a program: the parser and its code generator   *)
(* against the grammar of the manual and against the meaning of            *)
(* expressions.  A program may come with the tree it was written from and  *)
(* the statement the tree stands in.                                       *)
(***************************************************************************)
EXTENDS Parser, Expressions

Manual == INSTANCE Grammar

CONSTANT Storage     \* what the slots hold before the statement

NoTree == [is |-> "none", op |-> "", kids |-> <<>>]
HasTree == source.tree # NoTree

-----------------------------------------------------------------------------
(* The instructions at work on the storage; temporaries have slots of      *)
(* their own, which have no address.                                       *)
Held(m, v) ==
    IF v.constant THEN v.value
    ELSE IF v.name \in DOMAIN Layout THEN Read(m, Layout[v.name]) ELSE m.temps[v.name]
Hold(m, v, x) ==
    IF v.name \in DOMAIN Layout THEN Write(m, Layout[v.name], x)
    ELSE [m EXCEPT !.temps = (v.name :> x) @@ @]

Arithmetic == RightOperators
Input == 9     \* what is read
Does(m, i) ==
    CASE i.op = "dec"     -> IF i.result.init = <<>> THEN m ELSE Hold(m, i.result, i.result.init[1].value)
      [] i.op = "assign"  -> Hold(m, i.result, Held(m, i.l))
      [] i.op = "lea"     -> Hold(m, i.result, Layout[i.l.name])
      [] i.op = "ptr_get" -> Hold(m, i.result, Read(m, Held(m, i.l)))
      [] i.op = "ptr_set" -> Write(m, Held(m, i.l), Held(m, i.r))
      [] i.op \in Arithmetic -> Hold(m, i.result, Calculate(i.op, Held(m, i.l), Held(m, i.r)))
      [] i.op = "!"       -> Hold(m, i.result, Bit(Held(m, i.l) = 0))
      [] i.op = "minus"   -> Hold(m, i.result, -Held(m, i.l))
      [] i.op = "arg"     -> [m EXCEPT !.args = <<Held(m, i.l)>> \o @]
      [] i.op = "proc"    -> [Shows(m, <<i.l.name, m.args>>) EXCEPT !.args = <<>>]
      [] i.op = "call"    -> [Hold(Shows(m, <<i.l.name, m.args>>), i.result, Answer(m.args)) EXCEPT !.args = <<>>]
      [] i.op = "print"   -> Shows(m, <<"output", <<Held(m, i.l)>>>>)
      [] i.op = "return value" -> Shows(m, <<"return", <<Held(m, i.l)>>>>)
      [] i.op = "read"    -> IF is_cell(i.result) THEN Write(m, Held(m, get_pointer(i.result)), Input)
                             ELSE Hold(m, i.result, Input)
      [] i.op \in {"enter", "exit", "label", "return"} -> m

Before == [mem |-> Storage, trace |-> <<>>, temps |-> <<>>, args |-> <<>>]
Executed(code) == FoldLeft(Does, Before, code)

\* The statement in which the tree stands.
Meant ==
    LET x == Evaluate(source.tree, Before) IN
    CASE source.frame = "expression" -> x.m
      [] source.frame \in {"output", "return"} -> Shows(x.m, <<source.frame, <<x.v>>>>)
      [] source.frame = "input" -> LET p == PlaceOf(source.tree, Before) IN Write(p.m, p.v, Input)
      [] source.frame = "definition" -> Write(x.m, Layout["z"], x.v)

-----------------------------------------------------------------------------
(* Types of the whole state, and the stack discipline: when the parser has *)
(* ended, every scope, loop and function it has entered is closed and      *)
(* every value has found its taker, whatever was wrong with the program.   *)
TypeOK ==
    /\ at \in 1 .. Len(source.tokens) + 1
    /\ \A k \in DOMAIN values : DOMAIN values[k] = DOMAIN NULL
    /\ g.temps \in Nat /\ g.errors \in Nat /\ g.syntax \in Nat
    /\ Len(g.scopes) > 0
    /\ Ended => /\ values = <<>> /\ g.loops = <<>> /\ g.fun = NoFunction
                /\ Len(g.scopes) = 1
                /\ at = Len(source.tokens) + 1

(* A program is accepted without a syntax error exactly if the manual's    *)
(* grammar derives it: the sets of tokens the parser decides by are those  *)
(* the grammar's phrases begin with.                                       *)
AcceptsGrammar ==
    Ended => (g.syntax = 0 <=> Manual!Derives(source.rule,
                                              [k \in DOMAIN source.tokens |-> Kind(source.tokens[k])]))

(* What the parser does not compare although the manual does: the dividend *)
(* (ir_generator.cpp:283) and the sides of a comparison (182-215) may be   *)
(* addresses; &*p and p++ are the variable p itself (439, 407), to which a  *)
(* value can be assigned.                                                  *)
Unchecked(e) ==
    \E s \in Subtrees(e) :
        \/ s.is = "binary" /\ s.op \in {"/"} \cup Comparing
           /\ \E kid \in KidsOf(s) : TypeOf(kid) # IllTyped /\ IsAddress(TypeOf(kid))
        \/ s.is = "prefix" /\ s.op = "&" /\ s.kids[1].is = "prefix" /\ s.kids[1].op = "*"
        \/ s.is = "postfix" /\ TypeOf(s.kids[1]).holds = "address"

(* A statement is reported exactly if its expression has no type, or none  *)
(* the statement can use.                                                  *)
Usable ==
    LET t == TypeOf(source.tree) IN
    /\ t # IllTyped
    /\ source.frame = "output" => t # Nothing
    /\ source.frame = "return" => t # Nothing
    /\ source.frame = "input" => t # Nothing /\ IsPlace(source.tree) /\ t.holds # "array"
    /\ source.frame = "definition" => Fits(Declared["z"], t)
DiagnosesExactly ==
    Ended /\ HasTree /\ ~Unchecked(source.tree) => (g.errors = 0 <=> Usable)

(* A pointer that is counted up or down, the subject of a run of its own.  *)
Strides(e) ==
    \E s \in Subtrees(e) :
        /\ s.is = "postfix" \/ (s.is = "prefix" /\ s.op \in {"++", "--"})
        /\ TypeOf(s.kids[1]).holds = "address"
Meaningful == HasTree /\ TypeOf(source.tree) # IllTyped /\ ~Unsequenced(source.tree)

(* The code of a statement does to the storage and shows the world what    *)
(* the expression means: operators by precedence, operands from left to    *)
(* right, addresses counted in slots, old and new values told apart.       *)
CodeComputes ==
    LET made == Executed(g.done[1].code) IN
    Ended /\ g.errors + g.syntax = 0 /\ Meaningful => made.mem = Meant.mem /\ made.trace = Meant.trace
CodeComputesTree == Ended /\ HasTree => Strides(source.tree) \/ CodeComputes

(* The same of the pointers that are counted up or down.                   *)
PointersStep == CodeComputes

(* With -ir the optimiser is given what the parser made of a faulty file   *)
(* (compiler.cpp:28): it is whole all the same.  Every label a jump names  *)
(* is placed, once; no operand is missing; a temporary is declared before  *)
(* it is used.                                                             *)
Uses(i) ==
    CASE i.op \in {"dec", "enter", "exit", "label", "jump", "return", "proc", "call"} -> {}
      [] i.op \in {"assign", "lea", "ptr_get", "!", "minus", "arg", "print", "jump false", "return value"} -> {i.l}
      [] i.op = "read" -> {IF is_cell(i.result) THEN get_pointer(i.result) ELSE i.result}
      [] OTHER -> {i.l, i.r}
Labels(code, ops) == {k \in DOMAIN code : code[k].op \in ops}
Jumps == {"jump", "jump false", "return", "return value"}
Whole(code) ==
    /\ \A k \in Labels(code, Jumps) :
          \E j \in Labels(code, {"label"}) : code[j].result = code[k].result
    /\ \A j, k \in Labels(code, {"label"}) : code[j].result = code[k].result => j = k
    /\ \A k \in DOMAIN code : \A v \in Uses(code[k]) :
          /\ v # NULL
          /\ v.name \in {".L" \o ToString(n) : n \in 0 .. g.temps} =>
                \E j \in 1 .. k - 1 : code[j].op = "dec" /\ code[j].result.name = v.name
FaultyCodeIsWhole == Ended => \A k \in DOMAIN g.done : Whole(g.done[k].code)

(* Every file is parsed to its end: whatever the tokens are, each function *)
(* that goes on without being called again has passed one.                 *)
ParsingEnds == <>Ended
=============================================================================
