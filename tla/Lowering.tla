------------------------------ MODULE Lowering ------------------------------
(***************************************************************************)
(* How one function body becomes three-address code: the recursive descent *)
(* of parser.cpp, one statement at a time, driving the generator.          *)
(***************************************************************************)
EXTENDS IRGenerator

CONSTANT Programs        \* the function bodies, each a sequence of statements

(* Labels, jumps and returns are the statements' own: the code of an       *)
(* expression has none, for && and || compute both operands.               *)
Straight(is) ==
    /\ is \in Seq(ToSet(is))
    /\ \A i \in ToSet(is) : ~IsLabel(i) /\ ~IsJump(i) /\ ~IsReturn(i)

ASSUME ProgramsAssumption ==
    \A p \in Programs :
        /\ p \in Seq(ToSet(p))
        /\ \A s \in ToSet(p) : s.t \in {"while", "if", "simple"} => Straight(s.eval)

-----------------------------------------------------------------------------
VARIABLES body,      \* the statements the parser has still to read
          gen

vars == <<body, gen>>

Init ==
    /\ body \in Programs
    /\ gen = FunctionHead

Reads(kind) ==
    /\ gen.open # <<>> /\ body # <<>>
    /\ Head(body).t = kind
    /\ body' = Tail(body)

Closes(construct) == Reads("end") /\ Innermost(gen).c = construct

while_statement    == Reads("while") /\ gen' = WhileHead(gen, Head(body))
while_end          == Closes("while") /\ gen' = WhileTail(gen)
if_statement       == Reads("if") /\ gen' = IfHead(gen, Head(body))
else_statement     == Reads("else") /\ Innermost(gen).c = "then" /\ gen' = ElseHead(gen)
if_end_without_else == Closes("then") /\ gen' = ElseTail(ElseHead(gen))
else_end           == Closes("else") /\ gen' = ElseTail(gen)
break_statement    == Reads("break") /\ gen' = BreakTo(gen)
continue_statement == Reads("continue") /\ gen' = ContinueTo(gen)
return_statement   == Reads("return") /\ gen' = ReturnTo(gen, Head(body))
simple_statement   == Reads("simple") /\ gen' = EmitAll(gen, Head(body).eval)
function_end       == Closes("body") /\ gen' = Closed(FunctionTail(gen))

Next ==
    \/ while_statement \/ while_end
    \/ if_statement \/ else_statement \/ if_end_without_else \/ else_end
    \/ break_statement \/ continue_statement \/ return_statement
    \/ simple_statement
    \/ function_end

Spec == Init /\ [][Next]_vars /\ WF_vars(Next)

Finished == gen.open = <<>>

-----------------------------------------------------------------------------
(* The loops among the open constructs, and the place of each among them.  *)
Loops   == {k \in DOMAIN gen.open : gen.open[k].c = "while"}
Rank(k) == Cardinality({j \in Loops : j <= k})

(* The two link stacks hold the loops the parser is inside of, innermost   *)
(* last, above the NULL that stands for "outside every loop": a construct  *)
(* that returns without popping, or pops twice, would send a later break   *)
(* or continue to a loop that has ended.                                   *)
LinksFollowLoops ==
    /\ Len(gen.heads) = 1 + Cardinality(Loops) /\ Len(gen.tails) = 1 + Cardinality(Loops)
    /\ gen.heads[1] = NoLabel /\ gen.tails[1] = NoLabel
    /\ \A k \in Loops :
          gen.heads[1 + Rank(k)] = gen.open[k].enter /\ gen.tails[1 + Rank(k)] = gen.open[k].exit

(* The label each open construct still has to place.                       *)
OwedBy(c) ==
    CASE c.c = "body"  -> gen.ret
      [] c.c = "then"  -> c.other
      [] OTHER         -> c.exit

Owed == {OwedBy(gen.open[k]) : k \in DOMAIN gen.open}

(* No label is placed twice, and every jump and return emitted so far goes *)
(* to a label that is placed or that an open construct will place: no      *)
(* function is handed on with a jump to nowhere, whatever the nesting of   *)
(* loops, branches, breaks and returns.                                    *)
EveryJumpLands ==
    /\ \A n \in 0 .. gen.labels - 1 : Cardinality(Places(gen.code, n)) = IF n \in Owed THEN 0 ELSE 1
    /\ \A i \in ToSet(gen.code) : IsJump(i) \/ IsReturn(i) => i.target \in 0 .. gen.labels - 1

(* The stretch of code of every finished loop, from its entry label to its *)
(* exit label.                                                             *)
LoopRegions ==
    {<<PlaceOf(gen.code, n), PlaceOf(gen.code, n + 1)>> :
        n \in {m \in 1 .. gen.labels - 2 :
                 \E p \in DOMAIN gen.code :
                     /\ IsJmp(gen.code[p]) /\ gen.code[p].target = m
                     /\ Places(gen.code, m) # {} /\ Places(gen.code, m + 1) # {}
                     /\ PlaceOf(gen.code, m) < p}}

(* A loop is entered at its head and left at its exit label, or by return: *)
(* no jump crosses the boundary of a loop in either direction.             *)
NoJumpCrossesALoop ==
    Finished => \A p \in DOMAIN gen.code, r \in LoopRegions :
        IsJump(gen.code[p]) =>
            (p \in r[1] .. r[2] <=> PlaceOf(gen.code, gen.code[p].target) \in r[1] .. r[2])
=============================================================================
