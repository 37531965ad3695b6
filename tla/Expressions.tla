------------------------------ MODULE Expressions ------------------------------
(***************************************************************************)
(* What an expression means, said of its tree: how it is written with as   *)
(* few parentheses as the precedences of the manual allow (grammar_EN.md   *)
(* 3.6), its type (2.3-2.4, 3.5), and what it does to the storage, where   *)
(* every value fills one slot.  The parser's code is compared with it.     *)
(*                                                                         *)
(* A tree is a record: is tells its kind, op the operator, the name or the *)
(* literal's token, kids the operands.                                     *)
(***************************************************************************)
EXTENDS Integers, Sequences, FiniteSets, TLC

CONSTANTS
    Declared,      \* the type of each variable
    Signatures,    \* the result and the parameters of each function
    Layout,        \* the address of each variable
    Worth          \* the value of each literal

Leaf(x)       == [is |-> IF x \in DOMAIN Worth THEN "literal" ELSE "variable", op |-> x, kids |-> <<>>]
Prefix(op, e) == [is |-> "prefix", op |-> op, kids |-> <<e>>]
Postfix(op, e) == [is |-> "postfix", op |-> op, kids |-> <<e>>]
Binary(op, l, r) == [is |-> "binary", op |-> op, kids |-> <<l, r>>]
Index(x, e)   == [is |-> "index", op |-> x, kids |-> <<e>>]
Apply(f, es)  == [is |-> "call", op |-> f, kids |-> es]

Comparing == {">", ">=", "<", "<=", "==", "!="}
Precedence(e) ==
    CASE e.is = "prefix" -> 7 [] e.is = "postfix" -> 8
      [] e.is = "binary" ->
            (CASE e.op = "=" -> 1 [] e.op = "||" -> 2 [] e.op = "&&" -> 3 [] e.op \in Comparing -> 4
               [] e.op \in {"+", "-"} -> 5 [] e.op \in {"*", "/", "%"} -> 6)
      [] OTHER -> 9

RECURSIVE Written(_)
Written(e) ==
    LET at(level, kid) == IF Precedence(kid) >= level THEN Written(kid)
                          ELSE <<"(">> \o Written(kid) \o <<")">>
        own == Precedence(e)
    IN  CASE e.is \in {"literal", "variable"} -> <<e.op>>
          [] e.is = "prefix"  -> <<e.op>> \o at(7, e.kids[1])
          [] e.is = "postfix" -> at(9, e.kids[1]) \o <<e.op>>
          [] e.is = "index"   -> <<e.op, "[">> \o Written(e.kids[1]) \o <<"]">>
          [] e.is = "call"    ->
                (CASE Len(e.kids) = 0 -> <<e.op, "(", ")">>
                   [] Len(e.kids) = 1 -> <<e.op, "(">> \o Written(e.kids[1]) \o <<")">>
                   [] Len(e.kids) = 2 -> <<e.op, "(">> \o Written(e.kids[1]) \o <<",">>
                                         \o Written(e.kids[2]) \o <<")">>)
          [] e.is = "binary"  ->
                IF e.op = "=" THEN at(2, e.kids[1]) \o <<"=">> \o at(1, e.kids[2])
                ELSE at(own, e.kids[1]) \o <<e.op>> \o at(own + 1, e.kids[2])

-----------------------------------------------------------------------------
(* Types: what a value is, or what an address leads to.                    *)
Plain(base)   == [base |-> base, holds |-> "value"]
Pointer(base) == [base |-> base, holds |-> "address"]
Array(base)   == [base |-> base, holds |-> "array"]
Nothing  == Plain("void")
IllTyped == Plain("")

IsAddress(t) == t.holds # "value"
Fits(target, t) ==
    /\ t \notin {Nothing, IllTyped} /\ IsAddress(target) = IsAddress(t)
    /\ IsAddress(target) => target.base = t.base

\* A place is what can be assigned to: storage with a name, or found through an address.
IsPlace(e) ==
    \/ e.is \in {"variable", "index"}
    \/ e.is = "prefix" /\ e.op \in {"*", "++", "--"}
    \/ e.is = "binary" /\ e.op = "="

RECURSIVE TypeOf(_)
TypeOf(e) ==
    LET t == [k \in DOMAIN e.kids |-> TypeOf(e.kids[k])]
        sound == \A k \in DOMAIN t : t[k] # IllTyped
        When(condition, type) == IF condition THEN type ELSE IllTyped
        modified == When(IsPlace(e.kids[1]) /\ t[1] # Nothing /\ t[1].holds # "array", t[1])
    IN  IF ~sound THEN IllTyped
        ELSE CASE e.is = "literal"  -> Plain("int")
               [] e.is = "variable" -> Declared[e.op]
               [] e.is = "index"    -> When(IsAddress(Declared[e.op]) /\ Fits(Plain("int"), t[1]),
                                            Plain(Declared[e.op].base))
               [] e.is = "call"     ->
                     LET f == Signatures[e.op]
                     IN  When(Len(f.params) = Len(t) /\ \A k \in DOMAIN t : Fits(f.params[k], t[k]),
                              f.result)
               [] e.is = "postfix"  -> modified
               [] e.is = "prefix"   ->
                     (CASE e.op \in {"++", "--"} -> modified
                        [] e.op = "-" -> When(t[1] # Nothing /\ ~IsAddress(t[1]), Plain("int"))
                        [] e.op = "!" -> When(t[1] # Nothing, Plain("int"))
                        [] e.op = "&" -> When(IsPlace(e.kids[1]), Pointer(t[1].base))
                        [] e.op = "*" -> When(IsAddress(t[1]), Plain(t[1].base)))
               [] e.is = "binary"   ->
                     LET l == t[1] r == t[2] IN
                     IF Nothing \in {l, r} THEN IllTyped
                     ELSE CASE e.op = "=" -> When(IsPlace(e.kids[1]) /\ l.holds # "array" /\ Fits(l, r), l)
                            [] e.op = "+" -> IF IsAddress(l) THEN When(~IsAddress(r), Pointer(l.base))
                                             ELSE IF IsAddress(r) THEN Pointer(r.base) ELSE Plain("int")
                            [] e.op = "-" -> IF ~IsAddress(l) THEN When(~IsAddress(r), Plain("int"))
                                             ELSE IF IsAddress(r) THEN When(l.base = r.base, Plain("int"))
                                             ELSE Pointer(l.base)
                            [] e.op \in {"*", "/", "%"} ->
                                   When(~IsAddress(l) /\ ~IsAddress(r), Plain("int"))
                            [] e.op \in Comparing -> When(Fits(l, r), Plain("int"))
                            [] e.op \in {"&&", "||"} -> Plain("int")

-----------------------------------------------------------------------------
(* The storage: what each slot holds, and what the world has seen.  An     *)
(* address no variable has reads as something of its own.                  *)
Slot == 8
Read(m, a)     == IF a \in DOMAIN m.mem THEN m.mem[a] ELSE a
Write(m, a, v) == [m EXCEPT !.mem = (a :> v) @@ @]
Shows(m, what) == [m EXCEPT !.trace = Append(@, what)]
Bit(b) == IF b THEN 1 ELSE 0

Quotient(x, y) ==
    LET abs(n) == IF n < 0 THEN -n ELSE n
        q      == abs(x) \div abs(y)
    IN  IF y = 0 THEN 0 ELSE IF (x < 0) = (y < 0) THEN q ELSE -q

Calculate(op, x, y) ==
    CASE op = "+" -> x + y [] op = "-" -> x - y [] op = "*" -> x * y
      [] op = "/" -> Quotient(x, y) [] op = "%" -> x - y * Quotient(x, y)
      [] op = ">" -> Bit(x > y) [] op = ">=" -> Bit(x >= y) [] op = "<" -> Bit(x < y)
      [] op = "<=" -> Bit(x <= y) [] op = "==" -> Bit(x = y) [] op = "!=" -> Bit(x # y)
      [] op = "&&" -> Bit(x # 0 /\ y # 0) [] op = "||" -> Bit(x # 0 \/ y # 0)

\* What a function returns; what it was called with is seen by the world.
Answer(args) == IF args = <<>> THEN 4 ELSE args[1] + 1

\* How far the value of e moves when it is counted up by one.
StepOf(e) == IF TypeOf(e).holds = "address" THEN Slot ELSE 1

RECURSIVE Evaluate(_, _), PlaceOf(_, _)

PlaceOf(e, m) ==
    LET kid == e.kids[1] IN
    CASE e.is = "variable" -> [v |-> Layout[e.op], m |-> m]
      [] e.is = "index"    ->
            LET i == Evaluate(kid, m) b == Evaluate(Leaf(e.op), i.m)
            IN  [v |-> b.v + Slot * i.v, m |-> i.m]
      [] e.is = "prefix" /\ e.op = "*" -> Evaluate(kid, m)
      [] e.is = "prefix" /\ e.op \in {"++", "--"} ->
            LET p == PlaceOf(kid, m)
                new == Read(p.m, p.v) + (IF e.op = "++" THEN StepOf(kid) ELSE -StepOf(kid))
            IN  [v |-> p.v, m |-> Write(p.m, p.v, new)]
      [] e.is = "binary" /\ e.op = "=" ->
            LET p == PlaceOf(kid, m) r == Evaluate(e.kids[2], p.m)
            IN  [v |-> p.v, m |-> Write(r.m, p.v, r.v)]

Evaluate(e, m) ==
    LET kid == e.kids[1] IN
    CASE e.is = "literal" -> [v |-> Worth[e.op], m |-> m]
      [] e.is = "variable" ->
            [v |-> IF Declared[e.op].holds = "array" THEN Layout[e.op] ELSE Read(m, Layout[e.op]), m |-> m]
      [] e.is = "postfix" ->
            LET p == PlaceOf(kid, m) old == Read(p.m, p.v)
            IN  [v |-> old,
                 m |-> Write(p.m, p.v, old + (IF e.op = "++" THEN StepOf(kid) ELSE -StepOf(kid)))]
      [] e.is = "prefix" /\ e.op = "&" -> PlaceOf(kid, m)
      [] e.is = "prefix" /\ e.op = "-" -> LET x == Evaluate(kid, m) IN [x EXCEPT !.v = -@]
      [] e.is = "prefix" /\ e.op = "!" -> LET x == Evaluate(kid, m) IN [x EXCEPT !.v = Bit(@ = 0)]
      [] e.is = "call" ->
            LET after[k \in 0 .. Len(e.kids)] ==
                    IF k = 0 THEN [vs |-> <<>>, m |-> m]
                    ELSE LET x == Evaluate(e.kids[k], after[k - 1].m)
                         IN  [vs |-> Append(after[k - 1].vs, x.v), m |-> x.m]
                last == after[Len(e.kids)]
            IN  [v |-> Answer(last.vs), m |-> Shows(last.m, <<e.op, last.vs>>)]
      [] e.is = "binary" /\ e.op # "=" ->
            LET l == Evaluate(kid, m) r == Evaluate(e.kids[2], l.m)
                lt == TypeOf(kid) rt == TypeOf(e.kids[2])
            IN  [v |-> CASE e.op = "+" /\ IsAddress(lt) -> l.v + Slot * r.v
                         [] e.op = "+" /\ IsAddress(rt) -> Slot * l.v + r.v
                         [] e.op = "-" /\ IsAddress(rt) -> Quotient(l.v - r.v, Slot)
                         [] e.op = "-" /\ IsAddress(lt) -> l.v - Slot * r.v
                         [] OTHER -> Calculate(e.op, l.v, r.v),
                 m |-> r.m]
      [] IsPlace(e) -> LET p == PlaceOf(e, m) IN [v |-> Read(p.m, p.v), m |-> p.m]

-----------------------------------------------------------------------------
(* An operand that is written while another operand uses it has no fixed   *)
(* value; such a tree means nothing.  "*" stands for what is found through *)
(* a pointer.                                                              *)
RECURSIVE Touches(_), Modifies(_), Unsequenced(_)
KidsOf(e) == {e.kids[k] : k \in DOMAIN e.kids}
Touches(e) ==
    UNION {Touches(kid) : kid \in KidsOf(e)}
    \cup (IF e.is \in {"variable", "index"} THEN {e.op} ELSE {})
    \cup (IF \/ e.is = "prefix" /\ e.op = "*"
             \/ e.is = "index" /\ Declared[e.op].holds = "address" THEN {"*"} ELSE {})
Modifies(e) ==
    UNION {Modifies(kid) : kid \in KidsOf(e)}
    \cup (IF \/ e.is = "postfix"
             \/ e.is = "prefix" /\ e.op \in {"++", "--"}
             \/ e.is = "binary" /\ e.op = "=" THEN Touches(e.kids[1]) ELSE {})
Overlap(written, used) ==
    written \cap used # {} \/ ("*" \in written /\ used # {}) \/ ("*" \in used /\ written # {})
Unsequenced(e) ==
    \/ \E kid \in KidsOf(e) : Unsequenced(kid)
    \/ \E j, k \in DOMAIN e.kids : j # k /\ Overlap(Modifies(e.kids[j]), Touches(e.kids[k]))
    \/ e.is = "index" /\ e.op \in Modifies(e.kids[1])

RECURSIVE Subtrees(_)
Subtrees(e) == {e} \cup UNION {Subtrees(kid) : kid \in KidsOf(e)}
=============================================================================
