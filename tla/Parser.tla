-------------------------------- MODULE Parser --------------------------------
(***************************************************************************)
(* The recursive descent parser (parser.cpp): one action per function.     *)
(* todo is what the functions that have been called still have to do, the  *)
(* innermost first; values holds the variables they have been returned.    *)
(* A function that is called takes its place in todo by its parts: the     *)
(* tokens it still needs, the functions it calls, the code it generates.   *)
(*                                                                         *)
(* The symbol table is the lexical one that SymbolTable implements.        *)
(* Tokens are strings; END comes for ever when they are used up.           *)
(***************************************************************************)
EXTENDS ExpressionCode, SequencesExt

CONSTANTS
    Programs,      \* sets of records with the tokens, and the rule that derives them: a whole
                   \* "program", or the "rest" of one from inside a function's body
    Body,          \* the state of the generator inside that function
    Names,         \* the tokens that are identifiers
    Integer,       \* the value of each integer literal
    Characters     \* the value of each character literal

ASSUME TokensAssumption ==
    /\ DOMAIN Integer \cap Names = {} /\ DOMAIN Characters \cap (Names \cup DOMAIN Integer) = {}
    /\ \A t \in DOMAIN Integer : Integer[t] \in Nat

VARIABLES source, at, todo, values, g

vars == <<source, at, todo, values, g>>

-----------------------------------------------------------------------------
(* Tokens and the sets the code tests them against.                        *)
Token == IF at <= Len(source.tokens) THEN source.tokens[at] ELSE "END"
Kind(t) ==
    CASE t \in Names -> "ID" [] t \in DOMAIN Integer -> "C_INTEGER"
      [] t \in DOMAIN Characters -> "C_CHAR" [] OTHER -> t
IS(kinds) == Kind(Token) \in kinds

Types          == {"int", "char", "void"}
RightOperators == Comparisons \cup {"||", "&&", "+", "-", "*", "/", "%"}
LeftOperators  == RightOperators \cup {"++", "--"}
PrefixOperators       == {"!", "-", "++", "--", "&", "*"}
Literals       == {"C_INTEGER", "C_CHAR", "C_STRING"}
\* Mutant of ExprKw: the operators that only begin an expression since there are pointers.
ExprKwWithoutPointers == {"(", "ID"} \cup Literals \cup (PrefixOperators \ {"&", "*"})

ExprKw         == {"(", "ID"} \cup Literals \cup PrefixOperators
StatementKw    == ExprKw \cup {";", "while", "if", "continue", "return", "break", "input", "output"}
StatementEnd   == Types \cup StatementKw \cup {"}"}

-----------------------------------------------------------------------------
(* The symbol table and the functions.                                     *)
enter_new_scope(h)    == [h EXCEPT !.scopes = Append(@, [x \in {} |-> NULL])]
exit_current_scope(h) == [h EXCEPT !.scopes = IF Len(@) > 1 THEN Front(@) ELSE @]

add_variable(h, v) ==
    IF v = NULL THEN h
    ELSE IF v.name \in DOMAIN Last(h.scopes) THEN SE_ERROR(h)
    ELSE generate_variable_init(
            [h EXCEPT !.scopes[Len(h.scopes)] = (v.name :> [v EXCEPT !.init = <<>>]) @@ @],
            v, Len(h.scopes) = 1)

get_variable(h, x) ==
    LET seen == {k \in DOMAIN h.scopes : x \in DOMAIN h.scopes[k]}
    IN  IF seen = {} THEN Fails(h, NULL)
        ELSE Result(h, h.scopes[CHOOSE k \in seen : \A j \in seen : j <= k][x])

declare_function(h, f) ==
    IF f.name \notin DOMAIN h.functions
      THEN [h EXCEPT !.functions = (f.name :> [f EXCEPT !.declare = TRUE]) @@ @]
    ELSE IF equals(h.functions[f.name].params, f.params) THEN h ELSE SE_ERROR(h)

\* A label takes its number where a temporary would.
NewLabel(h) ==
    Result([h EXCEPT !.temps = @ + 1], Named(".L" \o ToString(h.temps), "label"))
Place(h, label) == Emit(h, "label", label, NULL, NULL)
Jump(h, label)  == Emit(h, "jump", label, NULL, NULL)

define_function(h, f) ==
    LET old    == h.functions[f.name]
        target == IF f.name \in DOMAIN h.functions /\ old.declare
                  THEN [old EXCEPT !.declare = FALSE] ELSE f
        known  == IF f.name \notin DOMAIN h.functions \/ old.declare
                  THEN [h EXCEPT !.functions = (f.name :> target) @@ @] ELSE SE_ERROR(h)
        point  == NewLabel(IF target # f /\ ~equals(old.params, f.params)
                           THEN SE_ERROR(known) ELSE known)
    IN  Emit([point.g EXCEPT !.fun = target, !.code = <<>>, !.ret = point.v],
             "enter", NULL, NULL, NULL)

end_define_function(h) ==
    LET whole == Emit(Place(h, h.ret), "exit", NULL, NULL, NULL)
    IN  [whole EXCEPT !.done = Append(@, [fun |-> h.fun.name, code |-> whole.code]),
                      !.fun = NoFunction, !.code = <<>>]

get_function(h, x, args) ==
    IF x \in DOMAIN h.functions /\ equals(h.functions[x].params, args)
    THEN Result(h, h.functions[x]) ELSE Fails(h, NoFunction)

break(h) ==
    IF h.loops = <<>> THEN SE_ERROR(h) ELSE Jump(h, Last(h.loops).tail)
continue(h) ==
    IF h.loops = <<>> THEN SE_ERROR(h) ELSE Jump(h, Last(h.loops).head)

-----------------------------------------------------------------------------
(* Steps.  At(f): the function f is the next to go on.                     *)
At(f) == todo # <<>> /\ todo[1][1] = f
Argument(n) == todo[1][n + 1]

Step(parts, moves, returned, h) ==
    /\ todo' = parts \o Tail(todo)
    /\ at' = IF moves /\ at <= Len(source.tokens) THEN at + 1 ELSE at
    /\ values' = returned
    /\ g' = h
    /\ UNCHANGED source

SYNTAX_ERROR(h) == [h EXCEPT !.syntax = @ + 1]

Goes(parts)  == Step(parts, FALSE, values, g)
Takes(parts) == Step(parts, TRUE, values, g)
(* recovery: a missing token is reported, a wrong one is passed as well.   *)
Lost(parts)  == Step(parts, FALSE, values, SYNTAX_ERROR(g))
Wrong(parts) == Step(parts, TRUE, values, SYNTAX_ERROR(g))
recovery(follow, parts) == IF IS(follow) THEN Lost(parts) ELSE Wrong(parts)

Call(f)        == <<f>>
With(f, x)     == <<f, x>>
With2(f, x, y) == <<f, x, y>>
With3(f, x, y, z) == <<f, x, y, z>>
Need(kind, follow) == <<"need", kind, follow>>
Semicolon == Need(";", StatementEnd)

need ==
    /\ At("need")
    /\ IF IS({Argument(1)}) THEN Takes(<<>>) ELSE recovery(Argument(2), <<>>)

-----------------------------------------------------------------------------
(* The file.                                                               *)
program ==
    /\ At("program")
    /\ IF IS({"END"}) THEN Takes(<<>>) ELSE Goes(<<Call("segment"), Call("program")>>)

Definition(type) == <<With2("value_definition", type, FALSE), Call("add_variable")>>

\* Mutant of segment: a token that can begin nothing is left to the next round.
segment_stays ==
    /\ At("segment")
    /\ \/ IS(Types) /\ Takes(Definition(Token))
       \/ IS({"-"}) /\ Takes(<<Need("[", Types), Call("function_type")>>)
       \/ IS({"ID"}) /\ Wrong(Definition("void"))
       \/ IS({"["}) /\ Wrong(<<With("function_definition", "void")>>)
       \/ ~IS(Types \cup {"-", "ID", "["}) /\ Goes(<<>>)

segment ==
    /\ At("segment")
    /\ \/ IS(Types) /\ Takes(Definition(Token))
       \/ IS({"-"}) /\ Takes(<<Need("[", Types), Call("function_type")>>)
       \/ IS({"ID"}) /\ Wrong(Definition("void"))
       \/ IS({"["}) /\ Wrong(<<With("function_definition", "void")>>)
       \/ ~IS(Types \cup {"-", "ID", "["}) /\ Wrong(<<>>)

function_type ==
    /\ At("function_type")
    /\ \/ IS(Types) /\ Takes(<<With("function_definition", Token)>>)
       \/ ~IS(Types) /\ recovery({"ID", "*"}, <<With("function_definition", "int")>>)

(* A definition: type, pointer?, then the name.                            *)
value_definition ==
    /\ At("value_definition")
    /\ LET type == Argument(1) pointer == Argument(2) IN
       \/ IS({"*"}) /\ ~pointer /\ Takes(<<With2("value_definition", type, TRUE)>>)
       \/ /\ IS({"ID"})
          /\ Takes(<<With("bracket_length", [Named(Token, type) EXCEPT !.pointer = pointer])>>)
       \/ /\ ~IS({"ID"}) /\ ~(IS({"*"}) /\ ~pointer)
          /\ Step(<<>>, ~IS({"[", "=", ",", ";"}), Append(values, NULL), SYNTAX_ERROR(g))

bracket_length ==
    /\ At("bracket_length")
    /\ IF IS({"["}) THEN Takes(<<With("array_length", Argument(1))>>)
                    ELSE Goes(<<With("init", Argument(1))>>)
array_length ==
    /\ At("array_length")
    /\ LET length == IF IS({"C_INTEGER"}) THEN Integer[Token] ELSE 0
           noted  == IF IS({"C_INTEGER"}) THEN g ELSE SYNTAX_ERROR(g)
       IN  Step(<<Need("]", {"=", ",", ";"}), With("init", [Argument(1) EXCEPT !.array = length])>>,
                TRUE, values, IF length = 0 THEN SE_ERROR(noted) ELSE noted)

init ==
    /\ At("init")
    /\ LET v == Argument(1) rest == With("define_list", v.type) IN
       \/ IS({"="}) /\ Takes(<<Call("expr"), With("initialised", v), rest>>)
       \/ ~IS({"="}) /\ Step(<<rest>>, FALSE, Append(values, v), g)

define_list ==
    /\ At("define_list")
    /\ \/ IS({","}) /\ Takes(Definition(Argument(1)))
       \/ IS({";"}) /\ Takes(<<>>)
       \/ IS({"ID", "*"}) /\ Lost(Definition(Argument(1)))
       \/ ~IS({",", ";", "ID", "*"}) /\ recovery(StatementEnd, <<>>)

-----------------------------------------------------------------------------
(* Functions.  The function that is being built up is handed on.           *)
function_definition ==
    /\ At("function_definition")
    /\ Goes(<<Need("]", {"ID"}), With("function_name", Argument(1))>>)
function_name ==
    /\ At("function_name")
    /\ LET Rest(x) == <<Need("(", Types \cup {")"}),
                        With("parameter", [NoFunction EXCEPT !.name = x, !.type = Argument(1)])>>
       IN  IF IS({"ID"}) THEN Takes(Rest(Token)) ELSE recovery({"("}, Rest(""))

Parameters(f) == <<Need(")", {"{", ";"}), With("function_content", f)>>
parameter ==
    /\ At("parameter")
    /\ Step(IF IS(Types) THEN <<With("para_data", Argument(1))>> ELSE Parameters(Argument(1)),
            FALSE, values, enter_new_scope(g))
para_data ==
    /\ At("para_data")
    /\ IF IS(Types) THEN Takes(<<With3("para_name", Argument(1), Token, FALSE)>>)
       ELSE recovery({"ID", "*"}, <<With3("para_name", Argument(1), "int", FALSE)>>)
para_name ==
    /\ At("para_name")
    /\ LET f == Argument(1) type == Argument(2) pointer == Argument(3)
           v == [Named(Token, type) EXCEPT !.pointer = pointer]
       IN  \/ IS({"*"}) /\ ~pointer /\ Takes(<<With3("para_name", f, type, TRUE)>>)
           \/ /\ IS({"ID"})
              /\ Step(<<With("para_list", [f EXCEPT !.params = Append(@, v)])>>, TRUE, values,
                      add_variable(g, v))
           \/ /\ ~IS({"ID"}) /\ ~(IS({"*"}) /\ ~pointer)
              /\ recovery({",", ")", "["}, <<With("para_list", f)>>)
para_list ==
    /\ At("para_list")
    /\ \/ IS({","}) /\ Takes(<<With("para_data", Argument(1))>>)
       \/ IS({"ID"}) /\ Wrong(<<With("para_list", Argument(1))>>)
       \/ ~IS({",", "ID"}) /\ Goes(Parameters(Argument(1)))

function_content ==
    /\ At("function_content")
    /\ LET f == Argument(1) IN
       \/ IS({";"}) /\ Step(<<Call("exit_scope")>>, TRUE, values, declare_function(g, f))
       \/ ~IS({";"}) /\ Step(<<Call("block"), Call("end_define_function"), Call("exit_scope")>>,
                             FALSE, values, define_function(g, f))

block ==
    /\ At("block")
    /\ Step(<<Need("{", Types \cup StatementKw), Call("sub_program"),
              Need("}", Types \cup {"-", "END"}), Call("exit_scope")>>,
            FALSE, values, enter_new_scope(g))
sub_program ==
    /\ At("sub_program")
    /\ \/ IS(Types) /\ Takes(Definition(Token) \o <<Call("sub_program")>>)
       \/ IS(StatementKw) /\ Goes(<<Call("statement"), Call("sub_program")>>)
       \/ ~IS(Types \cup StatementKw) /\ Goes(<<>>)

-----------------------------------------------------------------------------
(* Statements.                                                             *)
statement ==
    /\ At("statement")
    /\ \/ /\ IS({"while"})
          /\ LET head == NewLabel(g) tail == NewLabel(head.g)
                 h    == [Place(tail.g, head.v)
                            EXCEPT !.loops = Append(@, [head |-> head.v, tail |-> tail.v])]
             IN  Step(<<Need("(", RightOperators), Call("all_expr"), Call("while_conditions"),
                        Need(")", {"{"}), Call("block"), Call("while_tail")>>, TRUE, values, h)
       \/ IS({"if"}) /\ Takes(<<Need("(", ExprKw), Call("expr"), Call("if_head")>>)
       \/ IS({"break"}) /\ Step(<<Semicolon>>, TRUE, values, break(g))
       \/ IS({"continue"}) /\ Step(<<Semicolon>>, TRUE, values, continue(g))
       \/ IS({"return", "output"}) /\ Takes(<<Call("all_expr"), Call(Token), Semicolon>>)
       \/ IS({"input"}) /\ Takes(<<Call("target"), Semicolon>>)
       \/ /\ ~IS({"while", "if", "break", "continue", "return", "output", "input"})
          /\ Goes(<<Call("all_expr"), Call("drop"), Semicolon>>)

target ==
    /\ At("target")
    /\ IF IS(ExprKw) THEN Goes(<<Call("expr"), Call("input")>>) ELSE recovery(StatementEnd, <<>>)

branch ==
    /\ At("branch")
    /\ Goes(<<Call(IF IS({"{"}) THEN "block" ELSE "statement")>>)
else_statement ==
    /\ At("else_statement")
    /\ IF IS({"else"}) THEN Takes(<<Call("branch")>>) ELSE Goes(<<>>)

-----------------------------------------------------------------------------
(* Expressions.  An ..._extend of a level that does not find its operator  *)
(* returns what it was given, to the level below: extends(high, low) is    *)
(* the chain of them from level high down to level low.                    *)
LevelOf(t) ==
    CASE t \in {"*", "/", "%"} -> 6 [] t \in {"+", "-"} -> 5 [] t \in Comparisons -> 4
      [] t = "&&" -> 3 [] t = "||" -> 2 [] t = "=" -> 1 [] OTHER -> 0
Operand(low) == <<Call("factor"), With2("extends", 6, low)>>

\* Mutant of extends: the right operand of an operator takes operators of the same level.
extends_right ==
    /\ At("extends")
    /\ LET level == LevelOf(Token) IN
       \/ /\ level \in Argument(2) .. Argument(1)
          /\ Takes(Operand(level)
                   \o <<With("two_value_op", Token), With2("extends", level, Argument(2))>>)
       \/ level \notin Argument(2) .. Argument(1) /\ Goes(<<>>)

extends ==
    /\ At("extends")
    /\ LET level == LevelOf(Token) IN
       \/ /\ level \in Argument(2) .. Argument(1)
          /\ Takes(Operand(IF level = 1 THEN 1 ELSE level + 1)
                   \o <<With("two_value_op", Token), With2("extends", level, Argument(2))>>)
       \/ level \notin Argument(2) .. Argument(1) /\ Goes(<<>>)

all_expr ==
    /\ At("all_expr")
    /\ IF IS(ExprKw) THEN Goes(<<Call("expr")>>) ELSE Step(<<>>, FALSE, Append(values, NULL), g)
expr == At("expr") /\ Goes(Operand(1))

factor ==
    /\ At("factor")
    /\ \/ IS(PrefixOperators) /\ Takes(<<Call("factor"), With("prefix_op", Token)>>)
       \/ IS({"ID"}) /\ Takes(<<With("id_extend", Token), Call("auto_inc_dec")>>)
       \/ IS({"("}) /\ Takes(<<Call("expr"), Need(")", LeftOperators), Call("auto_inc_dec")>>)
       \/ /\ IS(Literals)
          /\ LET v == Literal(Kind(Token), IF IS({"C_INTEGER"}) THEN Integer[Token]
                                           ELSE IF IS({"C_CHAR"}) THEN Characters[Token] ELSE 0)
             IN  Step(<<Call("auto_inc_dec")>>, TRUE, Append(values, v), g)
       \/ /\ ~IS(ExprKw)
          /\ Step(<<Call("auto_inc_dec")>>, FALSE, Append(values, NULL), SYNTAX_ERROR(g))

id_extend ==
    /\ At("id_extend")
    /\ LET v == get_variable(g, Argument(1)) IN
       \/ IS({"("}) /\ Takes(<<With("init_fun_arg", Argument(1))>>)
       \/ /\ IS({"["})
          /\ Step(<<Call("expr"), Need("]", RightOperators \cup {";", "}", ",", ")"}), Call("index")>>,
                  TRUE, Append(values, v.v), v.g)
       \/ ~IS({"(", "["}) /\ Step(<<>>, FALSE, Append(values, v.v), v.g)

ArgumentsEnd(x, n) == <<Need(")", {"++", "--"}), With2("function_call", x, n)>>
init_fun_arg ==
    /\ At("init_fun_arg")
    /\ IF IS(ExprKw) THEN Goes(<<Call("expr"), With2("arg_list", Argument(1), 1)>>)
                     ELSE Goes(ArgumentsEnd(Argument(1), 0))
arg_list ==
    /\ At("arg_list")
    /\ IF IS({","}) THEN Takes(<<Call("expr"), With2("arg_list", Argument(1), Argument(2) + 1)>>)
                    ELSE Goes(ArgumentsEnd(Argument(1), Argument(2)))

-----------------------------------------------------------------------------
(* What is generated in between.  Generates(f, n, r): f is handed the last *)
(* n values and leaves the state r.g and the value r.v.                    *)
Value(k) == values[Len(values) - k]
Without(n) == SubSeq(values, 1, Len(values) - n)
Generates(f, n, r) == At(f) /\ Step(<<>>, FALSE, Append(Without(n), r.v), r.g)
Settles(f, n, h)   == At(f) /\ Step(<<>>, FALSE, Without(n), h)

auto_inc_dec ==
    /\ At("auto_inc_dec")
    /\ IF IS({"++", "--"})
       THEN LET r == generate_postfix_op(g, Token, Value(0))
            IN  Step(<<>>, TRUE, Append(Without(1), r.v), r.g)
       ELSE Goes(<<>>)

prefix_op ==
    LET op == Argument(1) v == Value(0) IN
    Generates("prefix_op", 1, CASE op = "&" -> generate_lea(g, v) [] op = "*" -> generate_deref(g, v)
                                [] OTHER -> generate_prefix_op(g, op, v))
two_value_op == Generates("two_value_op", 2, generate_two_value_op(g, Value(1), Argument(1), Value(0)))
index == Generates("index", 2, generate_index(g, Value(1), Value(0)))
function_call ==
    LET n    == Argument(2)
        args == SubSeq(values, Len(values) - n + 1, Len(values))
        f    == get_function(g, Argument(1), args)
    IN  Generates("function_call", n, generate_function_call(f.g, f.v, args))

initialised == Generates("initialised", 1, Result(g, [Argument(1) EXCEPT !.init = <<Value(0)>>]))
define_variable == Settles("add_variable", 1, add_variable(g, Value(0)))
drop    == Settles("drop", 1, g)
returns == Settles("return", 1, generate_return(g, g.ret, Value(0)))
output  == Settles("output", 1, generate_print(g, Value(0)))
input   == Settles("input", 1, generate_read(g, Value(0)))
exit_scope   == Settles("exit_scope", 0, exit_current_scope(g))
end_function == Settles("end_define_function", 0, end_define_function(g))

Condition(v) == IF is_void(v) THEN IntLiteral(1) ELSE v
while_conditions ==
    LET value == value_of(g, Value(0)) IN
    Settles("while_conditions", 1,
            IF Value(0) = NULL THEN g
            ELSE Emit(value.g, "jump false", Last(g.loops).tail, Condition(value.v), NULL))
\* Mutant of while_tail: the loop stays the innermost one.
while_tail_stays ==
    LET loop == Last(g.loops) IN
    Settles("while_tail", 0, Place(Jump(g, loop.head), loop.tail))

while_tail ==
    LET loop == Last(g.loops) IN
    Settles("while_tail", 0, [Place(Jump(g, loop.head), loop.tail) EXCEPT !.loops = Front(@)])

\* Mutant of if_head: a condition that could not be parsed is tested all the same.
if_head_always ==
    /\ At("if_head")
    /\ LET other == NewLabel(g)
           value == value_of(other.g, Value(0))
       IN  Step(<<Need(")", {"{"}), Call("branch"), With("else_head", other.v)>>, FALSE, Without(1),
                Emit(value.g, "jump false", other.v, value.v, NULL))

if_head ==
    /\ At("if_head")
    /\ LET other == NewLabel(g)
           value == value_of(other.g, Value(0))
       IN  Step(<<Need(")", {"{"}), Call("branch"), With("else_head", other.v)>>, FALSE, Without(1),
                IF Value(0) = NULL THEN other.g
                ELSE Emit(value.g, "jump false", other.v, value.v, NULL))
else_head ==
    /\ At("else_head")
    /\ LET exit == NewLabel(g)
       IN  Step(<<Call("else_statement"), With("else_tail", exit.v)>>, FALSE, values,
                Place(Jump(exit.g, exit.v), Argument(1)))
else_tail == At("else_tail") /\ Step(<<>>, FALSE, values, Place(g, Argument(1)))

-----------------------------------------------------------------------------
Empty == [x \in {} |-> NULL]
Blank == [code |-> <<>>, fun |-> NoFunction, temps |-> 0, errors |-> 0, syntax |-> 0,
          scopes |-> <<Empty>>, functions |-> Empty, loops |-> <<>>, done |-> <<>>, ret |-> NULL]

Init ==
    /\ \E family \in Programs : source \in family
    /\ at = 1 /\ values = <<>>
    /\ \/ source.rule = "program" /\ todo = <<Call("program")>> /\ g = Blank
       \/ /\ source.rule = "rest" /\ g = Body
          /\ todo = <<Call("sub_program"), Need("}", Types \cup {"-", "END"}), Call("exit_scope"),
                      Call("end_define_function"), Call("exit_scope"), Call("program")>>

File == program \/ segment \/ function_type \/ value_definition \/ bracket_length
        \/ array_length \/ init \/ define_list \/ initialised \/ define_variable
Functions == function_definition \/ function_name \/ parameter \/ para_data \/ para_name
             \/ para_list \/ function_content \/ end_function
Statements == block \/ sub_program \/ statement \/ target \/ branch \/ else_statement \/ drop
              \/ returns \/ output \/ input \/ exit_scope \/ while_conditions \/ while_tail
              \/ if_head \/ else_head \/ else_tail
Expressions == extends \/ all_expr \/ expr \/ factor \/ id_extend \/ init_fun_arg \/ arg_list
               \/ auto_inc_dec \/ prefix_op \/ two_value_op \/ index \/ function_call

Ended == todo = <<>>
Returned == Ended /\ UNCHANGED vars      \* program() has returned

Next == need \/ File \/ Functions \/ Statements \/ Expressions \/ Returned

(* The parser runs until program() returns.  This is weak fairness of a    *)
(* step that changes todo, spelled out: every step but Returned changes it,*)
(* and a state without a step would be reported as a deadlock.             *)
Spec == Init /\ [][Next]_vars /\ ([]<>Ended \/ []<><<TRUE>>_todo)
=============================================================================
