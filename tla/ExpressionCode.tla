---------------------------- MODULE ExpressionCode ----------------------------
(***************************************************************************)
(* The code of expressions (ir_generator.cpp 24-497), with the type rules  *)
(* (type_util.cpp) and the variable objects (variable.cpp) they look at.   *)
(* Every generate_... function is an operator that takes the state g of    *)
(* the generator and returns a record with the new state g and the         *)
(* Variable v the function returns.                                        *)
(*                                                                         *)
(* A generator state g is a record:                                        *)
(*   code     the instructions of the function that is being parsed        *)
(*   fun      that function, NoFunction outside of one: what is generated  *)
(*            there is thrown away                                         *)
(*   temps    the next number Variable::tempId hands out                   *)
(*   errors   the semantic errors reported                                 *)
(* and what the Parser adds: the tables, the loops and the labels.         *)
(***************************************************************************)
EXTENDS Integers, Sequences, TLC

(***************************************************************************)
(* Variable objects.  ptr is the variable whose value is the address of    *)
(* the storage a cell stands for; init is the initial value given in the   *)
(* definition.  Both are sequences of at most one variable.                *)
(***************************************************************************)
Named(name, type) ==
    [name |-> name, type |-> type, pointer |-> FALSE, array |-> 0, left |-> TRUE,
     constant |-> FALSE, value |-> 0, ptr |-> <<>>, init |-> <<>>]

NULL == Named("NULL", "NULL")
VoidVariable == [Named("<<void>>", "void") EXCEPT !.pointer = TRUE, !.left = FALSE]
Literal(type, value) ==
    [Named("<<literal>>", type) EXCEPT !.constant = TRUE, !.left = FALSE, !.value = value]
IntLiteral(n) == Literal("C_INTEGER", n)

is_arr(v)         == v.array > 0
is_cell(v)        == v.ptr # <<>>
get_pointer(v)    == v.ptr[1]
is_basic_type(v)  == v.array = 0 /\ ~v.pointer
is_void(v)        == v.type = "void"
is_literal_value(v) == v.constant /\ is_basic_type(v)

canonical_type(type) ==
    CASE type = "C_INTEGER" -> "int" [] type \in {"C_CHAR", "C_STRING"} -> "char" [] OTHER -> type

is_address_value(v) == v # NULL /\ ~is_basic_type(v) /\ ~is_cell(v)

\* Mutant of type_check: what the addresses point to is not compared.
type_check_shallow(l, r) ==
    /\ l # NULL /\ r # NULL
    /\ is_address_value(l) = is_address_value(r)

type_check(l, r) ==
    /\ l # NULL /\ r # NULL
    /\ is_address_value(l) = is_address_value(r)
    /\ is_address_value(l) => canonical_type(l.type) = canonical_type(r.type)

SlotBytes == 8
get_offset_step(v) == IntLiteral(IF is_address_value(v) THEN SlotBytes ELSE 1)

-----------------------------------------------------------------------------
NoFunction == [name |-> "", type |-> "NULL", params |-> <<>>, declare |-> FALSE]

Result(g, v) == [g |-> g, v |-> v]
SE_ERROR(g)  == [g EXCEPT !.errors = @ + 1]
Fails(g, v)  == Result(SE_ERROR(g), v)

Inst(op, result, l, r) == [op |-> op, result |-> result, l |-> l, r |-> r]
add_inter_instruct(g, i) == IF g.fun = NoFunction THEN g ELSE [g EXCEPT !.code = Append(@, i)]
Emit(g, op, result, l, r) == add_inter_instruct(g, Inst(op, result, l, r))
Dec(v) == Inst("dec", v, NULL, NULL)

(* A variable object without a name of its own takes the next number, and  *)
(* the table declares it on the spot.                                      *)
Fresh(g, type, pointer) ==
    [Named(".L" \o ToString(g.temps), type) EXCEPT !.pointer = pointer, !.left = FALSE]
AddFresh(g, v) == Result(add_inter_instruct([g EXCEPT !.temps = @ + 1], Dec(v)), v)
Temp(g, type, pointer) == AddFresh(g, Fresh(g, type, pointer))

\* A temporary of the given type and the instruction that fills it.
Into(g, type, pointer, op, l, r) ==
    LET t == Temp(g, type, pointer) IN Result(Emit(t.g, op, t.v, l, r), t.v)
Compute(g, op, l, r) == Into(g, "int", FALSE, op, l, r)

-----------------------------------------------------------------------------
address_of(g, v) == IF is_cell(v) THEN Result(g, get_pointer(v))
                    ELSE Into(g, v.type, TRUE, "lea", v, NULL)

value_of(g, v) ==
    IF v = NULL THEN Result(g, NULL)
    ELSE IF is_cell(v) THEN Into(g, v.type, FALSE, "ptr_get", get_pointer(v), NULL)
    ELSE IF is_arr(v) THEN address_of(g, v)
    ELSE Result(g, v)

copy_of(g, v) ==
    IF is_basic_type(v) THEN Into(g, v.type, FALSE, "assign", v, NULL) ELSE value_of(g, v)

make_cell(g, type, address) ==
    AddFresh(g, [Fresh(g, type, TRUE) EXCEPT !.ptr = <<address>>, !.left = TRUE])

-----------------------------------------------------------------------------
generate_mul(g, l, r) ==
    IF is_address_value(l) \/ is_address_value(r) THEN Fails(g, l) ELSE Compute(g, "*", l, r)
generate_mod(g, l, r) ==
    IF is_address_value(l) \/ is_address_value(r) THEN Fails(g, l) ELSE Compute(g, "%", l, r)
\* Only the divisor is looked at.
generate_div(g, l, r) ==
    IF is_address_value(r) THEN Fails(g, l) ELSE Compute(g, "/", l, r)

(* An address moves by elements; the sum is again an address of that type. *)
generate_add(g, l, r) ==
    LET scaled(v, address) == generate_mul(g, v, get_offset_step(address)) IN
    IF is_address_value(l) /\ is_address_value(r) THEN Fails(g, l)
    ELSE IF is_address_value(l)
      THEN \* the temporary takes its number before the offset does
           LET t == Fresh(g, l.type, TRUE)
               o == generate_mul([g EXCEPT !.temps = @ + 1], r, get_offset_step(l))
           IN  Result(Emit(add_inter_instruct(o.g, Dec(t)), "+", t, l, o.v), t)
    ELSE IF is_address_value(r)
      THEN LET t == Fresh(g, r.type, TRUE)
               o == generate_mul([g EXCEPT !.temps = @ + 1], l, get_offset_step(r))
           IN  Result(Emit(add_inter_instruct(o.g, Dec(t)), "+", t, o.v, r), t)
    ELSE Compute(g, "+", l, r)

generate_sub(g, l, r) ==
    IF is_address_value(l) /\ is_address_value(r)
      THEN IF canonical_type(l.type) # canonical_type(r.type) THEN Fails(g, l)
           ELSE LET distance == Compute(g, "-", l, r)
                IN  generate_div(distance.g, distance.v, get_offset_step(l))
    ELSE IF is_address_value(r) THEN Fails(g, l)
    ELSE IF is_address_value(l)
      THEN LET t == Fresh(g, l.type, TRUE)
               o == generate_mul([g EXCEPT !.temps = @ + 1], r, get_offset_step(l))
           IN  Result(Emit(add_inter_instruct(o.g, Dec(t)), "-", t, l, o.v), t)
    ELSE Compute(g, "-", l, r)

generate_not(g, v) == Compute(g, "!", v, NULL)

generate_minus(g, v) ==
    LET value == value_of(g, v) IN
    IF ~is_basic_type(value.v) THEN Fails(value.g, v) ELSE Compute(value.g, "minus", value.v, NULL)

generate_assign(g, l, r) ==
    IF is_arr(l) \/ ~l.left \/ ~type_check(l, r) THEN Fails(g, r)
    ELSE Result(IF is_cell(l) THEN Emit(g, "ptr_set", NULL, get_pointer(l), r)
                              ELSE Emit(g, "assign", l, r, NULL),
                l)

-----------------------------------------------------------------------------
modify_by(g, v, op) ==
    LET step == get_offset_step(v) IN
    IF ~is_cell(v) /\ is_basic_type(v) THEN Result(Emit(g, op, v, v, step), v)
    ELSE LET current == value_of(g, v)
             next    == IF op = "+" THEN generate_add(current.g, current.v, step)
                                    ELSE generate_sub(current.g, current.v, step)
         IN  generate_assign(next.g, v, next.v)

check_modifyable(v) == ~is_arr(v) /\ v.left

Amount(op) == IF op = "++" THEN "+" ELSE "-"
generate_inc_dec_first(g, v, op) ==
    IF ~check_modifyable(v) THEN Fails(g, v) ELSE modify_by(g, v, Amount(op))
generate_inc_dec_last(g, v, op) ==
    IF ~check_modifyable(v) THEN Fails(g, v)
    ELSE LET before == copy_of(g, v) IN Result(modify_by(before.g, v, Amount(op)).g, before.v)

-----------------------------------------------------------------------------
Comparisons == {">", ">=", "<", "<=", "==", "!="}

generate_two_value_op(g, left, op, right) ==
    IF left = NULL \/ right = NULL THEN Result(g, NULL)
    ELSE IF is_void(left) \/ is_void(right) THEN Fails(g, NULL)
    ELSE LET r == value_of(g, right)
             l == IF op = "=" THEN Result(r.g, left) ELSE value_of(r.g, left)
         IN  CASE op = "=" -> generate_assign(l.g, l.v, r.v)
               [] op \in Comparisons \cup {"&&", "||"} -> Compute(l.g, op, l.v, r.v)
               [] op = "+" -> generate_add(l.g, l.v, r.v)
               [] op = "-" -> generate_sub(l.g, l.v, r.v)
               [] op = "*" -> generate_mul(l.g, l.v, r.v)
               [] op = "/" -> generate_div(l.g, l.v, r.v)
               [] op = "%" -> generate_mod(l.g, l.v, r.v)

\* A prefix operator other than & and *.
generate_prefix_op(g, op, v) ==
    IF v = NULL THEN Result(g, NULL)
    ELSE IF is_void(v) THEN Fails(g, NULL)
    ELSE CASE op \in {"++", "--"} -> generate_inc_dec_first(g, v, op)
           [] op = "!" -> LET value == value_of(g, v) IN generate_not(value.g, value.v)
           [] op = "-" -> generate_minus(g, v)

generate_postfix_op(g, op, v) ==
    IF v = NULL THEN Result(g, NULL)
    ELSE IF is_void(v) THEN Fails(g, NULL)
    ELSE IF ~v.left THEN Fails(g, v)
    ELSE generate_inc_dec_last(g, v, op)

generate_lea(g, v) ==
    IF v = NULL THEN Result(g, NULL)
    ELSE IF is_void(v) THEN Fails(g, v)
    ELSE IF is_cell(v) THEN Result(g, get_pointer(v))
    ELSE IF ~v.left \/ is_literal_value(v) THEN Fails(g, v)
    ELSE address_of(g, v)

generate_deref(g, v) ==
    IF v = NULL THEN Result(g, NULL)
    ELSE IF is_void(v) THEN Fails(g, v)
    ELSE IF is_arr(v) THEN LET a == address_of(g, v) IN make_cell(a.g, v.type, a.v)
    ELSE IF ~v.pointer \/ is_cell(v) THEN Fails(g, v)
    ELSE make_cell(g, v.type, v)

generate_index(g, base, index) ==
    IF base = NULL \/ index = NULL THEN Result(g, NULL)
    ELSE IF is_void(base) \/ (~is_arr(base) /\ ~base.pointer) \/ is_cell(base) THEN Fails(g, base)
    ELSE LET address == IF is_arr(base) THEN address_of(g, base) ELSE Result(g, base)
             value   == value_of(address.g, index)
             place   == generate_add(value.g, address.v, value.v)
         IN  IF ~is_basic_type(value.v) THEN Fails(value.g, base)
             ELSE make_cell(place.g, base.type, place.v)

-----------------------------------------------------------------------------
equals(params, args) ==
    Len(params) = Len(args) /\ \A k \in DOMAIN params : type_check(params[k], args[k])

(* The arguments are pushed from the last to the first.                    *)
generate_function_param(g, v) ==
    LET value == value_of(g, v) IN Emit(value.g, "arg", NULL, value.v, NULL)

generate_function_call(g, fun, args) ==
    LET pushed[k \in 0 .. Len(args)] ==
            IF k = 0 THEN g ELSE generate_function_param(pushed[k - 1], args[Len(args) - k + 1])
        called == [NULL EXCEPT !.name = fun.name]
    IN  IF fun = NoFunction THEN Result(g, NULL)
        ELSE IF fun.type = "void"
          THEN Result(Emit(pushed[Len(args)], "proc", NULL, called, NULL), VoidVariable)
        ELSE Into(pushed[Len(args)], fun.type, FALSE, "call", called, NULL)

generate_return(g, point, v) ==
    IF g.fun = NoFunction THEN g
    ELSE IF v = NULL \/ is_void(v)
      THEN Emit(IF g.fun.type = "void" THEN g ELSE SE_ERROR(g), "return", point, NULL, NULL)
    ELSE LET value == value_of(IF g.fun.type = "void" THEN SE_ERROR(g) ELSE g, v)
         IN  Emit(value.g, "return value", point, value.v, NULL)

generate_read(g, v) ==
    IF v = NULL THEN g
    ELSE IF is_void(v) \/ is_arr(v) \/ ~v.left THEN SE_ERROR(g)
    ELSE Emit(g, "read", v, NULL, NULL)

generate_print(g, v) ==
    IF v = NULL \/ is_void(v) THEN SE_ERROR(g)
    ELSE LET value == value_of(g, v) IN Emit(value.g, "print", NULL, value.v, NULL)

(* A definition: a literal initialises the storage, anything else is       *)
(* assigned, which only a function can do.                                 *)
generate_variable_init(g, v, global) ==
    LET initial    == v.init[1]
        absent     == v.init = <<>> \/ initial = NULL
        fits       == type_check(v, initial)
        bare       == [v EXCEPT !.init = <<>>]
    IN  IF absent THEN add_inter_instruct(g, Dec(bare))
        ELSE IF fits /\ is_literal_value(initial) THEN add_inter_instruct(g, Dec(v))
        ELSE IF ~fits \/ global THEN SE_ERROR(add_inter_instruct(g, Dec(bare)))
        ELSE generate_two_value_op(add_inter_instruct(g, Dec(bare)), bare, "=", initial).g
=============================================================================
