---------------------------- MODULE ConstLattice ----------------------------
(***************************************************************************)
(* The value lattice of the constant propagation and its transfer          *)
(* function (optimization/const_opt.cpp), as operators.                    *)
(*                                                                         *)
(* Lattice values are host longs: LONG_MAX stands for "no value seen yet"  *)
(* and LONG_MIN for "not a constant"; every other long is a constant.      *)
(* LongMax and IntMax are the largest long and int of the host; results    *)
(* wrap around at the width of a long, as the compiled compiler computes   *)
(* them.                                                                   *)
(***************************************************************************)
EXTENDS Integers

CONSTANTS LongMax, IntMax

ASSUME WidthAssumption ==
    /\ LongMax \in Nat /\ IntMax \in Nat
    /\ 0 < IntMax /\ IntMax <= LongMax

UNDEF == LongMax
NAC   == -LongMax - 1
Long  == NAC .. UNDEF

IsConst(v) == v # UNDEF /\ v # NAC

Wrapped(n, max) == ((n + max + 1) % (2 * max + 2)) - max - 1
ToInt(n)        == Wrapped(n, IntMax)

\* Mutant of ux: where two constants meet, the later one wins.
ux_last(l, r) == IF r = UNDEF THEN l ELSE r

(* ux: the meet of two lattice values.                                     *)
ux(l, r) ==
    IF l = NAC \/ r = NAC THEN NAC
    ELSE IF l = UNDEF THEN r
    ELSE IF r = UNDEF THEN l
    ELSE IF l = r THEN l
    ELSE NAC

(* v is at least as informed as w, that is, not above it.                  *)
Below(v, w) == v = w \/ v = NAC \/ w = UNDEF

-----------------------------------------------------------------------------
Truth(b) == IF b THEN 1 ELSE 0

Magnitude(n) == IF n < 0 THEN -n ELSE n

\* C++ division truncates towards zero, and the remainder takes the dividend's sign.
Quotient(a, b) ==
    LET q == Magnitude(a) \div Magnitude(b)
    IN  IF (a < 0) = (b < 0) THEN q ELSE -q
Remainder(a, b) == a - b * Quotient(a, b)

(* The value of a binary operator on two longs; the divisor is not zero.   *)
Computed(op, a, b) ==
    CASE op = "add" -> a + b
      [] op = "sub" -> a - b
      [] op = "mul" -> a * b
      [] op = "div" -> Quotient(a, b)
      [] op = "mod" -> Remainder(a, b)
      [] op = "gt"  -> Truth(a > b)
      [] op = "ge"  -> Truth(a >= b)
      [] op = "lt"  -> Truth(a < b)
      [] op = "le"  -> Truth(a <= b)
      [] op = "eq"  -> Truth(a = b)
      [] op = "neq" -> Truth(a # b)
      [] op = "and" -> Truth(a # 0 /\ b # 0)
      [] op = "or"  -> Truth(a # 0 \/ b # 0)

Divides(op) == op \in {"div", "mod"}

(* fx on a binary expression.                                              *)
EvalBinary(op, l, r) ==
    IF l = NAC \/ r = NAC THEN NAC
    ELSE IF l = UNDEF \/ r = UNDEF THEN UNDEF
    ELSE IF Divides(op) /\ r = 0 THEN NAC
    ELSE Wrapped(Computed(op, l, r), LongMax)

(* fx on an assignment, a negation or a logical not.                       *)
EvalUnary(op, v) ==
    IF ~IsConst(v) THEN v
    ELSE CASE op = "assign" -> v
           [] op = "minus"  -> -v
           [] op = "not"    -> Truth(v = 0)
=============================================================================
