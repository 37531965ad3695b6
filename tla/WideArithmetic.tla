---------------------------- MODULE WideArithmetic ----------------------------
(***************************************************************************)
(* The integer instructions of the 64-bit back ends, which keep a number   *)
(* in one register: the x64 ones (GNU and MASM in two syntaxes) divide     *)
(* with cqto and idiv, which traps when there is no quotient or it does    *)
(* not fit; the AArch64 one with sdiv and msub, which never trap.          *)
(* A register holds one of Size bit patterns, 2^64 in the code.            *)
(***************************************************************************)
EXTENDS Integers

CONSTANT Size

Register(n) == n % Size
Number(w)   == IF 2 * w < Size THEN w ELSE w - Size
Fits(n)     == -Size <= 2 * n /\ 2 * n < Size

Trap == -1     \* no bit pattern

Set(condition) == IF condition THEN 1 ELSE 0
Absolute(n)    == IF n < 0 THEN -n ELSE n
Toward0(a, b)  == (Absolute(a) \div Absolute(b)) * (IF (a < 0) = (b < 0) THEN 1 ELSE -1)

-----------------------------------------------------------------------------
(* setcc and cset after a comparison, always the signed condition.         *)
emit_compare(o, l, r) ==
    LET a == Number(l)
        b == Number(r)
    IN  Set(CASE o = "OP_GT" -> a > b [] o = "OP_GE" -> a >= b [] o = "OP_LT" -> a < b
              [] o = "OP_LE" -> a <= b [] o = "OP_EQ" -> a = b [] o = "OP_NEQ" -> a # b)

\* and, or: every register w, with one that has no bit set but the lowest.
And(bit, w) == bit * (w % 2)
Or(bit, w)  == w + bit * (1 - (w % 2))

\* Mutant of emit_logic: the right operand is not brought down to 0 or 1.
emit_logic_left(o, l, r) ==
    IF o = "OP_AND" THEN And(Set(l # 0), r) ELSE Or(Set(l # 0), r)

emit_logic(o, l, r) ==
    IF o = "OP_AND" THEN And(Set(l # 0), Set(r # 0)) ELSE Or(Set(l # 0), Set(r # 0))

(* What both emit for everything but a division.  A conditional jump       *)
(* results in 1 if it jumps.                                               *)
emit_straight(o, l, r) ==
    CASE o = "OP_ADD"   -> Register(l + r)
      [] o = "OP_SUB"   -> Register(l - r)
      [] o = "OP_MUL"   -> Register(l * r)
      [] o = "OP_MINUS" -> Register(-l)
      [] o = "OP_NOT"   -> Set(l = 0)
      [] o \in {"OP_AND", "OP_OR"} -> emit_logic(o, l, r)
      [] o = "OP_JMP_TRUE"  -> Set(l # 0)
      [] o = "OP_JMP_FALSE" -> Set(l = 0)
      [] o = "OP_JMP_NEQ"   -> Set(l # r)
      [] OTHER -> emit_compare(o, l, r)

-----------------------------------------------------------------------------
(* cqto extends the sign of rax into rdx; idiv leaves the quotient in rax  *)
(* and the remainder in rdx.                                               *)
idiv(l, r) ==
    LET a == Number(l)
        b == Number(r)
    IN  IF b = 0 \/ ~Fits(Toward0(a, b)) THEN [rax |-> Trap, rdx |-> Trap]
        ELSE [rax |-> Register(Toward0(a, b)), rdx |-> Register(a - Toward0(a, b) * b)]

X64(o, l, r) ==
    CASE o = "OP_DIV" -> idiv(l, r).rax
      [] o = "OP_MOD" -> idiv(l, r).rdx
      [] OTHER -> emit_straight(o, l, r)

sdiv(l, r)    == IF r = 0 THEN 0 ELSE Register(Toward0(Number(l), Number(r)))
msub(n, m, a) == Register(a - n * m)

AArch64(o, l, r) ==
    CASE o = "OP_DIV" -> sdiv(l, r)
      [] o = "OP_MOD" -> msub(sdiv(l, r), r, l)
      [] OTHER -> emit_straight(o, l, r)
===============================================================================
