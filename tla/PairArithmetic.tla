---------------------------- MODULE PairArithmetic ----------------------------
(***************************************************************************)
(* The integers of the language have 64 bits; the two 32-bit x86 back ends *)
(* keep one in a pair of registers and compute with sequences of 32-bit    *)
(* instructions.  This module executes those sequences: the carry and      *)
(* borrow chains, the product from partial products, the comparisons that  *)
(* look at the high words signed and at the low words unsigned, and the    *)
(* helper sl_divmod that divides bit by bit.  The GNU and the MASM back    *)
(* end emit the same instructions in two syntaxes: the operators on pairs  *)
(* are translated from the one, the steps from the other.  A word has      *)
(* WordBits bits here, 32 in the code.                                     *)
(***************************************************************************)
EXTENDS Integers

CONSTANTS WordBits,   \* bits of a register
          Host        \* what esi and edi hold for the caller of sl_divmod

ASSUME WordBitsAssumption == WordBits \in Nat \ {0}

WordSize == 2^WordBits
PairSize == WordSize * WordSize
Word == 0 .. WordSize - 1
Pairs == [lo : Word, hi : Word]

ASSUME HostAssumption == Host \in Pairs

VARIABLES op,           \* the instruction
          left, right,  \* its operands, 64-bit patterns
          dividend,     \* edx:eax, every operation's left operand and result
          divisor,      \* ebx:ecx, the right operand; the remainder at the end
          accumulator,  \* edi:esi
          saved,        \* the pairs pushed by the helper
          negative,     \* 0(%esp) and 4(%esp): which operands were negative
          count,        \* 8(%esp): rounds of the loop to go
          pc

vars == <<op, left, right, dividend, divisor, accumulator, saved, negative,
          count, pc>>

(***************************************************************************)
(* Values                                                                  *)
(***************************************************************************)
Pair(n) == [lo |-> n % WordSize, hi |-> (n \div WordSize) % WordSize]
Value(p) == p.lo + WordSize * p.hi
SignedWord(w) == IF 2 * w < WordSize THEN w ELSE w - WordSize
Signed(n) == IF 2 * n < PairSize THEN n ELSE n - PairSize
Zero == Pair(0)
Flag(condition) == Pair(IF condition THEN 1 ELSE 0)

(***************************************************************************)
(* Instruction sequences on pairs                                          *)
(***************************************************************************)
AddPairs(p, q) ==          \* add, adc
    LET low == p.lo + q.lo
    IN  [lo |-> low % WordSize,
         hi |-> (p.hi + q.hi + (low \div WordSize)) % WordSize]

SubPairs(p, q) ==          \* sub, sbb
    LET borrow == IF p.lo < q.lo THEN 1 ELSE 0
    IN  [lo |-> (p.lo - q.lo) % WordSize,
         hi |-> (p.hi - q.hi - borrow) % WordSize]

NegatePair(p) ==           \* not, not, add 1, adc 0
    AddPairs([lo |-> WordSize - 1 - p.lo, hi |-> WordSize - 1 - p.hi], Pair(1))

MulPairs(p, q) ==          \* mul for the low words, imul for the cross terms
    LET product == p.lo * q.lo
    IN  [lo |-> product % WordSize,
         hi |-> ((product \div WordSize) + p.lo * q.hi + p.hi * q.lo) % WordSize]

IsZero(p) == p.lo = 0 /\ p.hi = 0      \* or: no bit of either word is set
IsNegative(p) == SignedWord(p.hi) < 0  \* test, js

(***************************************************************************)
(* What a setcc finds after cmp a, b.                                      *)
(***************************************************************************)
Holds(cc, a, b) ==
    CASE cc = "setg"  -> SignedWord(a) > SignedWord(b)
      [] cc = "setge" -> SignedWord(a) >= SignedWord(b)
      [] cc = "setl"  -> SignedWord(a) < SignedWord(b)
      [] cc = "setle" -> SignedWord(a) =< SignedWord(b)
      [] cc = "seta"  -> a > b
      [] cc = "setae" -> a >= b
      [] cc = "setb"  -> a < b
      [] cc = "setbe" -> a =< b
      [] cc = "sete"  -> a = b
      [] cc = "setne" -> a # b

HighCondition == [OP_GT |-> "setg", OP_GE |-> "setge", OP_LT |-> "setl",
                  OP_LE |-> "setle", OP_EQ |-> "sete", OP_NEQ |-> "setne"]
\* Mutant of LowCondition: the low words are compared like the high ones.
LowConditionSigned == HighCondition

LowCondition == [OP_GT |-> "seta", OP_GE |-> "setae", OP_LT |-> "setb",
                 OP_LE |-> "setbe", OP_EQ |-> "sete", OP_NEQ |-> "setne"]
Comparisons == DOMAIN HighCondition

ComparePairs(o, p, q) ==
    IF p.hi # q.hi THEN Holds(HighCondition[o], p.hi, q.hi)
                   ELSE Holds(LowCondition[o], p.lo, q.lo)

(***************************************************************************)
(* The program                                                             *)
(***************************************************************************)
CondJumps == {"OP_JMP_TRUE", "OP_JMP_FALSE", "OP_JMP_NEQ"}
Straight == {"OP_ADD", "OP_SUB", "OP_MUL", "OP_MINUS", "OP_NOT", "OP_AND",
             "OP_OR"} \union Comparisons \union CondJumps
Ops == Straight \union {"OP_DIV", "OP_MOD"}

\* load_pair has put both operands into their registers.
Init ==
    /\ op \in Ops
    /\ left \in 0 .. PairSize - 1 /\ right \in 0 .. PairSize - 1
    /\ dividend = Pair(left) /\ divisor = Pair(right)
    /\ accumulator = Host /\ saved = <<>>
    /\ negative = [dividend |-> FALSE, divisor |-> FALSE]
    /\ count = 0
    /\ pc = "instruction"

Inputs == <<op, left, right>>
Helper == <<divisor, accumulator, saved, negative, count>>

Result(o, p, q) ==
    CASE o = "OP_ADD"   -> AddPairs(p, q)
      [] o = "OP_SUB"   -> SubPairs(p, q)
      [] o = "OP_MUL"   -> MulPairs(p, q)
      [] o = "OP_MINUS" -> NegatePair(p)
      [] o = "OP_NOT"   -> Flag(IsZero(p))
      [] o = "OP_AND"   -> Flag(~ IsZero(p) /\ ~ IsZero(q))
      [] o = "OP_OR"    -> Flag(~ IsZero(p) \/ ~ IsZero(q))
      [] o \in Comparisons -> Flag(ComparePairs(o, p, q))
      [] o = "OP_JMP_TRUE"  -> Flag(~ IsZero(p))     \* 1 if it jumps
      [] o = "OP_JMP_FALSE" -> Flag(IsZero(p))
      [] o = "OP_JMP_NEQ"   -> Flag(p.hi # q.hi \/ p.lo # q.lo)

StraightLine ==
    /\ pc = "instruction" /\ op \in Straight
    /\ dividend' = Result(op, dividend, divisor)
    /\ pc' = "done"
    /\ UNCHANGED <<Inputs, Helper>>

(***************************************************************************)
(* sl_divmod                                                               *)
(***************************************************************************)
EnterHelper ==
    /\ pc = "instruction" /\ op \in {"OP_DIV", "OP_MOD"}
    /\ saved' = <<accumulator>>
    /\ accumulator' = Zero
    /\ pc' = IF IsZero(divisor) THEN "by_zero" ELSE "sl_divmod_abs"
    /\ UNCHANGED <<Inputs, dividend, divisor, negative, count>>

Leave ==
    /\ accumulator' = saved[1]
    /\ saved' = <<>>
    /\ pc' = "done"

DivideByZero ==
    /\ pc = "by_zero"
    /\ divisor' = dividend
    /\ dividend' = Zero
    /\ Leave
    /\ UNCHANGED <<Inputs, negative, count>>

MakeMagnitudes ==
    /\ pc = "sl_divmod_abs"
    /\ negative' = [dividend |-> IsNegative(dividend), divisor |-> IsNegative(divisor)]
    /\ dividend' = IF IsNegative(dividend) THEN NegatePair(dividend) ELSE dividend
    /\ divisor' = IF IsNegative(divisor) THEN NegatePair(divisor) ELSE divisor
    /\ accumulator' = Zero
    /\ count' = 2 * WordBits
    /\ pc' = "sl_divmod_loop"
    /\ UNCHANGED <<Inputs, saved>>

\* The four words shift left as one; the bit that leaves edx enters esi.
Shifted(p, bit) == Pair(2 * Value(p) + bit)
TopBit(p) == Value(p) \div (PairSize \div 2)

\* Mutant of Subtracts: equal magnitudes are not subtracted.
SubtractsWhenGreater(p, q) == p.hi > q.hi \/ (p.hi = q.hi /\ p.lo > q.lo)

Subtracts(p, q) ==         \* ja, jb on the high words, jb on the low ones
    p.hi > q.hi \/ (p.hi = q.hi /\ p.lo >= q.lo)

LoopEnds(n) == n = 0       \* dec, jne

DivideOneBit ==
    /\ pc = "sl_divmod_loop"
    /\ LET shifted == Shifted(accumulator, TopBit(dividend))
           fits == Subtracts(shifted, divisor)
       IN  /\ accumulator' = IF fits THEN SubPairs(shifted, divisor) ELSE shifted
           /\ dividend' = Shifted(dividend, IF fits THEN 1 ELSE 0)
    /\ count' = count - 1
    /\ pc' = IF LoopEnds(count') THEN "signs" ELSE pc
    /\ UNCHANGED <<Inputs, divisor, saved, negative>>

\* Mutant of RemainderNegative: the remainder gets the quotient's sign.
RemainderNegativeAsQuotient == negative.dividend # negative.divisor

RemainderNegative == negative.dividend

GiveSigns ==
    /\ pc = "signs"
    /\ dividend' = IF negative.dividend # negative.divisor
                   THEN NegatePair(dividend) ELSE dividend
    /\ divisor' = IF RemainderNegative THEN NegatePair(accumulator) ELSE accumulator
    /\ Leave
    /\ UNCHANGED <<Inputs, negative, count>>

Next == StraightLine \/ EnterHelper \/ DivideByZero \/ MakeMagnitudes
        \/ DivideOneBit \/ GiveSigns

Spec == Init /\ [][Next]_vars

(***************************************************************************)
(* Properties                                                              *)
(***************************************************************************)

Truth(condition) == IF condition THEN 1 ELSE 0

\* What a machine with registers of both words' width computes.
Whole(o, a, b) ==
    CASE o = "OP_ADD"   -> (a + b) % PairSize
      [] o = "OP_SUB"   -> (a - b) % PairSize
      [] o = "OP_MUL"   -> (a * b) % PairSize
      [] o = "OP_MINUS" -> (-a) % PairSize
      [] o = "OP_NOT"   -> Truth(a = 0)
      [] o = "OP_AND"   -> Truth(a # 0 /\ b # 0)
      [] o = "OP_OR"    -> Truth(a # 0 \/ b # 0)
      [] o = "OP_GT"    -> Truth(a > b)
      [] o = "OP_GE"    -> Truth(a >= b)
      [] o = "OP_LT"    -> Truth(a < b)
      [] o = "OP_LE"    -> Truth(a =< b)
      [] o = "OP_EQ"    -> Truth(a = b)
      [] o \in {"OP_NEQ", "OP_JMP_NEQ"} -> Truth(a # b)
      [] o = "OP_JMP_TRUE"  -> Truth(a # 0)
      [] o = "OP_JMP_FALSE" -> Truth(a = 0)

\* Two words carry, borrow, multiply and compare like one number of their
\* joint width: x86 programs compute what the 64-bit back ends' compute
\* (emit_add, emit_sub, emit_mul, emit_compare, emit_logic).
PairsActAsWhole ==
    (pc = "done" /\ op \in Straight) =>
        Value(dividend) = Whole(op, Signed(left), Signed(right))

Wide == INSTANCE WideArithmetic WITH Size <- PairSize

\* What the instruction stores (emit_div and emit_mod store different pairs).
Answer == Value(IF op = "OP_MOD" THEN divisor ELSE dividend)

\* A program means the same on every target: the pairs of the 32-bit back
\* ends, the registers of x64 and those of AArch64 get the same bits, but for
\* the two divisions at which the x64 processor stops the program.
BackEndsAgree ==
    pc = "done" =>
        /\ Answer = Wide!AArch64(op, left, right)
        /\ LET x == Wide!X64(op, left, right)
               unanswerable == Signed(right) = 0 \/ (2 * left = PairSize /\ Signed(right) = -1)
           IN  x = IF op \in {"OP_DIV", "OP_MOD"} /\ unanswerable THEN Wide!Trap ELSE Answer

Magnitude(n) == IF n < 0 THEN -n ELSE n

\* sl_divmod returns the quotient rounded towards zero and the remainder with
\* the dividend's sign, also for the most negative value, whose quotient by -1
\* wraps; a zero divisor gives quotient 0 and the dividend as the remainder,
\* as the helper's comment says ARM64 does.  esi and edi are the caller's again.
DivisionTruncates ==
    (pc = "done" /\ op \in {"OP_DIV", "OP_MOD"}) =>
        LET a == Signed(left)
            b == Signed(right)
            q == Signed(Value(dividend))
            r == Signed(Value(divisor))
        IN  /\ (q * b + r - a) % PairSize = 0
            /\ IF b = 0 THEN q = 0
                        ELSE /\ Magnitude(r) < Magnitude(b)
                             /\ r # 0 => (r < 0 <=> a < 0)
            /\ accumulator = Host

\* The loop invariant of sl_divmod: the bits of the dividend shifted out so
\* far, read as a number, divided by the divisor, are the quotient bits shifted
\* in at the other end and the accumulator; the bits to come are still on top.
QuotientSoFar ==
    pc = "sl_divmod_loop" =>
        LET done == 2^(2 * WordBits - count)
            m == Magnitude(Signed(left))
            n == Magnitude(Signed(right))
        IN  /\ Value(divisor) = n
            /\ Value(accumulator) < n
            /\ m \div 2^count = (Value(dividend) % done) * n + Value(accumulator)
            /\ m % 2^count = Value(dividend) \div done
===============================================================================
