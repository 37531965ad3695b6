---------------------------- MODULE OptimizedRun -----------------------------
(***************************************************************************)
(* One function, optimised by ConstPropagation and then run: the machine   *)
(* executes the code as the generator left it, and the properties compare, *)
(* at every instruction it reaches, what the analysis claims and what the  *)
(* optimised code does there instead.                                      *)
(*                                                                         *)
(* The machine is what the code generators make of an instruction: values  *)
(* are longs in 8-byte slots, an address is the variable it points to, and *)
(* division by zero stops the program.  The rest of the program is         *)
(* external to the function: a parameter, a value read and a global after  *)
(* a call may be any of Inputs, and a callee writes to the variables whose *)
(* addresses it can get hold of, through its arguments or a global.        *)
(* Reading a variable nobody has written has no meaning in the language;   *)
(* the run stops there.                                                    *)
(***************************************************************************)
EXTENDS ConstPropagation

CONSTANT Inputs      \* the values that reach the function from outside

VARIABLES
    pc,       \* the position of the next instruction; 0 before and after the run
    env,      \* the value of every variable
    passed    \* the addresses among the arguments pushed for the next call

runVars == <<pc, env, passed>>
sysVars == <<optVars, runVars>>

Num(n)      == [num |-> n]
Address(v)  == [ptr |-> v]
Unwritten   == [junk |-> TRUE]
IsNum(x)    == "num" \in DOMAIN x
IsAddress(x) == "ptr" \in DOMAIN x

Numbers == {Num(n) : n \in Inputs}

Value(o) ==
    IF IsLit(o) THEN Num(o.lit) ELSE IF IsVar(o) THEN env[o.var] ELSE Unwritten

Trap == [trap |-> TRUE]

(* What an expression leaves in its result.  An address can be copied; any *)
(* other use of one is left out of the programs.                           *)
Result(i) ==
    LET l == Value(i.l)
        r == Value(i.r)
    IN  CASE i.op = "assign"        -> l
          [] i.op = "minus"         -> Num(Wrapped(-l.num, LongMax))
          [] i.op = "not"           -> Num(Truth(l.num = 0))
          [] Divides(i.op) /\ r.num = 0 -> Trap
          [] OTHER                  -> Num(Wrapped(Computed(i.op, l.num, r.num), LongMax))

Operands(i) == {i.l, i.r} \ {NoOperand}

(* Every operand has been written.                                         *)
Defined(i) == \A o \in Operands(i) : IsVar(o) => Value(o) # Unwritten

Current == source[pc]

-----------------------------------------------------------------------------
RunInit == OptInit /\ pc = 0 /\ env = [v \in Registered(source) |-> Unwritten] /\ passed = {}

Optimize ==
    /\ OptNext
    /\ UNCHANGED runVars

(* A pointer that comes from outside holds no address of this function's   *)
(* variables.                                                              *)
Elsewhere == Address("elsewhere")

FromOutside == Globals \cup Params

Enter ==
    /\ phase = "done" /\ pc = 0 /\ stage = "fold"
    /\ stage' = "run"
    /\ pc' = 1
    /\ \E given \in [FromOutside \ Pointers -> Numbers] :
         env' = [v \in Registered(source) |->
                    IF v \in DOMAIN given THEN given[v]
                    ELSE IF v \in FromOutside THEN Elsewhere ELSE Unwritten]
    /\ UNCHANGED <<allVars, source, outs, facts, visiting, changed, passed>>

At(ops) == stage = "run" /\ pc # 0 /\ Current.op \in ops

Advance == pc' = pc + 1

JumpTo(label) == pc' = PlaceOf(source, label)

RunOptimized == UNCHANGED optVars

Passes ==
    /\ At({"enter", "label", "print"}) /\ Defined(Current)
    /\ Advance
    /\ RunOptimized /\ UNCHANGED <<env, passed>>

(* A local declared with a literal is filled where it is declared.         *)
Declares ==
    /\ At({"declare"})
    /\ LET v == Current.l.var
       IN  env' = IF v \in DOMAIN Inits THEN [env EXCEPT ![v] = Num(Inits[v])] ELSE env
    /\ Advance
    /\ RunOptimized /\ UNCHANGED passed

Computes ==
    /\ At(UnaryOps \cup BinaryOps) /\ Defined(Current)
    /\ Result(Current) # Trap
    /\ env' = [env EXCEPT ![Current.res] = Result(Current)]
    /\ Advance
    /\ RunOptimized /\ UNCHANGED passed

Reads ==
    /\ At({"read"})
    /\ \E x \in Numbers : env' = [env EXCEPT ![Current.res] = x]
    /\ Advance
    /\ RunOptimized /\ UNCHANGED passed

(* Storing through an address from elsewhere changes nothing of ours but,  *)
(* perhaps, a global.                                                      *)
StoredAt(x, y) ==
    IF x = Elsewhere THEN {env} \cup {[env EXCEPT ![g] = y] : g \in Globals \ Pointers}
                     ELSE {[env EXCEPT ![x.ptr] = y]}

TakesAddressOf ==
    /\ At({"lea"})
    /\ env' = [env EXCEPT ![Current.res] = Address(Current.l.var)]
    /\ Advance
    /\ RunOptimized /\ UNCHANGED passed

Loads ==
    /\ At({"ptr_get"}) /\ Defined(Current)
    /\ LET p == Value(Current.l)
       IN  \E x \in (IF p = Elsewhere THEN Numbers ELSE {env[p.ptr]}) \ {Unwritten} :
             env' = [env EXCEPT ![Current.res] = x]
    /\ Advance
    /\ RunOptimized /\ UNCHANGED passed

Stores ==
    /\ At({"ptr_set", "read_cell"}) /\ Defined(Current)
    /\ \E x \in IF Current.op = "ptr_set" THEN {Value(Current.r)} ELSE Numbers :
         env' \in StoredAt(Value(Current.l), x)
    /\ Advance
    /\ RunOptimized /\ UNCHANGED passed

PushesArgument ==
    /\ At({"arg"}) /\ Defined(Current)
    /\ passed' = IF IsAddress(Value(Current.l)) THEN passed \cup {Value(Current.l).ptr} ELSE passed
    /\ Advance
    /\ RunOptimized /\ UNCHANGED env

(* The variables whose addresses a callee was given or can find.           *)
Found   == passed \cup {env[g].ptr : g \in {h \in Globals : IsAddress(env[h])}}
Exposed == DOMAIN env \cap (Globals \cup Found)

(* A callee can leave any number in one of them, and in a pointer any      *)
(* address it has found.                                                   *)
Calls ==
    /\ At({"call", "proc"})
    /\ \E x \in Numbers,
          number \in [Exposed \ Pointers -> Numbers],
          pointer \in [Exposed \cap Pointers -> {Elsewhere} \cup {Address(v) : v \in Found}] :
         env' = [v \in DOMAIN env |->
                    CASE v = Current.res       -> x
                      [] v # Current.res /\ v \in DOMAIN number  -> number[v]
                      [] v # Current.res /\ v \in DOMAIN pointer -> pointer[v]
                      [] OTHER -> env[v]]
    /\ passed' = {}
    /\ Advance
    /\ RunOptimized

Jumps ==
    /\ At({"jmp", "return", "return_val"}) /\ Defined(Current)
    /\ JumpTo(Current.target)
    /\ RunOptimized /\ UNCHANGED <<env, passed>>

Branches ==
    /\ At({"jmp_false"}) /\ Defined(Current)
    /\ IF Value(Current.l) = Num(0) THEN JumpTo(Current.target) ELSE Advance
    /\ RunOptimized /\ UNCHANGED <<env, passed>>

(* The program returns, or a division by zero ends it.                     *)
Stops ==
    /\ \/ At({"exit"})
       \/ At(BinaryOps) /\ Defined(Current) /\ Result(Current) = Trap
    /\ pc' = 0
    /\ RunOptimized /\ UNCHANGED <<env, passed>>

Running ==
    \/ Passes \/ Declares \/ Computes \/ Reads \/ TakesAddressOf \/ Loads \/ Stores
    \/ PushesArgument \/ Calls \/ Jumps \/ Branches \/ Stops

(* The program may stop anywhere; the optimiser may not.                   *)
Stopped == stage = "run" /\ UNCHANGED sysVars

RunNext == Optimize \/ Enter \/ Running \/ Stopped

(* The optimiser runs until it is done: it always has a next step, or TLC  *)
(* would report a deadlock, so this is WF_sysVars(Optimize) spelled out.   *)
RunSpec == RunInit /\ [][RunNext]_sysVars /\ ([]<>(phase = "done") \/ []<><<TRUE>>_optVars)

-----------------------------------------------------------------------------
(* Whenever the program reaches an instruction, every variable the         *)
(* analysis holds to be a constant there, and that has been written, has   *)
(* that value.                                                             *)
AnalysisSound ==
    stage = "run" /\ pc > 1 =>
        \A v \in Registered(source) :
            IsConst(facts[pc][v]) /\ env[v] # Unwritten => env[v] = Num(facts[pc][v])

(* The same instruction in the optimised code, if it is still there.       *)
Kept == \E k \in exported : Contains(blocks[k], pc)

(* What an instruction does when it is executed now.                       *)
EffectOf(i) ==
    CASE IsExpr(i)      -> [sets |-> i.res, to |-> Result(i)]
      [] i.op = "jmp_false" -> [goes |-> IF Value(i.l) = Num(0) THEN i.target ELSE NoLabel]
      [] i.op = "jmp"   -> [goes |-> i.target]
      [] i.op \in {"arg", "print", "return_val"} -> [does |-> i.op, with |-> Value(i.l), goes |-> i.target]
      [] OTHER          -> i

(* At every instruction the program reaches, the optimised code does the   *)
(* same: the instruction has been kept and has the same effect, or it was  *)
(* a branch that leads to the instruction behind it.                       *)
SameEffect ==
    stage = "run" /\ pc # 0 /\ Defined(Current) =>
        \/ Kept /\ EffectOf(code[pc]) = EffectOf(Current)
        \/ /\ ~Kept /\ IsJmpCond(Current)
           /\ BlockOf(BlocksOf(source), pc) \in exported
           /\ Value(Current.l) = Num(0) => PlaceOf(source, Current.target) = pc + 1
=============================================================================
