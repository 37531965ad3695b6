------------------------------ MODULE CallFrames ------------------------------
(***************************************************************************)
(* The frames and calls of the code the back ends emit: the layout         *)
(* allocate_frame computes, run on a machine with a stack pointer, a frame *)
(* pointer and a memory of 4-byte words, so that two slots that overlap, a *)
(* lost saved register or an argument read from where it was not put       *)
(* show.  The five back ends are one scheme with different numbers, which  *)
(* the records below give; addresses and sizes are in bytes.               *)
(***************************************************************************)
EXTENDS Integers, Sequences, FiniteSets, SequencesExt

CONSTANTS
    Functions,     \* the functions of the program, "main" among them
    Parameters,    \* for each function, the sequence of its parameters
    Locals,        \* for each function, the sequence of [name, length] it declares
    Sites,         \* the calls: [caller, callee, arguments, target]
    Assigned,      \* for each function, the cells its code assigns to
    Results,       \* for each function, the cells it returns the value of
    Values,        \* the values the program computes
    Garbage,       \* what a word holds that nobody wrote
    Abis,          \* the back ends to run
    MaxDepth,      \* bounds on the activations and on the stack
    StackWords

VARIABLES
    abi,           \* the back end
    mode,          \* "calling", "running", "library", "returned", "host" or "lost"
    mem,           \* the words written: address -> what
    sp, fp,
    kept,          \* ebx, where it is a register the callee saves
    regs,          \* the argument registers
    rax,           \* the result register
    frames         \* the activations: [function, base, site]

vars == <<abi, mode, mem, sp, fp, kept, regs, rax, frames>>

-----------------------------------------------------------------------------
(* word: of a return address and of a saved register.  registers: how many *)
(* arguments go into registers.  shadow: what a call leaves above its      *)
(* return address for the callee.  saves: the prologue saves ebx and       *)
(* aligns the stack itself.  reserved, spare: slots before the first one   *)
(* and after the last.  window: what a call of printf or scanf takes off   *)
(* the stack, owned: how much of it belongs to the callee.                 *)
X64Abi == [word |-> 8, registers |-> 6, shadow |-> 0, saves |-> FALSE,
           reserved |-> 0, spare |-> 0, window |-> 0, owned |-> 0]

X64MasmAbi == [word |-> 8, registers |-> 4, shadow |-> 32, saves |-> FALSE,
               reserved |-> 0, spare |-> 0, window |-> 32, owned |-> 32]

AArch64Abi == [word |-> 8, registers |-> 8, shadow |-> 0, saves |-> FALSE,
               reserved |-> 0, spare |-> 0, window |-> 64, owned |-> 8]

X86Abi == [word |-> 4, registers |-> 0, shadow |-> 0, saves |-> TRUE,
           reserved |-> 1, spare |-> 1, window |-> 16, owned |-> 12]

X86MasmAbi == X86Abi

SlotSize  == 8
AlignUp(n) == ((n + 15) \div 16) * 16
AlignDown(a) == a - (a % 16)

(* Memory.  A value fills two words, the halves of a pair on x86; a saved  *)
(* register or a return address fills one or two, by the word size.        *)
Unwritten == <<Garbage, 3>>
Words     == {4 * k : k \in -(StackWords) .. 31}

Put(m, a, v) == [m EXCEPT ![a] = <<v, 0>>, ![a + 4] = <<v, 1>>]

Fetch(m, a) == IF m[a][2] = 0 /\ m[a + 4] = <<m[a][1], 1>> THEN m[a][1] ELSE Garbage

Save(m, a, v) == IF abi.word = 8 THEN Put(m, a, v) ELSE [m EXCEPT ![a] = <<v, 2>>]

Saved(m, a) ==
    IF abi.word = 8 THEN Fetch(m, a) ELSE IF m[a][2] = 2 THEN m[a][1] ELSE Garbage

-----------------------------------------------------------------------------
(* allocate_frame: parameters first, then what the code declares; a        *)
(* variable's slots end where the next one's begin, and its first element  *)
(* is the lowest.                                                          *)
Slots(f) == [i \in DOMAIN Parameters[f] |-> [name |-> Parameters[f][i], length |-> 1]] \o Locals[f]

ElementsUpTo(f, i) == UNION {{j} \X (0 .. Slots(f)[j].length - 1) : j \in 1 .. i}
SlotsUpTo(f, i)    == Cardinality(ElementsUpTo(f, i))

\* Mutant of Reserved: the slot of ebx is not skipped.
ReservedNone(back) == 0

Reserved(back) == back.reserved

Offsets ==
    [back \in Abis |-> [f \in Functions |->
        [v \in {Slots(f)[i].name : i \in DOMAIN Slots(f)} |->
            LET i == CHOOSE j \in DOMAIN Slots(f) : Slots(f)[j].name = v
            IN  -(SlotSize * (Reserved(back) + SlotsUpTo(f, i)))]]]

\* Mutant of FrameBytes: the size is not rounded.
FrameBytesExact(bytes) == bytes

FrameBytes(bytes) == AlignUp(bytes)

FrameSizes ==
    [back \in Abis |-> [f \in Functions |->
        FrameBytes(SlotSize * (Reserved(back) + SlotsUpTo(f, Len(Slots(f))) + back.spare))]]

Cells == [f \in Functions |->
             UNION {{<<Slots(f)[i].name, k>> : k \in 0 .. Slots(f)[i].length - 1} :
                        i \in DOMAIN Slots(f)}]

CellsOf(f) == Cells[f]

(* A variable is declared once and allocate_frame gives it its slots once; *)
(* a call has an argument for each parameter (get_function) and operands   *)
(* and results are variables of the function the code belongs to.          *)
Operand(f, operand) ==
    operand.literal \in BOOLEAN /\ (operand.literal \/ operand.cell \in CellsOf(f))

ASSUME CodeAssumption ==
    /\ "main" \in Functions
    /\ \A f \in Functions :
         /\ Parameters[f] \in Seq(ToSet(Parameters[f])) /\ Locals[f] \in Seq(ToSet(Locals[f]))
         /\ \A local \in ToSet(Locals[f]) : local.length \in Nat
         /\ \A i, j \in DOMAIN Slots(f) : Slots(f)[i].name = Slots(f)[j].name => i = j
         /\ Assigned[f] \subseteq CellsOf(f) /\ Results[f] \subseteq CellsOf(f)
    /\ \A site \in Sites :
         /\ {site.caller, site.callee} \subseteq Functions
         /\ site.arguments \in Seq(ToSet(site.arguments))
         /\ Len(site.arguments) = Len(Parameters[site.callee])
         /\ \A operand \in ToSet(site.arguments) : Operand(site.caller, operand)
         /\ site.target = <<>> \/ site.target \in CellsOf(site.caller)

ASSUME MachineAssumption ==
    /\ Abis \subseteq {X64Abi, X64MasmAbi, AArch64Abi, X86Abi, X86MasmAbi}
    /\ MaxDepth \in Nat /\ StackWords \in Nat

CellAt(f, base, c) == base + Offsets[abi][f][c[1]] + SlotSize * c[2]

Current   == Last(frames).function
Running   == mode = "running"

(* Where a value comes from: it is known, or lies at an address.           *)
At(a)     == [literal |-> FALSE, at |-> a]
Known(v)  == [literal |-> TRUE, value |-> v]

Located(operand) == IF operand.literal THEN operand ELSE At(CellAt(Current, fp, operand.cell))

Load(m, source) == IF source.literal THEN source.value ELSE Fetch(m, source.at)

(* Loads and stores, one after the other.                                  *)
Moved(m, moves) ==
    LET after[i \in 0 .. Len(moves)] ==
            IF i = 0 THEN m
            ELSE LET before == after[i - 1]
                 IN  Put(before, moves[i].to, Load(before, moves[i].from))
    IN  after[Len(moves)]

-----------------------------------------------------------------------------
Init ==
    /\ abi \in Abis
    /\ \E start \in IF abi.saves THEN {0, 4, 8, 12} ELSE {0} : sp = start
    /\ mode = "calling"
    /\ mem = [a \in Words |-> Unwritten] /\ fp = sp + 64
    /\ kept = 0 /\ regs = <<>> /\ rax = Garbage
    /\ frames = <<>>

Callee == IF frames = <<>> THEN "main" ELSE Last(frames).site.callee

(* The arguments are pushed last to first by OP_ARG, and taken back from   *)
(* the end of pending_args.                                                *)
Pending(site) == Reverse(site.arguments)

\* Mutant of ArgumentAt: pending_args is taken in the order it was filled.
ArgumentInOrder(pending, i) == pending[i]

ArgumentAt(pending, i) == pending[Len(pending) + 1 - i]

StackArguments(n)    == IF n <= abi.registers THEN 0 ELSE n - abi.registers
RegisterArguments(n) == IF n <= abi.registers THEN n ELSE abi.registers

CallSize(site) == AlignUp(abi.shadow + SlotSize * StackArguments(Len(site.arguments)))

Outgoing(top, i) == top + abi.shadow + SlotSize * (i - abi.registers - 1)

(* emit_call, up to the call instruction.                                  *)
PlacesArguments(site) ==
    /\ Running /\ site.caller = Current /\ Len(frames) < MaxDepth
    /\ LET pending == Pending(site)
           top     == sp - CallSize(site)
           Argument(i) == Located(ArgumentAt(pending, i))
       IN  /\ sp' = top
           /\ mem' = Moved(mem, [j \in 1 .. StackArguments(Len(pending)) |->
                                    [to   |-> Outgoing(top, abi.registers + j),
                                     from |-> Argument(abi.registers + j)]])
           /\ regs' = [i \in 1 .. RegisterArguments(Len(pending)) |-> Load(mem, Argument(i))]
    /\ frames' = [frames EXCEPT ![Len(frames)].site = site]
    /\ mode' = "calling"
    /\ UNCHANGED <<abi, fp, kept, rax>>

Incoming(base, i) == base + 2 * abi.word + abi.shadow + SlotSize * (i - abi.registers - 1)

(* The stack ends somewhere: a program that needs more stops here.         *)
HasRoom(f) == sp - (3 * abi.word + FrameSizes[abi][f] + 16) >= -(4 * StackWords)

(* The call instruction, emit_prologue and emit_arguments.                 *)
Enters ==
    /\ mode = "calling"
    /\ LET f    == Callee
           base == sp - 2 * abi.word
           linked == Save(Save(mem, sp - abi.word, Len(frames)), base, fp)
           saved  == IF abi.saves THEN Save(linked, base - abi.word, kept) ELSE linked
       IN  /\ HasRoom(f)
           /\ fp' = base
           /\ sp' = IF abi.saves THEN AlignDown(base - abi.word - FrameSizes[abi][f])
                                 ELSE base - FrameSizes[abi][f]
           /\ mem' = Moved(saved, [i \in DOMAIN Parameters[f] |->
                                      [to   |-> CellAt(f, base, <<Parameters[f][i], 0>>),
                                       from |-> IF i <= abi.registers THEN Known(regs[i])
                                                ELSE At(Incoming(base, i))]])
           /\ frames' = Append(frames, [function |-> f, base |-> base, site |-> <<>>])
    /\ regs' = <<>>
    /\ mode' = "running"
    /\ UNCHANGED <<abi, kept, rax>>

(* A computation whose result a variable or an element gets; on x86 its    *)
(* right operand goes through ebx.                                         *)
Assigns(c, value) ==
    /\ Running
    /\ mem' = Put(mem, CellAt(Current, fp, c), value)
    /\ kept' = IF abi.saves THEN Garbage ELSE kept
    /\ UNCHANGED <<abi, mode, sp, fp, regs, rax, frames>>

(* emit_vararg_call: what printf or scanf does to the stack below the      *)
(* pointer, and to the part above it that a callee owns, is their affair.  *)
CallsLibrary ==
    /\ Running
    /\ sp' = sp - abi.window
    /\ mode' = "library"
    /\ UNCHANGED <<abi, mem, fp, kept, regs, rax, frames>>

LibraryReturns ==
    /\ mode = "library"
    /\ mem' = [a \in Words |-> IF a < sp + abi.owned THEN Unwritten ELSE mem[a]]
    /\ sp' = sp + abi.window
    /\ mode' = "running"
    /\ UNCHANGED <<abi, fp, kept, regs, rax, frames>>

(* OP_RETURN_WITH_VAL and OP_EXIT: emit_epilogue trusts the frame pointer  *)
(* and what the prologue saved.                                            *)
KeptAt == fp - abi.word

Returns(c) ==
    /\ Running
    /\ rax' = Fetch(mem, CellAt(Current, fp, c))
    /\ kept' = IF abi.saves THEN Saved(mem, KeptAt) ELSE kept
    /\ fp' = Saved(mem, fp)
    /\ sp' = fp + 2 * abi.word
    /\ LET to == Saved(mem, fp + abi.word)
       IN  /\ mode' = IF to = 0 THEN "host" ELSE IF to \in DOMAIN frames THEN "returned" ELSE "lost"
           /\ frames' = IF to \in DOMAIN frames THEN SubSeq(frames, 1, to) ELSE <<>>
    /\ UNCHANGED <<abi, mem, regs>>

(* The end of emit_call, and for OP_CALL the result into its variable.     *)
Continues ==
    /\ mode = "returned"
    /\ LET site == Last(frames).site
       IN  /\ sp' = sp + CallSize(site)
           /\ mem' = IF site.target = <<>> THEN mem
                     ELSE Put(mem, CellAt(Current, fp, site.target), rax)
    /\ frames' = [frames EXCEPT ![Len(frames)].site = <<>>]
    /\ rax' = Garbage
    /\ mode' = "running"
    /\ UNCHANGED <<abi, fp, kept, regs>>

Next ==
    \/ \E site \in Sites : PlacesArguments(site)
    \/ Enters \/ CallsLibrary \/ LibraryReturns \/ Continues
    \/ /\ Running
       /\ \/ \E c \in Results[Current] : Returns(c)
          \/ \E c \in Assigned[Current], value \in Values : Assigns(c, value)

Spec == Init /\ [][Next]_vars

-----------------------------------------------------------------------------
(* At every call the emitted code makes the stack pointer is a multiple of *)
(* 16, whatever frames, pushed arguments and windows lie above it: what    *)
(* the library's aligned accesses rely on.                                 *)
CallsAligned == mode \in {"calling", "library"} /\ frames # <<>> => sp % 16 = 0

(* main gives the C runtime its stack pointer, frame pointer and ebx back. *)
HostIsRestored == mode = "host" => fp = sp + 64 /\ kept = 0

(* Through all nested and repeated calls the frames in memory are the      *)
(* activations the language promises.                                      *)
Contents(k) ==
    LET f == frames[k].function
    IN  [function |-> f, cells |-> [c \in CellsOf(f) |-> Fetch(mem, CellAt(f, frames[k].base, c))]]

Activated == [k \in DOMAIN frames |-> Contents(k)]
Answer    == IF mode = "returned" THEN <<rax>> ELSE <<>>

Promised == INSTANCE Activations WITH activations <- Activated, returned <- Answer

FramesAreActivations == Promised!Spec
=============================================================================
