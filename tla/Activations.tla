----------------------------- MODULE Activations -----------------------------
(***************************************************************************)
(* What calls promise a function of the source language: every activation  *)
(* has its own variables, which change when the activation itself assigns  *)
(* to them and at no other time; it starts with its parameters equal to    *)
(* the arguments; and the caller gets the value the callee returned.       *)
(***************************************************************************)
EXTENDS Integers, Sequences, SequencesExt

CONSTANTS
    Functions,        \* the functions of the program
    Parameters,       \* for each function, the sequence of its parameters
    Cells,            \* for each function, its variables' cells, <<parameter, 0>> among them
    Sites             \* the calls: [caller, callee, arguments, target]

VARIABLES
    activations,      \* the functions being executed, the innermost last
    returned          \* the value a caller has yet to store, as <<value>>, or <<>>

activationVars == <<activations, returned>>

Current == Last(activations)

(* An argument is a literal or a cell of the caller.                       *)
ValueOf(operand) == IF operand.literal THEN operand.value ELSE Current.cells[operand.cell]

Init == activations = <<>> /\ returned = <<>>

Assign(c, value) ==
    /\ activations # <<>> /\ returned = <<>>
    /\ c \in Cells[Current.function]
    /\ activations' = [activations EXCEPT ![Len(activations)].cells[c] = value]
    /\ UNCHANGED returned

(* The cells that are not parameters start with whatever they find.        *)
Start(f, values) ==
    LET new == Last(activations')
    IN  /\ activations' # <<>>
        /\ Front(activations') = activations
        /\ new.function = f
        /\ DOMAIN new.cells = Cells[f]
        /\ \A i \in DOMAIN values : new.cells[<<Parameters[f][i], 0>>] = values[i]

CallFrom(site) ==
    /\ activations # <<>> /\ returned = <<>>
    /\ site.caller = Current.function
    /\ Start(site.callee, [i \in DOMAIN site.arguments |-> ValueOf(site.arguments[i])])
    /\ UNCHANGED returned

Return(c) ==
    /\ activations # <<>> /\ returned = <<>>
    /\ c \in Cells[Current.function]
    /\ activations' = Front(activations)
    /\ returned' = IF activations' = <<>> THEN <<>> ELSE <<Current.cells[c]>>

Store(site) ==
    /\ activations # <<>> /\ returned # <<>>
    /\ site.caller = Current.function
    /\ activations' = IF site.target = <<>> THEN activations
                      ELSE [activations EXCEPT ![Len(activations)].cells[site.target] = returned[1]]
    /\ returned' = <<>>

Next ==
    \/ activations = <<>> /\ returned = <<>> /\ Start("main", <<>>) /\ UNCHANGED returned
    \/ \E site \in Sites : CallFrom(site) \/ Store(site)
    \/ \E f \in Functions : \E c \in Cells[f] : Return(c)
    \/ /\ activations # <<>>
       /\ \E c \in Cells[Current.function] :
              /\ Len(activations') = Len(activations)
              /\ Assign(c, Last(activations').cells[c])

Spec == Init /\ [][Next]_activationVars
=============================================================================
