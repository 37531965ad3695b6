-------------------------- MODULE SymbolTableProofs --------------------------
(***************************************************************************)
(* Whatever a source file declares, defines, nests and redefines, and      *)
(* however long it is: names mean what lexical scoping says, every         *)
(* variable of a function's code has storage, every generated function has *)
(* one body, and no exit pops an empty stack.                              *)
(***************************************************************************)
EXTENDS SymbolTable, SequenceTheorems, FiniteSetTheorems,
        WellFoundedInduction, TLAPS

-----------------------------------------------------------------------------
(* The inductive invariant.                                                *)
VariableObjects == [name : Names, path : Seq(0 .. current_scope_id)]
FunctionObjects(V) ==
    [name : FunctionNames, parameters : Seq(V), has_declare : BOOLEAN, scope_esp : Int,
     declares : SUBSET V, uses : SUBSET V, heads : Nat, prototyped : BOOLEAN]

TypedScopes ==
    /\ current_scope_id \in 0 .. MaxScopes
    /\ scope_vector \in Seq(0 .. current_scope_id) /\ scope_vector # <<>>
    /\ variables \in Seq(VariableObjects) /\ Len(variables) <= MaxVariables
    /\ \A v \in Variables : variables[v].path # <<>>

TypedTable ==
    /\ variableTable \in [Names -> Seq(Variables)]
    /\ globalVariables \in Seq(Variables)
    /\ found \in {None} \cup Variables
    /\ erred \in BOOLEAN

TypedFunctions ==
    /\ functions \in Seq(FunctionObjects(Variables))
    /\ functionTable \in [FunctionNames -> {None} \cup DOMAIN functions]
    /\ function_define_order_list \in Seq(FunctionNames)
    /\ current_function \in {None} \cup DOMAIN functions

TypedParser ==
    /\ productions \in Seq({"header", "block", "tail"})
    /\ DOMAIN header = {"name", "parameters"} /\ header.parameters \in Seq(Variables)
    /\ declarators \in Seq(Variables) /\ listClosed \in BOOLEAN

Typed == TypedScopes /\ TypedTable /\ TypedFunctions /\ TypedParser

(* Where the parser is decides how many scopes are open and whether there  *)
(* is a current function: a header opens one scope, each block one more.   *)
AtFile   == productions = <<>> /\ Len(scope_vector) = 1
InHeader == Len(productions) = 1 /\ productions[1] = "header" /\ Len(scope_vector) = 2
InBody   ==
    /\ Len(productions) > 1 /\ productions[1] = "header"
    /\ \A k \in 2 .. Len(productions) : productions[k] = "block"
    /\ Len(scope_vector) = Len(productions) + 1
InTail   ==
    /\ Len(productions) = 2 /\ productions[1] = "header" /\ productions[2] = "tail"
    /\ Len(scope_vector) = 2

Placed ==
    /\ AtFile \/ InHeader \/ InBody \/ InTail
    /\ current_function # None <=> InBody
    /\ InHeader \/ InTail => declarators = <<>>
    /\ ~AtFile => header.name \in FunctionNames
    /\ listClosed => declarators # <<>>

(* Scope ids name branches of the tree of scopes: a path that agrees with  *)
(* the open scopes at one level agrees with them at every level above.     *)
Scoped ==
    /\ \A v \in Variables : \A k \in 1 .. Len(variables[v].path) :
          k <= Len(scope_vector) /\ scope_vector[k] = variables[v].path[k] =>
              \A j \in 1 .. k : scope_vector[j] = variables[v].path[j]
    /\ \A i \in DOMAIN declarators : variables[declarators[i]].path = scope_vector

Known(n) == ToSet(variableTable[n])

(* The objects of a name have different paths; the declarators of a list   *)
(* are different objects, registered nowhere.                              *)
Distinct ==
    /\ \A n \in Names : \A v, w \in Known(n) :
          /\ variables[v].name = n
          /\ variables[v].path = variables[w].path => v = w
    /\ \A i, j \in DOMAIN declarators : i # j => declarators[i] # declarators[j]
    /\ \A n \in Names : \A i \in DOMAIN declarators : declarators[i] \notin Known(n)

(* Where the variables that a name can mean now have their storage.        *)
Placements ==
    /\ \A n \in Names : \A v \in Known(n) :
          LET length == Len(variables[v].path) IN
          /\ length = 1 => v \in ToSet(globalVariables)
          /\ Open(v) /\ length = 2 => v \in ToSet(header.parameters)
          /\ Open(v) /\ length > 2 => v \in functions[current_function].declares
    /\ InBody /\ ~functions[current_function].prototyped =>
          functions[current_function].parameters = header.parameters
    /\ \A f \in DOMAIN functions : functions[f].has_declare => functions[f].prototyped

(* The order list holds the registered names, each once; an object is      *)
(* registered under its own name, with a body once it is no mere prototype.*)
Registry ==
    /\ IsInjective(function_define_order_list)
    /\ ToSet(function_define_order_list) = {f \in FunctionNames : Registered(f)}
    /\ \A f \in FunctionNames : Registered(f) =>
          LET fun == functions[functionTable[f]]
          IN  fun.name = f /\ fun.heads = IF fun.has_declare THEN 0 ELSE 1

Levels ==
    \A f \in DOMAIN functions :
        functions[f].scope_esp = IF f = current_function THEN Len(productions) ELSE 0

TableInv ==
    /\ Typed /\ Placed /\ Scoped /\ Distinct /\ Placements /\ Registry /\ Levels
    /\ UsesHaveStorage

-----------------------------------------------------------------------------
(* Facts about sequences.                                                  *)
LEMMA LeastNatural ==
    ASSUME NEW S \in SUBSET Nat, S # {}
    PROVE  \E m \in S : \A k \in S : m <= k
<1> DEFINE R == OpToRel(<, Nat)
<1>1. IsWellFoundedOn(R, Nat)
  BY NatLessThanWellFounded
<1>2. PICK m \in S : \A k \in S : <<k, m>> \notin R
  <2> HIDE DEF R
  <2> QED
    BY <1>1, WFMin
<1>3. ASSUME NEW k \in S PROVE m <= k
  <2>1. k \in Nat /\ m \in Nat
    OBVIOUS
  <2>2. <<k, m>> \notin R
    BY <1>2
  <2>3. ~(k < m)
    BY <2>1, <2>2 DEF OpToRel
  <2>4. QED
    BY <2>1, <2>3
<1>4. QED
  BY <1>3

LEMMA FrontFacts ==
    ASSUME NEW S, NEW s \in Seq(S), s # <<>>
    PROVE  /\ Front(s) \in Seq(S) /\ Len(Front(s)) = Len(s) - 1
           /\ \A k \in 1 .. Len(s) - 1 : Front(s)[k] = s[k]
           /\ Last(s) \in S /\ Last(s) = s[Len(s)]
<1>1. Len(s) \in Nat \ {0} /\ \A k \in 1 .. Len(s) : s[k] \in S
  BY EmptySeq, ElementOfSeq
<1>2. /\ SubSeq(s, 1, Len(s) - 1) \in Seq(S)
      /\ Len(SubSeq(s, 1, Len(s) - 1)) = Len(s) - 1
      /\ \A k \in 1 .. Len(s) - 1 : SubSeq(s, 1, Len(s) - 1)[k] = s[k]
  <2> DEFINE n == Len(s) - 1
  <2>1. n \in Int /\ 1 \in Int /\ \A k \in 1 .. n : s[k] \in S
    BY <1>1
  <2>2. /\ SubSeq(s, 1, n) \in Seq(S) /\ Len(SubSeq(s, 1, n)) = IF 1 <= n THEN n - 1 + 1 ELSE 0
        /\ \A k \in 1 .. n - 1 + 1 : SubSeq(s, 1, n)[k] = s[1 + k - 1]
    <3> HIDE DEF n
    <3> QED
      BY <2>1, SubSeqProperties
  <2>3. n \in Nat /\ n - 1 + 1 = n /\ (~ 1 <= n => n = 0) /\ \A k \in 1 .. n : 1 + k - 1 = k
    BY <1>1, SMTT(30)
  <2>4. Len(SubSeq(s, 1, n)) = n /\ \A k \in 1 .. n : SubSeq(s, 1, n)[k] = s[k]
    <3> HIDE DEF n
    <3> QED
      BY <2>2, <2>3
  <2>5. QED
    BY <2>2, <2>4
<1>3. QED
  BY <1>1, <1>2 DEF Front, Last

LEMMA Singleton ==
    ASSUME NEW S, NEW e \in S
    PROVE  <<e>> \in Seq(S) /\ Len(<<e>>) = 1 /\ <<e>>[1] = e
<1>1. Append(<<>>, e) = <<e>>
  OBVIOUS
<1>2. <<>> \in Seq(S) /\ Len(<<>>) = 0
  BY EmptySeq
<1>3. QED
  BY <1>1, <1>2, AppendProperties

LEMMA AppendedSet ==
    ASSUME NEW S, NEW s \in Seq(S), NEW e
    PROVE  ToSet(Append(s, e)) = ToSet(s) \cup {e}
<1>1. s \in Seq(S \cup {e})
  BY SeqMonotonic
<1>2. /\ DOMAIN s = 1 .. Len(s) /\ Len(s) \in Nat
      /\ DOMAIN Append(s, e) = 1 .. Len(s) + 1
      /\ \A k \in 1 .. Len(s) : Append(s, e)[k] = s[k]
      /\ Append(s, e)[Len(s) + 1] = e
  BY <1>1, LenProperties, AppendProperties
<1>3. QED
  BY <1>2 DEF ToSet

-----------------------------------------------------------------------------
(* Types.                                                                  *)
LEMMA InitTyped == Init => Typed
<1> SUFFICES ASSUME Init PROVE Typed
  OBVIOUS
<1>2. Len(<<>>) = 0 /\ \A S : <<>> \in Seq(S)
  BY EmptySeq
<1>1. variables \in Seq(VariableObjects) /\ Len(variables) <= MaxVariables
  <2>1. variables = <<>>
    BY DEF Init
  <2>2. QED
    BY <1>2, <2>1, BoundsAssumption
<1>3. /\ current_scope_id = 0
      /\ scope_vector \in Seq(0 .. current_scope_id) /\ scope_vector # <<>>
  <2>1. <<0>> \in Seq(0 .. 0) /\ <<0>> # <<>>
    BY Singleton
  <2>2. QED
    BY <2>1 DEF Init
<1>4. current_scope_id \in 0 .. MaxScopes
  BY <1>3, BoundsAssumption
<1>5. /\ variableTable \in [Names -> Seq(Variables)]
      /\ functionTable \in [FunctionNames -> {None} \cup DOMAIN functions]
  BY <1>2 DEF Init
<1>6. DOMAIN header = {"name", "parameters"} /\ header.parameters \in Seq(Variables)
  BY <1>2 DEF Init
<1>7. \A v \in Variables : variables[v].path # <<>>
  <2>1. DOMAIN variables = 1 .. 0
    BY <1>2, LenProperties DEF Init
  <2>2. QED
    BY <2>1 DEF Variables
<1>8. /\ globalVariables \in Seq(Variables) /\ functions \in Seq(FunctionObjects(Variables))
      /\ function_define_order_list \in Seq(FunctionNames)
      /\ productions \in Seq({"header", "block", "tail"})
      /\ declarators \in Seq(Variables) /\ listClosed \in BOOLEAN /\ erred \in BOOLEAN
      /\ current_function = None /\ found = None
  BY <1>2 DEF Init
<1>9. QED
  BY <1>1, <1>3, <1>4, <1>5, <1>6, <1>7, <1>8 DEF Typed, TypedScopes, TypedTable, TypedFunctions, TypedParser

LEMMA FunctionsGrow ==
    ASSUME Typed, Variables \subseteq Variables'
    PROVE  functions \in Seq(FunctionObjects(Variables'))
<1>1. Seq(Variables) \subseteq Seq(Variables')
  BY SeqMonotonic
<1>2. FunctionObjects(Variables) \subseteq FunctionObjects(Variables')
  BY <1>1 DEF FunctionObjects
<1>3. QED
  BY <1>2, SeqMonotonic DEF Typed, TypedScopes, TypedTable, TypedFunctions, TypedParser

(* A change of one function object.                                        *)
LEMMA ObjectTyped ==
    ASSUME NEW V, NEW fun \in FunctionObjects(V)
    PROVE  /\ \A d \in SUBSET V :
                 /\ [fun EXCEPT !.declares = @ \cup d] \in FunctionObjects(V)
                 /\ [fun EXCEPT !.uses = @ \cup d] \in FunctionObjects(V)
           /\ \A k \in Int : [fun EXCEPT !.scope_esp = @ + k] \in FunctionObjects(V)
           /\ Entered(fun) \in FunctionObjects(V)
           /\ Entered([fun EXCEPT !.has_declare = FALSE]) \in FunctionObjects(V)
<1>1. /\ fun.declares \in SUBSET V /\ fun.uses \in SUBSET V
      /\ fun.scope_esp \in Int /\ fun.heads \in Nat /\ fun.has_declare \in BOOLEAN
  BY DEF FunctionObjects
<1>2. ASSUME NEW d \in SUBSET V
      PROVE  /\ [fun EXCEPT !.declares = @ \cup d] \in FunctionObjects(V)
             /\ [fun EXCEPT !.uses = @ \cup d] \in FunctionObjects(V)
  BY <1>1 DEF FunctionObjects
<1>3. ASSUME NEW k \in Int
      PROVE  [fun EXCEPT !.scope_esp = @ + k] \in FunctionObjects(V)
  BY <1>1 DEF FunctionObjects
<1>4. ASSUME NEW g \in FunctionObjects(V)
      PROVE  Entered(g) \in FunctionObjects(V)
  <2>1. g.scope_esp + 2 \in Int /\ g.heads + 1 \in Nat
    BY DEF FunctionObjects
  <2>2. \A k \in Int, m \in Nat : [g EXCEPT !.scope_esp = k, !.heads = m] \in FunctionObjects(V)
    BY DEF FunctionObjects
  <2>3. QED
    BY <2>1, <2>2 DEF Entered
<1>5. [fun EXCEPT !.has_declare = FALSE] \in FunctionObjects(V)
  BY DEF FunctionObjects
<1>6. QED
  BY <1>2, <1>3, <1>4, <1>5

LEMMA AddTyped ==
    ASSUME Typed, Variables \subseteq Variables',
           NEW v \in Variables', variables'[v].name \in Names, add_variable(v)
    PROVE  /\ variableTable' \in [Names -> Seq(Variables')]
           /\ globalVariables' \in Seq(Variables')
           /\ functions' \in Seq(FunctionObjects(Variables')) /\ Len(functions') = Len(functions)
           /\ erred' \in BOOLEAN
<1> DEFINE n == variables'[v].name
<1>1. Seq(Variables) \subseteq Seq(Variables')
  BY SeqMonotonic
<1>2. /\ variableTable \in [Names -> Seq(Variables')] /\ globalVariables \in Seq(Variables')
      /\ Append(variableTable[n], v) \in Seq(Variables')
      /\ Append(globalVariables, v) \in Seq(Variables')
  BY <1>1, AppendProperties DEF Typed, TypedScopes, TypedTable, TypedFunctions, TypedParser
<1>3. functions \in Seq(FunctionObjects(Variables'))
  BY FunctionsGrow
<1>4. ASSUME current_function # None
      PROVE  LET g == [functions EXCEPT ![current_function].declares = @ \cup {v}]
             IN  g \in Seq(FunctionObjects(Variables')) /\ Len(g) = Len(functions)
  <2>1. current_function \in 1 .. Len(functions)
    BY <1>4 DEF Typed, TypedScopes, TypedTable, TypedFunctions, TypedParser
  <2>2. [functions[current_function] EXCEPT !.declares = @ \cup {v}] \in FunctionObjects(Variables')
    <3>1. functions[current_function] \in FunctionObjects(Variables')
      BY <1>3, <2>1, ElementOfSeq
    <3>2. QED
      BY <3>1, ObjectTyped
  <2>3. QED
    BY <1>3, <2>1, <2>2, ExceptSeq
<1>5. CASE Taken(v)
  <2>1. erred' = TRUE /\ UNCHANGED <<variableTable, globalVariables, functions>>
    BY <1>5 DEF add_variable
  <2>2. QED
    BY <1>2, <1>3, <2>1
<1>6. CASE ~Taken(v)
  <2>1. /\ variableTable' = [variableTable EXCEPT ![n] = Append(variableTable[n], v)]
        /\ globalVariables' \in {Append(globalVariables, v), globalVariables}
        /\ functions' = IF current_function = None THEN functions
                        ELSE [functions EXCEPT ![current_function].declares = @ \cup {v}]
        /\ erred' = erred
    BY <1>6 DEF add_variable
  <2>2. functions' \in Seq(FunctionObjects(Variables')) /\ Len(functions') = Len(functions)
    BY <1>3, <1>4, <2>1
  <2>3. variableTable' \in [Names -> Seq(Variables')]
    BY <1>2, <2>1
  <2>4. QED
    BY <1>2, <2>1, <2>2, <2>3 DEF Typed, TypedTable
<1>7. QED
  BY <1>5, <1>6

LEMMA VariableTyped ==
    ASSUME TypedScopes, NEW v \in Variables
    PROVE  /\ variables[v].name \in Names /\ variables[v].path \in Seq(0 .. current_scope_id)
           /\ Len(variables[v].path) \in Nat \ {0}
<1>1. variables[v] \in VariableObjects /\ variables[v].path # <<>>
  BY ElementOfSeq, LenProperties DEF TypedScopes, Variables
<1>2. QED
  BY <1>1, EmptySeq DEF VariableObjects

LEMMA NewVariableTyped ==
    ASSUME TypedScopes, NEW n \in Names, NewVariable(n), UNCHANGED scopeVars
    PROVE  /\ variables' \in Seq(VariableObjects') /\ Len(variables') <= MaxVariables
           /\ \A v \in Variables' : variables'[v].path # <<>>
           /\ Variables' = 1 .. Len(variables) + 1 /\ Variables = 1 .. Len(variables)
           /\ \A v \in Variables : variables'[v] = variables[v]
           /\ variables'[Len(variables) + 1] = [name |-> n, path |-> scope_vector]
           /\ Len(variables) \in Nat
           /\ TypedScopes' /\ Variables \subseteq Variables' /\ Len(variables) + 1 \in Variables'
           /\ variables'[Len(variables) + 1].name = n
           /\ variables'[Len(variables) + 1].path = scope_vector
           /\ Variables' = Variables \cup {Len(variables) + 1} /\ Len(variables) + 1 \notin Variables
<1> DEFINE new == [name |-> n, path |-> scope_vector]
<1>1. new \in VariableObjects /\ VariableObjects' = VariableObjects
  BY DEF TypedScopes, VariableObjects, scopeVars
<1>2. variables' = Append(variables, new) /\ variables \in Seq(VariableObjects)
  BY DEF NewVariable, TypedScopes
<1>3. /\ variables' \in Seq(VariableObjects) /\ Len(variables') = Len(variables) + 1
      /\ \A v \in 1 .. Len(variables) : variables'[v] = variables[v]
      /\ variables'[Len(variables) + 1] = new
  <2> HIDE DEF new
  <2> QED
    BY <1>1, <1>2, AppendProperties
<1>4. /\ Variables' = 1 .. Len(variables') /\ Variables = 1 .. Len(variables)
      /\ Len(variables) \in Nat
  BY <1>2, <1>3, LenProperties DEF Variables
<1>5. Len(variables') <= MaxVariables
  BY <1>3, <1>4, BoundsAssumption DEF NewVariable
<1>6. new.path # <<>>
  BY DEF TypedScopes
<1>7. \A v \in Variables' : variables'[v].path # <<>>
  <2> HIDE DEF new
  <2>1. \A v \in Variables : variables[v].path # <<>>
    BY DEF TypedScopes
  <2>2. QED
    BY <1>3, <1>4, <1>6, <2>1
<1>8. TypedScopes'
  BY <1>1, <1>3, <1>5, <1>7 DEF TypedScopes, scopeVars
<1>9. Variables' = 1 .. Len(variables) + 1 /\ Variables \subseteq Variables'
  BY <1>3, <1>4
<1>10. /\ Len(variables) + 1 \in Variables' /\ new.name = n /\ new.path = scope_vector
       /\ Variables' = Variables \cup {Len(variables) + 1} /\ Len(variables) + 1 \notin Variables
  BY <1>4, <1>9
<1>11. QED
  <2> HIDE DEF new
  <2>1. \A v \in Variables : variables'[v] = variables[v]
    BY <1>3, <1>4
  <2>2. variables'[Len(variables) + 1] = [name |-> n, path |-> scope_vector]
    BY <1>3 DEF new
  <2>3. QED
    BY <1>1, <1>3, <1>4, <1>5, <1>7, <1>8, <1>9, <1>10, <2>1, <2>2

(* When the variables and the scopes stay what they are, so do their types.*)
LEMMA SameScopes ==
    ASSUME TypedScopes, UNCHANGED <<variables, scopeVars>>
    PROVE  TypedScopes' /\ Variables' = Variables
  BY DEF TypedScopes, Variables, VariableObjects, scopeVars

LEMMA EnterScope ==
    ASSUME TypedScopes, enter_new_scope, UNCHANGED variables
    PROVE  /\ TypedScopes' /\ Variables' = Variables
           /\ current_scope_id' = current_scope_id + 1
           /\ Len(scope_vector) \in Nat /\ Len(scope_vector') = Len(scope_vector) + 1
           /\ \A k \in 1 .. Len(scope_vector) : scope_vector'[k] = scope_vector[k]
           /\ scope_vector'[Len(scope_vector) + 1] = current_scope_id + 1
<1>1. Variables' = Variables
  BY DEF Variables
<1>2. /\ current_scope_id' = current_scope_id + 1 /\ current_scope_id' \in 0 .. MaxScopes
      /\ current_scope_id \in Nat /\ scope_vector' = Append(scope_vector, current_scope_id')
  BY BoundsAssumption DEF TypedScopes, enter_new_scope
<1>3. scope_vector \in Seq(0 .. current_scope_id')
  <2>1. 0 .. current_scope_id \subseteq 0 .. current_scope_id'
    BY <1>2
  <2>2. QED
    BY <2>1, SeqMonotonic DEF TypedScopes
<1>4. /\ scope_vector' \in Seq(0 .. current_scope_id') /\ scope_vector' # <<>>
      /\ Len(scope_vector) \in Nat /\ Len(scope_vector') = Len(scope_vector) + 1
      /\ \A k \in 1 .. Len(scope_vector) : scope_vector'[k] = scope_vector[k]
      /\ scope_vector'[Len(scope_vector) + 1] = current_scope_id'
  BY <1>2, <1>3, AppendProperties, LenProperties
<1>5. variables \in Seq(VariableObjects')
  <2>1. 0 .. current_scope_id \subseteq 0 .. current_scope_id'
    BY <1>2
  <2>2. Seq(0 .. current_scope_id) \subseteq Seq(0 .. current_scope_id')
    BY <2>1, SeqMonotonic
  <2>3. VariableObjects \subseteq VariableObjects'
    BY <2>2 DEF VariableObjects
  <2>4. QED
    BY <2>3, SeqMonotonic DEF TypedScopes
<1>6. QED
  BY <1>1, <1>2, <1>4, <1>5 DEF TypedScopes

LEMMA ExitScope ==
    ASSUME TypedScopes, exit_current_scope, UNCHANGED variables
    PROVE  /\ TypedScopes' /\ Variables' = Variables
           /\ Len(scope_vector) \in Nat
           /\ Len(scope_vector) > 1 =>
                /\ Len(scope_vector') = Len(scope_vector) - 1
                /\ \A k \in 1 .. Len(scope_vector) - 1 : scope_vector'[k] = scope_vector[k]
<1>1. Variables' = Variables /\ VariableObjects' = VariableObjects
  BY DEF Variables, VariableObjects, exit_current_scope
<1>2. /\ scope_vector \in Seq(0 .. current_scope_id) /\ scope_vector # <<>>
      /\ current_scope_id' = current_scope_id /\ Len(scope_vector) \in Nat
  BY LenProperties DEF TypedScopes, exit_current_scope
<1>3. CASE Len(scope_vector) > 1
  <2>1. /\ scope_vector' \in Seq(0 .. current_scope_id)
        /\ Len(scope_vector') = Len(scope_vector) - 1
        /\ \A k \in 1 .. Len(scope_vector) - 1 : scope_vector'[k] = scope_vector[k]
    BY <1>2, <1>3, FrontFacts DEF exit_current_scope
  <2>2. scope_vector' # <<>>
    BY <1>2, <1>3, <2>1, EmptySeq
  <2>3. QED
    BY <1>1, <1>2, <2>1, <2>2 DEF TypedScopes
<1>4. CASE ~(Len(scope_vector) > 1)
  BY <1>1, <1>2, <1>4 DEF TypedScopes, exit_current_scope
<1>5. QED
  BY <1>3, <1>4

(* What an instruction added to a function's code leaves as it was.        *)
Kept(old, new) ==
    /\ new.name = old.name /\ new.parameters = old.parameters
    /\ new.has_declare = old.has_declare /\ new.heads = old.heads
    /\ new.prototyped = old.prototyped

Declaring(fun, v) == [fun EXCEPT !.declares = @ \cup {v}]
Using(fun, v)     == [fun EXCEPT !.uses = @ \cup {v}]
Levelled(fun, k)  == [fun EXCEPT !.scope_esp = @ + k]

LEMMA EditFacts ==
    ASSUME NEW V, NEW fun \in FunctionObjects(V), NEW x
    PROVE  /\ Kept(fun, Declaring(fun, x)) /\ Kept(fun, Using(fun, x)) /\ Kept(fun, Levelled(fun, x))
           /\ Declaring(fun, x).scope_esp = fun.scope_esp /\ Declaring(fun, x).uses = fun.uses
           /\ Declaring(fun, x).declares = fun.declares \cup {x}
           /\ Using(fun, x).scope_esp = fun.scope_esp /\ Using(fun, x).declares = fun.declares
           /\ Using(fun, x).uses = fun.uses \cup {x}
           /\ Levelled(fun, x).scope_esp = fun.scope_esp + x
           /\ Levelled(fun, x).uses = fun.uses /\ Levelled(fun, x).declares = fun.declares
  BY DEF FunctionObjects, Kept, Declaring, Using, Levelled

(* What a change of scope_esp does to each function.                       *)
LEMMA EspFacts ==
    ASSUME TypedFunctions, NEW d \in Int
    PROVE  /\ EspBy(d) \in Seq(FunctionObjects(Variables)) /\ Len(EspBy(d)) = Len(functions)
           /\ \A f \in DOMAIN functions :
                 EspBy(d)[f] = IF f = current_function
                               THEN Levelled(functions[f], d) ELSE functions[f]
<1>1. functions \in Seq(FunctionObjects(Variables)) /\ DOMAIN functions = 1 .. Len(functions)
  BY LenProperties DEF TypedFunctions
<1>2. CASE current_function = None
  <2>1. current_function \notin DOMAIN functions
    BY <1>1, <1>2 DEF None
  <2>2. QED
    BY <1>1, <1>2, <2>1 DEF EspBy
<1>3. CASE current_function # None
  <2>1. current_function \in 1 .. Len(functions)
    BY <1>1, <1>3 DEF TypedFunctions
  <2>2. Levelled(functions[current_function], d) \in FunctionObjects(Variables)
    BY <1>1, <2>1, ElementOfSeq, ObjectTyped DEF Levelled
  <2>3. EspBy(d) = [functions EXCEPT ![current_function] = Levelled(functions[current_function], d)]
    BY <1>3 DEF EspBy, Levelled
  <2>4. QED
    BY <1>1, <1>3, <2>1, <2>2, <2>3, ExceptSeq
<1>4. QED
  BY <1>2, <1>3

LEMMA NewFunctionTyped ==
    ASSUME TypedParser, header.name \in FunctionNames, NEW declared \in BOOLEAN
    PROVE  NewFunction(declared) \in FunctionObjects(Variables)
  BY DEF NewFunction, FunctionObjects, TypedParser

LEMMA DeclareTyped ==
    ASSUME TypedTable, TypedFunctions, TypedParser, header.name \in FunctionNames,
           declare_function, UNCHANGED <<tableVars, current_function>>
    PROVE  TypedFunctions' /\ erred' \in BOOLEAN
<1> DEFINE new == NewFunction(TRUE)
<1>1. Variables' = Variables
  BY DEF Variables, tableVars
<1>2. CASE ~Registered(header.name)
  <2>1. new \in FunctionObjects(Variables)
    BY NewFunctionTyped
  <2>2. functions' = Append(functions, new) /\ Register /\ UNCHANGED erred
    BY <1>2 DEF declare_function
  <2>3. /\ functions' \in Seq(FunctionObjects(Variables)) /\ Len(functions) \in Nat
        /\ DOMAIN functions' = 1 .. Len(functions) + 1 /\ DOMAIN functions = 1 .. Len(functions)
    <3> HIDE DEF new
    <3> QED
      BY <2>1, <2>2, AppendProperties, LenProperties DEF TypedFunctions
  <2>4. function_define_order_list' \in Seq(FunctionNames)
    BY <2>2, AppendProperties DEF Register, TypedFunctions
  <2>5. functionTable' \in [FunctionNames -> {None} \cup DOMAIN functions']
    BY <2>2, <2>3 DEF Register, TypedFunctions
  <2>6. current_function' \in {None} \cup DOMAIN functions' /\ erred' \in BOOLEAN
    BY <2>2, <2>3 DEF TypedFunctions, TypedTable
  <2>7. QED
    BY <1>1, <2>3, <2>4, <2>5, <2>6 DEF TypedFunctions
<1>3. CASE Registered(header.name)
  BY <1>1, <1>3 DEF declare_function, TypedFunctions, TypedTable
<1>4. QED
  BY <1>2, <1>3

LEMMA DefineTyped ==
    ASSUME TypedTable, TypedFunctions, TypedParser, header.name \in FunctionNames,
           define_function, UNCHANGED tableVars
    PROVE  TypedFunctions' /\ erred' \in BOOLEAN /\ current_function' # None
<1> DEFINE new == Entered(NewFunction(FALSE))
           old == Entered([Existing EXCEPT !.has_declare = FALSE])
<1>1. Variables' = Variables /\ Len(functions) \in Nat /\ DOMAIN functions = 1 .. Len(functions)
  BY LenProperties DEF Variables, tableVars, TypedFunctions
<1>2. new \in FunctionObjects(Variables)
  BY NewFunctionTyped, ObjectTyped
<1>3. ASSUME functions' = Append(functions, new)
      PROVE  /\ functions' \in Seq(FunctionObjects(Variables))
             /\ DOMAIN functions' = 1 .. Len(functions) + 1
  <2> HIDE DEF new
  <2> QED
    BY <1>2, <1>3, AppendProperties, LenProperties DEF TypedFunctions
<1>4. CASE DefinesNew
  <2>1. function_define_order_list' \in Seq(FunctionNames)
    BY <1>4, AppendProperties DEF DefinesNew, Register, TypedFunctions
  <2>2. functionTable' \in [FunctionNames -> {None} \cup DOMAIN functions']
    BY <1>1, <1>3, <1>4 DEF DefinesNew, Register, TypedFunctions
  <2>3. current_function' = Len(functions) + 1 /\ erred' \in BOOLEAN
    BY <1>4 DEF DefinesNew, TypedTable
  <2>4. functions' \in Seq(FunctionObjects(Variables)) /\ DOMAIN functions' = 1 .. Len(functions) + 1
    BY <1>3, <1>4 DEF DefinesNew
  <2>5. QED
    BY <1>1, <2>1, <2>2, <2>3, <2>4 DEF TypedFunctions, None
<1>5. CASE DefinesAgain
  <2>1. functionTable' \in [FunctionNames -> {None} \cup DOMAIN functions']
    BY <1>1, <1>3, <1>5 DEF DefinesAgain, TypedFunctions
  <2>2. /\ current_function' = Len(functions) + 1 /\ erred' \in BOOLEAN
        /\ function_define_order_list' \in Seq(FunctionNames)
    BY <1>5 DEF DefinesAgain, TypedTable, TypedFunctions
  <2>3. functions' \in Seq(FunctionObjects(Variables)) /\ DOMAIN functions' = 1 .. Len(functions) + 1
    BY <1>3, <1>5 DEF DefinesAgain
  <2>4. QED
    BY <1>1, <2>1, <2>2, <2>3 DEF TypedFunctions, None
<1>6. CASE DefinesDeclared
  <2>1. functionTable[header.name] \in 1 .. Len(functions)
    BY <1>1, <1>6 DEF DefinesDeclared, Registered, TypedFunctions
  <2>2. Existing \in FunctionObjects(Variables)
    BY <2>1, ElementOfSeq DEF Existing, TypedFunctions
  <2>3. old \in FunctionObjects(Variables)
    BY <2>2, ObjectTyped
  <2>4. functions' = [functions EXCEPT ![functionTable[header.name]] = old]
    BY <1>6 DEF DefinesDeclared, Existing
  <2>5. functions' \in Seq(FunctionObjects(Variables)) /\ DOMAIN functions' = DOMAIN functions
    <3> HIDE DEF old
    <3> QED
      BY <1>1, <2>1, <2>3, <2>4, ExceptSeq DEF TypedFunctions
  <2>6. QED
    BY <1>1, <1>6, <2>1, <2>5 DEF DefinesDeclared, TypedFunctions, TypedTable, None
<1>7. QED
  BY <1>4, <1>5, <1>6 DEF define_function

Meanings(n) == {v \in Known(n) : Open(v)}

(* get_variable returns an open object of the name with the longest path.  *)
LEMMA MeaningFacts ==
    ASSUME TypedScopes, TypedTable, NEW n \in Names
    PROVE  \/ get_variable(n) = None /\ Meanings(n) = {}
           \/ /\ get_variable(n) \in Meanings(n)
              /\ \A w \in Meanings(n) :
                    Len(variables[w].path) <= Len(variables[get_variable(n)].path)
<1> DEFINE matches == Meanings(n)
           depth   == Len(scope_vector)
           above   == {depth - Len(variables[v].path) : v \in matches}
<1>1. matches \subseteq Variables /\ matches = {v \in ToSet(variableTable[n]) : Open(v)}
  BY DEF TypedTable, Meanings, Known, ToSet
<1>2. depth \in Nat
  BY LenProperties DEF TypedScopes
<1>3. \A v \in matches : Len(variables[v].path) \in Nat /\ Len(variables[v].path) <= depth
  <2>1. \A v \in matches : Len(variables[v].path) \in Nat
    BY <1>1, VariableTyped
  <2>2. QED
    BY <2>1 DEF Open, Meanings
<1>4. CASE matches = {}
  BY <1>1, <1>4 DEF get_variable
<1>5. CASE matches # {}
  <2>1. above \in SUBSET Nat /\ above # {}
    <3> HIDE DEF matches, depth
    <3> QED
      BY <1>2, <1>3, <1>5
  <2>2. PICK m \in above : \A k \in above : m <= k
    <3> HIDE DEF above
    <3> QED
      BY <2>1, LeastNatural
  <2>3. PICK v \in matches : m = depth - Len(variables[v].path)
    BY <2>2
  <2>4. \A w \in matches : Len(variables[w].path) <= Len(variables[v].path)
    <3>1. \A w \in matches : m <= depth - Len(variables[w].path)
      BY <2>2
    <3> HIDE DEF matches, depth
    <3>2. QED
      BY <1>2, <1>3, <2>3, <3>1
  <2>5. get_variable(n) = CHOOSE u \in matches :
                              \A w \in matches : Len(variables[w].path) <= Len(variables[u].path)
    BY <1>1, <1>5 DEF get_variable
  <2>6. QED
    <3>1. get_variable(n) \in matches /\ \A w \in matches :
              Len(variables[w].path) <= Len(variables[get_variable(n)].path)
      <4> HIDE DEF matches
      <4> QED
        BY <2>4, <2>5
    <3>2. QED
      BY <3>1
<1>6. QED
  BY <1>4, <1>5

LEMMA StepTyped == TableInv /\ [Next]_vars => Typed'
<1> SUFFICES ASSUME TableInv, [Next]_vars PROVE Typed'
  OBVIOUS
<1>0. /\ TypedScopes /\ TypedTable /\ TypedFunctions /\ TypedParser /\ Placed /\ Typed
      /\ \A i \in 1 .. Len(declarators) : variables[declarators[i]].path = scope_vector
  BY LenProperties DEF TableInv, Typed, TypedParser, Scoped
<1>1. ASSUME NEW n \in Names, value_definition(n) PROVE Typed'
  <2>1. NewVariable(n) /\ UNCHANGED <<scopeVars, variableTable, globalVariables, funVars, found, erred,
                                     productions, header, listClosed>>
        /\ declarators' = Append(declarators, Len(variables) + 1)
    BY <1>1 DEF value_definition
  <2>2. /\ TypedScopes' /\ Variables \subseteq Variables' /\ Len(variables) + 1 \in Variables'
    BY <1>0, <2>1, NewVariableTyped
  <2>3. Seq(Variables) \subseteq Seq(Variables')
    BY <2>2, SeqMonotonic
  <2>4. TypedTable'
    BY <1>0, <2>1, <2>2, <2>3 DEF TypedTable
  <2>5. TypedFunctions'
    BY <1>0, <2>1, <2>2, FunctionsGrow DEF TypedFunctions, funVars
  <2>6. TypedParser'
    BY <1>0, <2>1, <2>2, <2>3, AppendProperties DEF TypedParser
  <2>7. QED
    BY <2>2, <2>4, <2>5, <2>6 DEF Typed
<1>5. CASE define_list_end
  <2>1. TypedScopes' /\ Variables' = Variables
    BY <1>0, <1>5, SameScopes DEF define_list_end, tableVars
  <2>2. QED
    BY <1>0, <1>5, <2>1 DEF define_list_end, tableVars, funVars, Typed, TypedTable, TypedFunctions,
                            TypedParser
<1>6. CASE define_list_returns
  <2>1. TypedScopes' /\ Variables' = Variables
    BY <1>0, <1>6, SameScopes DEF define_list_returns
  <2> DEFINE v == Last(declarators)
  <2>2. declarators # <<>>
    BY <1>0, <1>6 DEF define_list_returns, Placed
  <2>3. v \in Variables /\ declarators' \in Seq(Variables)
    BY <1>0, <1>6, <2>2, FrontFacts DEF define_list_returns, TypedParser
  <2>4. variables' = variables /\ variables[v].name \in Names /\ add_variable(v)
    BY <1>0, <1>6, <2>3, VariableTyped DEF define_list_returns
  <2>5. /\ variableTable' \in [Names -> Seq(Variables')] /\ globalVariables' \in Seq(Variables')
        /\ functions' \in Seq(FunctionObjects(Variables')) /\ Len(functions') = Len(functions)
        /\ erred' \in BOOLEAN
    BY <1>0, <2>1, <2>3, <2>4, AddTyped
  <2>6. DOMAIN functions' = DOMAIN functions
    BY <1>0, <2>5, LenProperties DEF TypedFunctions
  <2>7. QED
    BY <1>0, <1>6, <2>1, <2>3, <2>5, <2>6
    DEF define_list_returns, Typed, TypedTable, TypedFunctions, TypedParser
<1>2. ASSUME NEW n \in Names, id_extend(n) PROVE Typed'
  <2>1. TypedScopes' /\ Variables' = Variables
    BY <1>0, <1>2, SameScopes DEF id_extend, tableVars
  <2>2. found' \in {None} \cup Variables
    <3>1. Meanings(n) \subseteq Variables
      BY <1>0 DEF TypedTable, Meanings, Known, ToSet
    <3>2. QED
      BY <1>0, <1>2, <3>1, MeaningFacts DEF id_extend
  <2>3. TypedTable' /\ TypedParser'
    BY <1>0, <1>2, <2>1, <2>2 DEF id_extend, tableVars, parserVars, TypedTable, TypedParser
  <2>4. functions' \in Seq(FunctionObjects(Variables)) /\ DOMAIN functions' = DOMAIN functions
    <3>1. CASE current_function = None \/ found' = None
      BY <1>0, <1>2, <3>1 DEF id_extend, TypedFunctions
    <3>2. CASE ~(current_function = None \/ found' = None)
      <4>1. current_function \in 1 .. Len(functions) /\ {found'} \in SUBSET Variables
        BY <1>0, <2>2, <3>2, LenProperties DEF TypedFunctions
      <4> DEFINE new == [functions[current_function] EXCEPT !.uses = @ \cup {found'}]
      <4>2. new \in FunctionObjects(Variables)
        BY <1>0, <4>1, ElementOfSeq, ObjectTyped DEF TypedFunctions
      <4>3. functions' = [functions EXCEPT ![current_function] = new]
        BY <1>2, <3>2 DEF id_extend
      <4>4. QED
        <5> HIDE DEF new
        <5> QED
          BY <1>0, <4>1, <4>2, <4>3, ExceptSeq, LenProperties DEF TypedFunctions
    <3>3. QED
      BY <3>1, <3>2
  <2>5. TypedFunctions'
    BY <1>0, <1>2, <2>1, <2>4 DEF id_extend, TypedFunctions
  <2>6. QED
    BY <2>1, <2>3, <2>5 DEF Typed
<1>3. ASSUME NEW n \in Names, parameter(n) PROVE Typed'
  <2> DEFINE v == Len(variables) + 1
  <2>1. /\ NewVariable(n) /\ UNCHANGED scopeVars /\ add_variable(v)
        /\ header' = [header EXCEPT !.parameters = Append(@, v)]
        /\ UNCHANGED <<functionTable, function_define_order_list, current_function,
                       found, productions, declarators, listClosed>>
    BY <1>3 DEF parameter
  <2>2. /\ TypedScopes' /\ Variables \subseteq Variables' /\ v \in Variables'
        /\ variables'[v].name \in Names
    BY <1>0, <2>1, NewVariableTyped
  <2>3. Seq(Variables) \subseteq Seq(Variables')
    BY <2>2, SeqMonotonic
  <2>4. /\ variableTable' \in [Names -> Seq(Variables')] /\ globalVariables' \in Seq(Variables')
        /\ functions' \in Seq(FunctionObjects(Variables')) /\ Len(functions') = Len(functions)
        /\ erred' \in BOOLEAN
    BY <1>0, <2>1, <2>2, AddTyped
  <2>5. DOMAIN functions' = DOMAIN functions
    BY <1>0, <2>4, LenProperties DEF TypedFunctions
  <2>6. DOMAIN header' = {"name", "parameters"} /\ header'.parameters \in Seq(Variables')
    BY <1>0, <2>1, <2>2, <2>3, AppendProperties DEF TypedParser
  <2>7. TypedTable' /\ TypedFunctions'
    BY <1>0, <2>1, <2>2, <2>4, <2>5 DEF TypedTable, TypedFunctions
  <2>8. TypedParser'
    BY <1>0, <2>1, <2>3, <2>6 DEF TypedParser
  <2>9. QED
    BY <2>2, <2>7, <2>8 DEF Typed
<1>4. ASSUME NEW f \in FunctionNames, function_definition(f) PROVE Typed'
  <2>1. TypedScopes' /\ Variables' = Variables
    BY <1>0, <1>4, EnterScope DEF function_definition, tableVars
  <2>2. productions' \in Seq({"header", "block", "tail"})
    BY <1>0, <1>4, AppendProperties DEF function_definition, Enters, TypedParser
  <2>3. DOMAIN header' = {"name", "parameters"} /\ header'.parameters \in Seq(Variables)
    <3>1. header' = [name |-> f, parameters |-> <<>>] /\ <<>> \in Seq(Variables)
      BY <1>4, EmptySeq DEF function_definition
    <3>2. QED
      BY <3>1
  <2>4. TypedParser'
    BY <1>0, <1>4, <2>1, <2>2, <2>3 DEF function_definition, TypedParser
  <2>5. QED
    BY <1>0, <1>4, <2>1, <2>4
    DEF function_definition, tableVars, funVars, Typed, TypedTable, TypedFunctions
<1>7. CASE prototype
  <2>1. TypedScopes' /\ Variables' = Variables
    BY <1>0, <1>7, ExitScope DEF prototype, tableVars
  <2>2. productions # <<>> /\ header.name \in FunctionNames
    BY <1>0, <1>7 DEF prototype, Within, Placed, AtFile
  <2>3. TypedFunctions' /\ erred' \in BOOLEAN
    BY <1>0, <1>7, <2>2, DeclareTyped DEF prototype
  <2>4. TypedParser'
    BY <1>0, <1>7, <2>1, <2>2, FrontFacts DEF prototype, Leaves, TypedParser
  <2>5. QED
    BY <1>0, <1>7, <2>1, <2>3, <2>4 DEF prototype, tableVars, Typed, TypedTable
<1>8. CASE function_body
  <2>1. TypedScopes' /\ Variables' = Variables
    BY <1>0, <1>8, EnterScope DEF function_body, tableVars
  <2>2. productions # <<>> /\ header.name \in FunctionNames
    BY <1>0, <1>8 DEF function_body, Within, Placed, AtFile
  <2>3. TypedFunctions' /\ erred' \in BOOLEAN
    BY <1>0, <1>8, <2>2, DefineTyped DEF function_body
  <2>4. TypedParser'
    BY <1>0, <1>8, <2>1, <2>2, AppendProperties DEF function_body, Enters, TypedParser
  <2>5. QED
    BY <1>0, <1>8, <2>1, <2>3, <2>4 DEF function_body, tableVars, Typed, TypedTable
<1>9. CASE block
  <2>1. TypedScopes' /\ Variables' = Variables
    BY <1>0, <1>9, EnterScope DEF block, tableVars
  <2>2. /\ functions' \in Seq(FunctionObjects(Variables)) /\ DOMAIN functions' = DOMAIN functions
    BY <1>0, <1>9, EspFacts, LenProperties DEF block, TypedFunctions
  <2>3. TypedParser'
    BY <1>0, <1>9, <2>1, AppendProperties DEF block, Enters, TypedParser
  <2>4. QED
    BY <1>0, <1>9, <2>1, <2>2, <2>3 DEF block, tableVars, Typed, TypedTable, TypedFunctions
<1>10. CASE block_end
  <2>1. TypedScopes' /\ Variables' = Variables
    BY <1>0, <1>10, ExitScope DEF block_end, tableVars
  <2>2. /\ functions' \in Seq(FunctionObjects(Variables)) /\ DOMAIN functions' = DOMAIN functions
    BY <1>0, <1>10, EspFacts, LenProperties DEF block_end, TypedFunctions
  <2>3. TypedParser'
    BY <1>0, <1>10, <2>1, FrontFacts DEF block_end, Leaves, Within, TypedParser
  <2>4. QED
    BY <1>0, <1>10, <2>1, <2>2, <2>3 DEF block_end, tableVars, Typed, TypedTable, TypedFunctions
<1>11. CASE body_end
  <2>1. TypedScopes' /\ Variables' = Variables
    BY <1>0, <1>11, ExitScope DEF body_end, tableVars
  <2>2. /\ functions' \in Seq(FunctionObjects(Variables)) /\ DOMAIN functions' = DOMAIN functions
    BY <1>0, <1>11, EspFacts, LenProperties DEF body_end, TypedFunctions
  <2>3. TypedParser'
    <3>1. 2 \in 1 .. Len(productions) /\ productions' = [productions EXCEPT ![2] = "tail"]
      BY <1>11 DEF body_end
    <3>2. productions' \in Seq({"header", "block", "tail"})
      BY <1>0, <3>1, ExceptSeq DEF TypedParser
    <3>3. QED
      BY <1>0, <1>11, <2>1, <3>2 DEF body_end, TypedParser
  <2>4. QED
    BY <1>0, <1>11, <2>1, <2>2, <2>3 DEF body_end, tableVars, Typed, TypedTable, TypedFunctions
<1>12. CASE function_end
  <2>1. TypedScopes' /\ Variables' = Variables
    BY <1>0, <1>12, ExitScope DEF function_end, tableVars
  <2>2. TypedParser'
    BY <1>0, <1>12, <2>1, EmptySeq DEF function_end, TypedParser
  <2>3. QED
    BY <1>0, <1>12, <2>1, <2>2
    DEF function_end, tableVars, funVars, Typed, TypedTable, TypedFunctions
<1>13. CASE UNCHANGED vars
  <2>1. TypedScopes' /\ Variables' = Variables
    BY <1>0, <1>13, SameScopes DEF vars, tableVars
  <2>2. QED
    BY <1>0, <1>13, <2>1
    DEF vars, tableVars, funVars, parserVars, Typed, TypedTable, TypedFunctions, TypedParser
<1>14. QED
  BY <1>1, <1>2, <1>3, <1>4, <1>5, <1>6, <1>7, <1>8, <1>9, <1>10, <1>11, <1>12, <1>13 DEF Next

-----------------------------------------------------------------------------
(* Where the parser is.                                                    *)
LEMMA Stages ==
    ASSUME TypedParser, Placed
    PROVE  /\ AtFile <=> productions = <<>>
           /\ InHeader <=> Within("header")
           /\ InTail <=> Within("tail")
           /\ InBody <=> Within("block")
           /\ CanDeclare => AtFile \/ InBody
           /\ Len(productions) \in Nat
           /\ AtFile => Len(productions) = 0 /\ ~InHeader /\ ~InTail /\ ~InBody
           /\ InHeader => Len(productions) = 1 /\ ~AtFile /\ ~InTail /\ ~InBody
           /\ InTail => Len(productions) = 2 /\ ~AtFile /\ ~InHeader /\ ~InBody
           /\ InBody => Len(productions) > 1 /\ ~AtFile /\ ~InHeader /\ ~InTail
<1>1. Len(productions) \in Nat /\ (productions = <<>> <=> Len(productions) = 0)
  BY EmptySeq, LenProperties DEF TypedParser
<1>2. CASE AtFile
  BY <1>1, <1>2 DEF AtFile, InHeader, InTail, InBody, Within, CanDeclare
<1>3. CASE InHeader
  BY <1>1, <1>3 DEF AtFile, InHeader, InTail, InBody, Within, Last, CanDeclare
<1>4. CASE InTail
  BY <1>1, <1>4 DEF AtFile, InHeader, InTail, InBody, Within, Last, CanDeclare
<1>5. CASE InBody
  <2>1. Len(productions) \in 2 .. Len(productions)
    BY <1>1, <1>5 DEF InBody
  <2>2. Last(productions) = "block" /\ productions[2] = "block"
    BY <1>5, <2>1 DEF InBody, Last
  <2>3. QED
    BY <1>1, <1>5, <2>1, <2>2 DEF AtFile, InHeader, InTail, InBody, Within
<1>6. QED
  BY <1>2, <1>3, <1>4, <1>5 DEF Placed

LEMMA StepPlaced == TableInv /\ [Next]_vars => Placed'
<1> SUFFICES ASSUME TableInv, [Next]_vars PROVE Placed'
  OBVIOUS
<1>0. TypedScopes /\ TypedTable /\ TypedFunctions /\ TypedParser /\ Placed /\ Len(productions) \in Nat
  BY LenProperties DEF TableInv, Typed, TypedParser
<1>s. UNCHANGED <<scope_vector, productions>> =>
          (AtFile' <=> AtFile) /\ (InHeader' <=> InHeader) /\ (InBody' <=> InBody) /\ (InTail' <=> InTail)
  BY DEF AtFile, InHeader, InTail, InBody
<1>1. ASSUME NEW n \in Names, value_definition(n) PROVE Placed'
  <2>1. declarators' # <<>>
    BY <1>0, <1>1, AppendProperties DEF value_definition, TypedParser
  <2>2. AtFile \/ InBody
    BY <1>0, <1>1, Stages DEF value_definition
  <2>3. ~InHeader /\ ~InTail
    BY <1>0, <2>2, Stages
  <2>4. UNCHANGED <<scope_vector, productions, current_function, header>>
    BY <1>1 DEF value_definition, scopeVars, funVars
  <2>5. QED
    BY <1>0, <1>s, <2>1, <2>2, <2>3, <2>4 DEF Placed
<1>2. ASSUME NEW n \in Names, id_extend(n) PROVE Placed'
  BY <1>0, <1>2, <1>s DEF Placed, id_extend, scopeVars, parserVars
<1>3. ASSUME NEW n \in Names, parameter(n) PROVE Placed'
  <2>1. UNCHANGED <<scope_vector, productions, current_function, declarators, listClosed>>
    BY <1>3 DEF parameter, scopeVars
  <2>2. header'.name = header.name
    BY <1>0, <1>3 DEF parameter, TypedParser
  <2>3. QED
    BY <1>0, <1>s, <2>1, <2>2 DEF Placed
<1>4. ASSUME NEW f \in FunctionNames, function_definition(f) PROVE Placed'
  <2>1. AtFile /\ declarators = <<>> /\ ~listClosed
    BY <1>0, <1>4, Stages DEF function_definition, BetweenLists, CanDeclare
  <2>2. /\ Len(scope_vector') = 2 /\ header'.name = f
        /\ Len(productions') = 1 /\ productions'[1] = "header"
    BY <1>0, <1>4, <2>1, EnterScope, AppendProperties, EmptySeq
    DEF function_definition, tableVars, Enters, AtFile, TypedParser
  <2>3. InHeader' /\ ~AtFile' /\ ~InBody'
    BY <2>2, EmptySeq DEF InHeader, AtFile, InBody
  <2>4. ~InBody /\ UNCHANGED <<current_function, declarators, listClosed>>
    BY <1>0, <1>4, <2>1, Stages DEF function_definition, funVars
  <2>5. QED
    BY <1>0, <2>1, <2>2, <2>3, <2>4 DEF Placed
<1>5. CASE define_list_end
  BY <1>0, <1>5, <1>s DEF Placed, define_list_end, scopeVars, funVars
<1>6. CASE define_list_returns
  <2>1. UNCHANGED <<scope_vector, productions, current_function, header>>
    BY <1>6 DEF define_list_returns, scopeVars
  <2>2. declarators # <<>>
    BY <1>0, <1>6 DEF Placed, define_list_returns
  <2>3. listClosed' => declarators' # <<>>
    <3>1. Len(declarators') = Len(declarators) - 1
      BY <1>0, <1>6, <2>2, FrontFacts DEF define_list_returns, TypedParser
    <3>2. listClosed' => Len(declarators) > 1 /\ Len(declarators) \in Nat
      BY <1>0, <1>6, LenProperties DEF define_list_returns, TypedParser
    <3>3. QED
      BY <3>1, <3>2, EmptySeq
  <2>4. ~InHeader /\ ~InTail
    BY <1>0, <2>2 DEF Placed
  <2>5. QED
    BY <1>0, <1>s, <2>1, <2>3, <2>4 DEF Placed
<1>7. CASE prototype
  <2>1. InHeader /\ ~InBody
    BY <1>0, <1>7, Stages DEF prototype
  <2>2. Len(scope_vector') = 1
    BY <1>0, <1>7, <2>1, ExitScope DEF prototype, tableVars, InHeader
  <2>3. productions' = <<>>
    <3>1. productions # <<>> /\ Len(productions) = 1
      BY <2>1, EmptySeq DEF InHeader
    <3>2. Len(productions') = 0 /\ productions' \in Seq({"header", "block", "tail"})
      BY <1>0, <1>7, <3>1, FrontFacts DEF prototype, Leaves, TypedParser
    <3>3. QED
      BY <3>2, EmptySeq
  <2>4. AtFile' /\ ~InHeader' /\ ~InTail' /\ ~InBody'
    BY <2>2, <2>3, EmptySeq DEF AtFile, InHeader, InTail, InBody
  <2>5. QED
    BY <1>0, <1>7, <2>1, <2>4 DEF Placed, prototype
<1>8. CASE function_body
  <2>1. InHeader
    BY <1>0, <1>8, Stages DEF function_body
  <2>2. Len(scope_vector') = 3
    BY <1>0, <1>8, <2>1, EnterScope DEF function_body, tableVars, InHeader
  <2>3. Len(productions') = 2 /\ productions'[1] = "header" /\ productions'[2] = "block"
    <3>1. productions' = Append(productions, "block") /\ Len(productions) = 1
      BY <1>8, <2>1 DEF function_body, Enters, InHeader
    <3>2. /\ productions \in Seq({"header", "block", "tail"}) /\ 1 \in 1 .. Len(productions)
          /\ "block" \in {"header", "block", "tail"} /\ productions[1] = "header"
      BY <1>0, <2>1 DEF InHeader, TypedParser
    <3>3. /\ Len(productions') = Len(productions) + 1
          /\ \A k \in 1 .. Len(productions) : productions'[k] = productions[k]
          /\ productions'[Len(productions) + 1] = "block"
      BY <1>0, <1>8, AppendProperties DEF function_body, Enters, TypedParser
    <3>4. Len(productions) + 1 = 2
      BY <3>1
    <3>5. QED
      BY <3>2, <3>3, <3>4
  <2>4. InBody' /\ ~InHeader' /\ ~InTail' /\ ~AtFile'
    BY <2>2, <2>3, EmptySeq DEF AtFile, InHeader, InTail, InBody
  <2>5. current_function' # None /\ ~AtFile
    BY <1>0, <1>8, <2>1, DefineTyped, Stages DEF function_body, Placed
  <2>6. QED
    BY <1>0, <1>8, <2>4, <2>5 DEF Placed, function_body
<1>9. CASE block
  <2>1. InBody /\ ~AtFile
    BY <1>0, <1>9, Stages DEF block
  <2>2. Len(scope_vector') = Len(scope_vector) + 1
    BY <1>0, <1>9, EnterScope DEF block, tableVars
  <2>3. /\ Len(productions') = Len(productions) + 1
        /\ \A k \in 1 .. Len(productions) : productions'[k] = productions[k]
        /\ productions'[Len(productions) + 1] = "block"
    BY <1>0, <1>9, AppendProperties DEF block, Enters, TypedParser
  <2>4. InBody'
    BY <1>0, <2>1, <2>2, <2>3 DEF InBody
  <2>5. ~AtFile' /\ ~InHeader' /\ ~InTail'
    BY <1>0, <2>1, <2>3, EmptySeq DEF AtFile, InHeader, InTail, InBody
  <2>6. QED
    BY <1>0, <1>9, <2>1, <2>4, <2>5 DEF Placed, block
<1>10. CASE block_end
  <2>1. InBody /\ ~AtFile /\ Len(productions) > 2 /\ productions # <<>>
    BY <1>0, <1>10, Stages DEF block_end
  <2>2. Len(scope_vector') = Len(scope_vector) - 1
    BY <1>0, <1>10, <2>1, ExitScope DEF block_end, tableVars, InBody
  <2>3. /\ Len(productions') = Len(productions) - 1
        /\ \A k \in 1 .. Len(productions) - 1 : productions'[k] = productions[k]
    BY <1>0, <1>10, <2>1, FrontFacts DEF block_end, Leaves, TypedParser
  <2>4. InBody'
    BY <1>0, <2>1, <2>2, <2>3 DEF InBody
  <2>5. ~AtFile' /\ ~InHeader' /\ ~InTail'
    BY <1>0, <2>1, <2>3, <2>4, EmptySeq DEF AtFile, InHeader, InTail, InBody
  <2>6. QED
    BY <1>0, <1>10, <2>1, <2>4, <2>5 DEF Placed, block_end
<1>11. CASE body_end
  <2>1. InBody /\ ~AtFile /\ Len(productions) = 2
    BY <1>0, <1>11, Stages DEF body_end
  <2>2. Len(scope_vector') = 2
    BY <1>0, <1>11, <2>1, ExitScope DEF body_end, tableVars, InBody
  <2>3. Len(productions') = 2 /\ productions'[1] = "header" /\ productions'[2] = "tail"
    <3>1. /\ productions' = [productions EXCEPT ![2] = "tail"] /\ productions[1] = "header"
          /\ 2 \in 1 .. Len(productions)
      BY <1>11, <2>1 DEF body_end, InBody
    <3>2. QED
      BY <1>0, <2>1, <3>1, ExceptSeq DEF TypedParser
  <2>4. InTail' /\ ~InHeader' /\ ~InBody' /\ ~AtFile'
    BY <2>2, <2>3, EmptySeq DEF AtFile, InHeader, InTail, InBody
  <2>5. QED
    BY <1>0, <1>11, <2>1, <2>4 DEF Placed, body_end, BetweenLists
<1>12. CASE function_end
  <2>1. InTail /\ ~InBody
    BY <1>0, <1>12, Stages DEF function_end
  <2>2. Len(scope_vector') = 1 /\ productions' = <<>>
    BY <1>0, <1>12, <2>1, ExitScope DEF function_end, tableVars, InTail
  <2>3. AtFile' /\ ~InHeader' /\ ~InTail' /\ ~InBody'
    BY <2>2, EmptySeq DEF AtFile, InHeader, InTail, InBody
  <2>4. QED
    BY <1>0, <1>12, <2>1, <2>3 DEF Placed, function_end, funVars
<1>13. CASE UNCHANGED vars
  BY <1>0, <1>13, <1>s DEF Placed, vars, scopeVars, tableVars, funVars, parserVars
<1>14. QED
  BY <1>1, <1>2, <1>3, <1>4, <1>5, <1>6, <1>7, <1>8, <1>9, <1>10, <1>11, <1>12, <1>13 DEF Next

-----------------------------------------------------------------------------
(* Scopes and names.                                                       *)
(* What add_variable does to each name, to the globals and to each function.*)
LEMMA AddFacts ==
    ASSUME Typed, NEW v, variables'[v].name \in Names, add_variable(v)
    PROVE  /\ \A m \in Names :
                 Known(m)' = IF m = variables'[v].name /\ ~Taken(v) THEN Known(m) \cup {v} ELSE Known(m)
           /\ ToSet(globalVariables)' =
                 IF ~Taken(v) /\ Len(variables'[v].path) = 1
                 THEN ToSet(globalVariables) \cup {v} ELSE ToSet(globalVariables)
           /\ DOMAIN functions' = DOMAIN functions
           /\ \A f \in DOMAIN functions :
                 functions'[f] = IF ~Taken(v) /\ f = current_function
                                 THEN Declaring(functions[f], v)
                                 ELSE functions[f]
<1>1. current_function = None => current_function \notin DOMAIN functions
  BY LenProperties DEF Typed, TypedFunctions, None
<1>2. CASE Taken(v)
  BY <1>2 DEF add_variable, Known
<1>3. CASE ~Taken(v)
  <2> DEFINE n == variables'[v].name
  <2>1. \A m \in Names : Known(m)' = IF m = n THEN Known(m) \cup {v} ELSE Known(m)
    <3>1. variableTable' = [variableTable EXCEPT ![n] = Append(@, v)]
      BY <1>3 DEF add_variable
    <3>2. \A m \in Names :
              variableTable'[m] = IF m = n THEN Append(variableTable[m], v) ELSE variableTable[m]
      BY <3>1 DEF Typed, TypedTable
    <3>3. \A m \in Names : ToSet(Append(variableTable[m], v)) = ToSet(variableTable[m]) \cup {v}
      BY AppendedSet DEF Typed, TypedTable
    <3>4. QED
      BY <3>2, <3>3 DEF Known
  <2>2. ToSet(Append(globalVariables, v)) = ToSet(globalVariables) \cup {v}
    BY AppendedSet DEF Typed, TypedTable
  <2>3. ToSet(globalVariables)' = IF Len(variables'[v].path) = 1
                                  THEN ToSet(globalVariables) \cup {v} ELSE ToSet(globalVariables)
    BY <1>3, <2>2 DEF add_variable
  <2>4. /\ DOMAIN functions' = DOMAIN functions
        /\ \A f \in DOMAIN functions :
              functions'[f] = IF f = current_function
                              THEN Declaring(functions[f], v) ELSE functions[f]
    BY <1>1, <1>3 DEF add_variable, Declaring
  <2>5. QED
    BY <1>3, <2>1, <2>3, <2>4
<1>4. QED
  BY <1>2, <1>3

LEMMA KnownTyped == TypedTable => \A n \in Names : Known(n) \subseteq Variables
  BY DEF TypedTable, Known, ToSet

LEMMA StepScoped == TableInv /\ [Next]_vars => Scoped'
<1> SUFFICES ASSUME TableInv, [Next]_vars PROVE Scoped'
  OBVIOUS
<1>0. Typed /\ TypedScopes /\ TypedParser /\ Placed /\ Scoped
  BY DEF TableInv, Typed
<1>s. UNCHANGED <<variables, scope_vector, declarators>> => Scoped'
  BY <1>0 DEF Scoped, Variables
<1>e. ASSUME enter_new_scope, UNCHANGED <<variables, declarators>>, declarators = <<>>
      PROVE  Scoped'
  <2>1. \A v \in Variables : \A k \in 1 .. Len(variables[v].path) : variables[v].path[k] \in 0 .. current_scope_id
    BY <1>0, VariableTyped, ElementOfSeq
  <2>2. current_scope_id \in Nat
    BY <1>0, BoundsAssumption DEF TypedScopes
  <2>3. /\ Len(scope_vector) \in Nat /\ Len(scope_vector') = Len(scope_vector) + 1
        /\ \A k \in 1 .. Len(scope_vector) : scope_vector'[k] = scope_vector[k]
        /\ scope_vector'[Len(scope_vector) + 1] = current_scope_id + 1
    BY <1>0, <1>e, EnterScope
  <2>4. ASSUME NEW v \in Variables, NEW k \in 1 .. Len(variables[v].path),
               k <= Len(scope_vector'), scope_vector'[k] = variables[v].path[k], NEW j \in 1 .. k
        PROVE  scope_vector'[j] = variables[v].path[j]
    <3>1. Len(variables[v].path) \in Nat /\ k \in Nat
      BY <1>0, VariableTyped
    <3>2. k # Len(scope_vector) + 1
      BY <2>1, <2>2, <2>3, <2>4
    <3>3. k \in 1 .. Len(scope_vector) /\ j \in 1 .. Len(scope_vector)
      BY <2>3, <2>4, <3>1, <3>2
    <3>4. QED
      BY <1>0, <2>3, <2>4, <3>3 DEF Scoped
  <2>5. DOMAIN declarators' = {}
    BY <1>e, EmptySeq, LenProperties
  <2>6. QED
    BY <1>e, <2>4, <2>5 DEF Scoped, Variables
<1>x. ASSUME exit_current_scope, UNCHANGED <<variables, declarators>>, declarators = <<>>, Len(scope_vector) > 1
      PROVE  Scoped'
  <2>1. /\ Len(scope_vector) \in Nat /\ Len(scope_vector') = Len(scope_vector) - 1
        /\ \A k \in 1 .. Len(scope_vector) - 1 : scope_vector'[k] = scope_vector[k]
    BY <1>0, <1>x, ExitScope
  <2>2. ASSUME NEW v \in Variables, NEW k \in 1 .. Len(variables[v].path),
               k <= Len(scope_vector'), scope_vector'[k] = variables[v].path[k], NEW j \in 1 .. k
        PROVE  scope_vector'[j] = variables[v].path[j]
    <3>1. Len(variables[v].path) \in Nat /\ k \in Nat
      BY <1>0, VariableTyped
    <3>2. k \in 1 .. Len(scope_vector) - 1 /\ j \in 1 .. Len(scope_vector) - 1 /\ k <= Len(scope_vector)
      BY <2>1, <2>2, <3>1
    <3>3. QED
      BY <1>0, <2>1, <2>2, <3>2 DEF Scoped
  <2>3. DOMAIN declarators' = {}
    BY <1>x, EmptySeq, LenProperties
  <2>4. QED
    BY <1>x, <2>2, <2>3 DEF Scoped, Variables
<1>v. ASSUME NEW n \in Names, NewVariable(n), UNCHANGED scopeVars
      PROVE  \A v \in Variables' : \A k \in 1 .. Len(variables'[v].path) :
                k <= Len(scope_vector') /\ scope_vector'[k] = variables'[v].path[k] =>
                    \A j \in 1 .. k : scope_vector'[j] = variables'[v].path[j]
  <2>1. /\ Variables' = Variables \cup {Len(variables) + 1}
        /\ \A v \in Variables : variables'[v] = variables[v]
        /\ variables'[Len(variables) + 1].path = scope_vector
    <3>1. /\ Len(variables) \in Nat
          /\ Variables' = 1 .. Len(variables) + 1 /\ Variables = 1 .. Len(variables)
          /\ \A v \in Variables : variables'[v] = variables[v]
          /\ variables'[Len(variables) + 1].path = scope_vector
      BY <1>0, <1>v, NewVariableTyped
    <3>2. QED
      BY <3>1
  <2>2. scope_vector' = scope_vector
    BY <1>v DEF scopeVars
  <2>3. QED
    BY <1>0, <2>1, <2>2 DEF Scoped
<1>1. ASSUME NEW n \in Names, value_definition(n) PROVE Scoped'
  <2>1. /\ declarators' = Append(declarators, Len(variables) + 1) /\ declarators \in Seq(Variables)
        /\ NewVariable(n) /\ UNCHANGED scopeVars
    BY <1>0, <1>1 DEF value_definition, TypedParser
  <2>2. \A i \in DOMAIN declarators' : variables'[declarators'[i]].path = scope_vector'
    <3>1. /\ Variables \subseteq Variables' /\ Len(variables) + 1 \in Variables'
          /\ \A v \in Variables : variables'[v] = variables[v]
          /\ variables'[Len(variables) + 1].path = scope_vector
      BY <1>0, <2>1, NewVariableTyped
    <3>2. declarators \in Seq(Variables')
      BY <2>1, <3>1, SeqMonotonic
    <3>3. /\ DOMAIN declarators' = 1 .. Len(declarators) + 1 /\ Len(declarators) \in Nat
          /\ \A i \in 1 .. Len(declarators) : declarators'[i] = declarators[i]
          /\ declarators'[Len(declarators) + 1] = Len(variables) + 1
      BY <2>1, <3>1, <3>2, AppendProperties, LenProperties
    <3>4. \A i \in 1 .. Len(declarators) : declarators[i] \in Variables /\ variables[declarators[i]].path = scope_vector
      BY <1>0, <2>1, ElementOfSeq, LenProperties DEF Scoped
    <3>5. scope_vector' = scope_vector
      BY <2>1 DEF scopeVars
    <3>6. QED
      BY <3>1, <3>3, <3>4, <3>5
  <2>3. QED
    BY <1>v, <2>1, <2>2 DEF Scoped
<1>2. ASSUME NEW n \in Names, id_extend(n) PROVE Scoped'
  BY <1>2, <1>s DEF id_extend, scopeVars, tableVars, parserVars
<1>3. ASSUME NEW n \in Names, parameter(n) PROVE Scoped'
  <2>1. InHeader
    BY <1>0, <1>3, Stages DEF parameter
  <2>2. DOMAIN declarators' = {}
    BY <1>0, <1>3, <2>1, EmptySeq, LenProperties DEF parameter, Placed
  <2>3. QED
    BY <1>3, <1>v, <2>2 DEF parameter, Scoped
<1>4. ASSUME NEW f \in FunctionNames, function_definition(f) PROVE Scoped'
  BY <1>4, <1>e DEF function_definition, BetweenLists, tableVars
<1>5. CASE define_list_end
  BY <1>5, <1>s DEF define_list_end, scopeVars, tableVars
<1>6. CASE define_list_returns
  <2>1. declarators # <<>>
    BY <1>0, <1>6 DEF Placed, define_list_returns
  <2>2. /\ DOMAIN declarators' = 1 .. Len(declarators) - 1 /\ DOMAIN declarators = 1 .. Len(declarators)
        /\ Len(declarators) \in Nat
        /\ \A i \in 1 .. Len(declarators) - 1 : declarators'[i] = declarators[i]
    BY <1>0, <1>6, <2>1, FrontFacts, LenProperties DEF define_list_returns, TypedParser
  <2>3. UNCHANGED <<variables, scope_vector>>
    BY <1>6 DEF define_list_returns, scopeVars
  <2>4. QED
    BY <1>0, <2>2, <2>3 DEF Scoped, Variables
<1>7. CASE prototype
  <2>1. InHeader
    BY <1>0, <1>7, Stages DEF prototype
  <2>2. QED
    BY <1>0, <1>7, <1>x, <2>1 DEF prototype, Placed, InHeader, tableVars
<1>8. CASE function_body
  <2>1. InHeader
    BY <1>0, <1>8, Stages DEF function_body
  <2>2. QED
    BY <1>0, <1>8, <1>e, <2>1 DEF function_body, Placed, tableVars
<1>9. CASE block
  BY <1>9, <1>e DEF block, BetweenLists, tableVars
<1>10. CASE block_end
  <2>1. InBody
    BY <1>0, <1>10, Stages DEF block_end
  <2>2. QED
    BY <1>10, <1>x, <2>1 DEF block_end, BetweenLists, InBody, tableVars
<1>11. CASE body_end
  <2>1. InBody
    BY <1>0, <1>11, Stages DEF body_end
  <2>2. QED
    BY <1>11, <1>x, <2>1 DEF body_end, BetweenLists, InBody, tableVars
<1>12. CASE function_end
  <2>1. InTail
    BY <1>0, <1>12, Stages DEF function_end
  <2>2. QED
    BY <1>0, <1>12, <1>x, <2>1 DEF function_end, Placed, InTail, tableVars
<1>13. CASE UNCHANGED vars
  BY <1>13, <1>s DEF vars, scopeVars, tableVars, parserVars
<1>14. QED
  BY <1>1, <1>2, <1>3, <1>4, <1>5, <1>6, <1>7, <1>8, <1>9, <1>10, <1>11, <1>12, <1>13 DEF Next

LEMMA AddDistinct ==
    ASSUME Typed, NEW v \in Variables', variables'[v].name \in Names, add_variable(v),
           variables'[v].path # <<>>,
           \A n \in Names : \A w \in Known(n) : variables'[w] = variables[w],
           \A n \in Names : v \notin Known(n),
           \A n \in Names : \A u, w \in Known(n) :
              variables[u].name = n /\ (variables[u].path = variables[w].path => u = w)
    PROVE  \A n \in Names : \A u, w \in Known(n)' :
              variables'[u].name = n /\ (variables'[u].path = variables'[w].path => u = w)
<1> SUFFICES ASSUME NEW n \in Names, NEW u \in Known(n)', NEW w \in Known(n)'
             PROVE  variables'[u].name = n /\ (variables'[u].path = variables'[w].path => u = w)
  OBVIOUS
<1>1. Known(n)' = IF n = variables'[v].name /\ ~Taken(v) THEN Known(n) \cup {v} ELSE Known(n)
  BY AddFacts
<1>2. ~Taken(v) => \A j \in Known(variables'[v].name) : variables'[j].path # variables'[v].path
  BY DEF Taken, Known
<1>3. QED
  BY <1>1, <1>2

LEMMA StepDistinct == TableInv /\ [Next]_vars => Distinct'
<1> SUFFICES ASSUME TableInv, [Next]_vars PROVE Distinct'
  OBVIOUS
<1>0. Typed /\ TypedScopes /\ TypedTable /\ TypedParser /\ Placed /\ Distinct
  BY DEF TableInv, Typed
<1>k. \A n \in Names : Known(n) \subseteq Variables
  BY <1>0, KnownTyped
<1>s. ASSUME UNCHANGED <<variables, variableTable, declarators>> PROVE Distinct'
  <2>1. \A n \in Names : Known(n)' = Known(n)
    BY <1>s DEF Known
  <2>2. QED
    BY <1>0, <1>s, <2>1 DEF Distinct
<1>1. ASSUME NEW n \in Names, value_definition(n) PROVE Distinct'
  <2> DEFINE new == Len(variables) + 1
  <2>1. /\ NewVariable(n) /\ UNCHANGED scopeVars /\ UNCHANGED variableTable
        /\ declarators' = Append(declarators, new)
    BY <1>1 DEF value_definition
  <2>2. /\ Variables \subseteq Variables' /\ new \in Variables' /\ new \notin Variables
        /\ \A v \in Variables : variables'[v] = variables[v]
    BY <1>0, <2>1, NewVariableTyped
  <2>3. declarators \in Seq(Variables')
    BY <1>0, <2>2, SeqMonotonic DEF TypedParser
  <2>4. /\ DOMAIN declarators' = 1 .. Len(declarators) + 1 /\ Len(declarators) \in Nat
        /\ DOMAIN declarators = 1 .. Len(declarators)
        /\ \A i \in 1 .. Len(declarators) : declarators'[i] = declarators[i]
        /\ declarators'[Len(declarators) + 1] = new
    <3> HIDE DEF new
    <3> QED
      BY <2>1, <2>2, <2>3, AppendProperties, LenProperties
  <2>5. \A i \in 1 .. Len(declarators) : declarators[i] \in Variables
    BY <1>0, ElementOfSeq DEF TypedParser
  <2>6. \A m \in Names : Known(m)' = Known(m)
    BY <2>1 DEF Known
  <2> HIDE DEF new
  <2>7. \A m \in Names : \A v, w \in Known(m)' :
          /\ variables'[v].name = m
          /\ variables'[v].path = variables'[w].path => v = w
    <3>1. \A m \in Names : \A v \in Known(m) : variables'[v] = variables[v]
      BY <1>k, <2>2
    <3>2. QED
      BY <1>0, <2>6, <3>1 DEF Distinct
  <2>8. \A i, j \in DOMAIN declarators' : i # j => declarators'[i] # declarators'[j]
    BY <1>0, <2>2, <2>4, <2>5 DEF Distinct
  <2>9. \A m \in Names : \A i \in DOMAIN declarators' : declarators'[i] \notin Known(m)'
    BY <1>0, <1>k, <2>2, <2>4, <2>6 DEF Distinct
  <2>10. QED
    BY <2>7, <2>8, <2>9 DEF Distinct
<1>2. ASSUME NEW n \in Names, id_extend(n) PROVE Distinct'
  BY <1>2, <1>s DEF id_extend, tableVars, parserVars
<1>3. ASSUME NEW n \in Names, parameter(n) PROVE Distinct'
  <2> DEFINE new == Len(variables) + 1
  <2>1. NewVariable(n) /\ UNCHANGED scopeVars /\ add_variable(new) /\ UNCHANGED declarators
    BY <1>3 DEF parameter
  <2>2. /\ Variables \subseteq Variables' /\ new \in Variables' /\ new \notin Variables
        /\ \A v \in Variables : variables'[v] = variables[v]
        /\ variables'[new].name = n /\ variables'[new].path = scope_vector
    BY <1>0, <2>1, NewVariableTyped
  <2> HIDE DEF new
  <2>3. DOMAIN declarators' = {}
    <3>1. InHeader
      BY <1>0, <1>3, Stages DEF parameter
    <3>2. QED
      BY <1>0, <2>1, <3>1, EmptySeq, LenProperties DEF Placed
  <2>4. \A m \in Names : \A u, w \in Known(m)' :
            variables'[u].name = m /\ (variables'[u].path = variables'[w].path => u = w)
    <3>1. scope_vector # <<>>
      BY <1>0 DEF TypedScopes
    <3>2. \A m \in Names : new \notin Known(m)
      BY <1>k, <2>2
    <3>3. \A m \in Names : \A w \in Known(m) : variables'[w] = variables[w]
      BY <1>k, <2>2
    <3>4. QED
      BY <1>0, <2>1, <2>2, <3>1, <3>2, <3>3, AddDistinct DEF Distinct
  <2>5. QED
    BY <2>3, <2>4 DEF Distinct
<1>4. ASSUME NEW f \in FunctionNames, function_definition(f) PROVE Distinct'
  BY <1>4, <1>s DEF function_definition, tableVars
<1>5. CASE define_list_end
  BY <1>5, <1>s DEF define_list_end, tableVars
<1>6. CASE define_list_returns
  <2> DEFINE v == Last(declarators)
  <2>1. declarators # <<>>
    BY <1>0, <1>6 DEF Placed, define_list_returns
  <2>2. /\ DOMAIN declarators' = 1 .. Len(declarators) - 1 /\ DOMAIN declarators = 1 .. Len(declarators)
        /\ Len(declarators) \in Nat \ {0}
        /\ \A i \in 1 .. Len(declarators) - 1 : declarators'[i] = declarators[i]
        /\ v \in Variables /\ v = declarators[Len(declarators)]
    BY <1>0, <1>6, <2>1, FrontFacts, LenProperties, EmptySeq DEF define_list_returns, TypedParser
  <2>3. variables' = variables /\ Variables' = Variables /\ add_variable(v)
    BY <1>6 DEF define_list_returns, Variables
  <2> HIDE DEF v
  <2>4. variables[v].name \in Names /\ variables[v].path # <<>>
    BY <1>0, <2>2, VariableTyped DEF TypedScopes
  <2>5. \A m \in Names : v \notin Known(m)
    BY <1>0, <2>2 DEF Distinct
  <2>6. \A m \in Names : \A u, w \in Known(m)' :
            variables'[u].name = m /\ (variables'[u].path = variables'[w].path => u = w)
    BY <1>0, <2>2, <2>3, <2>4, <2>5, AddDistinct DEF Distinct
  <2>7. \A i, j \in DOMAIN declarators' : i # j => declarators'[i] # declarators'[j]
    BY <1>0, <2>2 DEF Distinct
  <2>8. \A m \in Names : \A i \in DOMAIN declarators' : declarators'[i] \notin Known(m)'
    <3>1. \A m \in Names : Known(m)' \subseteq Known(m) \cup {v}
      BY <1>0, <2>3, <2>4, AddFacts
    <3>2. \A i \in DOMAIN declarators' : declarators'[i] # v
      BY <1>0, <2>2 DEF Distinct
    <3>3. QED
      BY <1>0, <2>2, <3>1, <3>2 DEF Distinct
  <2>9. QED
    BY <2>6, <2>7, <2>8 DEF Distinct
<1>7. CASE prototype
  BY <1>7, <1>s DEF prototype, tableVars
<1>8. CASE function_body
  BY <1>8, <1>s DEF function_body, tableVars
<1>9. CASE block
  BY <1>9, <1>s DEF block, tableVars
<1>10. CASE block_end
  BY <1>10, <1>s DEF block_end, tableVars
<1>11. CASE body_end
  BY <1>11, <1>s DEF body_end, tableVars
<1>12. CASE function_end
  BY <1>12, <1>s DEF function_end, tableVars
<1>13. CASE UNCHANGED vars
  BY <1>13, <1>s DEF vars, tableVars, parserVars
<1>14. QED
  BY <1>1, <1>2, <1>3, <1>4, <1>5, <1>6, <1>7, <1>8, <1>9, <1>10, <1>11, <1>12, <1>13 DEF Next

-----------------------------------------------------------------------------
(* Functions.                                                              *)
LEMMA DefineFacts ==
    ASSUME Typed, header.name \in FunctionNames, define_function
    PROVE  LET c == current_function' IN
           /\ DOMAIN functions' = DOMAIN functions \cup {c} /\ c # None
           /\ \A f \in DOMAIN functions \ {c} : functions'[f] = functions[f]
           /\ functions'[c].has_declare = FALSE
           /\ \/ /\ c \notin DOMAIN functions
                 /\ functions'[c].name = header.name
                 /\ functions'[c].parameters = header.parameters
                 /\ functions'[c].scope_esp = 2 /\ functions'[c].heads = 1
                 /\ functions'[c].declares = {} /\ functions'[c].uses = {}
                 /\ ~functions'[c].prototyped
              \/ /\ DefinesDeclared /\ c \in DOMAIN functions /\ c = functionTable[header.name]
                 /\ functions'[c].name = functions[c].name
                 /\ functions'[c].parameters = functions[c].parameters
                 /\ functions'[c].scope_esp = functions[c].scope_esp + 2
                 /\ functions'[c].heads = functions[c].heads + 1
                 /\ functions'[c].declares = functions[c].declares
                 /\ functions'[c].uses = functions[c].uses
                 /\ functions'[c].prototyped = functions[c].prototyped
<1> DEFINE new == Entered(NewFunction(FALSE))
           old == Entered([Existing EXCEPT !.has_declare = FALSE])
<1>1. /\ Len(functions) \in Nat /\ DOMAIN functions = 1 .. Len(functions)
      /\ functions \in Seq(FunctionObjects(Variables))
  BY LenProperties DEF Typed, TypedFunctions
<1>2. CASE DefinesNew \/ DefinesAgain
  <2>1. new \in FunctionObjects(Variables)
    BY NewFunctionTyped, ObjectTyped DEF Typed
  <2>2. functions' = Append(functions, new) /\ current_function' = Len(functions) + 1
    BY <1>2 DEF DefinesNew, DefinesAgain
  <2>3. /\ DOMAIN functions' = 1 .. Len(functions) + 1
        /\ \A f \in 1 .. Len(functions) : functions'[f] = functions[f]
        /\ functions'[Len(functions) + 1] = new
    <3> HIDE DEF new
    <3> QED
      BY <1>1, <2>1, <2>2, AppendProperties, LenProperties
  <2>4. /\ new.has_declare = FALSE /\ new.name = header.name /\ new.parameters = header.parameters
        /\ new.scope_esp = 2 /\ new.heads = 1 /\ new.declares = {} /\ new.uses = {} /\ ~new.prototyped
    BY DEF NewFunction, Entered
  <2>5. QED
    <3> HIDE DEF new
    <3> QED
      BY <1>1, <2>2, <2>3, <2>4 DEF None
<1>3. CASE DefinesDeclared
  <2>1. functionTable[header.name] \in 1 .. Len(functions)
    BY <1>1, <1>3 DEF DefinesDeclared, Registered, Typed, TypedFunctions
  <2>2. Existing \in FunctionObjects(Variables) /\ Existing = functions[functionTable[header.name]]
    BY <1>1, <2>1, ElementOfSeq DEF Existing
  <2>3. /\ old.has_declare = FALSE /\ old.name = Existing.name
        /\ old.parameters = Existing.parameters
        /\ old.scope_esp = Existing.scope_esp + 2 /\ old.heads = Existing.heads + 1
        /\ old.declares = Existing.declares /\ old.uses = Existing.uses
        /\ old.prototyped = Existing.prototyped
    BY <2>2 DEF Entered, FunctionObjects
  <2>4. /\ functions' = [functions EXCEPT ![functionTable[header.name]] = old]
        /\ current_function' = functionTable[header.name]
    BY <1>3 DEF DefinesDeclared, Existing
  <2>5. QED
    <3> HIDE DEF old
    <3> QED
      BY <1>1, <1>3, <2>1, <2>2, <2>3, <2>4, SMTT(30) DEF None
<1>4. QED
  BY <1>2, <1>3 DEF define_function

LEMMA DeclareFacts ==
    ASSUME Typed, header.name \in FunctionNames, declare_function
    PROVE  LET c == Len(functions) + 1 IN
           \/ /\ ~Registered(header.name) /\ Register /\ c \notin DOMAIN functions
              /\ DOMAIN functions' = DOMAIN functions \cup {c}
              /\ \A f \in DOMAIN functions : functions'[f] = functions[f]
              /\ functions'[c].name = header.name /\ functions'[c].has_declare = TRUE
              /\ functions'[c].scope_esp = 0 /\ functions'[c].heads = 0
              /\ functions'[c].prototyped = TRUE
           \/ UNCHANGED <<functions, functionTable, function_define_order_list>>
<1> DEFINE new == NewFunction(TRUE)
<1>1. /\ Len(functions) \in Nat /\ DOMAIN functions = 1 .. Len(functions)
      /\ functions \in Seq(FunctionObjects(Variables))
  BY LenProperties DEF Typed, TypedFunctions
<1>2. CASE ~Registered(header.name)
  <2>1. new \in FunctionObjects(Variables)
    BY NewFunctionTyped DEF Typed
  <2>2. functions' = Append(functions, new) /\ Register
    BY <1>2 DEF declare_function
  <2>3. /\ DOMAIN functions' = 1 .. Len(functions) + 1
        /\ \A f \in 1 .. Len(functions) : functions'[f] = functions[f]
        /\ functions'[Len(functions) + 1] = new
    <3> HIDE DEF new
    <3> QED
      BY <1>1, <2>1, <2>2, AppendProperties, LenProperties
  <2>4. /\ new.has_declare = TRUE /\ new.name = header.name /\ new.prototyped = TRUE
        /\ new.scope_esp = 0 /\ new.heads = 0
    BY DEF NewFunction
  <2>5. /\ Len(functions) + 1 \notin DOMAIN functions
        /\ DOMAIN functions' = DOMAIN functions \cup {Len(functions) + 1}
    <3> HIDE DEF new
    <3> QED
      BY <1>1, <2>3
  <2>6. QED
    <3> HIDE DEF new
    <3> QED
      BY <1>1, <1>2, <2>2, <2>3, <2>4, <2>5
<1>3. CASE Registered(header.name)
  BY <1>3 DEF declare_function
<1>4. QED
  BY <1>2, <1>3

(* Every step but a prototype and a definition's head leaves the functions *)
(* what they are, but for what it adds to the code of the current one.     *)
Edits(f) ==
    LET old == functions[f]
        new == functions'[f]
    IN  \/ new = old
        \/ f = current_function /\ \E k \in Int : new = Levelled(old, k)
        \/ f = current_function /\ \E v : new = Declaring(old, v)
        \/ /\ f = current_function /\ new = Using(old, found')
           /\ found' # None /\ \E n \in Names : id_extend(n)

LEMMA StepEdits ==
    ASSUME TableInv, [Next]_vars
    PROVE  \/ prototype \/ function_body
           \/ /\ UNCHANGED <<functionTable, function_define_order_list>>
              /\ DOMAIN functions' = DOMAIN functions
              /\ \A f \in DOMAIN functions : Edits(f) /\ Kept(functions[f], functions'[f])
<1> DEFINE Q == /\ UNCHANGED <<functionTable, function_define_order_list>>
                /\ DOMAIN functions' = DOMAIN functions
                /\ \A f \in DOMAIN functions : Edits(f)
<1>0. /\ Typed /\ TypedScopes /\ TypedTable /\ TypedFunctions /\ TypedParser /\ Placed
      /\ functions \in Seq(FunctionObjects(Variables)) /\ DOMAIN functions = 1 .. Len(functions)
  BY LenProperties DEF TableInv, Typed, TypedFunctions
<1>s. UNCHANGED funVars => Q
  BY DEF funVars, Edits
<1>a. ASSUME NEW v, variables'[v].name \in Names, add_variable(v),
             UNCHANGED <<functionTable, function_define_order_list>>
      PROVE  Q
  BY <1>0, <1>a, AddFacts DEF Edits
<1>e. ASSUME NEW d \in Int, functions' = EspBy(d),
             UNCHANGED <<functionTable, function_define_order_list>>
      PROVE  Q
  <2>1. DOMAIN functions' = DOMAIN functions
    BY <1>0, <1>e, EspFacts, LenProperties
  <2>2. ASSUME NEW f \in DOMAIN functions PROVE Edits(f)
    BY <1>0, <1>e, EspFacts DEF Edits
  <2>3. QED
    BY <1>e, <2>1, <2>2
<1>1. ASSUME NEW n \in Names, value_definition(n) PROVE Q
  BY <1>1, <1>s DEF value_definition
<1>2. ASSUME NEW n \in Names, id_extend(n) PROVE Q
  <2>1. CASE current_function = None \/ found' = None
    BY <1>2, <2>1 DEF id_extend, Edits
  <2>2. CASE ~(current_function = None \/ found' = None)
    <3>1. /\ functions' = [functions EXCEPT ![current_function].uses = @ \cup {found'}]
          /\ UNCHANGED <<functionTable, function_define_order_list>>
      BY <1>2, <2>2 DEF id_extend
    <3>2. \A f \in DOMAIN functions :
              functions'[f] = IF f = current_function
                              THEN Using(functions[f], found') ELSE functions[f]
      BY <3>1 DEF Using
    <3>3. DOMAIN functions' = DOMAIN functions
      BY <3>1
    <3>4. QED
      BY <1>2, <2>2, <3>1, <3>2, <3>3 DEF Edits
  <2>3. QED
    BY <2>1, <2>2
<1>3. ASSUME NEW n \in Names, parameter(n) PROVE Q
  <2>1. variables'[Len(variables) + 1].name \in Names
    BY <1>0, <1>3, NewVariableTyped DEF parameter
  <2>2. QED
    BY <1>3, <1>a, <2>1 DEF parameter
<1>4. ASSUME NEW f \in FunctionNames, function_definition(f) PROVE Q
  BY <1>4, <1>s DEF function_definition
<1>5. ASSUME define_list_end PROVE Q
  BY <1>5, <1>s DEF define_list_end
<1>6. ASSUME define_list_returns PROVE Q
  <2>1. Last(declarators) \in Variables
    BY <1>0, <1>6, FrontFacts DEF Placed, define_list_returns, TypedParser
  <2>2. variables'[Last(declarators)].name \in Names
    BY <1>0, <1>6, <2>1, VariableTyped DEF define_list_returns
  <2>3. QED
    BY <1>6, <1>a, <2>2 DEF define_list_returns
<1>9. ASSUME block PROVE Q
  BY <1>9, <1>e DEF block
<1>10. ASSUME block_end PROVE Q
  BY <1>10, <1>e DEF block_end
<1>11. ASSUME body_end PROVE Q
  BY <1>11, <1>e DEF body_end
<1>12. ASSUME function_end PROVE Q
  BY <1>12, <1>s DEF function_end
<1>13. ASSUME UNCHANGED vars PROVE Q
  BY <1>13, <1>s DEF vars
<1>14. prototype \/ function_body \/ Q
  BY <1>1, <1>2, <1>3, <1>4, <1>5, <1>6, <1>9, <1>10, <1>11, <1>12, <1>13 DEF Next
<1>15. ASSUME NEW f \in DOMAIN functions, Edits(f) PROVE Kept(functions[f], functions'[f])
  <2>1. functions[f] \in FunctionObjects(Variables)
    BY <1>0, ElementOfSeq
  <2>2. Kept(functions[f], functions[f])
    BY DEF Kept
  <2>3. QED
    <3>1. CASE functions'[f] = functions[f]
      BY <2>2, <3>1
    <3>2. CASE \E k \in Int : functions'[f] = Levelled(functions[f], k)
      BY <2>1, <3>2, EditFacts
    <3>3. CASE \E v : functions'[f] = Declaring(functions[f], v)
      BY <2>1, <3>3, EditFacts
    <3>4. CASE functions'[f] = Using(functions[f], found')
      BY <2>1, <3>4, EditFacts
    <3>5. QED
      BY <1>15, <3>1, <3>2, <3>3, <3>4 DEF Edits
<1>16. QED
  BY <1>14, <1>15

LEMMA StepLevels == TableInv /\ [Next]_vars => Levels'
<1> SUFFICES ASSUME TableInv, [Next]_vars PROVE Levels'
  OBVIOUS
<1>0. /\ Typed /\ TypedScopes /\ TypedTable /\ TypedFunctions /\ TypedParser /\ Placed /\ Levels
  BY DEF TableInv, Typed
<1>k. /\ \A f \in DOMAIN functions : functions[f] \in FunctionObjects(Variables)
      /\ None \notin DOMAIN functions
  BY <1>0, ElementOfSeq, LenProperties DEF TypedFunctions, None
<1>s. ASSUME UNCHANGED current_function, current_function # None => UNCHANGED productions,
             DOMAIN functions' = DOMAIN functions,
             \A f \in DOMAIN functions : functions'[f].scope_esp = functions[f].scope_esp
      PROVE  Levels'
  BY <1>0, <1>k, <1>s DEF Levels
<1>a. ASSUME NEW v, variables'[v].name \in Names, add_variable(v), UNCHANGED <<current_function, productions>>
      PROVE  Levels'
  <2>1. /\ DOMAIN functions' = DOMAIN functions
        /\ \A f \in DOMAIN functions :
              functions'[f] = functions[f] \/ functions'[f] = Declaring(functions[f], v)
    BY <1>0, <1>a, AddFacts
  <2>2. \A f \in DOMAIN functions : Declaring(functions[f], v).scope_esp = functions[f].scope_esp
    BY <1>k, EditFacts
  <2>3. QED
    BY <1>a, <1>s, <2>1, <2>2
<1>e. ASSUME NEW d \in Int, functions' = EspBy(d)
      PROVE  /\ DOMAIN functions' = DOMAIN functions
             /\ \A f \in DOMAIN functions :
                   functions'[f].scope_esp = IF f = current_function THEN functions[f].scope_esp + d
                                                                     ELSE functions[f].scope_esp
  <2>1. /\ DOMAIN functions' = DOMAIN functions
        /\ \A f \in DOMAIN functions :
              functions'[f] = IF f = current_function THEN Levelled(functions[f], d) ELSE functions[f]
    BY <1>0, <1>e, EspFacts, LenProperties DEF TypedFunctions
  <2>2. \A f \in DOMAIN functions : Levelled(functions[f], d).scope_esp = functions[f].scope_esp + d
    BY <1>k, EditFacts
  <2>3. QED
    BY <2>1, <2>2
<1>1. ASSUME NEW n \in Names, value_definition(n) PROVE Levels'
  BY <1>1, <1>s DEF value_definition, funVars
<1>2. ASSUME NEW n \in Names, id_extend(n) PROVE Levels'
  <2>1. CASE current_function = None \/ found' = None
    BY <1>2, <1>s, <2>1 DEF id_extend, parserVars
  <2>2. CASE ~(current_function = None \/ found' = None)
    <3>1. functions' = [functions EXCEPT ![current_function].uses = @ \cup {found'}]
      BY <1>2, <2>2 DEF id_extend
    <3>2. \A f \in DOMAIN functions :
              functions'[f] = functions[f] \/ functions'[f] = Using(functions[f], found')
      BY <3>1 DEF Using
    <3>3. \A f \in DOMAIN functions : Using(functions[f], found').scope_esp = functions[f].scope_esp
      BY <1>k, EditFacts
    <3>4. DOMAIN functions' = DOMAIN functions
      BY <3>1
    <3>5. QED
      BY <1>2, <1>s, <3>2, <3>3, <3>4 DEF id_extend, parserVars
  <2>3. QED
    BY <2>1, <2>2
<1>3. ASSUME NEW n \in Names, parameter(n) PROVE Levels'
  <2>1. variables'[Len(variables) + 1].name \in Names
    BY <1>0, <1>3, NewVariableTyped DEF parameter
  <2>2. QED
    BY <1>3, <1>a, <2>1 DEF parameter
<1>4. ASSUME NEW f \in FunctionNames, function_definition(f) PROVE Levels'
  <2>1. current_function = None
    BY <1>0, <1>4, Stages DEF function_definition, Placed
  <2>2. QED
    BY <1>4, <1>s, <2>1 DEF function_definition, funVars
<1>5. CASE define_list_end
  BY <1>5, <1>s DEF define_list_end, funVars
<1>6. CASE define_list_returns
  <2>1. Last(declarators) \in Variables
    BY <1>0, <1>6, FrontFacts DEF Placed, define_list_returns, TypedParser
  <2>2. variables'[Last(declarators)].name \in Names
    BY <1>0, <1>6, <2>1, VariableTyped DEF define_list_returns
  <2>3. QED
    BY <1>6, <1>a, <2>2 DEF define_list_returns
<1>7. CASE prototype
  <2>1. InHeader /\ current_function = None /\ header.name \in FunctionNames /\ current_function' = None
    BY <1>0, <1>7, Stages DEF prototype, Placed
  <2>2. declare_function
    BY <1>7 DEF prototype
  <2>3. CASE functions' = functions
    BY <1>s, <2>1, <2>3
  <2>4. CASE functions' # functions
    <3> DEFINE c == Len(functions) + 1
    <3>1. /\ c \notin DOMAIN functions /\ DOMAIN functions' = DOMAIN functions \cup {c}
          /\ \A f \in DOMAIN functions : functions'[f] = functions[f]
          /\ functions'[c].scope_esp = 0
      BY <1>0, <2>1, <2>2, <2>4, DeclareFacts
    <3>2. c # None
      BY <1>0, LenProperties DEF TypedFunctions, None
    <3>3. \A f \in DOMAIN functions : functions[f].scope_esp = 0
      BY <1>0, <1>k, <2>1 DEF Levels
    <3> HIDE DEF c
    <3>4. QED
      BY <1>k, <2>1, <3>1, <3>2, <3>3 DEF Levels
  <2>5. QED
    BY <2>3, <2>4
<1>8. CASE function_body
  <2>1. InHeader /\ current_function = None /\ header.name \in FunctionNames
    BY <1>0, <1>8, Stages DEF function_body, Placed
  <2>2. define_function
    BY <1>8 DEF function_body
  <2>3. Len(productions') = 2
    <3>1. Len(productions') = Len(productions) + 1
      BY <1>0, <1>8, AppendProperties DEF function_body, Enters, TypedParser
    <3>2. QED
      BY <2>1, <3>1 DEF InHeader
  <2>4. \A f \in DOMAIN functions : functions[f].scope_esp = 0
    BY <1>0, <1>k, <2>1 DEF Levels
  <2> DEFINE c == current_function'
  <2>5. /\ DOMAIN functions' = DOMAIN functions \cup {c}
        /\ \A f \in DOMAIN functions \ {c} : functions'[f] = functions[f]
        /\ \/ functions'[c].scope_esp = 2
           \/ c \in DOMAIN functions /\ functions'[c].scope_esp = functions[c].scope_esp + 2
    BY <1>0, <2>1, <2>2, DefineFacts
  <2>6. functions'[c].scope_esp = 2
    BY <2>4, <2>5
  <2>7. QED
    BY <2>3, <2>4, <2>5, <2>6 DEF Levels
<1>9. CASE block
  <2>1. Len(productions') = Len(productions) + 1 /\ UNCHANGED current_function
    BY <1>0, <1>9, AppendProperties DEF block, Enters, TypedParser
  <2>2. QED
    BY <1>0, <1>9, <1>e, <2>1 DEF block, Levels
<1>10. CASE block_end
  <2>1. Len(productions') = Len(productions) - 1 /\ UNCHANGED current_function
    BY <1>0, <1>10, FrontFacts DEF block_end, Leaves, Within, TypedParser
  <2>2. Len(productions) \in Nat
    BY <1>0, Stages
  <2>3. QED
    BY <1>0, <1>10, <1>e, <2>1, <2>2 DEF block_end, Levels
<1>11. CASE body_end
  <2>1. Len(productions) = 2 /\ current_function' = None /\ functions' = EspBy(-2)
    BY <1>11 DEF body_end
  <2>2. QED
    BY <1>0, <1>k, <1>e, <2>1 DEF Levels
<1>12. CASE function_end
  <2>1. current_function = None
    BY <1>0, <1>12, Stages DEF function_end, Placed
  <2>2. QED
    BY <1>12, <1>s, <2>1 DEF function_end, funVars
<1>13. CASE UNCHANGED vars
  BY <1>13, <1>s DEF vars, funVars, parserVars
<1>14. QED
  BY <1>1, <1>2, <1>3, <1>4, <1>5, <1>6, <1>7, <1>8, <1>9, <1>10, <1>11, <1>12, <1>13 DEF Next

LEMMA StepRegistry == TableInv /\ [Next]_vars => Registry'
<1> SUFFICES ASSUME TableInv, [Next]_vars PROVE Registry'
  OBVIOUS
<1>0. /\ Typed /\ TypedFunctions /\ TypedParser /\ Placed /\ Registry
      /\ function_define_order_list \in Seq(FunctionNames)
  BY DEF TableInv, Typed, TypedFunctions
<1>1. \A f \in FunctionNames : Registered(f) => functionTable[f] \in DOMAIN functions
  BY <1>0 DEF Registered, TypedFunctions
(* The order list after the name of the header is registered.              *)
<1>2. ASSUME Register, ~Registered(header.name), header.name \in FunctionNames
      PROVE  /\ IsInjective(function_define_order_list)'
             /\ ToSet(function_define_order_list)' = {f \in FunctionNames : Registered(f)}'
             /\ \A f \in FunctionNames : functionTable'[f] = IF f = header.name THEN Len(functions) + 1
                                                             ELSE functionTable[f]
  <2> DEFINE order == function_define_order_list
  <2>1. header.name \notin ToSet(order) /\ order' = Append(order, header.name)
    BY <1>0, <1>2 DEF Registry, Register
  <2>2. /\ DOMAIN order' = 1 .. Len(order) + 1 /\ DOMAIN order = 1 .. Len(order) /\ Len(order) \in Nat
        /\ \A k \in 1 .. Len(order) : order'[k] = order[k]
        /\ order'[Len(order) + 1] = header.name
    BY <1>0, <1>2, <2>1, AppendProperties, LenProperties
  <2>3. ASSUME NEW j \in DOMAIN order', NEW k \in DOMAIN order', order'[j] = order'[k] PROVE j = k
    <3>1. \A i \in 1 .. Len(order) : order[i] # header.name
      BY <2>1, <2>2 DEF ToSet
    <3>2. QED
      BY <1>0, <2>2, <2>3, <3>1 DEF Registry, IsInjective
  <2>4. ToSet(order)' = ToSet(order) \cup {header.name}
    BY <1>0, <2>1, AppendedSet
  <2>5. \A f \in FunctionNames : functionTable'[f] = IF f = header.name THEN Len(functions) + 1
                                                     ELSE functionTable[f]
    BY <1>0, <1>2 DEF Register, TypedFunctions
  <2>6. Len(functions) + 1 # None
    BY <1>0, LenProperties DEF TypedFunctions, None
  <2>7. {f \in FunctionNames : Registered(f)}' = {f \in FunctionNames : Registered(f)} \cup {header.name}
    BY <1>2, <2>5, <2>6 DEF Registered
  <2>8. QED
    BY <1>0, <2>3, <2>4, <2>5, <2>7 DEF IsInjective, Registry
<1>3. CASE prototype
  <2>1. header.name \in FunctionNames /\ declare_function
    BY <1>0, <1>3, Stages DEF prototype, Placed
  <2>2. CASE UNCHANGED <<functions, functionTable, function_define_order_list>>
    BY <1>0, <2>2 DEF Registry, Registered
  <2>3. CASE ~UNCHANGED <<functions, functionTable, function_define_order_list>>
    <3> DEFINE c == Len(functions) + 1
    <3>1. /\ ~Registered(header.name) /\ Register /\ c \notin DOMAIN functions
          /\ \A f \in DOMAIN functions : functions'[f] = functions[f]
          /\ functions'[c].name = header.name /\ functions'[c].has_declare = TRUE
          /\ functions'[c].heads = 0
      BY <1>0, <2>1, <2>3, DeclareFacts
    <3>2. \A f \in FunctionNames : Registered(f)' =>
              LET fun == functions'[functionTable'[f]]
              IN  fun.name = f /\ fun.heads = IF fun.has_declare THEN 0 ELSE 1
      BY <1>0, <1>1, <1>2, <2>1, <3>1 DEF Registry, Registered
    <3>3. QED
      BY <1>2, <2>1, <3>1, <3>2 DEF Registry
  <2>4. QED
    BY <2>2, <2>3
<1>4. CASE function_body
  <2> DEFINE c == current_function'
  <2>1. header.name \in FunctionNames /\ define_function
    BY <1>0, <1>4, Stages DEF function_body, Placed
  <2>2. /\ \A f \in DOMAIN functions \ {c} : functions'[f] = functions[f]
        /\ functions'[c].has_declare = FALSE
        /\ \/ c \notin DOMAIN functions /\ functions'[c].name = header.name /\ functions'[c].heads = 1
           \/ /\ DefinesDeclared /\ c \in DOMAIN functions /\ c = functionTable[header.name]
              /\ functions'[c].name = functions[c].name
              /\ functions'[c].heads = functions[c].heads + 1
    BY <1>0, <2>1, DefineFacts
  <2>3. CASE DefinesNew
    <3>1. ~Registered(header.name) /\ Register /\ c = Len(functions) + 1
      BY <2>3 DEF DefinesNew
    <3>2. c \notin DOMAIN functions
      BY <1>0, <3>1, LenProperties DEF TypedFunctions
    <3>3. \A f \in FunctionNames : Registered(f)' =>
              LET fun == functions'[functionTable'[f]]
              IN  fun.name = f /\ fun.heads = IF fun.has_declare THEN 0 ELSE 1
      BY <1>0, <1>1, <1>2, <2>1, <2>2, <3>1, <3>2 DEF Registry, Registered
    <3>4. QED
      BY <1>2, <2>1, <3>1, <3>3 DEF Registry
  <2>4. CASE DefinesAgain
    <3>1. /\ UNCHANGED <<functionTable, function_define_order_list>> /\ c = Len(functions) + 1
      BY <2>4 DEF DefinesAgain
    <3>2. c \notin DOMAIN functions
      BY <1>0, <3>1, LenProperties DEF TypedFunctions
    <3>3. QED
      BY <1>0, <1>1, <2>2, <3>1, <3>2 DEF Registry, Registered
  <2>5. CASE DefinesDeclared
    <3>1. /\ UNCHANGED <<functionTable, function_define_order_list>> /\ Registered(header.name)
          /\ functions[functionTable[header.name]].has_declare
      BY <2>5 DEF DefinesDeclared, Existing
    <3>2. c = functionTable[header.name] /\ c \in DOMAIN functions
      BY <1>1, <2>1, <2>5, <3>1 DEF DefinesDeclared
    <3>3. functions[c].heads = 0 /\ functions[c].name = header.name
      BY <1>0, <2>1, <3>1, <3>2 DEF Registry
    <3>4. /\ functions'[c].name = header.name /\ functions'[c].heads = 1
      BY <2>2, <3>2, <3>3
    <3>5. \A f \in FunctionNames : Registered(f) /\ f # header.name => functionTable[f] # c
      BY <1>0, <3>3 DEF Registry
    <3>6. \A f \in FunctionNames : Registered(f) =>
              LET fun == functions'[functionTable[f]]
              IN  fun.name = f /\ fun.heads = IF fun.has_declare THEN 0 ELSE 1
      BY <1>0, <1>1, <2>2, <3>2, <3>4, <3>5 DEF Registry
    <3>7. QED
      BY <1>0, <3>1, <3>6 DEF Registry, Registered
  <2>6. QED
    BY <2>1, <2>3, <2>4, <2>5 DEF define_function
<1>5. CASE ~prototype /\ ~function_body
  <2>1. /\ UNCHANGED <<functionTable, function_define_order_list>>
        /\ \A f \in DOMAIN functions : Kept(functions[f], functions'[f])
    BY <1>5, StepEdits
  <2>2. QED
    BY <1>0, <1>1, <2>1 DEF Registry, Registered, Kept
<1>6. QED
  BY <1>3, <1>4, <1>5
-----------------------------------------------------------------------------
(* Storage.                                                                *)
(* Entering a scope opens no variable, for its id is new; leaving one only *)
(* closes variables.                                                       *)
LEMMA NothingOpens ==
    ASSUME TypedScopes, UNCHANGED variables,
           enter_new_scope \/ (exit_current_scope /\ Len(scope_vector) > 1)
    PROVE  \A v \in Variables : Open(v)' =>
              /\ Open(v)
              /\ Len(variables[v].path) <= Len(scope_vector)
              /\ Len(variables[v].path) <= Len(scope_vector')
<1> SUFFICES ASSUME NEW v \in Variables, Open(v)'
             PROVE  /\ Open(v) /\ Len(variables[v].path) <= Len(scope_vector)
                    /\ Len(variables[v].path) <= Len(scope_vector')
  OBVIOUS
<1> DEFINE length == Len(variables[v].path)
<1>1. length \in Nat \ {0} /\ variables[v].path \in Seq(0 .. current_scope_id)
  BY VariableTyped
<1>2. length <= Len(scope_vector') /\ scope_vector'[length] = variables[v].path[length]
  BY DEF Open
<1>3. variables[v].path[length] \in 0 .. current_scope_id
  <2>1. length \in 1 .. Len(variables[v].path)
    BY <1>1
  <2> HIDE DEF length
  <2>2. QED
    BY <1>1, <2>1, ElementOfSeq
<1> HIDE DEF length
<1>4. CASE enter_new_scope
  <2>1. /\ Len(scope_vector) \in Nat /\ Len(scope_vector') = Len(scope_vector) + 1
        /\ \A k \in 1 .. Len(scope_vector) : scope_vector'[k] = scope_vector[k]
        /\ scope_vector'[Len(scope_vector) + 1] = current_scope_id + 1
    BY <1>4, EnterScope
  <2>2. current_scope_id + 1 \notin 0 .. current_scope_id
    BY BoundsAssumption DEF TypedScopes
  <2>3. length # Len(scope_vector) + 1
    BY <1>2, <1>3, <2>1, <2>2
  <2>4. length \in 1 .. Len(scope_vector)
    BY <1>1, <1>2, <2>1, <2>3
  <2>5. length <= Len(scope_vector) /\ scope_vector[length] = variables[v].path[length]
    BY <1>2, <2>1, <2>4
  <2>6. QED
    BY <1>2, <2>5 DEF Open, length
<1>5. CASE exit_current_scope /\ Len(scope_vector) > 1
  <2>1. /\ Len(scope_vector) \in Nat /\ Len(scope_vector') = Len(scope_vector) - 1
        /\ \A k \in 1 .. Len(scope_vector) - 1 : scope_vector'[k] = scope_vector[k]
    BY <1>5, ExitScope
  <2>2. length \in 1 .. Len(scope_vector) - 1 /\ length <= Len(scope_vector)
    BY <1>1, <1>2, <2>1
  <2>3. scope_vector[length] = variables[v].path[length]
    BY <1>2, <2>1, <2>2
  <2>4. QED
    BY <1>2, <2>2, <2>3 DEF Open, length
<1>6. QED
  BY <1>4, <1>5

LEMMA StepPrototypes ==
    TableInv /\ [Next]_vars => \A f \in DOMAIN functions' : functions'[f].has_declare => functions'[f].prototyped
<1> SUFFICES ASSUME TableInv, [Next]_vars
             PROVE  \A f \in DOMAIN functions' : functions'[f].has_declare => functions'[f].prototyped
  OBVIOUS
<1>0. /\ Typed /\ TypedParser /\ Placed
      /\ \A f \in DOMAIN functions : functions[f].has_declare => functions[f].prototyped
  BY DEF TableInv, Typed, Placements
<1>1. CASE prototype
  <2>1. header.name \in FunctionNames /\ declare_function
    BY <1>0, <1>1, Stages DEF prototype, Placed
  <2>2. \/ UNCHANGED functions
        \/ /\ DOMAIN functions' = DOMAIN functions \cup {Len(functions) + 1}
           /\ \A f \in DOMAIN functions : functions'[f] = functions[f]
           /\ functions'[Len(functions) + 1].prototyped = TRUE
    BY <1>0, <2>1, DeclareFacts
  <2>3. QED
    BY <1>0, <2>2
<1>2. CASE function_body
  <2>1. header.name \in FunctionNames /\ define_function
    BY <1>0, <1>2, Stages DEF function_body, Placed
  <2> DEFINE c == current_function'
  <2>2. /\ DOMAIN functions' = DOMAIN functions \cup {c} /\ functions'[c].has_declare = FALSE
        /\ \A f \in DOMAIN functions \ {c} : functions'[f] = functions[f]
    BY <1>0, <2>1, DefineFacts
  <2>3. QED
    BY <1>0, <2>2
<1>3. CASE ~prototype /\ ~function_body
  <2>1. DOMAIN functions' = DOMAIN functions /\ \A f \in DOMAIN functions : Kept(functions[f], functions'[f])
    BY <1>3, StepEdits
  <2>2. QED
    BY <1>0, <2>1 DEF Kept
<1>4. QED
  BY <1>1, <1>2, <1>3
(* Where a variable has its storage, of those that can be meant now.       *)
StoredAt(v) ==
    LET length == Len(variables[v].path) IN
    /\ length = 1 => v \in ToSet(globalVariables)
    /\ Open(v) /\ length = 2 => v \in ToSet(header.parameters)
    /\ Open(v) /\ length > 2 => v \in functions[current_function].declares

LEMMA Deeper == \A n \in Nat : n > 2 <=> n # 0 /\ n # 1 /\ n # 2
  OBVIOUS

LEMMA StepStored == TableInv /\ [Next]_vars => \A n \in Names : \A v \in Known(n)' : StoredAt(v)'
<1> SUFFICES ASSUME TableInv, [Next]_vars PROVE \A n \in Names : \A v \in Known(n)' : StoredAt(v)'
  OBVIOUS
<1>0. /\ Typed /\ TypedScopes /\ TypedTable /\ TypedFunctions /\ TypedParser /\ Placed
      /\ \A n \in Names : \A v \in Known(n) : v \in Variables /\ StoredAt(v)
  <2>1. \A n \in Names : Known(n) \subseteq Variables
    BY KnownTyped DEF TableInv, Typed
  <2>2. QED
    BY <2>1 DEF TableInv, Typed, Placements, StoredAt
<1>k. \A f \in DOMAIN functions : functions[f] \in FunctionObjects(Variables)
  BY <1>0, ElementOfSeq, LenProperties DEF TypedFunctions
<1>c. current_function # None => current_function \in DOMAIN functions
  BY <1>0 DEF TypedFunctions
(* A step that registers nothing and opens nothing, and moves the header   *)
(* and the current function only where nothing is stored with them.        *)
<1>u. ASSUME UNCHANGED <<variables, variableTable, globalVariables>>,
             \A v \in Variables : Open(v)' =>
                /\ Open(v)
                /\ Len(variables[v].path) = 2 => UNCHANGED header
                /\ Len(variables[v].path) > 2 =>
                      functions[current_function].declares \subseteq functions'[current_function'].declares
      PROVE  \A n \in Names : \A v \in Known(n)' : StoredAt(v)'
  <2>1. \A n \in Names : Known(n)' = Known(n)
    BY <1>u DEF Known
  <2>2. QED
    BY <1>0, <1>u, <2>1 DEF StoredAt
<1>m. ~prototype /\ ~function_body =>
          \A f \in DOMAIN functions : functions[f].declares \subseteq functions'[f].declares
  <2>1. ~prototype /\ ~function_body => \A f \in DOMAIN functions : Edits(f)
    BY StepEdits
  <2>2. \A f \in DOMAIN functions : Edits(f) => functions[f].declares \subseteq functions'[f].declares
    BY <1>k, EditFacts DEF Edits
  <2>3. QED
    BY <2>1, <2>2
<1>d. InBody => current_function # None
  BY <1>0 DEF Placed
<1>s. ASSUME UNCHANGED <<variables, variableTable, globalVariables, scope_vector, header, current_function>>,
             InBody \/ Len(scope_vector) < 3, ~prototype, ~function_body
      PROVE  \A n \in Names : \A v \in Known(n)' : StoredAt(v)'
  <2>1. \A v \in Variables : Open(v)' => Open(v)
    BY <1>s DEF Open
  <2>2. \A v \in Variables : Open(v) /\ Len(variables[v].path) > 2 => InBody
    <3>1. \A v \in Variables : Len(variables[v].path) \in Nat
      BY <1>0, VariableTyped
    <3>2. Len(scope_vector) \in Nat
      BY <1>0, LenProperties DEF TypedScopes
    <3>3. QED
      BY <1>s, <3>1, <3>2 DEF Open
  <2>3. QED
    BY <1>c, <1>d, <1>m, <1>s, <1>u, <2>1, <2>2
(* A scope is left, or entered: no variable of the levels that the step    *)
(* changes is open after it.                                               *)
<1>x. ASSUME UNCHANGED <<variables, variableTable, globalVariables>>,
             enter_new_scope \/ (exit_current_scope /\ Len(scope_vector) > 1),
             Len(scope_vector) < 2 \/ Len(scope_vector') < 2 \/ UNCHANGED header,
             \/ Len(scope_vector) < 3 \/ Len(scope_vector') < 3
             \/ functions[current_function].declares \subseteq functions'[current_function'].declares
      PROVE  \A n \in Names : \A v \in Known(n)' : StoredAt(v)'
  <2>1. \A v \in Variables : Open(v)' =>
            /\ Open(v)
            /\ Len(variables[v].path) <= Len(scope_vector)
            /\ Len(variables[v].path) <= Len(scope_vector')
    BY <1>0, <1>x, NothingOpens
  <2>2. \A v \in Variables : Len(variables[v].path) \in Nat
    BY <1>0, VariableTyped
  <2>3. Len(scope_vector) \in Nat /\ Len(scope_vector') \in Nat
    BY <1>0, <1>x, EnterScope, ExitScope
  <2>4. QED
    BY <1>u, <1>x, <2>1, <2>2, <2>3, SMTT(30)
(* add_variable: the object belongs to the scope that is open.             *)
<1>a. ASSUME NEW v \in Variables', add_variable(v), variables'[v].name \in Names,
             variables'[v].path = scope_vector, UNCHANGED <<scope_vector, current_function>>,
             Variables \subseteq Variables', \A w \in Variables : variables'[w] = variables[w],
             ToSet(header.parameters) \subseteq ToSet(header'.parameters),
             \/ Len(scope_vector) = 1
             \/ Len(scope_vector) = 2 /\ v \in ToSet(header'.parameters)
             \/ InBody
      PROVE  \A n \in Names : \A w \in Known(n)' : StoredAt(w)'
  <2>1. /\ \A m \in Names :
              Known(m)' = IF m = variables'[v].name /\ ~Taken(v) THEN Known(m) \cup {v} ELSE Known(m)
        /\ ToSet(globalVariables)' =
              IF ~Taken(v) /\ Len(variables'[v].path) = 1
              THEN ToSet(globalVariables) \cup {v} ELSE ToSet(globalVariables)
        /\ DOMAIN functions' = DOMAIN functions
        /\ \A f \in DOMAIN functions :
              functions'[f] = IF ~Taken(v) /\ f = current_function
                              THEN Declaring(functions[f], v) ELSE functions[f]
    BY <1>0, <1>a, AddFacts
  <2>2. \A w \in Variables : Open(w)' = Open(w)
    BY <1>a DEF Open
  <2>3. \A f \in DOMAIN functions :
            /\ functions[f].declares \subseteq functions'[f].declares
            /\ ~Taken(v) /\ f = current_function => v \in functions'[f].declares
    BY <1>k, <2>1, EditFacts
  <2>4. \A w \in Variables : Open(w) /\ Len(variables[w].path) > 2 => current_function # None
    <3>1. \A w \in Variables : Len(variables[w].path) \in Nat
      BY <1>0, VariableTyped
    <3>2. Len(scope_vector) \in Nat
      BY <1>0, LenProperties DEF TypedScopes
    <3>3. QED
      BY <1>a, <1>d, <3>1, <3>2 DEF Open
  <2>5. ASSUME NEW n \in Names, NEW w \in Known(n) PROVE StoredAt(w)'
    <3>1. w \in Variables /\ StoredAt(w) /\ variables'[w] = variables[w]
      BY <1>0, <1>a
    <3>2. ToSet(globalVariables) \subseteq ToSet(globalVariables)'
      BY <2>1
    <3>3. Open(w) /\ Len(variables[w].path) > 2 =>
              functions[current_function].declares \subseteq functions'[current_function].declares
      BY <1>c, <2>3, <2>4, <3>1
    <3>4. QED
      BY <1>a, <2>2, <3>1, <3>2, <3>3 DEF StoredAt
  <2>6. ASSUME ~Taken(v) PROVE StoredAt(v)'
    <3>1. Len(scope_vector) = 1 => v \in ToSet(globalVariables)'
      BY <1>a, <2>1, <2>6
    <3>2. Len(scope_vector) = 2 => v \in ToSet(header'.parameters)
      <4>1. InBody => Len(scope_vector) > 2
        BY <1>0, Stages DEF InBody
      <4>2. QED
        BY <1>a, <4>1
    <3>3. Len(scope_vector) > 2 => v \in functions'[current_function'].declares
      <4>0. Len(scope_vector) \in Nat
        BY <1>0, LenProperties DEF TypedScopes
      <4>1. Len(scope_vector) > 2 => current_function \in DOMAIN functions
        <5>1. Len(scope_vector) # 1 /\ Len(scope_vector) # 2 => InBody
          BY <1>a
        <5>2. QED
          BY <1>c, <1>d, <4>0, <5>1, Deeper
      <4>2. current_function' = current_function
        BY <1>a
      <4>3. QED
        BY <2>3, <2>6, <4>1, <4>2
    <3>4. QED
      BY <1>a, <3>1, <3>2, <3>3 DEF StoredAt
  <2>7. QED
    BY <2>1, <2>5, <2>6
<1>h. AtFile => Len(scope_vector) < 3
  BY DEF AtFile
<1>1. ASSUME NEW n \in Names, value_definition(n) PROVE \A m \in Names : \A v \in Known(m)' : StoredAt(v)'
  <2>1. /\ \A v \in Variables : variables'[v] = variables[v]
        /\ UNCHANGED <<variableTable, globalVariables, scope_vector, header, functions, current_function>>
    BY <1>0, <1>1, NewVariableTyped DEF value_definition, scopeVars, funVars
  <2>2. \A m \in Names : Known(m)' = Known(m)
    BY <2>1 DEF Known
  <2>3. \A v \in Variables : StoredAt(v) => StoredAt(v)'
    BY <2>1 DEF StoredAt, Open
  <2>4. QED
    BY <1>0, <2>2, <2>3
<1>2. ASSUME NEW n \in Names, id_extend(n) PROVE \A m \in Names : \A v \in Known(m)' : StoredAt(v)'
  <2>1. AtFile \/ InBody
    BY <1>0, <1>2, Stages DEF id_extend
  <2>2. ~prototype /\ ~function_body
    BY <1>0, <2>1, Stages DEF prototype, function_body
  <2>3. QED
    BY <1>2, <1>h, <1>s, <2>1, <2>2 DEF id_extend, scopeVars, tableVars, parserVars
<1>3. ASSUME NEW n \in Names, parameter(n) PROVE \A m \in Names : \A v \in Known(m)' : StoredAt(v)'
  <2> DEFINE new == Len(variables) + 1
  <2>1. InHeader /\ NewVariable(n) /\ UNCHANGED scopeVars /\ add_variable(new)
    BY <1>0, <1>3, Stages DEF parameter
  <2>2. /\ Variables \subseteq Variables' /\ new \in Variables'
        /\ \A v \in Variables : variables'[v] = variables[v]
        /\ variables'[new].name = n /\ variables'[new].path = scope_vector
    BY <1>0, <2>1, NewVariableTyped
  <2>3. ToSet(header'.parameters) = ToSet(header.parameters) \cup {new}
    <3>1. header'.parameters = Append(header.parameters, new)
      BY <1>0, <1>3 DEF parameter, TypedParser
    <3> HIDE DEF new
    <3>2. QED
      BY <1>0, <3>1, AppendedSet DEF TypedParser
  <2>4. UNCHANGED <<scope_vector, current_function>> /\ Len(scope_vector) = 2
    BY <1>3, <2>1 DEF parameter, scopeVars, InHeader
  <2> HIDE DEF new
  <2>5. QED
    BY <1>a, <2>1, <2>2, <2>3, <2>4
<1>4. ASSUME NEW f \in FunctionNames, function_definition(f) PROVE \A m \in Names : \A v \in Known(m)' : StoredAt(v)'
  <2>1. AtFile
    BY <1>0, <1>4, Stages DEF function_definition
  <2>2. QED
    BY <1>4, <1>x, <2>1 DEF function_definition, AtFile, tableVars
<1>5. ASSUME define_list_end PROVE \A m \in Names : \A v \in Known(m)' : StoredAt(v)'
  <2>1. AtFile \/ InBody
    BY <1>0, <1>5, Stages DEF define_list_end
  <2>2. ~prototype /\ ~function_body
    BY <1>0, <2>1, Stages DEF prototype, function_body
  <2>3. QED
    BY <1>5, <1>h, <1>s, <2>1, <2>2 DEF define_list_end, scopeVars, tableVars, funVars
<1>6. ASSUME define_list_returns PROVE \A m \in Names : \A v \in Known(m)' : StoredAt(v)'
  <2> DEFINE v == Last(declarators)
  <2>1. declarators # <<>>
    BY <1>0, <1>6 DEF Placed, define_list_returns
  <2>2. v \in Variables /\ v = declarators[Len(declarators)] /\ Len(declarators) \in DOMAIN declarators
    BY <1>0, <1>6, <2>1, FrontFacts, LenProperties, EmptySeq DEF define_list_returns, TypedParser
  <2>3. /\ variables' = variables /\ Variables' = Variables /\ add_variable(v)
        /\ UNCHANGED <<scope_vector, current_function, header>>
    BY <1>6 DEF define_list_returns, Variables, scopeVars
  <2> HIDE DEF v
  <2>4. variables[v].name \in Names /\ variables[v].path = scope_vector
    BY <1>0, <2>2, VariableTyped DEF TableInv, Scoped
  <2>5. Len(scope_vector) = 1 \/ InBody
    BY <1>0, <2>1 DEF Placed, AtFile
  <2>6. QED
    BY <1>a, <2>2, <2>3, <2>4, <2>5
<1>7. ASSUME prototype PROVE \A m \in Names : \A v \in Known(m)' : StoredAt(v)'
  <2>1. InHeader
    BY <1>0, <1>7, Stages DEF prototype
  <2>2. QED
    BY <1>7, <1>x, <2>1 DEF prototype, InHeader, tableVars
<1>8. ASSUME function_body PROVE \A m \in Names : \A v \in Known(m)' : StoredAt(v)'
  <2>1. InHeader
    BY <1>0, <1>8, Stages DEF function_body
  <2>2. QED
    BY <1>8, <1>x, <2>1 DEF function_body, InHeader, tableVars
<1>n. block \/ block_end => InBody /\ current_function \in DOMAIN functions /\ ~prototype /\ ~function_body
  BY <1>0, <1>c, <1>d, Stages DEF block, block_end, prototype, function_body
<1>9. ASSUME block PROVE \A m \in Names : \A v \in Known(m)' : StoredAt(v)'
  BY <1>9, <1>m, <1>n, <1>x DEF block, tableVars
<1>10. ASSUME block_end PROVE \A m \in Names : \A v \in Known(m)' : StoredAt(v)'
  <2>1. Len(scope_vector) > 1
    BY <1>0, <1>10, <1>n, Stages DEF InBody
  <2>2. QED
    BY <1>10, <1>m, <1>n, <1>x, <2>1 DEF block_end, tableVars
<1>11. ASSUME body_end PROVE \A m \in Names : \A v \in Known(m)' : StoredAt(v)'
  <2>1. InBody /\ Len(productions) = 2
    BY <1>0, <1>11, Stages DEF body_end
  <2>2. Len(scope_vector) = 3
    BY <2>1 DEF InBody
  <2>3. Len(scope_vector') = 2
    BY <1>0, <1>11, <2>2, ExitScope DEF body_end, tableVars
  <2>4. QED
    BY <1>11, <1>x, <2>2, <2>3 DEF body_end, tableVars
<1>12. ASSUME function_end PROVE \A m \in Names : \A v \in Known(m)' : StoredAt(v)'
  <2>1. InTail
    BY <1>0, <1>12, Stages DEF function_end
  <2>2. QED
    BY <1>12, <1>x, <2>1 DEF function_end, InTail, tableVars
<1>13. ASSUME UNCHANGED vars PROVE \A m \in Names : \A v \in Known(m)' : StoredAt(v)'
  <2>1. \A m \in Names : Known(m)' = Known(m)
    BY <1>13 DEF vars, tableVars, Known
  <2>2. \A v \in Variables : StoredAt(v)' = StoredAt(v)
    BY <1>13 DEF vars, scopeVars, tableVars, funVars, parserVars, StoredAt, Open
  <2>3. QED
    BY <1>0, <2>1, <2>2
<1>14. QED
  BY <1>1, <1>2, <1>3, <1>4, <1>5, <1>6, <1>7, <1>8, <1>9, <1>10, <1>11, <1>12, <1>13 DEF Next
LEMMA StepPlacements == TableInv /\ [Next]_vars => Placements'
<1> SUFFICES ASSUME TableInv, [Next]_vars PROVE Placements'
  OBVIOUS
<1>0. /\ Typed /\ TypedParser /\ TypedFunctions /\ Placed
      /\ InBody /\ ~functions[current_function].prototyped =>
            functions[current_function].parameters = header.parameters
  BY DEF TableInv, Typed, Placements
<1>1. \A n \in Names : \A v \in Known(n)' : StoredAt(v)'
  BY StepStored
<1>2. \A f \in DOMAIN functions' : functions'[f].has_declare => functions'[f].prototyped
  BY StepPrototypes
<1>3. InBody' /\ ~functions'[current_function'].prototyped =>
          functions'[current_function'].parameters = header'.parameters
  <2>1. CASE function_body
    <3>1. header.name \in FunctionNames /\ define_function /\ UNCHANGED header
      BY <1>0, <2>1, Stages DEF function_body, Placed
    <3>2. \/ functions'[current_function'].parameters = header.parameters
          \/ functions'[current_function'].prototyped
      <4> DEFINE c == current_function'
      <4>1. \/ functions'[c].parameters = header.parameters
            \/ /\ DefinesDeclared /\ c \in DOMAIN functions /\ c = functionTable[header.name]
               /\ functions'[c].prototyped = functions[c].prototyped
        BY <1>0, <3>1, DefineFacts
      <4>2. DefinesDeclared => functions[functionTable[header.name]].has_declare
        BY DEF DefinesDeclared, Existing
      <4>3. QED
        BY <4>1, <4>2 DEF TableInv, Placements
    <3>3. QED
      BY <3>1, <3>2
  <2>2. CASE ~function_body /\ ~InBody /\ ~prototype
    <3>1. ~InBody'
      <4>0. productions \in Seq({"header", "block", "tail"})
        BY <1>0 DEF TypedParser
      <4>1. CASE UNCHANGED <<scope_vector, productions>>
        BY <2>2, <4>1 DEF InBody
      <4>2. CASE \E f \in FunctionNames : function_definition(f)
        <5>1. productions = <<>> /\ productions' = Append(productions, "header")
          BY <4>2 DEF function_definition, Enters
        <5>2. Len(productions') = 1
          BY <4>0, <5>1, AppendProperties, EmptySeq
        <5>3. QED
          BY <5>2 DEF InBody
      <4>3. CASE function_end
        BY <4>3, EmptySeq DEF function_end, InBody
      <4>4. ~block /\ ~block_end /\ ~body_end
        BY <1>0, <2>2, Stages DEF block, block_end, body_end
      <4>5. QED
        BY <2>2, <4>1, <4>2, <4>3, <4>4
        DEF Next, vars, scopeVars, parserVars, value_definition, id_extend, parameter, define_list_end,
            define_list_returns
    <3>2. QED
      BY <3>1
  <2>3. CASE prototype
    <3>1. current_function' = None /\ Placed'
      BY <1>0, <2>3, Stages, StepPlaced DEF prototype, Placed
    <3>2. QED
      BY <3>1 DEF Placed
  <2>4. CASE ~function_body /\ InBody /\ ~body_end
    <3>1. ~prototype /\ ~(\E f \in FunctionNames : function_definition(f)) /\ ~function_end
          /\ ~(\E n \in Names : parameter(n))
      BY <1>0, <2>4, Stages DEF prototype, function_definition, function_end, parameter
    <3>2. UNCHANGED <<header, current_function>>
      BY <2>4, <3>1
      DEF Next, vars, funVars, parserVars, value_definition, id_extend, define_list_end,
          define_list_returns, block, block_end
    <3>3. \A f \in DOMAIN functions : Kept(functions[f], functions'[f])
      BY <2>4, <3>1, StepEdits
    <3>4. current_function \in DOMAIN functions
      BY <1>0, <2>4 DEF Placed, TypedFunctions
    <3>5. QED
      BY <1>0, <2>4, <3>2, <3>3, <3>4 DEF Kept
  <2>5. CASE body_end
    <3>1. current_function' = None /\ Placed'
      BY <2>5, StepPlaced DEF body_end
    <3>2. QED
      BY <3>1 DEF Placed
  <2>6. QED
    BY <2>1, <2>2, <2>3, <2>4, <2>5
<1>4. QED
  BY <1>1, <1>2, <1>3 DEF Placements, StoredAt

LEMMA StepStorage == TableInv /\ [Next]_vars => UsesHaveStorage'
<1> SUFFICES ASSUME TableInv, [Next]_vars PROVE UsesHaveStorage'
  OBVIOUS
<1>0. /\ Typed /\ TypedScopes /\ TypedTable /\ TypedFunctions /\ TypedParser /\ Placed
      /\ UsesHaveStorage /\ Placements
      /\ \A f \in DOMAIN functions : functions[f] \in FunctionObjects(Variables)
  BY ElementOfSeq, LenProperties DEF TableInv, Typed, TypedFunctions
<1>g. ToSet(globalVariables) \subseteq ToSet(globalVariables')
  <2>1. ASSUME NEW v, variables'[v].name \in Names, add_variable(v)
        PROVE  ToSet(globalVariables) \subseteq ToSet(globalVariables')
    BY <1>0, <2>1, AddFacts
  <2>2. ASSUME NEW n \in Names, parameter(n) PROVE ToSet(globalVariables) \subseteq ToSet(globalVariables')
    <3>1. variables'[Len(variables) + 1].name \in Names
      BY <1>0, <2>2, NewVariableTyped DEF parameter
    <3>2. QED
      BY <2>1, <2>2, <3>1 DEF parameter
  <2>3. ASSUME define_list_returns PROVE ToSet(globalVariables) \subseteq ToSet(globalVariables')
    <3>1. Last(declarators) \in Variables
      BY <1>0, <2>3, FrontFacts DEF Placed, define_list_returns, TypedParser
    <3>2. variables'[Last(declarators)].name \in Names
      BY <1>0, <2>3, <3>1, VariableTyped DEF define_list_returns
    <3>3. QED
      BY <2>1, <2>3, <3>2 DEF define_list_returns
  <2>4. ~(\E n \in Names : parameter(n)) /\ ~define_list_returns => UNCHANGED globalVariables
    BY DEF Next, vars, tableVars, value_definition, id_extend, function_definition, define_list_end,
           prototype, function_body, block, block_end, body_end, function_end
  <2>5. QED
    BY <2>2, <2>3, <2>4
<1>1. CASE prototype
  <2>1. header.name \in FunctionNames /\ declare_function
    BY <1>0, <1>1, Stages DEF prototype, Placed
  <2>2. \/ UNCHANGED functions
        \/ /\ DOMAIN functions' = DOMAIN functions \cup {Len(functions) + 1}
           /\ \A f \in DOMAIN functions : functions'[f] = functions[f]
           /\ functions'[Len(functions) + 1].prototyped = TRUE
    BY <1>0, <2>1, DeclareFacts
  <2>3. QED
    BY <1>0, <1>g, <2>2 DEF UsesHaveStorage
<1>2. CASE function_body
  <2>1. header.name \in FunctionNames /\ define_function
    BY <1>0, <1>2, Stages DEF function_body, Placed
  <2> DEFINE c == current_function'
  <2>2. /\ DOMAIN functions' = DOMAIN functions \cup {c}
        /\ \A f \in DOMAIN functions \ {c} : functions'[f] = functions[f]
        /\ \/ functions'[c].uses = {}
           \/ /\ c \in DOMAIN functions
              /\ functions'[c].parameters = functions[c].parameters
              /\ functions'[c].declares = functions[c].declares
              /\ functions'[c].uses = functions[c].uses
              /\ functions'[c].prototyped = functions[c].prototyped
    BY <1>0, <2>1, DefineFacts
  <2>3. QED
    BY <1>0, <1>g, <2>2 DEF UsesHaveStorage
<1>3. CASE ~prototype /\ ~function_body
  <2>1. /\ DOMAIN functions' = DOMAIN functions
        /\ \A f \in DOMAIN functions : Edits(f) /\ Kept(functions[f], functions'[f])
    BY <1>3, StepEdits
  <2>2. ASSUME NEW f \in DOMAIN functions, ~functions[f].prototyped
        PROVE  /\ functions[f].declares \subseteq functions'[f].declares
               /\ functions'[f].uses \subseteq functions[f].uses
                     \cup ToSet(globalVariables) \cup ToSet(functions[f].parameters) \cup functions[f].declares
    <3>1. CASE functions'[f] = functions[f]
      BY <3>1
    <3>2. CASE \E k \in Int : functions'[f] = Levelled(functions[f], k)
      BY <1>0, <3>2, EditFacts
    <3>3. CASE \E v : functions'[f] = Declaring(functions[f], v)
      BY <1>0, <3>3, EditFacts
    <3>4. ASSUME f = current_function, functions'[f] = Using(functions[f], found'), found' # None,
                 NEW n \in Names, id_extend(n)
          PROVE  /\ functions[f].declares \subseteq functions'[f].declares
                 /\ functions'[f].uses \subseteq functions[f].uses
                     \cup ToSet(globalVariables) \cup ToSet(functions[f].parameters) \cup functions[f].declares
      <4>1. /\ functions'[f].declares = functions[f].declares
            /\ functions'[f].uses = functions[f].uses \cup {found'}
        BY <1>0, <3>4, EditFacts
      <4>2. found' \in Known(n) /\ Open(found') /\ found' \in Variables
        <5>1. found' \in Meanings(n)
          BY <1>0, <3>4, MeaningFacts DEF id_extend
        <5>2. QED
          BY <1>0, <5>1, KnownTyped DEF Meanings
      <4>3. InBody /\ functions[f].parameters = header.parameters
        <5>1. f # None
          BY <1>0, LenProperties DEF TypedFunctions, None
        <5>2. QED
          BY <1>0, <2>2, <3>4, <5>1 DEF Placed, Placements
      <4>4. Len(variables[found'].path) \in Nat \ {0}
        BY <1>0, <4>2, VariableTyped
      <4>5. found' \in ToSet(globalVariables) \cup ToSet(functions[f].parameters) \cup functions[f].declares
        <5>1. \A m \in Names : \A v \in Known(m) : StoredAt(v)
          BY <1>0 DEF Placements, StoredAt
        <5>2. PICK x : x = found'
          OBVIOUS
        <5>3. StoredAt(x) /\ Open(x) /\ Len(variables[x].path) \in Nat \ {0}
          BY <4>2, <4>4, <5>1, <5>2
        <5>4. x \in ToSet(globalVariables) \cup ToSet(header.parameters) \cup functions[current_function].declares
          <6> DEFINE length == Len(variables[x].path)
          <6>1. /\ length = 1 => x \in ToSet(globalVariables)
                /\ length = 2 => x \in ToSet(header.parameters)
                /\ length > 2 => x \in functions[current_function].declares
            BY <5>3 DEF StoredAt
          <6>2. length = 1 \/ length = 2 \/ length > 2
            BY <5>3, Deeper
          <6>3. QED
            BY <6>1, <6>2
        <5>5. QED
          BY <3>4, <4>3, <5>2, <5>4
      <4>6. QED
        BY <4>1, <4>5
    <3>5. QED
      BY <2>1, <3>1, <3>2, <3>3, <3>4 DEF Edits
  <2>3. QED
    BY <1>0, <1>g, <2>1, <2>2 DEF UsesHaveStorage, Kept
<1>4. QED
  BY <1>1, <1>2, <1>3
-----------------------------------------------------------------------------
(* The invariant and what it implies.                                      *)
LEMMA InitTable == Init => TableInv
<1> SUFFICES ASSUME Init PROVE TableInv
  OBVIOUS
<1>1. Typed
  BY InitTyped
<1>2. /\ variables = <<>> /\ functions = <<>> /\ declarators = <<>> /\ productions = <<>>
      /\ function_define_order_list = <<>> /\ current_function = None /\ listClosed = FALSE
      /\ \A n \in Names : variableTable[n] = <<>>
      /\ \A f \in FunctionNames : functionTable[f] = None
      /\ scope_vector = <<0>>
  BY DEF Init
<1>3. /\ DOMAIN <<>> = {} /\ Len(<<>>) = 0 /\ Len(<<0>>) = 1
  BY EmptySeq, Singleton, LenProperties
<1>4. AtFile /\ ~InHeader /\ ~InBody /\ ~InTail
  BY <1>2, <1>3 DEF AtFile, InHeader, InBody, InTail
<1>5. Placed
  BY <1>2, <1>4 DEF Placed
<1>6. DOMAIN variables = {} /\ DOMAIN declarators = {} /\ DOMAIN functions = {}
  BY <1>2, <1>3
<1>7. \A n \in Names : Known(n) = {}
  BY <1>2, <1>3 DEF Known, ToSet
<1>8. Scoped /\ Distinct /\ Levels /\ UsesHaveStorage
  BY <1>6, <1>7 DEF Scoped, Distinct, Levels, UsesHaveStorage, Variables
<1>9. Placements
  BY <1>4, <1>6, <1>7 DEF Placements
<1>10. Registry
  BY <1>2, <1>3 DEF Registry, IsInjective, ToSet, Registered
<1>11. QED
  BY <1>1, <1>5, <1>8, <1>9, <1>10 DEF TableInv

LEMMA NextTable == TableInv /\ [Next]_vars => TableInv'
  BY StepTyped, StepPlaced, StepScoped, StepDistinct, StepPlacements, StepRegistry, StepLevels, StepStorage
  DEF TableInv

LEMMA TableInvariant == Spec => []TableInv
<1>1. Init => TableInv
  BY InitTable
<1>2. TableInv /\ [Next]_vars => TableInv'
  BY NextTable
<1>3. QED
  BY <1>1, <1>2, PTL DEF Spec

(* Whatever the table holds has the types the code gives it: no path is    *)
(* empty, no name leads to an object that was never made.                  *)
THEOREM TableTyped == Spec => []TypeOK
<1>1. TableInv => TypeOK
  <2> SUFFICES ASSUME TableInv PROVE TypeOK
    OBVIOUS
  <2>1. TypedScopes /\ TypedTable /\ TypedFunctions /\ TypedParser
    BY DEF TableInv, Typed
  <2>2. \A v \in Variables : variables[v].name \in Names /\ variables[v].path \in Seq(0 .. current_scope_id)
    BY <2>1, VariableTyped
  <2>3. ToSet(globalVariables) \subseteq Variables /\ ToSet(declarators) \subseteq Variables
    BY <2>1 DEF TypedTable, TypedParser, ToSet
  <2>4. QED
    BY <2>1, <2>2, <2>3 DEF TypeOK, TypedScopes, TypedTable, TypedFunctions, TypedParser
<1>2. QED
  BY <1>1, TableInvariant, PTL

(* The function being defined has a level of scope_esp of its own and one  *)
(* for each open block, every other function has none.                     *)
THEOREM EspCountsBlocks == Spec => []EspFollowsBlocks
<1>1. TableInv => EspFollowsBlocks
  <2> SUFFICES ASSUME TableInv PROVE EspFollowsBlocks
    OBVIOUS
  <2>1. TypedFunctions /\ TypedParser /\ Placed /\ Levels
    BY DEF TableInv, Typed
  <2> DEFINE blocks == {k \in DOMAIN productions : productions[k] = "block"}
  <2>2. ASSUME InBody PROVE 1 + Cardinality(blocks) = Len(productions)
    <3>1. /\ Len(productions) \in Nat /\ Len(productions) > 1 /\ DOMAIN productions = 1 .. Len(productions)
          /\ productions[1] = "header" /\ \A k \in 2 .. Len(productions) : productions[k] = "block"
      BY <2>1, <2>2, LenProperties DEF InBody, TypedParser
    <3>2. blocks = 2 .. Len(productions)
      <4>1. ASSUME NEW k \in 1 .. Len(productions) PROVE productions[k] = "block" <=> k \in 2 .. Len(productions)
        <5>1. CASE k = 1
          BY <3>1, <5>1
        <5>2. CASE k # 1
          BY <3>1, <5>2
        <5>3. QED
          BY <5>1, <5>2
      <4>2. QED
        BY <3>1, <4>1
    <3>3. Cardinality(2 .. Len(productions)) = Len(productions) - 2 + 1
      BY <3>1, FS_Interval
    <3>4. QED
      <4> HIDE DEF blocks
      <4> QED
        BY <3>1, <3>2, <3>3
  <2>3. ASSUME NEW f \in DOMAIN functions
        PROVE  functions[f].scope_esp = IF f = current_function THEN 1 + Cardinality(blocks) ELSE 0
    <3>1. f # None
      BY <2>1, LenProperties DEF TypedFunctions, None
    <3>2. f = current_function => InBody
      BY <2>1, <3>1 DEF Placed
    <3> HIDE DEF blocks
    <3>3. QED
      BY <2>1, <2>2, <3>2 DEF Levels
  <2>4. QED
    BY <2>3 DEF EspFollowsBlocks
<1>2. QED
  BY <1>1, TableInvariant, PTL

(* Every function is generated once and has exactly one body.              *)
THEOREM EveryFunctionHasOneBody == Spec => []OneBodyEach
<1>1. TableInv => OneBodyEach
  <2> SUFFICES ASSUME TableInv PROVE OneBodyEach
    OBVIOUS
  <2>1. Registry
    BY DEF TableInv
  <2>2. ASSUME NEW f \in FunctionNames, Registered(f)
        PROVE  functions[functionTable[f]].heads = IF f \in Generated THEN 1 ELSE 0
    <3>1. f \in ToSet(function_define_order_list)
      BY <2>1, <2>2 DEF Registry
    <3>2. f \in Generated <=> ~functions[functionTable[f]].has_declare
      BY <3>1 DEF Generated
    <3>3. QED
      BY <2>1, <2>2, <3>2 DEF Registry
  <2>3. QED
    BY <2>1, <2>2 DEF OneBodyEach, Registry
<1>2. QED
  BY <1>1, TableInvariant, PTL

(* Every variable that the code of a function uses is global, a parameter  *)
(* of the function, or declared in its code.                               *)
THEOREM EveryUseHasStorage == Spec => []UsesHaveStorage
<1>1. TableInv => UsesHaveStorage
  BY DEF TableInv
<1>2. QED
  BY <1>1, TableInvariant, PTL

(***************************************************************************)
(* The symbol table implements lexical scoping: its scope ids and paths,   *)
(* read as a stack of name tables, take no step that nested scopes would   *)
(* not take, and a use means what the nearest declaration says.            *)
(***************************************************************************)
-----------------------------------------------------------------------------
(* The stack of name tables that the objects and their paths stand for.    *)
Scopes == [k \in DOMAIN scope_vector |-> ScopeTable(k)]

(* The object of a name in the scope at level k, of those that are open.   *)
Here(n, k)  == {v \in Known(n) : Open(v) /\ Len(variables[v].path) = k}
Holds(n, k) == IF Here(n, k) = {} THEN None ELSE CHOOSE v \in Here(n, k) : TRUE

LEMMA SameInterval == \A m, n \in Nat : 1 .. m = 1 .. n => m = n
<1> SUFFICES ASSUME NEW m \in Nat, NEW n \in Nat, 1 .. m = 1 .. n PROVE m = n
  OBVIOUS
<1>1. m # 0 => m \in 1 .. n
  BY Z3
<1>2. n # 0 => n \in 1 .. m
  BY Z3
<1>3. QED
  BY <1>1, <1>2

(* An object is open at its level exactly when its path is the scope's.    *)
LEMMA PathOfLevel ==
    ASSUME TableInv, NEW v \in Variables, NEW k \in 1 .. Len(scope_vector)
    PROVE  variables[v].path = SubSeq(scope_vector, 1, k) <=> Open(v) /\ Len(variables[v].path) = k
<1>0. TypedScopes /\ Scoped
  BY DEF TableInv, Typed
<1>1. /\ variables[v].path \in Seq(0 .. current_scope_id) /\ Len(variables[v].path) \in Nat \ {0}
      /\ scope_vector \in Seq(0 .. current_scope_id) /\ Len(scope_vector) \in Nat
  BY <1>0, VariableTyped, LenProperties DEF TypedScopes
<1> DEFINE path == variables[v].path
           up   == SubSeq(scope_vector, 1, k)
<1>2. up \in Seq(0 .. current_scope_id) /\ Len(up) = k /\ \A j \in 1 .. k : up[j] = scope_vector[j]
  <2>1. \A i \in 1 .. k : scope_vector[i] \in 0 .. current_scope_id
    <3>1. \A i \in 1 .. k : i \in 1 .. Len(scope_vector)
      BY <1>1
    <3>2. QED
      BY <1>1, <3>1, ElementOfSeq
  <2>2. k \in Int /\ 1 \in Int /\ 1 <= k /\ k - 1 + 1 = k /\ \A j \in 1 .. k : 1 + j - 1 = j
    BY <1>1
  <2>3. /\ up \in Seq(0 .. current_scope_id) /\ Len(up) = k - 1 + 1
        /\ \A j \in 1 .. k - 1 + 1 : up[j] = scope_vector[1 + j - 1]
    BY <2>1, <2>2, SubSeqProperties
  <2>4. QED
    <3> HIDE DEF up
    <3> QED
      BY <2>2, <2>3
<1>3. ASSUME path = up PROVE Open(v) /\ Len(path) = k
  <2>1. Len(path) = k /\ path[k] = scope_vector[k] /\ k <= Len(scope_vector)
    <3> HIDE DEF path, up
    <3> QED
      BY <1>1, <1>2, <1>3
  <2>2. QED
    BY <2>1 DEF Open
<1>4. ASSUME Open(v), Len(path) = k PROVE path = up
  <2>1. k <= Len(scope_vector) /\ scope_vector[k] = path[k] /\ k \in 1 .. Len(path)
    BY <1>1, <1>4 DEF Open
  <2>2. \A j \in 1 .. k : scope_vector[j] = path[j]
    BY <1>0, <2>1 DEF Scoped
  <2>3. path \in Seq(0 .. current_scope_id)
    BY <1>1
  <2> HIDE DEF path, up
  <2>4. QED
    BY <1>2, <1>4, <2>2, <2>3, SeqEqual
<1>5. QED
  BY <1>3, <1>4

(* One object at most is open at a level under one name, and it is what    *)
(* the level's table holds.                                                *)
LEMMA HoldsFacts ==
    ASSUME TableInv, NEW n \in Names, NEW k \in 1 .. Len(scope_vector)
    PROVE  /\ Here(n, k) \subseteq Variables
           /\ \A v \in Here(n, k) : Holds(n, k) = v
           /\ Here(n, k) = {} => Holds(n, k) = None
           /\ Holds(n, k) \in Int
           /\ Holds(n, k) = None <=> Here(n, k) = {}
           /\ ScopeTable(k)[n] = Holds(n, k)
<1>0. Typed /\ TypedScopes /\ TypedTable /\ Distinct
  BY DEF TableInv, Typed
<1>1. Known(n) \subseteq Variables
  BY <1>0, KnownTyped
<1>2. Here(n, k) = {v \in Known(n) : variables[v].path = SubSeq(scope_vector, 1, k)}
  <2>1. \A v \in Known(n) : variables[v].path = SubSeq(scope_vector, 1, k)
                                <=> Open(v) /\ Len(variables[v].path) = k
    BY <1>1, PathOfLevel
  <2>2. QED
    BY <2>1 DEF Here
<1>3. \A v, w \in Here(n, k) : v = w
  <2>1. \A v, w \in Here(n, k) : v \in Known(n) /\ w \in Known(n) /\ variables[v].path = variables[w].path
    BY <1>2
  <2>2. QED
    BY <1>0, <2>1 DEF Distinct
<1>4. \A v \in Here(n, k) : Holds(n, k) = v
  BY <1>3 DEF Holds
<1>5. Here(n, k) = {} => Holds(n, k) = None
  BY DEF Holds
<1>6. Variables \subseteq Nat \ {0}
  BY <1>0, LenProperties DEF TypedScopes, Variables
<1>7. Here(n, k) \subseteq Variables
  BY <1>1 DEF Here
<1>8. Holds(n, k) \in Int /\ (Holds(n, k) = None <=> Here(n, k) = {})
  <2>1. CASE Here(n, k) = {}
    BY <1>5, <2>1 DEF None
  <2>2. ASSUME NEW v \in Here(n, k) PROVE Holds(n, k) \in Int /\ Holds(n, k) # None
    <3>1. Holds(n, k) = v /\ v \in Nat \ {0}
      BY <1>4, <1>6, <1>7
    <3>2. QED
      BY <3>1 DEF None
  <2>3. QED
    BY <2>1, <2>2
<1>9. ScopeTable(k)[n] = Holds(n, k)
  BY <1>2 DEF ScopeTable, Holds, Known
<1>10. QED
  BY <1>4, <1>5, <1>7, <1>8, <1>9

Tables == [Names -> Int]

Agrees ==
    /\ Len(scope_vector) \in Nat \ {0}
    /\ Scopes \in Seq(Tables) /\ Len(Scopes) = Len(scope_vector) /\ DOMAIN Scopes = 1 .. Len(scope_vector)
    /\ \A k \in 1 .. Len(scope_vector) :
          Scopes[k] \in Tables /\ \A n \in Names : Scopes[k][n] = Holds(n, k)

LEMMA ScopesTyped == TableInv => Agrees
<1> SUFFICES ASSUME TableInv PROVE Agrees
  OBVIOUS
<1>1. /\ Len(scope_vector) \in Nat \ {0} /\ DOMAIN scope_vector = 1 .. Len(scope_vector)
  BY LenProperties, EmptySeq DEF TableInv, Typed, TypedScopes
<1>2. \A k \in 1 .. Len(scope_vector) : Scopes[k] = ScopeTable(k)
  BY <1>1 DEF Scopes
<1>3. \A k \in 1 .. Len(scope_vector) : \A n \in Names :
          Scopes[k][n] = Holds(n, k) /\ Holds(n, k) \in Int
  BY <1>2, HoldsFacts
<1>4. \A k \in 1 .. Len(scope_vector) : Scopes[k] \in Tables
  <2>1. \A k \in 1 .. Len(scope_vector) : Scopes[k] = [n \in Names |-> Scopes[k][n]]
    BY <1>2 DEF ScopeTable
  <2>2. QED
    BY <1>3, <2>1 DEF Tables
<1>5. Scopes \in [1 .. Len(scope_vector) -> Tables]
  <2>1. Scopes = [k \in 1 .. Len(scope_vector) |-> ScopeTable(k)]
    BY <1>1 DEF Scopes
  <2>2. \A k \in 1 .. Len(scope_vector) : ScopeTable(k) \in Tables
    BY <1>2, <1>4
  <2>3. QED
    BY <2>1, <2>2
<1>6. Scopes \in Seq(Tables)
  BY <1>1, <1>5, SeqDef
<1>7. Len(Scopes) = Len(scope_vector)
  <2>1. DOMAIN Scopes = 1 .. Len(Scopes) /\ Len(Scopes) \in Nat
    BY <1>6, LenProperties
  <2>2. QED
    BY <1>1, <1>5, <2>1, SameInterval
<1>8. QED
  BY <1>1, <1>3, <1>4, <1>5, <1>6, <1>7 DEF Agrees

LEMMA ScopesTypedNext == TableInv' => Agrees'
  BY ScopesTyped, PTL

-----------------------------------------------------------------------------
(* The steps.                                                              *)
(* What is open under a name is what is held at some level.                *)
LEMMA StayingOpen ==
    ASSUME NEW n \in Names, NEW k, Known(n)' = Known(n),
           \A v \in Known(n) :
              variables'[v] = variables[v] /\ (Len(variables[v].path) = k => Open(v)' = Open(v))
    PROVE  Here(n, k)' = Here(n, k) /\ Holds(n, k)' = Holds(n, k)
<1>1. Here(n, k)' = Here(n, k)
  BY DEF Here
<1>2. QED
  BY <1>1 DEF Holds

(* No table changes while no object is registered and no scope entered or  *)
(* left.                                                                   *)
LEMMA ScopesStay ==
    ASSUME TableInv, TableInv', UNCHANGED scope_vector,
           \A n \in Names : Known(n)' = Known(n),
           \A n \in Names : \A v \in Known(n) : variables'[v] = variables[v]
    PROVE  UNCHANGED Scopes
<1>1. Agrees /\ Agrees'
  BY ScopesTyped, ScopesTypedNext
<1>2. \A n \in Names : \A v \in Known(n) : Open(v)' = Open(v)
  BY DEF Open
<1>3. \A n \in Names : \A k \in 1 .. Len(scope_vector) : Holds(n, k)' = Holds(n, k)
  BY <1>2, StayingOpen
<1>4. \A k \in 1 .. Len(scope_vector) : Scopes'[k] = Scopes[k]
  BY <1>1, <1>3 DEF Agrees, Tables
<1>5. QED
  BY <1>1, <1>4, SeqEqual DEF Agrees

LEMMA ScopesOpen ==
    ASSUME TableInv, TableInv', enter_new_scope, UNCHANGED tableVars
    PROVE  Scopes' = Append(Scopes, Lexical!EmptyScope)
<1>1. Agrees /\ Agrees'
  BY ScopesTyped, ScopesTypedNext
<1>2. TypedScopes /\ TypedTable
  BY DEF TableInv, Typed
<1>3. /\ Len(scope_vector) \in Nat /\ Len(scope_vector') = Len(scope_vector) + 1
      /\ \A k \in 1 .. Len(scope_vector) : scope_vector'[k] = scope_vector[k]
  BY <1>2, EnterScope DEF tableVars
<1>4. ASSUME NEW n \in Names
      PROVE  /\ Known(n)' = Known(n) /\ variables' = variables
             /\ \A v \in Known(n) : v \in Variables /\ Len(variables[v].path) \in Nat \ {0}
  <2>1. Known(n) \subseteq Variables
    BY <1>2, KnownTyped
  <2>2. QED
    BY <1>2, <2>1, VariableTyped DEF Known, tableVars
<1>5. ASSUME NEW k \in 1 .. Len(scope_vector), NEW n \in Names
      PROVE  Holds(n, k)' = Holds(n, k)
  <2>1. \A v \in Known(n) : Len(variables[v].path) = k => Open(v)' = Open(v)
    <3>1. k <= Len(scope_vector) /\ k <= Len(scope_vector') /\ scope_vector'[k] = scope_vector[k]
      BY <1>3
    <3>2. QED
      BY <1>4, <3>1 DEF Open
  <2>2. QED
    BY <1>4, <2>1, StayingOpen
<1>6. ASSUME NEW n \in Names, NEW k, k = Len(scope_vector') PROVE Holds(n, k)' = None
  <2>1. \A v \in Variables : Open(v)' => Len(variables[v].path) <= Len(scope_vector)
    BY <1>2, NothingOpens DEF tableVars
  <2>2. \A v \in Known(n)' : Open(v)' => Len(variables'[v].path) # k
    BY <1>3, <1>4, <1>6, <2>1
  <2>3. Here(n, k)' = {}
    BY <2>2 DEF Here
  <2>4. QED
    BY <2>3 DEF Holds
<1> DEFINE new == Append(Scopes, Lexical!EmptyScope)
<1>7. Lexical!EmptyScope = [n \in Names |-> None]
  BY DEF Lexical!EmptyScope, Lexical!Undeclared, None
<1>8. /\ new \in Seq(Tables) /\ Len(new) = Len(Scopes) + 1
      /\ \A k \in 1 .. Len(Scopes) : new[k] = Scopes[k]
      /\ new[Len(Scopes) + 1] = [n \in Names |-> None]
  <2>1. Lexical!EmptyScope \in Tables
    BY <1>7 DEF Tables, None
  <2> DEFINE empty == Lexical!EmptyScope
             old   == Scopes
  <2>2. old \in Seq(Tables) /\ empty \in Tables
    BY <1>1, <2>1 DEF Agrees
  <2>3. new = Append(old, empty) /\ empty = [n \in Names |-> None]
    BY <1>7
  <2> HIDE DEF new, old, empty
  <2>4. /\ new \in Seq(Tables) /\ Len(new) = Len(old) + 1
        /\ \A k \in 1 .. Len(old) : new[k] = old[k]
        /\ new[Len(old) + 1] = empty
    BY ONLY <2>2, <2>3, AppendProperties
  <2>5. QED
    BY <2>3, <2>4 DEF old
<1>9. \A k \in 1 .. Len(scope_vector) : Scopes'[k] = new[k]
  <2>1. ASSUME NEW k \in 1 .. Len(scope_vector) PROVE Scopes'[k] = Scopes[k]
    <3>1. k \in 1 .. Len(scope_vector')
      BY <1>3
    <3>2. QED
      BY <1>1, <1>5, <3>1 DEF Agrees, Tables
  <2> HIDE DEF new
  <2>2. QED
    BY <1>1, <1>8, <2>1 DEF Agrees
<1>10. ASSUME NEW k, k = Len(scope_vector') PROVE Scopes'[k] = [n \in Names |-> None]
  <2>1. k \in 1 .. Len(scope_vector')
    BY <1>3, <1>10
  <2>2. Scopes'[k] \in Tables /\ \A n \in Names : Scopes'[k][n] = None
    BY <1>1, <1>6, <1>10, <2>1 DEF Agrees
  <2>3. QED
    BY <2>2 DEF Tables
<1>11. QED
  <2> HIDE DEF new
  <2>1. \A k \in 1 .. Len(Scopes') : Scopes'[k] = new[k]
    BY <1>1, <1>3, <1>8, <1>9, <1>10 DEF Agrees
  <2>2. Len(Scopes') = Len(new)
    BY <1>1, <1>3, <1>8 DEF Agrees
  <2>3. Scopes' = new
    BY <1>1, <1>8, <2>1, <2>2, SeqEqual DEF Agrees
  <2>4. QED
    BY <2>3 DEF new

LEMMA ScopesClose ==
    ASSUME TableInv, TableInv', exit_current_scope, Len(scope_vector) > 1, UNCHANGED tableVars
    PROVE  Scopes' = SubSeq(Scopes, 1, Len(Scopes) - 1)
<1>1. Agrees /\ Agrees'
  BY ScopesTyped, ScopesTypedNext
<1>2. TypedScopes /\ TypedTable
  BY DEF TableInv, Typed
<1>3. /\ Len(scope_vector) \in Nat /\ Len(scope_vector') = Len(scope_vector) - 1
      /\ \A k \in 1 .. Len(scope_vector) - 1 : scope_vector'[k] = scope_vector[k]
  BY <1>2, ExitScope DEF tableVars
<1>4. ASSUME NEW k \in 1 .. Len(scope_vector'), NEW n \in Names
      PROVE  Holds(n, k)' = Holds(n, k)
  <2>1. k <= Len(scope_vector) /\ k <= Len(scope_vector') /\ scope_vector'[k] = scope_vector[k]
    BY <1>3
  <2>2. Known(n)' = Known(n) /\ variables' = variables
    BY DEF Known, tableVars
  <2>3. \A v \in Known(n) : Len(variables[v].path) = k => Open(v)' = Open(v)
    BY <2>1, <2>2 DEF Open
  <2>4. QED
    BY <2>2, <2>3, StayingOpen
<1>5. ASSUME NEW k \in 1 .. Len(scope_vector') PROVE Scopes'[k] = Scopes[k]
  <2>1. k \in 1 .. Len(scope_vector)
    BY <1>3
  <2>2. QED
    BY <1>1, <1>4, <2>1 DEF Agrees, Tables
<1> DEFINE outer == SubSeq(Scopes, 1, Len(Scopes) - 1)
<1>6. Scopes \in Seq(Tables) /\ Scopes # <<>>
  <2>1. Scopes \in Seq(Tables) /\ Len(Scopes) > 1
    BY <1>1 DEF Agrees
  <2>2. QED
    BY <2>1, EmptySeq
<1>7. /\ outer \in Seq(Tables) /\ Len(outer) = Len(Scopes) - 1
      /\ \A k \in 1 .. Len(Scopes) - 1 : outer[k] = Scopes[k]
  BY <1>6, FrontFacts DEF Front
<1>8. Scopes' = outer
  <2> HIDE DEF outer
  <2>1. Len(Scopes') = Len(outer) /\ \A k \in 1 .. Len(Scopes') : Scopes'[k] = outer[k]
    BY <1>1, <1>3, <1>5, <1>7 DEF Agrees
  <2>2. QED
    BY <1>1, <1>7, <2>1, SeqEqual DEF Agrees
<1>9. QED
  BY <1>8

(* Registering an object of the open scope fills its name's empty place in *)
(* the innermost table, and touches no other.                              *)
LEMMA ScopesDeclare ==
    ASSUME TableInv, TableInv', UNCHANGED <<scope_vector, found>>,
           NEW v \in Variables', add_variable(v), variables'[v].name \in Names,
           variables'[v].path = scope_vector,
           Variables \subseteq Variables', \A w \in Variables : variables'[w] = variables[w],
           \A m \in Names : v \notin Known(m)
    PROVE  UNCHANGED Scopes \/ \E n \in Names, d \in 1 .. MaxVariables : Lexical!DeclareName(n, d)
<1> DEFINE n == variables'[v].name
           top == Len(scope_vector)
<1>1. Agrees /\ Agrees' /\ Typed /\ TypedScopes /\ TypedTable /\ TypedScopes'
  BY ScopesTyped, ScopesTypedNext DEF TableInv, Typed
<1>2. \A m \in Names : Known(m) \subseteq Variables /\ \A w \in Known(m) : variables'[w] = variables[w]
  BY <1>1, KnownTyped
<1>3. \A m \in Names : Known(m)' = IF m = n /\ ~Taken(v) THEN Known(m) \cup {v} ELSE Known(m)
  BY <1>1, AddFacts
<1>4. CASE Taken(v)
  <2>1. \A m \in Names : Known(m)' = Known(m)
    BY <1>3, <1>4
  <2>2. QED
    BY <1>2, <2>1, ScopesStay
<1>5. CASE ~Taken(v)
  <2>1. top \in 1 .. Len(scope_vector) /\ top \in Nat \ {0}
    BY <1>1 DEF Agrees
  <2>2. Here(n, top) = {}
    <3>1. ASSUME NEW w \in Known(n), Open(w), Len(variables[w].path) = top PROVE FALSE
      <4>1. Last(variables'[w].path) = Last(variables'[v].path)
        BY <1>2, <3>1 DEF Open, Last
      <4>2. QED
        BY <1>5, <3>1, <4>1 DEF Taken, Known
    <3> HIDE DEF n, top
    <3>2. QED
      BY <3>1 DEF Here
  <2>3. Scopes[top][n] = None /\ n \in Names
    BY <1>1, <2>1, <2>2, HoldsFacts DEF Agrees
  <2>4. \A k \in DOMAIN Scopes, m \in Names : Scopes[k][m] # v
    <3>1. ASSUME NEW k \in 1 .. Len(scope_vector), NEW m \in Names PROVE Holds(m, k) # v
      <4>1. v # None
        BY <1>1, LenProperties DEF TypedScopes, Variables, None
      <4>2. Here(m, k) \subseteq Known(m)
        BY DEF Here
      <4>3. QED
        BY <4>1, <4>2, HoldsFacts
    <3>2. QED
      BY <1>1, <3>1 DEF Agrees
  <2>5. \A w : Open(w) /\ w \in Variables => Open(w)'
    BY DEF Open
  <2>6. ASSUME NEW m \in Names, NEW k \in 1 .. Len(scope_vector)
        PROVE  Holds(m, k)' = IF m = n /\ k = top THEN v ELSE Holds(m, k)
    <3>1. \A w \in Known(m) : Open(w)' = Open(w)
      BY <1>2 DEF Open
    <3>2. Len(variables'[v].path) = top /\ Open(v)'
      BY <2>1 DEF Open
    <3>3. CASE ~(m = n /\ k = top)
      <4>1. Here(m, k)' = Here(m, k)
        <5> HIDE DEF n, top
        <5> QED
          BY <1>2, <1>3, <3>1, <3>2, <3>3 DEF Here
      <4>2. QED
        BY <3>3, <4>1 DEF Holds
    <3>4. CASE m = n /\ k = top
      <4>1. Here(m, k)' = {v}
        <5>1. Known(m)' = Known(m) \cup {v}
          BY <1>3, <1>5, <3>4
        <5>2. \A w \in Known(m) : ~(Open(w) /\ Len(variables[w].path) = k)
          BY <2>2, <3>4 DEF Here
        <5> HIDE DEF n, top
        <5>3. QED
          BY <1>2, <3>1, <3>2, <3>4, <5>1, <5>2 DEF Here
      <4>2. QED
        BY <3>4, <4>1 DEF Holds
    <3>5. QED
      BY <3>3, <3>4
  <2> DEFINE new == [Scopes EXCEPT ![top][n] = v]
  <2>7. v \in Int /\ v \in 1 .. MaxVariables
    BY <1>1, LenProperties, BoundsAssumption DEF TypedScopes, Variables
  <2>8. /\ new \in Seq(Tables) /\ Len(new) = Len(Scopes)
        /\ \A k \in 1 .. Len(Scopes) : new[k] = IF k = top THEN [Scopes[top] EXCEPT ![n] = v] ELSE Scopes[k]
    <3> DEFINE table == [Scopes[top] EXCEPT ![n] = v]
    <3>1. table \in Tables
      BY <1>1, <2>1, <2>3, <2>7 DEF Agrees, Tables
    <3>2. new = [Scopes EXCEPT ![top] = table]
      OBVIOUS
    <3> HIDE DEF table
    <3>3. QED
      BY <1>1, <2>1, <3>1, <3>2, ExceptSeq DEF Agrees, table
  <2>9. ASSUME NEW k \in 1 .. Len(scope_vector) PROVE Scopes'[k] = new[k]
    <3>1. \A m \in Names : Scopes'[k][m] = IF m = n /\ k = top THEN v ELSE Scopes[k][m]
      <4>1. \A m \in Names : Scopes'[k][m] = Holds(m, k)' /\ Scopes[k][m] = Holds(m, k)
        BY <1>1 DEF Agrees
      <4> HIDE DEF n, top, new
      <4>2. QED
        BY <2>6, <4>1
    <3>2. new[k] = IF k = top THEN [Scopes[top] EXCEPT ![n] = v] ELSE Scopes[k]
      BY <1>1, <2>8 DEF Agrees
    <3>3. Scopes'[k] \in Tables /\ Scopes[k] \in Tables
      BY <1>1 DEF Agrees
    <3> HIDE DEF new
    <3>4. QED
      BY <2>3, <3>1, <3>2, <3>3 DEF Tables
  <2>10. Scopes' = new
    <3> HIDE DEF new
    <3>1. Len(Scopes') = Len(new) /\ \A k \in 1 .. Len(Scopes') : Scopes'[k] = new[k]
      BY <1>1, <2>8, <2>9 DEF Agrees
    <3>2. QED
      BY <1>1, <2>8, <3>1, SeqEqual DEF Agrees
  <2>11. Lexical!DeclareName(n, v)
    <3>1. Len(Scopes) = top
      BY <1>1 DEF Agrees
    <3>2. QED
      BY <2>3, <2>4, <2>10, <3>1
      DEF Lexical!DeclareName, Lexical!Innermost, Lexical!Undeclared, Scopes, None
  <2>12. QED
    BY <2>3, <2>7, <2>11
<1>6. QED
  BY <1>4, <1>5
(* A use means what the nearest of the tables holds.                       *)
LEMMA UseIsNearest ==
    ASSUME TableInv, NEW n \in Names
    PROVE  get_variable(n) = Lexical!Nearest(n)
<1> DEFINE having == {k \in DOMAIN Scopes : Scopes[k][n] # None}
<1>1. Agrees /\ TypedScopes /\ TypedTable
  BY ScopesTyped DEF TableInv, Typed
<1>2. Lexical!Nearest(n) = IF having = {} THEN None
                           ELSE Scopes[CHOOSE k \in having : \A j \in having : j <= k][n]
  BY DEF Lexical!Nearest, Lexical!Undeclared, Scopes, None
<1>3. having = {k \in 1 .. Len(scope_vector) : Here(n, k) # {}}
  <2>1. \A k \in 1 .. Len(scope_vector) : Scopes[k][n] # None <=> Here(n, k) # {}
    BY <1>1, HoldsFacts DEF Agrees
  <2>2. QED
    BY <1>1, <2>1 DEF Agrees
<1>4. ASSUME NEW w \in Meanings(n)
      PROVE  LET k == Len(variables[w].path) IN k \in having /\ w \in Here(n, k)
  <2>1. w \in Known(n) /\ w \in Variables /\ Open(w)
    BY <1>1, KnownTyped DEF Meanings
  <2>2. Len(variables[w].path) \in Nat \ {0} /\ Len(scope_vector) \in Nat
    BY <1>1, <2>1, VariableTyped DEF Agrees
  <2>3. Len(variables[w].path) \in 1 .. Len(scope_vector)
    BY <2>1, <2>2 DEF Open
  <2>4. w \in Here(n, Len(variables[w].path))
    BY <2>1 DEF Here
  <2>5. QED
    <3> HIDE DEF having
    <3> QED
      BY <1>3, <2>3, <2>4
<1>5. CASE get_variable(n) = None /\ Meanings(n) = {}
  <2>1. having = {}
    <3>1. \A k : Here(n, k) \subseteq Meanings(n)
      BY DEF Here, Meanings
    <3> HIDE DEF having
    <3>2. QED
      BY <1>3, <1>5, <3>1
  <2>2. QED
    BY <1>2, <1>5, <2>1
<1>6. CASE /\ get_variable(n) \in Meanings(n)
           /\ \A w \in Meanings(n) : Len(variables[w].path) <= Len(variables[get_variable(n)].path)
  <2> DEFINE g == get_variable(n)
             deepest == Len(variables[g].path)
  <2>1. deepest \in having /\ g \in Here(n, deepest)
    BY <1>4, <1>6
  <2>2. \A j \in having : j <= deepest
    <3>1. ASSUME NEW j \in having PROVE \E w \in Meanings(n) : Len(variables[w].path) = j
      <4>1. PICK w : w \in Here(n, j)
        <5> HIDE DEF having
        <5> QED
          BY <1>3
      <4>2. QED
        BY <4>1 DEF Here, Meanings
    <3> HIDE DEF having, g
    <3>2. QED
      BY <1>6, <3>1 DEF g
  <2>3. having \subseteq Nat
    <3> HIDE DEF having
    <3> QED
      BY <1>3
  <2> HIDE DEF having, deepest, g
  <2>4. deepest = CHOOSE k \in having : \A j \in having : j <= k
    <3>1. \A k \in having : (\A j \in having : j <= k) => k = deepest
      BY <2>1, <2>2, <2>3
    <3>2. QED
      BY <2>1, <2>2, <3>1
  <2>5. Scopes[deepest][n] = g
    <3>1. deepest \in 1 .. Len(scope_vector)
      BY <1>3, <2>1
    <3>2. Scopes[deepest][n] = Holds(n, deepest)
      BY <1>1, <3>1 DEF Agrees
    <3>3. QED
      BY <2>1, <3>1, <3>2, HoldsFacts
  <2>6. QED
    BY <1>2, <2>1, <2>4, <2>5 DEF g
<1>7. QED
  BY <1>1, <1>5, <1>6, MeaningFacts

-----------------------------------------------------------------------------
LEMMA InitLexical == Init => Lexical!Init
<1> SUFFICES ASSUME Init PROVE Lexical!Init
  OBVIOUS
<1>1. Agrees
  BY InitTable, ScopesTyped
<1>2. scope_vector = <<0>> /\ Len(scope_vector) = 1
  BY Singleton DEF Init
<1>3. \A n \in Names : Holds(n, 1) = None
  <2>1. \A n \in Names : variableTable[n] = <<>>
    BY DEF Init
  <2>2. DOMAIN <<>> = {}
    BY EmptySeq, LenProperties
  <2>3. \A n \in Names : Known(n) = {}
    BY <2>1, <2>2 DEF Known, ToSet
  <2>4. QED
    BY <2>3 DEF Holds, Here
<1>4. Scopes[1] = [n \in Names |-> None]
  <2>1. 1 \in 1 .. Len(scope_vector)
    BY <1>2
  <2>2. Scopes[1] \in Tables /\ \A n \in Names : Scopes[1][n] = None
    BY <1>1, <1>3, <2>1 DEF Agrees
  <2>3. QED
    BY <2>2 DEF Tables
<1>5. Scopes = <<Scopes[1]>>
  <2>1. Scopes \in Seq(Tables) /\ Len(Scopes) = 1 /\ Scopes[1] \in Tables
    BY <1>1, <1>2 DEF Agrees
  <2> DEFINE table == Scopes[1]
             only  == <<table>>
  <2>2. only \in Seq(Tables) /\ Len(only) = 1 /\ only[1] = table
    <3> HIDE DEF table
    <3> QED
      BY <2>1, Singleton DEF table
  <2>3. QED
    <3> HIDE DEF only
    <3>1. \A k \in 1 .. Len(Scopes) : Scopes[k] = only[k]
      BY <2>1, <2>2
    <3>2. Scopes = only
      BY <2>1, <2>2, <3>1, SeqEqual
    <3>3. QED
      BY <3>2 DEF only
<1>6. found = 0
  BY DEF Init, None
<1>7. QED
  BY <1>4, <1>5, <1>6 DEF Lexical!Init, Lexical!EmptyScope, Lexical!Undeclared, Scopes, None

LEMMA StepLexical == TableInv /\ TableInv' /\ [Next]_vars => [Lexical!Next]_(Lexical!scopeVars)
<1> SUFFICES ASSUME TableInv, TableInv', [Next]_vars
             PROVE  \/ Lexical!OpenScope \/ Lexical!CloseScope
                    \/ \E n \in Names : Lexical!UseName(n)
                    \/ \E n \in Names, d \in 1 .. MaxVariables : Lexical!DeclareName(n, d)
                    \/ UNCHANGED <<Scopes, found>>
  BY DEF Lexical!Next, Lexical!scopeVars, Scopes
<1>0. /\ Typed /\ TypedScopes /\ TypedTable /\ TypedParser /\ Placed /\ Scoped /\ Distinct
      /\ Agrees /\ \A n \in Names : Known(n) \subseteq Variables
  BY ScopesTyped, KnownTyped DEF TableInv, Typed
<1>s. ASSUME UNCHANGED <<variables, variableTable, scope_vector>> PROVE UNCHANGED Scopes
  BY <1>s, ScopesStay DEF Known
<1>o. ASSUME enter_new_scope, UNCHANGED tableVars, UNCHANGED found PROVE Lexical!OpenScope
  BY <1>o, ScopesOpen DEF Lexical!OpenScope, Scopes
<1>c. ASSUME exit_current_scope, Len(scope_vector) > 1, UNCHANGED tableVars, UNCHANGED found
      PROVE  Lexical!CloseScope
  <2>1. Len(Scopes) > 1
    BY <1>0, <1>c DEF Agrees
  <2>2. QED
    BY <1>c, <2>1, ScopesClose DEF Lexical!CloseScope, Scopes
<1>1. ASSUME NEW n \in Names, value_definition(n) PROVE UNCHANGED <<Scopes, found>>
  <2>1. /\ \A v \in Variables : variables'[v] = variables[v]
        /\ UNCHANGED <<variableTable, scope_vector, found>>
    BY <1>0, <1>1, NewVariableTyped DEF value_definition, scopeVars
  <2>2. \A m \in Names : Known(m)' = Known(m)
    BY <2>1 DEF Known
  <2>3. QED
    BY <1>0, <2>1, <2>2, ScopesStay
<1>2. ASSUME NEW n \in Names, id_extend(n) PROVE Lexical!UseName(n)
  <2>1. UNCHANGED Scopes /\ found' = get_variable(n)
    BY <1>2, <1>s DEF id_extend, tableVars, scopeVars
  <2>2. QED
    BY <2>1, UseIsNearest DEF Lexical!UseName, Scopes
<1>3. ASSUME NEW n \in Names, parameter(n)
      PROVE  \/ UNCHANGED <<Scopes, found>>
             \/ \E m \in Names, d \in 1 .. MaxVariables : Lexical!DeclareName(m, d)
  <2> DEFINE new == Len(variables) + 1
  <2>1. NewVariable(n) /\ UNCHANGED scopeVars /\ add_variable(new) /\ UNCHANGED <<scope_vector, found>>
    BY <1>3 DEF parameter, scopeVars
  <2>2. /\ Variables \subseteq Variables' /\ new \in Variables' /\ new \notin Variables
        /\ \A v \in Variables : variables'[v] = variables[v]
        /\ variables'[new].name = n /\ variables'[new].path = scope_vector
    BY <1>0, <2>1, NewVariableTyped
  <2> HIDE DEF new
  <2>3. \A m \in Names : new \notin Known(m)
    BY <1>0, <2>2
  <2>4. UNCHANGED Scopes \/ \E m \in Names, d \in 1 .. MaxVariables : Lexical!DeclareName(m, d)
    BY <2>1, <2>2, <2>3, ScopesDeclare
  <2>5. QED
    BY <2>1, <2>4
<1>4. ASSUME NEW f \in FunctionNames, function_definition(f) PROVE Lexical!OpenScope
  BY <1>4, <1>o DEF function_definition
<1>5. ASSUME define_list_end PROVE UNCHANGED <<Scopes, found>>
  BY <1>5, <1>s DEF define_list_end, tableVars, scopeVars
<1>6. ASSUME define_list_returns
      PROVE  \/ UNCHANGED <<Scopes, found>>
             \/ \E m \in Names, d \in 1 .. MaxVariables : Lexical!DeclareName(m, d)
  <2> DEFINE v == Last(declarators)
  <2>1. declarators # <<>>
    BY <1>0, <1>6 DEF Placed, define_list_returns
  <2>2. v \in Variables /\ v = declarators[Len(declarators)] /\ Len(declarators) \in DOMAIN declarators
    BY <1>0, <1>6, <2>1, FrontFacts, LenProperties, EmptySeq DEF define_list_returns, TypedParser
  <2>3. /\ variables' = variables /\ Variables' = Variables /\ add_variable(v)
        /\ UNCHANGED <<scope_vector, found>>
    BY <1>6 DEF define_list_returns, Variables, scopeVars
  <2> HIDE DEF v
  <2>4. variables[v].name \in Names /\ variables[v].path = scope_vector /\ \A m \in Names : v \notin Known(m)
    BY <1>0, <2>2, VariableTyped DEF Scoped, Distinct
  <2>5. UNCHANGED Scopes \/ \E m \in Names, d \in 1 .. MaxVariables : Lexical!DeclareName(m, d)
    BY <2>2, <2>3, <2>4, ScopesDeclare
  <2>6. QED
    BY <2>3, <2>5
<1>7. ASSUME prototype PROVE Lexical!CloseScope
  <2>1. InHeader
    BY <1>0, <1>7, Stages DEF prototype
  <2>2. QED
    BY <1>7, <1>c, <2>1 DEF prototype, InHeader
<1>8. ASSUME function_body PROVE Lexical!OpenScope
  BY <1>8, <1>o DEF function_body
<1>9. ASSUME block PROVE Lexical!OpenScope
  BY <1>9, <1>o DEF block
<1>10. ASSUME block_end \/ body_end PROVE Lexical!CloseScope
  <2>1. InBody /\ Len(productions) > 1
    BY <1>0, <1>10, Stages DEF block_end, body_end
  <2>2. Len(scope_vector) > 1
    BY <1>0, <2>1, Stages DEF InBody
  <2>3. QED
    BY <1>10, <1>c, <2>2 DEF block_end, body_end
<1>11. ASSUME function_end PROVE Lexical!CloseScope
  <2>1. InTail
    BY <1>0, <1>11, Stages DEF function_end
  <2>2. QED
    BY <1>11, <1>c, <2>1 DEF function_end, InTail
<1>12. ASSUME UNCHANGED vars PROVE UNCHANGED <<Scopes, found>>
  BY <1>12, <1>s DEF vars, tableVars, scopeVars
<1>13. QED
  BY <1>1, <1>2, <1>3, <1>4, <1>5, <1>6, <1>7, <1>8, <1>9, <1>10, <1>11, <1>12 DEF Next

(* Names mean what nested scopes make them mean: every behaviour of the    *)
(* symbol table, with its scope ids, paths and late registration, is one   *)
(* of the stack of name tables.                                            *)
THEOREM NamesAreLexical == Spec => ScopesAreLexical
<1>1. Init => Lexical!Init
  BY InitLexical
<1>2. TableInv /\ TableInv' /\ [Next]_vars => [Lexical!Next]_(Lexical!scopeVars)
  BY StepLexical
<1>3. QED
  BY <1>1, <1>2, TableInvariant, PTL DEF Spec, ScopesAreLexical, Lexical!Spec
==============================================================================
