----------------------------- MODULE SymbolTable -----------------------------
(***************************************************************************)
(* The symbol table (symbols/symbol_table.cpp) as the parser drives it     *)
(* while it reads one source file: scopes, variables, functions, and the   *)
(* instructions that declare variables, dispatched to the function the     *)
(* parser is inside of.                                                    *)
(*                                                                         *)
(* Variables and functions are heap objects; an object is its position in  *)
(* the order of creation, so two objects of one name stay apart.  Left     *)
(* out are temporaries and literals, whose names a program cannot use and  *)
(* which are never looked up, and types beyond the number of parameters.   *)
(***************************************************************************)
EXTENDS Integers, Sequences, FiniteSets, SequencesExt

CONSTANTS
    Names,          \* the names of variables
    FunctionNames,  \* the names of functions
    MaxVariables,   \* bounds on the objects created and the scopes entered
    MaxFunctions,
    MaxScopes

ASSUME BoundsAssumption == MaxVariables \in Nat /\ MaxFunctions \in Nat /\ MaxScopes \in Nat

VARIABLES
    scope_vector, current_scope_id,
    variables,            \* the Variable objects
    variableTable,        \* the objects registered under each name
    globalVariables,
    functions,            \* the Function objects
    functionTable,        \* the object registered under each name, or None
    function_define_order_list,
    current_function,     \* an object, or None
    found,                \* what get_variable returned last
    erred,                \* an error has been reported
    productions,          \* the productions the parser is inside of
    header,               \* the function header being read
    declarators,          \* the objects of a definition list, not yet registered
    listClosed            \* its semicolon has been read

tableVars  == <<variables, variableTable, globalVariables>>
scopeVars  == <<scope_vector, current_scope_id>>
funVars    == <<functions, functionTable, function_define_order_list, current_function>>
parserVars == <<productions, header, declarators, listClosed>>
vars       == <<scopeVars, tableVars, funVars, found, erred, parserVars>>

None == 0

-----------------------------------------------------------------------------
Init ==
    /\ scope_vector = <<0>> /\ current_scope_id = 0
    /\ variables = <<>> /\ variableTable = [n \in Names |-> <<>>] /\ globalVariables = <<>>
    /\ functions = <<>> /\ functionTable = [f \in FunctionNames |-> None]
    /\ function_define_order_list = <<>>
    /\ current_function = None
    /\ found = None /\ erred = FALSE
    /\ productions = <<>> /\ header = [name |-> "", parameters |-> <<>>]
    /\ declarators = <<>> /\ listClosed = FALSE

(* current_function's scope_esp grows and shrinks with the scopes.         *)
EspBy(d) ==
    IF current_function = None THEN functions
    ELSE [functions EXCEPT ![current_function].scope_esp = @ + d]

enter_new_scope ==
    /\ current_scope_id < MaxScopes
    /\ current_scope_id' = current_scope_id + 1
    /\ scope_vector' = Append(scope_vector, current_scope_id + 1)

exit_current_scope ==
    /\ scope_vector' = IF Len(scope_vector) > 1 THEN Front(scope_vector) ELSE scope_vector
    /\ UNCHANGED current_scope_id

(* add_variable: the name may be taken in this very scope; if not, the     *)
(* object is registered, and declared in the current function's code.      *)
Taken(v) == \E j \in ToSet(variableTable[variables'[v].name]) :
                Last(variables'[j].path) = Last(variables'[v].path)

\* Mutant of add_variable: only the first object of a name is declared.
add_variable_once(v) ==
    LET n == variables'[v].name
    IN  IF Taken(v)
        THEN /\ erred' = TRUE
             /\ UNCHANGED <<variableTable, globalVariables, functions>>
        ELSE /\ variableTable' = [variableTable EXCEPT ![n] = Append(@, v)]
             /\ globalVariables' = IF Len(variables'[v].path) = 1 THEN Append(globalVariables, v)
                                                                  ELSE globalVariables
             /\ functions' = IF current_function = None \/ variableTable[n] # <<>> THEN functions
                             ELSE [functions EXCEPT ![current_function].declares = @ \cup {v}]
             /\ UNCHANGED erred

add_variable(v) ==
    LET n == variables'[v].name
    IN  IF Taken(v)
        THEN /\ erred' = TRUE
             /\ UNCHANGED <<variableTable, globalVariables, functions>>
        ELSE /\ variableTable' = [variableTable EXCEPT ![n] = Append(@, v)]
             /\ globalVariables' = IF Len(variables'[v].path) = 1 THEN Append(globalVariables, v)
                                                                  ELSE globalVariables
             /\ functions' = IF current_function = None THEN functions
                             ELSE [functions EXCEPT ![current_function].declares = @ \cup {v}]
             /\ UNCHANGED erred

NewVariable(n) ==
    /\ Len(variables) < MaxVariables
    /\ variables' = Append(variables, [name |-> n, path |-> scope_vector])

(* get_variable: of the objects of that name whose scope is open, the one  *)
(* with the longest path.                                                  *)
Open(v) ==
    LET length == Len(variables[v].path)
    IN  length <= Len(scope_vector) /\ scope_vector[length] = variables[v].path[length]

\* Mutant of get_variable: the first match is taken.
get_variable_first(n) ==
    LET matches == SelectSeq(variableTable[n], Open)
    IN  IF matches = <<>> THEN None ELSE matches[1]

get_variable(n) ==
    LET matches == {v \in ToSet(variableTable[n]) : Open(v)}
    IN  IF matches = {} THEN None
        ELSE CHOOSE v \in matches : \A w \in matches : Len(variables[w].path) <= Len(variables[v].path)

-----------------------------------------------------------------------------
NewFunction(declared) ==
    [name |-> header.name, parameters |-> header.parameters, has_declare |-> declared,
     scope_esp |-> 0, declares |-> {}, uses |-> {}, heads |-> 0, prototyped |-> declared]

Registered(f) == functionTable[f] # None
Existing      == functions[functionTable[header.name]]
SameSignature == Len(Existing.parameters) = Len(header.parameters)

Register ==
    /\ functionTable' = [functionTable EXCEPT ![header.name] = Len(functions) + 1]
    /\ function_define_order_list' = Append(function_define_order_list, header.name)

(* declare_function: a second header of a name is compared and dropped.    *)
declare_function ==
    \/ /\ ~Registered(header.name)
       /\ functions' = Append(functions, NewFunction(TRUE))
       /\ Register
       /\ UNCHANGED erred
    \/ /\ Registered(header.name)
       /\ erred' = (erred \/ ~SameSignature)
       /\ UNCHANGED <<functions, functionTable, function_define_order_list>>

\* generate_function_head enters a scope_esp level, and so does the body's block.
Entered(fun) == [fun EXCEPT !.scope_esp = @ + 2, !.heads = @ + 1]

DefinesNew ==
    /\ ~Registered(header.name)
    /\ functions' = Append(functions, Entered(NewFunction(FALSE)))
    /\ current_function' = Len(functions) + 1
    /\ Register
    /\ UNCHANGED erred

(* The body of a second definition is parsed into an object of its own,    *)
(* which is registered nowhere.                                            *)
DefinesAgain ==
    /\ Registered(header.name) /\ ~Existing.has_declare
    /\ functions' = Append(functions, Entered(NewFunction(FALSE)))
    /\ current_function' = Len(functions) + 1
    /\ erred' = TRUE
    /\ UNCHANGED <<functionTable, function_define_order_list>>

(* The body of a declared function goes into the prototype's object.       *)
DefinesDeclared ==
    /\ Registered(header.name) /\ Existing.has_declare
    /\ functions' = [functions EXCEPT ![functionTable[header.name]] =
                         Entered([@ EXCEPT !.has_declare = FALSE])]
    /\ current_function' = functionTable[header.name]
    /\ erred' = (erred \/ ~SameSignature)
    /\ UNCHANGED <<functionTable, function_define_order_list>>

\* Mutant of define_function: the body of a second definition joins the first.
define_function_joins ==
    \/ DefinesNew \/ DefinesDeclared
    \/ /\ Registered(header.name) /\ ~Existing.has_declare
       /\ functions' = [functions EXCEPT ![functionTable[header.name]] = Entered(@)]
       /\ current_function' = functionTable[header.name]
       /\ erred' = TRUE
       /\ UNCHANGED <<functionTable, function_define_order_list>>

\* Mutant of define_function: a second definition is deleted, like a second prototype.
define_function_dangles ==
    \/ DefinesNew \/ DefinesDeclared
    \/ /\ Registered(header.name) /\ ~Existing.has_declare
       /\ current_function' = Len(functions) + 1
       /\ erred' = TRUE
       /\ UNCHANGED <<functions, functionTable, function_define_order_list>>

define_function == DefinesNew \/ DefinesAgain \/ DefinesDeclared

-----------------------------------------------------------------------------
(* The parser, production by production.  A definition may stand at file   *)
(* level or in a block; a definition list that has begun is finished first.*)
Within(p)    == productions # <<>> /\ Last(productions) = p
CanDeclare   == ~listClosed /\ (productions = <<>> \/ Within("block"))
BetweenLists == CanDeclare /\ declarators = <<>>

Enters(p) == productions' = Append(productions, p)
Leaves    == productions' = Front(productions)

(* value_definition makes the object after its initialiser has been parsed *)
(* and registers nothing yet: the rest of the list comes first.            *)
value_definition(n) ==
    /\ CanDeclare
    /\ NewVariable(n)
    /\ declarators' = Append(declarators, Len(variables) + 1)
    /\ UNCHANGED <<scopeVars, variableTable, globalVariables, funVars, found, erred,
                   productions, header, listClosed>>

define_list_end ==
    /\ CanDeclare /\ declarators # <<>>
    /\ listClosed' = TRUE
    /\ UNCHANGED <<scopeVars, tableVars, funVars, found, erred, productions, header, declarators>>

(* The calls of define_list return, the innermost, last declarator first.  *)
define_list_returns ==
    /\ listClosed
    /\ UNCHANGED variables
    /\ add_variable(Last(declarators))
    /\ declarators' = Front(declarators)
    /\ listClosed' = (Len(declarators) > 1)
    /\ UNCHANGED <<scopeVars, functionTable, function_define_order_list, current_function,
                   found, productions, header>>

(* A name in an expression: in a statement or an initialiser.              *)
id_extend(n) ==
    /\ CanDeclare
    /\ found' = get_variable(n)
    /\ erred' = (erred \/ found' = None)
    /\ functions' = IF current_function = None \/ found' = None THEN functions
                    ELSE [functions EXCEPT ![current_function].uses = @ \cup {found'}]
    /\ UNCHANGED <<scopeVars, tableVars, functionTable, function_define_order_list,
                   current_function, parserVars>>

function_definition(f) ==
    /\ productions = <<>> /\ BetweenLists
    /\ Len(functions) < MaxFunctions
    /\ enter_new_scope
    /\ Enters("header")
    /\ header' = [name |-> f, parameters |-> <<>>]
    /\ UNCHANGED <<tableVars, funVars, found, erred, declarators, listClosed>>

(* A parameter is registered at once, and listed even when it is refused.  *)
parameter(n) ==
    /\ Within("header")
    /\ NewVariable(n)
    /\ add_variable(Len(variables) + 1)
    /\ header' = [header EXCEPT !.parameters = Append(@, Len(variables) + 1)]
    /\ UNCHANGED <<scopeVars, functionTable, function_define_order_list, current_function,
                   found, productions, declarators, listClosed>>

prototype ==
    /\ Within("header")
    /\ declare_function
    /\ exit_current_scope
    /\ Leaves
    /\ UNCHANGED <<tableVars, current_function, found, header, declarators, listClosed>>

function_body ==
    /\ Within("header")
    /\ define_function
    /\ enter_new_scope
    /\ Enters("block")
    /\ UNCHANGED <<tableVars, found, header, declarators, listClosed>>

block ==
    /\ Within("block") /\ BetweenLists
    /\ enter_new_scope
    /\ functions' = EspBy(1)
    /\ Enters("block")
    /\ UNCHANGED <<tableVars, functionTable, function_define_order_list, current_function,
                   found, erred, header, declarators, listClosed>>

block_end ==
    /\ Within("block") /\ BetweenLists /\ Len(productions) > 2
    /\ exit_current_scope
    /\ functions' = EspBy(-1)
    /\ Leaves
    /\ UNCHANGED <<tableVars, functionTable, function_define_order_list, current_function,
                   found, erred, header, declarators, listClosed>>

\* Mutant of body_end: the function's own scope_esp level stays.
body_end_keeps_esp ==
    /\ Within("block") /\ BetweenLists /\ Len(productions) = 2
    /\ exit_current_scope
    /\ functions' = EspBy(-1)
    /\ current_function' = None
    /\ productions' = [productions EXCEPT ![2] = "tail"]
    /\ UNCHANGED <<tableVars, functionTable, function_define_order_list, found, erred,
                   header, declarators, listClosed>>

(* The body's block ends, and end_define_function closes the function.     *)
body_end ==
    /\ Within("block") /\ BetweenLists /\ Len(productions) = 2
    /\ exit_current_scope
    /\ functions' = EspBy(-2)
    /\ current_function' = None
    /\ productions' = [productions EXCEPT ![2] = "tail"]
    /\ UNCHANGED <<tableVars, functionTable, function_define_order_list, found, erred,
                   header, declarators, listClosed>>

function_end ==
    /\ Within("tail")
    /\ exit_current_scope
    /\ productions' = <<>>
    /\ UNCHANGED <<tableVars, funVars, found, erred, header, declarators, listClosed>>

Next ==
    \/ \E n \in Names : value_definition(n) \/ id_extend(n) \/ parameter(n)
    \/ \E f \in FunctionNames : function_definition(f)
    \/ define_list_end \/ define_list_returns
    \/ prototype \/ function_body \/ block \/ block_end \/ body_end \/ function_end

Spec == Init /\ [][Next]_vars

-----------------------------------------------------------------------------
Variables == DOMAIN variables

TypeOK ==
    /\ scope_vector \in Seq(0 .. current_scope_id) /\ current_scope_id \in 0 .. MaxScopes
    /\ \A v \in Variables : variables[v].name \in Names /\ variables[v].path \in Seq(0 .. current_scope_id)
    /\ \A n \in Names : variableTable[n] \in Seq(Variables)
    /\ ToSet(globalVariables) \cup ToSet(declarators) \subseteq Variables
    /\ functionTable \in [FunctionNames -> {None} \cup DOMAIN functions]
    /\ current_function \in {None} \cup DOMAIN functions
    /\ found \in {None} \cup Variables
    /\ erred \in BOOLEAN /\ listClosed \in BOOLEAN

(* The scope path of a use picks out the declaration that lexical scoping  *)
(* prescribes, by nothing but a comparison of scope ids: a scope is a name *)
(* table of the objects whose path is the scope's own.                     *)
ScopeTable(k) ==
    [n \in Names |->
        LET here == {v \in ToSet(variableTable[n]) : variables[v].path = SubSeq(scope_vector, 1, k)}
        IN  IF here = {} THEN None ELSE CHOOSE v \in here : TRUE]

Lexical == INSTANCE LexicalScopes WITH
    Decls   <- 1 .. MaxVariables,
    scopes  <- [k \in DOMAIN scope_vector |-> ScopeTable(k)],
    meaning <- found

ScopesAreLexical == Lexical!Spec

(* The scope_esp stack of the function being defined has a level of its    *)
(* own and one for each open block, that of every other function is empty: *)
(* no exit ever pops an empty vector, whichever prototypes, redefinitions  *)
(* and file-level scopes come between.                                     *)
EspFollowsBlocks ==
    \A f \in DOMAIN functions :
        functions[f].scope_esp =
            IF f = current_function
            THEN 1 + Cardinality({k \in DOMAIN productions : productions[k] = "block"}) ELSE 0

(* The functions the optimiser and the code generators work on.            *)
Generated ==
    {f \in ToSet(function_define_order_list) : ~functions[functionTable[f]].has_declare}

(* Every function is generated once, and has exactly one body: no empty    *)
(* instruction sequence reaches the flow graph, and no second body is      *)
(* appended to a first.                                                    *)
OneBodyEach ==
    /\ IsInjective(function_define_order_list)
    /\ \A f \in FunctionNames : Registered(f) =>
          functions[functionTable[f]].heads = IF f \in Generated THEN 1 ELSE 0

(* Every variable the code of a function uses has a place: it is global, a *)
(* parameter of the function, or declared in the function's code.  A       *)
(* prototype's object is the exception, it keeps the prototype's           *)
(* parameters while the body uses those of the definition.                 *)
UsesHaveStorage ==
    \A f \in DOMAIN functions :
        ~functions[f].prototyped =>
            functions[f].uses \subseteq
                ToSet(globalVariables) \cup ToSet(functions[f].parameters) \cup functions[f].declares
=============================================================================
