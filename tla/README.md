# A specification of the shaolang compiler

`shaolang` compiles a small C-like language. One single-threaded process reads
each source file, parses it by recursive descent while it emits three-address
code, optimises every function, and writes assembly for one of five targets
(x64 GNU, x64 MASM, AArch64, x86 GNU, x86 MASM), which an external assembler
and linker turn into a program. There is no concurrency inside the process and
no persistent state; several compilers may share a disk. What is hard here:

- data structures that are *rewired while they are walked* (the flow graph
  while dead code is pruned);
- flags and marks that are *stale when read* (the visited flags of the
  reachability search, the lattice mark "unseen");
- *protocols between passes* (stacks of loop labels, scope paths, parameter
  lists) that a wrong call far away upsets;
- iterations and recoveries that must *terminate*, on any input;
- *sets written out by hand* that have to agree with the code they guard (the
  tokens an expression may begin with);
- *several files, tools and compilers* on one disk, each of which may fail;
- numbers of three widths: 32 bits in literals and folded results, 64 bits in
  the analysis and in the program;
- machine conventions: alignment, saved registers, overlapping stack slots.

The modules below are translations of the code under `src/src`; the documents
under `src/doc` are used only to state what the code promises.

## Inventory

| Part | State | Operations | What makes it correct |
|---|---|---|---|
| Scanner, lexer (`commons/scanner.cpp`, `lexer.cpp`) | buffer, position, line, last character | `move`, `advance`, `next_token` and a reader for each token kind | tokens partition the text; comments and literals end; positions in messages are right |
| Parser (`parser.cpp`) | look-ahead token; the C++ call stack | one function per production; `recovery` skips tokens | every construct that opens is closed, also after an error |
| IR generator (`ir_generator.cpp`) | the stacks of loop heads and tails; the code of the current function | `push`, `pop`, `generate_while_head`, `generate_while_conditions`, `generate_while_tail`, `generate_if_head`, `generate_else_head`, `generate_else_tail`, `generate_if_tail`, `generate_break`, `generate_continue`, `generate_return`, `generate_function_head`, `generate_function_tail` and the expression generators | every jump lands on a label that is placed, and it is the one the source means |
| Symbol table (`symbols/*.cpp`) | scope path, variables by name, functions by name, current function, block nesting per function | `enter_new_scope`, `exit_current_scope`, `add_variable`, `get_variable`, `declare_function`, `define_function`, `end_define_function`, `add_inter_instruct` | names are resolved lexically; one body per function; storage for everything used |
| Blocks and flow graph (`ir/inter_code_collection.cpp`, `dataflow/*.cpp`) | leaders; edges kept twice, in `next` and `prev`; visited flags | `create_new_blocks`, `link_blocks`, `link`, `un_link`, `delete_all_next_link`, `is_reachable`, `write_opt_code` | both copies of an edge agree; exactly the live blocks are exported |
| Constant propagation (`optimization/const_opt.cpp`) | in and out values per block and variable | `ux`, `union_blocks`, `fx`, `transform_block`, `do_analyse`, `algebra_simplify`, `condition_jump_simplify` | the analysis ends, its claims hold in every execution, optimisation changes no effect |
| Back ends (`codegen/*_codegen.cpp`) | frame offsets in variables, `pending_args`, labels | `allocate_frame`, `emit_prologue`, `emit_call`, `emit_vararg_call`, `emit_epilogue`, one sequence per instruction | frames do not overlap, calls follow the ABI, arithmetic is that of 64-bit integers |
| Driver, linker, targets, options, errors (`shaolang.cpp`, `compiler.cpp`, `codegen/linker.cpp`, `codegen/target.cpp`, `commons/argument.cpp`, `commons/error.cpp`) | error and warning counts, lists of files, exit code | compile each file, gate code generation on its errors, link, delete temporaries | no output from a faulty file, exit code tells, no file is left behind |

How they interact. The parser calls the symbol table and the generator as it
recognises each construct (shared mutable objects, no messages). When a
function's body ends, `end_define_function` closes its code. After the last token the
compiler takes every function with a body: blocks, graph, analysis, folding,
exported code; then the back end walks the exported code and the variables the
symbol table kept for the function. Each pass trusts what the previous one left
in those objects, and this is where most of the hazards in `PROJECT.json` sit.

## Modules

| Module | Models | State and actions |
|---|---|---|
| `ThreeAddressCode` | instructions, leaders, blocks, layout edges | operators only |
| `IRGenerator` | the code each construct emits, the label stacks | a generator state is a record; one operator per generator call |
| `Lowering` | a function body being parsed | `body`, `gen`; one action per statement kind |
| `ProgramSets`, `OptimizedFunctions` | (for TLC) sets of function bodies the grammar derives | operators only |
| `FlowGraph` | the graph of one function, under any client | edge lists, `visited`, the stacks of the two recursions, the export; `link`, `un_link`, one action per recursive call and return |
| `BranchFolding` | `condition_jump_simplify` as the client of `FlowGraph` | a cursor over the blocks; fold always, fold never, skip |
| `ConstLattice` | lattice values, meet, transfer function, algebraic rules | operators on longs with wrap-around |
| `ConstPropagation` | the whole optimiser on one function | in/out values, round-robin cursor; then the rewriting; then `BranchFolding` |
| `OptimizedRun` | a function executed before and after optimisation | a machine for three-address code with addresses, input, output, unknown callees |
| `Lexer` | `FileScanner` and `Lexer`, on one text | the buffer and its positions, line count, current character; the reader at work and what it has gathered; one action per loop iteration of a reader |
| `ExpressionCode` | the types, and the code every expression and statement generator emits | a generator state is a record; one operator per C++ function |
| `Parser` | the recursive descent, token by token | `todo`, what the functions that have been called still have to do (the C++ call stack), `values`, what they returned; one action per function |
| `Grammar` | *abstract*: the documented grammar | a set of rules and what they derive |
| `Expressions` | *abstract*: types and meaning of an expression tree | operators only |
| `ParsedPrograms` | the parser against `Grammar` and `Expressions` | an interpreter for straight-line code, and the properties |
| `Driver` | `main`, `Compiler`, `Linker`, `target.cpp`, the error count | the disk, and per process the options, the file at hand and what has become of each file; one action per system call or tool |
| `LexicalScopes` | *abstract*: what scoping promises | a stack of scopes; declare, use, open, close |
| `SymbolTable` | the symbol table as the parser drives it, through one file | scope path and ids, variables and functions as heap objects, declaration lists, block nesting |
| `Activations` | *abstract*: what calls promise | a stack of activations with private variables |
| `CallFrames` | frames, calls and returns of the five back ends | memory in words, stack and frame pointer, saved registers, argument registers; call, library call, assign, return |
| `PairArithmetic` | 64-bit arithmetic of the two x86 back ends | register pairs, the division helper one loop round per step |
| `WideArithmetic` | the same on x64 and AArch64 | operators on bit patterns, `idiv` with its trap |
| `BranchFoldingProofs`, `ConstPropagationProofs`, `LoweringProofs`, `SymbolTableProofs`, `LexerProofs`, `DriverProofs`, `PairArithmeticProofs`, `CallFramesProofs` | theorems about the module they are named after; the first is about `FlowGraph` too | |
| `MC...` | the small instances TLC runs | |

Composition: `ConstPropagation` EXTENDS `BranchFolding` EXTENDS `FlowGraph`, so
a run of `OptimizedRun` analyses, folds, prunes, exports *and executes* the very
code that `IRGenerator` produced from a body in `ProgramSets`. `SymbolTable`
implements `LexicalScopes`, `CallFrames` implements `Activations`, both by
INSTANCE ... WITH and checked as temporal properties. `ParsedPrograms` EXTENDS
`Parser` EXTENDS `ExpressionCode`: a token sequence is parsed, its code is
generated with the types at hand, and the code is executed and compared with
the meaning of the tree the tokens were written from. `IRGenerator` has the
statements again on the level of finished operands, which is what the optimiser
modules start from.

### Modelling decisions

- Recursive C++ functions whose intermediate states matter
  (`is_reachable`, `delete_all_next_link`) have their call stack as a variable;
  a step is one call, one loop iteration or one return. Erasing an element of a
  list that a caller is iterating over leaves the slot with `Gone`, as an index
  held by an outer frame may still refer to it.
- A C++ function of the parser is the list of what it still has to do; a step
  takes the first item, looks at the current token and puts the parts that the
  branch calls in its place. Tokens keep their kind, and their name or value.
  The variables of `ExpressionCode` have the fields of the C++ object that any
  test looks at (type, pointer, array, left value, constant, cell).
- `Parser` uses the lexical symbol table that `SymbolTable` is shown to
  implement, not the paths of scope ids.
- A tool of `Driver` (`cc`, `codesign`, `ml`, `link`) succeeds or fails as it
  likes; failing, it may leave its output, take it away or leave junk. The tool
  works only on a file that is there and has the right content. `remove()` may
  fail, which the code does not look at; `stuck` holds the files this has
  happened to. A process can be killed between any two steps.
- Numbers: `ConstLattice` takes `LongMax` and `IntMax` as parameters (5-bit and
  4-bit numbers in the runs), `PairArithmetic` the word width.
- The operands of instructions are variables and literals from small sets;
  spelling of names, wording of messages and assembly layout are left out.
- Objects of the symbol table are identified by the order of creation, so that
  two variables of one name stay different and a *deleted* one can be told from
  a live one.
- The machine of `CallFrames` writes 4-byte words, so two slots that overlap by
  half are seen. Uninitialised words hold the model value `Garbage`.
- C library calls, callees that are not in the function under analysis, and the
  C runtime that calls `main` are external: they may do what the ABI (or, in
  `OptimizedRun`, the language) lets them do.
- The two x86 back ends emit the same instruction sequences in two syntaxes;
  `PairArithmetic` translates its operators from the MASM generator and its
  steps from the GNU one.

## Runs

Passing runs (TLC, two workers):

| Run | Question | Bounds, and why they suffice | States, time |
|---|---|---|---|
| `lowering` | Do all labels get placed, do break, continue and return go where the source says? | every body with two levels of nesting, two statements a level, misplaced break and continue included. A jump stack can go wrong only between a push and its pop; two nested constructs with leavers before, in and after them show every pair | seconds |
| `folding` | Does folding keep the edge lists consistent, cut off dead blocks only, export what can execute, and end? | one loop or conditional, inside or behind another construct, every outcome of every condition. The family stops where `pruning_nested` begins | 18 thousand, 10 s |
| `optimized_run` | Does the analysis stop at a fixed point, and is what it claims true in every execution? Does the optimised function have the same effects? Do values only fall, and does the optimiser end? | every ordered pair of 14 steps around a loop with an exit and on two branches (three analysis rounds), inputs 0, 1, 2; every operator and the marks are within reach of 5-bit longs | 296 thousand, 70 s |
| `symbol_table` | Is scoping lexical; is each function handed on once, with storage for its variables? | 2 variable names, 2 function names (both symmetric), 3 variables, 2 functions, 4 scopes: enough for shadowing, a redeclaration, a prototype with a definition, a second definition and sibling scopes | 228 thousand, 16 s |
| `call_frames` | Do frames implement private activations on all five back ends? | calls up to depth 4: 10 arguments (registers and stack on each ABI), an array, recursion, library calls from every frame | 104 thousand, 66 s |
| `pair_arithmetic` | Do register pairs compute like one wide register? Do the back ends agree? | every instruction on every two 6-bit numbers; word width 3 is the least in which low and high words have a sign and an interior | 188 thousand, 6 s |
| `lexer` | Are tokens the longest words at their place, is nothing dropped in silence, do lines count right, does it end? | every text of 3 characters over 17 that every branch of the code tells apart; texts of 5 over the characters of comments and of strings, of 4 over those of numbers; a buffer of 2, so that it is refilled inside every kind of token; longs up to 127 and ints up to 31, so that both overflow | 104 thousand, 25 s |
| `parsing` | Is exactly the grammar accepted, are exactly the ill-typed statements reported, does the code compute the tree, is it whole after errors, does parsing end? | 13,517 inputs: statements from expression trees with one operator (in five positions, 8 kinds of operands) and with two (every pair of binary operators, both ways); every sequence of 3 tokens after the start of a file, a statement, `if`, `while` and a definition; two programs that use every construct, with each token left out, doubled, or replaced by one of four | 406 thousand, 43 s |
| `driver` | Is each file linked from its own assembly and answered for itself, and is no temporary file left? | 2 processes, up to 3 files (sound, faulty, missing, without an extension, with one stem in two directories), each option, four hosts, every failure of every tool, files that cannot be removed, kills; two processes are enough for one to come between two steps of the other | 107 thousand, 21 s |

`MaxBlocks` bounds the size of graphs; it is above what any listed function
has. `MaxDepth` and `StackWords` bound the activations and the memory of
`CallFrames`; `MaxVariables`, `MaxFunctions`, `MaxScopes` bound the creations
of `SymbolTable`. `BufferSize`, `LongMax` and `IntMax` stand for 128, 2^63 - 1
and 2^31 - 1 in `Lexer`. `Parser` and `Driver` have no bounds but their inputs.

What the properties say, beyond types:

- `LinksFollowLoops`, `EveryJumpLands`, `NoJumpCrossesALoop`: the label stacks
  follow the open loops; at the end every jump has its label in the code;
  a break or continue leaves or repeats the innermost loop only.
- `EdgesMirrored`: each edge is as often in `next` as in `prev`.
  `PrunesOnlyDead`: pruning never cuts a block off that a path from the entry
  reaches. `ExportExact`: the export is the set of reachable blocks.
  `ExecutableExported`: a block that some execution enters is exported.
- `OutsDescend` (action property): a value goes from unseen to constant to
  not-a-constant, never back; this is why `OptimizationEnds`.
- `AnalysisSettled`: when do_analyse has finished, the values of every block, and in
  front of every instruction, follow from the final ones of its predecessors.
- `AnalysisSound`: at every instruction an execution reaches, a variable the
  analysis calls constant has that value. `SameEffect`: prints, reads, calls,
  stores to globals and results agree between the two versions.
- `ScopesAreLexical` (refinement), `EspFollowsBlocks`, `OneBodyEach`,
  `UsesHaveStorage`.
- `CallsAligned`, `HostIsRestored`, `FramesAreActivations` (refinement).
- `PairsActAsWhole`, `DivisionTruncates`, `QuotientSoFar` (the invariant of the
  division loop); `BackEndsAgree`: x86, x64 and AArch64 give the same result for
  every operator, except where x64 traps (a zero divisor; the least number
  divided by -1).
- `TokensAreLongest`: a token is the longest word that starts at its place, it
  has the meaning the documents give this word, and it does not start inside
  what was reported as a malformed number. `DroppedIsExplained`: between two tokens
  there are only blanks and comments; what is reported is no word of the
  language. A word is what `grammar_EN.md` 1.2 and 1.4 call one (a string or
  character is on one line, a comment's end is behind its opening, a number fits
  an int); where the code takes more than that, the case is named
  (`OnTwoLines`, `Overflows`, `Inside(IsFraction)`, `ClosedByItsOpener`), left out
  of these two, and listed under "Further divergences". `LineOfToken`, `LexerEnds`.
- `AcceptsGrammar`: no syntax error exactly if `Grammar` derives the file.
  `DiagnosesExactly`: a semantic error exactly if `Expressions` gives the tree
  no type its statement can use. `CodeComputesTree`: the code executed leaves
  the storage and shows the outputs the tree means. `FaultyCodeIsWhole`: after
  any errors, jumps still have one label, temporaries a declaration, operands
  are there: what `-ir` hands to the optimiser. `ParsingEnds`. `Parser`'s
  `TypeOK` also says that at the end every scope, loop and function that was
  entered is closed.
- `LinksItsOwn`: while a tool runs, the file it is given is what this process
  wrote for this source. `NothingLeftBehind`: a run that ended by itself has
  left no assembly or object file but those the system did not let it remove;
  the one case on which two comments of the code disagree is named `ToLookAt` and
  left out, see there too. `FilesAreIndependent`: refused exactly if
  this file has errors, linked means its program is there, refused means the old
  output is untouched. `EveryFileIsAnswered`.

Violated runs, each a disagreement between the code and what its documents or
comments say (`findings` quotes the lines):

| Run | Property | What TLC shows |
|---|---|---|
| `pruning_nested` | `PrunesOnlyDead` | with nested loops, pruning reads visited flags an earlier search left and cuts live blocks: the program does not assemble |
| `global_met` | `AnalysisSound` | a global assigned on one path is a constant after the join |
| `pointer_steps` | `PointersStep` | `++p` moves a pointer by 64 bytes, not by one element of 8: the step is scaled twice |

All three were reproduced with the compiler itself.

Two models were also compared with the program, by running it on the inputs of
their runs. All 13,517 inputs of `parsing` give the compiler as many errors as
the model and, function by function, the same three-address code up to the names
of labels. All 11,747 texts of `lexer` (with longs and ints wide enough that no
literal overflows) give its lexer the same tokens, meanings, errors and lines.

`optimized_run` starts its functions with a call (which makes globals unknown),
keeps addresses in locals and stays below `IntMax`; `folding` keeps out of
nested endless loops; `CodeComputesTree` leaves out pointers that are counted up
or down, `DiagnosesExactly` what `Unchecked` lists; `TokensAreLongest`,
`DroppedIsExplained` and `NothingLeftBehind` leave out the cases named above.
Outside these cases the properties are not weakened for what the code does.

### Further divergences

Each was seen while modelling and is left out of a passing run's inputs, or out
of a property by a named condition.

- A function whose only returns are in an endless loop loses the block its
  returns jump to: `OP_RETURN` adds no edge (`data_flow_graph.cpp:62`), although
  `compiler-design_EN.md:229` calls the exit block always reachable.
- An address kept in a global pointer reaches a callee without pointer
  parameters, and the analysis keeps the old constant (`const_opt.cpp:314`).
  With `Functions <- AddressKept`, `AnalysisSound` is violated.
- A folded result is cut to 32 bits (`const_opt.cpp:359`), the computed one is
  not. With `Functions <- OneTooMany`, `SameEffect` is violated.
- `compiler-design_EN.md:260` and the comment at `const_opt.cpp:432` list
  `x % 0 -> 0`; the condition tests the *left* operand for zero, so the code
  folds `0 % x`.
- A backslash at the end of a line continues a string on the next line
  (`lexer.cpp:165`; a character too), where `grammar_EN.md:48` says "single line
  only". The case is named `OnTwoLines`; `StringsOnOneLine` is violated.
- The loop that should skip the rest of `1.5` begins on the point, which it does not
  accept (`lexer.cpp:229`): an error for `1`, another for the point, and then the
  valid token 5, where `compiler-design_EN.md:96` says that `1.5` pollutes exactly one
  token position. Named `Inside(IsFraction)`; `FractionsInOnePlace` is violated.
- A literal that overflows a long wraps before it is compared with `INT_MAX`
  (`lexer.cpp:218`, `:235`): 18446744073709551619 is the number 3, where
  `grammar_EN.md:46` wants an error. Named `Overflows`; `LiteralsFit` is violated.
- `/*/` is a complete comment (`lexer.cpp:113`): the star that opens it also closes it, and
  a missing end, which `grammar_EN.md:19` says is reported, is not. Named
  `ClosedByItsOpener`; `CommentsAreClosed` is violated.
- Assembly that went to the current directory, because no other could be used, is
  removed after a failed link too (`shaolang.cpp:232`). The comment at
  `shaolang.cpp:64` says that it is there to be looked at then; the comment at `:230` and
  `compiler-design_EN.md:348` say that it is removed whether the link succeeded or
  not. Named `ToLookAt`; `AssemblyToLookAt` is violated.

The five properties named last stand in `Lexer` and `Driver` beside the ones they
complete, and no run lists them: TLC reports each one violated when it takes the
place of the properties in `Lexer.cfg` or `Driver.cfg` (`AssemblyToLookAt` as a
PROPERTY, the others as INVARIANTs). All five cases were also reproduced with the
compiler itself (the last one with the temporary directories made unusable and a
`cc` that fails).

Others:

- Parser and types: `*p++` and `q = p++` yield the *new* pointer, and `input p++`
  is accepted (`copy_of` copies basic values only); `&*p = &i` and `++&*p` are
  accepted; the dividend of `/` and both sides of a comparison may be addresses,
  which `grammar_EN.md` 2.3 rules out; `if (h())` with a void `h` is not
  reported; in `int x = 1, y = x;` the second `x` is reported as undefined.
- Driver: `-ir -S -o f` writes `f`, although `compiler-design_EN.md` section 4
  says that `-ir` writes no target file; a source without an extension in the
  current directory is overwritten by its own program; two sources with one stem
  overwrite each other's program; a source that is missing counts as empty and
  gives a program without `main`; a killed run leaves its temporary file; when
  `codesign` fails the unsigned program stays.

## Fairness and liveness

The compiler is one thread and each pass is a loop, so a pass that can take a
step takes it: `FoldSpec`, `Lowering!Spec`, `Lexer!Spec` and, for each process,
`Driver!Spec` have weak fairness of their next-state action, nothing stronger.
A tool that `Driver` waits for is assumed to return; a kill is never owed.

`RunSpec` (for the optimiser) and `Parser!Spec` say the same without `ENABLED`,
which TLC evaluates slowly on these modules: `[]<>Ended \/ []<><<TRUE>>_todo`, the
part that has not ended goes on changing. This is weak fairness only if the part
always has a step, and so both modules have an explicit step for "ended"
(`Stopped`, `Returned`) and their runs check for deadlock: a pass that gets stuck
is reported instead of being excluded by its fairness.

The executed program and the use of the symbol table have no fairness: input may
never come, a source file may end anywhere. Where a system may stop (a pass that
is done, processes that have exited) the cfg says `CHECK_DEADLOCK FALSE`.

## Proofs

`BranchFoldingProofs`, its first half, about `FlowGraph`, for every graph and every
sequence of calls of a client:

- `TypeCorrect`: `Spec => []TypeOK`, one lemma per group of actions.
- `ExportIsExact`: `Spec => []ExportExact`, that is, whatever was linked and
  unlinked before, the export is the set of blocks connected to the entry. The
  invariant is not inductive: nothing in it says what a half-finished search
  knows. The strengthening `ExportInv` adds `LeadsToAsked` (each block on the
  call stack lies on a path to the block asked about, said with sets closed
  under predecessors so that no induction over paths is needed),
  `FlagsExplained` (the predecessors of a flagged block are flagged, or its
  frame is still on the stack and has yet to try them; when the search answers
  "no", the flagged blocks are therefore a closed set without the entry) and
  `ExportedSoFar` (the blocks before the cursor have been decided rightly).
  It says nothing about pruning, where the search starts with *stale* flags and
  `FlagsExplained` fails: this is finding `pruning_nested`.

Its second half, for every function and whatever is known of its conditions:

- `FoldingUsesTheGraph`: `FoldSpec => Spec`, every run of the folding is one of
  `FlowGraph`'s. The invariant `FoldInv` says that the target of every jump lies in
  some block, which has to survive the two ways folding rewrites a jump: a deleted
  one takes no label out of its block (`LandingsStay`), a jump made unconditional
  keeps its target and stays a jump (`RewritingKeeps`). It holds at first because
  the leader rule starts a block at every target (`LeadersFacts`, `BlocksAreCut`).
- `FoldedExportIsExact`: `FoldSpec => []ExportExact`, from the two theorems.
- `EdgesStayMirrored`: `FoldSpec => []EdgesMirrored`. `EdgesMirrored` is kept by every
  step of `FlowGraph`, under any client (`StaysMirrored`); the graph `link_blocks`
  builds has it (`InitiallyMirrored`). Both count copies of an element in a list: the
  lemmas `CopiesJoined`, `CopiesAppended`, `CopiesErased`, and for the lists that
  `link_blocks` fills in layout order `CopiesInOrder` (from `InOrder`: a finite set of
  numbers, ranked by how many of its elements are smaller).

`PrunesOnlyDead` has no theorem, because it is false of some functions
(finding `pruning_nested`), nor has `ExecutableExported`, which rests on it.

`ConstPropagationProofs`, for hosts of every width and for every function:

- `MeetIsSemilattice`, `MeetIsGreatestLowerBound`, `BinaryTransferIsMonotone`, about
  the operators of `ConstLattice`.
- `AnalysisReachesFixedPoint`: `RunSpec => []AnalysisSettled`. The invariant
  `AnalysisInv` adds that, while do_analyse runs, the blocks before the cursor are
  settled for as long as nothing has changed in this round (the round that ends the
  analysis therefore has settled them all), and that blocks share no instruction
  (`Apart`, from `BlocksAreCut`), so that a visit leaves the facts of others alone.
  How values travel through one block is left unexpanded: that the *rounds* come to
  an end, and that values only fall on the way (`OutsDescend`), are inductions over
  the instructions of a block and stay with TLC.
- `OptimizerUsesTheGraph`: `RunSpec => Spec`, the refinement of `BranchFoldingProofs`
  for the whole of `optimize`. `algebra_simplify` rewrites any instruction, but it
  leaves labels and jumps as they are and makes none (`SimplifiedKeeps`), and so keeps
  `FoldInv`.

`LoweringProofs`, for every function body, however long and however deeply nested:
`BreakLeavesTheLoop` (`LinksFollowLoops`) and `NoJumpToNowhere` (`EveryJumpLands`).
Neither is inductive. Their invariant `GenInv` speaks of the generator's state
between two statements and has three parts. `Lands`: a label that was made is
either owed by an open construct and placed nowhere, or placed exactly once; all
targets were made. `Nested`: no two open constructs owe the same label, so that
closing one takes exactly one label out of the owed ones (without this, closing
the inner `else` might place the label of the outer one). `Follows`: a link stack
holds, at place 1 + r, the label of the r-th open loop, and everything on it was
made, which is what makes the target of a `break` legal. There is one lemma per
statement; each computes the new state field by field (`IsGen`) and then shows
it `Sound`.

`NoLoopIsCrossed` (`NoJumpCrossesALoop`) is about where in the code finished loops
lie, and needs a second invariant beside `GenInv`, `Enclosed`, with six parts.
`Uncrossed` is the property itself, said of code that is still growing: a jump lies
between a finished loop's entry and exit exactly if it arrives there. It is not
preserved by `while_end`, which finishes a loop, unless one knows which jumps lie
behind the entry of a loop that is still open: those that arrive behind it, and
those whose label is still owed by this loop or by a construct inside it
(`JumpsInside`); every other jump lies before it. A `break` is such a
jump because the link stack shows the *innermost* loop (`Follows`), and a `continue`
goes to an entry that no other open loop lies behind (`EntersAscend`: entries come
in the order of nesting). `EntersOutside`: no open loop was entered inside a finished
one, so that `continue` jumps into none. `EntersPlaced`: the exit label is the one
made right after the entry's, and an entry is never owed. `BackToLoops`: only loops
are jumped back to, so that the label after an entry that is jumped back to is the
exit of the same loop and placing any other label finishes none. At the end of the
function nothing is owed, each label has one place (`Lands`), and `Uncrossed` is
`NoJumpCrossesALoop`.

`SymbolTableProofs`, for every file: `TableTyped`, `EspCountsBlocks`,
`EveryFunctionHasOneBody`, `EveryUseHasStorage`. They share one invariant,
`TableInv`, because each needs the others: storage for a use follows from where a
variable's path ends (`Placements`), which is true only if a path that agrees
with the open scopes at one level agrees above it (`Scoped`: a scope id is never
given out twice), and only while the parser is where its productions say
(`Placed`, `Levels`). `Distinct` says that the objects registered under a name
have different paths and that pending declarators are registered nowhere;
`Registry` ties the order list to the table of functions.

`NamesAreLexical` is the refinement `Spec => Lexical!Spec`. An
initial state maps to one, and every step maps to a step of the stack of scopes
or to a stutter. The argument: the object a level's table holds for a name is the
one whose path is the open path cut at that level (`PathOfLevel`, `HoldsFacts`,
from `TableInv`); `get_variable`, which prefers the longest matching path,
therefore returns what the innermost table that holds the name says.

`LexerProofs`, for every text and every size of the buffer: `BufferIsInvisible`
(`TypeOK`) and `LinesAreRight` (`LineOfToken`). The invariant `LexInv` has three
parts. `Scanned`: the buffer is a window on the text that ends where reading
stopped (`IsWindow`), the current and the last character are those at the
scanner's place, and the lines counted so far are the newlines up to two places
before it (`StandsAt`; a line is counted two characters late), or the file is
closed, with the count it had at its last character. `Begun`: a reader stands
behind the place where its lexeme began; only those of names and numbers begin on
that place, and then on a character they are bound to take. Without it a reader
might report an empty lexeme, whose line would be that of the place before.
`Reported`: every report so far lies in the text, and the latest has the right
line. The scanner's part rests on one lemma for each of its operations
(`TakeStepsOn`, `RefillStays`, `MoveScans`).

`DriverProofs`, for any number of processes, command lines and candidate
directories, with kills and failing tools: `EveryoneLinksItsOwn` (`LinksItsOwn`),
`NoTemporaryFiles` (`NothingLeftBehind`). The invariant `DriverInv` accounts for
the whole disk: each file has a name a user can give, or could not be removed, or is
owned by one process, which is with the tool chain just now or was killed. A step
changes one file only, and one that the process owns or that is a user's
(`OthersDoNotNotice`), so no process can disturb what another hands to a tool; and a
file that `remove()` was called on is gone or stuck ever after (`Removed`,
`StaysStuck`).

`EveryFileForItself` (`FilesAreIndependent`) is proved in the same module. Its
invariant `FilesInv` holds beside `DriverInv` and says what a process knows of each
file (`AnswersOK`: the file was refused exactly if its text has errors), what
stands in the output of a program reported as linked, or about to be
(`ProgramsOK`), and that a user's file still holds what it held at first unless
some job with that output has come as far as writing it (`Wrote`). A claim about
an output is dropped only when the job has a rival, another job with the same
output (`Claim`, `Rival`); rivals never go away, since the files and options of
a process are fixed once its command line is read (`RivalStays`). One lemma
carries all other jobs through a step (`FilesStep`), and one per kind of step
supplies what becomes of the job at hand.

`PairArithmeticProofs`, for words of every width: `PairsAreWhole`
(`PairsActAsWhole`), `LoopDivides` (`QuotientSoFar`), `DivisionIsTruncating`
(`DivisionTruncates`), `EveryTargetAgrees` (`BackEndsAgree`). Here the work is in
the arithmetic. `CarryChain` is the one fact behind sums, differences, negations
and products: low words first, the carry into the high words, gives the whole
result modulo the size of a pair. `PairsInOrder` and `ComparesAsWhole` say the
same of the comparisons (high words signed, low words unsigned). The invariant
`ArithmeticInv` says what the registers and the helper's frame hold at each place
of the program. `QuotientSoFar` is part of it, but inductive only with the rest:
that there are between 1 and 2 * WordBits rounds to go, that the divisor is not
zero and that its pair holds a magnitude, at most half the size of a pair.
`OneRound` is one turn of the loop on integers, with `d` for 2 to the number of
quotient bits so far and `e` for the bits still to come: what leaves the dividend
at the top and what enters it at the bottom do not meet (`Bits`). That `e` and `d`
multiply to half the pair is a fact about powers of two, for which the prover
has no induction; it comes from the library's count of the subsets of a set
(`PowerOfTwo`, `PowersMultiply`). `Divided` is what the four properties
of a finished division follow from: for the 64-bit back ends `idiv` and `sdiv`
round towards zero by definition, and the helper's quotient is theirs.

`CallFramesProofs`, for every program (any functions, any number of slots,
parameters and calls, any depth) on each of the five back ends:
`FramesStayLinked`, `CallsStayAligned` (`CallsAligned`), `HostGetsItsRegisters`
(`HostIsRestored`) and the refinement `FramesImplementActivations`
(`FramesAreActivations`). The invariant `FramesInv` has three parts. `Chain`: a frame
lies right below what its caller takes off the stack for the call, and every
frame outside it keeps its slots above it. `Linked`: the
frame pointer and the return address each frame saved, and the outermost one's
ebx, lead to the frame outside it. `Poised`: where the stack and frame pointers
are, for each thing the machine may be doing. It is kept because whatever the
emitted code or a library call writes lies below what the innermost frame saved
(`LinkedSame`, `LinkedGrown`); for this the slots of a frame have to lie between the
stack pointer and the saved registers (`CellInFrame`). Offsets are defined by
counting slots, as a cardinality, so that no induction over the declarations is
needed. `CellsApart` says that no two cells of a frame overlap, for any declarations.

For the refinement `ActivationsInv` adds `Roomy` (each frame lies in the memory)
and `Passed` (at the call instruction each argument is where the callee will look,
in its register or at its place in the call area). The argument is one of where
each write may land: a store changes the one cell that lies there (`CellsApart`
within a frame, `Chain` between frames), and a run of moves
puts every value where it belongs if its targets are apart from each other and
from what later moves still read (`MovedStores`). Each action then maps to a step
of `Activations`, or to a stutter: placing arguments and library calls
change no variable, entering is `CallFrom`, a return is `Return`, the store after
it is `Store`. Nothing is assumed of what a library call leaves in the part of the stack
it owns, or of what a fresh frame finds in its slots.

Assumptions, each evaluated by TLC on the instances of the runs:

- `GraphsAssumption` (edge lists name blocks; there is an entry),
  `WidthAssumption` (`LongMax` at least `IntMax`, which is positive);
- `FunctionsAssumption`: a function's code is a sequence of instructions, not empty, whose
  jumps go to labels it holds (what `NoJumpToNowhere` proves of the generator's code), and
  `Graphs` has the graphs of these functions;
- `ProgramsAssumption`: bodies are sequences of statements, and the code of an
  expression has no label, jump or return (no expression generator emits one:
  `&&` and `||` compute both sides);
- `BufferAssumption`, `NumbersAssumption` (the buffer holds a character; an int is no
  wider than a long) and `TextsAssumption`: a text is a sequence of characters, and
  none of them is the end mark (the code's is -1, which no byte equals);
- `WordBitsAssumption`, `HostAssumption`: a word has a bit, and the caller's registers
  hold a pair;
- `BoundsAssumption`: the bounds of `SymbolTable` are natural numbers;
- `CodeAssumption`: a program has a `main`; a variable is declared once in a function,
  a call has an argument for each parameter (`get_function` refuses others), and operands,
  targets and results are variables of the function the code belongs to (what
  `EveryUseHasStorage` says of locals; globals are not in the model);
  `MachineAssumption`: the back end is one of the five, and the bounds are natural
  numbers. A program that needs more stack than there is stops in `HasRoom`: what is
  proved is about programs that have not run out of it;
- `NamesAssumption`: a user names no file like a temporary one (`Named`: a stem of
  fewer than two words, where a temporary has three: `shaolang`, process
  number, index). Without it a user who writes `-o /tmp/shaolang-17-1.s` breaks
  all three theorems. `ErrorsAssumption`: a text has a number of errors.

Only model-checked: all liveness (`FoldingEnds`, `OptimizationEnds`, `LexerEnds`,
`ParsingEnds`, `EveryFileIsAnswered`), which is out of reach of the prover together
with ENABLED; what recursive definitions compute (`Grammar`, `Expressions`, and in
`Lexer` the words of the language and what they denote: `TokensAreLongest`,
`DroppedIsExplained`; the properties of `ParsedPrograms`); `PrunesOnlyDead` and
`ExecutableExported`, which the code does not have for every function; and
`AnalysisSound` and `SameEffect` of `OptimizedRun`, which rest on how values travel
through the instructions of a block and on how code is executed, both recursive.

## Not modelled

- Static data and instruction selection of the 64-bit back ends (one machine
  instruction or two for each instruction of the IR; arithmetic is modelled).
- The spelling of options and targets: `parse_target` is a set of names.
- Generated messages, listing options (`-t`, `-b`, `-v`) and layout of the
  assembly text.
- String constants beyond their type: they are never operands of arithmetic.
- Writes that fail half-way (a full disk): the code looks at `is_open` only, never at
  a write or at `close`, so `Driver` writes a file whole or not at all. Process
  numbers that are given out again.
- A newline of two characters (`scanner.cpp:69` has a branch for CRLF builds);
  `Lexer` has the other branch.
- The types of parameters, in the comparison of two signatures in `SymbolTable`
  (numbers of parameters are compared; no property depends on more).
- In `IRGenerator`, the type errors of `return` and the early returns for a
  missing function or condition: its operands are finished ones. `ExpressionCode`
  and `Parser` have these branches.
- Freed memory: a refused parameter stays in its function's list
  (`parser.cpp:255`); the table model keeps it there, but cannot say that the
  object is gone.

## Plan

Built in this order: flow graph and folding (where the hardest behaviour is),
lowering, lattice and optimiser, execution of optimised code, symbol table, frames,
pair arithmetic; lexer, parser with types and expression code, driver, the
comparison of the back ends; proofs of the flow graph and its use by the whole
optimiser, of lowering, the symbol table and its refinement, the lexer, the driver,
pair arithmetic, and the frames with their refinement.

What is left is out of reach of the prover, as said above, but for
two things: the soundness of the analysis (`AnalysisSound`) would follow from a
proof that one visit of a block is sound, if the walk over its instructions were
written as steps; and static data has no model yet.
