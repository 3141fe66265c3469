# A verification project for libqasm

libqasm reads programs in cQASM, a language for quantum circuits, and turns
them into typed, resolved trees. These modules model what the library does with
a program: how it is fetched and its version checked, how the tree of cQASM 3 is
built from the parse tree, how the analyzers of cQASM 1 and 3 resolve and
simplify it, what a caller is told, and how the old API of version 1.0 is fed
from the new one. TLC checks the models on small instances; TLAPS proves parts
of them for all instances.

## The system

| Component | State it keeps | Operations | Uses |
|---|---|---|---|
| v3.x semantic analyzer (`src/src/v3x/cqasm-analyzer.cpp`, `AnalyzeTreeGenAstVisitor.cpp`, `src/include/v3x/cqasm-scope.hpp`) | the scope stack: per scope a variable table, function tables, an instruction table, and the block, variables and functions of the tree being built; the result with its errors | `analyze*`, one `visit_*` per syntax node, `push_scope`, `pop_scope`, `resolve_*`, `register_*` | resolver, values, types |
| v3.x types and values (`cqasm-types.cpp`, `cqasm-values.cpp`) | none | `promote`, `check_promote`, `type_of`, `size_of`, `element_type_of` | |
| overload resolution (`src/include/cqasm-overload.hpp`, `cqasm-resolver.cpp`) | overload tables by name | `add_overload`, `resolve` | values |
| v3.x default functions and instructions | a fixed registry | C++ functions on constants | values |
| v3.x scanner, parser, AST builder | a parse result under construction | `parse_file`, `parse_string`, `visit*` | version |
| v1.x analyzer (`src/src/v1x/cqasm-analyzer-helper.cpp`) | scope stack, current block, subcircuits, unresolved gotos, mappings | `analyze_*` | v1.x resolver and values |
| v1.x types, values, resolver, functions, error models | as in v3.x | as in v3.x | overload resolution |
| v1.x parser (`cqasm-parse-helper.cpp`) | a scanner, a file or buffer, a parse result | `parse_file`, `parse_string` | |
| version, errors, annotations (`src/src/cqasm-*.cpp`) | a version list; an error's message, related tree and location | comparison, parsing, `context` | |
| results and bindings (C++, Python, JavaScript) | an analyzer per call or per object | `analyze_*`, `to_json`, `to_strings`, `unwrap` | analyzer, parser |
| v1.0 compatibility (`src/include/v10`) | an old-style tree | conversion of a v1.x tree | v1.x analyzer |

The components call each other on one thread: a front end scans the text for
its version, parses it into a syntax tree, the analyzer visits the tree and
builds the semantic tree, and a result hands the tree or the errors to the
caller. Nothing is persisted and no messages are passed; what runs beside the
library is the rest of the world, which writes the files it opens by name more
than once and holds the streams it is given. What is hard to test is *order*,
*partial failure* and *simplification*: one object serves many calls; every
handler can fail half-way with an error that is caught at one of several levels,
or with an exception that is not caught at all; scopes are pushed and popped
around such handlers; names are declared again, shadowed, and declared in vain;
functions become callable at a moment that decides whether programs can recurse;
version 1.2 drops and moves statements when conditions are constant.

What makes each component correct, in short: the statements of a tree link
only to what was visible where they stand, scopes are balanced, the functions
form an order without cycles, a result is complete and nothing is dropped;
promotion and resolution pick the overload the language defines; the analyzed
program has the runs of the written one; jumps land on one subcircuit; an error
points at the part that is wrong; versions order as numbers do; a reply is
accounted for by the texts that were there to be read; the old tree stands for
the whole circuit or was not replaced.

`PROJECT.json` lists the components with the sources of each, and under
`hazards` the places where this code is exposed.

## Modules

| Module | What it models |
|---|---|
| `V3xValues` | types, values, promotion and overload resolution of version 3 |
| `V3xAnalyzer` | the version 3 analyzer object and any sequence of `analyze` calls on it |
| `CallOrder` | abstract specification of the function table |
| `MCV3xAnalyzer` | alphabets of statements for TLC |
| `V3xAnalyzerProofs`, `V3xAnalyzerTheorems` | lemmas, the inductive invariant, and what follows from it |
| `V1xValues`, `V1xFunctions` | types, values, promotion, tables and functions of version 1 |
| `V1xAnalyzer` | one analysis of a version 1.0 to 1.2 program, statement by statement |
| `V1xNames` | the reference for names: what they stand for, by block structure and mathematics |
| `V1xRuns` | the runs of conditions, chains and loops, from those of their parts |
| `V1xMeaning` | the reference for runs: what a version 1 program means, as written and as analyzed |
| `V1xAnalyzerProofs` | scopes, the error model, operands, jumps, types, mappings and their values of `V1xAnalyzer`, and the runs its simplifications keep |
| `MCV1xAnalyzer` | alphabets of statements for TLC |
| `Version` | the order of versions |
| `FrontendCalls` | calls, results and replies |
| `Frontend` | the calls of the library: version scan, parser, analyzer, reply, with files and streams |
| `FrontendContract` | abstract specification of a call |
| `FrontendProofs` | theorems about versions; the inductive invariant of `Frontend`; that its steps implement the contract |
| `V3xTrees` | parse trees, and the literals the AST builder cannot read |
| `V3xLiterals`, `V3xLiteralsProofs` | puts them into `Frontend`: what the parser returns; and theorems about it |
| `V3xSyntax`, `V3xEvaluation` | the AST builder, and the analysis of its trees with the places of errors |
| `V3xReading` | puts these into `Frontend` as well, and compares replies with parse trees |
| `V3xReadingProofs`, `V3xReadingTheorems` | expressions; then statements, programs and replies: their meaning, their kinds, their errors |
| `MCFrontend` | texts for TLC |
| `V10Conversion` | the classes of the old API, the conversion of an analyzed program, its checks |
| `V10Library` | a `libQasm` object and its calls |
| `V10Contract` | abstract specification of that object |
| `V10Proofs` | its types, that what is converted can be checked, that its steps implement the contract |
| `MCV10Library` | texts for TLC |

### `V3xAnalyzer`

| Model | Code |
|---|---|
| `scope_stack` | `Analyzer::scope_stack_`; each element has the `variable_table`, the variables and the block of `Scope` |
| `vars` | the `semantic::Variable` nodes made so far; a link to a variable is its number |
| `functions` | the functions of the global block and, in lockstep, the global `function_table` |
| `phase`, `frame` | which handler runs; the name, parameters and return type `visit_function` holds in local variables |
| `errors`, `results` | the errors of `result_`; how each `analyze` call ended and what its tree is made of |
| `visits` | counts visited statements, for the bound only |

A program is not a constant. Each `VisitX` action picks the next statement out
of an alphabet (`VariableDecls`, `FunctionDecls`, `Initializations`,
`Statements`), so one run covers all programs over that alphabet up to
`MaxVisits` statements, split in all ways over `MaxAnalyses` calls.
An action is a whole handler: visiting a statement evaluates its operands in
order, resolves, promotes, and either records the statement, or reports an
error, or lets an exception escape.

* `Outcome` and `ValueOf` evaluate an expression. The outcome is `"value"`,
  `"error"` (an `AnalysisError`), `"escape"` (another exception) or `"crash"`.
* `"escape"`: asking `promote` for a value without a type, the call of a
  function without a return type, dereferences an empty tree-gen node. tree-gen
  throws an exception that no handler catches. `visit_function` is then left
  without its `pop_scope` (`"leaked"`).
* `"crash"`: an index into a name bound to a constant, `pi[0]`, follows a null
  pointer. The behaviour is undefined; the session ends.
* The tree of a result shares its block with the analyzer, as in the code, and
  copies the lists of variables and functions. `WellFormed` is what tree-gen's
  `is_well_formed` demands: no link out of the tree, no node twice.
* `Refuse` is a file of too high a version, or one that does not parse.
  `Analyze` may start with one error, which `visit_version` leaves when a tree
  is analyzed directly.

tree-gen is not part of the repository; the definitions about its trees
(`Links`, `Calls`, `Callees`, `Closed`, `Unshared`, `WellFormed`) are external
and follow the use `src/` makes of it.

Abstractions: a constant keeps its kind, its size and whether all its elements
are zero (the rule on axes asks). The arguments of a call are literals,
identifiers, indices, and calls without arguments; `V3xEvaluation` has
expressions of any depth. Indices are given as the list their items and ranges
expand to.

### `V1xAnalyzer`

| Model | Code |
|---|---|
| `api`, `file` | `analyzer.api_version`, the version of the file |
| `root` | `result.root`: subcircuits with their bodies, variables, mappings, the error model |
| `scope_stack` | `AnalyzerHelper::scope_stack`: per scope the mappings, the block and `within_loop` |
| `handlers` | the C++ calls of `analyze_structured` and below that wait for their blocks |
| `gotos` | `gotos`, the targets to be resolved after the last statement |
| `written` | history: the statements as they were written, for `V1xNames` and `V1xMeaning` |

Again the program is chosen while it is analyzed. A structured statement is one
action that analyzes its header, one per branch, and one that closes it and
simplifies it: an `if` whose condition is constant becomes the statements of
its branch, a loop that is never entered is dropped, one that is left after a
pass becomes its body. `V1xFunctions` has the default function and instruction
tables; integers have `IntBits` bits and wrap around. A variable is known by the
place of its identifier (`IdentifierAt`: the statement and the position in it),
as `analyze_variables` gives each variable the source location of its identifier.

`V1xNames` says what the names at the end of a list of written statements stand
for: by the block structure alone, with division and modulo as the mathematical
floor. `MappingsHold` compares the mappings of the tree with it. Its definitions
are recursive functions on the length of the list, so that theorems can be stated
over them.

`V1xMeaning` elaborates the written program in the same way, without dropping or
moving anything, and compares the *runs* of both programs: the sequences of
operations, with a condition decided at run time as an event of the run. This
module has recursive operators, so no theorem is stated over it. How the runs of
a chain or a loop come from those of its branches or its body is `V1xRuns`, which
has none.

Abstractions: annotations are there or not; expressions are two levels deep;
what complex numbers, matrices, strings and axes hold is left out; the bounds of
an index range are numbers, not expressions.

The constants are what is written and what is registered. The module assumes of
them what the code makes true of every program and of its own registry: names
are in the table of names and literals have values (`AlphabetAssumption`,
`ExpressionsAssumption`); a parameter that an instruction writes to is of no kind
that constants are converted to (`InstructionsAssumption`), as in the default
instruction set; an overload of a function has as many parameters as its C++
implementation takes (`FunctionsAssumption`), as in
`register_default_functions_into`. `V1xNames` adds that `//` and `%` are
registered for two integers only (`DivisionsAssumption`), as they are there.

### `Frontend`, `V3xTrees`, `V3xSyntax`, `V3xEvaluation`

Every step of `Frontend` is one visit to the file system or the work between
two: the version scan opens the file, the parser opens it again (version 1) or
asks whether it exists and reads it later (version 3). `Write` and
`RewindStream` are the rest of the world. A call is a record of dialect, source
(path, string or stream), operation (`parse`, `analyze`, `unwrap`) and API
version; the fourteen entry points of both versions and their bindings are
combinations of these. `handles` counts the `FILE*`s of the library.

Texts are known by the constants `Stated` (what the version scan reads),
`Parsed` and `Analyzed`. These are *sets* of results where C++ leaves the order
of evaluation open. For version 3 they are computed from parse trees: `Faults` of
`V3xTrees` is where the visit of a tree by `BuildTreeGenAstVisitor` may end for a
literal out of range, an integer `std::stoll` refuses or a float `std::stod`
refuses (`Refused`; `Doubles` are the numbers it accepts), `V3xSyntax!Build` goes from the parse tree to the AST as that
visitor does, `V3xEvaluation!AnalyzeProgram` analyzes the AST. `V3xLiterals` assumes
that trees are finite, with the children of a node in an order and no children below
a number (`TreesAssumption`), and that the parser is the one of these trees
(`ParserAssumption`); the run checks both of its texts. A value carries a *term*, the functions applied to what; a place is a
path in the parse tree with the kind of token that stands for it. For version 1
the two are given; `V1xAnalyzer` models that analysis.

`FrontendContract` says what a caller may rely on: a call is answered, and the
reply is one that the texts its source had while the call was served account
for. The version may be read from one of these and the tree from another.

### `V10Conversion`, `V10Library`

An analyzed program is a constant of `V10Conversion`, under the assumption
`AnalyzedAssumption` on what the analyzer of API version 1.0 returns; that
operands fit a registered signature is `OperandsFit` of `V1xAnalyzer`.
`ConvertInstruction` is `convert_instruction` with its table of signatures and
the constructors of `Operation`; `DoChecks` is `QasmSemanticChecker::doChecks`.
The actions of `V10Library` are the stages of `handle_parse_result`: refuse,
copy the register, a subcircuit, a bundle, the mappings; then check, and keep
or reject. `qasm_rep` is what the object shows, `qasm` what the checker fills.
`checkQubits` compares a `size_t` index with an `int` register: a number of qubits
that became negative refuses nothing. `UnsetAssumption` keeps the mark of an empty
member apart from the values of a program.

The constructor that takes a file name erases its first and its last character as
quotes (`RemoveQuotes`), though the parser has removed those. A string is the
sequence of its characters here. A name of fewer than two has not got what is to be
erased, which is undefined: the call goes on with a name that is anything
(`Garbled`), or the program ends (`Crash`).

`V10Contract` says that a call returns and that afterwards the object stands for
the whole written circuit, or for what it stood for before. `WrittenCircuit`
takes that circuit from the analyzed program, `Circuit` from the getters of the
old classes. What the old classes have no room for is left open there (`HasRoom`):
numbers beyond an `int`, a `not` gate under a condition, and a circuit with a
`load_state`, of whose file name a part is kept. That such calls return is still
promised, unless a file name is shorter than two characters (`Defined`).

## Runs

| Run | Instance | What it shows |
|---|---|---|
| `v3x_scopes` | `a` declared as int and float, globally, as parameter and as local; initializations that read another name or are declared in vain; functions `f` (no value) and `g` (int); up to 5 statements over up to 2 calls | `TypeOK`, `ScopesAccountedFor`, `LexicalScoping`, `TableHoldsNewest`, `OuterScopesUntouched` |
| `v3x_functions` | two overloads of `f` beside two C++ implementations of `f`, `g`, calls with arguments that resolve to each of them or to none, returns to be promoted; 5 statements | `NoRecursion`, `ReturnsMatchSignature`, `TreeClosed`, `NothingLost`, the refinement `ImplementsCallOrder`, and `AnalysisEnds` |
| `v3x_quantum` | qubits and bits, single and in arrays, declared again with another size, gates and measurements of the whole and of parts, indices in and out of range and repeated, arrays of size 0, the axis `[0, 0, 0]`, an index into `pi`; 5 statements | `IndicesInRange`, `MeasuresPaired`, `NothingLost` |
| `v1x_control` | version 1.2: `if`, `for`, `foreach`, `while`, `repeat` with constant and other conditions, `break`, `continue`, gotos, subcircuits, mappings in blocks; 4 statements, nesting of 2 | `ScopesAccountedFor`, `JumpTargetsUnique`, `GotosResolved`, `MeaningPreserved`, `MappingsListed`, `MappingsHold` |
| `v1x_values` | every pair of API and file version 1.0, 1.1, 1.2: operands of every kind, gotos, aliases in any case of letters, variables, folded constants, error models; 3 statements | `TypeOK`, `MeaningPreserved`, `GotosResolved`, `MappingsListed`, `MappingsHold`, `OperandsFit`, `ErrorModelKept` |
| `frontend` | two calls over 30 texts, of which each of the 20 version 3 programs shows one part of the grammar with its mistakes; files written or removed twice in between, streams left anywhere | `TypeOK`, `VersionSupported`, `HandlesAccountedFor`, `LiteralsChecked`, `MeaningAsWritten`, `KindsAsWritten`, `ErrorsPointAtInnermost`, the refinement `ImplementsContract` |
| `v10_library` | three calls over 17 texts: every signature, subcircuits with and without a header, conditions, mappings, numbers beyond an int, a file name that is cut and one that is too short | `TypeOK`, `ChecksFindTheirQubits`, the refinement `ImplementsContract` |
| `v3x_configuration` | alphabet of `v3x_scopes` | violated: `ConfigurationUnchanged` |
| `v3x_scope_leak` | alphabet of `v3x_scopes` | violated: `OneScopeWhenIdle` |
| `v3x_shared_node` | one function, called | violated: `NoInternalError` |
| `v1x_break` | a `break` in a `repeat` that is left after one pass | violated: `JumpsInsideLoops` |
| `v1x_goto` | a goto in a file of version 1.1 | violated: `NoInternalError` |

The bounds. The properties of `V3xAnalyzer` are about few statements: a
declaration, an inner declaration of the same name, a use, an end of the
function, a use after it. Five statements reach all orders of these, including
a function entered while another of the same name exists, and a scope leaked by
one function with a second function entered in it. Two `analyze` calls are
enough to see what one leaves to the next. In `V1xAnalyzer` a statement is
moved at most into the block around its own; two levels with a statement before
and after show that, and loops are followed for two passes. `IntBits = 4` makes
sums, shifts and products wrap around. `MaxErrors = 0` lets a program go on
after an error only where the properties look at it. In `Frontend` two calls
show what one leaves to the next, and two writes a file that changes after
each of the two times it is opened. `Doubles` are the numbers up to 1000 there:
one text has a float beyond them, one a float and an integer out of range as the
operands of one operator, of which either may be reported. `IntRange = 16` puts
the boundary of an `int` within reach; iterations of 16 become 0 and 17 become 1.
`CHECK_DEADLOCK FALSE` is set because the sessions end: at a bound, at the end
of a program, or in a crash.

Fairness. `V3xAnalyzer!FairSpec` adds weak fairness of `Continue`, the parts of
an analysis that need no further statement (a crash ends it as well);
`Frontend!Spec` that of `Progress`, a call going on to its next phase;
`V10Library!Spec` that of `Work`, the stages of a call, to which a crash does
not belong. All three are justified because a call runs on the thread of its
caller over a finite text and waits for nobody. Nothing is assumed of the caller
or of the files.

Every property of a passing run has a mutant in `PROJECT.json`: a plausible slip
in the code (a dropped `pop_scope`, a table that inserts without erasing, an
error that is not reported, a file closed twice, an overload picked in the
wrong order, a bundle added to the first subcircuit) that breaks it. The
mutated forms stand in the modules just before the definitions they replace,
each with a comment that starts with "Mutant".

### Where code and documentation differ

1. `ConfigurationUnchanged`: `cqasm-analyzer.hpp:44-45` says `analyze` never
   changes the object and that all state but the configuration belongs to a
   call. The scopes belong to the object and are never reset.
2. `OneScopeWhenIdle`: the tests of `visit_function` require one scope on the
   stack after any visit. An exception that is not an `AnalysisError` skips
   `pop_scope`.
3. `V3xAnalyzer!NoInternalError`: the internal error of `analyze` is reachable
   by a correct program that calls one of its functions twice: both calls hold
   the same `function_ref` node. The tests call each function once.
4. `JumpsInsideLoops`: a `repeat ... until (true)` is replaced by its body, and
   a `break` or `continue` in it then stands outside any loop, where the
   analyzer itself refuses to accept one.
5. `V1xAnalyzer!NoInternalError`: gotos are let in by the version of the API and
   resolved by the version of the file; in between lies a program whose tree is
   incomplete, and the internal error of `analyze`. `GotosResolved` is the other
   half: no other program gets there.

Smaller ones, stated by no property: error models are looked up without the
lower-casing their comment promises (`v1x/cqasm-resolver.cpp:138-146`); the
comment of `analyze_bundle` says nothing is added after an error, though the
instructions without one are; `v3x/cqasm-py.cpp:120` says no version check is
made, though one is; a conditional `not` of the old API loses its target, and a `load_state` the first and
last character of its file name (`qasm_ast.hpp:355`); a
file in which no version is found stays open (`cqasm-version.cpp:148`), as does
every file of `libQasm::parse_file`.

## Proofs

All theorems are for every value of the constants that satisfies the named
assumptions of the modules: any alphabet of well-formed statements, any tables,
any texts, any bounds.

**`V3xAnalyzerProofs`.** The inductive invariant is

    IInv == TypeOK /\ KnownVariables /\ TableLinks /\ LexicalScoping /\ NoRecursion

`LexicalScoping` alone is not inductive: a statement links to what a lookup in
the tables returns, so it needs `TableLinks`, that the table of a scope refers
to variables of that scope only. `TypeOK` needs `KnownVariables`: without a
bound on the variables that statements name, their types are unknown. The
lemmas come in layers, each resting on the one before: values and promotion,
expressions, blocks, the scope stack, the ways a visit may
end, and one lemma per handler. From `ConstantsAssumption` of `V3xAnalyzer`.

**`V3xAnalyzerTheorems`** uses that invariant for what a step may do
(`StepShape`: what each step does to the depth of the stack, to the scopes below
the top and to the functions) and concludes `OuterScopesUntouched`,
`ScopesAccountedFor`, `TreeClosed` and the refinement `ImplementsCallOrder`,
whose abstract step adds one function that calls earlier ones. Four more theorems
have a step lemma of their own:

* `TableHoldsNewest`, by `StepNames`: a step leaves all names alone, pushes a scope
  without any, or declares one variable in the current scope, and a declaration
  takes its name from the older variable.
* `ReturnsMatchSignature`, by `LeaveFunctionMatches`: only the end of a function
  changes the functions, and a value that was promoted to a kind fits it.
* `IndicesInRange`, by `StepInRange`. It is not inductive: the check of an index
  reads the type of the name, so `InRangeNow` adds that the entry of a name has the
  type of the variable it links to (`TypesKnown`), in every scope. Promotion, the
  operands of instructions and the values of returns keep the indices they have.
* `NothingLost`, by `StepCounts`: each visit without an error adds one statement, to
  a scope on the stack or to a function. Statements are counted as places in blocks,
  a finite set that a step extends by one element; a function that is registered
  takes its places along. `Account` adds what the count is conditional on: an error
  that is left when no analysis runs is seen in a result.

**`FrontendProofs`.** The comparison of versions is a strict order:
`NewerAsymmetric`, `NewerTransitive`, `CompareAntisymmetric`; and appending
zeros changes nothing (`TrailingZeros`). The inductive invariant of `Frontend` is

    IInv == TypeOK /\ HandlesAccountedFor /\ TextsKnown /\ ResultSupported /\ VersionSupported

`VersionSupported` speaks of the answer only; `ResultSupported` carries it from
the moment the analyzer has compared versions to the moment the caller is
answered. `TextsKnown` says that what is parsed is a text, so that the
assumptions on `Parsed` and `Analyzed` apply. `TypeOK` needs
`HandlesAccountedFor`: closing a file counts `handles` down, and they would
leave the natural numbers if a file were closed that is not open. From
`FrontendAssumption` and `BoundsAssumption`.

`Provenance` says for each phase of a call where what
is at hand comes from: a text its source had since the call began. It is
inductive relative to `IInv`, and with it every step of `Frontend` is a step of
`FrontendContract` or leaves its variables alone (`SafetyImplemented`). That
every call is answered, the other half of the contract, is model-checked.

**`V3xLiteralsProofs`.** For parse trees of any shape: what the visit of a tree finds
at a node is a literal that is out of range (`OnlyUnreadable`), by induction from the
deepest level up, and one that is out of range anywhere is found from the root
(`FoundAbove`), by induction from the literal up; the order in which operands are
visited decides which, never whether (`FaultsFound`). `LiteralsInv` carries that from
the parser through the analysis to the reply, and `LiteralsChecked` follows. From
`TreesAssumption` and `ParserAssumption`.

**`V3xReadingProofs`**, for expressions. The AST of a tree and the visit of an AST
are recursive functions over levels; that they exist for every depth, and that the
AST is no deeper than the tree, comes first. The rest is by induction on the level:

* A term reads its tree when it agrees at each level (`Reads`), and does so because
  it reads it by its parts (`ReadsByParts` and its like for each rule of the
  grammar). The name that the AST builder and the analyzer end at, by way of the
  node, is shown equal to the sign for every sign of the grammar.
* The kinds need a property of the table of overloads as a whole. `Sorted` says that
  each overload of an operator on numbers is followed by the same on the next lesser
  kind; `DefaultsSorted` proves it entry by entry, in the order of registration.
  A function of the program has the kind it is declared with, whatever its name. So when the last overload that fits is chosen, the lesser one does
  not fit (`LesserFails`), and that is what the kind written is.

**`V3xReadingTheorems`**, for statements, programs and replies. `Faithful` is the
invariant of an analysis: all statements so far compute what is written with the
kinds written, every name stands for itself, and what is in sight has values of its
own type (`Fitting`). Each handler keeps it, and so does the body of a function,
which starts with the names in sight outside and no statement. `ReadingInv` carries
the result from the parser and the analyzer to the reply, with `IInv`;
`MeaningAsWritten` and `KindsAsWritten` follow.

Errors take the way up instead of the way down. `FaultsOf` starts at a statement and
narrows its suspects level by level; the proof has to follow the error that comes up
from the innermost part, through handlers that each offer a place. A suspect is where
the error will end up (`Landing`), and either it is to blame itself or one of its
parts is a suspect whose error ends up at the same place (`ExpressionPursued`, one
case for each way an expression can fail). As trees end, someone is to blame
(`ErrorFound`). `Among` then says for each handler, block and program that the errors
recorded are at such places, and with `ReadingInv` so are those of the reply
(`ErrorsPointAtInnermost`). From `TreesAssumption`, `GrammarAssumption`,
`ParserAssumption` and `AnalyzerAssumption`.

**`V10Proofs`.** Which lists `checkQubits` reads is decided by the name of an
operation, which of them are filled by the parameters of its signature. `Shapes`
relates the two for every entry of the table of signatures; `BuiltRepresentation`
says that the representation being built holds only operations that have what
their names ask for, `Pending` that what is still to be copied was resolved,
`Serving` what else holds in each phase of a call. `ChecksFindTheirQubits` and
`TypeOK` follow.

The safety part of the contract (`SafetyImplemented`) needs to know what part of
the program has been copied. `Copying` says it: `Begun` that the first k
subcircuits and n bundles of the next are those written, in their order and
with the subcircuits numbered, and that `left` and `bundles` are the rest. When
nothing is left the circuit of the object is the one written, as far as the old
classes have room for it. `Invariant` states both, `IInv` and `Copying`, of every
reachable state. From `AnalyzedAssumption`, `UnsetAssumption` and
`BoundsAssumption`.

**`V1xAnalyzerProofs`.** Six invariants, each inductive relative to those before.

* `IInv`. `Nested` relates the scope stack to the handlers: one scope more than
  handlers, and a scope is within a loop just if one of the handlers before it is.
  It is inductive for all handlers, the failing headers and the simplified loops
  among them, whatever expressions are analyzed to; `ScopesAccountedFor` and
  `ErrorModelKept` follow.
* `FitInv`. What stands in a tree is a claim about all its blocks at any depth, and
  statements move between blocks when an `if` or a loop is simplified. A statement
  is `Fitting` when it is in some set of statements that holds the statements of all
  their blocks and whose bundles hold only items that suit (`Sound`); this needs no
  induction over trees to be preserved. The levels of blocks that `AllItems`
  visits are then shown to stay in such a set, by the least level that does not.
  An instruction suits when its operands fit an overload of its name after
  promotion, a goto when its name was noted. `OperandsFit` follows.
* `JumpInv`. What is counted is finite, so no missing name and no duplicate is
  left when no error is counted. With `FitInv`, every goto of the tree is then
  one of those looked up. `JumpTargetsUnique` and `GotosResolved` follow.
* `TypeInv`. The iterations of a subcircuit are positive because every constant that
  an expression is analyzed to is a number, `Valued`, that every table holds only
  such (`Tables`), and that every function of the library computes one: sums of
  bits, products that wrap around. `TypeOK` follows.
* `BoundInv`. As long as there is no error, the last statement that binds a name in
  the global scope decides whether the table of that scope has it as a mapping, and
  the positions of the entries are those of the statements (`Listed`). At the end
  names and statements are in a bijection that keeps the order, and the k-th name
  in the sorted list is that of the k-th statement. `MappingsListed` follows.
* `NamesInv`. As long as there is no error, each name has in the table of the global
  scope the value that `NamesBehind` gives it, behind the statements written so
  far (`Follows`): statements inside blocks, failing headers, and what is
  simplified or moved do not disturb it. The steps of the argument are lemmas of their own.
  What an expression is analyzed to depends on the version and on the values of the
  names only (`SameExpression`, `SameVersion`), not on where in the tree it stands.
  Put together from the truncating division of C++, `//` and `%` are the
  floor and its rest for all integers (`DivisionIsFloor`, `FloorUnique`). Of
  identifiers declared together, the last of each name is found (`DeclaredLast`).
  The number of qubits is set once (`CountKept`). `MappingsHold` follows.

From `ConstantsAssumption`, `IntBitsAssumption`, the four assumptions on alphabet
and registry, and for `NamesInv` also `DivisionsAssumption`.

Beside the invariants, three theorems about the simplification of control flow.
`IfKeepsRuns`: the chain that is left of an `if` with constant conditions, or the
block it comes down to, has the runs of all branches written. `WhileKeepsRuns`: so
does a loop that is never entered. `RepeatKeepsRuns`: so does the body of a loop
left after its first pass, if no `break` or `continue` of the loop is in it
(`StaysInside`); the run `v1x_break` shows what happens otherwise. They are stated for
every account `R` of the runs of blocks that obeys the equations of `V1xRuns`, those
`RunsOf` of `V1xMeaning` is defined by, because `RunsOf` itself is recursive. The
proof for chains compares the branches from the last to the first, by the least
place where the runs would differ (`ChainAtPlaces`).

Sums, levels and the reference for names are recursive functions. That one exists
for every length is proved by the least length for which there is none, the only
form of induction the provers can follow here (`NamesSteps`).

### Only model-checked

* `MeaningPreserved` of `V1xAnalyzer`: the runs it compares come from recursive
  operators over blocks of any depth, `V1xMeaning`, out of the prover's reach. Its
  three simplifications are proved one by one (`IfKeepsRuns`, `WhileKeepsRuns`,
  `RepeatKeepsRuns`); that a whole program keeps its runs is not.
* `MeasuresPaired` of `V3xAnalyzer`: it needs the sizes of references to be kept by
  promotion and declaration, and that no gate is named like the measure
  instruction, which is so for the default instructions and not demanded of the
  tables of the model.
* Liveness: `AnalysisEnds`, and the parts of both contracts that say a call
  returns. The prover has no rules for fairness and `ENABLED`.

## Not modelled

* What lexers and grammars make of characters: they are the input of generators.
* The numeric results of functions, beyond integer sums, differences and
  products; complex numbers, matrices, strings, JSON.
* Annotations of version 1, beyond being there; index ranges with the width of
  their integers; expressions of version 1 deeper than two levels.
* CBOR and JSON serialisation, string building, printing, messages of errors:
  formatting without state.
* Registration of functions and instructions by the user between two analyses,
  and setters a user may call on a returned tree.
* Build and test tooling.

## Plan

1. Proofs still open: `MeaningPreserved`, with a reference that is a recursive
   function on the depth of blocks instead of a recursive operator; the theorems
   about the simplifications are its steps.
2. Index ranges of both versions with integers of a given width.
3. Registration by the user between two analyses, with what a copied table
   shares with its original.
