---------------------------- MODULE V3xEvaluation ----------------------------
(***************************************************************************)
(* The analysis of a cQASM 3 AST with expressions of any depth: how an     *)
(* expression is evaluated, which of its errors is reported, and the place *)
(* the error points at once it has passed every handler on its way up      *)
(* (AnalyzeTreeGenAstVisitor.cpp, Error::context in cqasm-error.cpp).      *)
(*                                                                         *)
(* A value carries its number, as far as integers are added, subtracted    *)
(* and multiplied, and a term: which functions were applied to what.       *)
(***************************************************************************)
EXTENDS V3xSyntax

(* calls lists the functions of the program called in a term; the number   *)
(* of such a call is that of its function.                                 *)
Term(of, v, number, kids) ==
  [of |-> of, node |-> v.node, kind |-> v.typ.kind, number |-> number, kids |-> kids,
   calls |-> (IF v.node = "function_call" THEN <<number>> ELSE <<>>)
             \o FlattenSeq([i \in DOMAIN kids |-> kids[i].calls])]

WithTerm(v, number, of, kids) ==
  [node |-> v.node, typ |-> v.typ, size |-> v.size, vars |-> v.vars, sites |-> v.sites,
   indices |-> v.indices, zero |-> v.zero,
   number |-> number, term |-> Term(of, v, number, kids)]

NoValue == [node |-> "none"]

(* How a visit ends: with a value, with an analysis error, or in a way no  *)
(* handler of the analyzer deals with: an exception of another kind, or    *)
(* undefined behaviour.                                                    *)
Found(value) == [end |-> "value", value |-> value, at |-> NoPlace]
Error(at)    == [end |-> "error", value |-> NoValue, at |-> at]
Broken       == [end |-> "broken", value |-> NoValue, at |-> NoPlace]

(* Mutant: the last handler on the way up decides.                         *)
LastContext(r, at) == IF r.end = "error" /\ at # NoPlace THEN Error(at) ELSE r

(* An error keeps the first place it is given.                             *)
Context(r, at) == IF r.end = "error" /\ r.at = NoPlace THEN Error(at) ELSE r

(* The visits of a list are made in order and stop at the first failure.   *)
Failing(rs)  == {i \in DOMAIN rs : rs[i].end # "value"}
FirstBad(rs) == rs[Min(Failing(rs))]
ValuesOf(rs) == [i \in DOMAIN rs |-> rs[i].value]

-----------------------------------------------------------------------------
(* A scope: the values of the names in sight and the functions declared.   *)
ConstantOf(name) ==
  LET m == DefaultMappings[name]
  IN  WithTerm(Const(m.kind, IF m.kind = "axis" THEN 3 ELSE 1, m.number = 0), m.number, name, <<>>)

GlobalNames == [n \in DOMAIN DefaultMappings |-> ConstantOf(n)]

(* The values computed at compile time, where a later check looks at them. *)
Computed(name, n) ==
  CASE name = "-" /\ Len(n) = 1 -> -n[1]
    [] name = "-" /\ Len(n) = 2 -> n[1] - n[2]
    [] name = "+"               -> n[1] + n[2]
    [] name = "*"               -> n[1] * n[2]
    [] OTHER                    -> 1

DividesByZero(name, params, n) == name \in {"/", "%"} /\ params = II /\ n[2] = 0

(* The overload of a table a call resolves to.                             *)
(* Mutant: the overload that was added first.                              *)
FirstAdded(table, name, args) == Min(Candidates(table, name, args))

Chosen(table, name, args) == LastCandidate(table, name, args)

Computable(name, args) ==
  /\ Candidates(DefaultFunctions, name, args) # {}
  /\ \A i \in DOMAIN args : args[i].node = "const"

Applied(f, name, args) ==
  LET numbers == [i \in DOMAIN args |-> args[i].number]
      number  == Computed(name, numbers)
  IN  IF DividesByZero(name, f.params, numbers) THEN Broken
      ELSE Found(WithTerm(Const(f.result, 1, number = 0), number, name,
                          [i \in DOMAIN args |-> args[i].term]))

Compute(name, args) ==
  Applied(DefaultFunctions[Chosen(DefaultFunctions, name, args)], name, args)

(* A call of a function of the program.                                    *)
Called(f, name, args) ==
  WithTerm(FunctionCall(f.id, f.returns, PromotedArgs(args, f.params)),
           f.id, name, [i \in DOMAIN args |-> args[i].term])

Resolved(resolution, result) ==
  CASE resolution = "escape" -> Broken
    [] resolution = "error"  -> Error(NoPlace)
    [] resolution = "match"  -> result

(* resolve_function: a C++ implementation if all arguments are constant,   *)
(* else a function of the program.                                         *)
CallWith(name, args, s) ==
  IF Resolution(DefaultFunctions, name, args) = "escape" THEN Broken
  ELSE IF Computable(name, args) THEN Compute(name, args)
  ELSE Resolved(Resolution(s.functions, name, args),
                Found(Called(s.functions[Chosen(s.functions, name, args)], name, args)))

Call(name, rs, s) ==
  IF Failing(rs) # {} THEN FirstBad(rs) ELSE CallWith(name, ValuesOf(rs), s)

-----------------------------------------------------------------------------
(* Initialization lists: constants of the highest of the element types.    *)
ListElement(v) == v.node = "const" /\ v.typ.kind \in {"bool", "int", "float"}

CheckPromote(from, to) == from = to \/ from \in PromotesFrom[to]

HighestKind(kinds) ==
  FoldLeft(LAMBDA high, kind : IF CheckPromote(kind, high) THEN high ELSE kind,
           Head(kinds), Tail(kinds))

ListOutcome(rs) ==
  LET vs == ValuesOf(rs)
      ok(i) == rs[i].end = "value" /\ ListElement(rs[i].value)
      bad   == {i \in DOMAIN rs : ~ok(i)}
  IN  IF rs = <<>> THEN Error(NoPlace)
      ELSE IF bad # {} THEN IF rs[Min(bad)].end = "value" THEN Error(NoPlace) ELSE rs[Min(bad)]
      ELSE LET kind == HighestKind([i \in DOMAIN vs |-> vs[i].typ.kind])
           IN  Found(WithTerm(Const(ArrayOf[kind], Len(vs), \A i \in DOMAIN vs : vs[i].number = 0),
                              0, "list", [i \in DOMAIN vs |-> vs[i].term]))

(* visit_const_int: the expression is visited directly, and only its own   *)
(* two checks give its place.                                              *)
ConstInt(r, at) ==
  IF r.end # "value" THEN r
  ELSE IF IsVoid(r.value) THEN Broken
  ELSE IF ~Promotable(r.value, "int") THEN Error(at)
  ELSE IF r.value.node # "const" THEN Error(at)
  ELSE r

(* What an index entry stands for: one index or all of a range.            *)
Entry(rs) ==
  IF Failing(rs) # {} THEN FirstBad(rs)
  ELSE IF rs[1].value.number > rs[Len(rs)].value.number THEN Error(NoPlace)
  ELSE Found([i \in 1 .. rs[Len(rs)].value.number - rs[1].value.number + 1
                |-> rs[1].value.number + i - 1])

IndexEntries(name, entries, s) ==
  IF name \notin DOMAIN s.names THEN Error(NoPlace)
  ELSE LET v == s.names[name]
           indices == FlattenSeq(ValuesOf(entries))
       IN  IF v.node # "variable_ref" THEN Broken
           ELSE IF v.typ.kind \notin {V, W} THEN Error(NoPlace)
           ELSE IF Failing(entries) # {} THEN FirstBad(entries)
           ELSE IF \E i \in DOMAIN indices : indices[i] \notin 0 .. v.typ.size - 1
                THEN Error(NoPlace)
           ELSE Found(WithTerm(IndexRef(CHOOSE id \in v.vars : TRUE, v.typ, indices),
                               0, name, [i \in DOMAIN indices |->
                                           Term("index", Const("int", 1, FALSE), indices[i], <<>>)]))

-----------------------------------------------------------------------------
LiteralKind == [integerLiteral |-> "int", floatLiteral |-> "float", booleanLiteral |-> "bool"]

(* Parts are visited with their places, except for the first element of a  *)
(* list and the indices.                                                   *)
Placed(es, rs) == [i \in DOMAIN es |-> Context(rs[i], es[i].at)]

Elements(es, rs) == [i \in DOMAIN es |-> IF i = 1 THEN rs[i] ELSE Context(rs[i], es[i].at)]

Indices(es, rs) == [i \in DOMAIN es |-> ConstInt(rs[i], es[i].at)]

(* Operators are calls of the functions with their names.                  *)
FunctionOf(e) == IF e.node = "functionCall" THEN e.name ELSE OperatorOf(e.node)

(* What e comes to, given what its parts come to.                          *)
Evaluate(e, rs, s) ==
  CASE e.node \in DOMAIN LiteralKind ->
         Found(WithTerm(Const(LiteralKind[e.node], 1, e.number = 0), e.number, "literal", <<>>))
    [] e.node = "identifier" ->
         IF e.name \in DOMAIN s.names THEN Found(s.names[e.name]) ELSE Error(NoPlace)
    [] e.node \in {"indexItem", "indexRange"} -> Entry(Indices(e.kids, rs))
    [] e.node = "index" -> Context(IndexEntries(e.name, rs, s), e.at)
    [] e.node = "InitializationList" -> ListOutcome(Elements(e.kids, rs))
    [] OTHER -> Call(FunctionOf(e), Placed(e.kids, rs), s)

Visits(e, s) ==
  LET visit[n \in Nodes(e)] ==
        Evaluate(n.node, [i \in DOMAIN n.node.kids |-> visit[Under(n, i)]], s)
  IN  visit

Visit(e, s) == Visits(e, s)[Standing(<<>>, e)]

VisitExpression(e, s) == Context(Visit(e, s), e.at)

VisitAll(es, s) == [i \in DOMAIN es |-> VisitExpression(es[i], s)]

-----------------------------------------------------------------------------
(* Statements.  The state of an analysis: what is in sight, the errors     *)
(* recorded so far and the statements added to the current block.          *)
EmptyProgram ==
  [names |-> GlobalNames, functions |-> <<>>, variables |-> 0, calls |-> <<>>,
   errors |-> <<>>, statements |-> <<>>, broken |-> FALSE]

Report(s, at) == [s EXCEPT !.errors = Append(@, at)]

Added(s, e, values) ==
  [s EXCEPT !.statements = Append(@, [node |-> e.node, path |-> e.path, values |-> values]),
            !.calls = @ \o FlattenSeq([i \in DOMAIN values |-> values[i].term.calls])]

(* The end of a handler: it catches analysis errors and gives them the     *)
(* place of its own node if they have none.                                *)
Conclude(s, e, r, values, at) ==
  CASE r.end = "value"  -> Added(s, e, values)
    [] r.end = "error"  -> Report(s, Context(r, at).at)
    [] OTHER            -> [s EXCEPT !.broken = TRUE]

(* The declared type of a variable: its keyword and its size, if it has    *)
(* one, of the type node.                                                  *)
Written(t) == [name |-> t.name, sized |-> t.kids # <<>>,
               size |-> IF t.kids = <<>> THEN 0 ELSE t.kids[1].number]

Declare(s, name, t) ==
  LET id == s.variables + 1
      v  == WithTerm(VariableRef(id, BuildType(Written(t))), 0, name, <<>>)
  IN  [s EXCEPT !.variables = id,
                !.names = [n \in DOMAIN @ \cup {name} |-> IF n = name THEN v ELSE @[n]]]

VisitVariable(e, s) ==
  IF CanBuildType(Written(e.kids[1])) THEN Declare(s, e.name, e.kids[1])
  ELSE Report(s, Place(e.path, "name"))

(* do_assignment                                                           *)
Assign(lhs, rhs) ==
  IF /\ lhs.size = rhs.size
     /\ Promotable(rhs, lhs.typ.kind)
     /\ ~(lhs.typ.kind = "axis" /\ rhs.zero)
  THEN Found(rhs) ELSE Error(NoPlace)

AssignTo(name, s, value) ==
  IF name \in DOMAIN s.names THEN Assign(s.names[name], value) ELSE Error(NoPlace)

Initialize(e, s, rhs) ==
  IF rhs.end # "value" THEN Conclude(s, e, rhs, <<>>, e.at)
  ELSE LET declared == VisitVariable(e, s)
       IN  Conclude(declared, e, AssignTo(e.name, declared, rhs.value), <<rhs.value>>, e.at)

VisitInitialization(e, s) == Initialize(e, s, VisitExpression(e.kids[2], s))

AssignmentResult(rs) ==
  IF Failing(rs) # {} THEN FirstBad(rs)
  ELSE IF ~IsReference(rs[1].value) THEN Error(NoPlace)
  ELSE Assign(rs[1].value, rs[2].value)

VisitAssignment(e, s) ==
  LET rs == VisitAll(e.kids, s)
  IN  Conclude(s, e, AssignmentResult(rs), ValuesOf(rs), e.at)

(* visit_return_statement has no handler; that of visit_block adds the     *)
(* place of the block, which has none.                                     *)
ConcludeWith(s, e, r, at) == Conclude(s, e, r, <<r.value>>, at)

VisitReturn(e, s) == ConcludeWith(s, e, VisitExpression(e.kids[1], s), NoPlace)

(* Only a call is allowed, and errors get the place of the expression.     *)
VisitExpressionStatement(e, s) ==
  ConcludeWith(s, e,
               IF e.kids[1].node = "functionCall" THEN Visit(e.kids[1], s) ELSE Error(NoPlace),
               e.kids[1].at)

InstructionResult(name, values) ==
  Resolved(Resolution(DefaultInstructions, name, values), Found(values))

GateResult(name, rs) ==
  IF Failing(rs) # {} THEN FirstBad(rs) ELSE InstructionResult(name, ValuesOf(rs))

VisitGate(e, s) ==
  LET rs == VisitAll(e.kids, s)
  IN  Conclude(s, e, GateResult(e.name, rs), ValuesOf(rs), e.at)

(* A measurement also compares how many bits and qubits are named.         *)
Named(v) == IF IsReference(v) THEN v.size ELSE 0

Measured(resolved, rs) ==
  IF resolved.end = "value" /\ Named(rs[1].value) # Named(rs[2].value) THEN Error(NoPlace)
  ELSE resolved

MeasureResult(rs) ==
  IF Failing(rs) # {} THEN FirstBad(rs)
  ELSE Measured(InstructionResult("measure", ValuesOf(rs)), rs)

VisitMeasure(e, s) ==
  LET rs == VisitAll(e.kids, s)
  IN  Conclude(s, e, MeasureResult(rs), ValuesOf(rs), e.at)

(* A statement of a block within a function or outside of any.             *)
VisitLocal(e, s) ==
  CASE e.node = "variableDefinition"     -> VisitVariable(e, s)
    [] e.node = "variableInitialization" -> VisitInitialization(e, s)
    [] e.node = "assignmentStatement"    -> VisitAssignment(e, s)
    [] e.node = "returnStatement"        -> VisitReturn(e, s)
    [] e.node = "expressionStatement"    -> VisitExpressionStatement(e, s)
    [] e.node = "gate"                   -> VisitGate(e, s)
    [] e.node = "measureInstruction"     -> VisitMeasure(e, s)

(* The states of a visit, up to each statement; nothing after a visit no   *)
(* handler deals with.                                                     *)
LocalStates(es, s) ==
  LET after[i \in 0 .. Len(es)] ==
        IF i = 0 THEN s
        ELSE LET prior == after[i - 1]
             IN  IF prior.broken THEN prior ELSE VisitLocal(es[i], prior)
  IN  after

VisitBody(es, s) == LocalStates(es, s)[Len(es)]

(* visit_function: its own scope for parameters and body; the function is  *)
(* added when its returns have the declared type.                          *)
ReturnedBy(statements) ==
  LET rs == SelectSeq(statements, LAMBDA r : r.node = "returnStatement")
  IN  [i \in DOMAIN rs |-> rs[i].values[1]]

ParameterKinds(definitions) ==
  LET legible == SelectSeq(definitions, LAMBDA d : CanBuildType(Written(d.kids[1])))
  IN  [i \in DOMAIN legible |-> BuildType(Written(legible[i].kids[1])).kind]

(* The first value that is not of the return type decides.                 *)
CheckReturns(values, returns) ==
  LET bad == {i \in DOMAIN values : IsVoid(values[i]) \/ ~Promotable(values[i], returns.kind)}
  IN  CASE (returns = NoType) # (values = <<>>) -> Error(NoPlace)
        [] returns = NoType \/ bad = {}         -> Found(NoValue)
        [] OTHER -> IF IsVoid(values[Min(bad)]) THEN Broken ELSE Error(NoPlace)

(* The scope of the body is left in any case.                              *)
LeaveFunction(e, s, body, returns) ==
  LET left == [body EXCEPT !.names = s.names, !.statements = s.statements]
      checked == CheckReturns(ReturnedBy(body.statements), returns)
  IN  CASE body.broken \/ checked.end = "broken" -> [left EXCEPT !.broken = TRUE]
        [] checked.end = "error" -> Report(left, e.at)
        [] checked.end = "value" ->
             [left EXCEPT !.functions =
               Append(@, [id |-> Len(s.functions) + 1, name |-> e.name, returns |-> returns,
                          params |-> ParameterKinds(e.kids[1].kids)])]

VisitFunction(e, s) ==
  LET type == e.kids[2].kids IN
  IF type # <<>> /\ ~CanBuildType(Written(type[1])) THEN Report(s, e.at)
  ELSE LeaveFunction(e, s,
         VisitBody(e.kids[1].kids \o e.kids[3].kids, [s EXCEPT !.statements = <<>>]),
         IF type = <<>> THEN NoType ELSE BuildType(Written(type[1])))

VisitStatement(e, s) ==
  IF e.node = "functionDeclaration" THEN VisitFunction(e, s) ELSE VisitLocal(e, s)

GlobalStates(es, s) ==
  LET after[i \in 0 .. Len(es)] ==
        IF i = 0 THEN s
        ELSE LET prior == after[i - 1]
             IN  IF prior.broken THEN prior ELSE VisitStatement(es[i], prior)
  IN  after

VisitBlock(es, s) == GlobalStates(es, s)[Len(es)]

(* The program behind its version.  The tree is ill-formed when a function *)
(* is called twice: both calls hold the node of the function table.        *)
AnalyzeProgram(root) == VisitBlock(root.kids[2].kids, EmptyProgram)

WellFormed(s) == \A i, j \in DOMAIN s.calls : s.calls[i] = s.calls[j] => i = j
=============================================================================
