----------------------------- MODULE V3xAnalyzer -----------------------------
(***************************************************************************)
(* The cQASM 3 semantic analyzer: one Analyzer object, and the sequence of *)
(* analyze calls made on it (cqasm-analyzer.cpp,                           *)
(* AnalyzeTreeGenAstVisitor.cpp, cqasm-resolver.cpp).                      *)
(*                                                                         *)
(* Every action is one visit_* handler applied to one statement of a       *)
(* program; the programs are all the sequences of statements of the        *)
(* alphabet given by the constants.                                        *)
(***************************************************************************)
EXTENDS V3xValues

CONSTANTS
  Names,          (* identifiers of variables, parameters and functions      *)
  Mappings,       (* the names registered before the first analysis          *)
  MappedValue,    (* Mappings -> Value: the constants they stand for         *)
  FunctionImpls,  (* overloads with a C++ implementation, as registered      *)
  Instructions,   (* overloads of the instruction set, as registered         *)
  VariableDecls,  (* alphabet: [name, type]                                  *)
  FunctionDecls,  (* alphabet: [name, returns (written types, at most one)]  *)
  Initializations,(* alphabet: [name, type, rhs]                             *)
  Statements,     (* alphabet: [node, name, operands] of the other kinds     *)
  MaxVisits,      (* bound: statements visited in a session                  *)
  MaxAnalyses     (* bound: analyze calls in a session                       *)

VARIABLES
  vars,        (* every semantic::Variable made, by identity: name and type  *)
  scope_stack, (* Analyzer::scope_stack_, the global scope first             *)
  functions,   (* global_scope().functions and, in lockstep, function_table  *)
  phase,       (* the handler running                                        *)
  frame,       (* the function visit_function is in                          *)
  errors,      (* number of errors in result_.errors                         *)
  results,     (* what each analyze call ended with                          *)
  visits       (* bound counter                                              *)

NoFrame == [name |-> "none"]

state == <<vars, scope_stack, functions, phase, frame, errors, results, visits>>

-----------------------------------------------------------------------------
(* Syntax.  An expression is a literal, an identifier, an index or a call. *)
(* Arguments are literals, identifiers, indices and calls without          *)
(* arguments; deeper nesting evaluates in the same way.  The indices of an *)
(* index are the list its items and ranges expand to.                      *)
SimpleExpression ==
       [node : {"literal"}, value : Literal]
  \cup [node : {"identifier"}, name : Names]
  \cup [node : {"index"}, name : Names, indices : Seq(Nat)]
  \cup [node : {"call"}, name : Names, args : {<<>>}]

Expression == SimpleExpression \cup [node : {"call"}, name : Names, args : Seq(SimpleExpression)]

(* The statements but the declarations; name is that of an instruction.    *)
WrittenStatement ==
       [node : {"assignment"}, operands : Expression \X Expression]
  \cup [node : {"return", "expression"}, operands : [1 .. 1 -> Expression]]
  \cup [node : {"gate", "measure"}, name : STRING, operands : Seq(Expression)]

ASSUME ConstantsAssumption ==
  /\ Mappings \subseteq Names
  /\ MappedValue \in [Mappings -> Literal]
  /\ FunctionImpls \in Seq([name : Names, params : Seq(Kinds), result : Kinds])
  /\ Instructions \in Seq([name : STRING, params : Seq(Kinds)])
  /\ VariableDecls \subseteq [name : Names, type : WrittenType]
  /\ FunctionDecls \subseteq [name : Names, returns : SUBSET WrittenType]
  /\ Initializations \subseteq [name : Names, type : WrittenType, rhs : Expression]
  /\ Statements \subseteq WrittenStatement
  /\ MaxVisits \in Nat /\ MaxAnalyses \in Nat

-----------------------------------------------------------------------------
(* The scope stack.  Adding a name to a variable table drops the entry it  *)
(* had.                                                                    *)
Absent           == [node |-> "absent"]
Current          == scope_stack[Len(scope_stack)]
EmptyScope       == [variable_table |-> [n \in Names |-> Absent],
                     variables |-> <<>>, block |-> <<>>]
PushScope        == Append(scope_stack, EmptyScope)

(* Mutant: the names of the scope that is popped stay visible.             *)
PopScopeKeepingNames ==
  LET outer == scope_stack[Len(scope_stack) - 1]
  IN  Append(SubSeq(scope_stack, 1, Len(scope_stack) - 2),
             [outer EXCEPT !.variable_table =
                [n \in Names |-> IF Current.variable_table[n] # Absent
                                 THEN Current.variable_table[n] ELSE @[n]]])

PopScope == SubSeq(scope_stack, 1, Len(scope_stack) - 1)

(* Mutant: the table's insert without the erase before it.                 *)
InsertOnly(table, name, value) ==
  IF table[name] = Absent THEN [table EXCEPT ![name] = value] ELSE table

TableAdd(table, name, value) == [table EXCEPT ![name] = value]

WithVariable(scope, id, name, type) ==
  [scope EXCEPT !.variables      = Append(@, id),
                !.variable_table = TableAdd(@, name, VariableRef(id, type))]

WithStatement(scope, node, operands) ==
  [scope EXCEPT !.block = Append(@, [node |-> node, operands |-> operands])]

(* Mutant: the other end of the stack.                                     *)
ReplaceGlobal(scope) == [scope_stack EXCEPT ![1] = scope]

ReplaceCurrent(scope) == [scope_stack EXCEPT ![Len(scope_stack)] = scope]

(* resolve_variable takes the innermost scope that knows the name.         *)
Declaring(name) == {d \in DOMAIN scope_stack : scope_stack[d].variable_table[name] # Absent}
Visible(name)   == Declaring(name) # {}
Lookup(name)    == scope_stack[Max(Declaring(name))].variable_table[name]

-----------------------------------------------------------------------------
(* Expressions.  Evaluating one gives a value or an analysis error; it may *)
(* also let an exception escape that no handler catches, or crash: an      *)
(* index into a name that stands for a constant follows a null pointer.    *)
(* Mutant: the size is taken for a legal index.                            *)
IndexOutcomeOffByOne(e) ==
  IF ~Visible(e.name) THEN "error"
  ELSE LET v == Lookup(e.name)
       IN  IF v.node # "variable_ref" THEN "crash"
           ELSE IF /\ v.typ.kind \in {"qubit_array", "bit_array"}
                   /\ \A i \in DOMAIN e.indices : e.indices[i] <= v.typ.size
                THEN "value" ELSE "error"

IndexOutcome(e) ==
  IF ~Visible(e.name) THEN "error"
  ELSE LET v == Lookup(e.name)
       IN  IF v.node # "variable_ref" THEN "crash"
           ELSE IF /\ v.typ.kind \in {"qubit_array", "bit_array"}
                   /\ \A i \in DOMAIN e.indices : e.indices[i] < v.typ.size
                THEN "value" ELSE "error"

(* Mutant: a function is registered before its body is visited.            *)
FunctionTableEarly ==
  IF phase = "body"
  THEN Append(functions, [name |-> frame.name, params |-> frame.params,
                          return_type |-> frame.return_type,
                          block |-> <<>>, variables |-> <<>>])
  ELSE functions

(* The functions a call may name: those whose visit is over.               *)
FunctionTable == functions

(* resolve_function: a C++ implementation first.  It refuses arguments     *)
(* that are not constant, and any analysis error of it is swallowed.       *)
ImplApplies(name, args) ==
  /\ Resolution(FunctionImpls, name, args) = "match"
  /\ \A i \in DOMAIN args : args[i].node = "const"

CallOutcome(name, args) ==
  IF Resolution(FunctionImpls, name, args) = "escape"     THEN "escape"
  ELSE IF ImplApplies(name, args)                         THEN "value"
  ELSE IF Resolution(FunctionTable, name, args) = "match" THEN "value"
  ELSE Resolution(FunctionTable, name, args)

CallValue(name, args) ==
  IF ImplApplies(name, args)
  THEN Const(FunctionImpls[LastCandidate(FunctionImpls, name, args)].result, 1, FALSE)
  ELSE LET k == LastCandidate(FunctionTable, name, args)
           f == FunctionTable[k]
       IN  FunctionCall(k, f.return_type, PromotedArgs(args, f.params))

SimpleOutcome(e) ==
  CASE e.node = "literal"    -> "value"
    [] e.node = "identifier" -> IF Visible(e.name) THEN "value" ELSE "error"
    [] e.node = "index"      -> IndexOutcome(e)
    [] e.node = "call"       -> CallOutcome(e.name, <<>>)

SimpleValue(e) ==
  CASE e.node = "literal"    -> e.value
    [] e.node = "identifier" -> Lookup(e.name)
    [] e.node = "index"      -> LET v == Lookup(e.name)
                                IN  IndexRef(CHOOSE id \in v.vars : TRUE, v.typ, e.indices)
    [] e.node = "call"       -> CallValue(e.name, <<>>)

(* Operands are visited in order: the first that fails decides.            *)
FirstFailure(outcomes) ==
  LET failing == {i \in DOMAIN outcomes : outcomes[i] # "value"}
  IN  IF failing = {} THEN "value" ELSE outcomes[Min(failing)]

ArgValues(e) == [i \in DOMAIN e.args |-> SimpleValue(e.args[i])]

Outcome(e) ==
  IF e.node # "call" THEN SimpleOutcome(e)
  ELSE LET visited == FirstFailure([i \in DOMAIN e.args |-> SimpleOutcome(e.args[i])])
       IN  IF visited # "value" THEN visited ELSE CallOutcome(e.name, ArgValues(e))

ValueOf(e) == IF e.node # "call" THEN SimpleValue(e) ELSE CallValue(e.name, ArgValues(e))

OperandsOutcome(es) == FirstFailure([i \in DOMAIN es |-> Outcome(es[i])])
OperandValues(es)   == [i \in DOMAIN es |-> ValueOf(es[i])]

-----------------------------------------------------------------------------
(* How a visit ends.                                                       *)
Ended(how) == [ended |-> how, errors |-> errors, scope |-> 0, variables |-> <<>>, functions |-> 0]

(* Mutant: the error is caught and not reported.                           *)
FailSilently == UNCHANGED <<vars, scope_stack, functions, phase, frame, errors, results>>

(* An analysis error is caught by the handler, or by visit_block.          *)
Fail == /\ errors' = errors + 1
        /\ UNCHANGED <<vars, scope_stack, functions, phase, frame, results>>

(* Any other exception leaves every handler, visit_function included,      *)
(* which then has not popped the scope it pushed.                          *)
Escape(stack) ==
  /\ scope_stack' = stack
  /\ phase' = "idle"
  /\ frame' = NoFrame
  /\ results' = Append(results, Ended(IF phase = "global" THEN "escaped" ELSE "leaked"))
  /\ UNCHANGED <<vars, functions, errors>>

Crash == /\ phase' = "crashed"
         /\ UNCHANGED <<vars, scope_stack, functions, frame, errors, results>>

Recorded(node, operands) ==
  /\ scope_stack' = ReplaceCurrent(WithStatement(Current, node, operands))
  /\ UNCHANGED <<vars, functions, phase, frame, errors, results>>

Conclude(outcome, node, operands) ==
  \/ outcome = "value"  /\ Recorded(node, operands)
  \/ outcome = "error"  /\ Fail
  \/ outcome = "escape" /\ Escape(scope_stack)
  \/ outcome = "crash"  /\ Crash

Visit(phases) == /\ phase \in phases
                 /\ visits < MaxVisits
                 /\ visits' = visits + 1

-----------------------------------------------------------------------------
(* visit_variable: a local or global declaration, or a parameter.          *)
VisitVariable(d) ==
  /\ Visit({"global", "parameters", "body"})
  /\ IF CanBuildType(d.type)
     THEN /\ vars' = Append(vars, [name |-> d.name, typ |-> BuildType(d.type)])
          /\ scope_stack' = ReplaceCurrent(
                              WithVariable(Current, Len(vars'), d.name, BuildType(d.type)))
          /\ UNCHANGED <<functions, phase, frame, errors, results>>
     ELSE Fail

(* do_assignment                                                           *)
CanAssign(lhs, rhs) ==
  /\ rhs.size = lhs.size
  /\ Promotable(rhs, lhs.typ.kind)
  /\ ~(lhs.typ.kind = "axis" /\ rhs.zero)

Assigned(lhs, rhs) == <<lhs, Promoted(rhs, lhs.typ.kind)>>

(* visit_initialization visits the right-hand side, then declares, then    *)
(* resolves the name: to an older variable, or to a constant, when the     *)
(* declaration failed.  The declaration stays when the assignment fails.   *)
Initialize(d, rhs) ==
  LET declared == CanBuildType(d.type)
      id       == Len(vars) + 1
      lhs      == IF declared THEN VariableRef(id, BuildType(d.type)) ELSE Lookup(d.name)
      scope    == IF declared THEN WithVariable(Current, id, d.name, BuildType(d.type))
                              ELSE Current
      assigned == (declared \/ Visible(d.name)) /\ CanAssign(lhs, rhs)
  IN  /\ vars' = IF declared THEN Append(vars, [name |-> d.name, typ |-> BuildType(d.type)])
                             ELSE vars
      /\ scope_stack' = ReplaceCurrent(IF assigned
                                       THEN WithStatement(scope, "initialization", Assigned(lhs, rhs))
                                       ELSE scope)
      /\ errors' = errors + (IF declared THEN 0 ELSE 1) + (IF assigned THEN 0 ELSE 1)
      /\ UNCHANGED <<functions, phase, frame, results>>

VisitInitialization(d) ==
  /\ Visit({"global", "body"})
  /\ \/ Outcome(d.rhs) = "value"  /\ Initialize(d, ValueOf(d.rhs))
     \/ Outcome(d.rhs) = "error"  /\ Fail
     \/ Outcome(d.rhs) = "escape" /\ Escape(scope_stack)
     \/ Outcome(d.rhs) = "crash"  /\ Crash

VisitAssignment(s) ==
  LET values  == OperandValues(s.operands)
      visited == OperandsOutcome(s.operands)
  IN  /\ s.node = "assignment"
      /\ Visit({"global", "body"})
      /\ IF visited # "value" THEN Conclude(visited, "assignment", <<>>)
         ELSE IF IsReference(values[1]) /\ CanAssign(values[1], values[2])
         THEN Conclude("value", "assignment", Assigned(values[1], values[2]))
         ELSE Fail

(* visit_return_statement: accepted in any block, checked by visit_function *)
VisitReturn(s) ==
  /\ s.node = "return"
  /\ Visit({"global", "body"})
  /\ Conclude(OperandsOutcome(s.operands), "return", OperandValues(s.operands))

VisitExpressionStatement(s) ==
  /\ s.node = "expression"
  /\ Visit({"global", "body"})
  /\ IF s.operands[1].node = "call"
     THEN Conclude(OperandsOutcome(s.operands), "call", OperandValues(s.operands))
     ELSE Fail

-----------------------------------------------------------------------------
(* Instructions: resolve_instruction; measure compares how many qubits and *)
(* bits its operands name.                                                 *)
InstructionOutcome(name, args) ==
  IF Resolution(Instructions, name, args) = "match" THEN "value"
  ELSE Resolution(Instructions, name, args)

InstructionOperands(name, args) ==
  PromotedArgs(args, Instructions[LastCandidate(Instructions, name, args)].params)

VisitGate(s) ==
  LET visited == OperandsOutcome(s.operands)
      values  == OperandValues(s.operands)
  IN  /\ s.node = "gate"
      /\ Visit({"global", "body"})
      /\ IF visited # "value" \/ InstructionOutcome(s.name, values) # "value"
         THEN Conclude(IF visited # "value" THEN visited
                       ELSE InstructionOutcome(s.name, values), "instruction", <<>>)
         ELSE Recorded("instruction", InstructionOperands(s.name, values))

(* How many qubits, or bits, the references among the operands name.       *)
Indices(values, kinds) ==
  MapThenSumSet(LAMBDA i : values[i].size,
                {i \in DOMAIN values : IsReference(values[i]) /\ values[i].typ.kind \in kinds})

SameQubitAndBitIndices(values) ==
  Indices(values, {"qubit", "qubit_array"}) = Indices(values, {"bit", "bit_array"})

VisitMeasure(s) ==
  LET visited == OperandsOutcome(s.operands)
      values  == OperandValues(s.operands)
  IN  /\ s.node = "measure"
      /\ Visit({"global", "body"})
      /\ IF visited # "value" \/ InstructionOutcome(s.name, values) # "value"
         THEN Conclude(IF visited # "value" THEN visited
                       ELSE InstructionOutcome(s.name, values), "instruction", <<>>)
         ELSE IF SameQubitAndBitIndices(values)
         THEN Recorded("instruction", InstructionOperands(s.name, values))
         ELSE Fail

-----------------------------------------------------------------------------
(* visit_function.  The function is registered when its body is done: the  *)
(* body cannot call it.                                                    *)
EnterFunction(f) ==
  /\ Visit({"global"})
  /\ IF \A t \in f.returns : CanBuildType(t)
     THEN /\ scope_stack' = PushScope
          /\ phase' = "parameters"
          /\ frame' = [name |-> f.name, params |-> <<>>, return_type |->
                        IF f.returns = {} THEN NoType
                        ELSE BuildType(CHOOSE t \in f.returns : TRUE)]
          /\ UNCHANGED <<vars, functions, errors, results>>
     ELSE Fail

(* The parameter types are those of the parameters that could be declared. *)
VisitFunctionBody ==
  /\ phase = "parameters"
  /\ phase' = "body"
  /\ frame' = [frame EXCEPT !.params = [i \in DOMAIN Current.variables |->
                                          vars[Current.variables[i]].typ.kind]]
  /\ UNCHANGED <<vars, scope_stack, functions, errors, results, visits>>

Returns(block) == {i \in DOMAIN block : block[i].node = "return"}

(* The return values are promoted in place, up to the first that fails.    *)
PromoteReturns(block, kind, last) ==
  [i \in DOMAIN block |->
     IF block[i].node = "return" /\ i <= last
     THEN [block[i] EXCEPT !.operands = <<Promoted(@[1], kind)>>]
     ELSE block[i]]

(* Mutant: the first return statement only.                                *)
FirstUnpromotable(block, kind) ==
  {i \in {Min(Returns(block))} : \/ IsVoid(block[i].operands[1])
                                 \/ ~Promotable(block[i].operands[1], kind)}

Unpromotable(block, kind) ==
  {i \in Returns(block) : \/ IsVoid(block[i].operands[1])
                          \/ ~Promotable(block[i].operands[1], kind)}

FrameFunction(block) ==
  [name |-> frame.name, params |-> frame.params, return_type |-> frame.return_type,
   block |-> block, variables |-> Current.variables]

(* Mutant: a function takes the place of an earlier one with its name.     *)
RegisterReplacing(block) ==
  LET same == {k \in DOMAIN functions : functions[k].name = frame.name}
  IN  /\ functions' = IF same = {} THEN Append(functions, FrameFunction(block))
                      ELSE [functions EXCEPT ![Min(same)] = FrameFunction(block)]
      /\ scope_stack' = PopScope
      /\ phase' = "global"
      /\ frame' = NoFrame
      /\ UNCHANGED <<vars, errors, results>>

(* Mutant: the function is left without its list of variables.             *)
RegisterWithoutVariables(block) ==
  /\ functions' = Append(functions, [FrameFunction(block) EXCEPT !.variables = <<>>])
  /\ scope_stack' = PopScope
  /\ phase' = "global"
  /\ frame' = NoFrame
  /\ UNCHANGED <<vars, errors, results>>

Register(block) ==
  /\ functions' = Append(functions, FrameFunction(block))
  /\ scope_stack' = PopScope
  /\ phase' = "global"
  /\ frame' = NoFrame
  /\ UNCHANGED <<vars, errors, results>>

(* Mutant: the error path leaves visit_function before pop_scope.          *)
RejectWithoutPop ==
  /\ phase' = "global"
  /\ frame' = NoFrame
  /\ errors' = errors + 1
  /\ UNCHANGED <<vars, scope_stack, functions, results>>

(* Mutant: the error path pops the scope as well as the end of the handler. *)
RejectPoppingTwice ==
  /\ scope_stack' = SubSeq(scope_stack, 1, Len(scope_stack) - 2)
  /\ phase' = "global"
  /\ frame' = NoFrame
  /\ errors' = errors + 1
  /\ UNCHANGED <<vars, functions, results>>

Reject ==
  /\ scope_stack' = PopScope
  /\ phase' = "global"
  /\ frame' = NoFrame
  /\ errors' = errors + 1
  /\ UNCHANGED <<vars, functions, results>>

LeaveFunction ==
  LET block  == Current.block
      kind   == frame.return_type.kind
      failed == Unpromotable(block, kind)
  IN  /\ phase = "body"
      /\ UNCHANGED visits
      /\ IF (Returns(block) = {}) # (frame.return_type = NoType) THEN Reject
         ELSE IF Returns(block) = {} THEN Register(block)
         ELSE IF failed = {}         THEN Register(PromoteReturns(block, kind, Len(block)))
         ELSE IF IsVoid(block[Min(failed)].operands[1])
         THEN Escape(ReplaceCurrent([Current EXCEPT !.block =
                       PromoteReturns(block, kind, Min(failed) - 1)]))
         ELSE Reject

-----------------------------------------------------------------------------
(* The tree a result holds.  Its block is not a copy but the block of the  *)
(* scope the analysis ended in; the lists of variables and functions are.  *)
Links(block) ==
  UNION {UNION {block[i].operands[j].vars : j \in DOMAIN block[i].operands} : i \in DOMAIN block}

(* The call sites of a block, each with the function called.               *)
Calls(block) ==
  UNION {UNION {{<<i, j, s[1], s[2]>> : s \in block[i].operands[j].sites}
                  : j \in DOMAIN block[i].operands} : i \in DOMAIN block}

Callees(block) == {c[4] : c \in Calls(block)}

(* The blocks of a tree: its own, numbered 0, and that of each function.   *)
TreeBlock(r, k)  == IF k = 0 THEN scope_stack[r.scope].block ELSE functions[k].block
TreeVariables(r) == Range(r.variables) \cup
                    UNION {Range(functions[k].variables) : k \in 1 .. r.functions}

Closed(r) == \A k \in 0 .. r.functions : /\ Links(TreeBlock(r, k)) \subseteq TreeVariables(r)
                                         /\ Callees(TreeBlock(r, k)) \subseteq 1 .. r.functions

(* All the calls of a function hold the one FunctionRef node registered    *)
(* for it, and no node may occur twice in a tree.                          *)
Unshared(r) ==
  \A k, l \in 0 .. r.functions : \A c \in Calls(TreeBlock(r, k)), d \in Calls(TreeBlock(r, l)) :
    c[4] = d[4] => k = l /\ c = d

WellFormed(r) == Closed(r) /\ Unshared(r)

-----------------------------------------------------------------------------
(* analyze.  A file whose version is too high, or that does not parse, is  *)
(* refused before the tree is visited.                                     *)
CanAnalyze == phase = "idle" /\ Len(results) < MaxAnalyses

Refuse ==
  /\ CanAnalyze
  /\ results' = Append(results, Ended("refused"))
  /\ UNCHANGED <<vars, scope_stack, functions, phase, frame, errors, visits>>

(* visit_version leaves one error when a tree analyzed directly is of a    *)
(* later version.                                                          *)
Analyze ==
  /\ CanAnalyze
  /\ phase' = "global"
  /\ errors' \in {0, 1}
  /\ UNCHANGED <<vars, scope_stack, functions, frame, results, visits>>

(* The tree visit_program builds.                                          *)
Root == [ended |-> "returned", errors |-> errors, scope |-> Len(scope_stack),
         variables |-> Current.variables, functions |-> Len(functions)]

(* Mutant: an analysis with errors does not return.                        *)
FinishWithoutErrors ==
  /\ phase = "global"
  /\ errors = 0
  /\ phase' = "idle"
  /\ results' = Append(results, IF WellFormed(Root) THEN Root ELSE Ended("internal_error"))
  /\ UNCHANGED <<vars, scope_stack, functions, frame, errors, visits>>

Finish ==
  /\ phase = "global"
  /\ phase' = "idle"
  /\ results' = Append(results, IF errors = 0 /\ ~WellFormed(Root)
                                THEN Ended("internal_error") ELSE Root)
  /\ UNCHANGED <<vars, scope_stack, functions, frame, errors, visits>>

-----------------------------------------------------------------------------
(* A default analyzer: one scope, which holds the mappings.                *)
GlobalScope == [EmptyScope EXCEPT !.variable_table =
                  [n \in Names |-> IF n \in Mappings THEN MappedValue[n] ELSE Absent]]

Init ==
  /\ vars = <<>>
  /\ scope_stack = <<GlobalScope>>
  /\ functions = <<>>
  /\ phase = "idle"
  /\ frame = NoFrame
  /\ errors = 0
  /\ results = <<>>
  /\ visits = 0

VisitStatement ==
  \/ \E d \in VariableDecls : VisitVariable(d)
  \/ \E d \in Initializations : VisitInitialization(d)
  \/ \E s \in Statements : \/ VisitAssignment(s)
                           \/ VisitReturn(s)
                           \/ VisitExpressionStatement(s)
                           \/ VisitGate(s)
                           \/ VisitMeasure(s)

Continue == VisitFunctionBody \/ LeaveFunction \/ Finish

Next ==
  \/ Refuse
  \/ Analyze
  \/ VisitStatement
  \/ \E f \in FunctionDecls : EnterFunction(f)
  \/ Continue

Spec == Init /\ [][Next]_state

(* An analysis runs on the caller's thread until it returns or throws.     *)
FairSpec == Spec /\ WF_state(Continue)

-----------------------------------------------------------------------------
(* The state's shape.                                                      *)
Variable  == [name : Names, typ : Type]
Statement == [node : {"initialization", "assignment", "call", "instruction"},
              operands : Seq(Value)]
             \cup [node : {"return"}, operands : [1 .. 1 -> Value]]
Scope     == [variable_table : [Names -> Literal \cup Reference \cup {Absent}],
              variables : Seq(Nat), block : Seq(Statement)]
Function  == [name : Names, params : Seq(Kinds), return_type : TypeOrNone,
              block : Seq(Statement), variables : Seq(Nat)]
Frame     == [name : Names, params : Seq(Kinds), return_type : TypeOrNone]
Result    == [ended : {"refused", "returned", "internal_error", "escaped", "leaked"},
              errors : Nat, scope : Nat, variables : Seq(Nat), functions : Nat]

TypeOK ==
  /\ vars \in Seq(Variable)
  /\ scope_stack \in Seq(Scope) /\ Len(scope_stack) > 0
  /\ functions \in Seq(Function)
  /\ phase \in {"idle", "global", "parameters", "body", "crashed"}
  /\ frame \in Frame \cup {NoFrame}
  /\ phase \in {"parameters", "body"} => frame \in Frame /\ Len(scope_stack) > 1
  /\ errors \in Nat
  /\ results \in Seq(Result)
  /\ visits \in 0 .. MaxVisits

-----------------------------------------------------------------------------
(* Properties.                                                             *)
InFunction == phase \in {"parameters", "body"}
Leaks      == {i \in DOMAIN results : results[i].ended = "leaked"}
Outer      == IF InFunction THEN Len(scope_stack) - 1 ELSE Len(scope_stack)

VariablesUpTo(d) == UNION {Range(scope_stack[e].variables) : e \in 1 .. d}

(* Each scope on the stack is the global one, the one of the function      *)
(* being visited, or one left behind by an exception that went through     *)
(* visit_function past its pop_scope: no other path leaves a scope pushed  *)
(* or pops one too many.                                                   *)
ScopesAccountedFor ==
  phase # "crashed" =>
    Len(scope_stack) = 1 + Cardinality(Leaks) + (IF InFunction THEN 1 ELSE 0)

(* A statement only links to variables of its own scope or of the scopes   *)
(* around it, also after its function was left and its scope popped: no    *)
(* link dangles, and no local of one function is seen from another         *)
(* (resolve_variable, push_scope, pop_scope).                              *)
LexicalScoping ==
  /\ \A d \in DOMAIN scope_stack : Links(scope_stack[d].block) \subseteq VariablesUpTo(d)
  /\ \A k \in DOMAIN functions :
       Links(functions[k].block) \subseteq Range(functions[k].variables) \cup VariablesUpTo(Outer)

(* Within a scope a name stands for the last variable declared with it,    *)
(* though all of them stay in the scope's list (VariableTable::add).       *)
TableHoldsNewest ==
  \A d \in DOMAIN scope_stack : \A i \in DOMAIN scope_stack[d].variables :
    LET scope == scope_stack[d]
        id    == scope.variables[i]
    IN  (\A j \in i + 1 .. Len(scope.variables) : vars[scope.variables[j]].name # vars[id].name)
          => scope.variable_table[vars[id].name] = VariableRef(id, vars[id].typ)

(* While a function is visited the scopes around it do not change: what    *)
(* its body declares or does stays in its own scope, whatever its visit    *)
(* ends with.                                                              *)
OuterScopesUntouched ==
  [][InFunction => \A d \in 1 .. Len(scope_stack) - 1 :
                     d \in DOMAIN scope_stack' /\ scope_stack'[d] = scope_stack[d]]_state

(* A function calls only functions finished before it: there is no         *)
(* recursion, direct or mutual, in any tree (visit_function registers the  *)
(* function after its body).                                               *)
NoRecursion ==
  /\ \A k \in DOMAIN functions : Callees(functions[k].block) \subseteq 1 .. k - 1
  /\ \A d \in DOMAIN scope_stack : Callees(scope_stack[d].block) \subseteq DOMAIN functions

(* What the analyzer promises about calls is the specification CallOrder:  *)
(* a function, once registered, never changes, and its calls are to the    *)
(* functions registered before it.                                         *)
CallOrderOf == INSTANCE CallOrder WITH
                 calls <- [k \in DOMAIN functions |-> Callees(functions[k].block)]

ImplementsCallOrder == CallOrderOf!Spec

(* A function that can be called returns from its block exactly when it    *)
(* has a return type, and each value it returns is of that type or can be  *)
(* promoted to it.                                                         *)
ReturnsMatchSignature ==
  \A k \in DOMAIN functions :
    LET f == functions[k]
    IN  /\ (Returns(f.block) = {}) <=> (f.return_type = NoType)
        /\ \A i \in Returns(f.block) : Promotable(f.block[i].operands[1], f.return_type.kind)

(* The tree being built holds every variable and function it links to, as  *)
(* long as no exception has leaked a scope: the internal error of analyze  *)
(* can then only come from a node that occurs twice.                       *)
TreeClosed == phase = "global" /\ Leaks = {} => Closed(Root)

(* An index into a variable stays below the size of that variable, even    *)
(* when the name is declared again with another size.                      *)
IndicesInRange ==
  \A k \in 0 .. Len(functions) : \A d \in DOMAIN scope_stack :
    LET block == IF k = 0 THEN scope_stack[d].block ELSE functions[k].block
    IN  \A i \in DOMAIN block : \A j \in DOMAIN block[i].operands :
          LET v == block[i].operands[j]
          IN  \A n \in DOMAIN v.indices : \A id \in v.vars : v.indices[n] < vars[id].typ.size

(* How many qubits or bits a reference names: as many as it has indices,   *)
(* or all of the variable, as that was declared.                           *)
DeclaredType(v) == vars[CHOOSE id \in v.vars : TRUE].typ
Named(v)        == IF v.node = "index_ref" THEN Len(v.indices) ELSE DeclaredType(v).size

WritesBits(operands) ==
  operands # <<>> /\ IsReference(operands[1]) /\ DeclaredType(operands[1]).kind \in {"bit", "bit_array"}

Paired(operands) ==
  /\ Len(operands) = 2 /\ IsReference(operands[2])
  /\ DeclaredType(operands[2]).kind \in {"qubit", "qubit_array"}
  /\ Named(operands[1]) = Named(operands[2]) /\ Named(operands[1]) > 0

(* An instruction that writes bits reads qubits: as many of them, and at   *)
(* least one, going by the declarations the operands still link to, also   *)
(* when their names were declared again with another size or a size of     *)
(* zero was refused (visit_measure_instruction, build_semantic_type).      *)
MeasuresPaired ==
  \A k \in 0 .. Len(functions) : \A d \in DOMAIN scope_stack :
    LET block == IF k = 0 THEN scope_stack[d].block ELSE functions[k].block
    IN  \A i \in DOMAIN block :
          block[i].node = "instruction" /\ WritesBits(block[i].operands) => Paired(block[i].operands)

(* Nothing is dropped silently: as long as no visit has failed, each       *)
(* visited statement left exactly one trace, a variable, a statement, a    *)
(* function, or the scope of the function being visited.                   *)
ErrorFree == /\ errors = 0
             /\ phase # "crashed"
             /\ \A i \in DOMAIN results : /\ results[i].errors = 0
                                          /\ results[i].ended \notin {"escaped", "leaked"}

(* The statements of the blocks of s but initializations.                  *)
Counted(block)  == {i \in DOMAIN block : block[i].node # "initialization"}
StatementsOf(s) == UNION {{d} \X Counted(s[d].block) : d \in DOMAIN s}

NothingLost ==
  ErrorFree =>
    visits = Len(vars) + Len(functions) + (IF InFunction THEN 1 ELSE 0)
             + Cardinality(StatementsOf(scope_stack)) + Cardinality(StatementsOf(functions))

(* Every analysis ends: it returns, throws, or takes the process with it.  *)
AnalysisEnds == phase # "idle" ~> phase \in {"idle", "crashed"}

-----------------------------------------------------------------------------
(* What the repository says of the analyzer, and its code does not do.     *)

(* cqasm-analyzer.hpp: "the only state maintained by the Analyzer object   *)
(* is its configuration, and the `analyze*()` functions never change this  *)
(* state".                                                                 *)
ConfigurationUnchanged ==
  phase = "idle" => scope_stack = <<GlobalScope>> /\ functions = <<>>

(* The fixture VisitFunctionTest expects one scope on the stack after any  *)
(* visit of a function.                                                    *)
OneScopeWhenIdle == phase = "idle" => Len(scope_stack) = 1

(* analyze takes an incomplete tree without errors for an internal error,  *)
(* one that no program should cause.                                       *)
NoInternalError == \A i \in DOMAIN results : results[i].ended # "internal_error"
=============================================================================
