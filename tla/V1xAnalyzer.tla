----------------------------- MODULE V1xAnalyzer -----------------------------
(***************************************************************************)
(* The cQASM 1 semantic analyzer: one AnalyzerHelper, from its constructor *)
(* to the result Analyzer::analyze returns (v1x/cqasm-analyzer-helper.cpp, *)
(* v1x/cqasm-analyzer.cpp, v1x/cqasm-scope.cpp).                           *)
(*                                                                         *)
(* Every action is a handler applied to one statement of a program; the    *)
(* programs are all the sequences of statements of the alphabet given by   *)
(* the constants.  A structured statement is opened by one action, which   *)
(* analyzes its header, and closed by another.  Its handler waits on the   *)
(* stack of handlers while the statements of its blocks are analyzed.      *)
(***************************************************************************)
EXTENDS V1xFunctions, SequencesExt

CONSTANTS
  ApiVersions,    (* versions of the analyzer: 10, 11, 12 for 1.0, 1.1, 1.2  *)
  FileVersions,   (* versions a file states                                  *)
  Names,          (* identifiers                                             *)
  Lowercase,      (* names with capitals -> what to_lowercase makes of them  *)
  Mappings,       (* name -> constant: registered before the analysis        *)
  Functions,      (* overloads of functions, as registered                   *)
  Instructions,   (* overloads of the instruction set, as registered         *)
  ErrorModels,    (* overloads of error models, as registered                *)
  QubitCounts,    (* alphabet: expressions of the qubits statement, or NoExpression *)
  Bundles,        (* alphabet: sequences of [name, operands, condition, annotations] *)
  MappingDecls,   (* alphabet: [alias, expr, annotations]                    *)
  VariableDecls,  (* alphabet: [type, names]                                 *)
  SubcircuitDecls,(* alphabet: [name, iterations]                            *)
  ErrorModelDecls,(* alphabet: sequences of operands                         *)
  Headers,        (* alphabet: headers of structured statements              *)
  Conditions,     (* alphabet: conditions of else if and until               *)
  MaxErrors,      (* bound: errors after which a program goes on             *)
  MaxStatements,  (* bound: statements and branches in a program             *)
  MaxDepth        (* bound: nesting of structured statements                 *)

VARIABLES
  api,         (* analyzer.api_version                                       *)
  file,        (* ast.version->items                                         *)
  root,        (* result.root                                                *)
  scope_stack, (* the global scope first                                     *)
  handlers,    (* the structured statements being analyzed, outermost first  *)
  gotos,       (* names of the targets to be resolved                        *)
  errors,      (* number of errors in result.errors                          *)
  phase,       (* "new", "statements", "returned", "internal error", "crash" *)
  written,     (* history: what was written in each open block               *)
  visits       (* bound counter                                              *)

vars == <<api, file, root, scope_stack, handlers, gotos, errors, phase, written, visits>>

IsList(s) == s \in Seq(Range(s))

(* to_lowercase.                                                           *)
Lower(name) == IF name \in DOMAIN Lowercase THEN Lowercase[name] ELSE name

(* The elements of a list at some of its places, in their order.           *)
Nth(places, k) == CHOOSE i \in places : Cardinality({j \in places : j <= i}) = k
ElementsAt(list, places) == [k \in 1 .. Cardinality(places) |-> list[Nth(places, k)]]

ASSUME ConstantsAssumption ==
  /\ ApiVersions \subseteq {10, 11, 12} /\ FileVersions \subseteq Nat
  /\ \A n \in DOMAIN Lowercase : Lowercase[n] \notin DOMAIN Lowercase
  /\ DOMAIN Mappings \subseteq Names
  /\ MaxStatements \in Nat /\ MaxDepth \in Nat /\ MaxErrors \in Nat

ASSUME AlphabetAssumption ==
  /\ \A b \in Bundles : IsList(b) /\ \A insn \in Range(b) :
       /\ IsList(insn.operands)
       /\ \A e \in Range(insn.operands) : e.node = "identifier" => e.name \in STRING
  /\ \A d \in MappingDecls : Lower(d.alias) \in Names
  /\ \A d \in VariableDecls :
       IsList(d.names) /\ \A name \in Range(d.names) : Lower(name) \in Names

(* promote converts a constant for a parameter that is written to as well: *)
(* no such parameter is of a kind that constants are converted to.         *)
ASSUME InstructionsAssumption ==
  /\ IsList(Instructions)
  /\ \A k \in DOMAIN Instructions :
       /\ Instructions[k].params \in Seq(Type)
       /\ \A p \in Range(Instructions[k].params) :
            p.assignable => p.kind \notin {"real", "complex", "complex_matrix"}

(* The functions that return an integer are those of the library.          *)
ASSUME FunctionsAssumption ==
  /\ IsList(Functions)
  /\ \A k \in DOMAIN Functions :
       LET f == Functions[k] IN
       /\ IsList(f.params)
       /\ f.name = "?:" => Len(f.params) = 3
       /\ f.name # "?:" /\ f.result = "int" =>
            \/ Len(f.params) = 1 /\ f.name \in IntUnaries
            \/ Len(f.params) = 2 /\ f.name \in IntBinaries

-----------------------------------------------------------------------------
(* Versions, tables and scopes.                                            *)
NoExpression == [node |-> "none"]
Absent       == [node |-> "absent"]
Current      == scope_stack[Len(scope_stack)]
IsGlobal     == Len(scope_stack) = 1

(* An entry of a mapping table; position is that of the map statement,     *)
(* 0 for predefined and implicit mappings.                                 *)
Entry(value, position) == [node |-> "mapping", value |-> value, position |-> position]

(* Mutant: the name is taken as it is written.                             *)
TableAddAsWritten(table, name, value, position) ==
  [table EXCEPT ![name] = Entry(value, position)]

TableAdd(table, name, value, position) ==
  [table EXCEPT ![Lower(name)] = Entry(value, position)]

ResolveName(table, name) ==
  LET entry == table[Lower(name)] IN IF entry = Absent THEN Error ELSE entry.value

InitialMappings ==
  [n \in Names |-> IF n \in DOMAIN Mappings THEN Entry(Mappings[n], 0) ELSE Absent]

GlobalScope == [mappings |-> InitialMappings, block |-> <<>>, within_loop |-> FALSE]

(* Mutant: the block of a loop inside which there is an if is no loop.     *)
PushFresh(scopes, is_loop) ==
  Append(scopes, [scopes[Len(scopes)] EXCEPT !.block = <<>>, !.within_loop = is_loop])

PushScope(scopes, is_loop) ==
  Append(scopes, [scopes[Len(scopes)] EXCEPT !.block = <<>>, !.within_loop = @ \/ is_loop])

(* Mutant: what a block declares stays visible behind it.                  *)
PopScopeKeepingNames(scopes) ==
  [Front(scopes) EXCEPT ![Len(scopes) - 1].mappings = scopes[Len(scopes)].mappings]

PopScope(scopes) == Front(scopes)

-----------------------------------------------------------------------------
(* Expressions: literals, identifiers, index operators and matrices, and   *)
(* calls of functions and operators on these; m is the table of mappings.  *)
(* An index operator takes a list of ranges; one index is a range of one.  *)
OutOfRange(range, size) ==
  range[1] \notin 0 .. size - 1 \/ range[2] \notin 0 .. size - 1 \/ range[1] > range[2]

IndexList(ranges) ==
  FoldLeft(LAMBDA s, r : s \o [k \in 1 .. r[2] - r[1] + 1 |-> r[1] + k - 1], <<>>, ranges)

Indexed(v, ranges) ==
  IF ~IsRefs(v) \/ \E i \in DOMAIN ranges : OutOfRange(ranges[i], Len(v.index))
  THEN Error
  ELSE [v EXCEPT !.index = [i \in DOMAIN IndexList(ranges) |-> @[IndexList(ranges)[i] + 1]]]

(* Values decided at run time are refused below version 1.1.               *)
OnlyFromVersion11(v) ==
  IF api < 11 /\ v.node \in {"function", "variable_ref"} THEN Error ELSE v

SimpleValue(m, e) ==
  OnlyFromVersion11(CASE e.node = "literal"    -> e.value
                      [] e.node = "identifier" -> ResolveName(m, e.name)
                      [] e.node = "index"      -> Indexed(ResolveName(m, e.name), e.ranges))

(* A matrix is real when all its elements are, else complex.               *)
MatrixOf(elements, rows, cols) ==
  LET AllConst(kind) ==
        \A v \in elements : IsConst(v) /\ Promotable(v, ScalarType(kind, FALSE))
  IN  IF AllConst("real")         THEN Matrix("real_matrix", rows, cols)
      ELSE IF AllConst("complex") THEN Matrix("complex_matrix", rows, cols)
      ELSE                             Error

Elements(m, rows) == {SimpleValue(m, rows[i][j]) : i \in DOMAIN rows, j \in DOMAIN rows[1]}

MatrixValue(m, rows) ==
  IF \E i \in DOMAIN rows : Len(rows[i]) # Len(rows[1]) THEN Error
  ELSE MatrixOf(Elements(m, rows), Len(rows), Len(rows[1]))

FirstFailure(values) ==
  LET bad == {i \in DOMAIN values : Failed(values[i])}
  IN  IF bad = {} THEN Absent ELSE values[Min(bad)]

FunctionValue(name, args) ==
  IF FirstFailure(args) # Absent THEN FirstFailure(args)
  ELSE OnlyFromVersion11(Call(Functions, name, args))

AnalyzeExpression(m, e) ==
  CASE e.node = "matrix" -> MatrixValue(m, e.rows)
    [] e.node = "call"   -> FunctionValue(Lower(e.name), [i \in DOMAIN e.args |->
                                                           SimpleValue(m, e.args[i])])
    [] OTHER             -> SimpleValue(m, e)

(* The expressions that are written: constants have numbers, and what      *)
(* identifiers stand for is kept in the tables.                            *)
Valued(v) == "node" \in DOMAIN v /\ (IsConst(v) => v.value \in Int)
IsSimple(e) == \/ e.node = "literal" /\ Valued(e.value)
               \/ e.node \in {"identifier", "index"} /\ Lower(e.name) \in Names
IsExpression(e) == \/ IsSimple(e)
                   \/ e.node = "call" /\ IsList(e.args) /\ \A a \in Range(e.args) : IsSimple(a)
                   \/ e.node = "matrix" /\ IsList(e.rows) /\ \A r \in Range(e.rows) :
                        IsList(r) /\ \A a \in Range(r) : IsSimple(a)

ASSUME ExpressionsAssumption ==
  /\ \A e \in QubitCounts : e # NoExpression => IsExpression(e)
  /\ \A d \in SubcircuitDecls : d.iterations # NoExpression => IsExpression(d.iterations)
  /\ \A d \in MappingDecls : IsExpression(d.expr)
  /\ \A n \in DOMAIN Mappings : Valued(Mappings[n])

PromoteUnlessFailed(v, type) == IF Failed(v) THEN v ELSE Promote(v, type)
ConstantOf(v) == IF Failed(v) \/ IsConst(v) THEN v ELSE Error

AnalyzeAs(m, e, type)   == PromoteUnlessFailed(AnalyzeExpression(m, e), type)
AnalyzeAsConstInt(m, e) == ConstantOf(AnalyzeAs(m, e, ScalarType("int", FALSE)))

BooleanIn(m, e) == AnalyzeAs(m, e, ScalarType("bool", FALSE))
Condition(m, e) == IF e = NoExpression THEN Bool(TRUE) ELSE BooleanIn(m, e)

-----------------------------------------------------------------------------
(* Instructions.  The analysis of one ends in its node, in an error, or in *)
(* Absent when its condition is constantly false.                          *)
RefsOf(operands) == SelectSeq(operands, IsRefs)

RepeatsQubit(operands) ==
  LET used == FoldLeft(LAMBDA s, v : s \o v.index, <<>>,
                       SelectSeq(operands, LAMBDA v : v.node = "qubit_refs"))
  IN  Cardinality({used[i] : i \in DOMAIN used}) # Len(used)

DifferentSizes(operands) ==
  \E i, j \in DOMAIN RefsOf(operands) :
    Len(RefsOf(operands)[i].index) # Len(RefsOf(operands)[j].index)

(* What the type of an instruction does not allow.                         *)
Forbidden(type, operands) ==
  \/ ~type.allow_reused_qubits /\ RepeatsQubit(operands)
  \/ ~type.allow_different_index_sizes /\ DifferentSizes(operands)

AsWritten(insn, operands, condition) ==
  [node |-> "instruction", name |-> insn.name, parallel |-> TRUE,
   operands |-> operands, condition |-> condition]

OfType(type, operands, condition) ==
  [node |-> "instruction", name |-> type.name, parallel |-> type.allow_parallel,
   operands |-> PromotedArgs(operands, type.params), condition |-> condition]

(* Without an instruction set, instructions are not resolved.              *)
Instruction(insn, name, operands, condition) ==
  LET type == Instructions[Resolve(Instructions, name, operands)]
      resolve == Instructions # <<>>
  IN  IF FirstFailure(operands) # Absent THEN FirstFailure(operands)
      ELSE IF resolve /\ Applicable(Instructions, name, operands) = {} THEN Error
      ELSE IF resolve /\ insn.condition # NoExpression /\ ~type.allow_conditional THEN Error
      ELSE IF Failed(condition)  THEN condition
      ELSE IF IsFalse(condition) THEN Absent
      ELSE IF ~resolve THEN AsWritten(insn, operands, condition)
      ELSE IF Forbidden(type, operands) THEN Error
      ELSE OfType(type, operands, condition)

AnalyzeInstruction(m, insn) ==
  Instruction(insn, Lower(insn.name),
              [i \in DOMAIN insn.operands |-> AnalyzeExpression(m, insn.operands[i])],
              Condition(m, insn.condition))

(* An assignment: a set instruction, or part of the header of a for loop.  *)
IsAssignable(v) == IsReference(v) \/ (v.node = "function" /\ v.return_type.assignable)

SetNode(lhs, rhs) ==
  IF Failed(rhs) THEN rhs
  ELSE [node |-> "set", lhs |-> lhs, rhs |-> rhs, condition |-> Bool(TRUE)]

SetTo(lhs, rhs) ==
  IF Failed(lhs)               THEN lhs
  ELSE IF Failed(rhs)          THEN rhs
  ELSE IF ~IsAssignable(lhs)   THEN Error
  ELSE SetNode(lhs, Promote(rhs, [TypeOf(lhs) EXCEPT !.assignable = FALSE]))

Assignment(m, lhs, rhs) == SetTo(AnalyzeExpression(m, lhs), AnalyzeExpression(m, rhs))

WithCondition(node, condition) ==
  IF Failed(node)            THEN node
  ELSE IF Failed(condition)  THEN condition
  ELSE IF IsFalse(condition) THEN Absent
  ELSE                            [node EXCEPT !.condition = condition]

AnalyzeSet(m, insn) ==
  IF Len(insn.operands) # 2 THEN Error
  ELSE WithCondition(Assignment(m, insn.operands[1], insn.operands[2]),
                     Condition(m, insn.condition))

(* The target of a goto is found when all statements have been analyzed.   *)
HasTarget(insn) == Len(insn.operands) = 1 /\ insn.operands[1].node = "identifier"

AnalyzeGoto(m, insn) ==
  IF ~HasTarget(insn) THEN Error
  ELSE WithCondition([node |-> "goto", target |-> insn.operands[1].name, condition |-> Absent],
                     Condition(m, insn.condition))

(* Mutant: a goto of any version.                                          *)
GotoOfAnyVersion(insn) == Lower(insn.name) = "goto"

IsSet(insn)  == api >= 12 /\ Lower(insn.name) = "set"
IsGoto(insn) == api >= 12 /\ Lower(insn.name) = "goto"

AnalyzeItem(m, insn) ==
  IF IsSet(insn)       THEN AnalyzeSet(m, insn)
  ELSE IF IsGoto(insn) THEN AnalyzeGoto(m, insn)
  ELSE                      AnalyzeInstruction(m, insn)

(* The names a bundle adds to gotos: all, whatever becomes of the goto.    *)
TargetsOf(bundle) ==
  LET jumps == ElementsAt(bundle, {i \in DOMAIN bundle : IsGoto(bundle[i]) /\ HasTarget(bundle[i])})
  IN  [i \in DOMAIN jumps |-> jumps[i].operands[1].name]

-----------------------------------------------------------------------------
(* The tree under construction.  The body of a subcircuit is its bundles   *)
(* below version 1.2, its block from there on.                             *)
Subcircuit(name, iterations) == [name |-> name, iterations |-> iterations, body |-> <<>>]

(* The subcircuits with one to add to: a default one when there is none.   *)
CurrentSubcircuits(r) ==
  IF r.subcircuits = <<>> THEN <<Subcircuit("", 1)>> ELSE r.subcircuits

(* Root and scopes with statements added to the current block.             *)
AddToCurrentBlock(r, scopes, statements) ==
  IF statements = <<>> THEN [root |-> r, scopes |-> scopes]
  ELSE IF Len(scopes) > 1
  THEN [root |-> r, scopes |-> [scopes EXCEPT ![Len(scopes)].block = @ \o statements]]
  ELSE [root   |-> [r EXCEPT !.subcircuits =
                      [CurrentSubcircuits(r) EXCEPT
                         ![Len(CurrentSubcircuits(r))].body = @ \o statements]],
        scopes |-> scopes]

(* What a step leaves behind.                                              *)
Becomes(after) == root' = after.root /\ scope_stack' = after.scopes
Unchanged      == [root |-> root, scopes |-> scope_stack]

(* The end of a statement: new errors are counted, a crash ends it all.    *)
Report(new_errors, crashed) ==
  /\ errors' = errors + new_errors
  /\ phase'  = IF crashed THEN "crash" ELSE phase
  /\ visits' = visits + 1

(* History: a statement that was analyzed without an error.                *)
Wrote(statement) ==
  written' = [written EXCEPT ![Len(written)] = Append(@, statement)]

Visit == phase = "statements" /\ visits < MaxStatements /\ errors <= MaxErrors

(* Counts of qubits and of iterations.                                     *)
(* Mutant: a count may be zero.                                            *)
NotNegative(n) == ~Failed(n) /\ n.value >= 0

Positive(n) == ~Failed(n) /\ n.value >= 1

-----------------------------------------------------------------------------
(* The constructor up to the statements: version and qubits.               *)
WholeRegister(n) == [i \in 1 .. n |-> i - 1]

WithRegisters(table, n) ==
  TableAdd(TableAdd(table, "q", QubitRefs(WholeRegister(n)), 0), "b", BitRefs(WholeRegister(n)), 0)

(* n is the number of qubits as analyzed, Absent without a statement.      *)
StartWith(n) ==
  LET missing == n = Absent /\ file < 11
      bad     == n # Absent /\ ~Positive(n)
  IN  /\ phase = "new"
      /\ root' = [root EXCEPT !.version = IF file > api THEN api ELSE file,
                              !.num_qubits = IF n = Absent \/ Failed(n) THEN 0 ELSE n.value]
      /\ scope_stack' = IF n # Absent /\ ~bad
                        THEN <<[GlobalScope EXCEPT !.mappings = WithRegisters(@, n.value)]>>
                        ELSE <<GlobalScope>>
      /\ errors' = (IF file > api THEN 1 ELSE 0) + (IF missing \/ bad THEN 1 ELSE 0)
      /\ phase' = CASE missing -> "returned" [] n = Crash -> "crash" [] OTHER -> "statements"
      /\ UNCHANGED <<api, file, handlers, gotos, written, visits>>

Start(count) ==
  StartWith(IF count = NoExpression THEN Absent ELSE AnalyzeAsConstInt(InitialMappings, count))

-----------------------------------------------------------------------------
(* The statements without blocks.                                          *)
(* Instructions that do not stand for themselves among several.            *)
Serial(nodes) ==
  IF Len(nodes) = 1 THEN {}
  ELSE {i \in DOMAIN nodes : nodes[i].node = "instruction" /\ ~nodes[i].parallel}

VisitItems(items) ==
  LET nodes  == ElementsAt(items, {i \in DOMAIN items : items[i] \notin {Error, Crash, Absent}})
      failed == {i \in DOMAIN items : items[i] = Error}
  IN  /\ Becomes(AddToCurrentBlock(root, scope_stack,
                   IF nodes = <<>> THEN <<>> ELSE <<[node |-> "bundle", items |-> nodes]>>))
      /\ Report(Cardinality(failed) + Cardinality(Serial(nodes)), Crash \in Range(items))

VisitBundle(bundle) ==
  /\ Visit
  /\ VisitItems([i \in DOMAIN bundle |-> AnalyzeItem(Current.mappings, bundle[i])])
  /\ gotos' = gotos \o TargetsOf(bundle)
  /\ Wrote([node |-> "bundle", items |-> bundle])
  /\ UNCHANGED <<api, file, handlers>>

(* Mutant: a later error model replaces the one before.                    *)
ErrorModelAllowed == TRUE

ErrorModelMissing == root.error_model = Absent

(* A bundle of one instruction named error_model.  The table is asked for  *)
(* the name as it is written, though it was filled with lowercase names.   *)
ModelOf(name, args) ==
  IF FirstFailure(args) # Absent THEN FirstFailure(args)
  ELSE IF ErrorModels = <<>> THEN [node |-> "error_model", name |-> name, parameters |-> args]
  ELSE IF Applicable(ErrorModels, name, args) = {} THEN Error
  ELSE [node |-> "error_model", name |-> Lower(name),
        parameters |-> PromotedArgs(args, ErrorModels[Resolve(ErrorModels, name, args)].params)]

SetErrorModel(model) ==
  /\ root' = IF Failed(model) THEN root ELSE [root EXCEPT !.error_model = model]
  /\ Report(IF Failed(model) THEN 1 ELSE 0, model = Crash)

VisitErrorModel(operands) ==
  /\ Visit
  /\ SetErrorModel(
       IF ErrorModelMissing /\ operands # <<>> /\ operands[1].node = "identifier"
       THEN ModelOf(operands[1].name,
                    [i \in 1 .. Len(operands) - 1 |->
                       AnalyzeExpression(Current.mappings, operands[i + 1])])
       ELSE Error)
  /\ Wrote([node |-> "error_model"])
  /\ UNCHANGED <<api, file, scope_stack, handlers, gotos>>

MapTo(alias, value) ==
  /\ scope_stack' = IF Failed(value) THEN scope_stack
                    ELSE [scope_stack EXCEPT ![Len(scope_stack)].mappings =
                            TableAdd(@, alias, value, visits + 1)]
  /\ Report(IF value = Error THEN 1 ELSE 0, value = Crash)

VisitMapping(decl) ==
  /\ Visit
  /\ MapTo(decl.alias, AnalyzeExpression(Current.mappings, decl.expr))
  /\ Wrote([node |-> "mapping", alias |-> decl.alias, expr |-> decl.expr])
  /\ UNCHANGED <<api, file, root, handlers, gotos>>

KindOfVariable == [qubit |-> "qubit", bit |-> "bool", bool |-> "bool", int |-> "int",
                   real |-> "real", complex |-> "complex"]

(* A variable is known by the place of its identifier.                     *)
IdentifierAt(statement, i) == <<statement, i>>

(* The table with variables added, one after another.                      *)
DeclareIn(table, names, at, type) ==
  LET added[i \in 0 .. Len(names)] ==
        IF i = 0 THEN table
        ELSE TableAdd(added[i - 1], names[i], VariableRef(IdentifierAt(at, i), type), 0)
  IN  added[Len(names)]

VisitVariables(decl) ==
  LET ok   == root.version >= 11 /\ Lower(decl.type) \in DOMAIN KindOfVariable
      type == ScalarType(KindOfVariable[Lower(decl.type)], TRUE)
      at   == visits + 1
  IN  /\ Visit
      /\ root' = IF ~ok THEN root
                 ELSE [root EXCEPT !.variables =
                         @ \o [i \in DOMAIN decl.names |-> [name |-> decl.names[i], type |-> type,
                                                            at |-> IdentifierAt(at, i)]]]
      /\ scope_stack' = IF ~ok THEN scope_stack
                        ELSE [scope_stack EXCEPT ![Len(scope_stack)].mappings =
                                DeclareIn(@, decl.names, at, type)]
      /\ Report(IF ok THEN 0 ELSE 1, FALSE)
      /\ Wrote([node |-> "variables", at |-> at, type |-> decl.type, names |-> decl.names])
      /\ UNCHANGED <<api, file, handlers, gotos>>

AddSubcircuit(name, n) ==
  LET ok == IsGlobal /\ Positive(n) IN
  /\ root' = IF ok THEN [root EXCEPT !.subcircuits = Append(@, Subcircuit(name, n.value))]
             ELSE root
  /\ Report(IF ok THEN 0 ELSE 1, IsGlobal /\ n = Crash)

VisitSubcircuit(decl) ==
  /\ Visit
  /\ AddSubcircuit(decl.name,
                   IF decl.iterations = NoExpression THEN Const("int", 1)
                   ELSE AnalyzeAsConstInt(Current.mappings, decl.iterations))
  /\ Wrote([node |-> "subcircuit", name |-> decl.name, iterations |-> decl.iterations])
  /\ UNCHANGED <<api, file, scope_stack, handlers, gotos>>

-----------------------------------------------------------------------------
(* Structured statements.  A header is analyzed before its block, except   *)
(* the condition of a repeat-until loop.                                   *)
Supported == root.version >= 12

VisitJump(header) ==
  LET ok == Supported /\ Current.within_loop IN
  /\ Visit /\ header.node \in {"break", "continue"}
  /\ Becomes(IF ok THEN AddToCurrentBlock(root, scope_stack, <<header>>) ELSE Unchanged)
  /\ Report(IF ok THEN 0 ELSE 1, FALSE)
  /\ Wrote(header)
  /\ UNCHANGED <<api, file, handlers, gotos>>

(* An assignment in the header of a for loop may be missing.               *)
AssignmentIn(m, assignment) ==
  IF assignment = NoExpression THEN Absent ELSE Assignment(m, assignment[1], assignment[2])

AnalyzeHeader(m, header) ==
  CASE header.node \in {"if_else", "while"} -> <<BooleanIn(m, header.condition)>>
    [] header.node = "for"     -> <<AssignmentIn(m, header.initialize),
                                    BooleanIn(m, header.condition),
                                    AssignmentIn(m, header.update)>>
    [] header.node = "foreach" -> <<AnalyzeAs(m, header.lhs, ScalarType("int", TRUE)),
                                    AnalyzeAsConstInt(m, header.frm),
                                    AnalyzeAsConstInt(m, header.to)>>
    [] header.node = "repeat_until" -> <<>>

IsLoop(header) == header.node # "if_else"

(* A handler waits for its block.  It holds its header as written, what    *)
(* the header was analyzed to, and, of an if, the branches already closed. *)
Handler(header, analyzed) ==
  [header |-> header, analyzed |-> analyzed, branches |-> <<>>, sources |-> <<>>]

OpenBlock(header, analyzed, failure) ==
  LET ok == failure = Absent IN
  /\ scope_stack' = IF ok THEN PushScope(scope_stack, IsLoop(header)) ELSE scope_stack
  /\ handlers' = IF ok THEN Append(handlers, Handler(header, analyzed)) ELSE handlers
  /\ written'  = IF ok THEN Append(written, <<>>) ELSE written
  /\ Report(IF failure = Error THEN 1 ELSE 0, failure = Crash)

(* The header of a statement the version does not have is not analyzed.    *)
OpenAnalyzed(header, analyzed) ==
  OpenBlock(header, analyzed, IF Supported THEN FirstFailure(analyzed) ELSE Error)

Open(header) ==
  /\ Visit /\ Len(handlers) < MaxDepth
  /\ header.node \notin {"break", "continue"}
  /\ OpenAnalyzed(header, AnalyzeHeader(Current.mappings, header))
  /\ UNCHANGED <<api, file, root, gotos>>

(* What a handler finds when its block has been analyzed: its own state,   *)
(* the block, and the scopes without that of the block.                    *)
Handling == handlers[Len(handlers)]
InBlock(node) == phase = "statements" /\ handlers # <<>> /\ Handling.header.node = node
Popped   == PopScope(scope_stack)
Outer    == Popped[Len(Popped)]

(* The statement a handler wrote, in the block around it.                  *)
WroteBlock(statement) ==
  written' = [Front(written) EXCEPT ![Len(written) - 1] = Append(@, statement)]

(* The handler returns, with statements for the block around it.           *)
Return(statements) ==
  /\ Becomes(AddToCurrentBlock(root, Popped, statements))
  /\ handlers' = Front(handlers)

-----------------------------------------------------------------------------
(* If-else chains.  analyzed is empty in the block of the else.            *)
ClosedBranches == Append(Handling.branches,
                         [condition |-> Handling.analyzed[1], body |-> Current.block])
ClosedSources  == Append(Handling.sources,
                         [condition |-> Handling.header.condition, body |-> Last(written)])

NextBlock(header, analyzed) ==
  /\ handlers' = [handlers EXCEPT ![Len(handlers)] =
                    [header   |-> header, analyzed |-> analyzed,
                     branches |-> ClosedBranches, sources |-> ClosedSources]]
  /\ scope_stack' = PushScope(Popped, FALSE)
  /\ written' = [written EXCEPT ![Len(written)] = <<>>]

ElseIfAnalyzed(condition, analyzed) ==
  /\ IF Failed(analyzed)
     THEN /\ handlers' = Front(handlers) /\ scope_stack' = Popped /\ written' = Front(written)
     ELSE NextBlock([node |-> "if_else", condition |-> condition], <<analyzed>>)
  /\ Report(IF analyzed = Error THEN 1 ELSE 0, analyzed = Crash)

ElseIf(condition) ==
  /\ Visit /\ InBlock("if_else") /\ Handling.analyzed # <<>>
  /\ ElseIfAnalyzed(condition, BooleanIn(Outer.mappings, condition))
  /\ UNCHANGED <<api, file, root, gotos>>

Else ==
  /\ Visit /\ InBlock("if_else") /\ Handling.analyzed # <<>>
  /\ NextBlock([node |-> "if_else"], <<>>)
  /\ Report(0, FALSE)
  /\ UNCHANGED <<api, file, root, gotos>>

(* Mutant: the branches behind one that is always taken stay.              *)
OptimizedIfKeepingTail(branches, otherwise) ==
  LET always == {i \in DOMAIN branches : IsTrue(branches[i].condition)}
      kept   == ElementsAt(branches, {i \in DOMAIN branches : ~IsConst(branches[i].condition)})
      rest   == IF always = {} THEN otherwise ELSE [body |-> branches[Min(always)].body]
  IN  IF kept = <<>> THEN IF rest = Absent THEN <<>> ELSE rest.body
      ELSE <<[node |-> "if_else", branches |-> kept, otherwise |-> rest]>>

(* A branch that is always taken becomes the else, and those behind it go; *)
(* branches never taken go.  Without branches the else remains, if any.    *)
OptimizedIf(branches, otherwise) ==
  LET always == {i \in DOMAIN branches : IsTrue(branches[i].condition)}
      first  == IF always = {} THEN Len(branches) + 1 ELSE Min(always)
      kept   == ElementsAt(branches, {i \in 1 .. first - 1 : ~IsFalse(branches[i].condition)})
      rest   == IF always = {} THEN otherwise ELSE [body |-> branches[first].body]
  IN  IF kept = <<>> THEN IF rest = Absent THEN <<>> ELSE rest.body
      ELSE <<[node |-> "if_else", branches |-> kept, otherwise |-> rest]>>

EndIf ==
  LET in_else == Handling.analyzed = <<>> IN
  /\ InBlock("if_else")
  /\ Return(IF in_else THEN OptimizedIf(Handling.branches, [body |-> Current.block])
                       ELSE OptimizedIf(ClosedBranches, Absent))
  /\ WroteBlock([node      |-> "if_else",
                 branches  |-> IF in_else THEN Handling.sources ELSE ClosedSources,
                 otherwise |-> IF in_else THEN [body |-> Last(written)] ELSE Absent])
  /\ UNCHANGED <<api, file, gotos, errors, phase, visits>>

-----------------------------------------------------------------------------
(* Loops.                                                                  *)
EndFor ==
  /\ InBlock("for")
  /\ Return(<<[node |-> "for", initialize |-> Handling.analyzed[1],
               condition |-> Handling.analyzed[2], update |-> Handling.analyzed[3],
               body |-> Current.block]>>)
  /\ WroteBlock([node |-> "for", header |-> Handling.header, body |-> Last(written)])
  /\ UNCHANGED <<api, file, gotos, errors, phase, visits>>

EndForeach ==
  /\ InBlock("foreach")
  /\ Return(<<[node |-> "foreach", lhs |-> Handling.analyzed[1],
               frm |-> Handling.analyzed[2].value, to |-> Handling.analyzed[3].value,
               body |-> Current.block]>>)
  /\ WroteBlock([node |-> "foreach", header |-> Handling.header, body |-> Last(written)])
  /\ UNCHANGED <<api, file, gotos, errors, phase, visits>>

OptimizedWhile(condition, body) ==
  IF IsFalse(condition) THEN <<>>
  ELSE <<[node |-> "while", condition |-> condition, body |-> body]>>

EndWhile ==
  /\ InBlock("while")
  /\ Return(OptimizedWhile(Handling.analyzed[1], Current.block))
  /\ WroteBlock([node |-> "while", header |-> Handling.header, body |-> Last(written)])
  /\ UNCHANGED <<api, file, gotos, errors, phase, visits>>

(* A loop left after its first pass is replaced by its body, with the      *)
(* break and continue statements in it.                                    *)
OptimizedRepeat(condition, body) ==
  IF IsTrue(condition) THEN body
  ELSE <<[node |-> "repeat_until", condition |-> condition, body |-> body]>>

ReturnRepeat(condition) ==
  /\ Return(IF Failed(condition) THEN <<>> ELSE OptimizedRepeat(condition, Current.block))
  /\ errors' = IF condition = Error THEN errors + 1 ELSE errors
  /\ phase'  = IF condition = Crash THEN "crash" ELSE phase

EndRepeat(condition) ==
  /\ InBlock("repeat_until")
  /\ ReturnRepeat(BooleanIn(Outer.mappings, condition))
  /\ WroteBlock([node |-> "repeat_until", condition |-> condition, body |-> Last(written)])
  /\ UNCHANGED <<api, file, gotos, visits>>

-----------------------------------------------------------------------------
(* Blocks of a tree.                                                       *)
BlocksIn(statement) ==
  CASE statement.node = "if_else" ->
         {b.body : b \in Range(statement.branches)} \cup
         (IF statement.otherwise = Absent THEN {} ELSE {statement.otherwise.body})
    [] statement.node \in {"for", "foreach", "while", "repeat_until"} -> {statement.body}
    [] OTHER -> {}

Statements(blocks) == UNION {Range(b) : b \in blocks}

(* The blocks reached from a set of blocks through at most MaxDepth        *)
(* statements that satisfy Through.                                        *)
Reached(blocks, Through(_)) ==
  LET level[d \in 0 .. MaxDepth] ==
        IF d = 0 THEN blocks
        ELSE UNION {BlocksIn(s) : s \in {t \in Statements(level[d - 1]) : Through(t)}}
  IN  UNION {level[d] : d \in 0 .. MaxDepth}

Bodies(r) == {sub.body : sub \in Range(r.subcircuits)}
AllStatements(r) == Statements(Reached(Bodies(r), LAMBDA s : TRUE))
AllItems(r) == UNION {Range(s.items) : s \in {t \in AllStatements(r) : t.node = "bundle"}}
Jumps(r) == {n \in AllItems(r) : n.node = "goto"}

(* is_well_formed: every link of the tree has a target in it.  Those to    *)
(* variables are made with the variable.                                   *)
WellFormed(r) == \A jump \in Jumps(r) : jump.target \in r.resolved

-----------------------------------------------------------------------------
(* The rest of the constructor, and what Analyzer::analyze makes of it.    *)
(* Targets are looked up only in files of version 1.2.                     *)
SubcircuitNames == {sub.name : sub \in Range(root.subcircuits)}

(* Mutant: a name is taken for the first subcircuit that has it.           *)
NoDuplicates == {}

Duplicates ==
  {i \in DOMAIN root.subcircuits :
     \E j \in 1 .. i - 1 : root.subcircuits[j].name = root.subcircuits[i].name}

(* Mutant: a name that is not found is left as it is.                      *)
NoneUnresolved == {}

Unresolved == {i \in DOMAIN gotos : gotos[i] \notin SubcircuitNames}

LooksUpTargets == file >= 12

Saved(table) == {n \in Names : table[n] # Absent /\ table[n].position # 0}

(* The mappings that map statements made, in the order of the statements.  *)
FinalMappings ==
  LET table == Current.mappings IN
  [i \in 1 .. Cardinality(Saved(table)) |->
     LET n == CHOOSE n \in Saved(table) :
                Cardinality({k \in Saved(table) : table[k].position < table[n].position}) = i - 1
     IN  [name |-> n, value |-> table[n].value]]

Finish ==
  LET missing == IF LooksUpTargets
                 THEN Cardinality(Duplicates) + Cardinality(Unresolved) ELSE 0
  IN  /\ phase = "statements" /\ IsGlobal
      /\ root' = [root EXCEPT !.mappings = FinalMappings,
                              !.resolved = IF LooksUpTargets THEN SubcircuitNames ELSE {}]
      /\ errors' = errors + missing
      /\ phase'  = IF errors' = 0 /\ ~WellFormed(root') THEN "internal error" ELSE "returned"
      /\ UNCHANGED <<api, file, scope_stack, handlers, gotos, written, visits>>

-----------------------------------------------------------------------------
EmptyRoot == [version |-> 0, num_qubits |-> 0, subcircuits |-> <<>>, variables |-> <<>>,
              error_model |-> Absent, mappings |-> <<>>, resolved |-> {}]

Init ==
  /\ api \in ApiVersions /\ file \in FileVersions
  /\ root = EmptyRoot
  /\ scope_stack = <<GlobalScope>> /\ handlers = <<>> /\ gotos = <<>>
  /\ errors = 0 /\ phase = "new" /\ written = <<<<>>>> /\ visits = 0

VisitStatement ==
  \/ \E b \in Bundles : VisitBundle(b)
  \/ \E d \in ErrorModelDecls : VisitErrorModel(d)
  \/ \E d \in MappingDecls : VisitMapping(d)
  \/ \E d \in VariableDecls : VisitVariables(d)
  \/ \E d \in SubcircuitDecls : VisitSubcircuit(d)
  \/ \E h \in Headers : VisitJump(h) \/ Open(h)

CloseBlock ==
  \/ \E c \in Conditions : ElseIf(c) \/ EndRepeat(c)
  \/ Else \/ EndIf \/ EndFor \/ EndForeach \/ EndWhile

Next ==
  \/ \E count \in QubitCounts : Start(count)
  \/ VisitStatement \/ CloseBlock \/ Finish

Spec == Init /\ [][Next]_vars

-----------------------------------------------------------------------------
(* Properties.                                                             *)

(* Type correctness of the bookkeeping of an analysis.                     *)
TypeOK ==
  /\ api \in ApiVersions /\ file \in FileVersions
  /\ phase \in {"new", "statements", "returned", "internal error", "crash"}
  /\ errors \in Nat /\ visits \in 0 .. MaxStatements
  /\ root.version \in 0 .. api
  /\ \A sub \in Range(root.subcircuits) : sub.iterations \in Nat \ {0}
  /\ gotos \in Seq(STRING)
  /\ \A i \in DOMAIN scope_stack : scope_stack[i].within_loop \in BOOLEAN

(* There is a scope for every block being analyzed, and a scope says it is *)
(* within a loop exactly when one of the statements around it is a loop.   *)
(* Scopes are pushed, popped and copied by analyze_subblock, which every   *)
(* handler of a structured statement calls, some of them several times and *)
(* with errors in between.                                                 *)
ScopesAccountedFor ==
  /\ Len(scope_stack) = 1 + Len(handlers)
  /\ \A i \in DOMAIN scope_stack :
       scope_stack[i].within_loop <=> \E k \in 1 .. i - 1 : IsLoop(handlers[k].header)

(* In a tree returned without errors every goto names one subcircuit,      *)
(* whatever the order of gotos and subcircuits and whatever was optimized  *)
(* away.                                                                   *)
JumpTargetsUnique ==
  phase = "returned" /\ errors = 0 =>
    \A jump \in Jumps(root) :
      Cardinality({i \in DOMAIN root.subcircuits : root.subcircuits[i].name = jump.target}) = 1

(* The names a statement binds in the scope it is written in, and the map  *)
(* statements of the global scope no later statement of which binds the    *)
(* name again, in whatever case.                                           *)
Binds(statement) ==
  CASE statement.node = "mapping"   -> {Lower(statement.alias)}
    [] statement.node = "variables" -> {Lower(name) : name \in Range(statement.names)}
    [] OTHER -> {}

Holding ==
  {i \in DOMAIN written[1] :
     /\ written[1][i].node = "mapping"
     /\ \A j \in i + 1 .. Len(written[1]) : Binds(written[1][i]) \cap Binds(written[1][j]) = {}}

(* The mappings of the tree are those map statements, one for each and in  *)
(* their order: none is lost, none is left over from a block or from a     *)
(* name that was bound again, as a mapping or as a variable, and sorting   *)
(* the unordered table gives the order of the program.                     *)
MappingsListed ==
  phase = "returned" /\ errors = 0 =>
    /\ Len(root.mappings) = Cardinality(Holding)
    /\ \A k \in DOMAIN root.mappings :
         Binds(written[1][Nth(Holding, k)]) = {root.mappings[k].name}

(* A program without errors yields a complete tree: analyze has no reason  *)
(* to give up on its own result (cqasm-analyzer.cpp:154).                  *)
NoInternalError == phase # "internal error"

(* analyze gives up on its own result (cqasm-analyzer.cpp:154) only after  *)
(* gotos that an API of version 1.2 lets in from a file below it.  Any     *)
(* other goto that gets into the tree, out of whatever block, is linked to *)
(* its subcircuit or its target is reported: gotos are let in, noted and   *)
(* looked up in three places (cqasm-analyzer-helper.cpp:264, 692, 44).     *)
GotosResolved == file >= 12 \/ api < 12 => phase # "internal error"

(* break and continue stand inside loops (cqasm-analyzer-helper.cpp:921,   *)
(* 927), in the tree as in the program.                                    *)
OutsideLoops(r) == Statements(Reached(Bodies(r), LAMBDA s : s.node = "if_else"))
JumpsInsideLoops == \A s \in OutsideLoops(root) : s.node \notin {"break", "continue"}

(* An accepted error model is never replaced: later ones are errors.       *)
ErrorModelKept ==
  [][root.error_model # Absent => root'.error_model = root.error_model]_vars

(* The operands of an instruction in the tree fit the parameters of one of *)
(* the registered overloads of its name as they stand, after promotion; a  *)
(* parameter that is written to gets a reference.                          *)
Fits(insn) ==
  \E k \in DOMAIN Instructions :
    /\ Instructions[k].name = insn.name
    /\ Len(Instructions[k].params) = Len(insn.operands)
    /\ \A i \in DOMAIN insn.operands :
         TypeCheck(Instructions[k].params[i], TypeOf(insn.operands[i]))

OperandsFit ==
  Instructions # <<>> => \A n \in AllItems(root) : n.node = "instruction" => Fits(n)
=============================================================================
