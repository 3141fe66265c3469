------------------------------ MODULE V3xReading ------------------------------
(***************************************************************************)
(* The texts a Frontend is asked about, as cQASM 3: their parse trees, and *)
(* what the parser and the analyzer of version 3 make of them.  The        *)
(* properties compare the replies with the parse tree itself.              *)
(***************************************************************************)
EXTENDS V3xLiterals, V3xEvaluation

Items(version) == [i \in DOMAIN version.kids |-> version.kids[i].number]

Analysis(version, s) ==
  [version |-> Items(version), at |-> version.at, errors |-> s.errors,
   ends |-> ~s.broken, whole |-> WellFormed(s), meaning |-> s.statements]

AnalysisOf(root) == Analysis(root.kids[1], AnalyzeProgram(root))

AnalysisResults(text) ==
  {AnalysisOf(Build(Trees[r.root])) : r \in {p \in ParseResults(text) : p.errors = <<>>}}

(* The analyzer of version 3 is the one of these trees.                    *)
ASSUME AnalyzerAssumption == \A t \in Texts : Analyzed["v3x"][t] = AnalysisResults(t)

-----------------------------------------------------------------------------
(* The grammar the trees are of (CqasmParser.g4).                          *)
Signs ==
  [unaryPlusMinusExpression |-> {"+", "-"},          bitwiseNotExpression |-> {"~"},
   logicalNotExpression     |-> {"!"},               powerExpression      |-> {"**"},
   productExpression        |-> {"*", "/", "%"},     additionExpression   |-> {"+", "-"},
   shiftExpression          |-> {"<<", ">>"},        equalityExpression   |-> {"==", "!="},
   comparisonExpression     |-> {">", "<", ">=", "<="},
   bitwiseAndExpression     |-> {"&"},               bitwiseXorExpression |-> {"^"},
   bitwiseOrExpression      |-> {"|"},               logicalAndExpression |-> {"&&"},
   logicalXorExpression     |-> {"^^"},              logicalOrExpression  |-> {"||"},
   ternaryConditionalExpression |-> {"?"}]

Arity(rule) ==
  CASE rule \in {"unaryPlusMinusExpression", "bitwiseNotExpression", "logicalNotExpression"} -> 1
    [] rule = "ternaryConditionalExpression" -> 3
    [] OTHER -> 2

Lists == {"initializationList", "axisInitializationList"}

Expressions ==
  Operators \cup Lists \cup DOMAIN LiteralKind \cup
  {"parensExpression", "functionCall", "index", "identifier"}

LocalStatements ==
  {"variableDefinition", "variableInitialization", "assignmentStatement", "returnStatement",
   "expressionStatement", "gate", "measureInstruction"}

Of(t, rules)       == \A i \in DOMAIN t.kids : t.kids[i].rule \in rules
Have(t, n, rules)  == Len(t.kids) = n /\ Of(t, rules)

Grammatical(t) ==
  /\ t.rule = "program" =>
       Len(t.kids) = 2 /\ t.kids[1].rule = "version" /\ t.kids[2].rule = "globalBlock"
  /\ t.rule = "globalBlock" => Of(t, LocalStatements \cup {"functionDeclaration"})
  /\ t.rule = "localBlock"  => Of(t, LocalStatements)
  /\ t.rule = "functionDeclaration" =>
       /\ Len(t.kids) = 3 /\ t.kids[1].rule = "parameters"
       /\ t.kids[2].rule = "returnType" /\ t.kids[3].rule = "localBlock"
  /\ t.rule = "parameters" => Of(t, {"variableDefinition"})
  /\ t.rule = "variableDefinition" => Have(t, 1, {"type"})
  /\ t.rule = "variableInitialization" =>
       Len(t.kids) = 2 /\ t.kids[1].rule = "type" /\ t.kids[2].rule \in Expressions
  /\ t.rule \in {"returnStatement", "expressionStatement", "indexItem", "parensExpression"} =>
       Have(t, 1, Expressions)
  /\ t.rule \in {"assignmentStatement", "measureInstruction", "indexRange"} =>
       Have(t, 2, Expressions)
  /\ t.rule \in Operators => t.token \in Signs[t.rule] /\ Have(t, Arity(t.rule), Expressions)
  /\ t.rule \in Lists \cup {"gate", "functionCall"} => Of(t, Expressions)
  /\ t.rule = "index" => Of(t, {"indexItem", "indexRange"})
  /\ t.rule \in DOMAIN LiteralKind \cup {"identifier"} => t.kids = <<>>

ASSUME GrammarAssumption ==
  \A text \in Texts : Trees[text] # NoTree =>
    /\ Trees[text].rule = "program"
    /\ \A n \in Nodes(Trees[text]) : Grammatical(n.node)

-----------------------------------------------------------------------------
NodeAt(t, p) == (CHOOSE n \in Nodes(t) : n.path = p).node

Operands(t) == IF t.rule = "variableInitialization" THEN <<t.kids[2]>> ELSE t.kids

(* A term stands for an expression of the text: the function of the sign   *)
(* that is written, on the terms of what is written around it.  Parentheses *)
(* and unary plus are not part of it; names stand for themselves.          *)
Pair(term, t) == [term |-> term, tree |-> t]

Unmarked(t) ==
  t.rule = "parensExpression" \/ (t.rule = "unaryPlusMinusExpression" /\ t.token = "+")

Undivided(t) == t.rule \in DOMAIN LiteralKind \cup {"identifier", "index"}

Halves(p) ==
  CASE Unmarked(p.tree)  -> {Pair(p.term, p.tree.kids[1])}
    [] Undivided(p.tree) -> {}
    [] OTHER             -> {Pair(p.term.kids[i], p.tree.kids[i]) : i \in DOMAIN p.tree.kids}

Pairs(term, t) ==
  LET level[d \in 0 .. MaxDepth] ==
        IF d = 0 THEN {Pair(term, t)} ELSE UNION {Halves(p) : p \in level[d - 1]}
  IN  level

SignOf(t) ==
  CASE t.rule \in Lists -> "list"
    [] t.rule = "ternaryConditionalExpression" -> "?:"
    [] OTHER -> t.token

Agrees(p) ==
  CASE Unmarked(p.tree) -> TRUE
    [] p.tree.rule \in DOMAIN LiteralKind -> p.term.of = "literal" /\ p.term.number = p.tree.number
    [] p.tree.rule \in {"identifier", "index"} -> p.term.of = p.tree.token
    [] OTHER -> p.term.of = SignOf(p.tree) /\ DOMAIN p.term.kids = DOMAIN p.tree.kids

Reads(term, t) == \A d \in 0 .. MaxDepth : \A p \in Pairs(term, t)[d] : Agrees(p)

(* Every statement of an accepted program computes what is written: the    *)
(* way from the token to the node of the AST (BuildTreeGenAstVisitor.cpp)  *)
(* and from there to the name the analyzer looks up                        *)
(* (AnalyzeTreeGenAstVisitor.cpp 486-609) ends at the sign it began with.  *)
MeaningAsWritten ==
  Replied("tree") /\ call.op # "parse" =>
    \A i \in DOMAIN reply.meaning :
      LET statement == reply.meaning[i]
          operands  == Operands(NodeAt(Trees[reply.root], statement.path))
      IN  \A j \in DOMAIN operands : Reads(statement.values[j].term, operands[j])

(* The kind a constant has when integers stay integers and are turned into *)
(* floats only next to a float.  A function of the program has the kind it *)
(* is declared with, whatever its name.                                    *)
Highest(kinds) == IF "float" \in kinds THEN "float" ELSE IF "int" \in kinds THEN "int" ELSE "bool"

KindWritten(term) ==
  IF term.node # "const" THEN term.kind
  ELSE CASE term.of \in {"+", "-", "*", "/", "abs"} ->
              Highest({term.kids[i].kind : i \in DOMAIN term.kids} \cup {"int"})
         [] term.of = "?:" -> Highest({term.kids[2].kind, term.kids[3].kind})
         [] term.of \in {"%", "~", "&", "|", "^", "<<", ">>"} -> "int"
         [] term.of \in {"!", "&&", "||", "^^"} \cup ToSet(Comparisons) -> "bool"
         [] term.of \in {"**"} \cup ToSet(RealFunctions) -> "float"
         [] OTHER -> term.kind

Leveled(term) == \A n \in Nodes(term) : n.node.kind = KindWritten(n.node)

(* Of the overloads that promotion makes applicable, the one that promotes *)
(* least is called: the order in which register_default_function_impls_    *)
(* into adds them is what decides.                                         *)
KindsAsWritten ==
  Replied("tree") /\ call.op # "parse" =>
    \A i \in DOMAIN reply.meaning : \A j \in DOMAIN reply.meaning[i].values :
      Leveled(reply.meaning[i].values[j].term)

-----------------------------------------------------------------------------
(* The statements a program gets analyzed, each with what is in sight.     *)
In(es, states) == {[statement |-> es[i], scope |-> states[i - 1]] : i \in DOMAIN es}

Entered(es, states) ==
  LET inside(i)  == es[i].kids[1].kids \o es[i].kids[3].kids
      entered(i) == [states[i - 1] EXCEPT !.statements = <<>>]
  IN  In(es, states) \cup
      UNION {In(inside(i), LocalStates(inside(i), entered(i))) :
               i \in {j \in DOMAIN es : es[j].node = "functionDeclaration"}}

Encountered(es, s) == Entered(es, GlobalStates(es, s))

(* Where a failing expression may be found at fault, given the place of    *)
(* what it is part of: where an operand is, down to the first part that    *)
(* fails with all its operands in order.  The first element of a list and  *)
(* the entries of an index are visited without their places; a list can    *)
(* also fail for the kind of an element in front of the failing one.       *)
Suspect(e, around, unplaced) ==
  [expression |-> e, around |-> around, unplaced |-> unplaced]

Fails(e, s) == Visit(e, s).end = "error"

FailingParts(es, s) == {i \in DOMAIN es : Fails(es[i], s)}

Bounds(e) == UNION {{e.kids[i].kids[j] : j \in DOMAIN e.kids[i].kids} : i \in DOMAIN e.kids}

Here(x) ==
  IF x.expression.at = NoPlace \/ (x.unplaced /\ x.expression.node # "index")
  THEN x.around ELSE x.expression.at

(* The parts of a suspect that are suspects too, and the places it has of  *)
(* its own.                                                                *)
Narrowed(x, s) ==
  LET e == x.expression
      failing == FailingParts(e.kids, s)
  IN  IF e.node = "index"
      THEN {Suspect(b, Here(x), TRUE) : b \in {c \in Bounds(e) : Fails(c, s)}}
      ELSE IF failing = {} THEN {}
      ELSE {Suspect(e.kids[Min(failing)], Here(x),
                    e.node = "InitializationList" /\ Min(failing) = 1)}

Blamed(x, s) ==
  LET e == x.expression IN
  IF e.node = "index" THEN {Here(x)} \cup {b.at : b \in Bounds(e)}
  ELSE IF e.node = "InitializationList" \/ FailingParts(e.kids, s) = {} THEN {Here(x)}
  ELSE {}

Suspects(e, around, s) ==
  LET level[d \in 0 .. MaxDepth] ==
        IF d = 0 THEN {Suspect(e, around, FALSE)} ELSE UNION {Narrowed(x, s) : x \in level[d - 1]}
  IN  level

Faulty(e, around, s) ==
  UNION {Blamed(x, s) : x \in UNION {Suspects(e, around, s)[d] : d \in 0 .. MaxDepth}}

FaultsOf(e, s) ==
  LET parts == CASE e.node = "variableInitialization" -> <<e.kids[2]>>
                 [] e.node \in {"variableDefinition", "functionDeclaration"} -> <<>>
                 [] OTHER -> e.kids
      failing == FailingParts(parts, s)
      at == CASE e.node = "returnStatement" -> NoPlace
              [] e.node = "expressionStatement" -> e.kids[1].at
              [] OTHER -> e.at
  IN  IF e.node = "expressionStatement" /\ e.kids[1].node # "functionCall" THEN {at}
      ELSE IF failing = {} THEN {at, Place(e.path, "name")}
      ELSE Faulty(parts[Min(failing)], at, s)

(* Each error of an analysis points at the innermost part of a statement   *)
(* that is wrong, however many handlers rethrow it on its way up           *)
(* (Error::context keeps the first place; visit_expression and every       *)
(* statement offer theirs).                                                *)
ErrorsPointAtInnermost ==
  Replied("errors") /\ Analyzing /\ Stated[call.data] # <<>> =>
    \A r \in ParseResults(call.data) :
      LET root == Build(Trees[call.data]) IN
      r.errors = <<>> /\ ~Exceeds(Items(root.kids[1]), call.api) =>
        \A i \in DOMAIN reply.errors :
          \E v \in Encountered(root.kids[2].kids, EmptyProgram) :
            reply.errors[i] \in FaultsOf(v.statement, v.scope)
=============================================================================
