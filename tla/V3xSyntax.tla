------------------------------ MODULE V3xSyntax ------------------------------
(***************************************************************************)
(* From the parse tree of a cQASM 3 program to its analyzed statements:    *)
(* the AST builder (BuildTreeGenAstVisitor.cpp) and what the analyzer does *)
(* with nested expressions (AnalyzeTreeGenAstVisitor.cpp 446-781), with    *)
(* the place each error ends up pointing at.                               *)
(***************************************************************************)
EXTENDS V3xTrees, V3xValues, Integers, SequencesExt

-----------------------------------------------------------------------------
(* The AST builder.                                                        *)
(* Mutant: a unary minus leaves no node either.                            *)
SignsDropped(t) == t.rule \in {"parensExpression", "unaryPlusMinusExpression"}

(* Parentheses and unary plus leave no node.                               *)
Transparent(t) ==
  \/ t.rule = "parensExpression"
  \/ t.rule = "unaryPlusMinusExpression" /\ t.token = "+"

(* Which node class a rule and its operator token become.                  *)
NodeOf(rule, token) ==
  CASE rule = "unaryPlusMinusExpression" -> "UnaryMinus"
    [] rule = "bitwiseNotExpression"     -> "BitwiseNot"
    [] rule = "logicalNotExpression"     -> "LogicalNot"
    [] rule = "powerExpression"          -> "Power"
    [] rule = "productExpression"        -> CASE token = "*"  -> "Product"
                                              [] token = "/"  -> "Division"
                                              [] OTHER        -> "Modulo"
    [] rule = "additionExpression"       -> IF token = "+" THEN "Addition" ELSE "Subtraction"
    [] rule = "shiftExpression"          -> IF token = "<<" THEN "ShiftLeft" ELSE "ShiftRight"
    [] rule = "comparisonExpression"     -> CASE token = ">"  -> "CmpGt"
                                              [] token = "<"  -> "CmpLt"
                                              [] token = ">=" -> "CmpGe"
                                              [] OTHER        -> "CmpLe"
    [] rule = "equalityExpression"       -> IF token = "==" THEN "CmpEq" ELSE "CmpNe"
    [] rule = "bitwiseAndExpression"     -> "BitwiseAnd"
    [] rule = "bitwiseXorExpression"     -> "BitwiseXor"
    [] rule = "bitwiseOrExpression"      -> "BitwiseOr"
    [] rule = "logicalAndExpression"     -> "LogicalAnd"
    [] rule = "logicalXorExpression"     -> "LogicalXor"
    [] rule = "logicalOrExpression"      -> "LogicalOr"
    [] rule = "ternaryConditionalExpression" -> "TernaryConditional"

(* The token a node gets its place from; NoPlace for the nodes that get    *)
(* none (lists, index entries, blocks, expression statements).             *)
Anchor(rule) ==
  CASE rule \in Operators -> "operator"
    [] rule \in {"identifier", "functionCall", "index", "variableDefinition",
                 "functionDeclaration", "gate"} -> "name"
    [] rule \in {"variableInitialization", "assignmentStatement"} -> "equals"
    [] rule \in {"returnStatement", "measureInstruction", "type"} -> "keyword"
    [] rule \in {"integerLiteral", "floatLiteral", "booleanLiteral", "version"} -> "literal"
    [] OTHER -> "none"

PlaceOf(rule, p) == IF Anchor(rule) = "none" THEN NoPlace ELSE Place(p, Anchor(rule))

NodeName(t) ==
  CASE t.rule \in Operators -> NodeOf(t.rule, t.token)
    [] t.rule \in {"axisInitializationList", "initializationList"} -> "InitializationList"
    [] OTHER -> t.rule

(* The node n is built into, given those of its children.                  *)
Built(n, kids) ==
  [node   |-> NodeName(n.node),
   name   |-> n.node.token,
   number |-> n.node.number,
   at     |-> PlaceOf(n.node.rule, n.path),
   path   |-> n.path,
   kids   |-> kids]

(* What every node of a parse tree becomes.                                *)
Ast(t) ==
  LET ast[n \in Nodes(t)] ==
        IF Transparent(n.node) THEN ast[Under(n, 1)]
        ELSE Built(n, [i \in DOMAIN n.node.kids |-> ast[Under(n, i)]])
  IN  ast

Build(t) == Ast(t)[Standing(<<>>, t)]

-----------------------------------------------------------------------------
(* What the analyzer calls for each operator node ("operator" is left out  *)
(* of the names).                                                          *)
OperatorOf(node) ==
  CASE node = "UnaryMinus"  -> "-"  [] node = "BitwiseNot"  -> "~"
    [] node = "LogicalNot"  -> "!"  [] node = "Power"       -> "**"
    [] node = "Product"     -> "*"  [] node = "Division"    -> "/"
    [] node = "Modulo"      -> "%"  [] node = "Addition"    -> "+"
    [] node = "Subtraction" -> "-"  [] node = "ShiftLeft"   -> "<<"
    [] node = "ShiftRight"  -> ">>" [] node = "CmpGt"       -> ">"
    [] node = "CmpLt"       -> "<"  [] node = "CmpGe"       -> ">="
    [] node = "CmpLe"       -> "<=" [] node = "CmpEq"       -> "=="
    [] node = "CmpNe"       -> "!=" [] node = "BitwiseAnd"  -> "&"
    [] node = "BitwiseXor"  -> "^"  [] node = "BitwiseOr"   -> "|"
    [] node = "LogicalAnd"  -> "&&" [] node = "LogicalXor"  -> "^^"
    [] node = "LogicalOr"   -> "||" [] node = "TernaryConditional" -> "?:"

(* The functions with a C++ implementation, in the order they are added.   *)
Overloads(names, params, result) ==
  [i \in DOMAIN names |-> [name |-> names[i], params |-> params, result |-> result]]

FF == <<"float", "float">>
II == <<"int", "int">>
BB == <<"bool", "bool">>
Comparisons == <<"==", "!=", ">=", ">", "<=", "<">>

RealFunctions == <<"sqrt", "exp", "log", "sin", "cos", "tan", "sinh", "cosh", "tanh", "asin",
                   "acos", "atan", "asinh", "acosh", "atanh">>

DefaultFunctions ==
  Overloads(<<"-">>, <<"float">>, "float") \o Overloads(<<"-">>, <<"int">>, "int") \o
  Overloads(<<"+">>, FF, "float")          \o Overloads(<<"+">>, II, "int")        \o
  Overloads(<<"-">>, FF, "float")          \o Overloads(<<"-">>, II, "int")        \o
  Overloads(<<"*">>, FF, "float")          \o Overloads(<<"*">>, II, "int")        \o
  Overloads(<<"/">>, FF, "float")          \o Overloads(<<"/", "%">>, II, "int")   \o
  Overloads(<<"**">>, FF, "float")         \o Overloads(Comparisons, FF, "bool")   \o
  Overloads(Comparisons, II, "bool")       \o Overloads(Comparisons, BB, "bool")   \o
  Overloads(<<"~">>, <<"int">>, "int")     \o
  Overloads(<<"&", "^", "|", "<<", ">>">>, II, "int") \o
  Overloads(<<"!">>, <<"bool">>, "bool")   \o
  Overloads(<<"&&", "^^", "||">>, BB, "bool") \o
  Overloads(<<"?:">>, <<"bool", "float", "float">>, "float") \o
  Overloads(<<"?:">>, <<"bool", "int", "int">>, "int")       \o
  Overloads(<<"?:">>, <<"bool", "bool", "bool">>, "bool")    \o
  Overloads(RealFunctions \o <<"abs">>, <<"float">>, "float") \o
  Overloads(<<"abs">>, <<"int">>, "int")

(* The mappings and instructions of default_analyzer.                      *)
DefaultMappings ==
  [x  |-> [kind |-> "axis", number |-> 1],  y     |-> [kind |-> "axis", number |-> 1],
   z  |-> [kind |-> "axis", number |-> 1],  true  |-> [kind |-> "bool", number |-> 1],
   false |-> [kind |-> "bool", number |-> 0], pi  |-> [kind |-> "float", number |-> 3],
   eu |-> [kind |-> "float", number |-> 2], tau   |-> [kind |-> "float", number |-> 6],
   im |-> [kind |-> "complex", number |-> 1]]

Instruction(names, params) ==
  [i \in DOMAIN names |-> [name |-> names[i], params |-> params]]

Q == "qubit"
V == "qubit_array"
B == "bit"
W == "bit_array"

(* A controlled gate takes every mix of qubits and registers.              *)
Controlled(name, rest) ==
  Instruction(<<name>>, <<Q, Q>> \o rest) \o Instruction(<<name>>, <<Q, V>> \o rest) \o
  Instruction(<<name>>, <<V, Q>> \o rest) \o Instruction(<<name>>, <<V, V>> \o rest)

DefaultInstructions ==
  LET gates     == <<"h", "mx90", "my90", "s", "sdag", "x", "x90", "y", "y90", "z">>
      rotations == <<"rx", "ry", "rz">>
      measure   == <<"measure">>
  IN  Controlled("cnot", <<>>) \o Controlled("cr", <<"float">>) \o
      Controlled("crk", <<"int">>) \o Controlled("cz", <<>>) \o
      Instruction(<<"i">> \o gates, <<Q>>) \o Instruction(gates, <<V>>) \o
      Instruction(rotations, <<Q, "float">>) \o Instruction(rotations, <<V, "float">>) \o
      Instruction(measure, <<B, Q>>) \o Instruction(measure, <<W, V>>) \o
      Instruction(measure, <<B, V>>) \o Instruction(measure, <<W, Q>>)
=============================================================================
