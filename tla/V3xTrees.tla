------------------------------- MODULE V3xTrees --------------------------------
(***************************************************************************)
(* The parse trees of cQASM 3 and the literals in them: which of them the  *)
(* AST builder cannot read (get_int_value and get_float_value of           *)
(* BuildTreeGenAstVisitor.cpp).                                            *)
(*                                                                         *)
(* A parse tree node is a rule of CqasmParser.g4, the token that tells its *)
(* alternatives apart (a name for the rules with an IDENTIFIER), a number  *)
(* for literals and array sizes, and its children.  The place of a node is *)
(* its path from the root and the kind of token that stands for it.        *)
(***************************************************************************)
EXTENDS Integers, Sequences, FiniteSetsExt

CONSTANTS
  MaxInt,    \* the largest integer std::stoll accepts
  Doubles,   \* the numbers std::stod accepts: neither too large nor too small
  MaxDepth   \* bound: how deep parse trees are

NoPlace         == <<>>
Place(p, token) == <<p, token>>
Child(p, i)     == Append(p, i)

Operators == {"unaryPlusMinusExpression", "bitwiseNotExpression", "logicalNotExpression",
              "powerExpression", "productExpression", "additionExpression", "shiftExpression",
              "comparisonExpression", "equalityExpression", "bitwiseAndExpression",
              "bitwiseXorExpression", "bitwiseOrExpression", "logicalAndExpression",
              "logicalXorExpression", "logicalOrExpression", "ternaryConditionalExpression"}

-----------------------------------------------------------------------------
(* A node where it stands, and its children.                               *)
Standing(p, t) == [path |-> p, node |-> t]
Under(n, i)    == Standing(Child(n.path, i), n.node.kids[i])
Below(n)       == {Under(n, i) : i \in DOMAIN n.node.kids}

(* The nodes of a tree, level by level.                                    *)
LevelsOf(t) ==
  LET level[d \in 0 .. MaxDepth] ==
        IF d = 0 THEN {Standing(<<>>, t)} ELSE UNION {Below(n) : n \in level[d - 1]}
  IN  level

Nodes(t) == UNION {LevelsOf(t)[d] : d \in 0 .. MaxDepth}

-----------------------------------------------------------------------------
(* get_int_value and get_float_value: a literal that is out of the range   *)
(* of std::stoll or std::stod ends the visit with a syntax error at the    *)
(* literal.  Children are visited in the order of the text, except the     *)
(* operands of the nodes built by a call of tree::make with several        *)
(* arguments: C++ leaves their order open.                                 *)
Unsequenced(t) ==
  \/ t.rule = "indexRange"
  \/ t.rule \in Operators \ {"unaryPlusMinusExpression", "bitwiseNotExpression",
                             "logicalNotExpression"}

(* Mutant: the size of an array is converted without the check.            *)
CheckedOutsideTypes(t) == t.rule \in {"integerLiteral", "floatLiteral", "versionComponent"}

Checked(t) == t.rule \in {"integerLiteral", "floatLiteral", "arraySize", "versionComponent"}

Refused(t) == IF t.rule = "floatLiteral" THEN t.number \notin Doubles ELSE t.number > MaxInt

(* The places a visit of n may end at, given those of its children.        *)
FaultsAt(n, inside) ==
  LET faulty == {i \in DOMAIN inside : inside[i] # {}}
  IN  IF Checked(n.node) THEN IF Refused(n.node) THEN {Place(n.path, "literal")} ELSE {}
      ELSE IF faulty = {} THEN {}
      ELSE IF Unsequenced(n.node) THEN UNION {inside[i] : i \in faulty}
      ELSE inside[Min(faulty)]

Faults(t) ==
  LET faults[n \in Nodes(t)] == FaultsAt(n, [i \in DOMAIN n.node.kids |-> faults[Under(n, i)]])
  IN  faults[Standing(<<>>, t)]
=============================================================================
