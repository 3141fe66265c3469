------------------------------ MODULE V3xLiterals ------------------------------
(***************************************************************************)
(* The texts a Frontend is asked about, as cQASM 3: their parse trees, and *)
(* what the parser makes of the literals in them.                          *)
(***************************************************************************)
EXTENDS Frontend, V3xTrees

CONSTANT Trees   \* text -> its parse tree, NoTree if the grammar rejects it

NoTree == [rule |-> "none"]

(* The listener of lexer and parser throws at the first syntax error, and  *)
(* the builder of the AST through it, at a literal it refuses: a parse     *)
(* result has one error at most.                                           *)
ParseResults(text) ==
  LET faults == Faults(Trees[text])
  IN  IF Trees[text] = NoTree THEN {Result(<<Place(<<>>, "syntax")>>, Missing)}
      ELSE IF faults = {}     THEN {Result(<<>>, text)}
      ELSE                         {Result(<<at>>, Missing) : at \in faults}

(* A parse tree is finite, its nodes have their children in an order, and  *)
(* what is written as a number is one token.                               *)
IsTree(t) ==
  /\ \A n \in Nodes(t) :
       /\ IsList(n.node.kids)
       /\ Checked(n.node) => n.node.kids = <<>>
  /\ \A n \in LevelsOf(t)[MaxDepth] : n.node.kids = <<>>

ASSUME TreesAssumption ==
  /\ MaxInt \in Int /\ MaxDepth \in Nat
  /\ \A t \in Texts : Trees[t] # NoTree => IsTree(Trees[t])

(* The parser of version 3 is the one of these trees.                      *)
ASSUME ParserAssumption == \A t \in Texts : Parsed["v3x"][t] = ParseResults(t)

-----------------------------------------------------------------------------
(* What the replies about a string say of its parse tree.                  *)
Replied(kind) ==
  phase = "idle" /\ reply.kind = kind /\ call.dialect = "v3x" /\ call.source = "string"

Analyzing == call.op # "parse" /\ ~Exceeds(Stated[call.data], call.api)

(* What is written as an integer that std::stoll refuses, or as a float    *)
(* that std::stod refuses, wherever it is.                                 *)
Unreadable(t) ==
  \/ t.rule \in {"integerLiteral", "arraySize", "versionComponent"} /\ t.number > MaxInt
  \/ t.rule = "floatLiteral" /\ t.number \notin Doubles

UnreadableIn(t) == {Place(n.path, "literal") : n \in {m \in Nodes(t) : Unreadable(m.node)}}

(* The numbers of the text that std::stoll or std::stod refuses, and no    *)
(* others, keep a program from being parsed, wherever they are: in an      *)
(* expression, as an array size or in the version; the error is at one of  *)
(* them (get_int_value and get_float_value of the AST builder).            *)
LiteralsChecked ==
  /\ Replied("tree") => UnreadableIn(Trees[reply.root]) = {}
  /\ Replied("errors") /\ Analyzing /\ Stated[call.data] # <<>> /\ Trees[call.data] # NoTree =>
       LET refused == UnreadableIn(Trees[call.data])
       IN  refused # {} => Len(reply.errors) = 1 /\ reply.errors[1] \in refused
=============================================================================
