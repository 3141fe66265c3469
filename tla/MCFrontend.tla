------------------------------ MODULE MCFrontend ------------------------------
(* Texts for a Frontend: their version statements and parse trees.         *)
EXTENDS V3xReading

N(rule, token, kids) == [rule |-> rule, token |-> token, number |-> 0, kids |-> kids]
Leaf(rule, number)   == [rule |-> rule, token |-> "", number |-> number, kids |-> <<>>]

I(n)     == Leaf("integerLiteral", n)
F(n)     == Leaf("floatLiteral", n)
L(n)     == Leaf("booleanLiteral", n)
Id(name) == N("identifier", name, <<>>)
Bin(rule, sign, a, b) == N(rule, sign, <<a, b>>)
Un(rule, sign, a)     == N(rule, sign, <<a>>)
Add(sign, a, b)  == Bin("additionExpression", sign, a, b)
Mul(sign, a, b)  == Bin("productExpression", sign, a, b)
Shift(sign, a, b) == Bin("shiftExpression", sign, a, b)
Cmp(sign, a, b)  == Bin("comparisonExpression", sign, a, b)
Eq(sign, a, b)   == Bin("equalityExpression", sign, a, b)
Pow(a, b)        == Bin("powerExpression", "**", a, b)
If(c, a, b)      == N("ternaryConditionalExpression", "?", <<c, a, b>>)
Parens(e)        == N("parensExpression", "(", <<e>>)
List(es)         == N("initializationList", "{", es)
Axis(es)         == N("axisInitializationList", "[", es)
App(name, es)    == N("functionCall", name, es)
At(name, es)     == N("index", name, es)
One(e)           == N("indexItem", "", <<e>>)
To(a, b)         == N("indexRange", ":", <<a, b>>)

Type1(kind)     == N("type", kind, <<>>)
TypeN(kind, n)  == N("type", kind, <<Leaf("arraySize", n)>>)
Def(type, name) == N("variableDefinition", name, <<type>>)
Var(type, name, e) == N("variableInitialization", name, <<type, e>>)
Set(a, b)       == N("assignmentStatement", "=", <<a, b>>)
Return(e)       == N("returnStatement", "return", <<e>>)
Do(e)           == N("expressionStatement", "", <<e>>)
Gate(name, es)  == N("gate", name, es)
Measure(b, q)   == N("measureInstruction", "measure", <<b, q>>)
Fun(name, params, type, body) ==
  N("functionDeclaration", name,
    <<N("parameters", "", params), N("returnType", "", type), N("localBlock", "", body)>>)

Program(version, statements) ==
  N("program", "", <<N("version", "", [i \in DOMAIN version |-> Leaf("versionComponent", version[i])]),
                     N("globalBlock", "", statements)>>)

INT   == Type1("int")
FLOAT == Type1("float")
BOOL  == Type1("bool")
u     == Id("undeclared")

(* One set of statements for every kind of expression and of mistake.      *)
Programs ==
  [arithmetic |->
     <<Var(INT, "a", Add("+", I(1), Mul("*", I(2), Parens(Add("-", I(3), I(4)))))),
       Var(FLOAT, "b", Add("-", F(1), Un("unaryPlusMinusExpression", "-", I(2)))),
       Var(INT, "c", Mul("%", Mul("/", I(7), I(2)), Un("unaryPlusMinusExpression", "+", I(4)))),
       Var(FLOAT, "d", Pow(App("abs", <<Un("unaryPlusMinusExpression", "-", I(2))>>), Id("pi"))),
       Var(FLOAT, "e", Mul("*", App("sqrt", <<I(2)>>), L(1)))>>,
   promoted |->
     <<Var(FLOAT, "a", Add("-", I(1), I(2))), Var(FLOAT, "b", If(L(1), L(0), I(1))),
       Var(FLOAT, "c", App("abs", <<I(1)>>))>>,
   bitwise |->
     <<Var(INT, "a", Shift("<<", I(1), Shift(">>", I(8), I(1)))),
       Var(INT, "b", Bin("bitwiseOrExpression", "|", Bin("bitwiseAndExpression", "&", I(5), I(3)),
                         Bin("bitwiseXorExpression", "^", Un("bitwiseNotExpression", "~", I(1)), L(1))))>>,
   logical |->
     <<Var(BOOL, "a", Bin("logicalOrExpression", "||", Cmp("<", I(1), I(2)), Cmp(">=", F(1), I(2)))),
       Var(BOOL, "b", Bin("logicalXorExpression", "^^", Cmp(">", L(1), L(0)), Cmp("<=", I(1), I(2)))),
       Var(BOOL, "c", Bin("logicalAndExpression", "&&", Eq("==", I(1), L(1)),
                          Un("logicalNotExpression", "!", Eq("!=", L(1), Id("true"))))),
       Var(INT, "d", If(L(1), I(1), L(0))), Var(FLOAT, "e", If(Id("false"), F(1), I(0)))>>,
   lists |->
     <<Var(Type1("axis"), "n", Axis(<<I(1), F(2), L(0)>>)),
       Var(Type1("axis"), "o", Axis(<<I(0), Add("-", I(1), I(1)), F(0)>>)),
       Set(Id("n"), List(<<L(1), I(0), I(2)>>)),
       Var(TypeN("int", 2), "a", List(<<u, I(1)>>)),
       Var(TypeN("int", 2), "b", List(<<I(1), Add("+", u, I(1))>>)),
       Var(TypeN("int", 2), "c", List(<<Id("x"), u>>)),
       Var(TypeN("int", 2), "d", List(<<I(1), F(1)>>)),
       Return(List(<<u, I(1)>>)), Return(Add("+", u, I(1)))>>,
   quantum |->
     <<Def(TypeN("qubit", 3), "q"), Def(Type1("qubit"), "p"), Def(TypeN("bit", 2), "b"),
       Gate("h", <<Id("q")>>), Gate("cnot", <<At("q", <<To(I(0), Add("+", I(1), I(1)))>>), Id("p")>>),
       Gate("crk", <<At("q", <<One(I(0))>>), Id("p"), Add("-", I(3), I(1))>>),
       Gate("rx", <<Id("p"), Mul("/", Id("pi"), I(2))>>),
       Set(Id("b"), Id("b")),
       Measure(Id("b"), At("q", <<One(I(0)), One(I(2))>>))>>,
   indices |->
     <<Def(TypeN("qubit", 3), "q"), Def(TypeN("bit", 2), "b"),
       Gate("x", <<At("q", <<One(I(3))>>)>>), Gate("x", <<At("q", <<To(I(2), I(1))>>)>>),
       Gate("x", <<At("q", <<One(I(0)), One(F(1))>>)>>), Gate("x", <<At("q", <<One(u)>>)>>),
       Gate("x", <<At("q", <<To(I(0), Add("+", I(1), u))>>)>>),
       Gate("x", <<At("undeclared", <<One(I(0))>>)>>), Gate("x", <<At("n", <<One(I(0))>>)>>),
       Measure(Id("b"), Id("q")), Measure(Id("q"), Id("b")),
       Gate("rx", <<Id("q"), Add("+", F(1), Cmp("<", u, I(1)))>>), Gate("x", <<I(3)>>)>>,
   misplaced |->
     <<Def(Type1("qubit"), "q"), Set(Add("+", u, I(1)), I(1)), Set(I(1), I(2)),
       Var(INT, "a", F(1)), Var(INT, "b", Mul("*", I(2), Add("+", I(1), Id("q")))),
       Var(BOOL, "c", Bin("logicalAndExpression", "&&", L(1), I(2))),
       Do(Add("+", u, I(1))), Do(App("abs", <<Mul("*", I(1), u)>>)), Do(App("g", <<I(1)>>)),
       Def(TypeN("qubit", 0), "z"), Var(TypeN("int", 0), "y", List(<<I(1)>>)),
       Set(Id("a"), Mul("/", I(1), Parens(u)))>>,
   functions |->
     <<Fun("f", <<Def(INT, "k")>>, <<INT>>, <<Return(Id("k"))>>),
       Fun("f", <<Def(FLOAT, "k"), Def(INT, "l")>>, <<FLOAT>>, <<Return(Id("k"))>>),
       Var(INT, "a", App("f", <<Add("+", I(1), I(2))>>)),
       Do(App("f", <<F(1), L(1)>>))>>,
   bodies |->
     <<Fun("f", <<Def(INT, "k")>>, <<INT>>, <<Return(Add("+", Id("k"), I(1))), Return(I(1))>>),
       Fun("g", <<Def(TypeN("int", 0), "k")>>, <<>>, <<Return(I(1))>>),
       Fun("g", <<>>, <<INT>>, <<Return(F(1))>>),
       Fun("g", <<>>, <<TypeN("int", 0)>>, <<>>),
       Fun("g", <<>>, <<INT>>, <<Var(INT, "k", Add("-", u, I(1))), Return(I(1)), Return(L(1))>>),
       Set(Id("k"), App("g", <<>>))>>,
   called_twice |->
     <<Fun("f", <<>>, <<INT>>, <<Return(I(1))>>),
       Var(INT, "a", App("f", <<>>)), Var(INT, "b", App("f", <<>>))>>,
   no_value |->
     <<Fun("f", <<>>, <<>>, <<>>), Do(App("f", <<>>)),
       Fun("g", <<>>, <<INT>>, <<Return(App("f", <<>>))>>)>>,
   no_argument |->
     <<Fun("f", <<>>, <<>>, <<>>), Var(INT, "a", Add("+", App("f", <<>>), I(1)))>>,
   no_index |->
     <<Def(TypeN("qubit", 3), "q"), Fun("f", <<>>, <<>>, <<>>),
       Gate("x", <<At("q", <<One(App("f", <<>>))>>)>>)>>,
   no_variable |-> <<Gate("x", <<At("pi", <<One(I(0))>>)>>)>>,
   division    |-> <<Var(INT, "a", u), Var(INT, "b", Mul("/", I(1), Add("-", I(1), I(1))))>>,
   large_literal |-> <<Var(INT, "a", I(1001)), Var(INT, "b", I(1002))>>,
   large_operands |-> <<Var(FLOAT, "a", Add("+", F(1001), I(1002)))>>,
   large_float |-> <<Gate("rx", <<u, Un("unaryPlusMinusExpression", "-", F(1001))>>)>>,
   large_size  |-> <<Def(TypeN("qubit", 1001), "q")>>]

ProgramTexts ==
  {"arithmetic", "promoted", "bitwise", "logical", "lists", "quantum", "indices", "misplaced",
   "functions", "bodies", "called_twice", "no_value", "no_argument", "no_index", "no_variable",
   "division", "large_literal", "large_operands", "large_float", "large_size"}
V3Texts == {"newer", "third_component", "large_version", "unreadable", "rejected"}
V1Texts == {"v1_good", "v1_faulty", "v1_broken", "v1_newer"}
MCTexts == ProgramTexts \cup V3Texts \cup V1Texts \cup {"empty"}

(* The scanner reads any number of components and saturates at the largest *)
(* integer; the lexer of the parser takes two.  The parser accepts         *)
(* separators in front of the version, the scanner does not.               *)
MCStated ==
  [t \in MCTexts |->
     CASE t = "newer"                  -> <<3, 1>>
       [] t = "third_component"        -> <<3, 0, 1>>
       [] t = "large_version"          -> <<3, 1000>>
       [] t \in {"unreadable", "empty"} -> <<>>
       [] t = "v1_newer"               -> <<1, 3>>
       [] t \in V1Texts                -> <<1, 0>>
       [] OTHER                        -> <<3>>]

(* The numbers a double has room for, of those written.                    *)
MCDoubles == 0 .. 1000

Plain == <<Var(INT, "a", I(1))>>

MCTrees ==
  [t \in MCTexts |->
     CASE t \in ProgramTexts          -> Program(<<3>>, Programs[t])
       [] t = "newer"                 -> Program(<<3, 1>>, Plain)
       [] t = "unreadable"            -> Program(<<3, 0>>, Plain)
       [] t = "large_version"         -> Program(<<3, 1001>>, Plain)
       [] OTHER                       -> NoTree]

(* In version 1 what the parser and the analyzer find is not looked into.  *)
V1At(place) == Place(<<1>>, place)

V1Parsed(text) ==
  IF text = "v1_broken"   THEN {Result(<<V1At("line"), V1At("line_2")>>, text)}
  ELSE IF text \in V1Texts THEN {Result(<<>>, text)}
  ELSE                         {Result(<<V1At("syntax")>>, Missing)}

V1Analyzed(text) ==
  {[version |-> MCStated[text], at |-> V1At("version"), ends |-> TRUE, whole |-> TRUE,
    errors |-> IF text = "v1_faulty" THEN <<V1At("name")>> ELSE <<>>, meaning |-> <<>>]}

V3Parsed(text)   == ParseResults(text)
MCParsed   == [v1x |-> [t \in MCTexts |-> V1Parsed(t)], v3x |-> [t \in MCTexts |-> V3Parsed(t)]]
MCAnalyzed == [v1x |-> [t \in MCTexts |-> V1Analyzed(t)], v3x |-> [t \in MCTexts |-> AnalysisResults(t)]]

(* Version 3 has no streams and its strings are of all kinds; the default  *)
(* versions of both analyzers.                                             *)
Api(dialect) == IF dialect = "v3x" THEN <<3, 0>> ELSE <<1, 2>>

CallOf(dialect, source, op, data) ==
  [dialect |-> dialect, source |-> source, op |-> op, api |-> Api(dialect), data |-> data]

MCCalls ==
  {CallOf("v3x", "string", "analyze", t) : t \in MCTexts}
  \cup {CallOf("v3x", "string", op, t) : op \in {"parse", "unwrap"}, t \in V3Texts \cup {"large_operands"}}
  \cup {CallOf("v1x", "string", op, t) : op \in {"parse", "analyze", "unwrap"}, t \in V1Texts}
  \cup {CallOf("v1x", "stream", op, "empty") : op \in {"parse", "analyze"}}
  \cup {CallOf(d, "path", op, "empty") : d \in Dialects, op \in {"parse", "analyze"}}

MCFileTexts   == {"lists", "newer", "unreadable", "v1_good", "none"}
MCStreamTexts == {"v1_good", "v1_newer", "unreadable"}
=============================================================================
