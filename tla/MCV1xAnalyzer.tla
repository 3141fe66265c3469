---------------------------- MODULE MCV1xAnalyzer ----------------------------
(* Small programs for V1xAnalyzer: the alphabets its runs choose from.     *)
EXTENDS V1xMeaning

Int1(n)      == [node |-> "literal", value |-> Const("int", n)]
Real1(n)     == [node |-> "literal", value |-> Const("real", n)]
Id(n)        == [node |-> "identifier", name |-> n]
At(n, i)     == [node |-> "index", name |-> n, ranges |-> <<<<i, i>>>>]
Slice(n, r)  == [node |-> "index", name |-> n, ranges |-> r]
Op(n, args)  == [node |-> "call", name |-> n, args |-> args]
Matrix1(rows) == [node |-> "matrix", rows |-> rows]

Insn(n, operands) == [name |-> n, operands |-> operands, condition |-> NoExpression]
When(c, insn)     == [insn EXCEPT !.condition = c]
Goto(target)      == Insn("goto", <<Id(target)>>)
Map(alias, e)     == [alias |-> alias, expr |-> e]
Var(type, names)  == [type |-> type, names |-> names]
Sub(n, e)         == [name |-> n, iterations |-> e]

If(c)        == [node |-> "if_else", condition |-> c]
While(c)     == [node |-> "while", condition |-> c]
Repeat       == [node |-> "repeat_until"]
For(i, c, u) == [node |-> "for", initialize |-> i, condition |-> c, update |-> u]
Foreach(v, frm, to) == [node |-> "foreach", lhs |-> v, frm |-> frm, to |-> to]
Break        == [node |-> "break"]
Continue     == [node |-> "continue"]

TRUE1    == Id("true")
FALSE1   == Id("false")
Measured == At("b", 0)
Nothing  == {}
NoOverloads == <<>>

MCNames == {"a", "x", "y", "z", "true", "false", "pi", "eu", "im", "q", "b", "p", "v", "w"}
MCLowercase == [n \in {"P", "V", "Depolarizing_Channel"} |->
                  CASE n = "P" -> "p" [] n = "V" -> "v"
                    [] n = "Depolarizing_Channel" -> "depolarizing_channel"]

(* Programs about control flow: every structured statement with conditions *)
(* known at compile time and not, jumps out of them, and a name mapped in  *)
(* and outside of blocks.                                                  *)
TwoQubits == {Int1(2)}
ControlBundles ==
  {<<Insn("x", <<Id("p")>>)>>, <<When(FALSE1, Goto("a"))>>, <<When(Measured, Goto("a"))>>}
ControlMappings   == {Map("p", At("q", 0)), Map("P", At("q", 1))}
ControlSubcircuits == {Sub("a", NoExpression)}
ControlHeaders ==
  {If(TRUE1), If(Measured), While(FALSE1), While(Measured), Repeat, Break}
ControlConditions == {TRUE1, FALSE1, Measured}

(* Programs about values: instructions that do and do not fit the set,     *)
(* aliases, variables, assignments, constants computed and promoted,       *)
(* matrices old and new, error models, in files of all versions.           *)
ValueQubits == {NoExpression, Int1(2)}
OldUnitary  == Matrix1(<<<<Real1(1), Int1(0), Int1(0), Int1(0), Int1(0), Int1(0), Int1(1), Int1(0)>>>>)
Unitary(e)  == Matrix1(<<<<e, Int1(0)>>, <<Int1(0), e>>>>)
ValueBundles ==
  {<<Insn("cnot", <<At("q", 0), Id("p")>>)>>,
   <<Insn("cnot", <<Slice("q", <<<<0, 1>>>>), At("p", 0)>>)>>,
   <<Insn("rx", <<At("q", 1), Id("p")>>), Insn("display", <<>>)>>,
   <<When(FALSE1, Insn("x", <<At("q", 0)>>)), Insn("measure_all", <<>>)>>,
   <<When(Id("v"), Insn("not", <<Id("v")>>))>>,
   <<Insn("u", <<At("q", 0), OldUnitary>>), Insn("u", <<At("q", 1), Unitary(Id("im"))>>)>>,
   <<Insn("set", <<Id("v"), Id("p")>>)>>, <<Goto("a")>>}
ValueMappings ==
  {Map("p", Slice("q", <<<<1, 1>>, <<0, 0>>>>)), Map("P", Op("//", <<Int1(-7), Int1(2)>>)),
   Map("p", Op("%", <<Int1(7), Int1(-2)>>)), Map("p", Op("//", <<Int1(-8), Int1(-1)>>)),
   Map("v", Op("?:", <<TRUE1, Int1(1), Real1(2)>>))}
ValueVariables   == {Var("bool", <<"v">>), Var("real", <<"v", "p">>), Var("int", <<"V", "v">>)}
ValueSubcircuits == {Sub("a", Op("-", <<Int1(1), Int1(1)>>)), Sub("a", Int1(2))}
ValueErrorModels == {<<Id("depolarizing_channel"), Int1(1)>>, <<Id("depolarizing_channel")>>,
                     <<Id("Depolarizing_Channel"), Int1(1)>>, <<Id("depolarizing_channel"), TRUE1>>}
ValueHeaders ==
  {For(<<Id("v"), Int1(0)>>, Measured, NoExpression), Foreach(Id("v"), Int1(0), Int1(1)), Continue}
=============================================================================
