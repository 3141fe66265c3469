---------------------------- MODULE MCV3xAnalyzer ----------------------------
(* Small programs for V3xAnalyzer: the alphabets its runs choose from.     *)
EXTENDS V3xAnalyzer

INT   == [name |-> "int",   sized |-> FALSE, size |-> 0]
FLOAT == [name |-> "float", sized |-> FALSE, size |-> 0]
AXIS  == [name |-> "axis",  sized |-> FALSE, size |-> 0]
BIT   == [name |-> "bit",   sized |-> FALSE, size |-> 0]
INTS(n)   == [name |-> "int",   sized |-> TRUE, size |-> n]
FLOATS(n) == [name |-> "float", sized |-> TRUE, size |-> n]
BITS(n)   == [name |-> "bit",   sized |-> TRUE, size |-> n]
QUBITS(n) == [name |-> "qubit", sized |-> TRUE, size |-> n]

Lit(kind)      == [node |-> "literal", value |-> Const(kind, 1, FALSE)]
Id(n)          == [node |-> "identifier", name |-> n]
At(n, indices) == [node |-> "index", name |-> n, indices |-> indices]
Call(n, args)  == [node |-> "call", name |-> n, args |-> args]
Zeros          == [node |-> "literal", value |-> Const("int_array", 3, TRUE)]

Decl(n, t)          == [name |-> n, type |-> t]
InitTo(n, t, e)     == [name |-> n, type |-> t, rhs |-> e]
Def(n, returns)     == [name |-> n, returns |-> returns]
Assign(lhs, rhs)    == [node |-> "assignment", operands |-> <<lhs, rhs>>]
Return(e)           == [node |-> "return", operands |-> <<e>>]
Expr(e)             == [node |-> "expression", operands |-> <<e>>]
Gate(n, operands)   == [node |-> "gate", name |-> n, operands |-> operands]
Measure(lhs, rhs)   == [node |-> "measure", name |-> "measure", operands |-> <<lhs, rhs>>]

MCNames == {"a", "b", "f", "g", "pi"}

(* What default_analyzer registers, cut down to what the programs use.     *)
MCMappedValue == [n \in {"pi"} |-> Const("float", 1, FALSE)]
NoOverloads   == <<>>
NoStatements  == {}

AbsImpls ==
  <<[name |-> "f", params |-> <<"float">>, result |-> "float"],
    [name |-> "f", params |-> <<"int">>,   result |-> "int"]>>

DefaultInstructions ==
  <<[name |-> "h", params |-> <<"qubit">>],
    [name |-> "h", params |-> <<"qubit_array">>],
    [name |-> "measure", params |-> <<"bit", "qubit">>],
    [name |-> "measure", params |-> <<"bit_array", "qubit_array">>],
    [name |-> "measure", params |-> <<"bit", "qubit_array">>],
    [name |-> "measure", params |-> <<"bit_array", "qubit">>]>>

(* Programs about scopes: a name declared again, in the same scope and in  *)
(* an inner one, with another type, or in vain; a local used from another  *)
(* function; a call without a value where one is needed.                   *)
ScopesDecls  == {Decl("a", INT), Decl("a", FLOAT)}
ScopesDefs   == {Def("f", {}), Def("g", {INT})}
ScopesInits  == {InitTo("b", INT, Id("a")), InitTo("pi", INTS(0), Lit("int"))}
ScopesOthers == {Assign(Id("a"), Id("b")), Return(Call("f", <<>>)),
                 Expr(Call("f", <<Call("f", <<>>)>>))}

(* Programs about functions: overloads, next to two implemented in C++;    *)
(* calls in bodies, arguments and returns; returns to be promoted.         *)
FunctionsDecls  == {Decl("a", INT)}
FunctionsDefs   == {Def("f", {}), Def("f", {FLOAT}), Def("g", {INT})}
FunctionsInits  == {}
FunctionsOthers == {Return(Lit("int")), Return(Lit("float")), Return(Id("a")),
                    Return(Call("f", <<>>)), Expr(Call("f", <<Id("a")>>)),
                    Expr(Call("f", <<Lit("bool")>>)), Expr(Call("g", <<>>))}

(* Programs about qubits and bits: arrays declared again with another      *)
(* size, instructions on whole arrays and on parts of them, and an index   *)
(* into a constant.                                                        *)
QuantumDecls  == {Decl("a", QUBITS(0)), Decl("a", QUBITS(1)), Decl("a", QUBITS(2)),
                  Decl("b", BITS(0)), Decl("b", BITS(2)), Decl("b", BIT)}
QuantumDefs   == {Def("f", {})}
QuantumInits  == {InitTo("b", AXIS, Zeros)}
QuantumOthers == {Gate("h", <<Id("a")>>), Gate("h", <<At("a", <<0, 0>>)>>), Gate("h", <<At("a", <<1>>)>>),
                  Gate("h", <<At("pi", <<0>>)>>), Gate("h", <<Lit("int")>>),
                  Measure(Id("b"), Id("a")), Measure(At("b", <<0, 1>>), Id("a")),
                  Measure(Id("b"), At("a", <<0>>)),
                  Assign(At("b", <<0>>), At("b", <<1>>))}

(* Programs that call one function.                                        *)
CallsDecls  == {}
CallsDefs   == {Def("f", {})}
CallsInits  == {}
CallsOthers == {Expr(Call("f", <<>>))}
=============================================================================
