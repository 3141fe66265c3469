------------------------------ MODULE V1xValues ------------------------------
(***************************************************************************)
(* Types and values of the cQASM 1 semantic analyzer, and the overload     *)
(* resolution built on them: v1x/cqasm-types.cpp, v1x/cqasm-values.cpp,    *)
(* v1x/cqasm-resolver.cpp.                                                 *)
(*                                                                         *)
(* A constant keeps an integer; that of a real is integral, and what a     *)
(* complex number, a matrix, a string or an axis holds is left out.        *)
(***************************************************************************)
EXTENDS Integers, Sequences, FiniteSetsExt

MatrixKinds == {"real_matrix", "complex_matrix"}
Kinds == {"qubit", "axis", "bool", "int", "real", "complex", "string", "json"} \cup MatrixKinds

(* rows and cols constrain a matrix, negative numbers meaning no constraint. *)
Type == [kind : Kinds, assignable : BOOLEAN, rows : Int, cols : Int]

ScalarType(kind, assignable) ==
  [kind |-> kind, assignable |-> assignable, rows |-> 0, cols |-> 0]
MatrixType(kind, rows, cols, assignable) ==
  [kind |-> kind, assignable |-> assignable, rows |-> rows, cols |-> cols]

(* The type of one letter of a parameter specification; Q and B are the    *)
(* upper case letters of the instruction set.  A unitary has 2^n rows for  *)
(* n qubits among the parameters.                                          *)
Letters == {"Q", "B", "R", "a", "b", "i", "r", "c", "u", "m", "n", "s", "j"}

TypeOfLetter(letter, qubits) ==
  CASE letter = "Q" -> ScalarType("qubit", TRUE)
    [] letter = "B" -> ScalarType("bool", TRUE)
    [] letter = "R" -> ScalarType("real", TRUE)
    [] letter = "a" -> ScalarType("axis", FALSE)
    [] letter = "b" -> ScalarType("bool", FALSE)
    [] letter = "i" -> ScalarType("int", FALSE)
    [] letter = "r" -> ScalarType("real", FALSE)
    [] letter = "c" -> ScalarType("complex", FALSE)
    [] letter = "u" -> MatrixType("complex_matrix", 2 ^ qubits, 2 ^ qubits, FALSE)
    [] letter = "m" -> MatrixType("real_matrix", -1, -1, FALSE)
    [] letter = "n" -> MatrixType("complex_matrix", -1, -1, FALSE)
    [] letter = "s" -> ScalarType("string", FALSE)
    [] letter = "j" -> ScalarType("json", FALSE)

FromSpec(spec) ==
  [i \in DOMAIN spec |->
     TypeOfLetter(spec[i], Cardinality({j \in DOMAIN spec : spec[j] = "Q"}))]

TypeCheck(expected, actual) ==
  /\ expected.assignable => actual.assignable
  /\ actual.kind = expected.kind
  /\ expected.kind \in MatrixKinds =>
       /\ expected.cols >= 0 => actual.cols = expected.cols
       /\ expected.rows >= 0 => actual.rows = expected.rows

-----------------------------------------------------------------------------
(* Values: constants, references to bits of the qubit and measurement      *)
(* registers, references to variables, and calls left for run time.        *)
Matrix(kind, rows, cols) ==
  [node |-> "const", kind |-> kind, value |-> 0, rows |-> rows, cols |-> cols]
Const(kind, value) ==
  [node |-> "const", kind |-> kind, value |-> value, rows |-> 0, cols |-> 0]
Bool(b)            == Const("bool", IF b THEN 1 ELSE 0)
QubitRefs(index)   == [node |-> "qubit_refs", index |-> index]
BitRefs(index)     == [node |-> "bit_refs", index |-> index]
VariableRef(id, type)  == [node |-> "variable_ref", variable |-> id, type |-> type]
Function(name, args, return_type) ==
  [node |-> "function", name |-> name, args |-> args, return_type |-> return_type]

(* Not values: what an expression ends in when an AnalysisError is thrown, *)
(* or when the C++ division traps.                                         *)
Error == [node |-> "error"]
Crash == [node |-> "crash"]

Failed(v)      == v \in {Error, Crash}
IsConst(v)     == v.node = "const"
IsRefs(v)      == v.node \in {"qubit_refs", "bit_refs"}
IsReference(v) == IsRefs(v) \/ v.node = "variable_ref"
IsTrue(v)      == v = Bool(TRUE)
IsFalse(v)     == v = Bool(FALSE)

TypeOf(v) ==
  CASE v.node = "const"        -> MatrixType(v.kind, v.rows, v.cols, FALSE)
    [] v.node = "qubit_refs"   -> ScalarType("qubit", TRUE)
    [] v.node = "bit_refs"     -> ScalarType("bool", TRUE)
    [] v.node = "function"     -> v.return_type
    [] v.node = "variable_ref" -> v.type

-----------------------------------------------------------------------------
(* promote.  The type is matched as type_check does; a constant of another *)
(* kind is converted, whether or not the type is assignable.               *)
IsFlatUnitary(v, type) ==
  /\ type.rows = type.cols /\ type.rows > 0
  /\ v.rows = 1 /\ v.cols = 2 * type.rows * type.rows

Converts(v, type) ==
  /\ IsConst(v)
  /\ CASE type.kind = "real"           -> v.kind = "int"
       [] type.kind = "complex"        -> v.kind \in {"int", "real"}
       [] type.kind = "complex_matrix" ->
            /\ v.kind = "real_matrix"
            /\ \/ /\ type.rows < 0 \/ v.rows = type.rows
                  /\ type.cols < 0 \/ v.cols = type.cols
               \/ IsFlatUnitary(v, type)
       [] OTHER -> FALSE

Converted(v, type) ==
  IF type.kind # "complex_matrix" THEN Const(type.kind, v.value)
  ELSE IF (type.rows < 0 \/ v.rows = type.rows) /\ (type.cols < 0 \/ v.cols = type.cols)
       THEN Matrix("complex_matrix", v.rows, v.cols)
       ELSE Matrix("complex_matrix", type.rows, type.cols)

Promotable(v, type) == TypeCheck(type, TypeOf(v)) \/ Converts(v, type)

(* Mutant: the value is taken as it is.                                    *)
PromoteNothing(v, type) == IF Promotable(v, type) THEN v ELSE Error

Promote(v, type) ==
  IF TypeCheck(type, TypeOf(v)) THEN v
  ELSE IF Converts(v, type)     THEN Converted(v, type)
  ELSE                               Error

-----------------------------------------------------------------------------
(* Overloads of functions, instructions and error models: name and params. *)
(* The last one added that takes the arguments is used.                    *)
Takes(params, args) ==
  /\ Len(params) = Len(args)
  /\ \A i \in DOMAIN args : Promotable(args[i], params[i])

Applicable(overloads, name, args) ==
  {k \in DOMAIN overloads : overloads[k].name = name /\ Takes(overloads[k].params, args)}

Resolve(overloads, name, args) == Max(Applicable(overloads, name, args))

PromotedArgs(args, params) == [i \in DOMAIN args |-> Promote(args[i], params[i])]
=============================================================================
