----------------------------- MODULE V1xFunctions -----------------------------
(***************************************************************************)
(* The functions and the instruction set of the default cQASM 1 analyzer:  *)
(* v1x/cqasm-functions.hpp, v1x/cqasm-functions.cpp, v1x/cqasm.cpp.        *)
(*                                                                         *)
(* Functions work on constants only.  Integers have IntBits bits, 64 in    *)
(* the build, and wrap around.  Of the other kinds the functions keep what *)
(* a control decision can rest on: comparisons and choices.                *)
(***************************************************************************)
EXTENDS V1xValues

CONSTANT IntBits
ASSUME IntBitsAssumption == IntBits \in Nat \ {0, 1}

MinInt  == -(2 ^ (IntBits - 1))
Wrap(n) == ((n - MinInt) % (2 ^ IntBits)) + MinInt
Unsigned(n) == n % (2 ^ IntBits)

Magnitude(n) == IF n < 0 THEN -n ELSE n

(* The division of C++ rounds towards zero.                                *)
Quotient(a, b) ==
  LET q == Magnitude(a) \div Magnitude(b)
  IN  IF (a < 0) = (b < 0) THEN q ELSE -q
Remainder(a, b) == a - b * Quotient(a, b)

Adjusts(a, b) == Remainder(a, b) # 0 /\ (Remainder(a, b) < 0) # (b < 0)

(* Mutant: the sign of the dividend decides.                               *)
ModTruncated(a, b) == Remainder(a, b)

ModFloor(a, b) == IF Adjusts(a, b) THEN Remainder(a, b) + b ELSE Remainder(a, b)
DivFloor(a, b) == Quotient(a, b) - (IF Adjusts(a, b) THEN 1 ELSE 0)

(* Division by zero, and of the smallest integer by -1, ends the process.  *)
Traps(a, b) == b = 0 \/ (a = MinInt /\ b = -1)

Bit(n, i) == (Unsigned(n) \div (2 ^ i)) % 2

FirstSum(f, n) ==
  LET sum[k \in 0 .. n] == IF k = 0 THEN 0 ELSE sum[k - 1] + f[k] IN sum[n]

Bitwise2(a, b, Op(_, _)) ==
  Wrap(FirstSum([k \in 1 .. IntBits |->
                   IF Op(Bit(a, k - 1) = 1, Bit(b, k - 1) = 1) THEN 2 ^ (k - 1) ELSE 0],
                IntBits))

(* A shift count is taken modulo the width: undefined in C++ beyond it,    *)
(* and what the processors the library is built for do.                    *)
Count(b) == b % IntBits

IntBinaries == {"+", "-", "*", "//", "%", "&", "^", "|", "<<", ">>", ">>>"}
IntArithmetic(op, a, b) ==
  CASE op = "+"   -> Wrap(a + b)
    [] op = "-"   -> Wrap(a - b)
    [] op = "*"   -> Wrap(a * b)
    [] op = "//"  -> DivFloor(a, b)
    [] op = "%"   -> ModFloor(a, b)
    [] op = "&"   -> Bitwise2(a, b, LAMBDA x, y : x /\ y)
    [] op = "^"   -> Bitwise2(a, b, LAMBDA x, y : x # y)
    [] op = "|"   -> Bitwise2(a, b, LAMBDA x, y : x \/ y)
    [] op = "<<"  -> Wrap(a * 2 ^ Count(b))
    [] op = ">>"  -> a \div 2 ^ Count(b)
    [] op = ">>>" -> Wrap(Unsigned(a) \div 2 ^ Count(b))

IntUnaries == {"-", "~", "abs"}
IntUnary(op, a) ==
  CASE op = "-"   -> Wrap(-a)
    [] op = "~"   -> -a - 1
    [] op = "abs" -> Wrap(Magnitude(a))

Comparisons == {"==", "!=", ">=", ">", "<=", "<"}
Compare(op, a, b) ==
  CASE op = "==" -> a = b  [] op = "!=" -> a # b
    [] op = ">=" -> a >= b [] op = ">"  -> a > b
    [] op = "<=" -> a <= b [] op = "<"  -> a < b

Logical(op, a, b) ==
  CASE op = "&&" -> a = 1 /\ b = 1
    [] op = "||" -> a = 1 \/ b = 1
    [] op = "^^" -> a # b

-----------------------------------------------------------------------------
(* The default functions.  Operators go by their sign.  Overloads of one   *)
(* name stand in the order of registration, the last one being tried first. *)
ForEach(names, spec, result) ==
  [i \in DOMAIN names |-> [name |-> names[i], params |-> FromSpec(spec), result |-> result]]

Elementary == <<"sqrt", "exp", "log", "sin", "cos", "tan", "sinh", "cosh", "tanh",
                "asin", "acos", "atan", "asinh", "acosh", "atanh">>
Ordered    == <<"==", "!=", ">=", ">", "<=", "<">>

DefaultFunctions ==
     ForEach(<<"-">> \o Elementary, <<"c">>, "complex")
  \o ForEach(<<"-", "abs">> \o Elementary, <<"r">>, "real")
  \o ForEach(<<"-", "~", "abs">>, <<"i">>, "int")
  \o ForEach(<<"!">>, <<"b">>, "bool")
  \o ForEach(<<"+", "-", "*", "/", "**">>, <<"c", "c">>, "complex")
  \o ForEach(<<"+", "-", "*", "/", "**">>, <<"r", "r">>, "real")
  \o ForEach(<<"+", "-", "*", "//", "%", "&", "^", "|", "<<", ">>", ">>>">>, <<"i", "i">>, "int")
  \o ForEach(<<"+">>, <<"s", "s">>, "string")
  \o ForEach(<<"==", "!=">>, <<"c", "c">>, "bool")
  \o ForEach(Ordered, <<"r", "r">>, "bool")
  \o ForEach(Ordered, <<"i", "i">>, "bool")
  \o ForEach(Ordered \o <<"&&", "^^", "||">>, <<"b", "b">>, "bool")
  \o ForEach(<<"?:">>, <<"b", "c", "c">>, "complex")
  \o ForEach(<<"?:">>, <<"b", "r", "r">>, "real")
  \o ForEach(<<"?:">>, <<"b", "i", "i">>, "int")
  \o ForEach(<<"?:">>, <<"b", "b", "b">>, "bool")
  \o ForEach(<<"complex", "polar">>, <<"r", "r">>, "complex")
  \o ForEach(<<"real", "imag", "arg", "norm">>, <<"c">>, "real")
  \o ForEach(<<"conj">>, <<"c">>, "complex")

(* What the implementation of an overload returns for promoted arguments.  *)
(* check_const refuses anything but constants.  A number that is not kept  *)
(* is 0.                                                                   *)
ComputedInt(op, x) ==
  IF Len(x) = 1 THEN Const("int", IntUnary(op, x[1]))
  ELSE IF op \in {"//", "%"} /\ Traps(x[1], x[2]) THEN Crash
  ELSE Const("int", IntArithmetic(op, x[1], x[2]))

Computed(op, result, x) ==
  CASE op = "?:"                         -> Const(result, IF x[1] = 1 THEN x[2] ELSE x[3])
    [] op \in Comparisons                -> Bool(Compare(op, x[1], x[2]))
    [] op \in {"&&", "||", "^^"}         -> Bool(Logical(op, x[1], x[2]))
    [] op = "!"                          -> Bool(x[1] = 0)
    [] op # "?:" /\ result = "int"       -> ComputedInt(op, x)
    [] OTHER                             -> Const(result, 0)

CallImpl(overload, args) ==
  IF \A i \in DOMAIN args : IsConst(args[i])
  THEN Computed(overload.name, overload.result, [i \in DOMAIN args |-> args[i].value])
  ELSE Error

(* FunctionTable::call: the result of the overload resolved.               *)
Call(functions, name, args) ==
  IF Applicable(functions, name, args) = {} THEN Error
  ELSE LET f == functions[Resolve(functions, name, args)]
       IN  CallImpl(f, PromotedArgs(args, f.params))

-----------------------------------------------------------------------------
(* The default instruction set.  The flags are allow_conditional,          *)
(* allow_parallel, allow_reused_qubits and allow_different_index_sizes.    *)
Register(names, spec, conditional, parallel, reused, sizes) ==
  [i \in DOMAIN names |->
     [name |-> names[i], params |-> FromSpec(spec),
      allow_conditional |-> conditional, allow_parallel |-> parallel,
      allow_reused_qubits |-> reused, allow_different_index_sizes |-> sizes]]

Plain(names, spec)    == Register(names, spec, TRUE, TRUE, FALSE, FALSE)
Solitary(names, spec) == Register(names, spec, FALSE, FALSE, FALSE, FALSE)

DefaultInstructions ==
     Solitary(<<"measure_all", "display", "display_binary", "reset-averaging">>, <<>>)
  \o Register(<<"measure_parity">>, <<"Q", "a", "Q", "a">>, FALSE, FALSE, FALSE, TRUE)
  \o Plain(<<"x", "y", "z", "i", "h", "x90", "y90", "mx90", "my90",
             "s", "sdag", "t", "tdag">>, <<"Q">>)
  \o Plain(<<"u">>, <<"Q", "u">>)
  \o Register(<<"prep", "prep_x", "prep_y", "prep_z",
                "measure", "measure_x", "measure_y", "measure_z">>, <<"Q">>, FALSE, TRUE, FALSE, FALSE)
  \o Plain(<<"rx", "ry", "rz">>, <<"Q", "r">>)
  \o Plain(<<"cnot", "cz", "swap">>, <<"Q", "Q">>)
  \o Plain(<<"cr">>, <<"Q", "Q", "r">>)
  \o Plain(<<"crk">>, <<"Q", "Q", "i">>)
  \o Plain(<<"toffoli">>, <<"Q", "Q", "Q">>)
  \o Plain(<<"not">>, <<"B">>)
  \o Solitary(<<"display", "display_binary">>, <<"B">>)
  \o Solitary(<<"skip">>, <<"i">>)
  \o Solitary(<<"wait">>, <<"Q", "i">>)
  \o Solitary(<<"barrier", "reset-averaging">>, <<"Q">>)
  \o Solitary(<<"load_state">>, <<"s">>)

(* depolarizing_channel with up to 50 numbers.                             *)
DefaultErrorModels ==
  [n \in 1 .. 51 |-> [name   |-> "depolarizing_channel",
                      params |-> FromSpec([i \in 1 .. n - 1 |-> "r"])]]

(* The mappings registered before the first statement.                     *)
DefaultMappings ==
  [x |-> Const("axis", 0), y |-> Const("axis", 0), z |-> Const("axis", 0),
   true |-> Bool(TRUE), false |-> Bool(FALSE),
   pi |-> Const("real", 0), eu |-> Const("real", 0), im |-> Const("complex", 0)]
=============================================================================
