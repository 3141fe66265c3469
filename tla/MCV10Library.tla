---------------------------- MODULE MCV10Library ----------------------------
(* Texts for a libQasm object.                                             *)
EXTENDS V10Library

CONSTANTS bad, wrong, empty, plain, named, both, kinds, twice, conditional, lossy, zero, wrapped,
          long, vast, mapped, loading, nameless, angle, matrix, letter, xaxis, yaxis, model

Q(list)  == [type |-> "Q", value |-> list]
B(list)  == [type |-> "B", value |-> list]
I(n)     == [type |-> "i", value |-> n]
S(name)  == [type |-> "s", value |-> name]
R        == [type |-> "r", value |-> angle]
A(axis)  == [type |-> "a", value |-> axis]

Gate(name, operands)        == [name |-> name, operands |-> operands, condition |-> <<>>]
C(condition, name, operands) == [name |-> name, operands |-> operands, condition |-> condition]
Sub(name, n, list)          == [name |-> name, iterations |-> n, bundles |-> list]

Program(subcircuits) ==
  [errors |-> 0, num_qubits |-> 3, variables |-> FALSE, version |-> <<1, 0>>,
   error_model |-> NoModel, subcircuits |-> subcircuits, mappings |-> {}]

X == Gate("x", <<Q(<<0>>)>>)
H == Gate("h", <<Q(<<1, 2>>)>>)
Cnot == Gate("cnot", <<Q(<<0, 1>>), Q(<<1, 2>>)>>)

EveryKind ==
  <<<<Gate("prep_z", <<Q(<<0, 1, 2>>)>>), Gate("u", <<Q(<<1>>), [type |-> "u", value |-> matrix]>>),
      Gate("rx", <<Q(<<2>>), R>>)>>,
    <<Cnot>>, <<Gate("cr", <<Q(<<0>>), Q(<<1>>), R>>), Gate("crk", <<Q(<<1>>), Q(<<2>>), I(3)>>)>>,
    <<Gate("toffoli", <<Q(<<2>>), Q(<<1>>), Q(<<0>>)>>)>>, <<Gate("not", <<B(<<1>>)>>)>>,
    <<Gate("skip", <<I(2)>>)>>, <<Gate("wait", <<Q(<<0>>), I(1)>>), Gate("barrier", <<Q(<<0, 1>>)>>)>>,
    <<Gate("measure_parity", <<Q(<<0, 1>>), A(xaxis), Q(<<2>>), A(yaxis)>>)>>,
    <<Gate("reset-averaging", <<Q(<<1>>)>>), Gate("reset-averaging", <<>>)>>,
    <<Gate("measure_all", <<>>)>>, <<Gate("display", <<>>)>>,
    <<Gate("display", <<B(<<2, 2>>)>>), Gate("display_binary", <<B(<<1>>)>>)>>>>

MCAnalyzed ==
  wrong       :> [Program(<<>>) EXCEPT !.errors = 1] @@
  empty       :> [Program(<<>>) EXCEPT !.version = <<0, 12>>] @@
  plain       :> Program(<<Sub("", 1, <<<<X>>, <<H, X>>>>)>>) @@
  named       :> Program(<<Sub("a", 2, <<<<X, H>>>>), Sub("b", 1, <<>>)>>) @@
  both        :> [Program(<<Sub("", 1, <<<<X>>>>), Sub("a", 3, <<<<H>>, <<Cnot, X>>>>),
                            Sub("b", 1, <<<<X>>>>)>>) EXCEPT !.error_model = model] @@
  kinds       :> Program(<<Sub("", 1, EveryKind)>>) @@
  twice       :> Program(<<Sub("a", 1, <<<<X>>>>), Sub("a", 2, <<<<H>>>>)>>) @@
  conditional :> Program(<<Sub("a", 1, <<<<C(<<0, 1>>, "x", <<Q(<<0>>)>>)>>,
                                         <<C(<<2>>, "cnot", <<Q(<<0>>), Q(<<1>>)>>), H>>>>)>>) @@
  lossy       :> Program(<<Sub("", 1, <<<<C(<<0>>, "not", <<B(<<1>>)>>)>>>>)>>) @@
  zero        :> Program(<<Sub("a", 1, <<<<X>>>>), Sub("b", IntRange, <<<<H>>>>)>>) @@
  wrapped     :> Program(<<Sub("a", IntRange + 1, <<<<X>>>>)>>) @@
  long        :> Program(<<Sub("a", 1, <<<<Gate("wait", <<Q(<<0>>), I(IntRange - 1)>>)>>>>)>>) @@
  vast        :> [Program(<<Sub("", 1, <<<<X>>>>)>>) EXCEPT !.num_qubits = IntRange \div 2] @@
  loading     :> Program(<<Sub("", 1, <<<<Gate("load_state", <<S(<<letter, letter, letter>>)>>)>>, <<X>>>>)>>) @@
  nameless    :> Program(<<Sub("a", 1, <<<<X>>, <<Gate("load_state", <<S(<<letter>>)>>)>>>>)>>) @@
  mapped      :> [Program(<<>>) EXCEPT
                    !.version  = <<1>>,
                    !.mappings = {[name |-> "a", type |-> "Q", value |-> <<0, 2>>],
                                  [name |-> "b", type |-> "B", value |-> <<1>>],
                                  [name |-> "n", type |-> "i", value |-> 3]}]
=============================================================================
