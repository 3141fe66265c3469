---------------------------- MODULE V10Conversion ----------------------------
(***************************************************************************)
(* The compatibility layer of cQASM 1.0 (include/v10/): a libQasm object   *)
(* parses strings and files with the v1.x library, copies the analyzed     *)
(* program into the old classes and checks the copy before it keeps it.    *)
(*                                                                         *)
(* What the parser and the analyzer of v1.x make of a text is a constant;  *)
(* what they may make of it is AnalyzedAssumption.                         *)
(***************************************************************************)
EXTENDS Integers, Sequences, SequencesExt

CONSTANTS
  Unparsable,  \* texts with parse errors
  Analyzed,    \* text -> what the analyzer of API version 1.0 returns for it
  IntRange,    \* how many values an int has: 2^32
  NoModel,     \* stands for the error model of a program without one
  Unset,       \* stands for a member no constructor gave a value
  Garbled,     \* stands for a file name made of memory that is not its own
  Indices,     \* bound: indices of qubits and bits
  MaxCalls     \* bound: calls of one object

Texts == Unparsable \cup DOMAIN Analyzed

(***************************************************************************)
(* Instructions as the analyzer hands them over: an operand has a type (a  *)
(* letter of the signatures below) and a value, a string being the         *)
(* sequence of its characters; a condition is a list of bits, empty for    *)
(* the constant true.                                                      *)
(***************************************************************************)
Reg(type, names, params, conditional) ==
  {[name |-> n, params |-> params, type |-> type, conditional |-> conditional] : n \in names}

Registered ==
  Reg("NoArg", {"measure_all", "display", "display_binary", "reset-averaging"}, <<>>, FALSE)
  \cup Reg("MeasureParity", {"measure_parity"}, <<"Q", "a", "Q", "a">>, FALSE)
  \cup Reg("SingleQubit", {"x", "y", "z", "i", "h", "x90", "y90", "mx90", "my90", "s", "sdag", "t",
                           "tdag"}, <<"Q">>, TRUE)
  \cup Reg("SingleQubitMatrix", {"u"}, <<"Q", "u">>, TRUE)
  \cup Reg("SingleQubit", {"prep", "prep_x", "prep_y", "prep_z", "measure", "measure_x", "measure_y",
                           "measure_z", "barrier", "reset-averaging"}, <<"Q">>, FALSE)
  \cup Reg("SingleQubitReal", {"rx", "ry", "rz"}, <<"Q", "r">>, TRUE)
  \cup Reg("TwoQubit", {"cnot", "cz", "swap"}, <<"Q", "Q">>, TRUE)
  \cup Reg("TwoQubitReal", {"cr"}, <<"Q", "Q", "r">>, TRUE)
  \cup Reg("TwoQubitInt", {"crk"}, <<"Q", "Q", "i">>, TRUE)
  \cup Reg("ThreeQubit", {"toffoli"}, <<"Q", "Q", "Q">>, TRUE)
  \cup Reg("NotGate", {"not"}, <<"B">>, TRUE)
  \cup Reg("SingleBit", {"display", "display_binary"}, <<"B">>, FALSE)
  \cup Reg("SingleInt", {"skip"}, <<"i">>, FALSE)
  \cup Reg("SingleQubitInt", {"wait"}, <<"Q", "i">>, FALSE)
  \cup Reg("SingleString", {"load_state"}, <<"s">>, FALSE)

TypesOf(operands) == [i \in DOMAIN operands |-> operands[i].type]

Signature(insn) ==
  CHOOSE r \in Registered : r.name = insn.name /\ r.params = TypesOf(insn.operands)

IsIndexList(list) == list \in Seq(Indices) /\ list # <<>>

IsSequence(list) == list \in Seq(Range(list))

(* What register_instruction makes the analyzer refuse is not there: other *)
(* signatures, conditions where none are allowed, lists of different       *)
(* lengths except for measure_parity, and a qubit twice in a list.         *)
ResolvedInstruction(insn) ==
  /\ \E r \in Registered : /\ r.name = insn.name /\ r.params = TypesOf(insn.operands)
                           /\ insn.condition # <<>> => r.conditional
  /\ insn.condition \in Seq(Indices)
  /\ \A o \in Range(insn.operands) : /\ o.type \in {"Q", "B"} => IsIndexList(o.value)
                                     /\ o.type = "Q" => IsInjective(o.value)
                                     /\ o.type = "i" => o.value \in Int
                                     /\ o.type = "s" => IsSequence(o.value)
  /\ insn.name # "measure_parity" =>
       \A o, p \in Range(insn.operands) :
          o.type = "Q" /\ p.type = "Q" => Len(o.value) = Len(p.value)

(* The subcircuits of an analyzed program: one without a name can only be  *)
(* the first, and then it holds what precedes the first header.            *)
AnalyzedSubcircuits(list) ==
  /\ IsSequence(list) /\ \A s \in Range(list) : IsSequence(s.bundles)
  /\ \A i \in DOMAIN list : list[i].name = "" => i = 1 /\ list[i].iterations = 1
  /\ \A i \in DOMAIN list : list[i].iterations \in Nat \ {0}
  /\ \A s \in Range(list) : \A bundle \in Range(s.bundles) :
        IsSequence(bundle) /\ bundle # <<>> /\ \A insn \in Range(bundle) : ResolvedInstruction(insn)

Instructions(p) ==
  UNION {UNION {Range(bundle) : bundle \in Range(s.bundles)} : s \in Range(p.subcircuits)}

(* Mappings are of every type; only those to qubits and bits have a place  *)
(* in the old API.                                                         *)
References(p) == {m \in p.mappings : m.type \in {"Q", "B"}}

IndexLists(p) ==
  {m.value : m \in References(p)} \cup
  UNION {{insn.condition} \cup {o.value : o \in {x \in Range(insn.operands) : x.type \in {"Q", "B"}}} :
           insn \in Instructions(p)}

(* Every index has been checked against the size of the register.          *)
AnalyzedProgram(p) ==
  /\ p.errors \in Nat
  /\ p.errors = 0 => /\ p.num_qubits \in Nat \ {0} /\ ~p.variables
                     /\ AnalyzedSubcircuits(p.subcircuits)
                     /\ \A list \in IndexLists(p) :
                          list \in Seq(Indices) /\ \A i \in Range(list) : i < p.num_qubits

ASSUME AnalyzedAssumption ==
  /\ Unparsable \cap DOMAIN Analyzed = {}
  /\ \A t \in DOMAIN Analyzed : AnalyzedProgram(Analyzed[t])

(* No value that is handed over is the mark of a member without one.       *)
ASSUME UnsetAssumption ==
  /\ Unset \notin Texts \cup Int
  /\ \A t \in DOMAIN Analyzed : Analyzed[t].errors = 0 =>
       \A insn \in Instructions(Analyzed[t]) : \A o \in Range(insn.operands) : o.value # Unset

ASSUME BoundsAssumption ==
  IntRange \in Nat /\ IntRange > 2 /\ IntRange % 2 = 0 /\ Indices \subseteq Nat /\ MaxCalls \in Nat

-----------------------------------------------------------------------------
(* The old classes.                                                        *)

(* Mutant: the old classes hold numbers of 64 bits.                        *)
AsWritten(n) == n

(* static_cast<int> of a 64-bit number.                                    *)
AsInt(n) == ((n + IntRange \div 2) % IntRange) - IntRange \div 2

(* static_cast<size_t> of an int; a size_t has twice the bits.             *)
AsSize(n) == IF n < 0 THEN n + IntRange * IntRange ELSE n

(* Every index goes through an int on its way to a size_t.                 *)
ConvertIndices(indices) == [i \in DOMAIN indices |-> AsSize(AsInt(indices[i]))]

Operation(type) ==
  [type |-> type, qubits |-> <<>>, bits |-> <<>>, bit_controlled |-> FALSE,
   all_qubits_bits |-> FALSE, wait_time |-> Unset, argument |-> Unset,
   measure_parity |-> << <<>>, <<>> >>, axes |-> <<>>,
   two_qubit_pairs |-> << <<>>, <<>> >>, toffoli |-> << <<>>, <<>>, <<>> >>]

SetControlBits(op, bits) == [op EXCEPT !.bits = bits, !.bit_controlled = TRUE]

(* The first and the last character of a file name are erased, whatever    *)
(* they are: the parser has taken the quotes off already.  In a name of    *)
(* one character or none at least one of them is not there to be erased.   *)
RemoveQuotes(name) == IF Len(name) > 1 THEN SubSeq(name, 2, Len(name) - 1) ELSE Garbled

(* The constructors take the value of an angle or a matrix as it is; crk   *)
(* goes through the angle as well.                                         *)
Constructed(type, name, v) ==
  LET op == Operation(name)
  IN  CASE type = "NoArg"             -> [op EXCEPT !.all_qubits_bits = TRUE]
        [] type = "SingleBit"         -> [op EXCEPT !.bits = v[1]]
        [] type = "SingleQubit"       -> [op EXCEPT !.qubits = v[1]]
        [] type = "SingleQubitInt"    -> [op EXCEPT !.qubits = v[1], !.wait_time = AsInt(v[2])]
        [] type \in {"SingleQubitReal", "SingleQubitMatrix"} ->
             [op EXCEPT !.qubits = v[1], !.argument = v[2]]
        [] type = "TwoQubit"          -> [op EXCEPT !.two_qubit_pairs = v]
        [] type \in {"TwoQubitReal", "TwoQubitInt"} ->
             [op EXCEPT !.two_qubit_pairs = <<v[1], v[2]>>, !.argument = v[3]]
        [] type = "ThreeQubit"        -> [op EXCEPT !.toffoli = v]
        [] type = "MeasureParity"     ->
             [op EXCEPT !.measure_parity = <<v[1], v[3]>>, !.axes = <<v[2], v[4]>>]
        [] type = "SingleInt"         -> [op EXCEPT !.wait_time = AsInt(v[1])]
        [] type = "SingleString"      -> [op EXCEPT !.argument = RemoveQuotes(v[1])]
        [] type = "NotGate"           -> SetControlBits(op, v[1])

WithCondition(op, condition) == IF condition = <<>> THEN op ELSE SetControlBits(op, condition)

ConvertOperand(o) == IF o.type \in {"Q", "B"} THEN ConvertIndices(o.value) ELSE o.value

ConvertInstruction(insn) ==
  LET values == [i \in DOMAIN insn.operands |-> ConvertOperand(insn.operands[i])]
  IN  WithCondition(Constructed(Signature(insn).type, insn.name, values),
                    ConvertIndices(insn.condition))

OperationsCluster(bundle) ==
  [operations |-> [i \in DOMAIN bundle |-> ConvertInstruction(bundle[i])],
   parallel   |-> Len(bundle) > 1]

SubCircuit(name, number) ==
  [name |-> name, number |-> number, iterations |-> 1, clusters |-> <<>>]

(* A QasmRepresentation before anything is copied into it.                 *)
NoRepresentation ==
  [subcircuits |-> <<SubCircuit("default", 0)>>, qubit_register |-> Unset,
   version_number |-> Unset, mappings |-> {}, error_model |-> NoModel]

AddMappings(rep, mappings) ==
  [rep EXCEPT !.mappings =
     {[name |-> m.name, is_qubit |-> m.type = "Q", indices |-> ConvertIndices(m.value)] : m \in mappings}]

AddSubCircuit(rep, subcircuit) ==
  LET new == SubCircuit(subcircuit.name, Len(rep.subcircuits))
  IN  [rep EXCEPT !.subcircuits = Append(@, [new EXCEPT !.iterations = AsInt(subcircuit.iterations)])]

(* Mutant: bundles go to the default subcircuit.                           *)
AddToDefault(rep, cluster) == [rep EXCEPT !.subcircuits[1].clusters = Append(@, cluster)]

AddCluster(rep, cluster) ==
  [rep EXCEPT !.subcircuits[Len(rep.subcircuits)].clusters = Append(@, cluster)]

-----------------------------------------------------------------------------
(* The checks of QasmSemanticChecker.                                      *)

TwoQubitTypes == {"cnot", "cz", "swap", "cr", "crk"}
(* Mutant: the not gate is taken for a gate on a qubit.                    *)
WithoutNot    == {"measure_all", "skip", "display", "display_binary", "load_state"}
Unchecked     == {"measure_all", "skip", "display", "display_binary", "not", "load_state"}

(* The lists of which checkQubits looks at the last element.               *)
ListsChecked(op) ==
  CASE op.type = "measure_parity"  -> op.measure_parity
    [] op.type \in TwoQubitTypes   -> op.two_qubit_pairs
    [] op.type = "toffoli"         -> op.toffoli
    [] op.type \in Unchecked       -> <<>>
    [] op.type = "reset-averaging" -> IF op.all_qubits_bits THEN <<>> ELSE <<op.qubits>>
    [] OTHER                       -> <<op.qubits>>

SameLengths(op) ==
  op.type \in TwoQubitTypes \cup {"toffoli"} =>
    \A l, m \in Range(ListsChecked(op)) : Len(l) = Len(m)

(* The last element of an empty list is whatever lies there: that no such  *)
(* list gets here is ChecksFindTheirQubits.                                *)
CheckQubits(rep, op) ==
  /\ \A l \in Range(ListsChecked(op)) : l # <<>> /\ Last(l) < AsSize(rep.qubit_register)
  /\ SameLengths(op)

DoChecks(rep) ==
  \A s \in Range(rep.subcircuits) :
     s.iterations >= 1 /\ \A c \in Range(s.clusters) : \A op \in Range(c.operations) : CheckQubits(rep, op)

=============================================================================
