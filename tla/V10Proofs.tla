------------------------------ MODULE V10Proofs ------------------------------
(***************************************************************************)
(* The libQasm object, for every analyzed program, every width of an int   *)
(* and every number of calls: its types, that the checks of the old API    *)
(* find their qubits, and that the object keeps the safety part of its     *)
(* promise, the circuit that was written or an exception.                  *)
(***************************************************************************)
EXTENDS V10Library, SequenceTheorems, TLAPS

(* An operation the checks can look at.                                    *)
Checkable(op) == \A list \in Range(ListsChecked(op)) : list # <<>>

-----------------------------------------------------------------------------
(* Numbers that pass through an int.                                       *)
LEMMA Halves == IntRange \div 2 \in Nat \ {0} /\ IntRange = 2 * (IntRange \div 2)
BY BoundsAssumption

LEMMA Remainder == ASSUME NEW m \in Nat \ {0}, NEW n \in Int PROVE n % m \in 0 .. m - 1
OBVIOUS

LEMMA SmallRemainder == ASSUME NEW m \in Nat \ {0}, NEW n \in 0 .. m - 1 PROVE n % m = n
OBVIOUS

LEMMA IntBounds == ASSUME NEW n \in Int PROVE AsInt(n) \in Ints
<1>. DEFINE half == IntRange \div 2
<1>1. half \in Nat \ {0} /\ IntRange = 2 * half
  BY Halves
<1>2. AsInt(n) = ((n + half) % IntRange) - half /\ Ints = -half .. (half - 1)
  BY DEF AsInt, Ints
<1>. HIDE DEF half
<1>3. (n + half) % IntRange \in 0 .. IntRange - 1
  BY <1>1, Remainder
<1>4. QED
  BY <1>1, <1>2, <1>3

LEMMA IntKept == ASSUME NEW n \in Ints PROVE AsInt(n) = n
<1>. DEFINE half == IntRange \div 2
<1>1. half \in Nat \ {0} /\ IntRange = 2 * half
  BY Halves
<1>2. n \in -half .. (half - 1)
  BY DEF Ints
<1>3. AsInt(n) = ((n + half) % IntRange) - half
  BY DEF AsInt
<1>. HIDE DEF half
<1>4. (n + half) % IntRange = n + half
  BY <1>1, <1>2, SmallRemainder
<1>5. QED
  BY <1>1, <1>2, <1>3, <1>4

LEMMA OneIsInt == 1 \in Ints
<1>. DEFINE half == IntRange \div 2
<1>1. half \in Nat \ {0} /\ IntRange = 2 * half /\ IntRange > 2 /\ Ints = -half .. (half - 1)
  BY Halves, BoundsAssumption DEF Ints
<1>. HIDE DEF half
<1>2. QED
  BY <1>1

-----------------------------------------------------------------------------
(* Conversion.                                                             *)

(* The table of signatures, group by group.                                *)
LEMMA RegisteredAs ==
  ASSUME NEW r \in Registered
  PROVE  \/ r \in Reg("NoArg", {"measure_all", "display", "display_binary", "reset-averaging"}, <<>>,
                   FALSE)
         \/ r \in Reg("MeasureParity", {"measure_parity"}, <<"Q", "a", "Q", "a">>, FALSE)
         \/ r \in Reg("SingleQubit", {"x", "y", "z", "i", "h", "x90", "y90", "mx90", "my90", "s",
                   "sdag", "t", "tdag"}, <<"Q">>, TRUE)
         \/ r \in Reg("SingleQubitMatrix", {"u"}, <<"Q", "u">>, TRUE)
         \/ r \in Reg("SingleQubit", {"prep", "prep_x", "prep_y", "prep_z", "measure", "measure_x",
                   "measure_y", "measure_z", "barrier", "reset-averaging"}, <<"Q">>, FALSE)
         \/ r \in Reg("SingleQubitReal", {"rx", "ry", "rz"}, <<"Q", "r">>, TRUE)
         \/ r \in Reg("TwoQubit", {"cnot", "cz", "swap"}, <<"Q", "Q">>, TRUE)
         \/ r \in Reg("TwoQubitReal", {"cr"}, <<"Q", "Q", "r">>, TRUE)
         \/ r \in Reg("TwoQubitInt", {"crk"}, <<"Q", "Q", "i">>, TRUE)
         \/ r \in Reg("ThreeQubit", {"toffoli"}, <<"Q", "Q", "Q">>, TRUE)
         \/ r \in Reg("NotGate", {"not"}, <<"B">>, TRUE)
         \/ r \in Reg("SingleBit", {"display", "display_binary"}, <<"B">>, FALSE)
         \/ r \in Reg("SingleInt", {"skip"}, <<"i">>, FALSE)
         \/ r \in Reg("SingleQubitInt", {"wait"}, <<"Q", "i">>, FALSE)
         \/ r \in Reg("SingleString", {"load_state"}, <<"s">>, FALSE)
BY DEF Registered

(* What is registered under a name with given parameters has one of these  *)
(* shapes: the table of signatures, as far as the lists of an operation    *)
(* depend on it.                                                           *)
LEMMA Shapes ==
  ASSUME NEW r \in Registered
  PROVE  \/ r.type = "NoArg" /\ r.name \in {"measure_all", "display", "display_binary", "reset-averaging"}
         \/ r.type = "MeasureParity" /\ r.name = "measure_parity" /\ r.params = <<"Q", "a", "Q", "a">>
         \/ /\ r.type \in {"SingleQubit", "SingleQubitInt", "SingleQubitReal", "SingleQubitMatrix"}
            /\ r.name \notin Unchecked \cup TwoQubitTypes \cup {"toffoli", "measure_parity"}
            /\ 1 \in DOMAIN r.params /\ r.params[1] = "Q"
         \/ r.type = "TwoQubit" /\ r.name \in TwoQubitTypes /\ r.params = <<"Q", "Q">>
         \/ /\ r.type \in {"TwoQubitReal", "TwoQubitInt"} /\ r.name \in TwoQubitTypes
            /\ DOMAIN r.params = 1 .. 3 /\ r.params[1] = "Q" /\ r.params[2] = "Q"
         \/ r.type = "ThreeQubit" /\ r.name = "toffoli" /\ r.params = <<"Q", "Q", "Q">>
         \/ r.type \in {"NotGate", "SingleBit", "SingleInt", "SingleString"} /\ r.name \in Unchecked
BY RegisteredAs DEF Reg, Unchecked, TwoQubitTypes

(* A list of indices is converted index by index.                          *)
LEMMA IndicesConverted ==
  ASSUME NEW list \in Seq(Indices), list # <<>>
  PROVE  ConvertIndices(list) # <<>>
<1>1. DOMAIN ConvertIndices(list) = DOMAIN list
  BY DEF ConvertIndices
<1>2. 1 \in DOMAIN list
  OBVIOUS
<1>3. 1 \notin DOMAIN <<>>
  OBVIOUS
<1>4. QED
  BY <1>1, <1>2, <1>3

LEMMA ReferencesIndexed ==
  ASSUME NEW insn, ResolvedInstruction(insn), NEW o \in Range(insn.operands),
         o.type \in {"Q", "B"}
  PROVE  IsIndexList(o.value)
BY DEF ResolvedInstruction

(* The operands of a resolved instruction are as its signature says.       *)
LEMMA Operands ==
  ASSUME NEW insn, ResolvedInstruction(insn), NEW r, r = Signature(insn)
  PROVE  /\ r \in Registered /\ r.name = insn.name
         /\ DOMAIN insn.operands = DOMAIN r.params
         /\ \A i \in DOMAIN r.params : insn.operands[i].type = r.params[i]
<1>1. \E s \in Registered : s.name = insn.name /\ s.params = TypesOf(insn.operands)
  BY DEF ResolvedInstruction
<1>2. r \in Registered /\ r.name = insn.name /\ r.params = TypesOf(insn.operands)
  BY <1>1 DEF Signature
<1>3. QED
  BY <1>2 DEF TypesOf

(* A condition changes no list the checks look at.                         *)
Fields == DOMAIN Operation("")

LEMMA ConditionChecked ==
  ASSUME NEW op, DOMAIN op = Fields, NEW condition
  PROVE  ListsChecked(WithCondition(op, condition)) = ListsChecked(op)
BY DEF ListsChecked, WithCondition, SetControlBits, Fields, Operation

LEMMA CheckedLists ==
  ASSUME NEW op
  PROVE  /\ op.type = "measure_parity" => ListsChecked(op) = op.measure_parity
         /\ op.type \in TwoQubitTypes => ListsChecked(op) = op.two_qubit_pairs
         /\ op.type = "toffoli" => ListsChecked(op) = op.toffoli
         /\ op.type \in Unchecked => ListsChecked(op) = <<>>
         /\ op.type = "reset-averaging" /\ op.all_qubits_bits => ListsChecked(op) = <<>>
         /\ op.type \notin Unchecked \cup TwoQubitTypes \cup {"toffoli", "measure_parity"} =>
              ListsChecked(op) = <<>> \/ ListsChecked(op) = <<op.qubits>>
BY DEF ListsChecked, Unchecked, TwoQubitTypes

(* The lists that the checks look at are qubit operands.                   *)
TakenFrom(op, r, v) ==
  \A list \in Range(ListsChecked(op)) : \E i \in DOMAIN r.params : r.params[i] = "Q" /\ list = v[i]

LEMMA FewLists ==
  ASSUME NEW a, NEW b, NEW c
  PROVE  /\ Range(<<>>) = {} /\ Range(<<a>>) = {a} /\ Range(<<a, b>>) = {a, b}
         /\ Range(<<a, b, c>>) = {a, b, c}
BY DEF Range

(* What the constructors make of the operands of each shape.               *)
LEMMA ConstructedChecked ==
  ASSUME NEW r \in Registered, NEW v, v = [i \in DOMAIN r.params |-> v[i]]
  PROVE  LET op == Constructed(r.type, r.name, v)
         IN  DOMAIN op = Fields /\ TakenFrom(op, r, v)
<1>. DEFINE op == Constructed(r.type, r.name, v)
<1>1. CASE r.type = "NoArg" /\ r.name \in {"measure_all", "display", "display_binary", "reset-averaging"}
  <2>1. DOMAIN op = Fields /\ op.type = r.name /\ op.all_qubits_bits
    BY <1>1 DEF Constructed, Operation, Fields
  <2>. HIDE DEF op
  <2>2. Range(ListsChecked(op)) = {}
    BY <1>1, <2>1, CheckedLists, FewLists DEF Unchecked
  <2>3. QED
    BY <2>1, <2>2 DEF op, TakenFrom
<1>2. CASE r.type = "MeasureParity" /\ r.name = "measure_parity" /\ r.params = <<"Q", "a", "Q", "a">>
  <2>1. DOMAIN op = Fields /\ op.type = r.name /\ op.measure_parity = <<v[1], v[3]>>
    BY <1>2 DEF Constructed, Operation, Fields
  <2>. HIDE DEF op
  <2>2. Range(ListsChecked(op)) = {v[1], v[3]}
    <3>1. ListsChecked(op) = <<v[1], v[3]>>
      BY <1>2, <2>1, CheckedLists
    <3>2. Range(<<v[1], v[3]>>) = {v[1], v[3]}
      BY FewLists
    <3>3. QED
      BY <3>1, <3>2
  <2>3. /\ 1 \in DOMAIN r.params /\ r.params[1] = "Q"
        /\ 3 \in DOMAIN r.params /\ r.params[3] = "Q"
    BY <1>2
  <2>4. QED
    BY <2>1, <2>2, <2>3 DEF op, TakenFrom
<1>3. CASE /\ r.type \in {"SingleQubit", "SingleQubitInt", "SingleQubitReal", "SingleQubitMatrix"}
           /\ r.name \notin Unchecked \cup TwoQubitTypes \cup {"toffoli", "measure_parity"}
           /\ 1 \in DOMAIN r.params /\ r.params[1] = "Q"
  <2>1. DOMAIN op = Fields /\ op.type = r.name /\ op.qubits = v[1]
    BY <1>3 DEF Constructed, Operation, Fields
  <2>. HIDE DEF op
  <2>2. Range(ListsChecked(op)) \subseteq {v[1]}
    <3>1. ListsChecked(op) \in {<<>>, <<v[1]>>}
      BY <1>3, <2>1, CheckedLists
    <3>2. Range(<<>>) = {} /\ Range(<<v[1]>>) = {v[1]}
      BY FewLists
    <3>3. QED
      BY <3>1, <3>2
  <2>3. QED
    BY <1>3, <2>1, <2>2 DEF op, TakenFrom
<1>4. CASE r.type = "TwoQubit" /\ r.name \in TwoQubitTypes /\ r.params = <<"Q", "Q">>
  <2>1. DOMAIN op = Fields /\ op.type = r.name /\ op.two_qubit_pairs = v
    BY <1>4 DEF Constructed, Operation, Fields
  <2>. HIDE DEF op
  <2>2. ListsChecked(op) = v
    BY <1>4, <2>1, CheckedLists
  <2>3. DOMAIN v = DOMAIN r.params /\ \A i \in DOMAIN r.params : r.params[i] = "Q"
    BY <1>4
  <2>4. QED
    BY <2>1, <2>2, <2>3 DEF op, TakenFrom, Range
<1>5. CASE /\ r.type \in {"TwoQubitReal", "TwoQubitInt"} /\ r.name \in TwoQubitTypes
           /\ DOMAIN r.params = 1 .. 3 /\ r.params[1] = "Q" /\ r.params[2] = "Q"
  <2>1. DOMAIN op = Fields /\ op.type = r.name /\ op.two_qubit_pairs = <<v[1], v[2]>>
    BY <1>5 DEF Constructed, Operation, Fields
  <2>. HIDE DEF op
  <2>2. Range(ListsChecked(op)) = {v[1], v[2]}
    <3>1. ListsChecked(op) = <<v[1], v[2]>>
      BY <1>5, <2>1, CheckedLists
    <3>2. Range(<<v[1], v[2]>>) = {v[1], v[2]}
      BY FewLists
    <3>3. QED
      BY <3>1, <3>2
  <2>3. 1 \in DOMAIN r.params /\ 2 \in DOMAIN r.params
    BY <1>5
  <2>4. QED
    BY <1>5, <2>1, <2>2, <2>3 DEF op, TakenFrom
<1>6. CASE r.type = "ThreeQubit" /\ r.name = "toffoli" /\ r.params = <<"Q", "Q", "Q">>
  <2>1. DOMAIN op = Fields /\ op.type = r.name /\ op.toffoli = v
    BY <1>6 DEF Constructed, Operation, Fields
  <2>. HIDE DEF op
  <2>2. ListsChecked(op) = v
    BY <1>6, <2>1, CheckedLists
  <2>3. DOMAIN v = DOMAIN r.params /\ \A i \in DOMAIN r.params : r.params[i] = "Q"
    BY <1>6
  <2>4. QED
    BY <2>1, <2>2, <2>3 DEF op, TakenFrom, Range
<1>7. CASE r.type \in {"NotGate", "SingleBit", "SingleInt", "SingleString"} /\ r.name \in Unchecked
  <2>1. DOMAIN op = Fields /\ op.type = r.name
    BY <1>7 DEF Constructed, Operation, Fields, SetControlBits
  <2>. HIDE DEF op
  <2>2. Range(ListsChecked(op)) = {}
    BY <1>7, <2>1, CheckedLists, FewLists
  <2>3. QED
    BY <2>1, <2>2 DEF op, TakenFrom
<1>8. QED
  BY Shapes, <1>1, <1>2, <1>3, <1>4, <1>5, <1>6, <1>7

(* So are those of a converted instruction, whatever its condition.        *)
LEMMA ConvertedLists ==
  ASSUME NEW insn, ResolvedInstruction(insn)
  PROVE  \A list \in Range(ListsChecked(ConvertInstruction(insn))) :
           \E o \in Range(insn.operands) : o.type = "Q" /\ list = ConvertOperand(o)
<1>. DEFINE r == Signature(insn)
            values == [i \in DOMAIN insn.operands |-> ConvertOperand(insn.operands[i])]
            op == Constructed(r.type, insn.name, values)
<1>1. /\ r \in Registered /\ r.name = insn.name
      /\ DOMAIN insn.operands = DOMAIN r.params
      /\ \A i \in DOMAIN r.params : insn.operands[i].type = r.params[i]
  BY Operands
<1>2. ConvertInstruction(insn) = WithCondition(op, ConvertIndices(insn.condition))
  BY DEF ConvertInstruction
<1>3. \A i \in DOMAIN insn.operands : /\ values[i] = ConvertOperand(insn.operands[i])
                                     /\ insn.operands[i] \in Range(insn.operands)
  BY DEF Range
<1>4. values = [i \in DOMAIN r.params |-> values[i]]
  BY <1>1
<1>. HIDE DEF r, values
<1>5. DOMAIN op = Fields /\ TakenFrom(op, r, values)
  BY <1>1, <1>4, ConstructedChecked
<1>. HIDE DEF op
<1>6. ListsChecked(ConvertInstruction(insn)) = ListsChecked(op)
  BY <1>2, <1>5, ConditionChecked
<1>7. QED
  BY <1>1, <1>3, <1>5, <1>6 DEF TakenFrom

LEMMA ConvertedChecked ==
  ASSUME NEW insn, ResolvedInstruction(insn)
  PROVE  Checkable(ConvertInstruction(insn))
<1>1. ASSUME NEW o \in Range(insn.operands), o.type = "Q" PROVE ConvertOperand(o) # <<>>
  <2>1. o.value \in Seq(Indices) /\ o.value # <<>>
    BY <1>1, ReferencesIndexed DEF IsIndexList
  <2>2. QED
    BY <1>1, <2>1, IndicesConverted DEF ConvertOperand
<1>2. QED
  BY <1>1, ConvertedLists DEF Checkable

-----------------------------------------------------------------------------
(* Lists.                                                                  *)
LEMMA ListOfItsElements ==
  ASSUME NEW S, NEW t \in Seq(S)
  PROVE  IsSequence(t)
<1>1. Len(t) \in Nat /\ t \in [1 .. Len(t) -> S]
  OBVIOUS
<1>2. t \in [1 .. Len(t) -> Range(t)]
  BY <1>1 DEF Range
<1>3. QED
  BY <1>1, <1>2, SeqDef DEF IsSequence

LEMMA AppendToList ==
  ASSUME NEW s, IsSequence(s), NEW x
  PROVE  /\ IsSequence(Append(s, x)) /\ Append(s, x) # <<>>
         /\ Range(Append(s, x)) = Range(s) \cup {x}
<1>1. s \in Seq(Range(s) \cup {x})
  BY DEF IsSequence
<1>2. /\ Append(s, x) \in Seq(Range(s) \cup {x}) /\ Len(Append(s, x)) = Len(s) + 1
      /\ Len(s) \in Nat /\ DOMAIN s = 1 .. Len(s) /\ DOMAIN Append(s, x) = 1 .. Len(s) + 1
      /\ \A i \in 1 .. Len(s) : Append(s, x)[i] = s[i]
      /\ Append(s, x)[Len(s) + 1] = x
  BY <1>1
<1>3. Range(Append(s, x)) = Range(s) \cup {x}
  BY <1>2 DEF Range
<1>4. Append(s, x) # <<>>
  BY <1>2
<1>5. QED
  BY <1>2, <1>3, <1>4 DEF IsSequence

LEMMA HeadAndTail ==
  ASSUME NEW s, IsSequence(s), s # <<>>
  PROVE  /\ Head(s) \in Range(s)
         /\ IsSequence(Tail(s)) /\ Range(Tail(s)) \subseteq Range(s)
<1>1. s \in Seq(Range(s))
  BY DEF IsSequence
<1>2. /\ Head(s) = s[1] /\ 1 \in DOMAIN s /\ Len(s) \in Nat /\ DOMAIN s = 1 .. Len(s)
      /\ Tail(s) \in Seq(Range(s)) /\ DOMAIN Tail(s) = 1 .. Len(s) - 1
      /\ \A i \in 1 .. Len(s) - 1 : Tail(s)[i] = s[i + 1]
  BY <1>1, HeadTailProperties
<1>3. Head(s) \in Range(s)
  BY <1>2 DEF Range
<1>4. Range(Tail(s)) \subseteq Range(s)
  BY <1>2 DEF Range
<1>5. QED
  BY <1>2, <1>3, <1>4, ListOfItsElements

LEMMA ReplaceLast ==
  ASSUME NEW s, IsSequence(s), s # <<>>, NEW x
  PROVE  LET t == [s EXCEPT ![Len(s)] = x]
         IN  IsSequence(t) /\ t # <<>> /\ Range(t) \subseteq Range(s) \cup {x}
<1>. DEFINE t == [s EXCEPT ![Len(s)] = x]
<1>1. s \in Seq(Range(s) \cup {x})
  BY DEF IsSequence
<1>2. Len(s) \in Nat \ {0} /\ DOMAIN s = 1 .. Len(s) /\ DOMAIN t = 1 .. Len(s)
  BY <1>1
<1>3. t \in Seq(Range(s) \cup {x}) /\ Len(t) = Len(s)
  BY <1>1, <1>2, ExceptSeq
<1>4. IsSequence(t)
  BY <1>3, ListOfItsElements
<1>5. Range(t) \subseteq Range(s) \cup {x}
  BY <1>2 DEF Range
<1>6. t # <<>>
  BY <1>2, <1>3
<1>7. QED
  BY <1>4, <1>5, <1>6

-----------------------------------------------------------------------------
(* The representation of the checker, and what is still to be copied.      *)
CheckableCluster(c) ==
  /\ c.operations # <<>> /\ c.parallel \in BOOLEAN
  /\ \A op \in Range(c.operations) : Checkable(op)

Built(s) ==
  /\ DOMAIN s = DOMAIN SubCircuit("", 0) /\ s.number \in Nat /\ s.iterations \in Ints
  /\ IsSequence(s.clusters) /\ \A c \in Range(s.clusters) : CheckableCluster(c)

BuiltRepresentation(rep) ==
  /\ DOMAIN rep = DOMAIN NoRepresentation /\ rep.qubit_register \in Ints \cup {Unset}
  /\ IsSequence(rep.subcircuits) /\ rep.subcircuits # <<>>
  /\ \A s \in Range(rep.subcircuits) : Built(s)

ResolvedBundle(bundle) ==
  IsSequence(bundle) /\ bundle # <<>> /\ \A insn \in Range(bundle) : ResolvedInstruction(insn)

ResolvedBundles(list) == IsSequence(list) /\ \A bundle \in Range(list) : ResolvedBundle(bundle)

Pending ==
  /\ IsSequence(left)
  /\ \A s \in Range(left) : ResolvedBundles(s.bundles) /\ s.iterations \in Nat
  /\ ResolvedBundles(bundles)

(* The call that is going on, if any.                                      *)
Serving ==
  /\ phase \in {"idle", "parse", "copy", "check", "crashed"}
  /\ text \in Texts \cup {Unset} /\ (text = Unset <=> phase = "idle")
  /\ phase \in {"idle", "parse"} => qasm = NoRepresentation /\ left = <<>> /\ bundles = <<>>
  /\ phase \in {"copy", "check", "crashed"} => text \in ValidTexts
  /\ thrown \in BOOLEAN /\ handles \in 0 .. calls /\ calls \in 0 .. MaxCalls

IInv ==
  /\ BuiltRepresentation(qasm) /\ BuiltRepresentation(qasm_rep)
  /\ Pending /\ Serving

LEMMA EmptyList == IsSequence(<<>>) /\ Range(<<>>) = {}
BY DEF IsSequence, Range

LEMMA NothingPending ==
  /\ IsSequence(<<>>) /\ ResolvedBundles(<<>>)
  /\ \A s \in Range(<<>>) : ResolvedBundles(s.bundles) /\ s.iterations \in Nat
BY EmptyList DEF ResolvedBundles

LEMMA NewSubCircuit ==
  ASSUME NEW name, NEW number \in Nat, NEW times \in Ints
  PROVE  Built([SubCircuit(name, number) EXCEPT !.iterations = times])
<1>. DEFINE new == [SubCircuit(name, number) EXCEPT !.iterations = times]
<1>1. /\ DOMAIN new = DOMAIN SubCircuit("", 0) /\ new.number = number /\ new.iterations = times
      /\ new.clusters = <<>>
  BY DEF SubCircuit
<1>2. QED
  BY <1>1, EmptyList DEF Built

LEMMA NewRepresentation == BuiltRepresentation(NoRepresentation)
<1>1. /\ NoRepresentation.subcircuits = <<SubCircuit("default", 0)>>
      /\ NoRepresentation.qubit_register = Unset
  BY DEF NoRepresentation
<1>. DEFINE first == SubCircuit("default", 0)
<1>2. Built(first)
  <2>1. first = [first EXCEPT !.iterations = 1]
    BY DEF SubCircuit
  <2>2. QED
    BY <2>1, OneIsInt, NewSubCircuit
<1>. HIDE DEF first
<1>3. IsSequence(<<first>>) /\ <<first>> # <<>> /\ Range(<<first>>) = {first}
  BY DEF IsSequence, Range
<1>4. QED
  BY <1>1, <1>2, <1>3 DEF BuiltRepresentation, first

LEMMA SubCircuitAdded ==
  ASSUME NEW rep, BuiltRepresentation(rep), NEW subcircuit, subcircuit.iterations \in Nat
  PROVE  BuiltRepresentation(AddSubCircuit(rep, subcircuit))
<1>. DEFINE new == SubCircuit(subcircuit.name, Len(rep.subcircuits))
            x == [new EXCEPT !.iterations = AsInt(subcircuit.iterations)]
<1>1. Built(x)
  <2>1. Len(rep.subcircuits) \in Nat
    BY DEF BuiltRepresentation, IsSequence
  <2>2. AsInt(subcircuit.iterations) \in Ints
    BY IntBounds
  <2>3. QED
    BY <2>1, <2>2, NewSubCircuit
<1>2. AddSubCircuit(rep, subcircuit) = [rep EXCEPT !.subcircuits = Append(@, x)]
  BY DEF AddSubCircuit
<1>. HIDE DEF x
<1>3. QED
  BY <1>1, <1>2, AppendToList DEF BuiltRepresentation

LEMMA ClusterAdded ==
  ASSUME NEW rep, BuiltRepresentation(rep), NEW cluster, CheckableCluster(cluster)
  PROVE  BuiltRepresentation(AddCluster(rep, cluster))
<1>. DEFINE n == Len(rep.subcircuits)
            s == rep.subcircuits[n]
            x == [s EXCEPT !.clusters = Append(@, cluster)]
            list == [rep.subcircuits EXCEPT ![n] = x]
<1>1. Built(s)
  <2>1. rep.subcircuits \in Seq(Range(rep.subcircuits)) /\ rep.subcircuits # <<>>
    BY DEF BuiltRepresentation, IsSequence
  <2>2. n \in DOMAIN rep.subcircuits
    BY <2>1
  <2>3. QED
    BY <2>2 DEF BuiltRepresentation, Range
<1>2. Built(x)
  <2>1. /\ x.clusters = Append(s.clusters, cluster) /\ DOMAIN x = DOMAIN s
        /\ x.number = s.number /\ x.iterations = s.iterations
    BY <1>1 DEF Built, SubCircuit
  <2>2. IsSequence(x.clusters) /\ Range(x.clusters) = Range(s.clusters) \cup {cluster}
    BY <1>1, <2>1, AppendToList DEF Built
  <2>. HIDE DEF x
  <2>3. QED
    BY <1>1, <2>1, <2>2 DEF Built
<1>3. AddCluster(rep, cluster) = [rep EXCEPT !.subcircuits = list]
  BY DEF AddCluster
<1>. HIDE DEF x
<1>4. IsSequence(list) /\ list # <<>> /\ Range(list) \subseteq Range(rep.subcircuits) \cup {x}
  BY ReplaceLast DEF BuiltRepresentation
<1>. HIDE DEF list
<1>5. QED
  BY <1>2, <1>3, <1>4 DEF BuiltRepresentation

LEMMA ClusterCheckable ==
  ASSUME NEW bundle, ResolvedBundle(bundle)
  PROVE  CheckableCluster(OperationsCluster(bundle))
<1>. DEFINE c == OperationsCluster(bundle)
<1>1. \A i \in DOMAIN bundle : Checkable(ConvertInstruction(bundle[i]))
  BY ConvertedChecked DEF Range, ResolvedBundle
<1>2. /\ DOMAIN c.operations = DOMAIN bundle /\ c.parallel \in BOOLEAN
      /\ \A i \in DOMAIN bundle : c.operations[i] = ConvertInstruction(bundle[i])
  BY DEF OperationsCluster
<1>3. c.operations # <<>>
  <2>1. bundle \in Seq(Range(bundle)) /\ bundle # <<>>
    BY DEF ResolvedBundle, IsSequence
  <2>2. 1 \in DOMAIN bundle /\ 1 \notin DOMAIN <<>>
    BY <2>1
  <2>3. QED
    BY <1>2, <2>2
<1>4. QED
  BY <1>1, <1>2, <1>3 DEF CheckableCluster, Range

-----------------------------------------------------------------------------
(* One step per action.                                                    *)
LEMMA ReturnInv ==
  ASSUME IInv, Return, BuiltRepresentation(qasm_rep)', thrown' \in BOOLEAN
  PROVE  IInv'
BY NewRepresentation, NothingPending DEF Return, IInv, Pending, Serving

LEMMA StartInv ==
  ASSUME IInv, NEW t \in Texts, Start(t), handles' \in {handles, handles + 1}
  PROVE  IInv'
<1>1. /\ BuiltRepresentation(qasm)' /\ BuiltRepresentation(qasm_rep)' /\ Pending'
  BY DEF IInv, Pending, Start
<1>2. handles' \in 0 .. calls' /\ calls' \in 0 .. MaxCalls
  BY BoundsAssumption DEF IInv, Serving, Start
<1>3. QED
  BY <1>1, <1>2, UnsetAssumption DEF IInv, Serving, Start

LEMMA FileNotFoundInv ==
  ASSUME IInv, FileNotFound
  PROVE  IInv'
<1>1. handles' \in 0 .. calls' /\ calls' \in 0 .. MaxCalls
  BY BoundsAssumption DEF IInv, Serving, FileNotFound
<1>2. QED
  BY <1>1 DEF IInv, Pending, Serving, FileNotFound

(* What the analyzer hands over.                                           *)
LEMMA ValidProgram ==
  ASSUME NEW t \in ValidTexts
  PROVE  /\ t \in Texts /\ Analyzed[t].errors = 0 /\ AnalyzedProgram(Analyzed[t])
         /\ Analyzed[t].num_qubits \in Nat \ {0} /\ AnalyzedSubcircuits(Analyzed[t].subcircuits)
<1>1. t \in DOMAIN Analyzed /\ Analyzed[t].errors = 0
  BY DEF ValidTexts
<1>2. AnalyzedProgram(Analyzed[t])
  BY <1>1, AnalyzedAssumption
<1>3. QED
  BY <1>1, <1>2 DEF AnalyzedProgram, Texts

LEMMA NotRefused ==
  ASSUME NEW t \in Texts
  PROVE  t \notin Refused <=> t \in ValidTexts
<1>1. CASE t \in Unparsable
  BY <1>1, AnalyzedAssumption DEF Refused, ValidTexts
<1>2. CASE t \in DOMAIN Analyzed
  <2>1. AnalyzedProgram(Analyzed[t]) /\ t \notin Unparsable
    BY <1>2, AnalyzedAssumption
  <2>2. QED
    BY <1>2, <2>1 DEF AnalyzedProgram, Refused, ValidTexts
<1>3. QED
  BY <1>1, <1>2 DEF Texts

LEMMA CopyRegisterInv ==
  ASSUME IInv, CopyRegister
  PROVE  IInv'
<1>. DEFINE p == Analyzed[text]
<1>1. /\ phase = "parse" /\ text \notin Refused /\ phase' = "copy" /\ text' = text
      /\ left' = p.subcircuits /\ bundles' = bundles /\ qasm_rep' = qasm_rep
      /\ UNCHANGED <<thrown, handles, calls>>
  BY DEF CopyRegister
<1>2. /\ DOMAIN qasm' = DOMAIN qasm /\ qasm'.subcircuits = qasm.subcircuits
      /\ qasm'.qubit_register = AsInt(p.num_qubits)
  BY DEF CopyRegister, IInv, BuiltRepresentation, NoRepresentation
<1>3. text \in ValidTexts
  BY <1>1, NotRefused, UnsetAssumption DEF IInv, Serving
<1>4. p.num_qubits \in Nat /\ AnalyzedSubcircuits(p.subcircuits)
  BY <1>3, ValidProgram
<1>. HIDE DEF p
<1>5. /\ IsSequence(p.subcircuits)
      /\ \A s \in Range(p.subcircuits) : ResolvedBundles(s.bundles) /\ s.iterations \in Nat
  BY <1>4 DEF AnalyzedSubcircuits, ResolvedBundles, ResolvedBundle, Range
<1>6. AsInt(p.num_qubits) \in Ints
  BY <1>4, IntBounds
<1>7. BuiltRepresentation(qasm')
  BY <1>2, <1>6 DEF IInv, BuiltRepresentation
<1>8. Pending' /\ Serving'
  BY <1>1, <1>3, <1>5 DEF IInv, Pending, Serving
<1>9. QED
  BY <1>1, <1>7, <1>8 DEF IInv

LEMMA CopySubcircuitInv ==
  ASSUME IInv, CopySubcircuit
  PROVE  IInv'
<1>1. Head(left) \in Range(left) /\ IsSequence(Tail(left)) /\ Range(Tail(left)) \subseteq Range(left)
  BY HeadAndTail DEF IInv, Pending, CopySubcircuit
<1>2. Pending' /\ Serving'
  BY <1>1 DEF IInv, Pending, Serving, CopySubcircuit
<1>3. BuiltRepresentation(qasm')
  BY <1>1, SubCircuitAdded DEF IInv, Pending, CopySubcircuit
<1>4. QED
  BY <1>2, <1>3 DEF IInv, CopySubcircuit

LEMMA CopyBundleInv ==
  ASSUME IInv, CopyBundle
  PROVE  IInv'
<1>1. /\ Head(bundles) \in Range(bundles)
      /\ IsSequence(Tail(bundles)) /\ Range(Tail(bundles)) \subseteq Range(bundles)
  BY HeadAndTail DEF IInv, Pending, ResolvedBundles, CopyBundle
<1>2. Pending' /\ Serving'
  BY <1>1 DEF IInv, Pending, Serving, ResolvedBundles, CopyBundle
<1>3. CheckableCluster(OperationsCluster(Head(bundles)))
  BY <1>1, ClusterCheckable DEF IInv, Pending, ResolvedBundles
<1>4. BuiltRepresentation(qasm')
  BY <1>3, ClusterAdded DEF IInv, CopyBundle
<1>5. QED
  BY <1>2, <1>4 DEF IInv, CopyBundle

LEMMA CopyMappingsInv ==
  ASSUME IInv, CopyMappings
  PROVE  IInv'
<1>1. /\ DOMAIN qasm' = DOMAIN qasm /\ qasm'.subcircuits = qasm.subcircuits
      /\ qasm'.qubit_register = qasm.qubit_register
  BY DEF CopyMappings, AddMappings, IInv, BuiltRepresentation, NoRepresentation
<1>2. BuiltRepresentation(qasm')
  BY <1>1 DEF IInv, BuiltRepresentation
<1>3. QED
  BY <1>2 DEF IInv, Pending, Serving, CopyMappings

(* Every stage of handle_parse_result keeps what is converted as its        *)
(* instructions were resolved.                                             *)
THEOREM NextInv == IInv /\ [Next]_vars => IInv'
<1> SUFFICES ASSUME IInv, [Next]_vars PROVE IInv'
  OBVIOUS
<1>1. ASSUME NEW t \in Texts, ParseString(t) \/ ParseFile(t) PROVE IInv'
  BY <1>1, StartInv DEF ParseString, ParseFile
<1>2. CASE FileNotFound
  BY <1>2, FileNotFoundInv
<1>3. CASE Refuse \/ Reject \/ Keep
  BY <1>3, ReturnInv DEF IInv, Refuse, Reject, Keep, Throw
<1>4. CASE CopyRegister
  BY <1>4, CopyRegisterInv
<1>5. CASE CopySubcircuit
  BY <1>5, CopySubcircuitInv
<1>6. CASE CopyBundle
  BY <1>6, CopyBundleInv
<1>7. CASE CopyMappings
  BY <1>7, CopyMappingsInv
<1>8. CASE Crash
  BY <1>8 DEF IInv, Pending, Serving, Crash
<1>9. CASE UNCHANGED vars
  BY <1>9 DEF IInv, Pending, Serving, vars
<1>10. QED
  BY <1>1, <1>2, <1>3, <1>4, <1>5, <1>6, <1>7, <1>8, <1>9 DEF Next, Work

(* A new libQasm object holds an empty representation.                     *)
THEOREM InitInv == Init => IInv
<1> SUFFICES ASSUME Init PROVE IInv
  OBVIOUS
<1>1. BuiltRepresentation(qasm) /\ BuiltRepresentation(qasm_rep) /\ Pending
  BY NewRepresentation, NothingPending DEF Init, Pending
<1>2. MaxCalls \in Nat
  BY BoundsAssumption
<1>3. Serving
  <2>1. /\ phase = "idle" /\ text = Unset /\ qasm = NoRepresentation /\ left = <<>> /\ bundles = <<>>
        /\ thrown = FALSE /\ handles = 0 /\ calls = 0
    BY DEF Init
  <2>2. handles \in 0 .. calls /\ calls \in 0 .. MaxCalls
    BY <1>2, <2>1
  <2>3. QED
    BY <2>1, <2>2 DEF Serving
<1>4. QED
  BY <1>1, <1>3 DEF IInv

(* Invariant of every call, between any two of them and within each.       *)
LEMMA ShapesKept == Spec => []IInv
BY InitInv, NextInv, PTL DEF Spec

(* checkQubits of qasm_semantic.hpp takes the last element of lists that   *)
(* it picks by the name of an operation and the conversion fills by its    *)
(* parameters: none of them is ever empty, whatever has been analyzed.     *)
THEOREM ChecksFindTheirQubitsHolds == Spec => []ChecksFindTheirQubits
<1>1. IInv => ChecksFindTheirQubits
  BY DEF IInv, BuiltRepresentation, Built, CheckableCluster, Checkable, ChecksFindTheirQubits
<1>2. QED
  BY <1>1, ShapesKept, PTL

(* The object and the call it is in keep their types: in particular no     *)
(* number of the old classes leaves the range of an int.                   *)
THEOREM TypeCorrect == Spec => []TypeOK
<1>1. \A rep : BuiltRepresentation(rep) => IsRepresentation(rep)
  BY DEF BuiltRepresentation, Built, CheckableCluster, IsRepresentation
<1>2. IInv => TypeOK
  BY <1>1 DEF IInv, Serving, TypeOK
<1>3. QED
  BY <1>2, ShapesKept, PTL

-----------------------------------------------------------------------------
(* Indices of a register whose size fits are what they were.               *)
LEMMA IndicesKept ==
  ASSUME NEW size \in Ints, NEW list \in Seq(Indices), \A i \in Range(list) : i < size
  PROVE  ConvertIndices(list) = list
<1>. DEFINE half == IntRange \div 2
<1>1. half \in Nat \ {0} /\ Ints = -half .. (half - 1)
  BY Halves DEF Ints
<1>. HIDE DEF half
<1>2. ASSUME NEW k \in DOMAIN list PROVE AsSize(AsInt(list[k])) = list[k]
  <2>1. list[k] \in Indices /\ list[k] \in Range(list)
    BY DEF Range
  <2>2. list[k] \in Nat
    BY <2>1, BoundsAssumption
  <2>3. list[k] < size
    BY <2>1
  <2>4. list[k] \in Ints
    BY <1>1, <2>2, <2>3
  <2>5. QED
    BY <2>2, <2>4, IntKept DEF AsSize
<1>3. list = [k \in DOMAIN list |-> list[k]]
  OBVIOUS
<1>4. QED
  BY <1>2, <1>3 DEF ConvertIndices

-----------------------------------------------------------------------------
(* Lists of up to four values.                                             *)
LEMMA Pair ==
  ASSUME NEW a, NEW b
  PROVE  <<a>> \o <<b>> = <<a, b>>
<1>. DEFINE S == {a, b}
            s == <<a>>
            t == <<b>>
            u == <<a, b>>
<1>1. /\ s \in Seq(S) /\ t \in Seq(S) /\ u \in Seq(S)
      /\ Len(s) = 1 /\ Len(t) = 1 /\ Len(u) = 2
      /\ s[1] = a /\ t[1] = b /\ u[1] = a /\ u[2] = b
  OBVIOUS
<1>. HIDE DEF S, s, t, u
<1>2. s \o t \in Seq(S) /\ Len(s \o t) = 2 /\ (s \o t)[1] = a /\ (s \o t)[2] = b
  BY <1>1, ConcatProperties
<1>3. s \o t = u
  BY <1>1, <1>2, SeqEqual
<1>4. QED
  BY <1>3 DEF s, t, u

LEMMA Triple ==
  ASSUME NEW a, NEW b, NEW c
  PROVE  <<a, b>> \o <<c>> = <<a, b, c>>
<1>. DEFINE S == {a, b, c}
            s == <<a, b>>
            t == <<c>>
            u == <<a, b, c>>
<1>1. /\ s \in Seq(S) /\ t \in Seq(S) /\ u \in Seq(S)
      /\ Len(s) = 2 /\ Len(t) = 1 /\ Len(u) = 3
      /\ s[1] = a /\ s[2] = b /\ t[1] = c /\ u[1] = a /\ u[2] = b /\ u[3] = c
  OBVIOUS
<1>. HIDE DEF S, s, t, u
<1>2. /\ s \o t \in Seq(S) /\ Len(s \o t) = Len(s) + Len(t)
      /\ \A i \in 1 .. Len(s) + Len(t) : (s \o t)[i] = IF i <= Len(s) THEN s[i] ELSE t[i - Len(s)]
  BY <1>1, ConcatProperties, Zenon
<1>3. Len(s \o t) = 3 /\ \A i \in 1 .. 3 : (s \o t)[i] = u[i]
  BY <1>1, <1>2
<1>4. s \o t = u
  BY <1>1, <1>2, <1>3, SeqEqual
<1>5. QED
  BY <1>4 DEF s, t, u

LEMMA Quadruple ==
  ASSUME NEW a, NEW b, NEW c, NEW d
  PROVE  <<a, c>> \o <<b, d>> = <<a, c, b, d>>
<1>. DEFINE S == {a, b, c, d}
<1>. DEFINE s == <<a, c>>
            t == <<b, d>>
            u == <<a, c, b, d>>
<1>1. /\ s \in Seq(S) /\ t \in Seq(S) /\ u \in Seq(S)
      /\ Len(s) = 2 /\ Len(t) = 2 /\ Len(u) = 4
      /\ s[1] = a /\ s[2] = c /\ t[1] = b /\ t[2] = d
      /\ u[1] = a /\ u[2] = c /\ u[3] = b /\ u[4] = d
  OBVIOUS
<1>. HIDE DEF S, s, t, u
<1>2. /\ s \o t \in Seq(S) /\ Len(s \o t) = Len(s) + Len(t)
      /\ \A i \in 1 .. Len(s) + Len(t) : (s \o t)[i] = IF i <= Len(s) THEN s[i] ELSE t[i - Len(s)]
  BY <1>1, ConcatProperties, Zenon
<1>3. Len(s \o t) = 4 /\ \A i \in 1 .. 4 : (s \o t)[i] = u[i]
  BY <1>1, <1>2
<1>4. s \o t = u
  BY <1>1, <1>2, <1>3, SeqEqual
<1>5. QED
  BY <1>4 DEF s, t, u

LEMMA Alone == ASSUME NEW a PROVE <<a>> \o <<>> = <<a>> /\ <<>> \o <<a>> = <<a>> /\ <<>> \o <<>> = <<>>
<1>1. <<a>> \in Seq({a}) /\ <<>> \in Seq({a})
  OBVIOUS
<1>2. QED
  BY <1>1, ConcatEmptySeq

LEMMA NoneJoined == <<>> \o <<>> \o <<>> \o <<>> = <<>>
BY Alone, Zenon

LEMMA OneJoined ==
  ASSUME NEW a
  PROVE  /\ <<a>> \o <<>> \o <<>> \o <<>> = <<a>>
         /\ <<>> \o <<a>> \o <<>> \o <<>> = <<a>>
         /\ <<>> \o <<>> \o <<a>> \o <<>> = <<a>>
BY Alone, Zenon

LEMMA TwoJoined ==
  ASSUME NEW a, NEW b
  PROVE  /\ <<a>> \o <<b>> \o <<>> \o <<>> = <<a, b>>
         /\ <<a>> \o <<>> \o <<b>> \o <<>> = <<a, b>>
         /\ <<>> \o <<a>> \o <<>> \o <<b>> = <<a, b>>
<1>1. <<a, b>> \in Seq({a, b})
  OBVIOUS
<1>2. <<a, b>> \o <<>> = <<a, b>>
  BY <1>1, ConcatEmptySeq
<1>3. QED
  BY <1>2, Alone, Pair, Zenon

LEMMA ThreeJoined ==
  ASSUME NEW a, NEW b, NEW c
  PROVE  <<a>> \o <<b>> \o <<c>> \o <<>> = <<a, b, c>>
<1>1. <<a, b, c>> \in Seq({a, b, c})
  OBVIOUS
<1>2. <<a, b, c>> \o <<>> = <<a, b, c>>
  BY <1>1, ConcatEmptySeq
<1>3. <<a>> \o <<b>> = <<a, b>> /\ <<a, b>> \o <<c>> = <<a, b, c>>
  BY Pair, Triple
<1>4. QED
  BY <1>2, <1>3, Zenon

-----------------------------------------------------------------------------
(* The values of operands by the types of a signature.                     *)
Piece(params, v, i, types) == IF i \in DOMAIN params /\ params[i] \in types THEN <<v[i]>> ELSE <<>>

Pieces(params, v, types) ==
  Piece(params, v, 1, types) \o Piece(params, v, 2, types) \o Piece(params, v, 3, types)
    \o Piece(params, v, 4, types)

WrittenTargets(params, v) == Pieces(params, v, {"Q", "B"}) \o Pieces(params, v, {"a"})
WrittenNumbers(params, v)      == Pieces(params, v, {"i", "r", "u", "s"})

LEMMA NoPieces ==
  ASSUME NEW v
  PROVE  WrittenTargets(<<>>, v) = <<>> /\ WrittenNumbers(<<>>, v) = <<>>
BY NoneJoined DEF WrittenTargets, WrittenNumbers, Pieces, Piece

LEMMA OnePiece ==
  ASSUME NEW v, NEW t
  PROVE  /\ t \in {"Q", "B"} => WrittenTargets(<<t>>, v) = <<v[1]>> /\ WrittenNumbers(<<t>>, v) = <<>>
         /\ t \in {"i", "s"} => WrittenTargets(<<t>>, v) = <<>> /\ WrittenNumbers(<<t>>, v) = <<v[1]>>
<1>1. 1 \in DOMAIN <<t>> /\ \A i \in 2 .. 4 : i \notin DOMAIN <<t>>
  OBVIOUS
<1>2. \A types : Pieces(<<t>>, v, types) = IF t \in types THEN <<v[1]>> ELSE <<>>
  BY <1>1, NoneJoined, OneJoined, TwoJoined DEF Pieces, Piece
<1>3. <<>> \o <<>> = <<>> /\ <<v[1]>> \o <<>> = <<v[1]>>
  BY ConcatEmptySeq
<1>4. QED
  BY <1>2, <1>3 DEF WrittenTargets, WrittenNumbers

LEMMA TwoPieces ==
  ASSUME NEW v, NEW t
  PROVE  /\ t = "Q" => WrittenTargets(<<"Q", t>>, v) = <<v[1], v[2]>> /\ WrittenNumbers(<<"Q", t>>, v) = <<>>
         /\ t \in {"r", "u", "i"} => /\ WrittenTargets(<<"Q", t>>, v) = <<v[1]>>
                                     /\ WrittenNumbers(<<"Q", t>>, v) = <<v[2]>>
<1>. DEFINE p == <<"Q", t>>
<1>1. /\ 1 \in DOMAIN p /\ 2 \in DOMAIN p /\ 3 \notin DOMAIN p /\ 4 \notin DOMAIN p
      /\ p[1] = "Q" /\ p[2] = t
  OBVIOUS
<1>. HIDE DEF p
<1>2. /\ t = "Q" => Pieces(p, v, {"Q", "B"}) = <<v[1], v[2]>>
      /\ t # "Q" /\ t # "B" => Pieces(p, v, {"Q", "B"}) = <<v[1]>>
      /\ t # "a" => Pieces(p, v, {"a"}) = <<>>
      /\ t = "Q" => Pieces(p, v, {"i", "r", "u", "s"}) = <<>>
      /\ t \in {"r", "u", "i"} => Pieces(p, v, {"i", "r", "u", "s"}) = <<v[2]>>
  BY <1>1, NoneJoined, OneJoined, TwoJoined DEF Pieces, Piece
<1>3. <<v[1], v[2]>> \o <<>> = <<v[1], v[2]>> /\ <<v[1]>> \o <<>> = <<v[1]>>
  BY ConcatEmptySeq
<1>4. QED
  BY <1>2, <1>3 DEF WrittenTargets, WrittenNumbers, p

LEMMA ThreePieces ==
  ASSUME NEW v, NEW t
  PROVE  /\ t = "Q" => /\ WrittenTargets(<<"Q", "Q", t>>, v) = <<v[1], v[2], v[3]>>
                       /\ WrittenNumbers(<<"Q", "Q", t>>, v) = <<>>
         /\ t \in {"r", "i"} => /\ WrittenTargets(<<"Q", "Q", t>>, v) = <<v[1], v[2]>>
                                /\ WrittenNumbers(<<"Q", "Q", t>>, v) = <<v[3]>>
<1>. DEFINE p == <<"Q", "Q", t>>
<1>1. /\ 1 \in DOMAIN p /\ 2 \in DOMAIN p /\ 3 \in DOMAIN p /\ 4 \notin DOMAIN p
      /\ p[1] = "Q" /\ p[2] = "Q" /\ p[3] = t
  OBVIOUS
<1>. HIDE DEF p
<1>2. /\ t = "Q" => Pieces(p, v, {"Q", "B"}) = <<v[1], v[2], v[3]>>
      /\ t # "Q" /\ t # "B" => Pieces(p, v, {"Q", "B"}) = <<v[1], v[2]>>
      /\ t # "a" => Pieces(p, v, {"a"}) = <<>>
      /\ t = "Q" => Pieces(p, v, {"i", "r", "u", "s"}) = <<>>
      /\ t \in {"r", "i"} => Pieces(p, v, {"i", "r", "u", "s"}) = <<v[3]>>
  <2>1. \A types : Pieces(p, v, types) =
          (IF "Q" \in types THEN <<v[1]>> ELSE <<>>) \o (IF "Q" \in types THEN <<v[2]>> ELSE <<>>)
            \o (IF t \in types THEN <<v[3]>> ELSE <<>>) \o <<>>
    BY <1>1, Zenon DEF Pieces, Piece
  <2>2. /\ t = "Q" => Pieces(p, v, {"Q", "B"}) = <<v[1]>> \o <<v[2]>> \o <<v[3]>> \o <<>>
        /\ t # "Q" /\ t # "B" => Pieces(p, v, {"Q", "B"}) = <<v[1]>> \o <<v[2]>> \o <<>> \o <<>>
        /\ t # "a" => Pieces(p, v, {"a"}) = <<>> \o <<>> \o <<>> \o <<>>
        /\ t = "Q" => Pieces(p, v, {"i", "r", "u", "s"}) = <<>> \o <<>> \o <<>> \o <<>>
        /\ t \in {"r", "i"} =>
             Pieces(p, v, {"i", "r", "u", "s"}) = <<>> \o <<>> \o <<v[3]>> \o <<>>
    BY <2>1
  <2>3. /\ <<v[1]>> \o <<v[2]>> \o <<v[3]>> \o <<>> = <<v[1], v[2], v[3]>>
        /\ <<v[1]>> \o <<v[2]>> \o <<>> \o <<>> = <<v[1], v[2]>>
    BY TwoJoined, ThreeJoined, Zenon
  <2>4. <<>> \o <<>> \o <<v[3]>> \o <<>> = <<v[3]>> /\ <<>> \o <<>> \o <<>> \o <<>> = <<>>
    BY NoneJoined, OneJoined, TwoJoined, Zenon
  <2>5. QED
    BY <2>2, <2>3, <2>4, Zenon
<1>3. <<v[1], v[2], v[3]>> \o <<>> = <<v[1], v[2], v[3]>> /\ <<v[1], v[2]>> \o <<>> = <<v[1], v[2]>>
  BY ConcatEmptySeq
<1>4. QED
  BY <1>2, <1>3 DEF WrittenTargets, WrittenNumbers, p

LEMMA FourPieces ==
  ASSUME NEW v
  PROVE  /\ WrittenTargets(<<"Q", "a", "Q", "a">>, v) = <<v[1], v[3]>> \o <<v[2], v[4]>>
         /\ WrittenNumbers(<<"Q", "a", "Q", "a">>, v) = <<>>
<1>. DEFINE p == <<"Q", "a", "Q", "a">>
<1>1. /\ 1 \in DOMAIN p /\ 2 \in DOMAIN p /\ 3 \in DOMAIN p /\ 4 \in DOMAIN p
      /\ p[1] = "Q" /\ p[2] = "a" /\ p[3] = "Q" /\ p[4] = "a"
  OBVIOUS
<1>. HIDE DEF p
<1>2. /\ Pieces(p, v, {"Q", "B"}) = <<v[1], v[3]>>
      /\ Pieces(p, v, {"a"}) = <<v[2], v[4]>>
      /\ Pieces(p, v, {"i", "r", "u", "s"}) = <<>>
  <2>1. \A types : Pieces(p, v, types) =
          (IF "Q" \in types THEN <<v[1]>> ELSE <<>>) \o (IF "a" \in types THEN <<v[2]>> ELSE <<>>)
            \o (IF "Q" \in types THEN <<v[3]>> ELSE <<>>)
            \o (IF "a" \in types THEN <<v[4]>> ELSE <<>>)
    BY <1>1, Zenon DEF Pieces, Piece
  <2>2. /\ Pieces(p, v, {"Q", "B"}) = <<v[1]>> \o <<>> \o <<v[3]>> \o <<>>
        /\ Pieces(p, v, {"a"}) = <<>> \o <<v[2]>> \o <<>> \o <<v[4]>>
        /\ Pieces(p, v, {"i", "r", "u", "s"}) = <<>> \o <<>> \o <<>> \o <<>>
    BY <2>1
  <2>3. /\ <<v[1]>> \o <<>> \o <<v[3]>> \o <<>> = <<v[1], v[3]>>
        /\ <<>> \o <<v[2]>> \o <<>> \o <<v[4]>> = <<v[2], v[4]>>
        /\ <<>> \o <<>> \o <<>> \o <<>> = <<>>
    BY NoneJoined, OneJoined, TwoJoined, Zenon
  <2>4. QED
    BY <2>2, <2>3, Zenon
<1>3. QED
  BY <1>2 DEF WrittenTargets, WrittenNumbers, p

-----------------------------------------------------------------------------
(* An operation that a constructor made: what its getters return.          *)
LEMMA Groups ==
  ASSUME NEW r \in Registered
  PROVE  \/ /\ r.type = "NoArg" /\ r.params = <<>> /\ ~r.conditional
            /\ r.name \in {"measure_all", "display", "display_binary", "reset-averaging"}
         \/ r.type = "MeasureParity" /\ r.name = "measure_parity" /\ r.params = <<"Q", "a", "Q", "a">>
         \/ /\ r.type = "SingleQubit" /\ r.params = <<"Q">>
            /\ r.name \notin Unchecked \cup TwoQubitTypes \cup {"toffoli", "measure_parity"}
         \/ /\ r.type \in {"SingleQubitReal", "SingleQubitMatrix"}
            /\ \E t \in {"r", "u"} : r.params = <<"Q", t>>
            /\ r.name \notin Unchecked \cup TwoQubitTypes \cup {"toffoli", "measure_parity"}
         \/ r.type = "SingleQubitInt" /\ r.name = "wait" /\ r.params = <<"Q", "i">>
         \/ r.type = "TwoQubit" /\ r.name \in TwoQubitTypes /\ r.params = <<"Q", "Q">>
         \/ /\ r.type \in {"TwoQubitReal", "TwoQubitInt"} /\ r.name \in TwoQubitTypes
            /\ \E t \in {"r", "i"} : r.params = <<"Q", "Q", t>>
         \/ r.type = "ThreeQubit" /\ r.name = "toffoli" /\ r.params = <<"Q", "Q", "Q">>
         \/ r.type = "NotGate" /\ r.name = "not" /\ r.params = <<"B">>
         \/ /\ r.type = "SingleBit" /\ r.name \in {"display", "display_binary"} /\ r.params = <<"B">>
            /\ ~r.conditional
         \/ r.type = "SingleInt" /\ r.name = "skip" /\ r.params = <<"i">>
         \/ r.type = "SingleString" /\ r.name = "load_state" /\ r.params = <<"s">>
<1>. USE DEF Unchecked, TwoQubitTypes
<1>1. QED
  BY RegisteredAs DEF Reg

(* What is read of an operation without a condition.                       *)
Reads(op, name, targets, numbers) ==
  /\ DOMAIN op = Fields /\ op.type = name
  /\ Targets(op) = targets /\ Numbers(op) = numbers
  /\ op.bit_controlled => name = "not"

LEMMA GetTargets ==
  ASSUME NEW op
  PROVE  /\ op.type = "measure_parity" => Targets(op) = op.measure_parity \o op.axes
         /\ op.type \in TwoQubitTypes => Targets(op) = op.two_qubit_pairs
         /\ op.type = "toffoli" => Targets(op) = op.toffoli
         /\ op.type \in {"display", "display_binary", "not"} /\ ~op.all_qubits_bits =>
              Targets(op) = <<op.bits>>
         /\ op.type \in {"display", "display_binary"} /\ op.all_qubits_bits => Targets(op) = <<>>
         /\ op.type \in {"measure_all", "skip", "load_state"} => Targets(op) = <<>>
         /\ op.type \notin Unchecked \cup TwoQubitTypes \cup {"toffoli", "measure_parity"} =>
              Targets(op) = IF op.all_qubits_bits THEN <<>> ELSE <<op.qubits>>
BY DEF Targets, TwoQubitTypes, Unchecked

LEMMA GetNumbers ==
  ASSUME NEW op
  PROVE  /\ op.wait_time = Unset /\ op.argument = Unset => Numbers(op) = <<>>
         /\ op.wait_time = Unset /\ op.argument # Unset => Numbers(op) = <<op.argument>>
         /\ op.wait_time # Unset /\ op.argument = Unset => Numbers(op) = <<op.wait_time>>
BY Alone DEF Numbers, Given

LEMMA ConstructedRead ==
  ASSUME NEW r \in Registered, NEW v, v = [i \in DOMAIN r.params |-> v[i]],
         \A i \in DOMAIN r.params : v[i] # Unset /\ (r.params[i] = "i" => v[i] \in Ints),
         r.name # "load_state"
  PROVE  Reads(Constructed(r.type, r.name, v), r.name, WrittenTargets(r.params, v),
               WrittenNumbers(r.params, v))
<1>. DEFINE op == Constructed(r.type, r.name, v)
            Goal == Reads(op, r.name, WrittenTargets(r.params, v), WrittenNumbers(r.params, v))
<1>1. CASE /\ r.type = "NoArg" /\ r.params = <<>> /\ ~r.conditional
           /\ r.name \in {"measure_all", "display", "display_binary", "reset-averaging"}
  <2>1. /\ DOMAIN op = Fields /\ op.type = r.name /\ op.all_qubits_bits /\ op.bit_controlled = FALSE
        /\ op.wait_time = Unset /\ op.argument = Unset
    BY <1>1 DEF Constructed, Operation, Fields
  <2>. HIDE DEF op
  <2>2. Targets(op) = <<>>
    BY <1>1, <2>1, GetTargets DEF Unchecked, TwoQubitTypes
  <2>3. Numbers(op) = <<>>
    BY <2>1, GetNumbers
  <2>4. QED
    BY <1>1, <2>1, <2>2, <2>3, NoPieces DEF op, Reads
<1>2. CASE r.type = "MeasureParity" /\ r.name = "measure_parity" /\ r.params = <<"Q", "a", "Q", "a">>
  <2>1. /\ DOMAIN op = Fields /\ op.type = r.name /\ op.bit_controlled = FALSE
        /\ op.measure_parity = <<v[1], v[3]>> /\ op.axes = <<v[2], v[4]>>
        /\ op.wait_time = Unset /\ op.argument = Unset
    BY <1>2 DEF Constructed, Operation, Fields
  <2>. HIDE DEF op
  <2>2. Targets(op) = <<v[1], v[3]>> \o <<v[2], v[4]>>
    BY <1>2, <2>1, GetTargets
  <2>3. Numbers(op) = <<>>
    BY <2>1, GetNumbers
  <2>4. QED
    BY <1>2, <2>1, <2>2, <2>3, FourPieces DEF op, Reads
<1>3. CASE /\ r.type = "SingleQubit" /\ r.params = <<"Q">>
           /\ r.name \notin Unchecked \cup TwoQubitTypes \cup {"toffoli", "measure_parity"}
  <2>1. /\ DOMAIN op = Fields /\ op.type = r.name /\ op.bit_controlled = FALSE
        /\ op.qubits = v[1] /\ op.all_qubits_bits = FALSE
        /\ op.wait_time = Unset /\ op.argument = Unset
    BY <1>3 DEF Constructed, Operation, Fields
  <2>. HIDE DEF op
  <2>2. Targets(op) = <<v[1]>>
    BY <1>3, <2>1, GetTargets
  <2>3. Numbers(op) = <<>>
    BY <2>1, GetNumbers
  <2>4. QED
    BY <1>3, <2>1, <2>2, <2>3, OnePiece DEF op, Reads
<1>4. CASE /\ r.type \in {"SingleQubitReal", "SingleQubitMatrix"}
           /\ \E t \in {"r", "u"} : r.params = <<"Q", t>>
           /\ r.name \notin Unchecked \cup TwoQubitTypes \cup {"toffoli", "measure_parity"}
  <2>1. /\ DOMAIN op = Fields /\ op.type = r.name /\ op.bit_controlled = FALSE
        /\ op.qubits = v[1] /\ op.all_qubits_bits = FALSE
        /\ op.wait_time = Unset /\ op.argument = v[2]
    BY <1>4 DEF Constructed, Operation, Fields
  <2>. HIDE DEF op
  <2>2. PICK t \in {"r", "u"} : r.params = <<"Q", t>>
    BY <1>4
  <2>3. v[2] # Unset
    BY <2>2
  <2>4. Targets(op) = <<v[1]>>
    BY <1>4, <2>1, GetTargets
  <2>5. Numbers(op) = <<v[2]>>
    BY <2>1, <2>3, GetNumbers
  <2>6. QED
    BY <2>1, <2>2, <2>4, <2>5, TwoPieces DEF op, Reads
<1>5. CASE r.type = "SingleQubitInt" /\ r.name = "wait" /\ r.params = <<"Q", "i">>
  <2>1. /\ DOMAIN op = Fields /\ op.type = r.name /\ op.bit_controlled = FALSE
        /\ op.qubits = v[1] /\ op.all_qubits_bits = FALSE
        /\ op.wait_time = AsInt(v[2]) /\ op.argument = Unset
    BY <1>5 DEF Constructed, Operation, Fields
  <2>. HIDE DEF op
  <2>2. v[2] # Unset /\ AsInt(v[2]) = v[2]
    BY <1>5, IntKept
  <2>3. Targets(op) = <<v[1]>>
    BY <1>5, <2>1, GetTargets DEF Unchecked, TwoQubitTypes
  <2>4. Numbers(op) = <<v[2]>>
    BY <2>1, <2>2, GetNumbers
  <2>5. QED
    BY <1>5, <2>1, <2>3, <2>4, TwoPieces DEF op, Reads
<1>6. CASE r.type = "TwoQubit" /\ r.name \in TwoQubitTypes /\ r.params = <<"Q", "Q">>
  <2>1. /\ DOMAIN op = Fields /\ op.type = r.name /\ op.bit_controlled = FALSE
        /\ op.two_qubit_pairs = <<v[1], v[2]>>
        /\ op.wait_time = Unset /\ op.argument = Unset
    <3>1. v = <<v[1], v[2]>>
      BY <1>6
    <3>2. QED
      BY <1>6, <3>1 DEF Constructed, Operation, Fields
  <2>. HIDE DEF op
  <2>2. Targets(op) = <<v[1], v[2]>>
    BY <1>6, <2>1, GetTargets
  <2>3. Numbers(op) = <<>>
    BY <2>1, GetNumbers
  <2>4. QED
    BY <1>6, <2>1, <2>2, <2>3, TwoPieces DEF op, Reads, TwoQubitTypes
<1>7. CASE /\ r.type \in {"TwoQubitReal", "TwoQubitInt"} /\ r.name \in TwoQubitTypes
           /\ \E t \in {"r", "i"} : r.params = <<"Q", "Q", t>>
  <2>1. /\ DOMAIN op = Fields /\ op.type = r.name /\ op.bit_controlled = FALSE
        /\ op.two_qubit_pairs = <<v[1], v[2]>>
        /\ op.wait_time = Unset /\ op.argument = v[3]
    BY <1>7 DEF Constructed, Operation, Fields
  <2>. HIDE DEF op
  <2>2. PICK t \in {"r", "i"} : r.params = <<"Q", "Q", t>>
    BY <1>7
  <2>3. v[3] # Unset
    BY <2>2
  <2>4. Targets(op) = <<v[1], v[2]>>
    BY <1>7, <2>1, GetTargets
  <2>5. Numbers(op) = <<v[3]>>
    BY <2>1, <2>3, GetNumbers
  <2>6. QED
    BY <1>7, <2>1, <2>2, <2>4, <2>5, ThreePieces DEF op, Reads, TwoQubitTypes
<1>8. CASE r.type = "ThreeQubit" /\ r.name = "toffoli" /\ r.params = <<"Q", "Q", "Q">>
  <2>1. /\ DOMAIN op = Fields /\ op.type = r.name /\ op.bit_controlled = FALSE
        /\ op.toffoli = <<v[1], v[2], v[3]>>
        /\ op.wait_time = Unset /\ op.argument = Unset
    <3>1. v = <<v[1], v[2], v[3]>>
      BY <1>8
    <3>2. QED
      BY <1>8, <3>1 DEF Constructed, Operation, Fields
  <2>. HIDE DEF op
  <2>2. Targets(op) = <<v[1], v[2], v[3]>>
    BY <1>8, <2>1, GetTargets
  <2>3. Numbers(op) = <<>>
    BY <2>1, GetNumbers
  <2>4. QED
    BY <1>8, <2>1, <2>2, <2>3, ThreePieces DEF op, Reads
<1>9. CASE r.type = "NotGate" /\ r.name = "not" /\ r.params = <<"B">>
  <2>1. /\ DOMAIN op = Fields /\ op.type = r.name /\ op.bits = v[1] /\ op.all_qubits_bits = FALSE
        /\ op.wait_time = Unset /\ op.argument = Unset
    BY <1>9 DEF Constructed, Operation, Fields, SetControlBits
  <2>. HIDE DEF op
  <2>2. Targets(op) = <<v[1]>>
    BY <1>9, <2>1, GetTargets
  <2>3. Numbers(op) = <<>>
    BY <2>1, GetNumbers
  <2>4. QED
    BY <1>9, <2>1, <2>2, <2>3, OnePiece DEF op, Reads
<1>10. CASE /\ r.type = "SingleBit" /\ r.name \in {"display", "display_binary"} /\ r.params = <<"B">>
            /\ ~r.conditional
  <2>1. /\ DOMAIN op = Fields /\ op.type = r.name /\ op.bits = v[1] /\ op.all_qubits_bits = FALSE
        /\ op.wait_time = Unset /\ op.argument = Unset /\ op.bit_controlled = FALSE
    BY <1>10 DEF Constructed, Operation, Fields
  <2>. HIDE DEF op
  <2>2. Targets(op) = <<v[1]>>
    BY <1>10, <2>1, GetTargets
  <2>3. Numbers(op) = <<>>
    BY <2>1, GetNumbers
  <2>4. QED
    BY <1>10, <2>1, <2>2, <2>3, OnePiece DEF op, Reads
<1>11. CASE r.type = "SingleInt" /\ r.name = "skip" /\ r.params = <<"i">>
  <2>1. /\ DOMAIN op = Fields /\ op.type = r.name /\ op.bit_controlled = FALSE
        /\ op.wait_time = AsInt(v[1]) /\ op.argument = Unset
    BY <1>11 DEF Constructed, Operation, Fields
  <2>. HIDE DEF op
  <2>2. v[1] # Unset /\ AsInt(v[1]) = v[1]
    BY <1>11, IntKept
  <2>3. Targets(op) = <<>>
    BY <1>11, <2>1, GetTargets
  <2>4. Numbers(op) = <<v[1]>>
    BY <2>1, <2>2, GetNumbers
  <2>5. QED
    BY <1>11, <2>1, <2>3, <2>4, OnePiece DEF op, Reads
<1>12. CASE r.type = "SingleString" /\ r.name = "load_state" /\ r.params = <<"s">>
  BY <1>12
<1>13. QED
  BY Groups, <1>1, <1>2, <1>3, <1>4, <1>5, <1>6, <1>7, <1>8, <1>9, <1>10, <1>11, <1>12

-----------------------------------------------------------------------------
(* One instruction.                                                        *)

(* An instruction all of whose values the old classes have room for.       *)
Exact(insn) ==
  /\ insn.name = "not" => insn.condition = <<>>
  /\ insn.name # "load_state"
  /\ ConvertIndices(insn.condition) = insn.condition
  /\ \A o \in Range(insn.operands) :
       ConvertOperand(o) = o.value /\ o.value # Unset /\ (o.type = "i" => o.value \in Ints)

(* Conditions are for instructions that may have one, and none of them is  *)
(* read as the targets of the operation.                                   *)
LEMMA ConditionsApart ==
  ASSUME NEW insn, ResolvedInstruction(insn),
         insn.name = "not" => insn.condition = <<>>, insn.condition # <<>>
  PROVE  insn.name \notin {"display", "display_binary", "not"}
<1>1. PICK r \in Registered : r.name = insn.name /\ r.conditional
  BY DEF ResolvedInstruction
<1>2. r.name \notin {"display", "display_binary"}
  BY <1>1, RegisteredAs DEF Reg
<1>3. QED
  BY <1>1, <1>2

LEMMA ConditionRead ==
  ASSUME NEW op, NEW name, NEW targets, NEW numbers, Reads(op, name, targets, numbers),
         NEW condition,
         condition # <<>> => name \notin {"display", "display_binary", "not"}
  PROVE  Read(WithCondition(op, condition)) =
           [name |-> name, targets |-> targets, numbers |-> numbers, controls |-> condition]
<1>. DEFINE new == WithCondition(op, condition)
<1>1. CASE condition = <<>>
  <2>1. new = op /\ Controls(op) = <<>>
    BY <1>1 DEF WithCondition, Controls, Reads
  <2>2. QED
    BY <1>1, <2>1 DEF Read, Reads
<1>2. CASE condition # <<>>
  <2>1. /\ new.type = op.type /\ new.measure_parity = op.measure_parity /\ new.axes = op.axes
        /\ new.two_qubit_pairs = op.two_qubit_pairs /\ new.toffoli = op.toffoli
        /\ new.all_qubits_bits = op.all_qubits_bits /\ new.qubits = op.qubits
        /\ new.wait_time = op.wait_time /\ new.argument = op.argument
        /\ new.bits = condition /\ new.bit_controlled = TRUE
    BY <1>2 DEF WithCondition, SetControlBits, Reads, Fields, Operation
  <2>2. new.type = name /\ name \notin {"display", "display_binary", "not"}
    BY <1>2, <2>1 DEF Reads
  <2>. HIDE DEF new
  <2>3. Targets(new) = Targets(op)
    BY <2>1, <2>2 DEF Targets, Reads
  <2>4. Numbers(new) = Numbers(op) /\ Controls(new) = condition
    BY <2>1, <2>2 DEF Numbers, Controls
  <2>5. QED
    BY <2>2, <2>3, <2>4 DEF Read, Reads, new
<1>3. QED
  BY <1>1, <1>2

LEMMA ValuesOfTypes ==
  ASSUME NEW insn, NEW params, NEW v, DOMAIN insn.operands = DOMAIN params,
         \A i \in DOMAIN params : insn.operands[i].type = params[i] /\ insn.operands[i].value = v[i]
  PROVE  \A types : Values(insn, types) = Pieces(params, v, types)
<1>1. \A i, types : ValueAt(insn, i, types) = Piece(params, v, i, types)
  BY DEF ValueAt, Piece
<1>2. QED
  BY <1>1, Zenon DEF Values, Pieces

(* What is read of a converted instruction is what was written.            *)
LEMMA InstructionRead ==
  ASSUME NEW insn, ResolvedInstruction(insn), Exact(insn)
  PROVE  Read(ConvertInstruction(insn)) = Written(insn)
<1>. DEFINE r == Signature(insn)
            v == [i \in DOMAIN insn.operands |-> ConvertOperand(insn.operands[i])]
            op == Constructed(r.type, insn.name, v)
<1>1. /\ r \in Registered /\ r.name = insn.name
      /\ DOMAIN insn.operands = DOMAIN r.params
      /\ \A i \in DOMAIN r.params : insn.operands[i].type = r.params[i]
  BY Operands
<1>2. ConvertInstruction(insn) = WithCondition(op, insn.condition)
  BY DEF ConvertInstruction, Exact
<1>3. \A i \in DOMAIN r.params : /\ v[i] = insn.operands[i].value /\ v[i] # Unset
                                 /\ r.params[i] = "i" => v[i] \in Ints
  BY <1>1 DEF Exact, Range
<1>4. v = [i \in DOMAIN r.params |-> v[i]]
  BY <1>1
<1>. HIDE DEF r, v
<1>5. Reads(op, insn.name, WrittenTargets(r.params, v), WrittenNumbers(r.params, v))
  BY <1>1, <1>3, <1>4, ConstructedRead DEF Exact
<1>. HIDE DEF op
<1>6. insn.condition # <<>> => insn.name \notin {"display", "display_binary", "not"}
  BY ConditionsApart DEF Exact
<1>7. Read(ConvertInstruction(insn)) =
        [name |-> insn.name, targets |-> WrittenTargets(r.params, v),
         numbers |-> WrittenNumbers(r.params, v), controls |-> insn.condition]
  BY <1>2, <1>5, <1>6, ConditionRead
<1>8. \A types : Values(insn, types) = Pieces(r.params, v, types)
  BY <1>1, <1>3, ValuesOfTypes
<1>9. /\ Values(insn, {"Q", "B"}) \o Values(insn, {"a"}) = WrittenTargets(r.params, v)
      /\ Values(insn, {"i", "r", "u", "s"}) = WrittenNumbers(r.params, v)
  <2>1. /\ Values(insn, {"Q", "B"}) = Pieces(r.params, v, {"Q", "B"})
        /\ Values(insn, {"a"}) = Pieces(r.params, v, {"a"})
        /\ Values(insn, {"i", "r", "u", "s"}) = Pieces(r.params, v, {"i", "r", "u", "s"})
    BY <1>8
  <2>2. QED
    BY <2>1, Zenon DEF WrittenTargets, WrittenNumbers
<1>10. QED
  BY <1>7, <1>9, Zenon DEF Written

-----------------------------------------------------------------------------
(* A subcircuit into which n bundles of a part have been copied.           *)
Copied(s, part, number, n) ==
  /\ s.name = part.name /\ s.number = number /\ s.iterations = AsInt(part.iterations)
  /\ Len(s.clusters) = n
  /\ \A k \in 1 .. n : s.clusters[k] = OperationsCluster(part.bundles[k])

(* Nothing copied yet, and the first part goes to the default subcircuit.  *)
Starting(list, subcircuits, rest, open) ==
  /\ StartsUnnamed(list) /\ rest = list /\ open = <<>>
  /\ subcircuits = NoRepresentation.subcircuits

(* One subcircuit for every part begun: k of them are complete, the last   *)
(* one has n bundles and lacks those still open.                           *)
BegunUpTo(k, n, parts, subcircuits, rest, open) ==
  /\ Len(subcircuits) = k + 1 /\ k + 1 + Len(rest) = Len(parts)
  /\ \A j \in 1 .. Len(rest) : rest[j] = parts[k + 1 + j]
  /\ \A i \in 1 .. k : Copied(subcircuits[i], parts[i], i - 1, Len(parts[i].bundles))
  /\ Copied(subcircuits[k + 1], parts[k + 1], k, n) /\ n + Len(open) = Len(parts[k + 1].bundles)
  /\ \A j \in 1 .. Len(open) : open[j] = parts[k + 1].bundles[n + j]

Begun(list, subcircuits, rest, open) ==
  \E k, n \in Nat : BegunUpTo(k, n, Parts(list), subcircuits, rest, open)

(* What of the program the checker holds in each phase.                    *)
Copying ==
  LET p == Analyzed[text]
  IN  /\ phase \in {"copy", "check"} =>
           /\ qasm.qubit_register = AsInt(p.num_qubits) /\ qasm.error_model = p.error_model
           /\ \/ phase = "copy" /\ Starting(p.subcircuits, qasm.subcircuits, left, bundles)
              \/ Begun(p.subcircuits, qasm.subcircuits, left, bundles)
      /\ phase = "check" =>
           /\ left = <<>> /\ bundles = <<>>
           /\ qasm.mappings = AddMappings(qasm, References(p)).mappings

-----------------------------------------------------------------------------
(* Lists whose elements nothing is said about.                             *)
LEMMA LengthOf ==
  ASSUME NEW s, IsSequence(s)
  PROVE  Len(s) \in Nat /\ DOMAIN s = 1 .. Len(s) /\ (s # <<>> => Len(s) >= 1)
<1>1. s \in Seq(Range(s))
  BY DEF IsSequence
<1>2. s # <<>> => Len(s) \in Nat \ {0}
  BY <1>1, EmptySeq
<1>3. QED
  BY <1>1, <1>2

LEMMA TailOf ==
  ASSUME NEW s, IsSequence(s), s # <<>>
  PROVE  /\ Len(s) \in Nat /\ Len(s) >= 1 /\ Len(Tail(s)) = Len(s) - 1 /\ Head(s) = s[1]
         /\ \A j \in 1 .. Len(s) - 1 : Tail(s)[j] = s[j + 1]
<1>. DEFINE S == Range(s)
<1>1. s \in Seq(S) /\ Len(s) \in Nat /\ Len(s) >= 1
  BY LengthOf DEF IsSequence
<1>. HIDE DEF S
<1>2. QED
  BY <1>1, HeadTailProperties

LEMMA AppendOf ==
  ASSUME NEW s, IsSequence(s), NEW x
  PROVE  /\ Len(s) \in Nat /\ Len(Append(s, x)) = Len(s) + 1 /\ Append(s, x)[Len(s) + 1] = x
         /\ \A i \in 1 .. Len(s) : Append(s, x)[i] = s[i]
<1>. DEFINE S == Range(s) \cup {x}
<1>1. s \in Seq(Range(s))
  BY DEF IsSequence
<1>2. s \in Seq(S) /\ x \in S
  BY <1>1
<1>. HIDE DEF S
<1>3. QED
  BY <1>2, AppendProperties

LEMMA ReplaceLastOf ==
  ASSUME NEW s, IsSequence(s), s # <<>>, NEW x, NEW t, t = [s EXCEPT ![Len(s)] = x]
  PROVE  /\ Len(s) \in Nat /\ Len(s) >= 1 /\ Len(t) = Len(s) /\ t[Len(s)] = x
         /\ \A i \in 1 .. Len(s) - 1 : t[i] = s[i]
<1>. DEFINE S == Range(s) \cup {x}
<1>1. s \in Seq(Range(s)) /\ Len(s) \in Nat /\ Len(s) >= 1 /\ DOMAIN s = 1 .. Len(s)
  BY LengthOf DEF IsSequence
<1>2. s \in Seq(S) /\ x \in S /\ Len(s) \in 1 .. Len(s)
  BY <1>1
<1>. HIDE DEF S
<1>3. Len(t) = Len(s)
  BY <1>1, <1>2, ExceptSeq
<1>4. QED
  BY <1>1, <1>3

(* How many parts there are that are no subcircuit in the list, and what   *)
(* the default subcircuit holds.                                           *)
Extra(list)  == IF StartsUnnamed(list) THEN 0 ELSE 1
Before(list) == IF StartsUnnamed(list) THEN list[1].bundles ELSE <<>>

(* The parts of a program, one by one.                                     *)
LEMMA PartsOf ==
  ASSUME NEW list, AnalyzedSubcircuits(list)
  PROVE  /\ Len(list) \in Nat /\ Extra(list) \in {0, 1} /\ Len(Parts(list)) = Len(list) + Extra(list)
         /\ DOMAIN Parts(list) = 1 .. Len(Parts(list)) /\ Len(Parts(list)) \in Nat /\ Len(Parts(list)) >= 1
         /\ Parts(list)[1] = Default(Before(list))
         /\ \A j \in 2 .. Len(Parts(list)) :
               /\ j - Extra(list) \in DOMAIN list /\ Parts(list)[j] = list[j - Extra(list)]
               /\ Parts(list)[j].name # ""
         /\ \A j \in 1 .. Len(Parts(list)) : ResolvedBundles(Parts(list)[j].bundles)
<1>1. /\ list \in Seq(Range(list)) /\ Len(list) \in Nat /\ DOMAIN list = 1 .. Len(list)
      /\ \A i \in DOMAIN list : list[i] \in Range(list)
  <2>1. list \in Seq(Range(list))
    BY DEF AnalyzedSubcircuits, IsSequence
  <2>2. \A i \in DOMAIN list : list[i] \in Range(list)
    BY DEF Range
  <2>3. QED
    BY <2>1, <2>2
<1>2. \A i \in DOMAIN list : ResolvedBundles(list[i].bundles)
  BY <1>1 DEF AnalyzedSubcircuits, ResolvedBundles, ResolvedBundle
<1>3. \A i \in DOMAIN list : list[i].name = "" => i = 1
  BY DEF AnalyzedSubcircuits
<1>4. CASE StartsUnnamed(list)
  <2>. DEFINE first == Default(list[1].bundles)
              S == Range(list) \cup {first}
  <2>1. list # <<>> /\ Len(list) >= 1 /\ 1 \in DOMAIN list /\ list[1].name = ""
    <3>1. list # <<>> /\ list[1].name = ""
      BY <1>4 DEF StartsUnnamed
    <3>2. list \in Seq(Range(list)) /\ list # <<>>
      BY <1>1, <3>1
    <3>3. Len(list) # 0
      BY <3>2, EmptySeq
    <3>4. Len(list) >= 1 /\ 1 \in DOMAIN list
      BY <1>1, <3>3
    <3>5. QED
      BY <3>1, <3>4
  <2>2. first.bundles = list[1].bundles
    BY DEF Default
  <2>. HIDE DEF first
  <2>3. /\ Tail(list) \in Seq(Range(list)) /\ Len(Tail(list)) = Len(list) - 1
        /\ \A i \in 1 .. Len(list) - 1 : Tail(list)[i] = list[i + 1]
    BY <1>1, <2>1, HeadTailProperties
  <2>4. <<first>> \in Seq(S) /\ Tail(list) \in Seq(S) /\ Len(<<first>>) = 1 /\ <<first>>[1] = first
    BY <2>3
  <2>. DEFINE one == <<first>>
              t == Tail(list)
  <2>. HIDE DEF one, t
  <2>5. /\ one \o t \in Seq(S) /\ Len(one \o t) = Len(one) + Len(t)
        /\ \A i \in 1 .. Len(one) + Len(t) : (one \o t)[i] = IF i <= Len(one) THEN one[i] ELSE t[i - Len(one)]
    BY <2>4, ConcatProperties, Zenon DEF one, t
  <2>6. Parts(list) = one \o t
    BY <1>4 DEF Parts, one, t, first
  <2>7. /\ Len(Parts(list)) = Len(list) /\ DOMAIN Parts(list) = 1 .. Len(list) /\ Len(list) >= 1
        /\ Parts(list)[1] = first
        /\ \A j \in 2 .. Len(list) : Parts(list)[j] = list[j]
    <3>1. Len(one) = 1 /\ one[1] = first /\ Len(t) = Len(list) - 1 /\ Len(list) >= 1
      BY <1>1, <2>1, <2>3, <2>4 DEF one, t
    <3>. DEFINE m == Len(list)
    <3>2. \A j \in 1 .. Len(list) - 1 : t[j] = list[j + 1]
      BY <2>3 DEF t
    <3>3. ASSUME NEW j \in 2 .. Len(list) PROVE (one \o t)[j] = list[j]
      <4>1. (one \o t)[j] = t[j - 1] /\ j - 1 \in 1 .. Len(list) - 1
        BY <1>1, <2>5, <3>1
      <4>2. t[j - 1] = list[(j - 1) + 1]
        BY <3>2, <4>1
      <4>3. QED
        BY <4>1, <4>2
    <3>4. m \in Nat /\ Len(one \o t) = m /\ (one \o t)[1] = first
      BY <1>1, <2>5, <3>1
    <3>5. DOMAIN (one \o t) = 1 .. m
      BY <2>5, <3>4
    <3>6. QED
      BY <2>6, <3>1, <3>3, <3>4, <3>5
  <2>8. \A j \in 2 .. Len(list) : j - 0 = j /\ j \in DOMAIN list /\ j # 1
    BY <1>1
  <2>9. \A j \in 1 .. Len(list) : ResolvedBundles(Parts(list)[j].bundles)
    <3>1. ASSUME NEW j \in 1 .. Len(list) PROVE ResolvedBundles(Parts(list)[j].bundles)
      <4>1. CASE j = 1
        BY <1>2, <2>1, <2>2, <2>7, <4>1
      <4>2. CASE j # 1
        BY <1>1, <1>2, <2>7, <4>2
      <4>3. QED
        BY <4>1, <4>2
    <3>2. QED
      BY <3>1
  <2>10. \A j \in 2 .. Len(list) : Parts(list)[j].name # ""
    BY <1>3, <2>7, <2>8
  <2>11. /\ Extra(list) = 0 /\ Len(list) + Extra(list) = Len(list) /\ \A j \in 2 .. Len(list) : j - Extra(list) = j
         /\ first = Default(Before(list))
    BY <1>1, <1>4 DEF first, Extra, Before
  <2>. HIDE DEF first
  <2>12. QED
    BY <1>1, <2>7, <2>8, <2>9, <2>10, <2>11
<1>5. CASE ~StartsUnnamed(list)
  <2>. DEFINE first == Default(<<>>)
              S == Range(list) \cup {first}
              one == <<first>>
  <2>1. \A i \in DOMAIN list : list[i].name # ""
    <3>1. list # <<>> => list[1].name # ""
      BY <1>5 DEF StartsUnnamed
    <3>2. (\E i \in DOMAIN list : TRUE) => list # <<>>
      BY <1>1
    <3>3. QED
      BY <1>3, <3>1, <3>2
  <2>2. ResolvedBundles(first.bundles)
    BY NothingPending DEF Default
  <2>. HIDE DEF first
  <2>4. one \in Seq(S) /\ list \in Seq(S) /\ Len(one) = 1 /\ one[1] = first
    BY <1>1
  <2>. HIDE DEF one
  <2>5. /\ one \o list \in Seq(S) /\ Len(one \o list) = Len(one) + Len(list)
        /\ \A i \in 1 .. Len(one) + Len(list) :
             (one \o list)[i] = IF i <= Len(one) THEN one[i] ELSE list[i - Len(one)]
    BY <2>4, ConcatProperties, Zenon
  <2>6. Parts(list) = one \o list
    BY <1>5 DEF Parts, one, first
  <2>7. /\ Len(Parts(list)) = Len(list) + 1 /\ DOMAIN Parts(list) = 1 .. Len(list) + 1
        /\ Parts(list)[1] = first
        /\ \A j \in 2 .. Len(list) + 1 : j - 1 \in DOMAIN list /\ Parts(list)[j] = list[j - 1]
    BY <1>1, <2>4, <2>5, <2>6
  <2>8. \A j \in 1 .. Len(list) + 1 : ResolvedBundles(Parts(list)[j].bundles)
    BY <1>1, <1>2, <2>2, <2>7
  <2>9. \A j \in 2 .. Len(list) + 1 : Parts(list)[j].name # ""
    BY <2>1, <2>7
  <2>11. Extra(list) = 1 /\ first = Default(Before(list))
    BY <1>1, <1>5 DEF first, Extra, Before
  <2>. HIDE DEF first
  <2>12. /\ Len(Parts(list)) \in Nat /\ Len(Parts(list)) >= 1 /\ Len(Parts(list)) = Len(list) + Extra(list)
         /\ DOMAIN Parts(list) = 1 .. Len(Parts(list))
    BY <1>1, <2>7, <2>11
  <2>13. \A j \in 2 .. Len(Parts(list)) :
           /\ j - Extra(list) \in DOMAIN list /\ Parts(list)[j] = list[j - Extra(list)]
           /\ Parts(list)[j].name # ""
    BY <2>7, <2>9, <2>11
  <2>14. \A j \in 1 .. Len(Parts(list)) : ResolvedBundles(Parts(list)[j].bundles)
    BY <2>7, <2>8
  <2>15. QED
    BY <1>1, <2>7, <2>11, <2>12, <2>13, <2>14
<1>6. QED
  BY <1>4, <1>5

(* The default subcircuit is begun before anything is copied.              *)
LEMMA Begins ==
  ASSUME NEW list, AnalyzedSubcircuits(list), NEW rest, NEW open, open = Before(list),
         rest = IF StartsUnnamed(list) THEN Tail(list) ELSE list
  PROVE  Begun(list, NoRepresentation.subcircuits, rest, open)
<1>. DEFINE parts == Parts(list)
            extra == Extra(list)
            subs  == NoRepresentation.subcircuits
            first == SubCircuit("default", 0)
<1>1. /\ Len(list) \in Nat /\ Len(parts) = Len(list) + extra /\ Len(parts) >= 1 /\ Len(parts) \in Nat
      /\ extra \in {0, 1} /\ parts[1] = Default(open)
      /\ \A j \in 2 .. Len(parts) :  j - extra \in DOMAIN list /\ parts[j] = list[j - extra]
      /\ ResolvedBundles(parts[1].bundles)
  <2>1. /\ Len(list) \in Nat /\ extra \in {0, 1} /\ Len(parts) = Len(list) + extra
        /\ Len(parts) \in Nat /\ Len(parts) >= 1
    BY PartsOf
  <2>2. parts[1] = Default(open)
    BY PartsOf
  <2>3. \A j \in 2 .. Len(parts) :  j - extra \in DOMAIN list /\ parts[j] = list[j - extra]
    BY PartsOf
  <2>4. \A j \in 1 .. Len(parts) : ResolvedBundles(parts[j].bundles)
    BY PartsOf
  <2>. HIDE DEF parts, extra
  <2>5. QED
    BY <2>1, <2>2, <2>3, <2>4
<1>2. Len(subs) = 1 /\ subs[1] = first
  BY DEF NoRepresentation
<1>4. parts[1].bundles = open /\ IsSequence(open) /\ Len(open) \in Nat
  BY <1>1, LengthOf DEF Default, ResolvedBundles
<1>5. Copied(first, parts[1], 0, 0)
  <2>1. /\ parts[1].name = "default" /\ parts[1].iterations = 1
        /\ first.name = "default" /\ first.number = 0 /\ first.iterations = 1 /\ first.clusters = <<>>
    BY <1>1 DEF Default, SubCircuit
  <2>2. AsInt(1) = 1
    BY OneIsInt, IntKept
  <2>3. QED
    BY <2>1, <2>2 DEF Copied
<1>6. Len(rest) = Len(parts) - 1 /\ \A j \in 1 .. Len(rest) : rest[j] = parts[1 + j]
  <2>1. CASE StartsUnnamed(list)
    <3>1. IsSequence(list) /\ list # <<>> /\ rest = Tail(list)
      BY <2>1 DEF AnalyzedSubcircuits, StartsUnnamed
    <3>2. Len(rest) = Len(list) - 1 /\ \A j \in 1 .. Len(list) - 1 : rest[j] = list[j + 1]
      BY <3>1, TailOf
    <3>3. extra = 0
      BY <2>1 DEF Extra
    <3>. HIDE DEF parts, extra
    <3>4. \A j \in 1 .. Len(list) - 1 : parts[1 + j] = list[j + 1]
      BY <1>1, <3>3
    <3>5. QED
      BY <1>1, <3>2, <3>3, <3>4
  <2>2. CASE ~StartsUnnamed(list)
    <3>1. extra = 1 /\ rest = list
      BY <2>2 DEF Extra
    <3>. HIDE DEF parts, extra
    <3>2. \A j \in 1 .. Len(list) : parts[1 + j] = list[j]
      BY <1>1, <3>1
    <3>3. QED
      BY <1>1, <3>1, <3>2
  <2>3. QED
    BY <2>1, <2>2
<1>. HIDE DEF parts, extra, subs, first
<1>7. 1 + Len(rest) = Len(parts) /\ 0 + Len(open) = Len(parts[1].bundles)
  BY <1>1, <1>4, <1>6
<1>8. \A j \in 1 .. Len(open) : open[j] = parts[1].bundles[0 + j]
  BY <1>4
<1>9. 0 \in Nat /\ 0 + 1 = 1 /\ ~\E i \in 1 .. 0 : TRUE
  OBVIOUS
<1>10. BegunUpTo(0, 0, parts, subs, rest, open)
  <2>1. \A i \in 1 .. 0 : Copied(subs[i], parts[i], i - 1, Len(parts[i].bundles))
    BY <1>9
  <2>2. QED
    BY <1>2, <1>5, <1>6, <1>7, <1>8, <1>9, <2>1, Zenon DEF BegunUpTo
<1>11. QED
  BY <1>9, <1>10 DEF Begun, parts, subs

(* The next subcircuit is begun when the one before it is complete.        *)
LEMMA BeginsNext ==
  ASSUME NEW list, AnalyzedSubcircuits(list), NEW subs, IsSequence(subs), subs # <<>>,
         NEW rest, IsSequence(rest), rest # <<>>, Begun(list, subs, rest, <<>>)
  PROVE  LET x == [SubCircuit(Head(rest).name, Len(subs)) EXCEPT !.iterations = AsInt(Head(rest).iterations)]
         IN  Head(rest).name # "" /\ Begun(list, Append(subs, x), Tail(rest), Head(rest).bundles)
<1>. DEFINE x == [SubCircuit(Head(rest).name, Len(subs)) EXCEPT !.iterations = AsInt(Head(rest).iterations)]
            parts == Parts(list)
            new == Append(subs, x)
            open == Head(rest).bundles
<1>1. PICK k \in Nat, n \in Nat : BegunUpTo(k, n, parts, subs, rest, <<>>)
  BY DEF Begun
<1>. HIDE DEF x
<1>2. /\ Len(parts) \in Nat
      /\ \A j \in 2 .. Len(parts) :  parts[j].name # ""
      /\ \A j \in 1 .. Len(parts) : IsSequence(parts[j].bundles)
  BY PartsOf DEF ResolvedBundles
<1>3. /\ Len(subs) = k + 1 /\ Len(new) = k + 2 /\ new[k + 2] = x
      /\ \A i \in 1 .. k + 1 : new[i] = subs[i]
  <2>1. Len(subs) = k + 1
    BY <1>1 DEF BegunUpTo
  <2>2. QED
    BY <2>1, AppendOf
<1>4. /\ Len(rest) \in Nat /\ Len(rest) >= 1 /\ Len(Tail(rest)) = Len(rest) - 1 /\ Head(rest) = rest[1]
      /\ \A j \in 1 .. Len(rest) - 1 : Tail(rest)[j] = rest[j + 1]
  BY TailOf
<1>. HIDE DEF parts, new
<1>5. /\ k + 1 + Len(rest) = Len(parts)
      /\ \A j \in 1 .. Len(rest) : rest[j] = parts[k + 1 + j]
      /\ \A i \in 1 .. k : Copied(subs[i], parts[i], i - 1, Len(parts[i].bundles))
      /\ Copied(subs[k + 1], parts[k + 1], k, n) /\ n = Len(parts[k + 1].bundles)
  <2>1. Len(<<>>) = 0
    OBVIOUS
  <2>2. n + 0 = n
    OBVIOUS
  <2>3. n + Len(<<>>) = Len(parts[k + 1].bundles)
    BY <1>1 DEF BegunUpTo
  <2>4. n = Len(parts[k + 1].bundles)
    BY <2>1, <2>2, <2>3
  <2>5. QED
    BY <1>1, <2>4 DEF BegunUpTo
<1>14. k + 2 <= Len(parts) /\ (k + 1) + 1 + Len(Tail(rest)) = Len(parts)
  <2>1. k + 1 + Len(rest) = Len(parts)
    BY <1>5
  <2>2. Len(rest) \in Nat /\ Len(rest) >= 1 /\ Len(Tail(rest)) = Len(rest) - 1
    BY <1>4
  <2>. DEFINE m == Len(rest)
  <2>. HIDE DEF m
  <2>3. QED
    BY <2>1, <2>2
<1>6. Head(rest) = parts[k + 2] /\ k + 2 \in 2 .. Len(parts) /\ k + 2 \in 1 .. Len(parts)
  <2>1. 1 \in 1 .. Len(rest) /\ k + 1 + 1 = k + 2
    BY <1>4
  <2>2. rest[1] = parts[k + 1 + 1]
    BY <1>5, <2>1
  <2>3. k + 2 <= Len(parts)
    BY <1>14
  <2>4. k + 2 \in 2 .. Len(parts) /\ k + 2 \in 1 .. Len(parts)
    <3>1. Len(parts) \in Nat
      BY <1>2
    <3>2. QED
      BY <2>3, <3>1
  <2>5. QED
    BY <1>4, <2>1, <2>2, <2>4
<1>7. Len(parts[k + 2].bundles) \in Nat /\ open = parts[k + 2].bundles
  BY <1>2, <1>6, LengthOf
<1>8. Copied(x, parts[k + 2], k + 1, 0)
  <2>1. /\ x.name = parts[k + 2].name /\ x.number = k + 1
        /\ x.iterations = AsInt(parts[k + 2].iterations) /\ x.clusters = <<>>
    BY <1>3, <1>6 DEF SubCircuit, x
  <2>2. QED
    BY <2>1 DEF Copied
<1>9. \A i \in 1 .. k + 1 : Copied(new[i], parts[i], i - 1, Len(parts[i].bundles))
  <2>1. \A i \in 1 .. k : new[i] = subs[i]
    BY <1>3
  <2>2. Copied(new[k + 1], parts[k + 1], (k + 1) - 1, Len(parts[k + 1].bundles))
    BY <1>3, <1>5
  <2>3. \A i \in 1 .. k + 1 : i = k + 1 \/ i \in 1 .. k
    OBVIOUS
  <2>4. QED
    BY <1>5, <2>1, <2>2, <2>3
<1>10. \A j \in 1 .. Len(Tail(rest)) : Tail(rest)[j] = parts[(k + 1) + 1 + j]
  <2>1. ASSUME NEW j \in 1 .. Len(Tail(rest)) PROVE Tail(rest)[j] = parts[(k + 1) + 1 + j]
    <3>1. j + 1 \in 1 .. Len(rest) /\ Tail(rest)[j] = rest[j + 1]
      BY <1>4
    <3>2. rest[j + 1] = parts[k + 1 + (j + 1)] /\ k + 1 + (j + 1) = (k + 1) + 1 + j
      BY <1>5, <3>1
    <3>3. QED
      BY <3>1, <3>2
  <2>2. QED
    BY <2>1
<1>11. /\ (k + 1) + 1 = k + 2 /\ k + 1 \in Nat /\ (k + 1) + 1 + Len(Tail(rest)) = Len(parts)
       /\ 0 + Len(open) = Len(parts[k + 2].bundles)
       /\ \A j \in 1 .. Len(open) : open[j] = parts[k + 2].bundles[0 + j]
  <2>1. (k + 1) + 1 = k + 2 /\ k + 1 \in Nat
    OBVIOUS
  <2>2. (k + 1) + 1 + Len(Tail(rest)) = Len(parts)
    BY <1>14
  <2>3. 0 + Len(open) = Len(parts[k + 2].bundles)
    BY <1>7
  <2>4. \A j \in 1 .. Len(open) : open[j] = parts[k + 2].bundles[0 + j]
    BY <1>7
  <2>5. QED
    BY <2>1, <2>2, <2>3, <2>4
<1>. HIDE DEF open
<1>12. BegunUpTo(k + 1, 0, parts, new, Tail(rest), open)
  BY <1>3, <1>8, <1>9, <1>10, <1>11 DEF BegunUpTo
<1>13. QED
  BY <1>2, <1>6, <1>11, <1>12 DEF new, Begun, parts, open, x

(* One more bundle of the subcircuit opened last.                          *)
LEMMA ContinuesBundles ==
  ASSUME NEW list, NEW subs, IsSequence(subs), subs # <<>>,
         Built(subs[Len(subs)]),
         NEW rest, NEW open, IsSequence(open), open # <<>>, Begun(list, subs, rest, open)
  PROVE  LET new == [subs EXCEPT ![Len(subs)].clusters = Append(@, OperationsCluster(Head(open)))]
         IN  Begun(list, new, rest, Tail(open))
<1>. DEFINE parts == Parts(list)
            c == OperationsCluster(Head(open))
            s == subs[Len(subs)]
            y == [s EXCEPT !.clusters = Append(@, c)]
            new == [subs EXCEPT ![Len(subs)].clusters = Append(@, c)]
<1>1. PICK k \in Nat, n \in Nat : BegunUpTo(k, n, parts, subs, rest, open)
  BY DEF Begun
<1>2. new = [subs EXCEPT ![Len(subs)] = y]
  OBVIOUS
<1>3. /\ y.name = s.name /\ y.number = s.number /\ y.iterations = s.iterations
      /\ y.clusters = Append(s.clusters, c)
  BY DEF Built, SubCircuit
<1>. HIDE DEF y, new
<1>4. Len(subs) = k + 1
  BY <1>1 DEF BegunUpTo
<1>5. /\ Len(new) = Len(subs) /\ new[Len(subs)] = y
      /\ \A i \in 1 .. Len(subs) - 1 : new[i] = subs[i]
  BY <1>2, ReplaceLastOf
<1>6. Len(new) = k + 1 /\ new[k + 1] = y /\ s = subs[k + 1] /\ \A i \in 1 .. k : new[i] = subs[i]
  BY <1>4, <1>5
<1>7. IsSequence(s.clusters)
  BY DEF Built
<1>. HIDE DEF s
<1>8. /\ Len(y.clusters) = Len(s.clusters) + 1 /\ y.clusters[Len(s.clusters) + 1] = c
      /\ \A i \in 1 .. Len(s.clusters) : y.clusters[i] = s.clusters[i]
  BY <1>3, <1>7, AppendOf
<1>9. /\ Len(open) \in Nat /\ Len(open) >= 1 /\ Len(Tail(open)) = Len(open) - 1 /\ Head(open) = open[1]
      /\ \A j \in 1 .. Len(open) - 1 : Tail(open)[j] = open[j + 1]
  BY TailOf
<1>. HIDE DEF parts
<1>10. /\ k + 1 + Len(rest) = Len(parts)
       /\ \A j \in 1 .. Len(rest) : rest[j] = parts[k + 1 + j]
       /\ \A i \in 1 .. k : Copied(subs[i], parts[i], i - 1, Len(parts[i].bundles))
       /\ Copied(s, parts[k + 1], k, n) /\ n + Len(open) = Len(parts[k + 1].bundles)
       /\ \A j \in 1 .. Len(open) : open[j] = parts[k + 1].bundles[n + j]
  BY <1>1, <1>6 DEF BegunUpTo
<1>11. c = OperationsCluster(parts[k + 1].bundles[n + 1])
  BY <1>9, <1>10
<1>. HIDE DEF c
<1>12. Copied(y, parts[k + 1], k, n + 1)
  <2>1. Len(s.clusters) = n /\ \A i \in 1 .. n : s.clusters[i] = OperationsCluster(parts[k + 1].bundles[i])
    BY <1>10 DEF Copied
  <2>2. Len(y.clusters) = n + 1
    BY <1>8, <2>1
  <2>3. \A i \in 1 .. n + 1 : i = n + 1 \/ i \in 1 .. n
    OBVIOUS
  <2>4. \A i \in 1 .. n + 1 : y.clusters[i] = OperationsCluster(parts[k + 1].bundles[i])
    BY <1>8, <1>11, <2>1, <2>3
  <2>5. QED
    BY <1>3, <1>10, <2>2, <2>4 DEF Copied
<1>13. \A j \in 1 .. Len(Tail(open)) : Tail(open)[j] = parts[k + 1].bundles[(n + 1) + j]
  <2>1. ASSUME NEW j \in 1 .. Len(Tail(open)) PROVE Tail(open)[j] = parts[k + 1].bundles[(n + 1) + j]
    <3>1. j + 1 \in 1 .. Len(open) /\ Tail(open)[j] = open[j + 1]
      BY <1>9
    <3>2. open[j + 1] = parts[k + 1].bundles[n + (j + 1)] /\ n + (j + 1) = (n + 1) + j
      BY <1>10, <3>1
    <3>3. QED
      BY <3>1, <3>2
  <2>2. QED
    BY <2>1
<1>14. (n + 1) + Len(Tail(open)) = Len(parts[k + 1].bundles) /\ n + 1 \in Nat
  BY <1>9, <1>10
<1>15. BegunUpTo(k, n + 1, parts, new, rest, Tail(open))
  BY <1>6, <1>10, <1>12, <1>13, <1>14 DEF BegunUpTo
<1>16. QED
  BY <1>14, <1>15 DEF Begun, parts, new, c

-----------------------------------------------------------------------------
(* Copying is kept by each step of a call.                                 *)
LEMMA CopyRegisterCopies ==
  ASSUME IInv, CopyRegister
  PROVE  Copying'
<1>. DEFINE p == Analyzed[text]
<1>1. /\ phase' = "copy" /\ text' = text /\ left' = p.subcircuits /\ bundles' = <<>>
      /\ qasm'.subcircuits = NoRepresentation.subcircuits /\ qasm'.qubit_register = AsInt(p.num_qubits)
      /\ qasm'.error_model = p.error_model
  BY DEF CopyRegister, IInv, Serving, NoRepresentation
<1>2. AnalyzedSubcircuits(p.subcircuits)
  <2>1. text \in ValidTexts
    BY NotRefused, UnsetAssumption DEF IInv, Serving, CopyRegister
  <2>2. QED
    BY <2>1, ValidProgram
<1>. HIDE DEF p
<1>3. CASE StartsUnnamed(p.subcircuits)
  BY <1>1, <1>3 DEF Copying, Starting, p
<1>4. CASE ~StartsUnnamed(p.subcircuits)
  <2>1. Begun(p.subcircuits, NoRepresentation.subcircuits, p.subcircuits, <<>>)
    BY <1>2, <1>4, Begins DEF Before
  <2>2. QED
    BY <1>1, <2>1 DEF Copying, p
<1>5. QED
  BY <1>3, <1>4

LEMMA CopySubcircuitCopies ==
  ASSUME IInv, Copying, CopySubcircuit
  PROVE  Copying'
<1>. DEFINE p == Analyzed[text]
            list == p.subcircuits
            subs == qasm.subcircuits
            x == [SubCircuit(Head(left).name, Len(subs)) EXCEPT !.iterations = AsInt(Head(left).iterations)]
<1>1. /\ phase = "copy" /\ phase' = "copy" /\ text' = text /\ bundles = <<>> /\ left # <<>>
      /\ bundles' = Head(left).bundles /\ left' = Tail(left)
      /\ qasm' = IF Head(left).name = "" THEN qasm ELSE AddSubCircuit(qasm, Head(left))
  BY DEF CopySubcircuit
<1>2. /\ qasm.qubit_register = AsInt(p.num_qubits) /\ qasm.error_model = p.error_model
      /\ Starting(list, subs, left, bundles) \/ Begun(list, subs, left, bundles)
  BY <1>1 DEF Copying
<1>3. AnalyzedSubcircuits(list)
  BY <1>1, ValidProgram DEF IInv, Serving
<1>4. AddSubCircuit(qasm, Head(left)).subcircuits = Append(subs, x)
      /\ AddSubCircuit(qasm, Head(left)).qubit_register = qasm.qubit_register
      /\ AddSubCircuit(qasm, Head(left)).error_model = qasm.error_model
  BY DEF AddSubCircuit, IInv, BuiltRepresentation, NoRepresentation
<1>5. IsSequence(subs) /\ subs # <<>> /\ IsSequence(left)
  BY DEF IInv, BuiltRepresentation, Pending
<1>. HIDE DEF p, x
<1>6. CASE Starting(list, subs, left, bundles)
  <2>1. /\ StartsUnnamed(list) /\ left = list /\ subs = NoRepresentation.subcircuits
    BY <1>6 DEF Starting
  <2>2. Head(left) = list[1]
    BY <1>1, <1>5, <2>1, TailOf
  <2>3. qasm' = qasm /\ bundles' = Before(list) /\ left' = Tail(list)
    BY <1>1, <2>1, <2>2 DEF StartsUnnamed, Before
  <2>4. Begun(list, subs, Tail(list), Before(list))
    BY <1>3, <2>1, Begins
  <2>5. QED
    BY <1>1, <1>2, <2>3, <2>4 DEF Copying, p
<1>7. CASE Begun(list, subs, left, bundles)
  <2>1. Begun(list, subs, left, <<>>)
    BY <1>1, <1>7
  <2>2. Head(left).name # "" /\ Begun(list, Append(subs, x), Tail(left), Head(left).bundles)
    BY <1>1, <1>3, <1>5, <2>1, BeginsNext DEF x
  <2>3. QED
    BY <1>1, <1>2, <1>4, <2>2 DEF Copying, p
<1>8. QED
  BY <1>2, <1>6, <1>7

LEMMA CopyBundleCopies ==
  ASSUME IInv, Copying, CopyBundle
  PROVE  Copying'
<1>. DEFINE p == Analyzed[text]
            list == p.subcircuits
            subs == qasm.subcircuits
            c == OperationsCluster(Head(bundles))
            new == [subs EXCEPT ![Len(subs)].clusters = Append(@, c)]
<1>1. /\ phase = "copy" /\ phase' = "copy" /\ text' = text /\ bundles # <<>>
      /\ bundles' = Tail(bundles) /\ left' = left
      /\ qasm' = AddCluster(qasm, c)
  BY DEF CopyBundle
<1>2. /\ qasm.qubit_register = AsInt(p.num_qubits) /\ qasm.error_model = p.error_model
      /\ Begun(list, subs, left, bundles)
  BY <1>1 DEF Copying, Starting
<1>3. /\ qasm'.subcircuits = new /\ qasm'.qubit_register = qasm.qubit_register
      /\ qasm'.error_model = qasm.error_model
  <2>1. DOMAIN qasm = DOMAIN NoRepresentation
    BY DEF IInv, BuiltRepresentation
  <2>2. AddCluster(qasm, c) = [qasm EXCEPT !.subcircuits = new]
    BY DEF AddCluster
  <2>. HIDE DEF new
  <2>3. QED
    BY <1>1, <2>1, <2>2 DEF NoRepresentation
<1>4. IsSequence(subs) /\ subs # <<>> /\ IsSequence(bundles) /\ Built(subs[Len(subs)])
  <2>1. IsSequence(subs) /\ subs # <<>> /\ IsSequence(bundles) /\ \A s \in Range(subs) : Built(s)
    BY DEF IInv, BuiltRepresentation, Pending, ResolvedBundles
  <2>2. Len(subs) \in DOMAIN subs
    BY <2>1, LengthOf
  <2>3. QED
    BY <2>1, <2>2 DEF Range
<1>5. Begun(list, new, left, Tail(bundles))
  BY <1>1, <1>2, <1>4, ContinuesBundles
<1>. HIDE DEF p, new
<1>6. QED
  BY <1>1, <1>2, <1>3, <1>5 DEF Copying, p

LEMMA CopyMappingsCopies ==
  ASSUME IInv, Copying, CopyMappings
  PROVE  Copying'
<1>. DEFINE p == Analyzed[text]
            list == p.subcircuits
<1>1. /\ phase = "copy" /\ phase' = "check" /\ text' = text /\ bundles = <<>> /\ left = <<>>
      /\ bundles' = bundles /\ left' = left /\ qasm' = AddMappings(qasm, References(p))
  BY DEF CopyMappings
<1>2. /\ qasm.qubit_register = AsInt(p.num_qubits) /\ qasm.error_model = p.error_model
      /\ Begun(list, qasm.subcircuits, left, bundles)
  BY <1>1 DEF Copying, Starting, StartsUnnamed
<1>3. /\ qasm'.subcircuits = qasm.subcircuits /\ qasm'.qubit_register = qasm.qubit_register
      /\ qasm'.error_model = qasm.error_model
      /\ qasm'.mappings = AddMappings(qasm', References(p)).mappings
  BY <1>1 DEF AddMappings, IInv, BuiltRepresentation, NoRepresentation
<1>. HIDE DEF p
<1>4. QED
  BY <1>1, <1>2, <1>3 DEF Copying, p

(* The checker holds what has been copied, and all of it once it checks.   *)
LEMMA NextCopies ==
  ASSUME IInv, Copying, [Next]_vars
  PROVE  Copying'
<1>1. ASSUME NEW t \in Texts, ParseString(t) \/ ParseFile(t) PROVE Copying'
  BY <1>1 DEF ParseString, ParseFile, Start, Copying
<1>2. CASE FileNotFound
  BY <1>2 DEF FileNotFound, Copying
<1>3. CASE Refuse \/ Reject \/ Keep
  BY <1>3 DEF Refuse, Reject, Keep, Throw, Return, Copying
<1>4. CASE CopyRegister
  BY <1>4, CopyRegisterCopies
<1>5. CASE CopySubcircuit
  BY <1>5, CopySubcircuitCopies
<1>6. CASE CopyBundle
  BY <1>6, CopyBundleCopies
<1>7. CASE CopyMappings
  BY <1>7, CopyMappingsCopies
<1>8. CASE Crash
  BY <1>8 DEF Crash, Copying
<1>9. CASE UNCHANGED vars
  BY <1>9 DEF Copying, vars
<1>10. QED
  BY <1>1, <1>2, <1>3, <1>4, <1>5, <1>6, <1>7, <1>8, <1>9 DEF Next, Work

(* At every moment of a call, what the checker holds is the part of the    *)
(* program that has been copied, with the clusters of its bundles in their *)
(* order, and left and bundles are the rest of it (handle_parse_result).   *)
THEOREM Invariant == Spec => [](IInv /\ Copying)
<1>1. Init => Copying
  BY DEF Init, Copying
<1>2. IInv /\ Copying /\ [Next]_vars => Copying'
  BY NextCopies
<1>3. QED
  BY <1>1, <1>2, InitInv, NextInv, PTL DEF Spec

-----------------------------------------------------------------------------
(* What is read of the copy of a program there is room for.                *)

(* An instruction of a program without errors, with its index lists as the *)
(* analyzer checked them.                                                  *)
InRegister(list, size) == list \in Seq(Indices) /\ \A i \in Range(list) : i < size

LEMMA ListsInRegister ==
  ASSUME NEW t \in ValidTexts
  PROVE  LET p == Analyzed[t]
         IN  /\ \A m \in References(p) : InRegister(m.value, p.num_qubits)
             /\ \A insn \in Instructions(p) :
                  /\ InRegister(insn.condition, p.num_qubits)
                  /\ \A o \in Range(insn.operands) :
                       /\ o.type \in {"Q", "B"} => InRegister(o.value, p.num_qubits)
                       /\ o.value # Unset
<1>. DEFINE p == Analyzed[t]
<1>1. p.errors = 0 /\ AnalyzedProgram(p) /\ t \in DOMAIN Analyzed
  BY ValidProgram DEF ValidTexts
<1>2. \A insn \in Instructions(p) : \A o \in Range(insn.operands) : o.value # Unset
  BY <1>1, UnsetAssumption
<1>. HIDE DEF p
<1>3. \A list \in IndexLists(p) : InRegister(list, p.num_qubits)
  BY <1>1 DEF AnalyzedProgram, InRegister
<1>4. \A m \in References(p) : m.value \in IndexLists(p)
  BY DEF IndexLists
<1>5. ASSUME NEW insn \in Instructions(p)
      PROVE  insn.condition \in IndexLists(p) /\
             \A o \in Range(insn.operands) : o.type \in {"Q", "B"} => o.value \in IndexLists(p)
  BY DEF IndexLists
<1>6. QED
  BY <1>2, <1>3, <1>4, <1>5 DEF p

LEMMA RoomIsExact ==
  ASSUME NEW t \in ValidTexts, HasRoom(Analyzed[t]), NEW insn \in Instructions(Analyzed[t])
  PROVE  Exact(insn)
<1>. DEFINE p == Analyzed[t]
<1>1. p.num_qubits \in Ints
  BY DEF HasRoom
<1>2. \A list : InRegister(list, p.num_qubits) => ConvertIndices(list) = list
  BY <1>1, IndicesKept DEF InRegister
<1>3. /\ InRegister(insn.condition, p.num_qubits)
      /\ \A o \in Range(insn.operands) :
           /\ o.type \in {"Q", "B"} => InRegister(o.value, p.num_qubits)
           /\ o.value # Unset
  BY ListsInRegister
<1>4. /\ insn.name = "not" => insn.condition = <<>>
      /\ insn.name # "load_state"
      /\ \A o \in Range(insn.operands) : o.type = "i" => o.value \in Ints
  BY DEF HasRoom
<1>. HIDE DEF p
<1>5. \A o \in Range(insn.operands) : ConvertOperand(o) = o.value
  BY <1>2, <1>3 DEF ConvertOperand
<1>6. QED
  BY <1>2, <1>3, <1>4, <1>5 DEF Exact

(* The instructions of a part are instructions of the program.             *)
Within(part, p) ==
  /\ ResolvedBundles(part.bundles)
  /\ part.iterations \in Ints /\ part.iterations >= 1
  /\ \A bundle \in Range(part.bundles) : Range(bundle) \subseteq Instructions(p)

LEMMA PartsWithin ==
  ASSUME NEW t \in ValidTexts, HasRoom(Analyzed[t]),
         NEW i \in DOMAIN Parts(Analyzed[t].subcircuits)
  PROVE  Within(Parts(Analyzed[t].subcircuits)[i], Analyzed[t])
<1>. DEFINE p == Analyzed[t]
            list == p.subcircuits
            part == Parts(list)[i]
<1>1. AnalyzedSubcircuits(list)
  BY ValidProgram
<1>2. \A s \in Range(list) : s.iterations \in Ints
  BY DEF HasRoom
<1>3. \A s \in Range(list) : \A bundle \in Range(s.bundles) : Range(bundle) \subseteq Instructions(p)
  BY DEF Instructions
<1>4. \A j \in DOMAIN list : list[j].iterations \in Nat \ {0}
  BY <1>1 DEF AnalyzedSubcircuits
<1>5. i \in 1 .. Len(Parts(list)) /\ ResolvedBundles(part.bundles)
  BY <1>1, PartsOf
<1>. HIDE DEF p
<1>6. ASSUME i = 1 PROVE Within(part, p)
  <2>1. part = Default(Before(list))
    BY <1>1, <1>6, PartsOf
  <2>2. part.bundles = Before(list) /\ part.iterations = 1
    BY <2>1 DEF Default
  <2>3. \A bundle \in Range(Before(list)) : Range(bundle) \subseteq Instructions(p)
    <3>1. CASE StartsUnnamed(list)
      <4>1. IsSequence(list) /\ list # <<>>
        BY <1>1, <3>1 DEF AnalyzedSubcircuits, StartsUnnamed
      <4>2. 1 \in DOMAIN list
        BY <4>1, LengthOf
      <4>3. list[1] \in Range(list)
        BY <4>2 DEF Range
      <4>4. QED
        BY <1>3, <3>1, <4>3 DEF Before
    <3>2. CASE ~StartsUnnamed(list)
      BY <3>2, EmptyList DEF Before
    <3>3. QED
      BY <3>1, <3>2
  <2>. HIDE DEF part
  <2>4. QED
    BY <1>5, <2>2, <2>3, OneIsInt DEF Within
<1>7. ASSUME i # 1 PROVE Within(part, p)
  <2>1. i \in 2 .. Len(Parts(list))
    BY <1>5, <1>7
  <2>2. PICK j \in DOMAIN list : part = list[j]
    <3>1. i - Extra(list) \in DOMAIN list /\ Parts(list)[i] = list[i - Extra(list)]
      BY <1>1, <2>1, PartsOf
    <3>2. QED
      BY <3>1
  <2>3. part \in Range(list)
    BY <2>2 DEF Range
  <2>4. part.iterations \in Nat \ {0}
    BY <1>4, <2>2
  <2>. HIDE DEF part
  <2>5. part.iterations >= 1
    BY <2>4
  <2>6. QED
    BY <1>2, <1>3, <1>5, <2>3, <2>5 DEF Within
<1>8. QED
  BY <1>6, <1>7 DEF p

LEMMA BundleRead ==
  ASSUME NEW bundle, \A insn \in Range(bundle) : ResolvedInstruction(insn) /\ Exact(insn)
  PROVE  ReadCluster(OperationsCluster(bundle)) = WrittenBundle(bundle)
<1>1. \A g \in DOMAIN bundle : Read(ConvertInstruction(bundle[g])) = Written(bundle[g])
  BY InstructionRead DEF Range
<1>2. QED
  BY <1>1 DEF ReadCluster, OperationsCluster, WrittenBundle

LEMMA PartRead ==
  ASSUME NEW t \in ValidTexts, HasRoom(Analyzed[t]), NEW part, Within(part, Analyzed[t]),
         NEW s, IsSequence(s.clusters), NEW number, Copied(s, part, number, Len(part.bundles))
  PROVE  ReadSubCircuit(s) = WrittenPart(part, number)
<1>1. DOMAIN s.clusters = DOMAIN part.bundles
  <2>1. IsSequence(part.bundles)
    BY DEF Within, ResolvedBundles
  <2>2. Len(s.clusters) = Len(part.bundles)
    BY DEF Copied
  <2>3. QED
    BY <2>1, <2>2, LengthOf
<1>2. ASSUME NEW k \in DOMAIN part.bundles
      PROVE  ReadCluster(s.clusters[k]) = WrittenBundle(part.bundles[k])
  <2>1. part.bundles[k] \in Range(part.bundles) /\ k \in 1 .. Len(part.bundles)
    <3>1. IsSequence(part.bundles)
      BY DEF Within, ResolvedBundles
    <3>2. QED
      BY <3>1, LengthOf DEF Range
  <2>2. s.clusters[k] = OperationsCluster(part.bundles[k])
    BY <2>1 DEF Copied
  <2>3. \A insn \in Range(part.bundles[k]) : ResolvedInstruction(insn) /\ Exact(insn)
    BY <2>1, RoomIsExact DEF Within, ResolvedBundles, ResolvedBundle
  <2>4. QED
    BY <2>2, <2>3, BundleRead
<1>3. s.iterations = part.iterations /\ s.name = part.name /\ s.number = number
  BY IntKept DEF Within, Copied
<1>4. QED
  BY <1>1, <1>2, <1>3 DEF ReadSubCircuit, WrittenPart

(* Everything has been copied when the checker checks.                     *)
LEMMA AllCopied ==
  ASSUME IInv, Copying, phase = "check"
  PROVE  LET parts == Parts(Analyzed[text].subcircuits)
         IN  /\ DOMAIN qasm.subcircuits = DOMAIN parts
             /\ \A i \in DOMAIN parts :
                  /\ Copied(qasm.subcircuits[i], parts[i], i - 1, Len(parts[i].bundles))
                  /\ IsSequence(qasm.subcircuits[i].clusters)
<1>. DEFINE list == Analyzed[text].subcircuits
            parts == Parts(list)
            subs == qasm.subcircuits
<1>1. left = <<>> /\ bundles = <<>> /\ Begun(list, subs, <<>>, <<>>)
  BY DEF Copying
<1>2. AnalyzedSubcircuits(list)
  BY ValidProgram DEF IInv, Serving
<1>3. IsSequence(subs) /\ \A i \in DOMAIN subs : IsSequence(subs[i].clusters)
  BY DEF IInv, BuiltRepresentation, Built, Range
<1>4. /\ Len(parts) \in Nat /\ DOMAIN parts = 1 .. Len(parts)
      /\ \A j \in 1 .. Len(parts) : IsSequence(parts[j].bundles)
  BY <1>2, PartsOf DEF ResolvedBundles
<1>5. PICK k \in Nat, n \in Nat : BegunUpTo(k, n, parts, subs, <<>>, <<>>)
  BY <1>1 DEF Begun
<1>. HIDE DEF parts, subs
<1>6. Len(subs) = k + 1 /\ k + 1 = Len(parts)
  <2>1. Len(<<>>) = 0 /\ k + 1 + 0 = k + 1
    OBVIOUS
  <2>2. Len(subs) = k + 1 /\ k + 1 + Len(<<>>) = Len(parts)
    BY <1>5 DEF BegunUpTo
  <2>3. QED
    BY <2>1, <2>2
<1>7. n = Len(parts[k + 1].bundles)
  <2>1. Len(<<>>) = 0 /\ n + 0 = n
    OBVIOUS
  <2>2. n + Len(<<>>) = Len(parts[k + 1].bundles)
    BY <1>5 DEF BegunUpTo
  <2>3. QED
    BY <2>1, <2>2
<1>8. ASSUME NEW i \in DOMAIN parts PROVE Copied(subs[i], parts[i], i - 1, Len(parts[i].bundles))
  <2>1. CASE i = k + 1
    <3>1. (k + 1) - 1 = k
      OBVIOUS
    <3>2. QED
      BY <1>5, <1>7, <2>1, <3>1 DEF BegunUpTo
  <2>2. CASE i # k + 1
    <3>1. i \in 1 .. k
      BY <1>4, <1>6, <2>2
    <3>2. QED
      BY <1>5, <3>1 DEF BegunUpTo
  <2>3. QED
    BY <2>1, <2>2
<1>9. DOMAIN subs = DOMAIN parts
  BY <1>3, <1>4, <1>6, LengthOf
<1>10. QED
  BY <1>3, <1>8, <1>9 DEF parts, subs

LEMMA CircuitCopied ==
  ASSUME IInv, Copying, phase = "check", HasRoom(Analyzed[text])
  PROVE  Circuit(qasm) = WrittenCircuit(Analyzed[text])
<1>. DEFINE p == Analyzed[text]
            parts == Parts(p.subcircuits)
            subs == qasm.subcircuits
<1>1. text \in ValidTexts
  BY DEF IInv, Serving
<1>2. \A i \in DOMAIN parts : ReadSubCircuit(subs[i]) = WrittenPart(parts[i], i - 1)
  BY <1>1, PartsWithin, PartRead, AllCopied
<1>3. DOMAIN subs = DOMAIN parts
  BY AllCopied
<1>4. qasm.qubit_register = p.num_qubits /\ qasm.error_model = p.error_model
  BY IntKept DEF Copying, HasRoom
<1>5. qasm.mappings = {[name |-> m.name, is_qubit |-> m.type = "Q", indices |-> m.value] : m \in References(p)}
  <2>1. qasm.mappings =
          {[name |-> m.name, is_qubit |-> m.type = "Q", indices |-> ConvertIndices(m.value)] : m \in References(p)}
    <3>1. qasm.mappings = AddMappings(qasm, References(p)).mappings /\ "mappings" \in DOMAIN qasm
      BY DEF Copying, IInv, BuiltRepresentation, NoRepresentation
    <3>. HIDE DEF p
    <3>2. QED
      BY <3>1 DEF AddMappings
  <2>2. \A m \in References(p) : ConvertIndices(m.value) = m.value
    <3>1. \A m \in References(p) : InRegister(m.value, p.num_qubits)
      BY <1>1, ListsInRegister
    <3>2. p.num_qubits \in Ints
      BY DEF HasRoom
    <3>. HIDE DEF p
    <3>3. QED
      BY <3>1, <3>2, IndicesKept DEF InRegister
  <2>. HIDE DEF p
  <2>3. QED
    BY <2>1, <2>2
<1>6. QED
  BY <1>2, <1>3, <1>4, <1>5 DEF Circuit, WrittenCircuit

(* The checks of the old API have nothing against it.                      *)
LEMMA InstructionPasses ==
  ASSUME NEW rep, NEW size \in Nat, rep.qubit_register = size,
         NEW insn, ResolvedInstruction(insn), Exact(insn),
         \A o \in Range(insn.operands) : o.type \in {"Q", "B"} => InRegister(o.value, size)
  PROVE  CheckQubits(rep, ConvertInstruction(insn))
<1>. DEFINE op == ConvertInstruction(insn)
<1>1. \A list \in Range(ListsChecked(op)) :
        \E o \in Range(insn.operands) : o.type = "Q" /\ list = o.value
  BY ConvertedLists DEF Exact
<1>2. op.type = insn.name
  <2>1. Read(op).name = op.type /\ Written(insn).name = insn.name
    BY DEF Read, Written
  <2>2. QED
    BY <2>1, InstructionRead
<1>. HIDE DEF op
<1>3. AsSize(rep.qubit_register) = size
  BY DEF AsSize
<1>4. ASSUME NEW list \in Range(ListsChecked(op)) PROVE list # <<>> /\ Last(list) < size
  <2>1. list \in Seq(Indices) /\ list # <<>> /\ \A i \in Range(list) : i < size
    BY <1>1, ReferencesIndexed DEF IsIndexList, InRegister
  <2>2. Len(list) \in DOMAIN list
    BY <2>1, EmptySeq
  <2>3. Last(list) \in Range(list)
    BY <2>2 DEF Last, Range
  <2>4. QED
    BY <2>1, <2>3
<1>5. SameLengths(op)
  <2>1. SUFFICES ASSUME op.type \in TwoQubitTypes \cup {"toffoli"},
                        NEW l \in Range(ListsChecked(op)), NEW m \in Range(ListsChecked(op))
                 PROVE  Len(l) = Len(m)
    BY DEF SameLengths
  <2>2. insn.name # "measure_parity"
    BY <1>2, <2>1 DEF TwoQubitTypes
  <2>3. \A o, q \in Range(insn.operands) : o.type = "Q" /\ q.type = "Q" => Len(o.value) = Len(q.value)
    BY <2>2 DEF ResolvedInstruction
  <2>4. QED
    BY <1>1, <2>1, <2>3
<1>6. QED
  BY <1>3, <1>4, <1>5 DEF CheckQubits, op

LEMMA ChecksPass ==
  ASSUME IInv, Copying, phase = "check", HasRoom(Analyzed[text])
  PROVE  DoChecks(qasm)
<1>. DEFINE p == Analyzed[text]
            parts == Parts(p.subcircuits)
            subs == qasm.subcircuits
<1>1. text \in ValidTexts
  BY DEF IInv, Serving
<1>2. qasm.qubit_register = p.num_qubits /\ p.num_qubits \in Nat
  BY <1>1, IntKept, ValidProgram DEF Copying, HasRoom
<1>3. ASSUME NEW i \in DOMAIN parts
      PROVE  /\ subs[i].iterations >= 1
             /\ \A c \in Range(subs[i].clusters) : \A op \in Range(c.operations) : CheckQubits(qasm, op)
  <2>. DEFINE part == parts[i]
              s == subs[i]
  <2>1. Within(part, p) /\ Copied(s, part, i - 1, Len(part.bundles)) /\ IsSequence(s.clusters)
    BY <1>1, PartsWithin, AllCopied
  <2>. HIDE DEF part, s
  <2>2. s.iterations >= 1
    BY <2>1, IntKept DEF Within, Copied
  <2>3. ASSUME NEW c \in Range(s.clusters), NEW op \in Range(c.operations)
        PROVE  CheckQubits(qasm, op)
    <3>1. PICK k \in DOMAIN s.clusters : c = s.clusters[k]
      BY DEF Range
    <3>2. k \in 1 .. Len(part.bundles) /\ k \in DOMAIN part.bundles
      <4>1. IsSequence(part.bundles) /\ Len(s.clusters) = Len(part.bundles)
        BY <2>1 DEF Within, ResolvedBundles, Copied
      <4>2. QED
        BY <2>1, <4>1, LengthOf
    <3>. DEFINE bundle == part.bundles[k]
    <3>3. c = OperationsCluster(bundle)
      BY <2>1, <3>1, <3>2 DEF Copied
    <3>4. bundle \in Range(part.bundles)
      BY <3>2 DEF Range
    <3>5. ResolvedBundle(bundle) /\ Range(bundle) \subseteq Instructions(p)
      BY <2>1, <3>4 DEF Within, ResolvedBundles
    <3>. HIDE DEF bundle
    <3>6. PICK g \in DOMAIN bundle : op = ConvertInstruction(bundle[g])
      BY <3>3 DEF OperationsCluster, Range
    <3>7. bundle[g] \in Range(bundle)
      BY DEF Range
    <3>8. /\ ResolvedInstruction(bundle[g]) /\ bundle[g] \in Instructions(p)
      BY <3>5, <3>7 DEF ResolvedBundle
    <3>9. Exact(bundle[g])
      BY <1>1, <3>8, RoomIsExact
    <3>10. \A o \in Range(bundle[g].operands) : o.type \in {"Q", "B"} => InRegister(o.value, p.num_qubits)
      BY <1>1, <3>8, ListsInRegister
    <3>. HIDE DEF p
    <3>11. QED
      BY <1>2, <3>6, <3>8, <3>9, <3>10, InstructionPasses
  <2>4. QED
    BY <2>2, <2>3 DEF s
<1>4. DOMAIN subs = DOMAIN parts
  BY AllCopied
<1>. HIDE DEF parts
<1>5. QED
  BY <1>3, <1>4 DEF DoChecks, Range

-----------------------------------------------------------------------------
(* Each step of the object is a step of its promise, or none.              *)
LEMMA InitPromises == Init => Promise!Init
BY DEF Init, Promise!Init

LEMMA ReturnPromises ==
  ASSUME IInv, Copying, Refuse \/ Reject \/ Keep
  PROVE  Promise!Return
<1>. DEFINE Expressible == Unparsable \cup {t \in DOMAIN Analyzed : t \in ValidTexts => HasRoom(Analyzed[t])}
            circuits == [t \in ValidTexts |-> WrittenCircuit(Analyzed[t])]
<1>1. text # Unset /\ text' = Unset /\ handles' = handles
  BY UnsetAssumption DEF IInv, Serving, Refuse, Reject, Keep, Throw, Return
<1>2. text \in ValidTexts => text \in DOMAIN Analyzed /\ text \notin Unparsable
  BY AnalyzedAssumption DEF ValidTexts
<1>3. CASE Refuse
  <2>1. text \notin ValidTexts
    BY <1>3, NotRefused, UnsetAssumption DEF Refuse, IInv, Serving
  <2>2. thrown' = TRUE /\ qasm_rep' = qasm_rep
    BY <1>3 DEF Refuse, Throw
  <2>3. QED
    BY <1>1, <2>1, <2>2 DEF Promise!Return, Promise!End, Promise!Refuse
<1>4. CASE Reject
  <2>1. text \in ValidTexts /\ ~HasRoom(Analyzed[text])
    BY <1>4, ChecksPass DEF Reject, IInv, Serving
  <2>2. thrown' = TRUE /\ qasm_rep' = qasm_rep
    BY <1>4 DEF Reject, Throw
  <2>3. text \notin Expressible
    BY <1>2, <2>1
  <2>4. QED
    BY <1>1, <2>2, <2>3 DEF Promise!Return, Promise!End, Promise!Refuse
<1>5. CASE Keep
  <2>1. text \in ValidTexts /\ thrown' = FALSE /\ qasm_rep' = qasm
    BY <1>5 DEF Keep, IInv, Serving
  <2>2. text \in Expressible => HasRoom(Analyzed[text])
    BY <1>2, <2>1
  <2>3. text \in Expressible => Circuit(qasm) = WrittenCircuit(Analyzed[text])
    BY <1>5, <2>2, CircuitCopied DEF Keep
  <2>4. text \in Expressible => Circuit(qasm_rep)' = circuits[text]
    BY <2>1, <2>3
  <2>5. QED
    BY <1>1, <2>1, <2>4 DEF Promise!Return, Promise!End, Promise!Accept
<1>6. QED
  BY <1>3, <1>4, <1>5

LEMMA NextPromises ==
  ASSUME IInv, Copying, [Next]_vars
  PROVE  [Promise!Next]_(Promise!vars)
<1>1. ASSUME NEW t \in Texts, ParseString(t) \/ ParseFile(t) PROVE Promise!Call
  <2>1. /\ text = Unset /\ text' = t /\ handles' \in {handles, handles + 1}
        /\ qasm_rep' = qasm_rep /\ thrown' = thrown
    BY <1>1 DEF ParseString, ParseFile, Start, IInv, Serving
  <2>2. QED
    BY <2>1 DEF Promise!Call
<1>2. CASE FileNotFound
  BY <1>2 DEF FileNotFound, Promise!Next, Promise!NotFound, IInv, Serving
<1>3. CASE Refuse \/ Reject \/ Keep
  BY <1>3, ReturnPromises DEF Promise!Next
<1>4. CASE CopyRegister \/ CopySubcircuit \/ CopyBundle \/ CopyMappings
  BY <1>4 DEF CopyRegister, CopySubcircuit, CopyBundle, CopyMappings, Promise!vars
<1>5. CASE Crash
  BY <1>5 DEF Crash, Promise!vars
<1>6. CASE UNCHANGED vars
  BY <1>6 DEF vars, Promise!vars
<1>7. QED
  BY <1>1, <1>2, <1>3, <1>4, <1>5, <1>6 DEF Next, Work, Promise!Next

(* An object keeps its promise: whatever has been analyzed, a call keeps   *)
(* all of the circuit that was written, in its own order, with every       *)
(* operand, condition and mapping, or throws and leaves the object as it   *)
(* was; nothing the old classes have room for is refused after it has been *)
(* analyzed (handle_parse_result, libQasm::parse_string and parse_file).   *)
(* A circuit with a load_state is one they have no room for.  That calls   *)
(* return is left to the model checker.                                    *)
THEOREM SafetyImplemented == Spec => Promise!Safety
<1>1. IInv /\ Copying /\ [Next]_vars => [Promise!Next]_(Promise!vars)
  BY NextPromises
<1>2. QED
  BY <1>1, InitPromises, Invariant, PTL DEF Spec, Promise!Safety
=============================================================================
