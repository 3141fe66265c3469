------------------------------ MODULE V10Library ------------------------------
(***************************************************************************)
(* A libQasm object at work: calls of parse_string and parse_file one      *)
(* after another, each of which fills the representation of a checker of   *)
(* its own, subcircuit by subcircuit and bundle by bundle                  *)
(* (include/v10/libQasm.hpp, qasm_semantic.hpp, qasm_new_to_old.hpp).      *)
(***************************************************************************)
EXTENDS V10Conversion

VARIABLES
  qasm_rep,  \* what getQasmRepresentation of the object returns
  phase,     \* "idle", or what the call does: "parse", "copy", "check";
             \* "crashed" when the program is no more
  text,      \* what is being parsed, or Unset
  qasm,      \* the representation of the checker
  left,      \* subcircuits not copied yet
  bundles,   \* bundles not copied yet of the subcircuit opened last
  thrown,    \* whether the last call ended in an exception
  handles,   \* FILE*s the object has opened
  calls      \* bound counter

vars == <<qasm_rep, phase, text, qasm, left, bundles, thrown, handles, calls>>

Init ==
  /\ qasm_rep = NoRepresentation /\ qasm = NoRepresentation
  /\ phase = "idle" /\ text = Unset /\ left = <<>> /\ bundles = <<>>
  /\ thrown = FALSE /\ handles = 0 /\ calls = 0

(* Both kinds of call make a checker, which is gone when the call returns. *)
Start(t) ==
  /\ phase = "idle" /\ calls < MaxCalls
  /\ phase' = "parse" /\ text' = t /\ calls' = calls + 1
  /\ UNCHANGED <<qasm_rep, qasm, left, bundles, thrown>>

Return ==
  /\ phase' = "idle" /\ text' = Unset /\ left' = <<>> /\ bundles' = <<>>
  /\ qasm' = NoRepresentation
  /\ UNCHANGED <<handles, calls>>

Throw == Return /\ thrown' = TRUE /\ UNCHANGED qasm_rep

ParseString(t) == Start(t) /\ UNCHANGED handles

(* The file is opened here and closed nowhere.                             *)
ParseFile(t) == Start(t) /\ handles' = handles + 1

FileNotFound ==
  /\ phase = "idle" /\ calls < MaxCalls
  /\ thrown' = TRUE /\ calls' = calls + 1
  /\ UNCHANGED <<qasm_rep, phase, text, qasm, left, bundles, handles>>

(* In API version 1.0 no program without errors misses its qubits or has   *)
(* variables: these two are refused all the same.                          *)
Refused ==
  Unparsable \cup {t \in DOMAIN Analyzed : \/ Analyzed[t].errors > 0
                                           \/ Analyzed[t].num_qubits = 0
                                           \/ Analyzed[t].variables}

Refuse == phase = "parse" /\ text \in Refused /\ Throw

(* The second number of the version becomes a single decimal.              *)
VersionNumber(version) ==
  IF Len(version) = 1 THEN <<version[1], 0>>
  ELSE <<version[1], IF version[2] > 9 THEN 9 ELSE version[2]>>

CopyRegister ==
  /\ phase = "parse" /\ text \notin Refused
  /\ phase' = "copy" /\ left' = Analyzed[text].subcircuits
  /\ qasm' = [qasm EXCEPT !.qubit_register = AsInt(Analyzed[text].num_qubits),
                          !.version_number = VersionNumber(Analyzed[text].version),
                          !.error_model    = Analyzed[text].error_model]
  /\ UNCHANGED <<qasm_rep, text, bundles, thrown, handles, calls>>

CopySubcircuit ==
  /\ phase = "copy" /\ bundles = <<>> /\ left # <<>>
  /\ qasm' = IF Head(left).name = "" THEN qasm ELSE AddSubCircuit(qasm, Head(left))
  /\ bundles' = Head(left).bundles /\ left' = Tail(left)
  /\ UNCHANGED <<qasm_rep, phase, text, thrown, handles, calls>>

CopyBundle ==
  /\ phase = "copy" /\ bundles # <<>>
  /\ qasm' = AddCluster(qasm, OperationsCluster(Head(bundles)))
  /\ bundles' = Tail(bundles)
  /\ UNCHANGED <<qasm_rep, phase, text, left, thrown, handles, calls>>

(* Erasing what a file name does not have is undefined: if the call does   *)
(* not go on with whatever is left of the name, the program ends here.     *)
TooShort(insn) == insn.name = "load_state" /\ Len(insn.operands[1].value) < 2

Crash ==
  /\ phase = "copy" /\ bundles # <<>> /\ \E insn \in Range(Head(bundles)) : TooShort(insn)
  /\ phase' = "crashed"
  /\ UNCHANGED <<qasm_rep, text, qasm, left, bundles, thrown, handles, calls>>

CopyMappings ==
  /\ phase = "copy" /\ bundles = <<>> /\ left = <<>>
  /\ qasm' = AddMappings(qasm, References(Analyzed[text]))
  /\ phase' = "check"
  /\ UNCHANGED <<qasm_rep, text, left, bundles, thrown, handles, calls>>

Reject == phase = "check" /\ ~DoChecks(qasm) /\ Throw

Keep ==
  /\ phase = "check" /\ DoChecks(qasm)
  /\ qasm_rep' = qasm /\ thrown' = FALSE /\ Return

Work ==
  Refuse \/ CopyRegister \/ CopySubcircuit \/ CopyBundle \/ CopyMappings \/ Reject \/ Keep

Next ==
  \/ \E t \in Texts : ParseString(t) \/ ParseFile(t)
  \/ FileNotFound
  \/ Crash
  \/ Work

(* A call is ordinary sequential code: it goes on until it returns, unless *)
(* the program crashes.                                                    *)
Spec == Init /\ [][Next]_vars /\ WF_vars(Work)
-----------------------------------------------------------------------------
(* What a user of the old classes reads, and what was written.             *)

(* The getters of an operation: which of them mean something depends on    *)
(* its type.                                                               *)
Targets(op) ==
  CASE op.type = "measure_parity"                       -> op.measure_parity \o op.axes
    [] op.type \in TwoQubitTypes                        -> op.two_qubit_pairs
    [] op.type = "toffoli"                              -> op.toffoli
    [] op.type \in {"display", "display_binary", "not"} -> IF op.all_qubits_bits THEN <<>> ELSE <<op.bits>>
    [] op.type \in {"measure_all", "skip", "load_state"} -> <<>>
    [] OTHER                                            -> IF op.all_qubits_bits THEN <<>> ELSE <<op.qubits>>

Given(n) == IF n = Unset THEN <<>> ELSE <<n>>

Numbers(op) == Given(op.wait_time) \o Given(op.argument)

Controls(op) == IF op.bit_controlled /\ op.type # "not" THEN op.bits ELSE <<>>

Read(op) == [name |-> op.type, targets |-> Targets(op), numbers |-> Numbers(op), controls |-> Controls(op)]

ReadCluster(c) ==
  [gates |-> [g \in DOMAIN c.operations |-> Read(c.operations[g])], together |-> c.parallel]

ReadSubCircuit(s) ==
  [name |-> s.name, times |-> s.iterations, number |-> s.number,
   steps |-> [k \in DOMAIN s.clusters |-> ReadCluster(s.clusters[k])]]

Circuit(rep) ==
  [size |-> rep.qubit_register, mappings |-> rep.mappings, error_model |-> rep.error_model,
   parts |-> [i \in DOMAIN rep.subcircuits |-> ReadSubCircuit(rep.subcircuits[i])]]

(* No signature has more than four parameters.                             *)
ValueAt(insn, i, types) ==
  IF i \in DOMAIN insn.operands /\ insn.operands[i].type \in types
  THEN <<insn.operands[i].value>>
  ELSE <<>>

Values(insn, types) ==
  ValueAt(insn, 1, types) \o ValueAt(insn, 2, types) \o ValueAt(insn, 3, types) \o ValueAt(insn, 4, types)

Written(insn) ==
  [name |-> insn.name, targets |-> Values(insn, {"Q", "B"}) \o Values(insn, {"a"}),
   numbers |-> Values(insn, {"i", "r", "u", "s"}), controls |-> insn.condition]

WrittenBundle(bundle) ==
  [gates |-> [g \in DOMAIN bundle |-> Written(bundle[g])], together |-> Len(bundle) > 1]

WrittenPart(s, number) ==
  [name |-> s.name, times |-> s.iterations, number |-> number,
   steps |-> [k \in DOMAIN s.bundles |-> WrittenBundle(s.bundles[k])]]

(* The part before the first header is there even when nothing is in it.   *)
Default(bundles_before) == [name |-> "default", iterations |-> 1, bundles |-> bundles_before]

StartsUnnamed(list) == list # <<>> /\ list[1].name = ""

Parts(list) ==
  IF StartsUnnamed(list)
  THEN <<Default(list[1].bundles)>> \o Tail(list)
  ELSE <<Default(<<>>)>> \o list

WrittenCircuit(p) ==
  [size |-> p.num_qubits, error_model |-> p.error_model,
   mappings |-> {[name |-> m.name, is_qubit |-> m.type = "Q", indices |-> m.value] : m \in References(p)},
   parts |-> [i \in DOMAIN Parts(p.subcircuits) |-> WrittenPart(Parts(p.subcircuits)[i], i - 1)]]

Ints == -(IntRange \div 2) .. (IntRange \div 2 - 1)

(* The old classes have no room for numbers beyond an int, for a not gate  *)
(* under a condition, both of whose lists go to the control bits, and for  *)
(* the name of a file, which loses its first and last character.           *)
HasRoom(p) ==
  /\ p.num_qubits \in Ints
  /\ \A s \in Range(p.subcircuits) : s.iterations \in Ints
  /\ \A insn \in Instructions(p) :
       /\ insn.name = "not" => insn.condition = <<>>
       /\ insn.name # "load_state"
       /\ \A o \in Range(insn.operands) : o.type = "i" => o.value \in Ints

ValidTexts == {t \in DOMAIN Analyzed : Analyzed[t].errors = 0}

(* All texts but those with a file name that is too short.                 *)
DefinedTexts ==
  Texts \ {t \in ValidTexts : \E insn \in Instructions(Analyzed[t]) : TooShort(insn)}

Promise == INSTANCE V10Contract WITH
  Expressible <- Unparsable \cup {t \in DOMAIN Analyzed : t \in ValidTexts => HasRoom(Analyzed[t])},
  Valid       <- ValidTexts,
  Defined     <- DefinedTexts,
  Circuits    <- [t \in ValidTexts |-> WrittenCircuit(Analyzed[t])],
  Initial     <- Circuit(NoRepresentation),
  NoText      <- Unset,
  circuit     <- Circuit(qasm_rep)

-----------------------------------------------------------------------------

IsRepresentation(rep) ==
  /\ rep.qubit_register \in Ints \cup {Unset}
  /\ rep.subcircuits # <<>>
  /\ \A s \in Range(rep.subcircuits) :
       /\ s.number \in Nat /\ s.iterations \in Ints
       /\ \A c \in Range(s.clusters) : c.operations # <<>> /\ c.parallel \in BOOLEAN

(* The type invariant of the object and of the call it is in.              *)
TypeOK ==
  /\ IsRepresentation(qasm_rep) /\ IsRepresentation(qasm)
  /\ phase \in {"idle", "parse", "copy", "check", "crashed"}
  /\ text \in Texts \cup {Unset} /\ (text = Unset <=> phase = "idle")
  /\ thrown \in BOOLEAN /\ handles \in 0..calls /\ calls \in 0..MaxCalls

(* Which list of an operation checkQubits looks at is decided by its name, *)
(* which list the conversion fills by its parameters: every list it looks  *)
(* at has a last element.                                                  *)
ChecksFindTheirQubits ==
  \A s \in Range(qasm.subcircuits) : \A c \in Range(s.clusters) : \A op \in Range(c.operations) :
    \A list \in Range(ListsChecked(op)) : list # <<>>

(* A call whose behaviour is defined returns, and the object then stands   *)
(* for the whole circuit of the text or, after an exception, for what it   *)
(* stood for before: every gate of every bundle with its operands and its  *)
(* condition, in the subcircuit it was written in and as often as that is  *)
(* run.  Circuits with a load_state are left out: the name of the file is  *)
(* not kept (handle_parse_result; libQasm::parse_string and parse_file).   *)
ImplementsContract == Promise!Spec
=============================================================================
