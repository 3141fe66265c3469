------------------------------- MODULE V1xNames -------------------------------
(***************************************************************************)
(* What the names of a cQASM 1 program stand for, by the block structure   *)
(* of what was written and by mathematics alone: the reference the names   *)
(* of an analysis are compared with.                                       *)
(***************************************************************************)
EXTENDS V1xAnalyzer

(* The operators // and % are those of the library.                        *)
ASSUME DivisionsAssumption ==
  \A k \in DOMAIN Functions : Functions[k].name \in {"//", "%"} =>
    /\ Functions[k].result = "int"
    /\ Functions[k].params = <<ScalarType("int", FALSE), ScalarType("int", FALSE)>>

-----------------------------------------------------------------------------
(* Division as mathematics has it: rounded down.                           *)
FloorOf(a, b) ==
  CHOOSE q \in -Magnitude(a) .. Magnitude(a) :
    IF b > 0 THEN q * b <= a /\ a < (q + 1) * b ELSE q * b >= a /\ a > (q + 1) * b

Divided(op, x, y) == Const("int", IF op = "//" THEN FloorOf(x, y) ELSE x - y * FloorOf(x, y))

Denotes(m, e) ==
  IF e.node = "call" /\ Lower(e.name) \in {"//", "%"}
  THEN Divided(Lower(e.name), SimpleValue(m, e.args[1]).value, SimpleValue(m, e.args[2]).value)
  ELSE AnalyzeExpression(m, e)

-----------------------------------------------------------------------------
(* The table with the names a statement binds, for the statements behind.  *)
BindMapping(m, s) == [m EXCEPT ![Lower(s.alias)] = Entry(Denotes(m, s.expr), 0)]

(* Of the identifiers that are one name, the last one counts.              *)
LastOf(s, name) == Max({i \in DOMAIN s.names : Lower(s.names[i]) = name})
Variable(s, name) ==
  VariableRef(IdentifierAt(s.at, LastOf(s, name)),
              ScalarType(KindOfVariable[Lower(s.type)], TRUE))
BindVariables(m, s) ==
  [name \in DOMAIN m |-> IF name \in Binds(s) THEN Entry(Variable(s, name), 0) ELSE m[name]]

Bind(m, s) ==
  CASE s.node = "mapping"   -> BindMapping(m, s)
    [] s.node = "variables" -> BindVariables(m, s)
    [] OTHER                -> m

InitialNames ==
  IF root.num_qubits = 0 THEN InitialMappings
  ELSE WithRegisters(InitialMappings, root.num_qubits)

(* The names behind the statements of the global scope.                    *)
NamesBehind(block) ==
  LET names[i \in 0 .. Len(block)] ==
        IF i = 0 THEN InitialNames ELSE Bind(names[i - 1], block[i])
  IN  names[Len(block)]

-----------------------------------------------------------------------------
(* An entry of a table and the value of its name.                          *)
Stands(entry, value) == entry # Absent /\ entry.value = value

(* A mapping of the tree has the value its name has at the end of the      *)
(* written program, which is bound by the block structure alone and        *)
(* computed by mathematics: not what a block, a later variable or folding  *)
(* in machine integers made of it.                                         *)
MappingsHold ==
  phase = "returned" /\ errors = 0 =>
    \A k \in DOMAIN root.mappings :
      Stands(NamesBehind(written[1])[root.mappings[k].name], root.mappings[k].value)
=============================================================================
