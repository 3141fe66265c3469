------------------------------ MODULE V3xValues ------------------------------
(***************************************************************************)
(* Types and values of the cQASM 3 semantic analyzer, and the overload     *)
(* resolution built on them: cqasm-types.cpp, cqasm-values.cpp and         *)
(* cqasm-overload.hpp.                                                     *)
(*                                                                         *)
(* A value keeps what the analyzer branches on and what the tree shares:   *)
(* its node class, its type, its number of elements, the variables it      *)
(* links to and the call sites inside it.  The numbers a constant holds    *)
(* are reduced to one fact the analyzer asks for: are they all zero?       *)
(***************************************************************************)
EXTENDS Naturals, Sequences, FiniteSetsExt

ScalarKinds == {"axis", "bool", "int", "float", "complex", "bit", "qubit"}
ArrayKinds  == {"bool_array", "int_array", "float_array", "bit_array", "qubit_array"}
Kinds       == ScalarKinds \cup ArrayKinds

(* A type is a node class and a size.  NoType is the empty Maybe<Type> a   *)
(* function without a return type carries.                                 *)
Type       == [kind : Kinds, size : Nat \ {0}]
NoType     == [kind |-> "none", size |-> 0]
TypeOrNone == Type \cup {NoType}

(* The array type built for a declared element type with a size.           *)
ArrayOf ==
  [k \in {"qubit", "bit", "bool", "int", "float"} |->
     CASE k = "qubit" -> "qubit_array"
       [] k = "bit"   -> "bit_array"
       [] k = "bool"  -> "bool_array"
       [] k = "int"   -> "int_array"
       [] k = "float" -> "float_array"]

ElementOf ==
  [k \in ArrayKinds |->
     CASE k = "qubit_array" -> "qubit"
       [] k = "bit_array"   -> "bit"
       [] k = "bool_array"  -> "bool"
       [] k = "int_array"   -> "int"
       [] k = "float_array" -> "float"]

(* A written type: its keyword, and the literal between brackets if any.   *)
WrittenType == [name : DOMAIN ArrayOf \cup {"axis"}, sized : BOOLEAN, size : Nat]

(* Mutant: the check of the array size is missing.                         *)
AnyType(t) == TRUE

CanBuildType(t) == t.name = "axis" \/ ~t.sized \/ t.size > 0

BuildType(t) ==
  IF t.name = "axis" THEN [kind |-> "axis", size |-> 3]
  ELSE IF t.sized    THEN [kind |-> ArrayOf[t.name], size |-> t.size]
  ELSE                    [kind |-> t.name, size |-> 1]

-----------------------------------------------------------------------------
(* Values.  A call site is <<argument, function>>, argument 0 standing for *)
(* the call itself: an argument is itself a call at most (see Expression   *)
(* in V3xAnalyzer).                                                        *)
AnyValue == [node    : {"const", "variable_ref", "index_ref", "function_call"},
             typ     : TypeOrNone,
             size    : Nat,
             vars    : SUBSET Nat,
             sites   : SUBSET (Nat \X Nat),
             indices : Seq(Nat),
             zero    : BOOLEAN]

(* Only the call of a function without a return type has no type.          *)
Value == {v \in AnyValue : v.typ \in Type \/ v.node = "function_call"}

Const(kind, size, zero) ==
  [node |-> "const", typ |-> [kind |-> kind, size |-> size], size |-> size,
   vars |-> {}, sites |-> {}, indices |-> <<>>, zero |-> zero]

VariableRef(id, type) ==
  [node |-> "variable_ref", typ |-> type, size |-> type.size,
   vars |-> {id}, sites |-> {}, indices |-> <<>>, zero |-> FALSE]

(* One index has the element type; more have the type of the variable,     *)
(* whose size is not the number of indices.                                *)
IndexRef(id, type, indices) ==
  [node    |-> "index_ref",
   typ     |-> IF Len(indices) = 1 THEN [kind |-> ElementOf[type.kind], size |-> 1]
                                   ELSE type,
   size    |-> Len(indices),
   vars    |-> {id}, sites |-> {}, indices |-> indices, zero |-> FALSE]

FunctionCall(id, return_type, args) ==
  [node    |-> "function_call", typ |-> return_type, size |-> return_type.size,
   vars    |-> UNION {args[i].vars : i \in DOMAIN args},
   sites   |-> {<<0, id>>} \cup
               UNION {{<<i, s[2]>> : s \in args[i].sites} : i \in DOMAIN args},
   indices |-> <<>>, zero |-> FALSE]

(* What a variable table holds: a constant, or a reference to one variable. *)
Literal   == {v \in Value : v.node = "const" /\ v.vars = {} /\ v.sites = {}}
Reference == {v \in Value : \E id \in v.vars : v.typ \in Type /\ v = VariableRef(id, v.typ)}

IsVoid(v)      == v.typ = NoType
IsReference(v) == v.node \in {"variable_ref", "index_ref"}

-----------------------------------------------------------------------------
(* The kinds a value of another kind is promoted from.                     *)
PromotesFrom ==
  [k \in Kinds |->
     CASE k = "int"         -> {"bool"}
       [] k = "int_array"   -> {"bool_array"}
       [] k = "float"       -> {"bool", "int"}
       [] k = "float_array" -> {"bool_array", "int_array"}
       [] k = "complex"     -> {"bool", "int", "float"}
       [] k = "axis"        -> {"bool_array", "int_array", "float_array"}
       [] OTHER             -> {}]

(* promote succeeds.  An exact match of kinds ignores the sizes; an index  *)
(* reference is never promoted; an axis takes three elements.              *)
Promotable(v, kind) ==
  \/ v.typ.kind = kind
  \/ /\ v.node # "index_ref"
     /\ v.typ.kind \in PromotesFrom[kind]
     /\ kind = "axis" => v.size = 3

(* What promote returns: a new constant, or the reference or call itself.  *)
(* A constant promoted to an axis becomes an array of floats.              *)
Promoted(v, kind) ==
  IF v.typ.kind = kind \/ v.node # "const" THEN v
  ELSE [v EXCEPT !.typ.kind = IF kind = "axis" THEN "float_array" ELSE kind]

-----------------------------------------------------------------------------
(* Overload resolution.  An overload is a name and the kinds of its        *)
(* parameters; the table of a name is the subsequence with that name.      *)
(* Asking promote for a value without a type dereferences an empty node:   *)
(* tree-gen throws something that is no analysis error, and the whole      *)
(* resolution is abandoned.                                                *)
TryOverload(args, params) ==
  LET bad == {i \in DOMAIN args : IsVoid(args[i]) \/ ~Promotable(args[i], params[i])}
  IN  IF Len(args) # Len(params)    THEN "no_match"
      ELSE IF bad = {}              THEN "match"
      ELSE IF IsVoid(args[Min(bad)]) THEN "escape"
      ELSE                               "no_match"

Candidates(overloads, name, args) ==
  {k \in DOMAIN overloads : /\ overloads[k].name = name
                            /\ TryOverload(args, overloads[k].params) # "no_match"}

(* The overloads are tried from the last one added to the first.           *)
LastCandidate(overloads, name, args) == Max(Candidates(overloads, name, args))

(* "match", "escape", or "error" when the name or the overload is unknown. *)
Resolution(overloads, name, args) ==
  IF Candidates(overloads, name, args) = {} THEN "error"
  ELSE TryOverload(args, overloads[LastCandidate(overloads, name, args)].params)

PromotedArgs(args, params) == [i \in DOMAIN args |-> Promoted(args[i], params[i])]
=============================================================================
