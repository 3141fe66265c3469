------------------------- MODULE V3xAnalyzerProofs -------------------------
(***************************************************************************)
(* Proofs about V3xAnalyzer: type correctness, the absence of recursion,   *)
(* the lexical scoping of links, and that the analyzer implements          *)
(* CallOrder.                                                              *)
(*                                                                         *)
(* None of the safety properties is inductive alone.  A statement links to *)
(* what the scope stack resolved a name to, so LexicalScoping needs        *)
(* TableLinks: a table only refers to the variables of its own scope.      *)
(***************************************************************************)
EXTENDS V3xAnalyzer, SequenceTheorems, WellFoundedInduction, TLAPS

-----------------------------------------------------------------------------
(* Extrema.  Resolution scans overloads and scopes from one end and stops  *)
(* at the first that applies; Min and Max stand for where it stops.        *)

(* The minimum of a set of natural numbers belongs to it.                  *)
LEMMA MinOfNat ==
  ASSUME NEW S, S \subseteq Nat, S # {}
  PROVE  Min(S) \in S /\ \A y \in S : Min(S) <= y
<1>. DEFINE R == OpToRel(<, Nat)
<1>1. PICK x \in S : \A y \in S : ~(<<y, x>> \in R)
  <2>1. IsWellFoundedOn(R, Nat)
    BY NatLessThanWellFounded
  <2>. HIDE DEF R
  <2>. QED
    BY <2>1, WFMin
<1>2. \A y \in S : x <= y
  <2>1. R = {ss \in Nat \X Nat : ss[1] < ss[2]}
    BY DEF OpToRel
  <2>. HIDE DEF R
  <2>. SUFFICES ASSUME NEW y \in S PROVE x <= y
    OBVIOUS
  <2>2. <<y, x>> \notin R
    BY <1>1
  <2>3. x \in Nat /\ y \in Nat
    BY <1>1
  <2>4. ~(y < x)
    BY <2>1, <2>2, <2>3
  <2>. QED
    BY <2>3, <2>4
<1>. QED
  BY <1>2 DEF Min

(* The maximum of a bounded set of natural numbers belongs to it.          *)
LEMMA MaxOfNat ==
  ASSUME NEW n \in Nat, NEW S, S \subseteq 1 .. n, S # {}
  PROVE  Max(S) \in S /\ \A y \in S : y <= Max(S)
<1>. DEFINE T == {m \in Nat : n - m \in S}
<1>1. T \subseteq Nat /\ T # {}
  <2>1. PICK s \in S : TRUE
    OBVIOUS
  <2>2. n - s \in Nat /\ n - (n - s) = s
    BY <2>1
  <2>. QED
    BY <2>1, <2>2
<1>2. Min(T) \in T /\ \A y \in T : Min(T) <= y
  BY <1>1, MinOfNat
<1>3. n - Min(T) \in S
  BY <1>2
<1>4. \A y \in S : y <= n - Min(T)
  <2>1. ASSUME NEW y \in S
        PROVE  y <= n - Min(T)
    <3>1. n - y \in Nat /\ n - (n - y) = y
      BY <2>1
    <3>2. Min(T) <= n - y
      BY <1>2, <3>1
    <3>. QED
      BY <1>2, <3>2, <2>1
  <2>. QED
    BY <2>1
<1>. HIDE DEF T
<1>. QED
  BY <1>3, <1>4 DEF Max
-----------------------------------------------------------------------------
(* Types and values.                                                       *)

(* A declared type that passes the check of its size is a type.            *)
LEMMA BuildTypeIsType ==
  ASSUME NEW t \in WrittenType, CanBuildType(t)
  PROVE  BuildType(t) \in Type
BY DEF WrittenType, CanBuildType, BuildType, Type, ArrayOf, Kinds, ScalarKinds, ArrayKinds

(* A reference to a variable is a value, and keeps the form Reference has. *)
LEMMA VariableRefIsReference ==
  ASSUME NEW id \in Nat, NEW t \in Type
  PROVE  VariableRef(id, t) \in Reference
<1>1. VariableRef(id, t) \in Value
  BY DEF VariableRef, Value, AnyValue, Type, TypeOrNone
<1>2. id \in VariableRef(id, t).vars /\ VariableRef(id, t).typ = t
  BY DEF VariableRef
<1>. QED
  BY <1>1, <1>2 DEF Reference

(* The parts of a reference.                                               *)
LEMMA ReferenceParts ==
  ASSUME NEW v \in Reference
  PROVE  /\ v \in Value
         /\ v.node = "variable_ref"
         /\ v.typ \in Type
         /\ v.sites = {}
         /\ \E id \in Nat : v.vars = {id}
<1>1. PICK id \in v.vars : v.typ \in Type /\ v = VariableRef(id, v.typ)
  BY DEF Reference
<1>2. v \in Value
  BY DEF Reference
<1>3. v.node = "variable_ref" /\ v.sites = {} /\ v.vars = {id}
  BY <1>1 DEF VariableRef
<1>4. id \in Nat
  BY <1>2, <1>3 DEF Value, AnyValue
<1>. QED
  BY <1>1, <1>2, <1>3, <1>4

(* A reference to elements of an array is a value.                         *)
LEMMA IndexRefIsValue ==
  ASSUME NEW id \in Nat, NEW t \in Type, t.kind \in {"qubit_array", "bit_array"},
         NEW indices \in Seq(Nat)
  PROVE  IndexRef(id, t, indices) \in Value
<1>1. ElementOf[t.kind] \in Kinds
  BY DEF ElementOf, Kinds, ScalarKinds, ArrayKinds
<1>2. (IF Len(indices) = 1 THEN [kind |-> ElementOf[t.kind], size |-> 1] ELSE t) \in Type
  BY <1>1 DEF Type
<1>. QED
  BY <1>2 DEF IndexRef, Value, AnyValue, TypeOrNone

(* A function call is a value when its arguments are.                      *)
LEMMA FunctionCallIsValue ==
  ASSUME NEW id \in Nat, NEW t \in TypeOrNone, NEW args \in Seq(Value)
  PROVE  FunctionCall(id, t, args) \in Value
<1>1. \A i \in DOMAIN args : i \in Nat /\ args[i].vars \subseteq Nat
                             /\ args[i].sites \subseteq Nat \X Nat
  <2>1. \A i \in DOMAIN args : i \in Nat /\ args[i] \in Value
    OBVIOUS
  <2>2. \A v \in Value : v.vars \subseteq Nat /\ v.sites \subseteq Nat \X Nat
    BY DEF Value, AnyValue
  <2>. QED
    BY <2>1, <2>2
<1>2. UNION {args[i].vars : i \in DOMAIN args} \subseteq Nat
  BY <1>1
<1>3. UNION {{<<i, s[2]>> : s \in args[i].sites} : i \in DOMAIN args} \subseteq Nat \X Nat
  BY <1>1
<1>4. ({<<0, id>>} \cup UNION {{<<i, s[2]>> : s \in args[i].sites} : i \in DOMAIN args})
        \subseteq Nat \X Nat
  BY <1>3
<1>5. t.size \in Nat
  BY DEF TypeOrNone, Type, NoType
<1>. QED
  BY <1>2, <1>4, <1>5 DEF FunctionCall, Value, AnyValue

(* The constant a C++ implementation returns is a literal.                 *)
LEMMA ConstIsLiteral ==
  ASSUME NEW kind \in Kinds, NEW size \in Nat \ {0}, NEW zero \in BOOLEAN
  PROVE  Const(kind, size, zero) \in Literal
BY DEF Const, Literal, Value, AnyValue, TypeOrNone, Type

(* Promotion changes the kind of a constant and nothing else; in           *)
(* particular the links and call sites of a value survive it.              *)
LEMMA PromotedIsValue ==
  ASSUME NEW v \in Value, NEW kind \in Kinds, Promotable(v, kind)
  PROVE  /\ Promoted(v, kind) \in Value
         /\ Promoted(v, kind).vars = v.vars
         /\ Promoted(v, kind).sites = v.sites
         /\ Promoted(v, kind).indices = v.indices
<1>1. CASE v.typ.kind = kind \/ v.node # "const"
  BY <1>1 DEF Promoted
<1>2. CASE ~(v.typ.kind = kind \/ v.node # "const")
  <2>. DEFINE k == IF kind = "axis" THEN "float_array" ELSE kind
              t == [v.typ EXCEPT !.kind = k]
  <2>1. v.typ \in Type
    BY <1>2 DEF Value
  <2>2. k \in Kinds
    BY DEF Kinds, ArrayKinds
  <2>3. t \in Type /\ t \in TypeOrNone
    BY <2>1, <2>2 DEF Type, TypeOrNone
  <2>4. Promoted(v, kind) = [v EXCEPT !.typ = t]
    BY <1>2 DEF Promoted
  <2>. HIDE DEF t
  <2>. QED
    BY <2>3, <2>4 DEF Value, AnyValue
<1>. QED
  BY <1>1, <1>2

-----------------------------------------------------------------------------
(* Resolution.                                                             *)

(* The arguments of the overload that is found match it one by one.        *)
LEMMA ResolutionMatches ==
  ASSUME NEW overloads, NEW n \in Nat, DOMAIN overloads = 1 .. n, NEW name,
         NEW args, NEW m \in Nat, DOMAIN args = 1 .. m,
         Resolution(overloads, name, args) = "match"
  PROVE  LET k == LastCandidate(overloads, name, args)
         IN  /\ k \in 1 .. n
             /\ Len(args) = Len(overloads[k].params)
             /\ \A i \in DOMAIN args : /\ ~IsVoid(args[i])
                                       /\ Promotable(args[i], overloads[k].params[i])
<1>. DEFINE k == LastCandidate(overloads, name, args)
            params == overloads[k].params
            bad == {i \in DOMAIN args : IsVoid(args[i]) \/ ~Promotable(args[i], params[i])}
<1>1. Candidates(overloads, name, args) # {}
  BY DEF Resolution
<1>2. Candidates(overloads, name, args) \subseteq 1 .. n
  BY DEF Candidates
<1>3. k \in 1 .. n
  BY <1>1, <1>2, MaxOfNat DEF LastCandidate
<1>4. TryOverload(args, params) = "match"
  BY <1>1 DEF Resolution
<1>5. Len(args) = Len(params) /\ bad = {}
  BY <1>4 DEF TryOverload
<1>. QED
  BY <1>3, <1>5

(* The promoted arguments are values again.                                *)
LEMMA PromotedArgsAreValues ==
  ASSUME NEW args \in Seq(Value), NEW params \in Seq(Kinds), Len(args) = Len(params),
         \A i \in DOMAIN args : Promotable(args[i], params[i])
  PROVE  /\ PromotedArgs(args, params) \in Seq(Value)
         /\ DOMAIN PromotedArgs(args, params) = DOMAIN args
         /\ \A i \in DOMAIN args : /\ PromotedArgs(args, params)[i].vars = args[i].vars
                                   /\ PromotedArgs(args, params)[i].sites = args[i].sites
<1>1. \A i \in DOMAIN args : args[i] \in Value /\ params[i] \in Kinds
  OBVIOUS
<1>2. \A i \in DOMAIN args : /\ Promoted(args[i], params[i]) \in Value
                             /\ Promoted(args[i], params[i]).vars = args[i].vars
                             /\ Promoted(args[i], params[i]).sites = args[i].sites
  BY <1>1, PromotedIsValue
<1>3. DOMAIN args = 1 .. Len(args) /\ Len(args) \in Nat
  OBVIOUS
<1>. QED
  BY <1>2, <1>3 DEF PromotedArgs

-----------------------------------------------------------------------------
TableLinks ==
  \A d \in DOMAIN scope_stack : \A n \in Names :
    LET v == scope_stack[d].variable_table[n]
    IN  v # Absent => v.vars \subseteq Range(scope_stack[d].variables)

(* The variables of a scope have been made.                                *)
KnownVariables ==
  \A d \in DOMAIN scope_stack : Range(scope_stack[d].variables) \subseteq DOMAIN vars

IInv == TypeOK /\ KnownVariables /\ TableLinks /\ LexicalScoping /\ NoRecursion

(* A value that a statement of the current scope may hold.                 *)
Linked(v) == /\ v.vars \subseteq VariablesUpTo(Len(scope_stack))
             /\ \A s \in v.sites : s[2] \in DOMAIN functions

-----------------------------------------------------------------------------
(* Evaluating an expression.                                               *)

(* Only when no operand fails is there no first failure.                   *)
LEMMA FirstFailureValue ==
  ASSUME NEW outcomes, NEW n \in Nat, DOMAIN outcomes = 1 .. n,
         FirstFailure(outcomes) = "value"
  PROVE  \A i \in 1 .. n : outcomes[i] = "value"
<1>. DEFINE failing == {i \in DOMAIN outcomes : outcomes[i] # "value"}
<1>1. CASE failing = {}
  BY <1>1
<1>2. CASE failing # {}
  <2>1. failing \subseteq Nat
    OBVIOUS
  <2>2. Min(failing) \in failing
    BY <1>2, <2>1, MinOfNat
  <2>3. outcomes[Min(failing)] = "value"
    BY <1>2 DEF FirstFailure
  <2>. QED
    BY <2>2, <2>3
<1>. QED
  BY <1>1, <1>2

(* The scope stack is never empty, and holds scopes.                       *)
LEMMA StackOfScopes ==
  ASSUME TypeOK
  PROVE  /\ Len(scope_stack) \in Nat \ {0}
         /\ DOMAIN scope_stack = 1 .. Len(scope_stack)
         /\ \A d \in DOMAIN scope_stack : scope_stack[d] \in Scope
         /\ Current \in Scope
BY DEF TypeOK, Current

(* What a name stands for links to a variable of some scope on the stack.  *)
LEMMA LookupTyped ==
  ASSUME TypeOK, TableLinks, NEW name \in Names, Visible(name)
  PROVE  /\ Lookup(name) \in Literal \cup Reference
         /\ Lookup(name) \in Value
         /\ Linked(Lookup(name))
<1>. DEFINE d == Max(Declaring(name))
            v == Lookup(name)
<1>1. Declaring(name) \subseteq 1 .. Len(scope_stack)
  BY StackOfScopes DEF Declaring
<1>2. d \in Declaring(name)
  BY <1>1, StackOfScopes, MaxOfNat DEF Visible
<1>3. d \in 1 .. Len(scope_stack) /\ scope_stack[d].variable_table[name] # Absent
  BY <1>1, <1>2 DEF Declaring
<1>4. v = scope_stack[d].variable_table[name]
  BY DEF Lookup
<1>. HIDE DEF d, v
<1>5. scope_stack[d] \in Scope
  BY <1>3, StackOfScopes
<1>6. v \in Literal \cup Reference \cup {Absent}
  BY <1>4, <1>5 DEF Scope
<1>7. v \in Literal \cup Reference
  BY <1>3, <1>4, <1>6
<1>8. v \in Value /\ v.sites = {}
  BY <1>7, ReferenceParts DEF Literal
<1>9. v.vars \subseteq Range(scope_stack[d].variables)
  BY <1>3, <1>4, StackOfScopes DEF TableLinks
<1>10. v.vars \subseteq VariablesUpTo(Len(scope_stack))
  BY <1>3, <1>9 DEF VariablesUpTo
<1>. QED
  BY <1>7, <1>8, <1>10 DEF Linked, v

(* The constants are what their declarations say.                          *)
LEMMA LibraryTyped ==
  /\ \A k \in DOMAIN FunctionImpls : FunctionImpls[k].result \in Kinds
  /\ \A k \in DOMAIN Instructions : Instructions[k].params \in Seq(Kinds)
<1>. DEFINE Impl   == [name : Names, params : Seq(Kinds), result : Kinds]
            Instr  == [name : STRING, params : Seq(Kinds)]
<1>1. FunctionImpls \in Seq(Impl) /\ Instructions \in Seq(Instr)
  BY ConstantsAssumption DEF ConstantsAssumption
<1>. HIDE DEF Impl, Instr
<1>2. /\ \A k \in DOMAIN FunctionImpls : FunctionImpls[k] \in Impl
      /\ \A k \in DOMAIN Instructions : Instructions[k] \in Instr
  BY <1>1
<1>. QED
  BY <1>2 DEF Impl, Instr

(* A registered function has the shape of one.                             *)
LEMMA FunctionTyped ==
  ASSUME TypeOK, NEW k \in DOMAIN functions
  PROVE  /\ functions[k] \in Function
         /\ functions[k].params \in Seq(Kinds)
         /\ functions[k].return_type \in TypeOrNone
         /\ k \in Nat
<1>1. functions[k] \in Function /\ k \in Nat
  BY DEF TypeOK
<1>. QED
  BY <1>1 DEF Function

(* A call of a function links to what its arguments link to, and names a   *)
(* registered function.                                                    *)
LEMMA FunctionCallLinked ==
  ASSUME NEW k \in DOMAIN functions, NEW t, NEW args,
         \A i \in DOMAIN args : Linked(args[i])
  PROVE  Linked(FunctionCall(k, t, args))
<1>. DEFINE v == FunctionCall(k, t, args)
<1>1. v.vars = UNION {args[i].vars : i \in DOMAIN args}
  BY DEF FunctionCall
<1>2. v.vars \subseteq VariablesUpTo(Len(scope_stack))
  BY <1>1 DEF Linked
<1>3. v.sites = {<<0, k>>} \cup UNION {{<<i, s[2]>> : s \in args[i].sites} : i \in DOMAIN args}
  BY DEF FunctionCall
<1>4. \A s \in v.sites : s[2] \in DOMAIN functions
  <2>1. SUFFICES ASSUME NEW s \in v.sites PROVE s[2] \in DOMAIN functions
    OBVIOUS
  <2>2. CASE s = <<0, k>>
    BY <2>2
  <2>3. CASE s # <<0, k>>
    <3>1. PICK i \in DOMAIN args : \E r \in args[i].sites : s = <<i, r[2]>>
      BY <1>3, <2>1, <2>3
    <3>2. PICK r \in args[i].sites : s = <<i, r[2]>>
      BY <3>1
    <3>3. r[2] \in DOMAIN functions
      BY <3>2 DEF Linked
    <3>. QED
      BY <3>2, <3>3
  <2>. QED
    BY <2>2, <2>3
<1>. HIDE DEF v
<1>. QED
  BY <1>2, <1>4 DEF Linked, v

(* The value of a call that resolves.                                      *)
LEMMA CallValueTyped ==
  ASSUME TypeOK, NEW name, NEW args \in Seq(Value),
         \A i \in DOMAIN args : Linked(args[i]),
         CallOutcome(name, args) = "value"
  PROVE  CallValue(name, args) \in Value /\ Linked(CallValue(name, args))
<1>. DEFINE m == Len(args)
<1>0. m \in Nat /\ DOMAIN args = 1 .. m
  OBVIOUS
<1>1. CASE ImplApplies(name, args)
  <2>. DEFINE k == LastCandidate(FunctionImpls, name, args)
  <2>1. Len(FunctionImpls) \in Nat /\ DOMAIN FunctionImpls = 1 .. Len(FunctionImpls)
    BY ConstantsAssumption DEF ConstantsAssumption
  <2>2. k \in DOMAIN FunctionImpls
    BY <1>0, <1>1, <2>1, ResolutionMatches DEF ImplApplies
  <2>3. FunctionImpls[k].result \in Kinds
    BY <2>2, LibraryTyped
  <2>4. CallValue(name, args) = Const(FunctionImpls[k].result, 1, FALSE)
    BY <1>1 DEF CallValue
  <2>5. Const(FunctionImpls[k].result, 1, FALSE) \in Literal
    <3>1. 1 \in Nat \ {0} /\ FALSE \in BOOLEAN
      OBVIOUS
    <3>. QED
      BY <2>3, <3>1, ConstIsLiteral
  <2>. QED
    BY <2>4, <2>5 DEF Literal, Linked
<1>2. CASE ~ImplApplies(name, args)
  <2>. DEFINE k == LastCandidate(functions, name, args)
              f == functions[k]
              promoted == PromotedArgs(args, f.params)
  <2>1. Resolution(functions, name, args) = "match"
    BY <1>2 DEF CallOutcome, FunctionTable, Resolution, TryOverload
  <2>2. Len(functions) \in Nat /\ DOMAIN functions = 1 .. Len(functions)
    BY DEF TypeOK
  <2>3. /\ k \in DOMAIN functions
        /\ Len(args) = Len(f.params)
        /\ \A i \in DOMAIN args : Promotable(args[i], f.params[i])
    BY <1>0, <2>1, <2>2, ResolutionMatches
  <2>4. f.params \in Seq(Kinds) /\ f.return_type \in TypeOrNone /\ k \in Nat
    BY <2>3, FunctionTyped
  <2>5. /\ promoted \in Seq(Value)
        /\ DOMAIN promoted = DOMAIN args
        /\ \A i \in DOMAIN args : promoted[i].vars = args[i].vars /\ promoted[i].sites = args[i].sites
    BY <2>3, <2>4, PromotedArgsAreValues
  <2>6. \A i \in DOMAIN promoted : Linked(promoted[i])
    BY <2>5 DEF Linked
  <2>7. CallValue(name, args) = FunctionCall(k, f.return_type, promoted)
    BY <1>2 DEF CallValue, FunctionTable
  <2>. HIDE DEF k, f, promoted
  <2>8. FunctionCall(k, f.return_type, promoted) \in Value
    BY <2>4, <2>5, FunctionCallIsValue
  <2>9. Linked(FunctionCall(k, f.return_type, promoted))
    BY <2>3, <2>6, FunctionCallLinked
  <2>. QED
    BY <2>7, <2>8, <2>9
<1>. QED
  BY <1>1, <1>2

(* An index that is in range has a value.                                  *)
LEMMA IndexTyped ==
  ASSUME TypeOK, TableLinks, NEW e \in SimpleExpression, e.node = "index",
         IndexOutcome(e) = "value"
  PROVE  SimpleValue(e) \in Value /\ Linked(SimpleValue(e))
<1>. DEFINE v == Lookup(e.name)
            id == CHOOSE id \in v.vars : TRUE
<1>1. e.name \in Names /\ e.indices \in Seq(Nat)
  BY DEF SimpleExpression
<1>2. Visible(e.name) /\ v.node = "variable_ref" /\ v.typ.kind \in {"qubit_array", "bit_array"}
  BY DEF IndexOutcome
<1>3. v \in Literal \cup Reference /\ Linked(v)
  BY <1>1, <1>2, LookupTyped
<1>4. v \in Reference
  BY <1>2, <1>3 DEF Literal
<1>5. v.typ \in Type /\ \E i \in Nat : v.vars = {i}
  BY <1>4, ReferenceParts
<1>6. id \in v.vars /\ id \in Nat
  BY <1>5
<1>7. SimpleValue(e) = IndexRef(id, v.typ, e.indices)
  BY DEF SimpleValue
<1>. HIDE DEF v, id
<1>8. IndexRef(id, v.typ, e.indices) \in Value
  BY <1>1, <1>2, <1>5, <1>6, IndexRefIsValue
<1>9. Linked(IndexRef(id, v.typ, e.indices))
  BY <1>3, <1>6 DEF Linked, IndexRef
<1>. QED
  BY <1>7, <1>8, <1>9

(* The value of an expression without calls inside its arguments.          *)
LEMMA SimpleValueTyped ==
  ASSUME TypeOK, TableLinks, NEW e \in SimpleExpression, SimpleOutcome(e) = "value"
  PROVE  SimpleValue(e) \in Value /\ Linked(SimpleValue(e))
<1>1. CASE e.node = "literal"
  <2>1. e.value \in Literal
    BY <1>1 DEF SimpleExpression
  <2>2. SimpleValue(e) = e.value
    BY <1>1 DEF SimpleValue
  <2>. QED
    BY <2>1, <2>2 DEF Literal, Linked
<1>2. CASE e.node = "identifier"
  <2>1. e.name \in Names /\ Visible(e.name)
    BY <1>2 DEF SimpleExpression, SimpleOutcome
  <2>2. SimpleValue(e) = Lookup(e.name)
    BY <1>2 DEF SimpleValue
  <2>. QED
    BY <2>1, <2>2, LookupTyped
<1>3. CASE e.node = "index"
  <2>1. IndexOutcome(e) = "value"
    BY <1>3 DEF SimpleOutcome
  <2>. QED
    BY <1>3, <2>1, IndexTyped
<1>4. CASE e.node = "call"
  <2>1. CallOutcome(e.name, <<>>) = "value"
    BY <1>4 DEF SimpleOutcome
  <2>2. SimpleValue(e) = CallValue(e.name, <<>>)
    BY <1>4 DEF SimpleValue
  <2>3. <<>> \in Seq(Value) /\ \A i \in DOMAIN <<>> : Linked(<<>>[i])
    OBVIOUS
  <2>. QED
    BY <2>1, <2>2, <2>3, CallValueTyped
<1>. QED
  BY <1>1, <1>2, <1>3, <1>4 DEF SimpleExpression

(* The value of any expression.                                            *)
LEMMA ValueTyped ==
  ASSUME TypeOK, TableLinks, NEW e \in Expression, Outcome(e) = "value"
  PROVE  ValueOf(e) \in Value /\ Linked(ValueOf(e))
<1>1. CASE e.node # "call"
  <2>1. e \in SimpleExpression
    BY <1>1 DEF Expression
  <2>2. SimpleOutcome(e) = "value" /\ ValueOf(e) = SimpleValue(e)
    BY <1>1 DEF Outcome, ValueOf
  <2>. QED
    BY <2>1, <2>2, SimpleValueTyped
<1>2. CASE e.node = "call"
  <2>. DEFINE n == Len(e.args)
              outcomes == [i \in DOMAIN e.args |-> SimpleOutcome(e.args[i])]
              args == ArgValues(e)
  <2>1. e.args \in Seq(SimpleExpression)
    <3>1. CASE e \in SimpleExpression
      <4>1. e.args = <<>>
        BY <1>2, <3>1 DEF SimpleExpression
      <4>. QED
        BY <4>1
    <3>2. CASE e \notin SimpleExpression
      BY <3>2 DEF Expression
    <3>. QED
      BY <3>1, <3>2
  <2>2. n \in Nat /\ DOMAIN e.args = 1 .. n /\ \A i \in 1 .. n : e.args[i] \in SimpleExpression
    BY <2>1
  <2>3. FirstFailure(outcomes) = "value" /\ CallOutcome(e.name, args) = "value"
    BY <1>2 DEF Outcome
  <2>4. \A i \in 1 .. n : SimpleOutcome(e.args[i]) = "value"
    <3>1. DOMAIN outcomes = 1 .. n
      BY <2>2
    <3>. HIDE DEF outcomes
    <3>2. \A i \in 1 .. n : outcomes[i] = "value"
      BY <2>2, <2>3, <3>1, FirstFailureValue
    <3>. QED
      BY <2>2, <3>2 DEF outcomes
  <2>5. \A i \in 1 .. n : SimpleValue(e.args[i]) \in Value /\ Linked(SimpleValue(e.args[i]))
    BY <2>2, <2>4, SimpleValueTyped
  <2>6. args = [i \in 1 .. n |-> SimpleValue(e.args[i])]
    BY <2>2 DEF ArgValues
  <2>7. args \in Seq(Value) /\ \A i \in DOMAIN args : Linked(args[i])
    BY <2>2, <2>5, <2>6
  <2>8. ValueOf(e) = CallValue(e.name, args)
    BY <1>2 DEF ValueOf
  <2>. QED
    BY <2>3, <2>7, <2>8, CallValueTyped
<1>. QED
  BY <1>1, <1>2

(* The operands of a statement, once all of them are visited.              *)
LEMMA OperandsTyped ==
  ASSUME TypeOK, TableLinks, NEW es \in Seq(Expression), OperandsOutcome(es) = "value"
  PROVE  /\ OperandValues(es) \in Seq(Value)
         /\ DOMAIN OperandValues(es) = DOMAIN es
         /\ \A i \in DOMAIN es : Linked(OperandValues(es)[i])
<1>. DEFINE n == Len(es)
            outcomes == [i \in DOMAIN es |-> Outcome(es[i])]
<1>1. n \in Nat /\ DOMAIN es = 1 .. n /\ \A i \in 1 .. n : es[i] \in Expression
  OBVIOUS
<1>2. \A i \in 1 .. n : Outcome(es[i]) = "value"
  <2>1. DOMAIN outcomes = 1 .. n /\ FirstFailure(outcomes) = "value"
    BY <1>1 DEF OperandsOutcome
  <2>. HIDE DEF outcomes
  <2>2. \A i \in 1 .. n : outcomes[i] = "value"
    BY <1>1, <2>1, FirstFailureValue
  <2>. QED
    BY <1>1, <2>2 DEF outcomes
<1>3. \A i \in 1 .. n : ValueOf(es[i]) \in Value /\ Linked(ValueOf(es[i]))
  BY <1>1, <1>2, ValueTyped
<1>4. OperandValues(es) = [i \in 1 .. n |-> ValueOf(es[i])]
  BY <1>1 DEF OperandValues
<1>. QED
  BY <1>1, <1>3, <1>4

-----------------------------------------------------------------------------
(* Blocks: where the statements of a block may link to, and what they may  *)
(* call.                                                                   *)
ValueWithin(v, ids, ks) == v.vars \subseteq ids /\ \A s \in v.sites : s[2] \in ks

Within(block, ids, ks) ==
  \A i \in DOMAIN block : \A j \in DOMAIN block[i].operands :
    ValueWithin(block[i].operands[j], ids, ks)

(* Links and Callees collect what Within says of one operand at a time.    *)
LEMMA BlockWithin ==
  ASSUME NEW block, NEW ids, NEW ks
  PROVE  Within(block, ids, ks) <=> Links(block) \subseteq ids /\ Callees(block) \subseteq ks
<1>1. (\A i \in DOMAIN block : \A j \in DOMAIN block[i].operands :
         block[i].operands[j].vars \subseteq ids)
      <=> Links(block) \subseteq ids
  BY DEF Links
<1>2. (\A i \in DOMAIN block : \A j \in DOMAIN block[i].operands :
         \A s \in block[i].operands[j].sites : s[2] \in ks)
      <=> Callees(block) \subseteq ks
  <2>1. ASSUME \A i \in DOMAIN block : \A j \in DOMAIN block[i].operands :
                 \A s \in block[i].operands[j].sites : s[2] \in ks,
               NEW k \in Callees(block)
        PROVE  k \in ks
    <3>1. PICK c \in Calls(block) : k = c[4]
      BY DEF Callees
    <3>2. PICK i \in DOMAIN block : \E j \in DOMAIN block[i].operands :
            \E s \in block[i].operands[j].sites : c = <<i, j, s[1], s[2]>>
      BY DEF Calls
    <3>. QED
      BY <2>1, <3>1, <3>2
  <2>2. ASSUME Callees(block) \subseteq ks, NEW i \in DOMAIN block,
               NEW j \in DOMAIN block[i].operands, NEW s \in block[i].operands[j].sites
        PROVE  s[2] \in ks
    <3>1. <<i, j, s[1], s[2]>> \in Calls(block)
      BY DEF Calls
    <3>2. <<i, j, s[1], s[2]>>[4] \in Callees(block)
      BY <3>1 DEF Callees
    <3>. QED
      BY <2>2, <3>2
  <2>. QED
    BY <2>1, <2>2
<1>. QED
  BY <1>1, <1>2 DEF Within, ValueWithin

(* Larger sets of variables and functions hold what smaller ones did.      *)
LEMMA WithinMore ==
  ASSUME NEW block, NEW ids, NEW ks, Within(block, ids, ks),
         NEW more, ids \subseteq more, NEW others, ks \subseteq others
  PROVE  Within(block, more, others)
BY DEF Within, ValueWithin

(* A statement added to a block.                                           *)
LEMMA WithinAppend ==
  ASSUME NEW block \in Seq(Statement), NEW ids, NEW ks, Within(block, ids, ks),
         NEW node \in {"initialization", "assignment", "return", "call", "instruction"},
         NEW operands \in Seq(Value), node = "return" => Len(operands) = 1,
         \A j \in DOMAIN operands : ValueWithin(operands[j], ids, ks)
  PROVE  /\ Append(block, [node |-> node, operands |-> operands]) \in Seq(Statement)
         /\ Within(Append(block, [node |-> node, operands |-> operands]), ids, ks)
<1>. DEFINE statement == [node |-> node, operands |-> operands]
            longer == Append(block, statement)
<1>1. statement \in Statement /\ statement.operands = operands
  BY DEF Statement
<1>. HIDE DEF statement
<1>2. longer \in Seq(Statement)
  BY <1>1
<1>3. /\ DOMAIN longer = 1 .. Len(block) + 1
      /\ \A i \in DOMAIN block : longer[i] = block[i]
      /\ longer[Len(block) + 1] = statement
      /\ DOMAIN block = 1 .. Len(block) /\ Len(block) \in Nat
  BY <1>1
<1>. HIDE DEF longer
<1>4. ASSUME NEW i \in DOMAIN longer, NEW j \in DOMAIN longer[i].operands
      PROVE  ValueWithin(longer[i].operands[j], ids, ks)
  <2>1. CASE i \in DOMAIN block
    BY <1>3, <1>4, <2>1 DEF Within
  <2>2. CASE i = Len(block) + 1
    BY <1>1, <1>3, <1>4, <2>2
  <2>. QED
    BY <1>3, <2>1, <2>2
<1>. QED
  BY <1>2, <1>4 DEF Within, longer, statement

(* Promoting return values in place changes no link and no call.           *)
LEMMA WithinPromoted ==
  ASSUME NEW block \in Seq(Statement), NEW ids, NEW ks, Within(block, ids, ks),
         NEW kind \in Kinds, NEW last \in Nat,
         \A i \in Returns(block) : i <= last => Promotable(block[i].operands[1], kind)
  PROVE  /\ PromoteReturns(block, kind, last) \in Seq(Statement)
         /\ Within(PromoteReturns(block, kind, last), ids, ks)
<1>. DEFINE promoted == PromoteReturns(block, kind, last)
<1>1. DOMAIN block = 1 .. Len(block) /\ Len(block) \in Nat
  OBVIOUS
<1>2. DOMAIN promoted = DOMAIN block
  BY DEF PromoteReturns
<1>3. ASSUME NEW i \in DOMAIN block
      PROVE  /\ promoted[i] \in Statement
             /\ \A j \in DOMAIN promoted[i].operands : ValueWithin(promoted[i].operands[j], ids, ks)
  <2>1. CASE block[i].node = "return" /\ i <= last
    <3>1. block[i] \in Statement
      BY <1>3
    <3>2. block[i].operands \in [1 .. 1 -> Value] /\ i \in Returns(block)
      BY <1>3, <2>1, <3>1 DEF Statement, Returns
    <3>. DEFINE v == block[i].operands[1]
    <3>3. 1 \in DOMAIN block[i].operands /\ v \in Value
      BY <3>2
    <3>4. Promotable(v, kind)
      BY <2>1, <3>2
    <3>5. ValueWithin(v, ids, ks)
      BY <1>3, <3>3 DEF Within
    <3>. HIDE DEF v
    <3>6. /\ Promoted(v, kind) \in Value
          /\ Promoted(v, kind).vars = v.vars /\ Promoted(v, kind).sites = v.sites
      BY <3>3, <3>4, PromotedIsValue
    <3>7. promoted[i] = [block[i] EXCEPT !.operands = <<Promoted(v, kind)>>]
      BY <1>3, <2>1 DEF PromoteReturns, v
    <3>8. <<Promoted(v, kind)>> \in [1 .. 1 -> Value]
      BY <3>6
    <3>9. promoted[i] \in Statement /\ promoted[i].operands = <<Promoted(v, kind)>>
      BY <2>1, <3>1, <3>7, <3>8 DEF Statement
    <3>10. ValueWithin(Promoted(v, kind), ids, ks)
      BY <3>5, <3>6 DEF ValueWithin
    <3>11. \A j \in DOMAIN <<Promoted(v, kind)>> : <<Promoted(v, kind)>>[j] = Promoted(v, kind)
      OBVIOUS
    <3>. QED
      BY <3>9, <3>10, <3>11
  <2>2. CASE ~(block[i].node = "return" /\ i <= last)
    <3>1. promoted[i] = block[i]
      BY <1>3, <2>2 DEF PromoteReturns
    <3>. QED
      BY <1>3, <3>1 DEF Within
  <2>. QED
    BY <2>1, <2>2
<1>4. promoted \in Seq(Statement)
  <2>1. promoted = [i \in 1 .. Len(block) |-> promoted[i]]
    BY <1>1 DEF PromoteReturns
  <2>. HIDE DEF promoted
  <2>. QED
    BY <1>1, <1>3, <2>1
<1>. QED
  BY <1>2, <1>3, <1>4 DEF Within

-----------------------------------------------------------------------------
(* What a step does to the scope stack.                                    *)

(* The part of the invariant that is not about types.                      *)
Safe == KnownVariables /\ TableLinks /\ LexicalScoping /\ NoRecursion

(* A scope that can stand at the top of the stack, over the first d.       *)
FitsOver(scope, d) ==
  /\ scope \in Scope
  /\ \A n \in Names : scope.variable_table[n] # Absent =>
       scope.variable_table[n].vars \subseteq Range(scope.variables)
  /\ Within(scope.block, VariablesUpTo(d) \cup Range(scope.variables), DOMAIN functions)

(* The current scope is replaced, and keeps the variables it had.          *)
LEMMA ReplaceCurrentStep ==
  ASSUME IInv, NEW scope, FitsOver(scope, Len(scope_stack) - 1),
         Range(Current.variables) \subseteq Range(scope.variables),
         Range(scope.variables) \subseteq DOMAIN vars', DOMAIN vars \subseteq DOMAIN vars',
         scope_stack' = ReplaceCurrent(scope), functions' = functions,
         phase' = phase \/ phase' \notin {"parameters", "body"}
  PROVE  /\ scope_stack' \in Seq(Scope) /\ Len(scope_stack') = Len(scope_stack)
         /\ Safe'
<1>0. scope_stack \in Seq(Scope) /\ Len(scope_stack) > 0
  BY DEF IInv, TypeOK
<1>1. PICK top \in Nat \ {0} : top = Len(scope_stack) /\ DOMAIN scope_stack = 1 .. top
  BY <1>0
<1>2. scope \in Scope
  BY DEF FitsOver
<1>3. /\ scope_stack' \in Seq(Scope) /\ Len(scope_stack') = top
      /\ DOMAIN scope_stack' = 1 .. top
      /\ scope_stack'[top] = scope
      /\ \A d \in 1 .. top - 1 : scope_stack'[d] = scope_stack[d]
  BY <1>0, <1>1, <1>2 DEF ReplaceCurrent
<1>4. \A d \in 1 .. top : Range(scope_stack[d].variables) \subseteq Range(scope_stack'[d].variables)
  <2>1. Range(scope_stack[top].variables) \subseteq Range(scope_stack'[top].variables)
    BY <1>1, <1>3 DEF Current
  <2>2. \A d \in 1 .. top : d = top \/ d \in 1 .. top - 1
    OBVIOUS
  <2>. QED
    BY <1>3, <2>1, <2>2
<1>5. \A d \in 0 .. top : VariablesUpTo(d) \subseteq VariablesUpTo(d)'
  BY <1>1, <1>4 DEF VariablesUpTo
<1>6. TableLinks'
  BY <1>1, <1>3 DEF TableLinks, FitsOver, IInv
<1>7. Links(scope.block) \subseteq VariablesUpTo(top)' /\ Callees(scope.block) \subseteq DOMAIN functions
  <2>1. VariablesUpTo(top - 1) \cup Range(scope.variables) \subseteq VariablesUpTo(top)'
    BY <1>1, <1>3 DEF VariablesUpTo
  <2>. QED
    BY <1>1, <2>1, BlockWithin DEF FitsOver
<1>8. \A d \in DOMAIN scope_stack' : Links(scope_stack'[d].block) \subseteq VariablesUpTo(d)'
  BY <1>1, <1>3, <1>5, <1>7 DEF LexicalScoping, IInv
<1>9. VariablesUpTo(Outer) \subseteq VariablesUpTo(Outer)'
  <2>1. PICK d \in 0 .. top : d = Outer
    BY <1>1 DEF Outer
  <2>2. PICK e \in 0 .. top : e = Outer'
    BY <1>1, <1>3 DEF Outer
  <2>3. d <= e
    BY <1>1, <1>3, <2>1, <2>2 DEF Outer, InFunction
  <2>4. VariablesUpTo(d)' \subseteq VariablesUpTo(e)'
    BY <2>3 DEF VariablesUpTo
  <2>5. VariablesUpTo(d) \subseteq VariablesUpTo(e)'
    BY <1>5, <2>4
  <2>6. VariablesUpTo(d) = VariablesUpTo(Outer) /\ VariablesUpTo(e)' = VariablesUpTo(Outer)'
    BY <2>1, <2>2 DEF VariablesUpTo
  <2>. QED
    BY <2>5, <2>6
<1>10. \A k \in DOMAIN functions : Links(functions[k].block) \subseteq
          Range(functions[k].variables) \cup VariablesUpTo(Outer)'
  BY <1>9 DEF LexicalScoping, IInv
<1>11. LexicalScoping'
  BY <1>8, <1>10 DEF LexicalScoping
<1>12. NoRecursion'
  BY <1>1, <1>3, <1>7 DEF NoRecursion, IInv
<1>13. KnownVariables'
  BY <1>0, <1>1, <1>3 DEF KnownVariables, IInv
<1>. QED
  BY <1>1, <1>3, <1>6, <1>11, <1>12, <1>13 DEF Safe

(* The current scope fits where it is.                                     *)
LEMMA CurrentFits ==
  ASSUME IInv
  PROVE  /\ FitsOver(Current, Len(scope_stack) - 1)
         /\ scope_stack = ReplaceCurrent(Current)
         /\ Range(Current.variables) \subseteq DOMAIN vars
<1>1. PICK top \in Nat \ {0} : top = Len(scope_stack) /\ DOMAIN scope_stack = 1 .. top
  BY DEF IInv, TypeOK
<1>2. Current \in Scope /\ scope_stack = ReplaceCurrent(Current)
  BY StackOfScopes DEF IInv, TypeOK, ReplaceCurrent, Current
<1>3. \A n \in Names : Current.variable_table[n] # Absent =>
        Current.variable_table[n].vars \subseteq Range(Current.variables)
  BY <1>1 DEF IInv, TableLinks, Current
<1>4. Links(Current.block) \subseteq VariablesUpTo(top) /\ Callees(Current.block) \subseteq DOMAIN functions
  BY <1>1 DEF IInv, LexicalScoping, NoRecursion, Current
<1>5. VariablesUpTo(top) \subseteq VariablesUpTo(top - 1) \cup Range(Current.variables)
  BY <1>1 DEF VariablesUpTo, Current
<1>6. Within(Current.block, VariablesUpTo(top - 1) \cup Range(Current.variables), DOMAIN functions)
  BY <1>4, <1>5, BlockWithin
<1>7. Range(Current.variables) \subseteq DOMAIN vars
  BY <1>1 DEF IInv, KnownVariables, Current
<1>. QED
  BY <1>1, <1>2, <1>3, <1>6, <1>7 DEF FitsOver

(* The stack does not change, and no function is entered.                  *)
LEMMA SameStackStep ==
  ASSUME IInv, scope_stack' = scope_stack, functions' = functions, vars' = vars,
         phase' = phase \/ phase' \notin {"parameters", "body"}
  PROVE  Safe'
BY CurrentFits, ReplaceCurrentStep

(* A function is entered: its scope is empty.                              *)
LEMMA PushStep ==
  ASSUME IInv, phase = "global", phase' = "parameters",
         scope_stack' = PushScope, functions' = functions, vars' = vars
  PROVE  /\ scope_stack' \in Seq(Scope) /\ Len(scope_stack') = Len(scope_stack) + 1
         /\ Safe'
<1>0. scope_stack \in Seq(Scope) /\ Len(scope_stack) > 0
  BY DEF IInv, TypeOK
<1>1. PICK top \in Nat \ {0} : top = Len(scope_stack) /\ DOMAIN scope_stack = 1 .. top
  BY <1>0
<1>2. EmptyScope \in Scope
  BY DEF EmptyScope, Scope
<1>3. /\ scope_stack' \in Seq(Scope) /\ Len(scope_stack') = top + 1
      /\ DOMAIN scope_stack' = 1 .. top + 1
      /\ scope_stack'[top + 1] = EmptyScope
      /\ \A d \in 1 .. top : scope_stack'[d] = scope_stack[d]
  BY <1>0, <1>1, <1>2 DEF PushScope
<1>4. \A d \in 0 .. top : VariablesUpTo(d)' = VariablesUpTo(d)
  BY <1>1, <1>3 DEF VariablesUpTo
<1>5. TableLinks'
  BY <1>1, <1>3 DEF TableLinks, IInv, EmptyScope
<1>6. Links(EmptyScope.block) = {} /\ Callees(EmptyScope.block) = {}
  BY DEF EmptyScope, Links, Callees, Calls
<1>7. \A d \in DOMAIN scope_stack' : Links(scope_stack'[d].block) \subseteq VariablesUpTo(d)'
  BY <1>1, <1>3, <1>4, <1>6 DEF LexicalScoping, IInv
<1>8. Outer = top /\ Outer' = top
  BY <1>1, <1>3 DEF Outer, InFunction
<1>9. VariablesUpTo(Outer)' = VariablesUpTo(Outer)
  BY <1>1, <1>4, <1>8 DEF VariablesUpTo
<1>10. LexicalScoping'
  BY <1>7, <1>9 DEF LexicalScoping, IInv
<1>11. NoRecursion'
  BY <1>1, <1>3, <1>6 DEF NoRecursion, IInv
<1>12. KnownVariables'
  <2>1. Range(EmptyScope.variables) = {}
    BY DEF EmptyScope, Range
  <2>. QED
    BY <1>1, <1>3, <2>1 DEF KnownVariables, IInv
<1>. QED
  BY <1>1, <1>3, <1>5, <1>10, <1>11, <1>12 DEF Safe

(* A function is left, whether it is registered or not.                    *)
LEMMA PopStep ==
  ASSUME IInv, phase = "body", phase' = "global", scope_stack' = PopScope, vars' = vars
  PROVE  /\ scope_stack' \in Seq(Scope) /\ Len(scope_stack') = Len(scope_stack) - 1
         /\ Len(scope_stack') > 0
         /\ KnownVariables' /\ TableLinks'
         /\ \A d \in DOMAIN scope_stack' : /\ Links(scope_stack'[d].block) \subseteq VariablesUpTo(d)'
                                           /\ Callees(scope_stack'[d].block) \subseteq DOMAIN functions
         /\ VariablesUpTo(Outer)' = VariablesUpTo(Outer)
         /\ VariablesUpTo(Outer) = VariablesUpTo(Len(scope_stack) - 1)
<1>0. scope_stack \in Seq(Scope) /\ Len(scope_stack) > 1
  BY DEF IInv, TypeOK
<1>1. PICK top \in Nat \ {0} : top = Len(scope_stack) /\ DOMAIN scope_stack = 1 .. top
  BY <1>0
<1>2. /\ scope_stack' \in Seq(Scope) /\ Len(scope_stack') = top - 1
      /\ DOMAIN scope_stack' = 1 .. top - 1
      /\ \A d \in 1 .. top - 1 : scope_stack'[d] = scope_stack[d]
  BY <1>0, <1>1 DEF PopScope
<1>3. \A d \in 0 .. top - 1 : VariablesUpTo(d)' = VariablesUpTo(d)
  BY <1>1, <1>2 DEF VariablesUpTo
<1>4. TableLinks'
  BY <1>1, <1>2 DEF TableLinks, IInv
<1>5. \A d \in DOMAIN scope_stack' : /\ Links(scope_stack'[d].block) \subseteq VariablesUpTo(d)'
                                     /\ Callees(scope_stack'[d].block) \subseteq DOMAIN functions
  BY <1>1, <1>2, <1>3 DEF LexicalScoping, NoRecursion, IInv
<1>6. Outer = top - 1 /\ Outer' = top - 1
  <2>1. InFunction /\ ~InFunction'
    BY DEF InFunction
  <2>. QED
    BY <1>1, <1>2, <2>1 DEF Outer
<1>7. VariablesUpTo(Outer)' = VariablesUpTo(Outer)
  <2>1. PICK d \in 0 .. top - 1 : d = top - 1
    BY <1>1
  <2>2. VariablesUpTo(Outer) = VariablesUpTo(d) /\ VariablesUpTo(Outer)' = VariablesUpTo(d)'
    BY <1>6, <2>1 DEF VariablesUpTo
  <2>. QED
    BY <1>3, <2>2
<1>8. KnownVariables'
  BY <1>0, <1>1, <1>2 DEF KnownVariables, IInv
<1>. QED
  BY <1>0, <1>1, <1>2, <1>4, <1>5, <1>6, <1>7, <1>8

(* The function that is left is not registered.                            *)
LEMMA RejectStep ==
  ASSUME IInv, phase = "body", phase' = "global", scope_stack' = PopScope, vars' = vars,
         functions' = functions
  PROVE  Safe'
BY PopStep DEF Safe, LexicalScoping, NoRecursion, IInv

(* The function that is left is registered with its block, whose calls are *)
(* to the functions registered before it.                                  *)
LEMMA RegisterStep ==
  ASSUME IInv, phase = "body", phase' = "global", scope_stack' = PopScope, vars' = vars,
         NEW block \in Seq(Statement), FrameFunction(block) \in Function,
         Links(block) \subseteq VariablesUpTo(Len(scope_stack)),
         Callees(block) \subseteq DOMAIN functions,
         functions' = Append(functions, FrameFunction(block))
  PROVE  functions' \in Seq(Function) /\ Safe'
<1>0. functions \in Seq(Function) /\ scope_stack \in Seq(Scope) /\ Len(scope_stack) > 1
  BY DEF IInv, TypeOK
<1>1. PICK n \in Nat : n = Len(functions) /\ DOMAIN functions = 1 .. n
  BY <1>0
<1>. DEFINE f == FrameFunction(block)
<1>2. f.block = block /\ f.variables = Current.variables
  BY DEF FrameFunction
<1>. HIDE DEF f
<1>3. /\ functions' \in Seq(Function) /\ DOMAIN functions' = 1 .. n + 1
      /\ functions'[n + 1] = f
      /\ \A k \in 1 .. n : functions'[k] = functions[k]
  BY <1>0, <1>1 DEF f
<1>4. Links(block) \subseteq Range(f.variables) \cup VariablesUpTo(Outer)
  <2>1. VariablesUpTo(Len(scope_stack)) \subseteq
          VariablesUpTo(Len(scope_stack) - 1) \cup Range(Current.variables)
    BY <1>0 DEF VariablesUpTo, Current
  <2>. QED
    BY <1>2, <2>1, PopStep
<1>5. \A k \in DOMAIN functions' :
        Links(functions'[k].block) \subseteq Range(functions'[k].variables) \cup VariablesUpTo(Outer)'
  BY <1>1, <1>2, <1>3, <1>4, PopStep DEF IInv, LexicalScoping
<1>6. LexicalScoping'
  BY <1>5, PopStep DEF LexicalScoping
<1>7. NoRecursion'
  <2>1. \A k \in DOMAIN functions' : Callees(functions'[k].block) \subseteq 1 .. k - 1
    BY <1>1, <1>2, <1>3 DEF IInv, NoRecursion
  <2>2. \A d \in DOMAIN scope_stack' : Callees(scope_stack'[d].block) \subseteq DOMAIN functions'
    BY <1>1, <1>3, PopStep
  <2>. QED
    BY <2>1, <2>2 DEF NoRecursion
<1>. QED
  BY <1>3, <1>6, <1>7, PopStep DEF Safe

-----------------------------------------------------------------------------
(* The ways a visit ends keep the invariant.                               *)

(* A visit is counted, and only made below the bound.                      *)
LEMMA VisitCounted ==
  ASSUME IInv, NEW phases, Visit(phases)
  PROVE  phase \in phases /\ visits' \in 0 .. MaxVisits
BY ConstantsAssumption DEF ConstantsAssumption, IInv, TypeOK, Visit

(* An error is reported, and nothing else happens.                         *)
LEMMA FailStep ==
  ASSUME IInv, Fail, visits' \in 0 .. MaxVisits
  PROVE  IInv'
<1>1. Safe'
  BY SameStackStep DEF Fail
<1>2. TypeOK'
  BY DEF IInv, TypeOK, Fail
<1>. QED
  BY <1>1, <1>2 DEF IInv, Safe

(* The process ends.                                                       *)
LEMMA CrashStep ==
  ASSUME IInv, Crash, visits' \in 0 .. MaxVisits
  PROVE  IInv'
<1>1. Safe'
  BY SameStackStep DEF Crash
<1>2. TypeOK'
  BY DEF IInv, TypeOK, Crash
<1>. QED
  BY <1>1, <1>2 DEF IInv, Safe

(* A result without a tree has the shape of one.                           *)
LEMMA EndedTyped ==
  ASSUME TypeOK, NEW how \in {"refused", "internal_error", "escaped", "leaked"}
  PROVE  Ended(how) \in Result
BY DEF TypeOK, Ended, Result

(* An exception escapes, from a current scope that may have been changed.  *)
LEMMA EscapeStep ==
  ASSUME IInv, NEW scope, FitsOver(scope, Len(scope_stack) - 1),
         scope.variables = Current.variables,
         Escape(ReplaceCurrent(scope)), visits' \in 0 .. MaxVisits
  PROVE  IInv'
<1>1. /\ scope_stack' = ReplaceCurrent(scope) /\ functions' = functions
      /\ phase' = "idle" /\ frame' = NoFrame
      /\ vars' = vars /\ errors' = errors
      /\ results' = Append(results, Ended(IF phase = "global" THEN "escaped" ELSE "leaked"))
  BY DEF Escape
<1>2. scope_stack' \in Seq(Scope) /\ Len(scope_stack') = Len(scope_stack) /\ Safe'
  BY <1>1, CurrentFits, ReplaceCurrentStep
<1>3. results' \in Seq(Result)
  <2>1. Ended(IF phase = "global" THEN "escaped" ELSE "leaked") \in Result
    BY EndedTyped DEF IInv
  <2>2. results \in Seq(Result)
    BY DEF IInv, TypeOK
  <2>. QED
    BY <1>1, <2>1, <2>2
<1>4. TypeOK'
  BY <1>1, <1>2, <1>3 DEF IInv, TypeOK
<1>. QED
  BY <1>2, <1>4 DEF IInv, Safe

(* A statement is added to the block of a scope.                           *)
LEMMA StatementFits ==
  ASSUME NEW d, NEW scope, FitsOver(scope, d),
         NEW node \in {"initialization", "assignment", "return", "call", "instruction"},
         NEW operands \in Seq(Value), node = "return" => Len(operands) = 1,
         \A j \in DOMAIN operands :
           ValueWithin(operands[j], VariablesUpTo(d) \cup Range(scope.variables), DOMAIN functions)
  PROVE  /\ FitsOver(WithStatement(scope, node, operands), d)
         /\ WithStatement(scope, node, operands).variables = scope.variables
<1>. DEFINE longer == WithStatement(scope, node, operands)
            block  == Append(scope.block, [node |-> node, operands |-> operands])
            ids    == VariablesUpTo(d) \cup Range(scope.variables)
<1>1. scope \in Scope /\ scope.block \in Seq(Statement) /\ Within(scope.block, ids, DOMAIN functions)
  BY DEF FitsOver, Scope
<1>2. block \in Seq(Statement) /\ Within(block, ids, DOMAIN functions)
  <2>. HIDE DEF ids
  <2>. QED
    BY <1>1, WithinAppend DEF ids
<1>3. longer = [scope EXCEPT !.block = block]
  BY DEF WithStatement
<1>. HIDE DEF longer, block
<1>4. /\ longer \in Scope /\ longer.variables = scope.variables
      /\ longer.variable_table = scope.variable_table /\ longer.block = block
  BY <1>1, <1>2, <1>3 DEF Scope
<1>. QED
  BY <1>2, <1>4 DEF FitsOver, longer

(* What is linked can be held by a statement of the current scope.         *)
LEMMA LinkedWithin ==
  ASSUME TypeOK, NEW v, Linked(v)
  PROVE  ValueWithin(v, VariablesUpTo(Len(scope_stack) - 1) \cup Range(Current.variables),
                     DOMAIN functions)
<1>1. VariablesUpTo(Len(scope_stack)) \subseteq
        VariablesUpTo(Len(scope_stack) - 1) \cup Range(Current.variables)
  BY StackOfScopes DEF VariablesUpTo, Current
<1>. QED
  BY <1>1 DEF Linked, ValueWithin

(* A statement is added to the current block.                              *)
LEMMA RecordedStep ==
  ASSUME IInv,
         NEW node \in {"initialization", "assignment", "return", "call", "instruction"},
         NEW operands \in Seq(Value), node = "return" => Len(operands) = 1,
         \A j \in DOMAIN operands : Linked(operands[j]),
         Recorded(node, operands), visits' \in 0 .. MaxVisits
  PROVE  IInv'
<1>. DEFINE scope == WithStatement(Current, node, operands)
<1>1. FitsOver(Current, Len(scope_stack) - 1)
  BY CurrentFits
<1>2. FitsOver(scope, Len(scope_stack) - 1) /\ scope.variables = Current.variables
  <2>1. \A j \in DOMAIN operands :
          ValueWithin(operands[j], VariablesUpTo(Len(scope_stack) - 1) \cup Range(Current.variables),
                      DOMAIN functions)
    BY LinkedWithin DEF IInv
  <2>2. FitsOver(WithStatement(Current, node, operands), Len(scope_stack) - 1)
    BY <1>1, <2>1, StatementFits
  <2>3. WithStatement(Current, node, operands).variables = Current.variables
    BY <1>1 DEF WithStatement, FitsOver, Scope
  <2>. QED
    BY <2>2, <2>3
<1>3. /\ scope_stack' = ReplaceCurrent(scope)
      /\ UNCHANGED <<vars, functions, phase, frame, errors, results>>
  BY DEF Recorded
<1>. HIDE DEF scope
<1>4. scope_stack' \in Seq(Scope) /\ Len(scope_stack') = Len(scope_stack) /\ Safe'
  BY <1>2, <1>3, CurrentFits, ReplaceCurrentStep
<1>5. TypeOK'
  BY <1>3, <1>4 DEF IInv, TypeOK
<1>. QED
  BY <1>4, <1>5 DEF IInv, Safe

(* Whatever the operands of a statement evaluated to.                      *)
LEMMA ConcludeStep ==
  ASSUME IInv, NEW outcome,
         NEW node \in {"initialization", "assignment", "return", "call", "instruction"},
         NEW operands,
         outcome = "value" => /\ operands \in Seq(Value)
                              /\ node = "return" => Len(operands) = 1
                              /\ \A j \in DOMAIN operands : Linked(operands[j]),
         Conclude(outcome, node, operands), visits' \in 0 .. MaxVisits
  PROVE  IInv'
<1>1. CASE outcome = "value" /\ Recorded(node, operands)
  BY <1>1, RecordedStep
<1>2. CASE Fail
  BY <1>2, FailStep
<1>3. CASE Escape(scope_stack)
  BY <1>3, CurrentFits, EscapeStep
<1>4. CASE Crash
  BY <1>4, CrashStep
<1>. QED
  BY <1>1, <1>2, <1>3, <1>4 DEF Conclude

-----------------------------------------------------------------------------
(* The handlers.                                                           *)

(* The current scope with a variable declared in it.                       *)
LEMMA VariableFits ==
  ASSUME IInv, NEW name \in Names, NEW type \in Type
  PROVE  LET id    == Len(vars) + 1
             scope == WithVariable(Current, id, name, type)
             made  == Append(vars, [name |-> name, typ |-> type])
         IN  /\ made \in Seq(Variable) /\ DOMAIN vars \subseteq DOMAIN made
             /\ FitsOver(scope, Len(scope_stack) - 1)
             /\ Range(scope.variables) = Range(Current.variables) \cup {id}
             /\ Range(scope.variables) \subseteq DOMAIN made
             /\ id \in Nat
<1>. DEFINE id    == Len(vars) + 1
            scope == WithVariable(Current, id, name, type)
            made  == Append(vars, [name |-> name, typ |-> type])
            ref   == VariableRef(id, type)
<1>1. vars \in Seq(Variable) /\ Len(vars) \in Nat /\ id \in Nat /\ DOMAIN vars = 1 .. Len(vars)
  BY DEF IInv, TypeOK
<1>2. made \in Seq(Variable) /\ DOMAIN made = 1 .. id
  <2>1. [name |-> name, typ |-> type] \in Variable
    BY DEF Variable
  <2>. QED
    BY <1>1, <2>1
<1>3. Current \in Scope
  BY StackOfScopes DEF IInv
<1>4. ref \in Reference /\ ref.vars = {id} /\ ref # Absent
  <2>1. ref \in Reference
    BY <1>1, VariableRefIsReference
  <2>2. ref.node = "variable_ref" /\ ref.vars = {id}
    BY DEF VariableRef
  <2>. QED
    BY <2>1, <2>2 DEF Absent
<1>. HIDE DEF ref
<1>5. /\ scope.variables = Append(Current.variables, id)
      /\ scope.variable_table = [Current.variable_table EXCEPT ![name] = ref]
      /\ scope.block = Current.block
      /\ scope \in Scope
  <2>. DEFINE variables == Append(Current.variables, id)
              table     == [Current.variable_table EXCEPT ![name] = ref]
  <2>1. scope = [Current EXCEPT !.variables = variables, !.variable_table = table]
    BY <1>3 DEF WithVariable, TableAdd, Scope, ref
  <2>2. variables \in Seq(Nat) /\ table \in [Names -> Literal \cup Reference \cup {Absent}]
    BY <1>1, <1>3, <1>4 DEF Scope
  <2>. HIDE DEF scope, variables, table
  <2>3. /\ scope.variables = variables /\ scope.variable_table = table
        /\ scope.block = Current.block /\ scope \in Scope
    BY <1>3, <2>1, <2>2 DEF Scope
  <2>. QED
    BY <2>3 DEF variables, table
<1>. HIDE DEF scope, made
<1>6. Range(scope.variables) = Range(Current.variables) \cup {id}
  <2>1. Current.variables \in Seq(Nat)
    BY <1>3 DEF Scope
  <2>2. PICK n \in Nat : n = Len(Current.variables) /\ DOMAIN Current.variables = 1 .. n
    BY <2>1
  <2>3. /\ DOMAIN scope.variables = 1 .. n + 1
        /\ \A i \in 1 .. n : scope.variables[i] = Current.variables[i]
        /\ scope.variables[n + 1] = id
    BY <1>5, <2>1, <2>2
  <2>. QED
    BY <2>2, <2>3 DEF Range
<1>7. Range(scope.variables) \subseteq DOMAIN made
  BY <1>1, <1>2, <1>6, CurrentFits
<1>8. FitsOver(scope, Len(scope_stack) - 1)
  <2>1. FitsOver(Current, Len(scope_stack) - 1)
    BY CurrentFits
  <2>2. ASSUME NEW n \in Names, scope.variable_table[n] # Absent
        PROVE  scope.variable_table[n].vars \subseteq Range(scope.variables)
    <3>1. CASE n = name
      <4>1. scope.variable_table[n] = ref
        BY <1>3, <1>5, <3>1 DEF Scope
      <4>. QED
        BY <1>4, <1>6, <4>1
    <3>2. CASE n # name
      <4>1. scope.variable_table[n] = Current.variable_table[n]
        BY <1>3, <1>5, <3>2 DEF Scope
      <4>. QED
        BY <1>6, <2>1, <2>2, <4>1 DEF FitsOver
    <3>. QED
      BY <3>1, <3>2
  <2>3. Within(scope.block, VariablesUpTo(Len(scope_stack) - 1) \cup Range(scope.variables),
               DOMAIN functions)
    BY <1>5, <1>6, <2>1, WithinMore DEF FitsOver
  <2>. QED
    BY <1>5, <2>2, <2>3 DEF FitsOver
<1>. QED
  BY <1>1, <1>2, <1>6, <1>7, <1>8 DEF scope, made

(* visit_variable keeps the invariant.                                     *)
LEMMA VisitVariableStep ==
  ASSUME IInv, NEW d \in VariableDecls, VisitVariable(d)
  PROVE  IInv'
<1>1. d.name \in Names /\ d.type \in WrittenType
  BY ConstantsAssumption DEF ConstantsAssumption
<1>2. visits' \in 0 .. MaxVisits
  BY VisitCounted DEF VisitVariable
<1>3. CASE ~CanBuildType(d.type)
  BY <1>2, <1>3, FailStep DEF VisitVariable
<1>4. CASE CanBuildType(d.type)
  <2>. DEFINE type  == BuildType(d.type)
              id    == Len(vars) + 1
              scope == WithVariable(Current, id, d.name, type)
  <2>1. type \in Type
    BY <1>1, <1>4, BuildTypeIsType
  <2>2. /\ vars' = Append(vars, [name |-> d.name, typ |-> type])
        /\ UNCHANGED <<functions, phase, frame, errors, results>>
    BY <1>4 DEF VisitVariable
  <2>3. scope_stack' = ReplaceCurrent(scope)
    <3>1. Len(vars') = id
      BY <2>2 DEF IInv, TypeOK
    <3>2. scope_stack' = ReplaceCurrent(WithVariable(Current, Len(vars'), d.name, type))
      BY <1>4 DEF VisitVariable
    <3>. QED
      BY <3>1, <3>2
  <2>. HIDE DEF type
  <2>4. /\ vars' \in Seq(Variable) /\ DOMAIN vars \subseteq DOMAIN vars'
        /\ FitsOver(scope, Len(scope_stack) - 1)
        /\ Range(Current.variables) \subseteq Range(scope.variables)
        /\ Range(scope.variables) \subseteq DOMAIN vars'
    BY <1>1, <2>1, <2>2, VariableFits
  <2>. HIDE DEF scope
  <2>5. scope_stack' \in Seq(Scope) /\ Len(scope_stack') = Len(scope_stack) /\ Safe'
    BY <2>2, <2>3, <2>4, ReplaceCurrentStep
  <2>6. TypeOK'
    BY <1>2, <2>2, <2>4, <2>5 DEF IInv, TypeOK
  <2>. QED
    BY <2>5, <2>6 DEF IInv, Safe
<1>. QED
  BY <1>3, <1>4

(* An assigned value is promoted to the type of what it is assigned to.    *)
LEMMA AssignedTyped ==
  ASSUME NEW lhs \in Value, lhs.typ \in Type, NEW rhs \in Value, CanAssign(lhs, rhs),
         NEW ids, NEW ks, ValueWithin(lhs, ids, ks), ValueWithin(rhs, ids, ks)
  PROVE  /\ Assigned(lhs, rhs) \in Seq(Value)
         /\ \A j \in DOMAIN Assigned(lhs, rhs) : ValueWithin(Assigned(lhs, rhs)[j], ids, ks)
<1>. DEFINE v == Promoted(rhs, lhs.typ.kind)
<1>1. lhs.typ.kind \in Kinds /\ Promotable(rhs, lhs.typ.kind)
  BY DEF CanAssign, Type
<1>2. v \in Value /\ v.vars = rhs.vars /\ v.sites = rhs.sites
  BY <1>1, PromotedIsValue
<1>3. Assigned(lhs, rhs) = <<lhs, v>>
  BY DEF Assigned
<1>. HIDE DEF v
<1>4. ValueWithin(v, ids, ks)
  BY <1>2 DEF ValueWithin
<1>5. DOMAIN <<lhs, v>> = 1 .. 2 /\ <<lhs, v>>[1] = lhs /\ <<lhs, v>>[2] = v
  OBVIOUS
<1>. QED
  BY <1>2, <1>3, <1>4, <1>5

(* The declaration and the assignment of an initialization.                *)
LEMMA InitializeStep ==
  ASSUME IInv, NEW d \in Initializations, NEW rhs \in Value, Linked(rhs),
         Initialize(d, rhs), visits' \in 0 .. MaxVisits
  PROVE  IInv'
<1>. DEFINE declared == CanBuildType(d.type)
            type     == BuildType(d.type)
            id       == Len(vars) + 1
            lhs      == IF declared THEN VariableRef(id, type) ELSE Lookup(d.name)
            scope    == IF declared THEN WithVariable(Current, id, d.name, type) ELSE Current
            assigned == (declared \/ Visible(d.name)) /\ CanAssign(lhs, rhs)
            final    == IF assigned THEN WithStatement(scope, "initialization", Assigned(lhs, rhs))
                                    ELSE scope
            ids      == VariablesUpTo(Len(scope_stack) - 1) \cup Range(scope.variables)
<1>1. d.name \in Names /\ d.type \in WrittenType
  BY ConstantsAssumption DEF ConstantsAssumption
<1>2. /\ vars' = IF declared THEN Append(vars, [name |-> d.name, typ |-> type]) ELSE vars
      /\ scope_stack' = ReplaceCurrent(final)
      /\ errors' = errors + (IF declared THEN 0 ELSE 1) + (IF assigned THEN 0 ELSE 1)
      /\ UNCHANGED <<functions, phase, frame, results>>
  BY DEF Initialize
<1>3. /\ vars' \in Seq(Variable) /\ DOMAIN vars \subseteq DOMAIN vars'
      /\ FitsOver(scope, Len(scope_stack) - 1)
      /\ Range(Current.variables) \subseteq Range(scope.variables)
      /\ Range(scope.variables) \subseteq DOMAIN vars'
      /\ declared => id \in Range(scope.variables) /\ id \in Nat
  <2>1. CASE declared
    <3>1. type \in Type
      BY <1>1, <2>1, BuildTypeIsType
    <3>2. vars' = Append(vars, [name |-> d.name, typ |-> type])
      BY <1>2, <2>1
    <3>3. scope = WithVariable(Current, id, d.name, type)
      BY <2>1
    <3>. HIDE DEF type, scope
    <3>. QED
      BY <1>1, <3>1, <3>2, <3>3, VariableFits
  <2>2. CASE ~declared
    BY <1>2, <2>2, CurrentFits DEF IInv, TypeOK
  <2>. QED
    BY <2>1, <2>2
<1>4. ValueWithin(rhs, ids, DOMAIN functions)
  <2>1. ValueWithin(rhs, VariablesUpTo(Len(scope_stack) - 1) \cup Range(Current.variables), DOMAIN functions)
    BY LinkedWithin DEF IInv
  <2>2. VariablesUpTo(Len(scope_stack) - 1) \cup Range(Current.variables) \subseteq ids
    BY <1>3
  <2>. HIDE DEF ids
  <2>. QED
    BY <2>1, <2>2 DEF ValueWithin
<1>5. ASSUME assigned
      PROVE  lhs \in Value /\ lhs.typ \in Type /\ ValueWithin(lhs, ids, DOMAIN functions)
  <2>1. CASE declared
    <3>1. type \in Type
      BY <1>1, <2>1, BuildTypeIsType
    <3>2. lhs = VariableRef(id, type)
      BY <2>1
    <3>3. lhs \in Reference
      BY <1>3, <2>1, <3>1, <3>2, VariableRefIsReference
    <3>4. lhs.vars = {id} /\ lhs.sites = {}
      BY <3>2 DEF VariableRef
    <3>5. id \in ids
      BY <1>3, <2>1
    <3>6. lhs \in Value /\ lhs.typ \in Type
      BY <3>3, ReferenceParts
    <3>. HIDE DEF lhs, ids
    <3>. QED
      BY <3>4, <3>5, <3>6 DEF ValueWithin
  <2>2. CASE ~declared
    <3>1. Visible(d.name)
      BY <1>5, <2>2
    <3>2. lhs = Lookup(d.name) /\ scope = Current
      BY <2>2
    <3>3. lhs \in Literal \cup Reference /\ lhs \in Value /\ Linked(lhs)
      BY <1>1, <3>1, <3>2, LookupTyped DEF IInv
    <3>4. lhs.typ \in Type
      BY <3>3, ReferenceParts DEF Literal, Value
    <3>5. ValueWithin(lhs, ids, DOMAIN functions)
      BY <3>2, <3>3, LinkedWithin DEF IInv
    <3>. QED
      BY <3>3, <3>4, <3>5
  <2>. QED
    BY <2>1, <2>2
<1>6. FitsOver(final, Len(scope_stack) - 1) /\ final.variables = scope.variables
  <2>1. CASE assigned
    <3>1. /\ Assigned(lhs, rhs) \in Seq(Value)
          /\ \A j \in DOMAIN Assigned(lhs, rhs) : ValueWithin(Assigned(lhs, rhs)[j], ids, DOMAIN functions)
      <4>1. CanAssign(lhs, rhs)
        BY <2>1
      <4>. HIDE DEF lhs, ids, assigned
      <4>. QED
        BY <1>4, <1>5, <2>1, <4>1, AssignedTyped
    <3>2. final = WithStatement(scope, "initialization", Assigned(lhs, rhs))
      BY <2>1
    <3>3. FitsOver(scope, Len(scope_stack) - 1) /\ scope \in Scope
      BY <1>3 DEF FitsOver
    <3>. HIDE DEF lhs, scope, assigned, final
    <3>4. FitsOver(WithStatement(scope, "initialization", Assigned(lhs, rhs)), Len(scope_stack) - 1)
      BY <3>1, <3>3, StatementFits DEF ids
    <3>5. WithStatement(scope, "initialization", Assigned(lhs, rhs)).variables = scope.variables
      BY <3>3 DEF WithStatement, Scope
    <3>. QED
      BY <3>2, <3>4, <3>5
  <2>2. CASE ~assigned
    <3>1. final = scope
      BY <2>2
    <3>. HIDE DEF final, scope, assigned
    <3>. QED
      BY <1>3, <3>1
  <2>. QED
    BY <2>1, <2>2
<1>7. errors' \in Nat
  BY <1>2 DEF IInv, TypeOK
<1>. HIDE DEF declared, type, id, lhs, scope, assigned, final, ids
<1>8. scope_stack' \in Seq(Scope) /\ Len(scope_stack') = Len(scope_stack) /\ Safe'
  BY <1>2, <1>3, <1>6, ReplaceCurrentStep
<1>9. TypeOK'
  BY <1>2, <1>3, <1>7, <1>8 DEF IInv, TypeOK
<1>. QED
  BY <1>8, <1>9 DEF IInv, Safe

(* visit_initialization keeps the invariant.                               *)
LEMMA VisitInitializationStep ==
  ASSUME IInv, NEW d \in Initializations, VisitInitialization(d)
  PROVE  IInv'
<1>1. visits' \in 0 .. MaxVisits
  BY VisitCounted DEF VisitInitialization
<1>2. d.rhs \in Expression
  BY ConstantsAssumption DEF ConstantsAssumption
<1>3. CASE Outcome(d.rhs) = "value" /\ Initialize(d, ValueOf(d.rhs))
  <2>1. ValueOf(d.rhs) \in Value /\ Linked(ValueOf(d.rhs))
    BY <1>2, <1>3, ValueTyped DEF IInv
  <2>. QED
    BY <1>1, <1>3, <2>1, InitializeStep
<1>4. CASE Fail
  BY <1>1, <1>4, FailStep
<1>5. CASE Escape(scope_stack)
  BY <1>1, <1>5, CurrentFits, EscapeStep
<1>6. CASE Crash
  BY <1>1, <1>6, CrashStep
<1>. QED
  BY <1>3, <1>4, <1>5, <1>6 DEF VisitInitialization

(* The statements of a program are written ones.                           *)
LEMMA StatementsWritten ==
  ASSUME NEW s \in Statements
  PROVE  /\ s.operands \in Seq(Expression)
         /\ s.node = "assignment" => Len(s.operands) = 2
         /\ s.node \in {"return", "expression"} => Len(s.operands) = 1
<1>1. s \in WrittenStatement
  BY ConstantsAssumption DEF ConstantsAssumption
<1>2. CASE s.node = "assignment"
  <2>1. s.operands \in Expression \X Expression
    BY <1>1, <1>2 DEF WrittenStatement
  <2>2. PICK e \in Expression, f \in Expression : s.operands = <<e, f>>
    BY <2>1
  <2>3. <<e, f>> \in Seq(Expression) /\ Len(<<e, f>>) = 2
    OBVIOUS
  <2>. QED
    BY <1>2, <2>2, <2>3
<1>3. CASE s.node \in {"return", "expression"}
  <2>1. s.operands \in [1 .. 1 -> Expression]
    BY <1>1, <1>3 DEF WrittenStatement
  <2>2. s.operands = <<s.operands[1]>> /\ s.operands[1] \in Expression
    BY <2>1
  <2>3. \A e \in Expression : <<e>> \in Seq(Expression) /\ Len(<<e>>) = 1
    OBVIOUS
  <2>. QED
    BY <1>3, <2>2, <2>3
<1>4. CASE s.node \in {"gate", "measure"}
  <2>1. s.operands \in Seq(Expression)
    BY <1>1, <1>4 DEF WrittenStatement
  <2>. QED
    BY <1>4, <2>1
<1>. QED
  BY <1>1, <1>2, <1>3, <1>4 DEF WrittenStatement

(* visit_assignment_statement keeps the invariant.                         *)
LEMMA VisitAssignmentStep ==
  ASSUME IInv, NEW s \in Statements, VisitAssignment(s)
  PROVE  IInv'
<1>. DEFINE values  == OperandValues(s.operands)
            visited == OperandsOutcome(s.operands)
<1>1. visits' \in 0 .. MaxVisits
  BY VisitCounted DEF VisitAssignment
<1>2. CASE visited # "value"
  <2>1. Conclude(visited, "assignment", <<>>)
    BY <1>2 DEF VisitAssignment
  <2>. HIDE DEF visited
  <2>. QED
    BY <1>1, <1>2, <2>1, ConcludeStep
<1>3. CASE visited = "value" /\ IsReference(values[1]) /\ CanAssign(values[1], values[2])
  <2>1. s.operands \in Seq(Expression) /\ Len(s.operands) = 2
    BY StatementsWritten DEF VisitAssignment
  <2>2. /\ values \in Seq(Value) /\ DOMAIN values = DOMAIN s.operands
        /\ \A i \in DOMAIN s.operands : Linked(values[i])
    BY <1>3, <2>1, OperandsTyped DEF IInv
  <2>3. 1 \in DOMAIN s.operands /\ 2 \in DOMAIN s.operands
    BY <2>1
  <2>4. values[1] \in Value /\ values[2] \in Value /\ Linked(values[1]) /\ Linked(values[2])
    BY <2>2, <2>3
  <2>5. values[1].typ \in Type
    BY <1>3, <2>4 DEF IsReference, Value
  <2>. DEFINE assigned == Assigned(values[1], values[2])
              ids == VariablesUpTo(Len(scope_stack))
  <2>6. /\ assigned \in Seq(Value)
        /\ \A j \in DOMAIN assigned : ValueWithin(assigned[j], ids, DOMAIN functions)
    <3>1. ValueWithin(values[1], ids, DOMAIN functions) /\ ValueWithin(values[2], ids, DOMAIN functions)
      BY <2>4 DEF Linked, ValueWithin
    <3>2. CanAssign(values[1], values[2])
      BY <1>3
    <3>. HIDE DEF values, ids
    <3>. QED
      BY <2>4, <2>5, <3>1, <3>2, AssignedTyped
  <2>7. \A j \in DOMAIN assigned : Linked(assigned[j])
    BY <2>6 DEF Linked, ValueWithin
  <2>8. Conclude("value", "assignment", assigned)
    BY <1>3 DEF VisitAssignment
  <2>. HIDE DEF assigned
  <2>. QED
    BY <1>1, <2>6, <2>7, <2>8, ConcludeStep
<1>4. CASE visited = "value" /\ ~(IsReference(values[1]) /\ CanAssign(values[1], values[2]))
  <2>1. Fail
    BY <1>4 DEF VisitAssignment
  <2>. QED
    BY <1>1, <2>1, FailStep
<1>. QED
  BY <1>2, <1>3, <1>4

(* A statement that records its operands as they are.                      *)
LEMMA ConcludeOperandsStep ==
  ASSUME IInv, NEW s \in Statements, NEW node \in {"return", "call"},
         Len(s.operands) = 1,
         Conclude(OperandsOutcome(s.operands), node, OperandValues(s.operands)),
         visits' \in 0 .. MaxVisits
  PROVE  IInv'
<1>. DEFINE values  == OperandValues(s.operands)
            visited == OperandsOutcome(s.operands)
<1>1. s.operands \in Seq(Expression)
  BY StatementsWritten
<1>2. ASSUME visited = "value"
      PROVE  /\ values \in Seq(Value) /\ Len(values) = 1
             /\ \A i \in DOMAIN values : Linked(values[i])
  <2>1. /\ values \in Seq(Value) /\ DOMAIN values = DOMAIN s.operands
        /\ \A i \in DOMAIN s.operands : Linked(values[i])
    BY <1>1, <1>2, OperandsTyped DEF IInv
  <2>2. DOMAIN s.operands = 1 .. 1
    BY <1>1
  <2>. HIDE DEF values
  <2>. QED
    BY <2>1, <2>2
<1>. HIDE DEF values, visited
<1>. QED
  BY <1>2, ConcludeStep DEF values, visited

(* visit_return_statement keeps the invariant.                             *)
LEMMA VisitReturnStep ==
  ASSUME IInv, NEW s \in Statements, VisitReturn(s)
  PROVE  IInv'
<1>1. visits' \in 0 .. MaxVisits
  BY VisitCounted DEF VisitReturn
<1>2. Len(s.operands) = 1
  BY StatementsWritten DEF VisitReturn
<1>. QED
  BY <1>1, <1>2, ConcludeOperandsStep DEF VisitReturn

(* visit_expression_statement keeps the invariant.                         *)
LEMMA VisitExpressionStatementStep ==
  ASSUME IInv, NEW s \in Statements, VisitExpressionStatement(s)
  PROVE  IInv'
<1>1. visits' \in 0 .. MaxVisits
  BY VisitCounted DEF VisitExpressionStatement
<1>2. Len(s.operands) = 1
  BY StatementsWritten DEF VisitExpressionStatement
<1>3. CASE s.operands[1].node = "call"
  BY <1>1, <1>2, <1>3, ConcludeOperandsStep DEF VisitExpressionStatement
<1>4. CASE s.operands[1].node # "call"
  BY <1>1, <1>4, FailStep DEF VisitExpressionStatement
<1>. QED
  BY <1>3, <1>4

(* The operands of an instruction that resolves.                           *)
LEMMA InstructionOperandsTyped ==
  ASSUME TypeOK, NEW name, NEW args \in Seq(Value), \A i \in DOMAIN args : Linked(args[i]),
         InstructionOutcome(name, args) = "value"
  PROVE  /\ InstructionOperands(name, args) \in Seq(Value)
         /\ \A i \in DOMAIN InstructionOperands(name, args) :
              Linked(InstructionOperands(name, args)[i])
<1>. DEFINE k      == LastCandidate(Instructions, name, args)
            params == Instructions[k].params
            m      == Len(args)
<1>1. m \in Nat /\ DOMAIN args = 1 .. m
  OBVIOUS
<1>2. Len(Instructions) \in Nat /\ DOMAIN Instructions = 1 .. Len(Instructions)
  BY ConstantsAssumption DEF ConstantsAssumption
<1>3. Resolution(Instructions, name, args) = "match"
  BY DEF InstructionOutcome, Resolution, TryOverload
<1>4. /\ k \in DOMAIN Instructions
      /\ Len(args) = Len(Instructions[k].params)
      /\ \A i \in DOMAIN args : Promotable(args[i], Instructions[k].params[i])
  <2>1. PICK n \in Nat : DOMAIN Instructions = 1 .. n
    BY <1>2
  <2>2. PICK l \in Nat : DOMAIN args = 1 .. l
    BY <1>1
  <2>3. LET j == LastCandidate(Instructions, name, args)
        IN  /\ j \in 1 .. n
            /\ Len(args) = Len(Instructions[j].params)
            /\ \A i \in DOMAIN args : /\ ~IsVoid(args[i])
                                      /\ Promotable(args[i], Instructions[j].params[i])
    BY <1>3, <2>1, <2>2, ResolutionMatches
  <2>. QED
    BY <2>1, <2>3
<1>5. params \in Seq(Kinds)
  BY <1>4, LibraryTyped
<1>6. InstructionOperands(name, args) = PromotedArgs(args, params)
  BY DEF InstructionOperands
<1>7. Len(args) = Len(params) /\ \A i \in DOMAIN args : Promotable(args[i], params[i])
  BY <1>4
<1>. HIDE DEF k, params
<1>8. /\ PromotedArgs(args, params) \in Seq(Value)
      /\ DOMAIN PromotedArgs(args, params) = DOMAIN args
      /\ \A i \in DOMAIN args : /\ PromotedArgs(args, params)[i].vars = args[i].vars
                                /\ PromotedArgs(args, params)[i].sites = args[i].sites
  BY <1>5, <1>7, PromotedArgsAreValues
<1>. QED
  BY <1>6, <1>8 DEF Linked

(* An instruction that is recorded.                                        *)
LEMMA InstructionStep ==
  ASSUME IInv, NEW s \in Statements, OperandsOutcome(s.operands) = "value",
         InstructionOutcome(s.name, OperandValues(s.operands)) = "value",
         Recorded("instruction", InstructionOperands(s.name, OperandValues(s.operands))),
         visits' \in 0 .. MaxVisits
  PROVE  IInv'
<1>. DEFINE values == OperandValues(s.operands)
            operands == InstructionOperands(s.name, values)
<1>1. values \in Seq(Value) /\ \A i \in DOMAIN values : Linked(values[i])
  <2>1. s.operands \in Seq(Expression)
    BY StatementsWritten
  <2>. QED
    BY <2>1, OperandsTyped DEF IInv
<1>. HIDE DEF values
<1>2. operands \in Seq(Value) /\ \A i \in DOMAIN operands : Linked(operands[i])
  BY <1>1, InstructionOperandsTyped DEF IInv, values
<1>. HIDE DEF operands
<1>. QED
  BY <1>2, RecordedStep DEF operands, values

(* visit_gate_instruction keeps the invariant.                             *)
LEMMA VisitGateStep ==
  ASSUME IInv, NEW s \in Statements, VisitGate(s)
  PROVE  IInv'
<1>. DEFINE outcome == IF OperandsOutcome(s.operands) # "value" THEN OperandsOutcome(s.operands)
                       ELSE InstructionOutcome(s.name, OperandValues(s.operands))
<1>1. visits' \in 0 .. MaxVisits
  BY VisitCounted DEF VisitGate
<1>2. CASE outcome = "value"
  BY <1>1, <1>2, InstructionStep DEF VisitGate
<1>3. CASE outcome # "value"
  <2>1. Conclude(outcome, "instruction", <<>>)
    BY <1>3 DEF VisitGate
  <2>. HIDE DEF outcome
  <2>. QED
    BY <1>1, <1>3, <2>1, ConcludeStep
<1>. QED
  BY <1>2, <1>3

(* visit_measure_instruction keeps the invariant.                          *)
LEMMA VisitMeasureStep ==
  ASSUME IInv, NEW s \in Statements, VisitMeasure(s)
  PROVE  IInv'
<1>. DEFINE outcome == IF OperandsOutcome(s.operands) # "value" THEN OperandsOutcome(s.operands)
                       ELSE InstructionOutcome(s.name, OperandValues(s.operands))
<1>1. visits' \in 0 .. MaxVisits
  BY VisitCounted DEF VisitMeasure
<1>2. CASE outcome = "value"
  <2>1. CASE SameQubitAndBitIndices(OperandValues(s.operands))
    BY <1>1, <1>2, <2>1, InstructionStep DEF VisitMeasure
  <2>2. CASE ~SameQubitAndBitIndices(OperandValues(s.operands))
    BY <1>1, <1>2, <2>2, FailStep DEF VisitMeasure
  <2>. QED
    BY <2>1, <2>2
<1>3. CASE outcome # "value"
  <2>1. Conclude(outcome, "instruction", <<>>)
    BY <1>3 DEF VisitMeasure
  <2>. HIDE DEF outcome
  <2>. QED
    BY <1>1, <1>3, <2>1, ConcludeStep
<1>. QED
  BY <1>2, <1>3

(* visit_function keeps the invariant when it enters a function.           *)
LEMMA EnterFunctionStep ==
  ASSUME IInv, NEW f \in FunctionDecls, EnterFunction(f)
  PROVE  IInv'
<1>1. visits' \in 0 .. MaxVisits /\ phase = "global"
  BY VisitCounted DEF EnterFunction
<1>2. f.name \in Names /\ f.returns \subseteq WrittenType
  BY ConstantsAssumption DEF ConstantsAssumption
<1>3. CASE ~\A t \in f.returns : CanBuildType(t)
  BY <1>1, <1>3, FailStep DEF EnterFunction
<1>4. CASE \A t \in f.returns : CanBuildType(t)
  <2>. DEFINE type == IF f.returns = {} THEN NoType
                      ELSE BuildType(CHOOSE t \in f.returns : TRUE)
  <2>1. type \in TypeOrNone
    <3>1. CASE f.returns = {}
      BY <3>1 DEF TypeOrNone
    <3>2. CASE f.returns # {}
      <4>1. PICK t : t = CHOOSE u \in f.returns : TRUE
        OBVIOUS
      <4>2. t \in f.returns
        BY <3>2, <4>1
      <4>3. BuildType(t) \in Type
        BY <1>2, <1>4, <4>2, BuildTypeIsType
      <4>. QED
        BY <3>2, <4>1, <4>3 DEF TypeOrNone
    <3>. QED
      BY <3>1, <3>2
  <2>2. /\ scope_stack' = PushScope /\ phase' = "parameters"
        /\ frame' = [name |-> f.name, params |-> <<>>, return_type |-> type]
        /\ UNCHANGED <<vars, functions, errors, results>>
    BY <1>4 DEF EnterFunction
  <2>. HIDE DEF type
  <2>3. frame' \in Frame
    BY <1>2, <2>1, <2>2 DEF Frame
  <2>4. scope_stack' \in Seq(Scope) /\ Len(scope_stack') = Len(scope_stack) + 1 /\ Safe'
    BY <1>1, <2>2, PushStep
  <2>5. TypeOK'
    BY <1>1, <2>2, <2>3, <2>4 DEF IInv, TypeOK
  <2>. QED
    BY <2>4, <2>5 DEF IInv, Safe
<1>. QED
  BY <1>3, <1>4

(* The parameters are declared: their kinds are those of known variables.  *)
LEMMA VisitFunctionBodyStep ==
  ASSUME IInv, VisitFunctionBody
  PROVE  IInv'
<1>. DEFINE params == [i \in DOMAIN Current.variables |-> vars[Current.variables[i]].typ.kind]
<1>1. /\ phase = "parameters" /\ phase' = "body"
      /\ frame' = [frame EXCEPT !.params = params]
      /\ UNCHANGED <<vars, scope_stack, functions, errors, results, visits>>
  BY DEF VisitFunctionBody
<1>2. params \in Seq(Kinds)
  <2>1. Current.variables \in Seq(Nat)
    BY StackOfScopes DEF IInv, Scope
  <2>2. ASSUME NEW i \in DOMAIN Current.variables
        PROVE  vars[Current.variables[i]].typ.kind \in Kinds
    <3>1. Current.variables[i] \in DOMAIN vars
      BY CurrentFits DEF Range
    <3>2. vars[Current.variables[i]] \in Variable
      BY <3>1 DEF IInv, TypeOK
    <3>. QED
      BY <3>2 DEF Variable, Type
  <2>. QED
    BY <2>1, <2>2
<1>. HIDE DEF params
<1>3. frame' \in Frame
  <2>1. frame \in Frame
    BY <1>1 DEF IInv, TypeOK
  <2>. QED
    BY <1>1, <1>2, <2>1 DEF Frame
<1>4. Safe'
  <2>1. Outer' = Outer
    BY <1>1 DEF Outer, InFunction
  <2>2. VariablesUpTo(Outer)' = VariablesUpTo(Outer)
    BY <1>1, <2>1 DEF VariablesUpTo
  <2>3. LexicalScoping'
    BY <1>1, <2>2 DEF IInv, LexicalScoping, VariablesUpTo
  <2>. QED
    BY <1>1, <2>3 DEF IInv, Safe, KnownVariables, TableLinks, NoRecursion
<1>5. TypeOK'
  BY <1>1, <1>3 DEF IInv, TypeOK
<1>. QED
  BY <1>4, <1>5 DEF IInv, Safe

(* The block of the current scope links within the stack, and so does what *)
(* promoting its return values leaves of it.                               *)
LEMMA CurrentBlock ==
  ASSUME IInv
  PROVE  /\ Current.block \in Seq(Statement)
         /\ Within(Current.block,
                   VariablesUpTo(Len(scope_stack) - 1) \cup Range(Current.variables),
                   DOMAIN functions)
BY CurrentFits DEF FitsOver, Scope

(* The function that is left is registered.                                *)
LEMMA RegisterFunctionStep ==
  ASSUME IInv, phase = "body", NEW block \in Seq(Statement),
         Within(block, VariablesUpTo(Len(scope_stack) - 1) \cup Range(Current.variables),
                DOMAIN functions),
         Register(block), visits' = visits
  PROVE  IInv'
<1>1. /\ functions' = Append(functions, FrameFunction(block))
      /\ scope_stack' = PopScope /\ phase' = "global" /\ frame' = NoFrame
      /\ vars' = vars /\ errors' = errors /\ results' = results
  BY DEF Register
<1>2. FrameFunction(block) \in Function
  <2>1. frame \in Frame /\ Current.variables \in Seq(Nat)
    BY StackOfScopes DEF IInv, TypeOK, Scope
  <2>. QED
    BY <2>1 DEF FrameFunction, Frame, Function
<1>3. Links(block) \subseteq VariablesUpTo(Len(scope_stack)) /\ Callees(block) \subseteq DOMAIN functions
  <2>1. VariablesUpTo(Len(scope_stack) - 1) \cup Range(Current.variables)
          \subseteq VariablesUpTo(Len(scope_stack))
    BY StackOfScopes DEF IInv, VariablesUpTo, Current
  <2>2. Within(block, VariablesUpTo(Len(scope_stack)), DOMAIN functions)
    BY <2>1, WithinMore
  <2>. QED
    BY <2>2, BlockWithin
<1>4. functions' \in Seq(Function) /\ Safe'
  BY <1>1, <1>2, <1>3, RegisterStep
<1>5. scope_stack' \in Seq(Scope) /\ Len(scope_stack') > 0
  BY <1>1, PopStep
<1>6. TypeOK'
  BY <1>1, <1>4, <1>5 DEF IInv, TypeOK
<1>. QED
  BY <1>4, <1>6 DEF IInv, Safe

(* The function that is left is rejected.                                  *)
LEMMA RejectFunctionStep ==
  ASSUME IInv, phase = "body", Reject, visits' = visits
  PROVE  IInv'
<1>1. /\ scope_stack' = PopScope /\ phase' = "global" /\ frame' = NoFrame
      /\ errors' = errors + 1 /\ UNCHANGED <<vars, functions, results>>
  BY DEF Reject
<1>2. Safe' /\ scope_stack' \in Seq(Scope) /\ Len(scope_stack') > 0
  BY <1>1, RejectStep, PopStep
<1>3. TypeOK'
  BY <1>1, <1>2 DEF IInv, TypeOK
<1>. QED
  BY <1>2, <1>3 DEF IInv, Safe

(* visit_function keeps the invariant when it leaves a function.           *)
LEMMA LeaveFunctionStep ==
  ASSUME IInv, LeaveFunction
  PROVE  IInv'
<1>. DEFINE block  == Current.block
            kind   == frame.return_type.kind
            failed == Unpromotable(block, kind)
            ids    == VariablesUpTo(Len(scope_stack) - 1) \cup Range(Current.variables)
<1>1. phase = "body" /\ visits' = visits /\ visits \in 0 .. MaxVisits
  BY DEF LeaveFunction, IInv, TypeOK
<1>2. /\ block \in Seq(Statement) /\ Within(block, ids, DOMAIN functions)
      /\ Len(block) \in Nat /\ DOMAIN block = 1 .. Len(block)
  BY CurrentBlock
<1>3. CASE Reject
  BY <1>1, <1>3, RejectFunctionStep
<1>4. CASE Register(block)
  BY <1>1, <1>2, <1>4, RegisterFunctionStep
<1>5. ASSUME Returns(block) # {}, frame.return_type # NoType
      PROVE  kind \in Kinds
  <2>1. frame.return_type \in TypeOrNone
    BY <1>1 DEF IInv, TypeOK, Frame
  <2>. QED
    BY <1>5, <2>1 DEF TypeOrNone, Type
<1>6. CASE /\ Returns(block) # {} /\ frame.return_type # NoType /\ failed = {}
           /\ Register(PromoteReturns(block, kind, Len(block)))
  <2>1. \A i \in Returns(block) : i <= Len(block) => Promotable(block[i].operands[1], kind)
    BY <1>6 DEF Unpromotable
  <2>2. kind \in Kinds
    BY <1>5, <1>6
  <2>. HIDE DEF kind, ids, block
  <2>3. /\ PromoteReturns(block, kind, Len(block)) \in Seq(Statement)
        /\ Within(PromoteReturns(block, kind, Len(block)), ids, DOMAIN functions)
    BY <1>2, <2>1, <2>2, WithinPromoted
  <2>. QED
    BY <1>1, <1>6, <2>3, RegisterFunctionStep DEF ids
<1>7. CASE /\ Returns(block) # {} /\ frame.return_type # NoType /\ failed # {}
           /\ Escape(ReplaceCurrent([Current EXCEPT !.block =
                       PromoteReturns(block, kind, Min(failed) - 1)]))
  <2>. DEFINE last     == Min(failed) - 1
              promoted == PromoteReturns(block, kind, last)
              scope    == [Current EXCEPT !.block = promoted]
  <2>1. failed \subseteq 1 .. Len(block)
    BY <1>2 DEF Unpromotable, Returns
  <2>2. Min(failed) \in failed /\ \A i \in failed : Min(failed) <= i
    BY <1>7, <2>1, MinOfNat
  <2>3. last \in Nat
    BY <2>1, <2>2
  <2>4. \A i \in Returns(block) : i <= last => Promotable(block[i].operands[1], kind)
    <3>1. \A i \in Returns(block) : i <= last => i \notin failed
      BY <2>1, <2>2
    <3>2. Returns(block) \subseteq 1 .. Len(block)
      BY <1>2 DEF Returns
    <3>. QED
      BY <3>1, <3>2 DEF Unpromotable
  <2>5. kind \in Kinds
    BY <1>5, <1>7
  <2>6. promoted \in Seq(Statement) /\ Within(promoted, ids, DOMAIN functions)
    <3>. HIDE DEF kind, ids, block, last
    <3>. QED
      BY <1>2, <2>3, <2>4, <2>5, WithinPromoted
  <2>. HIDE DEF promoted
  <2>7. Current \in Scope
    BY StackOfScopes DEF IInv
  <2>8. /\ scope \in Scope /\ scope.variables = Current.variables
        /\ scope.variable_table = Current.variable_table /\ scope.block = promoted
    BY <2>6, <2>7 DEF Scope
  <2>9. Escape(ReplaceCurrent(scope))
    BY <1>7 DEF promoted
  <2>. HIDE DEF scope
  <2>10. FitsOver(scope, Len(scope_stack) - 1)
    BY <2>6, <2>8, CurrentFits DEF FitsOver
  <2>. QED
    BY <1>1, <2>8, <2>9, <2>10, EscapeStep
<1>. QED
  BY <1>3, <1>4, <1>6, <1>7 DEF LeaveFunction, Returns

(* A result with a tree has the shape of one.                              *)
LEMMA RootTyped ==
  ASSUME TypeOK
  PROVE  Root \in Result
<1>1. Current.variables \in Seq(Nat) /\ Len(scope_stack) \in Nat
  BY StackOfScopes DEF Scope
<1>2. errors \in Nat /\ Len(functions) \in Nat
  BY DEF TypeOK
<1>. QED
  BY <1>1, <1>2 DEF Root, Result

(* A refused file leaves the analyzer as it was.                           *)
LEMMA RefuseStep ==
  ASSUME IInv, Refuse
  PROVE  IInv'
<1>1. Safe'
  BY SameStackStep DEF Refuse
<1>2. results' \in Seq(Result)
  <2>1. Ended("refused") \in Result
    BY EndedTyped DEF IInv
  <2>2. results \in Seq(Result)
    BY DEF IInv, TypeOK
  <2>. QED
    BY <2>1, <2>2 DEF Refuse
<1>3. TypeOK'
  BY <1>2 DEF IInv, TypeOK, Refuse
<1>. QED
  BY <1>1, <1>3 DEF IInv, Safe

(* The start of an analysis keeps the scopes of the one before.            *)
LEMMA AnalyzeStep ==
  ASSUME IInv, Analyze
  PROVE  IInv'
<1>1. Safe'
  BY SameStackStep DEF Analyze
<1>2. TypeOK'
  BY DEF IInv, TypeOK, Analyze
<1>. QED
  BY <1>1, <1>2 DEF IInv, Safe

(* The end of an analysis.                                                 *)
LEMMA FinishStep ==
  ASSUME IInv, Finish
  PROVE  IInv'
<1>. DEFINE r == IF errors = 0 /\ ~WellFormed(Root) THEN Ended("internal_error") ELSE Root
<1>1. /\ phase' = "idle" /\ results' = Append(results, r)
      /\ UNCHANGED <<vars, scope_stack, functions, frame, errors, visits>>
  BY DEF Finish
<1>2. r \in Result
  BY EndedTyped, RootTyped DEF IInv
<1>. HIDE DEF r
<1>3. results' \in Seq(Result)
  BY <1>1, <1>2 DEF IInv, TypeOK
<1>4. Safe'
  BY <1>1, SameStackStep
<1>5. TypeOK'
  BY <1>1, <1>3 DEF IInv, TypeOK
<1>. QED
  BY <1>4, <1>5 DEF IInv, Safe

-----------------------------------------------------------------------------
(* The invariant.                                                          *)

(* A default analyzer has one scope, whose table only holds constants.     *)
LEMMA InitInvariant == Init => IInv
<1>. SUFFICES ASSUME Init PROVE IInv
  OBVIOUS
<1>1. EmptyScope \in Scope
  BY DEF EmptyScope, Scope
<1>2. \A n \in Mappings : MappedValue[n] \in Literal
  BY ConstantsAssumption DEF ConstantsAssumption
<1>. DEFINE table == [n \in Names |-> IF n \in Mappings THEN MappedValue[n] ELSE Absent]
<1>3. table \in [Names -> Literal \cup Reference \cup {Absent}]
  BY <1>2
<1>4. \A n \in Names : table[n] # Absent => table[n].vars = {}
  BY <1>2 DEF Literal
<1>5. GlobalScope = [EmptyScope EXCEPT !.variable_table = table]
  BY DEF GlobalScope
<1>. HIDE DEF table
<1>6. /\ GlobalScope \in Scope /\ GlobalScope.variable_table = table
      /\ GlobalScope.variables = <<>> /\ GlobalScope.block = <<>>
  <2>1. EmptyScope.variables = <<>> /\ EmptyScope.block = <<>>
    BY DEF EmptyScope
  <2>. QED
    BY <1>1, <1>3, <1>5, <2>1 DEF Scope
<1>7. /\ scope_stack \in Seq(Scope) /\ Len(scope_stack) = 1 /\ DOMAIN scope_stack = 1 .. 1
      /\ scope_stack[1] = GlobalScope
  BY <1>6 DEF Init
<1>8. TypeOK
  BY <1>7, ConstantsAssumption DEF ConstantsAssumption, Init, TypeOK
<1>9. KnownVariables /\ TableLinks
  <2>1. Range(<<>>) = {}
    BY DEF Range
  <2>. QED
    BY <1>4, <1>6, <1>7, <2>1 DEF KnownVariables, TableLinks
<1>10. LexicalScoping /\ NoRecursion
  <2>1. Links(<<>>) = {} /\ Callees(<<>>) = {}
    BY DEF Links, Callees, Calls
  <2>. QED
    BY <1>6, <1>7, <2>1 DEF LexicalScoping, NoRecursion, Init
<1>. QED
  BY <1>8, <1>9, <1>10 DEF IInv

(* Every step keeps it.                                                    *)
LEMMA NextInvariant == IInv /\ [Next]_state => IInv'
<1>. SUFFICES ASSUME IInv, [Next]_state PROVE IInv'
  OBVIOUS
<1>1. CASE Refuse
  BY <1>1, RefuseStep
<1>2. CASE Analyze
  BY <1>2, AnalyzeStep
<1>3. CASE VisitStatement
  <2>1. ASSUME NEW d \in VariableDecls, VisitVariable(d) PROVE IInv'
    BY <2>1, VisitVariableStep
  <2>2. ASSUME NEW d \in Initializations, VisitInitialization(d) PROVE IInv'
    BY <2>2, VisitInitializationStep
  <2>3. ASSUME NEW s \in Statements, VisitAssignment(s) PROVE IInv'
    BY <2>3, VisitAssignmentStep
  <2>4. ASSUME NEW s \in Statements, VisitReturn(s) PROVE IInv'
    BY <2>4, VisitReturnStep
  <2>5. ASSUME NEW s \in Statements, VisitExpressionStatement(s) PROVE IInv'
    BY <2>5, VisitExpressionStatementStep
  <2>6. ASSUME NEW s \in Statements, VisitGate(s) PROVE IInv'
    BY <2>6, VisitGateStep
  <2>7. ASSUME NEW s \in Statements, VisitMeasure(s) PROVE IInv'
    BY <2>7, VisitMeasureStep
  <2>. QED
    BY <1>3, <2>1, <2>2, <2>3, <2>4, <2>5, <2>6, <2>7 DEF VisitStatement
<1>4. ASSUME NEW f \in FunctionDecls, EnterFunction(f) PROVE IInv'
  BY <1>4, EnterFunctionStep
<1>5. CASE Continue
  <2>1. CASE VisitFunctionBody
    BY <2>1, VisitFunctionBodyStep
  <2>2. CASE LeaveFunction
    BY <2>2, LeaveFunctionStep
  <2>3. CASE Finish
    BY <2>3, FinishStep
  <2>. QED
    BY <1>5, <2>1, <2>2, <2>3 DEF Continue
<1>6. CASE UNCHANGED state
  <2>1. /\ UNCHANGED <<vars, scope_stack, functions, phase, frame>>
        /\ UNCHANGED <<errors, results, visits>>
    BY <1>6 DEF state
  <2>2. Safe'
    BY <2>1, SameStackStep
  <2>3. TypeOK'
    BY <2>1 DEF IInv, TypeOK
  <2>. QED
    BY <2>2, <2>3 DEF IInv, Safe
<1>. QED
  BY <1>1, <1>2, <1>3, <1>4, <1>5, <1>6 DEF Next

(* IInv is an inductive invariant of the analyzer.                         *)
THEOREM Invariant == Spec => []IInv
BY InitInvariant, NextInvariant, PTL DEF Spec

(* Through any sequence of analyses the state has its type: in particular  *)
(* a function is only left with its own scope on top of another, and every *)
(* parameter list and block is made of typed values.                       *)
THEOREM TypeCorrect == Spec => []TypeOK
<1>1. IInv => TypeOK
  BY DEF IInv
<1>. QED
  BY <1>1, Invariant, PTL

(* No statement ever links to a variable outside its scope and those       *)
(* around it, for all programs and however the visits of their functions   *)
(* ended.                                                                  *)
THEOREM LexicalScopingHolds == Spec => []LexicalScoping
<1>1. IInv => LexicalScoping
  BY DEF IInv
<1>. QED
  BY <1>1, Invariant, PTL

(* No function calls itself or one registered after it.                    *)
THEOREM NoRecursionHolds == Spec => []NoRecursion
<1>1. IInv => NoRecursion
  BY DEF IInv
<1>. QED
  BY <1>1, Invariant, PTL
=============================================================================
