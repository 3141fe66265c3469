------------------------ MODULE V3xAnalyzerTheorems ------------------------
(***************************************************************************)
(* What follows from the invariant of V3xAnalyzerProofs: the account of    *)
(* the scopes on the stack, that the tree of an analysis is closed, that   *)
(* the outer scopes are left alone, and that the analyzer implements       *)
(* CallOrder.  These rest on one lemma, StepShape, which says what a step  *)
(* may do to the scope stack, the functions and the results.  What names   *)
(* stand for, what functions return, which indices are accepted and how    *)
(* the visits are accounted for have step lemmas of their own: StepNames,  *)
(* LeaveFunctionMatches, StepInRange, StepCounts.                          *)
(***************************************************************************)
EXTENDS V3xAnalyzerProofs, FiniteSetTheorems

(* Only the current scope may change, or go.                               *)
LowerKept == \A d \in 1 .. Len(scope_stack) - 1 :
               d \in DOMAIN scope_stack' /\ scope_stack'[d] = scope_stack[d]

Stays    == /\ Len(scope_stack') = Len(scope_stack)
            /\ InFunction' = InFunction
            /\ phase = "crashed" => phase' = "crashed"
            /\ UNCHANGED <<results, functions>>
Crashes  == /\ phase' = "crashed"
            /\ UNCHANGED functions
Enters   == /\ phase = "global" /\ phase' = "parameters"
            /\ Len(scope_stack') = Len(scope_stack) + 1
            /\ UNCHANGED <<results, functions>>
Leaves   == /\ phase = "body" /\ phase' = "global"
            /\ Len(scope_stack') = Len(scope_stack) - 1
            /\ UNCHANGED results
            /\ \/ UNCHANGED functions
               \/ \E block : functions' = Append(functions, FrameFunction(block))
Returned(r) == /\ phase # "crashed" /\ phase' = "idle"
               /\ Len(scope_stack') = Len(scope_stack)
               /\ results' = Append(results, r)
               /\ r.ended = "leaked" <=> InFunction
               /\ UNCHANGED functions
ReturnsOrThrows == \E r \in Result : Returned(r)

(* The current scope alone is replaced.                                    *)
LEMMA ReplaceCurrentShape ==
  ASSUME IInv, NEW scope, scope_stack' = ReplaceCurrent(scope)
  PROVE  LowerKept /\ Len(scope_stack') = Len(scope_stack)
<1>1. scope_stack \in Seq(Scope)
  BY DEF IInv, TypeOK
<1>. QED
  BY <1>1 DEF ReplaceCurrent, LowerKept

(* The stack is the same.                                                  *)
LEMMA SameStackShape ==
  ASSUME IInv, scope_stack' = scope_stack
  PROVE  LowerKept /\ Len(scope_stack') = Len(scope_stack)
BY CurrentFits, ReplaceCurrentShape

(* A visit that ends with an exception.                                    *)
LEMMA EscapeShape ==
  ASSUME IInv, NEW stack, LowerKept, Len(scope_stack') = Len(scope_stack),
         phase \in {"global", "body"}, Escape(stack)
  PROVE  ReturnsOrThrows
<1>. DEFINE how == IF phase = "global" THEN "escaped" ELSE "leaked"
<1>1. results' = Append(results, Ended(how)) /\ phase' = "idle" /\ functions' = functions
  BY DEF Escape
<1>2. Ended(how) \in Result
  BY EndedTyped DEF IInv
<1>3. Ended(how).ended = "leaked" <=> InFunction
  BY DEF Ended, InFunction
<1>. HIDE DEF how
<1>. QED
  BY <1>1, <1>2, <1>3 DEF ReturnsOrThrows, Returned

Shape == LowerKept /\ (Stays \/ Crashes \/ Enters \/ Leaves \/ ReturnsOrThrows)

(* A visit of a statement, by what it ends with.                           *)
LEMMA ConcludeShape ==
  ASSUME IInv, NEW outcome, NEW node, NEW operands, phase \in {"global", "body"},
         Conclude(outcome, node, operands)
  PROVE  Shape
<1>1. CASE Recorded(node, operands)
  <2>1. LowerKept /\ Len(scope_stack') = Len(scope_stack)
    BY <1>1, ReplaceCurrentShape DEF Recorded
  <2>. QED
    BY <1>1, <2>1 DEF Recorded, Shape, Stays, InFunction
<1>2. CASE Fail
  <2>1. LowerKept /\ Len(scope_stack') = Len(scope_stack)
    BY <1>2, SameStackShape DEF Fail
  <2>. QED
    BY <1>2, <2>1 DEF Fail, Shape, Stays, InFunction
<1>3. CASE Escape(scope_stack)
  <2>1. LowerKept /\ Len(scope_stack') = Len(scope_stack)
    BY <1>3, SameStackShape DEF Escape
  <2>. QED
    BY <1>3, <2>1, EscapeShape DEF Shape
<1>4. CASE Crash
  <2>1. LowerKept
    BY <1>4, SameStackShape DEF Crash
  <2>. QED
    BY <1>4, <2>1 DEF Crash, Shape, Crashes
<1>. QED
  BY <1>1, <1>2, <1>3, <1>4 DEF Conclude

(* A visit that fails, in whatever phase.                                  *)
LEMMA FailShape ==
  ASSUME IInv, Fail
  PROVE  Shape
<1>1. LowerKept /\ Len(scope_stack') = Len(scope_stack)
  BY SameStackShape DEF Fail
<1>. QED
  BY <1>1 DEF Fail, Shape, Stays, InFunction

(* A visit of a statement.                                                 *)
LEMMA StatementShape ==
  ASSUME IInv, VisitStatement
  PROVE  Shape
<1>1. ASSUME NEW d \in VariableDecls, VisitVariable(d) PROVE Shape
  <2>1. CASE CanBuildType(d.type)
    <3>1. PICK scope : scope_stack' = ReplaceCurrent(scope)
      BY <1>1, <2>1 DEF VisitVariable
    <3>2. LowerKept /\ Len(scope_stack') = Len(scope_stack)
      BY <3>1, ReplaceCurrentShape
    <3>. QED
      BY <1>1, <2>1, <3>2 DEF VisitVariable, Shape, Stays, InFunction
  <2>2. CASE ~CanBuildType(d.type)
    BY <1>1, <2>2, FailShape DEF VisitVariable
  <2>. QED
    BY <2>1, <2>2
<1>2. ASSUME NEW d \in Initializations, VisitInitialization(d) PROVE Shape
  <2>0. phase \in {"global", "body"}
    BY <1>2 DEF VisitInitialization, Visit
  <2>1. CASE Initialize(d, ValueOf(d.rhs))
    <3>1. PICK scope : scope_stack' = ReplaceCurrent(scope)
      BY <2>1 DEF Initialize
    <3>2. LowerKept /\ Len(scope_stack') = Len(scope_stack)
      BY <3>1, ReplaceCurrentShape
    <3>. QED
      BY <2>1, <3>2 DEF Initialize, Shape, Stays, InFunction
  <2>2. CASE \/ Outcome(d.rhs) = "error"  /\ Fail
             \/ Outcome(d.rhs) = "escape" /\ Escape(scope_stack)
             \/ Outcome(d.rhs) = "crash"  /\ Crash
    <3>1. Conclude(Outcome(d.rhs), "initialization", <<>>)
      BY <2>2 DEF Conclude
    <3>. QED
      BY <2>0, <3>1, ConcludeShape
  <2>. QED
    BY <1>2, <2>1, <2>2 DEF VisitInitialization
<1>3. ASSUME NEW s \in Statements,
             \/ VisitAssignment(s) \/ VisitReturn(s) \/ VisitExpressionStatement(s)
             \/ VisitGate(s) \/ VisitMeasure(s)
      PROVE  Shape
  <2>1. phase \in {"global", "body"}
    BY <1>3 DEF VisitAssignment, VisitReturn, VisitExpressionStatement, VisitGate, VisitMeasure, Visit
  <2>2. \/ Fail
        \/ \E outcome, node, operands : Conclude(outcome, node, operands)
    <3>1. ASSUME NEW node, NEW operands, Recorded(node, operands)
          PROVE  Conclude("value", node, operands)
      BY <3>1 DEF Conclude
    <3>2. CASE VisitAssignment(s)
      BY <3>2 DEF VisitAssignment
    <3>3. CASE VisitReturn(s)
      BY <3>3 DEF VisitReturn
    <3>4. CASE VisitExpressionStatement(s)
      BY <3>4 DEF VisitExpressionStatement
    <3>5. CASE VisitGate(s)
      BY <3>1, <3>5 DEF VisitGate
    <3>6. CASE VisitMeasure(s)
      BY <3>1, <3>6 DEF VisitMeasure
    <3>. QED
      BY <1>3, <3>2, <3>3, <3>4, <3>5, <3>6
  <2>. QED
    BY <2>1, <2>2, FailShape, ConcludeShape
<1>. QED
  BY <1>1, <1>2, <1>3 DEF VisitStatement

(* The end of a function.                                                  *)
LEMMA LeaveFunctionShape ==
  ASSUME IInv, LeaveFunction
  PROVE  Shape
<1>0. phase = "body" /\ scope_stack \in Seq(Scope) /\ Len(scope_stack) > 1
  BY DEF LeaveFunction, IInv, TypeOK
<1>1. ASSUME scope_stack' = PopScope, phase' = "global", results' = results,
             \/ functions' = functions
             \/ \E block : functions' = Append(functions, FrameFunction(block))
      PROVE  Shape
  <2>1. LowerKept /\ Len(scope_stack') = Len(scope_stack) - 1
    BY <1>0, <1>1 DEF PopScope, LowerKept
  <2>. QED
    BY <1>0, <1>1, <2>1 DEF Shape, Leaves
<1>2. CASE Reject
  BY <1>1, <1>2 DEF Reject
<1>3. ASSUME NEW block, Register(block) PROVE Shape
  BY <1>1, <1>3 DEF Register
<1>4. ASSUME NEW scope, Escape(ReplaceCurrent(scope)) PROVE Shape
  <2>1. LowerKept /\ Len(scope_stack') = Len(scope_stack)
    BY <1>4, ReplaceCurrentShape DEF Escape
  <2>. QED
    BY <1>0, <1>4, <2>1, EscapeShape DEF Shape
<1>. QED
  BY <1>2, <1>3, <1>4 DEF LeaveFunction

(* What a step may do.                                                     *)
LEMMA StepShape ==
  ASSUME IInv, [Next]_state
  PROVE  Shape
<1>1. CASE Refuse
  <2>1. LowerKept /\ Len(scope_stack') = Len(scope_stack)
    BY <1>1, SameStackShape DEF Refuse
  <2>2. Ended("refused") \in Result /\ Ended("refused").ended = "refused"
    BY EndedTyped DEF IInv, Ended
  <2>3. Returned(Ended("refused"))
    BY <1>1, <2>1, <2>2 DEF Refuse, CanAnalyze, Returned, InFunction
  <2>. QED
    BY <2>1, <2>2, <2>3 DEF Shape, ReturnsOrThrows
<1>2. CASE Analyze
  <2>1. LowerKept /\ Len(scope_stack') = Len(scope_stack)
    BY <1>2, SameStackShape DEF Analyze
  <2>. QED
    BY <1>2, <2>1 DEF Analyze, CanAnalyze, Shape, Stays, InFunction
<1>3. CASE VisitStatement
  BY <1>3, StatementShape
<1>4. ASSUME NEW f \in FunctionDecls, EnterFunction(f) PROVE Shape
  <2>1. CASE scope_stack' = PushScope /\ phase' = "parameters" /\ UNCHANGED <<functions, results>>
    <3>1. scope_stack \in Seq(Scope) /\ phase = "global"
      BY <1>4 DEF IInv, TypeOK, EnterFunction, Visit
    <3>2. LowerKept /\ Len(scope_stack') = Len(scope_stack) + 1
      BY <2>1, <3>1 DEF PushScope, LowerKept
    <3>. QED
      BY <2>1, <3>1, <3>2 DEF Shape, Enters
  <2>2. CASE Fail
    BY <2>2, FailShape
  <2>. QED
    BY <1>4, <2>1, <2>2 DEF EnterFunction
<1>5. CASE VisitFunctionBody
  <2>1. LowerKept /\ Len(scope_stack') = Len(scope_stack)
    BY <1>5, SameStackShape DEF VisitFunctionBody
  <2>. QED
    BY <1>5, <2>1 DEF VisitFunctionBody, Shape, Stays, InFunction
<1>6. CASE LeaveFunction
  BY <1>6, LeaveFunctionShape
<1>7. CASE Finish
  <2>1. LowerKept /\ Len(scope_stack') = Len(scope_stack)
    BY <1>7, SameStackShape DEF Finish
  <2>2. PICK r \in Result : results' = Append(results, r) /\ r.ended # "leaked"
    <3>1. Root \in Result /\ Root.ended = "returned"
      BY RootTyped DEF IInv, Root
    <3>2. Ended("internal_error") \in Result /\ Ended("internal_error").ended = "internal_error"
      BY EndedTyped DEF IInv, Ended
    <3>. QED
      BY <1>7, <3>1, <3>2 DEF Finish
  <2>3. Returned(r)
    BY <1>7, <2>1, <2>2 DEF Finish, Returned, InFunction
  <2>. QED
    BY <2>1, <2>3 DEF Shape, ReturnsOrThrows
<1>8. CASE UNCHANGED state
  <2>1. LowerKept /\ Len(scope_stack') = Len(scope_stack)
    BY <1>8, SameStackShape DEF state
  <2>. QED
    BY <1>8, <2>1 DEF state, Shape, Stays, InFunction
<1>. QED
  BY <1>1, <1>2, <1>3, <1>4, <1>5, <1>6, <1>7, <1>8 DEF Next, Continue

-----------------------------------------------------------------------------
(* While a function is visited, nothing changes the scopes around it: a    *)
(* declaration or statement of the body, its errors and its exceptions all *)
(* stay within the scope that push_scope made.                             *)
THEOREM OuterScopesUntouchedHolds == Spec => OuterScopesUntouched
<1>1. IInv /\ [Next]_state =>
        [InFunction => \A d \in 1 .. Len(scope_stack) - 1 :
           d \in DOMAIN scope_stack' /\ scope_stack'[d] = scope_stack[d]]_state
  BY StepShape DEF Shape, LowerKept
<1>. QED
  BY <1>1, Invariant, PTL DEF Spec, OuterScopesUntouched

-----------------------------------------------------------------------------
(* The account of the scopes.                                              *)

(* The leaks are finitely many.                                            *)
LEMMA LeaksFinite ==
  ASSUME TypeOK
  PROVE  /\ Leaks \subseteq 1 .. Len(results)
         /\ IsFiniteSet(Leaks)
         /\ Cardinality(Leaks) \in Nat
<1>1. Len(results) \in Nat /\ DOMAIN results = 1 .. Len(results)
  BY DEF TypeOK
<1>2. Leaks \subseteq 1 .. Len(results)
  BY <1>1 DEF Leaks
<1>3. IsFiniteSet(1 .. Len(results))
  BY <1>1, FS_Interval
<1>4. IsFiniteSet(Leaks)
  BY <1>2, <1>3, FS_Subset
<1>. QED
  BY <1>2, <1>4, FS_CardinalityType

(* A new result is one more leak, or none.                                 *)
LEMMA LeaksStep ==
  ASSUME IInv, IInv', NEW r \in Result, results' = Append(results, r)
  PROVE  Cardinality(Leaks)' = Cardinality(Leaks) + (IF r.ended = "leaked" THEN 1 ELSE 0)
<1>1. PICK n \in Nat : n = Len(results) /\ DOMAIN results = 1 .. n
  BY DEF IInv, TypeOK
<1>2. /\ DOMAIN results' = 1 .. n + 1 /\ results'[n + 1] = r
      /\ \A i \in 1 .. n : results'[i] = results[i]
  BY <1>1 DEF IInv, TypeOK
<1>3. Leaks' = IF r.ended = "leaked" THEN Leaks \cup {n + 1} ELSE Leaks
  <2>1. Leaks' = {i \in 1 .. n + 1 : results'[i].ended = "leaked"}
    BY <1>2 DEF Leaks
  <2>2. Leaks = {i \in 1 .. n : results'[i].ended = "leaked"}
    BY <1>1, <1>2 DEF Leaks
  <2>3. 1 .. n + 1 = (1 .. n) \cup {n + 1}
    OBVIOUS
  <2>. QED
    BY <1>2, <2>1, <2>2, <2>3
<1>4. IsFiniteSet(Leaks) /\ n + 1 \notin Leaks /\ Cardinality(Leaks) \in Nat
  BY <1>1, LeaksFinite DEF IInv
<1>5. CASE r.ended = "leaked"
  <2>1. Leaks' = Leaks \cup {n + 1}
    BY <1>3, <1>5
  <2>2. Cardinality(Leaks \cup {n + 1}) = Cardinality(Leaks) + 1
    BY <1>4, FS_AddElement
  <2>. QED
    BY <1>5, <2>1, <2>2
<1>6. CASE r.ended # "leaked"
  BY <1>3, <1>4, <1>6
<1>. QED
  BY <1>5, <1>6

(* Each scope on the stack is accounted for: push_scope and pop_scope are  *)
(* paired on every path of visit_function, except when an exception goes   *)
(* through it, which leaks exactly one scope.                              *)
THEOREM ScopesAccountedForHolds == Spec => []ScopesAccountedFor
<1>1. Init => ScopesAccountedFor
  <2>1. SUFFICES ASSUME Init PROVE ScopesAccountedFor
    OBVIOUS
  <2>2. Leaks = {}
    BY <2>1 DEF Init, Leaks
  <2>3. Cardinality(Leaks) = 0
    BY <2>2, FS_EmptySet
  <2>. QED
    BY <2>1, <2>3 DEF Init, ScopesAccountedFor, InFunction
<1>2. ScopesAccountedFor /\ IInv /\ IInv' /\ [Next]_state => ScopesAccountedFor'
  <2>1. SUFFICES ASSUME ScopesAccountedFor, IInv, IInv', [Next]_state, phase' # "crashed"
                 PROVE  ScopesAccountedFor'
    BY DEF ScopesAccountedFor
  <2>2. Shape
    BY <2>1, StepShape
  <2>3. Cardinality(Leaks) \in Nat /\ Len(scope_stack) \in Nat
    BY <2>1, LeaksFinite DEF IInv, TypeOK
  <2>4. UNCHANGED results => Cardinality(Leaks)' = Cardinality(Leaks)
    BY DEF Leaks
  <2>5. CASE Stays
    BY <2>1, <2>3, <2>4, <2>5 DEF Stays, ScopesAccountedFor
  <2>6. CASE Enters
    <3>1. ~InFunction /\ InFunction' /\ phase # "crashed"
      BY <2>6 DEF Enters, InFunction
    <3>. QED
      BY <2>1, <2>3, <2>4, <2>6, <3>1 DEF Enters, ScopesAccountedFor
  <2>7. CASE Leaves
    <3>1. InFunction /\ ~InFunction' /\ phase # "crashed"
      BY <2>7 DEF Leaves, InFunction
    <3>. QED
      BY <2>1, <2>3, <2>4, <2>7, <3>1 DEF Leaves, ScopesAccountedFor
  <2>8. CASE ReturnsOrThrows
    <3>1. PICK r \in Result : Returned(r)
      BY <2>8 DEF ReturnsOrThrows
    <3>2. ~InFunction' /\ phase # "crashed" /\ (r.ended = "leaked" <=> InFunction)
      BY <3>1 DEF Returned, InFunction
    <3>3. Cardinality(Leaks)' = Cardinality(Leaks) + (IF r.ended = "leaked" THEN 1 ELSE 0)
      BY <2>1, <3>1, LeaksStep DEF Returned
    <3>4. Len(scope_stack') = Len(scope_stack)
      BY <3>1 DEF Returned
    <3>. QED
      BY <2>1, <2>3, <3>2, <3>3, <3>4 DEF ScopesAccountedFor
  <2>. QED
    BY <2>1, <2>2, <2>5, <2>6, <2>7, <2>8 DEF Shape, Crashes
<1>. QED
  BY <1>1, <1>2, Invariant, PTL DEF Spec

(* The tree of an analysis holds every variable and function it links to,  *)
(* unless an earlier analysis of the same analyzer leaked a scope: so what *)
(* is_well_formed can object to is a node that occurs twice, only.         *)
THEOREM TreeClosedHolds == Spec => []TreeClosed
<1>1. IInv /\ ScopesAccountedFor => TreeClosed
  <2>1. SUFFICES ASSUME IInv, ScopesAccountedFor, phase = "global", Leaks = {}
                 PROVE  Closed(Root)
    BY DEF TreeClosed
  <2>2. Len(scope_stack) = 1
    <3>1. Cardinality(Leaks) = 0
      BY <2>1, FS_EmptySet
    <3>. QED
      BY <2>1, <3>1 DEF ScopesAccountedFor, InFunction
  <2>3. PICK n \in Nat : n = Len(functions) /\ DOMAIN functions = 1 .. n
    BY <2>1 DEF IInv, TypeOK
  <2>4. Root.scope = 1 /\ Root.functions = n /\ Root.variables = scope_stack[1].variables
    BY <2>2, <2>3 DEF Root, Current
  <2>5. 1 \in DOMAIN scope_stack /\ VariablesUpTo(1) = Range(scope_stack[1].variables) /\ Outer = 1
    <3>1. 1 \in DOMAIN scope_stack
      BY <2>1, <2>2 DEF IInv, TypeOK
    <3>. QED
      BY <2>1, <2>2, <3>1 DEF VariablesUpTo, Outer, InFunction
  <2>6. TreeVariables(Root) =
          VariablesUpTo(1) \cup UNION {Range(functions[k].variables) : k \in 1 .. n}
    BY <2>4, <2>5 DEF TreeVariables
  <2>7. ASSUME NEW k \in 0 .. n
        PROVE  /\ Links(TreeBlock(Root, k)) \subseteq TreeVariables(Root)
               /\ Callees(TreeBlock(Root, k)) \subseteq 1 .. n
    <3>1. CASE k = 0
      <4>1. TreeBlock(Root, k) = scope_stack[1].block
        BY <2>4, <3>1 DEF TreeBlock
      <4>2. /\ Links(scope_stack[1].block) \subseteq VariablesUpTo(1)
            /\ Callees(scope_stack[1].block) \subseteq 1 .. n
        BY <2>1, <2>3, <2>5 DEF IInv, LexicalScoping, NoRecursion
      <4>. QED
        BY <2>6, <4>1, <4>2
    <3>2. CASE k # 0
      <4>1. TreeBlock(Root, k) = functions[k].block /\ k \in 1 .. n
        BY <3>2 DEF TreeBlock
      <4>2. /\ Links(functions[k].block) \subseteq Range(functions[k].variables) \cup VariablesUpTo(1)
            /\ Callees(functions[k].block) \subseteq 1 .. k - 1
        BY <2>1, <2>3, <2>5, <4>1 DEF IInv, LexicalScoping, NoRecursion
      <4>3. Range(functions[k].variables) \subseteq TreeVariables(Root)
        BY <2>6, <4>1
      <4>. QED
        BY <2>6, <4>1, <4>2, <4>3
    <3>. QED
      BY <3>1, <3>2
  <2>. QED
    BY <2>4, <2>7 DEF Closed
<1>. QED
  BY <1>1, Invariant, ScopesAccountedForHolds, PTL

-----------------------------------------------------------------------------
(* The analyzer implements CallOrder: with calls[k] the set of functions   *)
(* the k-th registered function calls, every step defines one function     *)
(* that calls earlier ones, or changes no function.                        *)
THEOREM CallOrderImplemented == Spec => ImplementsCallOrder
<1>. DEFINE calls == [k \in DOMAIN functions |-> Callees(functions[k].block)]
<1>1. Init => CallOrderOf!Init
  BY DEF Init, CallOrderOf!Init
<1>2. IInv /\ IInv' /\ [Next]_state => [CallOrderOf!Next]_calls
  <2>1. SUFFICES ASSUME IInv, IInv', [Next]_state PROVE [CallOrderOf!Next]_calls
    OBVIOUS
  <2>2. UNCHANGED functions \/ \E block : functions' = Append(functions, FrameFunction(block))
    BY <2>1, StepShape DEF Shape, Stays, Crashes, Enters, Leaves, ReturnsOrThrows, Returned
  <2>3. CASE UNCHANGED functions
    <3>1. calls' = calls
      BY <2>3
    <3>. QED
      BY <3>1
  <2>4. ASSUME NEW block, functions' = Append(functions, FrameFunction(block))
        PROVE  CallOrderOf!Next
    <3>1. PICK n \in Nat : n = Len(functions) /\ DOMAIN functions = 1 .. n
      BY <2>1 DEF IInv, TypeOK
    <3>. DEFINE callees == Callees(functions'[n + 1].block)
    <3>2. /\ DOMAIN functions' = 1 .. n + 1
          /\ \A k \in 1 .. n : functions'[k] = functions[k]
      BY <2>1, <2>4, <3>1 DEF IInv, TypeOK
    <3>3. callees \subseteq 1 .. n
      BY <2>1, <3>2 DEF IInv, NoRecursion
    <3>4. Len(calls) = n /\ DOMAIN calls = 1 .. n /\ calls = [k \in 1 .. n |-> calls[k]]
      BY <3>1
    <3>5. calls' = [k \in 1 .. n + 1 |-> IF k \in 1 .. n THEN calls[k] ELSE callees]
      BY <3>1, <3>2
    <3>. HIDE DEF callees, calls
    <3>6. calls' = Append(calls, callees)
      BY <3>4, <3>5
    <3>7. callees \in SUBSET (1 .. Len(calls))
      BY <3>3, <3>4
    <3>. QED
      BY <3>6, <3>7 DEF CallOrderOf!Next, CallOrderOf!Define, calls
  <2>. QED
    BY <2>2, <2>3, <2>4
<1>. QED
  BY <1>1, <1>2, Invariant, PTL DEF Spec, ImplementsCallOrder, CallOrderOf!Spec

-----------------------------------------------------------------------------
(* Names and the variables they stand for: a step leaves them alone, pushes *)
(* a scope without any, or declares one variable in the current scope.     *)
SameNames(s, t) == t.variables = s.variables /\ t.variable_table = s.variable_table

NewestIn(scope, known) ==
  \A i \in DOMAIN scope.variables :
    LET id == scope.variables[i]
    IN  (\A j \in i + 1 .. Len(scope.variables) : known[scope.variables[j]].name # known[id].name)
          => scope.variable_table[known[id].name] = VariableRef(id, known[id].typ)

NamesKept ==
  /\ vars' = vars
  /\ \A d \in DOMAIN scope_stack' : /\ d \in DOMAIN scope_stack
                                    /\ SameNames(scope_stack[d], scope_stack'[d])

NamesPushed == vars' = vars /\ scope_stack' = PushScope

Declares(name, type, scope) ==
  /\ vars' = Append(vars, [name |-> name, typ |-> type])
  /\ scope_stack' = ReplaceCurrent(scope)
  /\ SameNames(WithVariable(Current, Len(vars) + 1, name, type), scope)

NameAdded == \E name \in Names, type \in Type : \E scope : Declares(name, type, scope)

(* The current scope may gain statements.                                  *)
LEMMA StatementsOnly ==
  ASSUME IInv, NEW scope, scope_stack' = ReplaceCurrent(scope), SameNames(Current, scope),
         vars' = vars
  PROVE  NamesKept
<1>1. scope_stack \in Seq(Scope) /\ Len(scope_stack) \in Nat
  BY DEF IInv, TypeOK
<1>2. DOMAIN scope_stack' = DOMAIN scope_stack
  BY <1>1 DEF ReplaceCurrent
<1>3. \A d \in DOMAIN scope_stack :
        scope_stack'[d] = IF d = Len(scope_stack) THEN scope ELSE scope_stack[d]
  BY <1>1 DEF ReplaceCurrent
<1>. QED
  BY <1>2, <1>3 DEF NamesKept, SameNames, Current

LEMMA StackKept ==
  ASSUME vars' = vars, scope_stack' = scope_stack
  PROVE  NamesKept
BY DEF NamesKept, SameNames

LEMMA StatementAdded ==
  ASSUME NEW scope \in Scope, NEW node, NEW operands
  PROVE  SameNames(scope, WithStatement(scope, node, operands))
BY DEF Scope, SameNames, WithStatement

LEMMA CurrentIsScope ==
  ASSUME IInv
  PROVE  /\ scope_stack \in Seq(Scope) /\ Len(scope_stack) \in Nat \ {0}
         /\ Current \in Scope /\ vars \in Seq(Variable)
BY DEF IInv, TypeOK, Current

(* A visit, by what it ends with.                                          *)
LEMMA ConcludeNames ==
  ASSUME IInv, NEW outcome, NEW node, NEW operands, Conclude(outcome, node, operands)
  PROVE  NamesKept
<1>1. CASE Recorded(node, operands)
  BY <1>1, CurrentIsScope, StatementAdded, StatementsOnly DEF Recorded
<1>2. CASE Fail \/ Escape(scope_stack) \/ Crash
  BY <1>2, StackKept DEF Fail, Escape, Crash
<1>. QED
  BY <1>1, <1>2 DEF Conclude

(* A declaration, with its initialization or without.                      *)
LEMMA InitializeNames ==
  ASSUME IInv, NEW d \in Initializations, NEW rhs, Initialize(d, rhs)
  PROVE  NamesKept \/ NameAdded
<1>1. d.name \in Names /\ d.type \in WrittenType
  BY ConstantsAssumption
<1>2. CASE CanBuildType(d.type)
  <2>. DEFINE added == WithVariable(Current, Len(vars) + 1, d.name, BuildType(d.type))
  <2>1. BuildType(d.type) \in Type
    BY <1>1, <1>2, BuildTypeIsType
  <2>2. PICK lhs : \/ scope_stack' = ReplaceCurrent(added)
                   \/ scope_stack' = ReplaceCurrent(
                        WithStatement(added, "initialization", Assigned(lhs, rhs)))
    BY <1>2 DEF Initialize
  <2>3. vars' = Append(vars, [name |-> d.name, typ |-> BuildType(d.type)])
    BY <1>2 DEF Initialize
  <2>4. \A operands : SameNames(added, WithStatement(added, "initialization", operands))
    BY CurrentIsScope DEF SameNames, WithStatement, WithVariable, Scope
  <2>5. SameNames(added, added)
    BY DEF SameNames
  <2>. HIDE DEF added
  <2>6. PICK scope : scope_stack' = ReplaceCurrent(scope) /\ SameNames(added, scope)
    BY <2>2, <2>4, <2>5
  <2>. QED
    BY <1>1, <2>1, <2>3, <2>6 DEF NameAdded, Declares, added
<1>3. CASE ~CanBuildType(d.type)
  <2>1. PICK lhs : \/ scope_stack' = ReplaceCurrent(Current)
                   \/ scope_stack' = ReplaceCurrent(
                        WithStatement(Current, "initialization", Assigned(lhs, rhs)))
    BY <1>3 DEF Initialize
  <2>2. vars' = vars
    BY <1>3 DEF Initialize
  <2>3. SameNames(Current, Current)
    BY DEF SameNames
  <2>. QED
    BY <2>1, <2>2, <2>3, CurrentIsScope, StatementAdded, StatementsOnly
<1>. QED
  BY <1>2, <1>3

LEMMA StatementNames ==
  ASSUME IInv, VisitStatement
  PROVE  NamesKept \/ NameAdded
<1>1. ASSUME NEW d \in VariableDecls, VisitVariable(d) PROVE NamesKept \/ NameAdded
  <2>1. CASE CanBuildType(d.type)
    <3>. DEFINE added == WithVariable(Current, Len(vars) + 1, d.name, BuildType(d.type))
    <3>1. d.name \in Names /\ d.type \in WrittenType
      BY ConstantsAssumption
    <3>2. BuildType(d.type) \in Type
      BY <2>1, <3>1, BuildTypeIsType
    <3>3. vars' = Append(vars, [name |-> d.name, typ |-> BuildType(d.type)])
      BY <1>1, <2>1 DEF VisitVariable
    <3>4. scope_stack' = ReplaceCurrent(added)
      BY <1>1, <2>1, <3>3, CurrentIsScope DEF VisitVariable
    <3>5. SameNames(added, added)
      BY DEF SameNames
    <3>. QED
      BY <3>1, <3>2, <3>3, <3>4, <3>5 DEF NameAdded, Declares
  <2>2. CASE ~CanBuildType(d.type)
    BY <1>1, <2>2, StackKept DEF VisitVariable, Fail
  <2>. QED
    BY <2>1, <2>2
<1>2. ASSUME NEW d \in Initializations, VisitInitialization(d) PROVE NamesKept \/ NameAdded
  BY <1>2, InitializeNames, StackKept DEF VisitInitialization, Fail, Escape, Crash
<1>3. ASSUME NEW s \in Statements,
             \/ VisitAssignment(s) \/ VisitReturn(s) \/ VisitExpressionStatement(s)
             \/ VisitGate(s) \/ VisitMeasure(s)
      PROVE  NamesKept
  <2>1. ASSUME NEW node, NEW operands, Recorded(node, operands)
        PROVE  Conclude("value", node, operands)
    BY <2>1 DEF Conclude
  <2>2. CASE Fail
    BY <2>2, StackKept DEF Fail
  <2>3. CASE VisitAssignment(s)
    BY <2>2, <2>3, ConcludeNames DEF VisitAssignment
  <2>4. CASE VisitReturn(s)
    BY <2>4, ConcludeNames DEF VisitReturn
  <2>5. CASE VisitExpressionStatement(s)
    BY <2>2, <2>5, ConcludeNames DEF VisitExpressionStatement
  <2>6. CASE VisitGate(s)
    BY <2>1, <2>6, ConcludeNames DEF VisitGate
  <2>7. CASE VisitMeasure(s)
    BY <2>1, <2>2, <2>7, ConcludeNames DEF VisitMeasure
  <2>. QED
    BY <1>3, <2>3, <2>4, <2>5, <2>6, <2>7
<1>. QED
  BY <1>1, <1>2, <1>3 DEF VisitStatement

(* The end of a function takes the names of its scope with it; return      *)
(* values that have been promoted before one escapes are no names.         *)
LEMMA LeaveFunctionNames ==
  ASSUME IInv, LeaveFunction
  PROVE  NamesKept
<1>1. CASE vars' = vars /\ scope_stack' = PopScope
  <2>1. \A d \in DOMAIN scope_stack' : d \in DOMAIN scope_stack /\ scope_stack'[d] = scope_stack[d]
    BY <1>1, CurrentIsScope DEF PopScope
  <2>. QED
    BY <1>1, <2>1 DEF NamesKept, SameNames
<1>2. ASSUME NEW block, Escape(ReplaceCurrent([Current EXCEPT !.block = block]))
      PROVE  NamesKept
  <2>1. SameNames(Current, [Current EXCEPT !.block = block])
    BY CurrentIsScope DEF Scope, SameNames
  <2>. QED
    BY <1>2, <2>1, StatementsOnly DEF Escape
<1>. QED
  BY <1>1, <1>2 DEF LeaveFunction, Reject, Register

LEMMA StepNames ==
  ASSUME IInv, [Next]_state
  PROVE  NamesKept \/ NamesPushed \/ NameAdded
<1>1. CASE Refuse \/ Analyze \/ VisitFunctionBody \/ Finish \/ UNCHANGED state
  BY <1>1, StackKept DEF Refuse, Analyze, VisitFunctionBody, Finish, state
<1>2. ASSUME NEW f \in FunctionDecls, EnterFunction(f) PROVE NamesKept \/ NamesPushed
  BY <1>2, StackKept DEF EnterFunction, Fail, NamesPushed
<1>. QED
  BY <1>1, <1>2, StatementNames, LeaveFunctionNames DEF Next, Continue

(* A declaration makes its name stand for the new variable, and only that  *)
(* name.                                                                   *)
LEMMA DeclaredIsNewest ==
  ASSUME NEW scope \in Scope, NEW known \in Seq(Variable), NEW name \in Names, NEW type \in Type,
         Range(scope.variables) \subseteq DOMAIN known, NewestIn(scope, known), NEW t,
         SameNames(WithVariable(scope, Len(known) + 1, name, type), t)
  PROVE  NewestIn(t, Append(known, [name |-> name, typ |-> type]))
<1>. DEFINE new == Append(known, [name |-> name, typ |-> type])
            id  == Len(known) + 1
            old == scope.variables
<1>1. old \in Seq(Nat) /\ Len(old) \in Nat /\ DOMAIN old = 1 .. Len(old)
  BY DEF Scope
<1>2. t.variables = Append(old, id)
  BY DEF SameNames, WithVariable, Scope
<1>3. t.variable_table = [scope.variable_table EXCEPT ![name] = VariableRef(id, type)]
  BY DEF SameNames, WithVariable, Scope, TableAdd
<1>4. /\ Len(known) \in Nat /\ DOMAIN known = 1 .. Len(known)
      /\ new[id] = [name |-> name, typ |-> type]
      /\ \A k \in DOMAIN known : new[k] = known[k] /\ known[k].name \in Names
  <2>1. Len(known) \in Nat /\ DOMAIN known = 1 .. Len(known)
    OBVIOUS
  <2>2. \A k \in DOMAIN known : known[k].name \in Names
    <3>1. \A k \in DOMAIN known : known[k] \in Variable
      BY <2>1
    <3>. QED
      BY <3>1 DEF Variable
  <2>3. \A e : /\ Append(known, e)[Len(known) + 1] = e
               /\ \A k \in DOMAIN known : Append(known, e)[k] = known[k]
    BY <2>1
  <2>. QED
    BY <2>1, <2>2, <2>3
<1>5. /\ Len(t.variables) = Len(old) + 1 /\ DOMAIN t.variables = 1 .. Len(old) + 1
      /\ t.variables[Len(old) + 1] = id
      /\ \A j \in 1 .. Len(old) : t.variables[j] = old[j]
  BY <1>1, <1>2, <1>4
<1>6. \A j \in 1 .. Len(old) : old[j] \in DOMAIN known
  BY <1>1 DEF Range
<1>. HIDE DEF new, old, id
<1>7. SUFFICES ASSUME NEW i \in DOMAIN t.variables,
                      \A j \in i + 1 .. Len(t.variables) :
                        new[t.variables[j]].name # new[t.variables[i]].name
               PROVE  t.variable_table[new[t.variables[i]].name]
                        = VariableRef(t.variables[i], new[t.variables[i]].typ)
  BY DEF NewestIn, new
<1>8. CASE i = Len(old) + 1
  <2>1. scope.variable_table \in [Names -> Literal \cup Reference \cup {Absent}]
    BY DEF Scope
  <2>. QED
    BY <1>3, <1>4, <1>5, <1>8, <2>1
<1>9. CASE i \in 1 .. Len(old)
  <2>1. t.variables[i] = old[i] /\ new[old[i]] = known[old[i]] /\ known[old[i]].name \in Names
    BY <1>4, <1>5, <1>6, <1>9
  <2>2. Len(old) + 1 \in i + 1 .. Len(t.variables)
    BY <1>1, <1>5, <1>9
  <2>3. known[old[i]].name # name
    BY <1>4, <1>5, <1>7, <2>1, <2>2
  <2>4. ASSUME NEW j \in i + 1 .. Len(old) PROVE known[old[j]].name # known[old[i]].name
    <3>1. j \in 1 .. Len(old) /\ j \in i + 1 .. Len(t.variables)
      BY <1>1, <1>5, <1>9
    <3>. QED
      BY <1>4, <1>5, <1>6, <1>7, <2>1, <3>1
  <2>5. scope.variable_table[known[old[i]].name] = VariableRef(old[i], known[old[i]].typ)
    BY <1>1, <1>9, <2>4 DEF NewestIn, old
  <2>. QED
    BY <1>3, <2>1, <2>3, <2>5
<1>. QED
  BY <1>1, <1>5, <1>8, <1>9

(* Whatever is declared again, shadowed or declared in vain, in however    *)
(* many functions and analyses: within a scope a name stands for the last  *)
(* variable declared with it (VariableTable::add).                         *)
THEOREM TableHoldsNewestHolds == Spec => []TableHoldsNewest
<1>1. Init => TableHoldsNewest
  BY DEF Init, TableHoldsNewest, GlobalScope, EmptyScope
<1>2. IInv /\ TableHoldsNewest /\ [Next]_state => TableHoldsNewest'
  <2>1. SUFFICES ASSUME IInv, TableHoldsNewest, [Next]_state PROVE TableHoldsNewest'
    OBVIOUS
  <2>2. \A d \in DOMAIN scope_stack : NewestIn(scope_stack[d], vars)
    BY <2>1 DEF TableHoldsNewest, NewestIn
  <2>3. SUFFICES ASSUME NEW d \in DOMAIN scope_stack' PROVE NewestIn(scope_stack'[d], vars')
    BY DEF TableHoldsNewest, NewestIn
  <2>4. CASE NamesKept
    BY <2>2, <2>3, <2>4 DEF NamesKept, SameNames, NewestIn
  <2>5. CASE NamesPushed
    <3>1. \/ d \in DOMAIN scope_stack /\ scope_stack'[d] = scope_stack[d]
          \/ scope_stack'[d] = EmptyScope
      BY <2>1, <2>3, <2>5, CurrentIsScope DEF NamesPushed, PushScope
    <3>2. NewestIn(EmptyScope, vars)
      BY DEF NewestIn, EmptyScope
    <3>. QED
      BY <2>2, <2>5, <3>1, <3>2 DEF NamesPushed
  <2>6. CASE NameAdded
    <3>1. PICK name \in Names, type \in Type : \E scope : Declares(name, type, scope)
      BY <2>6 DEF NameAdded
    <3>2. PICK scope : Declares(name, type, scope)
      BY <3>1
    <3>3. /\ d \in DOMAIN scope_stack
          /\ scope_stack'[d] = IF d = Len(scope_stack) THEN scope ELSE scope_stack[d]
      BY <2>1, <2>3, <3>2, CurrentIsScope DEF Declares, ReplaceCurrent
    <3>4. Range(scope_stack[d].variables) \subseteq DOMAIN vars
      BY <2>1, <3>3 DEF IInv, KnownVariables
    <3>5. CASE d = Len(scope_stack)
      <4>1. Range(Current.variables) \subseteq DOMAIN vars /\ NewestIn(Current, vars)
        BY <2>2, <3>3, <3>4, <3>5 DEF Current
      <4>. QED
        BY <2>1, <3>2, <3>3, <3>5, <4>1, CurrentIsScope, DeclaredIsNewest DEF Declares
    <3>6. CASE d # Len(scope_stack)
      <4>. DEFINE ids == scope_stack[d].variables
      <4>1. scope_stack'[d] = scope_stack[d] /\ NewestIn(scope_stack[d], vars)
        BY <2>2, <3>3, <3>6
      <4>2. \A i \in DOMAIN ids : vars'[ids[i]] = vars[ids[i]]
        BY <2>1, <3>2, <3>4, CurrentIsScope DEF Declares, Range
      <4>3. Len(ids) \in Nat /\ DOMAIN ids = 1 .. Len(ids)
        BY <2>1, <3>3, CurrentIsScope DEF Scope
      <4>4. \A i \in DOMAIN ids : \A j \in i + 1 .. Len(ids) : j \in DOMAIN ids
        BY <4>3
      <4>. QED
        BY <4>1, <4>2, <4>4 DEF NewestIn
    <3>. QED
      BY <3>5, <3>6
  <2>. QED
    BY <2>1, <2>4, <2>5, <2>6, StepNames
<1>. QED
  BY <1>1, <1>2, Invariant, PTL DEF Spec

-----------------------------------------------------------------------------
(* What a function that can be called returns.                             *)
Matches(f) ==
  /\ (Returns(f.block) = {}) <=> (f.return_type = NoType)
  /\ \A i \in Returns(f.block) : Promotable(f.block[i].operands[1], f.return_type.kind)

(* Only the end of a function changes the functions.                       *)
LEMMA OthersKeepFunctions ==
  ASSUME [Next]_state
  PROVE  LeaveFunction \/ functions' = functions
<1>1. ASSUME NEW outcome, NEW node, NEW operands, Conclude(outcome, node, operands)
      PROVE  functions' = functions
  BY <1>1 DEF Conclude, Recorded, Fail, Escape, Crash
<1>2. CASE VisitStatement
  <2>1. ASSUME NEW d \in VariableDecls, VisitVariable(d) PROVE functions' = functions
    BY <2>1 DEF VisitVariable, Fail
  <2>2. ASSUME NEW d \in Initializations, VisitInitialization(d) PROVE functions' = functions
    BY <2>2 DEF VisitInitialization, Initialize, Fail, Escape, Crash
  <2>3. ASSUME NEW s \in Statements,
               \/ VisitAssignment(s) \/ VisitReturn(s) \/ VisitExpressionStatement(s)
               \/ VisitGate(s) \/ VisitMeasure(s)
        PROVE  functions' = functions
    BY <1>1, <2>3 DEF VisitAssignment, VisitReturn, VisitExpressionStatement, VisitGate,
                      VisitMeasure, Fail, Recorded
  <2>. QED
    BY <1>2, <2>1, <2>2, <2>3 DEF VisitStatement
<1>3. CASE Refuse \/ Analyze \/ VisitFunctionBody \/ Finish \/ UNCHANGED state
  BY <1>3 DEF Refuse, Analyze, VisitFunctionBody, Finish, state
<1>4. ASSUME NEW f \in FunctionDecls, EnterFunction(f) PROVE functions' = functions
  BY <1>4 DEF EnterFunction, Fail
<1>. QED
  BY <1>2, <1>3, <1>4 DEF Next, Continue

(* A value that has been promoted to a kind fits it.                       *)
LEMMA PromotedFits ==
  ASSUME NEW v \in Value, NEW kind \in Kinds, Promotable(v, kind)
  PROVE  Promotable(Promoted(v, kind), kind)
<1>1. CASE v.typ.kind = kind \/ v.node # "const"
  BY <1>1 DEF Promoted
<1>2. CASE ~(v.typ.kind = kind \/ v.node # "const")
  <2>. DEFINE k == IF kind = "axis" THEN "float_array" ELSE kind
              w == [v EXCEPT !.typ.kind = k]
  <2>1. v.typ \in Type
    BY <1>2 DEF Value
  <2>2. w.typ.kind = k /\ w.node = v.node /\ w.size = v.size
    BY <2>1 DEF Value, AnyValue, Type
  <2>3. Promoted(v, kind) = w
    BY <1>2 DEF Promoted
  <2>4. v.node = "const" /\ (kind = "axis" => v.size = 3)
    BY <1>2 DEF Promotable
  <2>5. "float_array" \in PromotesFrom["axis"]
    BY DEF PromotesFrom, Kinds, ScalarKinds, ArrayKinds
  <2>. HIDE DEF w
  <2>. QED
    BY <2>2, <2>3, <2>4, <2>5 DEF Promotable
<1>. QED
  BY <1>1, <1>2

(* When every return value can be promoted, what is registered returns     *)
(* values of the declared type.                                            *)
LEMMA PromotedMatches ==
  ASSUME NEW block \in Seq(Statement), NEW kind \in Kinds, Unpromotable(block, kind) = {}
  PROVE  LET promoted == PromoteReturns(block, kind, Len(block))
         IN  /\ Returns(promoted) = Returns(block)
             /\ \A i \in Returns(promoted) : Promotable(promoted[i].operands[1], kind)
<1>. DEFINE promoted == PromoteReturns(block, kind, Len(block))
<1>1. Len(block) \in Nat /\ DOMAIN block = 1 .. Len(block)
  OBVIOUS
<1>2. DOMAIN promoted = DOMAIN block
  BY DEF PromoteReturns
<1>3. ASSUME NEW i \in DOMAIN block PROVE promoted[i].node = block[i].node
  <2>1. block[i] \in Statement
    BY <1>1
  <2>. QED
    BY <2>1 DEF PromoteReturns, Statement
<1>4. Returns(promoted) = Returns(block)
  BY <1>2, <1>3 DEF Returns
<1>5. ASSUME NEW i \in Returns(block) PROVE Promotable(promoted[i].operands[1], kind)
  <2>1. /\ i \in DOMAIN block /\ block[i].node = "return" /\ i <= Len(block)
        /\ block[i] \in Statement
    BY <1>1 DEF Returns
  <2>2. block[i].operands[1] \in Value /\ "operands" \in DOMAIN block[i]
    BY <2>1 DEF Statement
  <2>3. Promotable(block[i].operands[1], kind)
    BY DEF Unpromotable
  <2>4. promoted[i].operands = <<Promoted(block[i].operands[1], kind)>>
    BY <2>1, <2>2 DEF PromoteReturns
  <2>. QED
    BY <2>2, <2>3, <2>4, PromotedFits
<1>. QED
  BY <1>4, <1>5

LEMMA LeaveFunctionMatches ==
  ASSUME IInv, LeaveFunction
  PROVE  \/ functions' = functions
         \/ \E f : functions' = Append(functions, f) /\ Matches(f)
<1>. DEFINE block == Current.block
            kind  == frame.return_type.kind
<1>1. block \in Seq(Statement)
  BY CurrentIsScope DEF Scope
<1>2. ASSUME NEW b, Register(b)
      PROVE  /\ functions' = Append(functions, FrameFunction(b))
             /\ FrameFunction(b).block = b
             /\ FrameFunction(b).return_type = frame.return_type
  BY <1>2 DEF Register, FrameFunction
<1>3. CASE Returns(block) = {} /\ frame.return_type = NoType /\ Register(block)
  BY <1>2, <1>3 DEF Matches
<1>4. CASE /\ Returns(block) # {} /\ frame.return_type # NoType /\ Unpromotable(block, kind) = {}
           /\ Register(PromoteReturns(block, kind, Len(block)))
  <2>. DEFINE promoted == PromoteReturns(block, kind, Len(block))
  <2>1. frame.return_type \in TypeOrNone
    BY DEF LeaveFunction, IInv, TypeOK, Frame
  <2>2. kind \in Kinds
    BY <1>4, <2>1 DEF TypeOrNone, Type
  <2>. HIDE DEF block, kind
  <2>3. /\ Returns(promoted) = Returns(block)
        /\ \A i \in Returns(promoted) : Promotable(promoted[i].operands[1], kind)
    BY <1>1, <1>4, <2>2, PromotedMatches
  <2>4. /\ functions' = Append(functions, FrameFunction(promoted))
        /\ FrameFunction(promoted).block = promoted
        /\ FrameFunction(promoted).return_type = frame.return_type
    BY <1>2, <1>4
  <2>. HIDE DEF promoted
  <2>5. Matches(FrameFunction(promoted))
    BY <1>4, <2>3, <2>4 DEF Matches, kind
  <2>. QED
    BY <2>4, <2>5
<1>. QED
  BY <1>3, <1>4 DEF LeaveFunction, Reject, Escape

(* Whatever a function returns where, and however its visit ends: one that *)
(* can be called returns values of its type, and none if it has none       *)
(* (visit_function).                                                       *)
THEOREM ReturnsMatchSignatureHolds == Spec => []ReturnsMatchSignature
<1>1. Init => ReturnsMatchSignature
  BY DEF Init, ReturnsMatchSignature
<1>2. IInv /\ ReturnsMatchSignature /\ [Next]_state => ReturnsMatchSignature'
  <2>1. SUFFICES ASSUME IInv, ReturnsMatchSignature, [Next]_state PROVE ReturnsMatchSignature'
    OBVIOUS
  <2>2. \A k \in DOMAIN functions : Matches(functions[k])
    BY <2>1 DEF ReturnsMatchSignature, Matches
  <2>3. SUFFICES \A k \in DOMAIN functions' : Matches(functions'[k])
    BY DEF ReturnsMatchSignature, Matches
  <2>4. CASE functions' = functions
    BY <2>2, <2>4
  <2>5. ASSUME NEW f, functions' = Append(functions, f), Matches(f)
        PROVE  \A k \in DOMAIN functions' : Matches(functions'[k])
    <3>1. functions \in Seq(Function)
      BY <2>1 DEF IInv, TypeOK
    <3>2. ASSUME NEW k \in DOMAIN functions'
          PROVE  functions'[k] = f \/ (k \in DOMAIN functions /\ functions'[k] = functions[k])
      BY <2>5, <3>1, <3>2
    <3>. QED
      BY <2>2, <2>5, <3>2
  <2>. QED
    BY <2>1, <2>4, <2>5, OthersKeepFunctions, LeaveFunctionMatches
<1>. QED
  BY <1>1, <1>2, Invariant, PTL DEF Spec

-----------------------------------------------------------------------------
(* Indices.  A name stands for a constant or a reference whose type is that *)
(* of the variable, and an index that is accepted is below its size.       *)
InRange(v, known) ==
  \A n \in DOMAIN v.indices : \A id \in v.vars :
    id \in DOMAIN known /\ v.indices[n] < known[id].typ.size

BlockInRange(block, known) ==
  \A i \in DOMAIN block : \A j \in DOMAIN block[i].operands :
    InRange(block[i].operands[j], known)

TypesKnown(table, known) ==
  \A n \in Names : table[n] # Absent =>
    \A id \in table[n].vars : id \in DOMAIN known /\ table[n].typ = known[id].typ

ScopeInRange(scope, known) ==
  BlockInRange(scope.block, known) /\ TypesKnown(scope.variable_table, known)

AllInRange(stack, finished, known) ==
  /\ \A d \in DOMAIN stack : ScopeInRange(stack[d], known)
  /\ \A k \in DOMAIN finished : BlockInRange(finished[k].block, known)

InRangeNow == AllInRange(scope_stack, functions, vars)

(* Values that have no index, or link to nothing.                          *)
Inert(v) == v.indices = <<>> \/ v.vars = {}

(* Such a value is in range, whatever is known.                            *)
LEMMA InertInRange ==
  ASSUME NEW v, Inert(v), NEW known
  PROVE  InRange(v, known)
BY DEF Inert, InRange

(* What a name stands for has no index; a call shows those of none.        *)
LEMMA LookupInert ==
  ASSUME IInv, NEW name \in Names, Visible(name)
  PROVE  Inert(Lookup(name))
<1>1. Lookup(name) \in Literal \cup Reference
  BY LookupTyped DEF IInv
<1>. QED
  BY <1>1 DEF Literal, Reference, VariableRef, Inert

LEMMA CallInert ==
  ASSUME NEW name, NEW args
  PROVE  Inert(CallValue(name, args))
BY DEF CallValue, Const, FunctionCall, Inert

LEMMA PromotedInRange ==
  ASSUME NEW v \in Value, NEW kind, NEW known, InRange(v, known)
  PROVE  InRange(Promoted(v, kind), known)
<1>1. Promoted(v, kind).vars = v.vars /\ Promoted(v, kind).indices = v.indices
  BY DEF Promoted, Value, AnyValue
<1>. QED
  BY <1>1 DEF InRange

(* An index that is accepted.                                              *)
LEMMA IndexInRange ==
  ASSUME IInv, InRangeNow, NEW e \in SimpleExpression, e.node = "index",
         IndexOutcome(e) = "value"
  PROVE  InRange(SimpleValue(e), vars)
<1>. DEFINE v  == Lookup(e.name)
            id == CHOOSE id \in v.vars : TRUE
            d  == Max(Declaring(e.name))
<1>1. e.name \in Names /\ e.indices \in Seq(Nat)
  BY DEF SimpleExpression
<1>2. /\ Visible(e.name) /\ v.node = "variable_ref"
      /\ \A i \in DOMAIN e.indices : e.indices[i] < v.typ.size
  BY DEF IndexOutcome
<1>3. v \in Literal \cup Reference
  BY <1>1, <1>2, LookupTyped DEF IInv
<1>4. \E i \in Nat : v.vars = {i}
  BY <1>2, <1>3, ReferenceParts DEF Literal
<1>5. id \in v.vars
  BY <1>4
<1>6. Declaring(e.name) \subseteq 1 .. Len(scope_stack) /\ Len(scope_stack) \in Nat
  BY StackOfScopes DEF Declaring, IInv
<1>7. d \in Declaring(e.name)
  BY <1>2, <1>6, MaxOfNat DEF Visible
<1>8. /\ d \in DOMAIN scope_stack /\ v = scope_stack[d].variable_table[e.name]
      /\ scope_stack[d].variable_table[e.name] # Absent
  BY <1>7 DEF Declaring, Lookup
<1>9. id \in DOMAIN vars /\ v.typ = vars[id].typ
  BY <1>1, <1>5, <1>8 DEF InRangeNow, AllInRange, ScopeInRange, TypesKnown
<1>10. SimpleValue(e) = IndexRef(id, v.typ, e.indices)
  BY DEF SimpleValue
<1>. HIDE DEF v, id
<1>. QED
  BY <1>2, <1>9, <1>10 DEF InRange, IndexRef

LEMMA SimpleInRange ==
  ASSUME IInv, InRangeNow, NEW e \in SimpleExpression, SimpleOutcome(e) = "value"
  PROVE  InRange(SimpleValue(e), vars)
<1>1. CASE e.node = "literal"
  <2>1. e.value \in Literal /\ SimpleValue(e) = e.value
    BY <1>1 DEF SimpleExpression, SimpleValue
  <2>. QED
    BY <2>1, InertInRange DEF Literal, Inert
<1>2. CASE e.node = "identifier"
  <2>1. e.name \in Names /\ Visible(e.name) /\ SimpleValue(e) = Lookup(e.name)
    BY <1>2 DEF SimpleExpression, SimpleOutcome, SimpleValue
  <2>. QED
    BY <2>1, LookupInert, InertInRange
<1>3. CASE e.node = "index"
  BY <1>3, IndexInRange DEF SimpleOutcome
<1>4. CASE e.node = "call"
  BY <1>4, CallInert, InertInRange DEF SimpleValue
<1>. QED
  BY <1>1, <1>2, <1>3, <1>4 DEF SimpleExpression

LEMMA ExpressionInRange ==
  ASSUME IInv, InRangeNow, NEW e \in Expression, Outcome(e) = "value"
  PROVE  InRange(ValueOf(e), vars)
<1>1. CASE e.node # "call"
  BY <1>1, SimpleInRange DEF Expression, Outcome, ValueOf
<1>2. CASE e.node = "call"
  BY <1>2, CallInert, InertInRange DEF ValueOf
<1>. QED
  BY <1>1, <1>2

LEMMA OperandsInRange ==
  ASSUME IInv, InRangeNow, NEW es \in Seq(Expression), OperandsOutcome(es) = "value"
  PROVE  \A i \in DOMAIN OperandValues(es) : InRange(OperandValues(es)[i], vars)
<1>. DEFINE n == Len(es)
            outcomes == [i \in DOMAIN es |-> Outcome(es[i])]
<1>1. n \in Nat /\ DOMAIN es = 1 .. n /\ \A i \in 1 .. n : es[i] \in Expression
  OBVIOUS
<1>2. DOMAIN outcomes = 1 .. n /\ FirstFailure(outcomes) = "value"
  BY <1>1 DEF OperandsOutcome
<1>3. \A i \in 1 .. n : outcomes[i] = Outcome(es[i])
  BY <1>1
<1>. HIDE DEF outcomes
<1>4. \A i \in 1 .. n : Outcome(es[i]) = "value"
  BY <1>1, <1>2, <1>3, FirstFailureValue
<1>. QED
  BY <1>1, <1>4, ExpressionInRange DEF OperandValues

LEMMA AssignedInRange ==
  ASSUME NEW lhs, NEW rhs \in Value, NEW known, InRange(lhs, known), InRange(rhs, known)
  PROVE  \A j \in DOMAIN Assigned(lhs, rhs) : InRange(Assigned(lhs, rhs)[j], known)
<1>. DEFINE v == Promoted(rhs, lhs.typ.kind)
<1>1. InRange(v, known)
  BY PromotedInRange
<1>2. Assigned(lhs, rhs) = <<lhs, v>>
  BY DEF Assigned
<1>. HIDE DEF v
<1>3. DOMAIN <<lhs, v>> = 1 .. 2 /\ <<lhs, v>>[1] = lhs /\ <<lhs, v>>[2] = v
  OBVIOUS
<1>. QED
  BY <1>1, <1>2, <1>3

(* A longer list of variables knows what a shorter one did.                *)
LEMMA MoreKnown ==
  ASSUME IInv, NEW type, NEW name
  PROVE  LET more == Append(vars, [name |-> name, typ |-> type])
         IN  /\ \A v : InRange(v, vars) => InRange(v, more)
             /\ \A block : BlockInRange(block, vars) => BlockInRange(block, more)
             /\ \A table : TypesKnown(table, vars) => TypesKnown(table, more)
<1>. DEFINE more == Append(vars, [name |-> name, typ |-> type])
<1>1. DOMAIN vars \subseteq DOMAIN more /\ \A id \in DOMAIN vars : more[id] = vars[id]
  BY CurrentIsScope
<1>. HIDE DEF more
<1>2. \A v : InRange(v, vars) => InRange(v, more)
  BY <1>1 DEF InRange
<1>3. \A block : BlockInRange(block, vars) => BlockInRange(block, more)
  BY <1>2 DEF BlockInRange
<1>4. \A table : TypesKnown(table, vars) => TypesKnown(table, more)
  BY <1>1 DEF TypesKnown
<1>. QED
  BY <1>2, <1>3, <1>4 DEF more

(* A statement with indices in range is added.                             *)
LEMMA AddedInRange ==
  ASSUME NEW scope, NEW node, NEW operands, NEW known, scope.block \in Seq(Statement),
         BlockInRange(scope.block, known), "block" \in DOMAIN scope,
         \A j \in DOMAIN operands : InRange(operands[j], known)
  PROVE  BlockInRange(WithStatement(scope, node, operands).block, known)
<1>. DEFINE old == scope.block
            new == [node |-> node, operands |-> operands]
            longer == Append(old, new)
<1>1. WithStatement(scope, node, operands).block = longer
  BY DEF WithStatement
<1>2. /\ DOMAIN longer = 1 .. Len(old) + 1 /\ Len(old) \in Nat /\ DOMAIN old = 1 .. Len(old)
      /\ longer[Len(old) + 1] = new /\ \A i \in DOMAIN old : longer[i] = old[i]
  <2>1. Len(old) \in Nat /\ DOMAIN old = 1 .. Len(old)
    OBVIOUS
  <2>2. \A e : /\ DOMAIN Append(old, e) = 1 .. Len(old) + 1
               /\ Append(old, e)[Len(old) + 1] = e
               /\ \A i \in DOMAIN old : Append(old, e)[i] = old[i]
    BY <2>1
  <2>. QED
    BY <2>1, <2>2
<1>3. new.operands = operands
  OBVIOUS
<1>. HIDE DEF longer, new
<1>. QED
  BY <1>1, <1>2, <1>3 DEF BlockInRange

(* The current scope is replaced by one that fits, and the variables stay  *)
(* or grow.                                                                *)
LEMMA ReplacedInRange ==
  ASSUME IInv, InRangeNow, NEW scope, NEW known, ScopeInRange(scope, known),
         \A block : BlockInRange(block, vars) => BlockInRange(block, known),
         \A table : TypesKnown(table, vars) => TypesKnown(table, known)
  PROVE  AllInRange(ReplaceCurrent(scope), functions, known)
<1>. DEFINE stack == ReplaceCurrent(scope)
<1>1. /\ DOMAIN stack = DOMAIN scope_stack
      /\ \A d \in DOMAIN scope_stack :
           stack[d] = IF d = Len(scope_stack) THEN scope ELSE scope_stack[d]
  BY CurrentIsScope DEF ReplaceCurrent
<1>. HIDE DEF stack
<1>2. \A d \in DOMAIN stack : ScopeInRange(stack[d], known)
  BY <1>1 DEF InRangeNow, AllInRange, ScopeInRange
<1>3. \A k \in DOMAIN functions : BlockInRange(functions[k].block, known)
  BY DEF InRangeNow, AllInRange
<1>. QED
  BY <1>2, <1>3 DEF AllInRange, stack

(* A statement is added to a scope.                                        *)
LEMMA StatementInRange ==
  ASSUME NEW scope \in Scope, NEW known, ScopeInRange(scope, known), NEW node, NEW operands,
         \A j \in DOMAIN operands : InRange(operands[j], known)
  PROVE  ScopeInRange(WithStatement(scope, node, operands), known)
<1>1. scope.block \in Seq(Statement) /\ "block" \in DOMAIN scope
  BY DEF Scope
<1>2. BlockInRange(WithStatement(scope, node, operands).block, known)
  BY <1>1, AddedInRange DEF ScopeInRange
<1>3. WithStatement(scope, node, operands).variable_table = scope.variable_table
  BY DEF WithStatement, Scope
<1>. QED
  BY <1>2, <1>3 DEF ScopeInRange

LEMMA CurrentInRange ==
  ASSUME IInv, InRangeNow
  PROVE  Current \in Scope /\ ScopeInRange(Current, vars)
BY CurrentIsScope DEF InRangeNow, AllInRange, Current

LEMMA SameInRange ==
  ASSUME InRangeNow, UNCHANGED <<scope_stack, functions, vars>>
  PROVE  InRangeNow'
BY DEF InRangeNow

LEMMA RecordedInRange ==
  ASSUME IInv, InRangeNow, NEW node, NEW operands, Recorded(node, operands),
         \A j \in DOMAIN operands : InRange(operands[j], vars)
  PROVE  InRangeNow'
<1>1. AllInRange(ReplaceCurrent(WithStatement(Current, node, operands)), functions, vars)
  BY CurrentInRange, StatementInRange, ReplacedInRange
<1>. QED
  BY <1>1 DEF Recorded, InRangeNow

LEMMA ConcludeInRange ==
  ASSUME IInv, InRangeNow, NEW outcome, NEW node, NEW operands,
         Conclude(outcome, node, operands),
         outcome = "value" => \A j \in DOMAIN operands : InRange(operands[j], vars)
  PROVE  InRangeNow'
<1>1. CASE outcome = "value" /\ Recorded(node, operands)
  BY <1>1, RecordedInRange
<1>2. CASE Fail \/ Escape(scope_stack) \/ Crash
  BY <1>2, SameInRange DEF Fail, Escape, Crash
<1>. QED
  BY <1>1, <1>2 DEF Conclude

(* Return values that are promoted keep their indices.                     *)
LEMMA PromoteReturnsInRange ==
  ASSUME NEW block \in Seq(Statement), NEW kind, NEW last, NEW known, BlockInRange(block, known)
  PROVE  BlockInRange(PromoteReturns(block, kind, last), known)
<1>. DEFINE promoted == PromoteReturns(block, kind, last)
<1>1. SUFFICES ASSUME NEW i \in DOMAIN promoted, NEW j \in DOMAIN promoted[i].operands
               PROVE  InRange(promoted[i].operands[j], known)
  BY DEF BlockInRange
<1>2. i \in DOMAIN block /\ block[i] \in Statement
  BY DEF PromoteReturns
<1>3. CASE block[i].node = "return" /\ i <= last
  <2>1. block[i].operands[1] \in Value /\ 1 \in DOMAIN block[i].operands
        /\ "operands" \in DOMAIN block[i]
    BY <1>2, <1>3 DEF Statement
  <2>2. promoted[i].operands = <<Promoted(block[i].operands[1], kind)>>
    BY <1>2, <1>3, <2>1 DEF PromoteReturns
  <2>3. InRange(Promoted(block[i].operands[1], kind), known)
    BY <1>2, <2>1, PromotedInRange DEF BlockInRange
  <2>4. \A x : DOMAIN <<x>> = {1} /\ <<x>>[1] = x
    OBVIOUS
  <2>. QED
    BY <1>1, <2>2, <2>3, <2>4
<1>4. CASE ~(block[i].node = "return" /\ i <= last)
  <2>1. promoted[i] = block[i]
    BY <1>2, <1>4 DEF PromoteReturns
  <2>. QED
    BY <1>1, <1>2, <2>1 DEF BlockInRange
<1>. QED
  BY <1>3, <1>4

(* A variable is declared.                                                 *)
LEMMA DeclaredInRange ==
  ASSUME IInv, InRangeNow, NEW name \in Names, NEW type \in Type
  PROVE  LET more  == Append(vars, [name |-> name, typ |-> type])
             scope == WithVariable(Current, Len(vars) + 1, name, type)
         IN  scope \in Scope /\ ScopeInRange(scope, more)
<1>. DEFINE more  == Append(vars, [name |-> name, typ |-> type])
            id    == Len(vars) + 1
            ref   == VariableRef(id, type)
            scope == WithVariable(Current, id, name, type)
<1>1. Current \in Scope /\ ScopeInRange(Current, vars)
  BY CurrentInRange
<1>2. scope \in Scope
  BY VariableFits DEF FitsOver
<1>3. /\ scope.block = Current.block
      /\ scope.variable_table = [Current.variable_table EXCEPT ![name] = ref]
  BY <1>1 DEF WithVariable, TableAdd, Scope
<1>4. id \in DOMAIN more /\ more[id].typ = type
  BY CurrentIsScope
<1>5. BlockInRange(Current.block, more) /\ TypesKnown(Current.variable_table, more)
  BY <1>1, MoreKnown DEF ScopeInRange
<1>6. ref.vars = {id} /\ ref.typ = type
  BY DEF VariableRef
<1>7. Current.variable_table \in [Names -> Literal \cup Reference \cup {Absent}]
  BY <1>1 DEF Scope
<1>. HIDE DEF more, id, ref, scope
<1>8. TypesKnown(scope.variable_table, more)
  <2>1. SUFFICES ASSUME NEW n \in Names, scope.variable_table[n] # Absent
                 PROVE  \A v \in scope.variable_table[n].vars :
                          /\ v \in DOMAIN more
                          /\ scope.variable_table[n].typ = more[v].typ
    BY DEF TypesKnown
  <2>2. CASE n = name
    BY <1>3, <1>4, <1>6, <1>7, <2>2
  <2>3. CASE n # name
    BY <1>3, <1>5, <1>7, <2>1, <2>3 DEF TypesKnown
  <2>. QED
    BY <2>2, <2>3
<1>. QED
  BY <1>2, <1>3, <1>5, <1>8 DEF ScopeInRange, more, id, scope

(* visit_variable.                                                         *)
LEMMA VariableInRange ==
  ASSUME IInv, InRangeNow, NEW d \in VariableDecls, VisitVariable(d)
  PROVE  InRangeNow'
<1>1. CASE CanBuildType(d.type)
  <2>. DEFINE type  == BuildType(d.type)
              more  == Append(vars, [name |-> d.name, typ |-> type])
              scope == WithVariable(Current, Len(vars) + 1, d.name, type)
  <2>1. d.name \in Names /\ d.type \in WrittenType
    BY ConstantsAssumption
  <2>2. type \in Type
    BY <1>1, <2>1, BuildTypeIsType
  <2>3. vars' = more /\ functions' = functions
    BY <1>1 DEF VisitVariable
  <2>4. scope_stack' = ReplaceCurrent(scope)
    BY <1>1, <2>3, CurrentIsScope DEF VisitVariable
  <2>. HIDE DEF type
  <2>5. ScopeInRange(scope, more)
    BY <2>1, <2>2, DeclaredInRange
  <2>6. /\ \A block : BlockInRange(block, vars) => BlockInRange(block, more)
        /\ \A table : TypesKnown(table, vars) => TypesKnown(table, more)
    BY MoreKnown
  <2>. HIDE DEF scope, more
  <2>7. AllInRange(ReplaceCurrent(scope), functions, more)
    BY <2>5, <2>6, ReplacedInRange
  <2>. QED
    BY <2>3, <2>4, <2>7 DEF InRangeNow
<1>2. CASE ~CanBuildType(d.type)
  BY <1>2, SameInRange DEF VisitVariable, Fail
<1>. QED
  BY <1>1, <1>2

(* visit_initialization, once its right-hand side has a value.  Neither    *)
(* side of the assignment brings an index out of range: the left one has   *)
(* none.                                                                   *)
LEMMA InitializeInRange ==
  ASSUME IInv, InRangeNow, NEW d \in Initializations, NEW rhs \in Value, InRange(rhs, vars),
         Initialize(d, rhs)
  PROVE  InRangeNow'
<1>. DEFINE declared == CanBuildType(d.type)
            type     == BuildType(d.type)
            id       == Len(vars) + 1
            lhs      == IF declared THEN VariableRef(id, type) ELSE Lookup(d.name)
            scope    == IF declared THEN WithVariable(Current, id, d.name, type) ELSE Current
            assigned == (declared \/ Visible(d.name)) /\ CanAssign(lhs, rhs)
            known    == IF declared THEN Append(vars, [name |-> d.name, typ |-> type]) ELSE vars
            final    == IF assigned
                        THEN WithStatement(scope, "initialization", Assigned(lhs, rhs))
                        ELSE scope
<1>1. d.name \in Names /\ d.type \in WrittenType
  BY ConstantsAssumption
<1>2. vars' = known /\ scope_stack' = ReplaceCurrent(final) /\ functions' = functions
  BY DEF Initialize
<1>3. scope \in Scope /\ ScopeInRange(scope, known)
  <2>1. CASE declared
    <3>1. type \in Type
      BY <1>1, <2>1, BuildTypeIsType
    <3>. HIDE DEF type
    <3>. QED
      BY <1>1, <2>1, <3>1, DeclaredInRange
  <2>2. CASE ~declared
    BY <2>2, CurrentInRange
  <2>. QED
    BY <2>1, <2>2
<1>4. /\ \A v : InRange(v, vars) => InRange(v, known)
      /\ \A block : BlockInRange(block, vars) => BlockInRange(block, known)
      /\ \A table : TypesKnown(table, vars) => TypesKnown(table, known)
  <2>1. CASE declared
    <3>1. known = Append(vars, [name |-> d.name, typ |-> type])
      BY <2>1
    <3>. HIDE DEF known, type
    <3>. QED
      BY <3>1, MoreKnown
  <2>2. CASE ~declared
    BY <2>2
  <2>. QED
    BY <2>1, <2>2
<1>5. ASSUME assigned PROVE InRange(lhs, known)
  <2>1. Inert(lhs)
    BY <1>1, <1>5, LookupInert DEF VariableRef, Inert
  <2>. HIDE DEF lhs, known
  <2>. QED
    BY <2>1, InertInRange
<1>. HIDE DEF declared, lhs, scope, assigned, known
<1>6. ScopeInRange(final, known)
  <2>1. CASE assigned
    <3>1. \A j \in DOMAIN Assigned(lhs, rhs) : InRange(Assigned(lhs, rhs)[j], known)
      BY <1>4, <1>5, <2>1, AssignedInRange
    <3>2. ScopeInRange(WithStatement(scope, "initialization", Assigned(lhs, rhs)), known)
      BY <1>3, <3>1, StatementInRange
    <3>. QED
      BY <2>1, <3>2
  <2>2. CASE ~assigned
    BY <1>3, <2>2
  <2>. QED
    BY <2>1, <2>2
<1>. HIDE DEF final
<1>7. AllInRange(ReplaceCurrent(final), functions, known)
  BY <1>4, <1>6, ReplacedInRange
<1>. QED
  BY <1>2, <1>7 DEF InRangeNow

(* visit_assignment_statement, do_assignment.                              *)
LEMMA AssignmentInRange ==
  ASSUME IInv, InRangeNow, NEW s \in Statements, VisitAssignment(s)
  PROVE  InRangeNow'
<1>. DEFINE values == OperandValues(s.operands)
<1>1. s.operands \in Seq(Expression) /\ Len(s.operands) = 2
  BY StatementsWritten DEF VisitAssignment
<1>2. CASE OperandsOutcome(s.operands) # "value"
  BY <1>2, ConcludeInRange DEF VisitAssignment
<1>3. CASE OperandsOutcome(s.operands) = "value" /\ Fail
  BY <1>3, SameInRange DEF Fail
<1>4. CASE /\ OperandsOutcome(s.operands) = "value"
           /\ Conclude("value", "assignment", Assigned(values[1], values[2]))
  <2>1. /\ values \in Seq(Value) /\ DOMAIN values = DOMAIN s.operands
        /\ \A i \in DOMAIN values : InRange(values[i], vars)
    BY <1>1, <1>4, OperandsTyped, OperandsInRange DEF IInv
  <2>2. 1 \in DOMAIN values /\ 2 \in DOMAIN values
    BY <1>1, <2>1
  <2>. HIDE DEF values
  <2>3. values[2] \in Value
    BY <2>1, <2>2
  <2>4. \A j \in DOMAIN Assigned(values[1], values[2]) :
          InRange(Assigned(values[1], values[2])[j], vars)
    BY <2>1, <2>2, <2>3, AssignedInRange
  <2>. QED
    BY <1>4, <2>4, ConcludeInRange
<1>. QED
  BY <1>2, <1>3, <1>4 DEF VisitAssignment

(* An instruction takes its operands promoted.                             *)
LEMMA InstructionInRange ==
  ASSUME IInv, InRangeNow, NEW s \in Statements, OperandsOutcome(s.operands) = "value",
         Recorded("instruction", InstructionOperands(s.name, OperandValues(s.operands)))
  PROVE  InRangeNow'
<1>. DEFINE values   == OperandValues(s.operands)
            params   == Instructions[LastCandidate(Instructions, s.name, values)].params
            operands == InstructionOperands(s.name, values)
<1>1. s.operands \in Seq(Expression)
  BY StatementsWritten
<1>2. /\ values \in Seq(Value)
      /\ \A i \in DOMAIN values : InRange(values[i], vars)
  BY <1>1, OperandsTyped, OperandsInRange DEF IInv
<1>3. operands = [i \in DOMAIN values |-> Promoted(values[i], params[i])]
  BY DEF InstructionOperands, PromotedArgs
<1>. HIDE DEF values, params, operands
<1>4. \A i \in DOMAIN values : values[i] \in Value
  BY <1>2
<1>5. \A i \in DOMAIN operands : InRange(operands[i], vars)
  BY <1>2, <1>3, <1>4, PromotedInRange
<1>. QED
  BY <1>5, RecordedInRange DEF operands, values

LEMMA StatementVisitInRange ==
  ASSUME IInv, InRangeNow, VisitStatement
  PROVE  InRangeNow'
<1>1. ASSUME NEW d \in Initializations, VisitInitialization(d) PROVE InRangeNow'
  <2>1. d.rhs \in Expression
    BY ConstantsAssumption
  <2>2. CASE Outcome(d.rhs) = "value" /\ Initialize(d, ValueOf(d.rhs))
    BY <2>1, <2>2, ExpressionInRange, ValueTyped, InitializeInRange DEF IInv
  <2>3. CASE Fail \/ Escape(scope_stack) \/ Crash
    BY <2>3, SameInRange DEF Fail, Escape, Crash
  <2>. QED
    BY <1>1, <2>2, <2>3 DEF VisitInitialization
<1>2. ASSUME NEW s \in Statements, VisitReturn(s) \/ VisitExpressionStatement(s)
      PROVE  InRangeNow'
  <2>1. s.operands \in Seq(Expression)
    BY StatementsWritten
  <2>2. CASE Fail
    BY <2>2, SameInRange DEF Fail
  <2>3. ASSUME NEW node,
               Conclude(OperandsOutcome(s.operands), node, OperandValues(s.operands))
        PROVE  InRangeNow'
    BY <2>1, <2>3, OperandsInRange, ConcludeInRange
  <2>. QED
    BY <1>2, <2>2, <2>3 DEF VisitReturn, VisitExpressionStatement
<1>3. ASSUME NEW s \in Statements, VisitGate(s) \/ VisitMeasure(s)
      PROVE  InRangeNow'
  <2>. DEFINE values  == OperandValues(s.operands)
              visited == OperandsOutcome(s.operands)
  <2>1. CASE visited # "value" \/ InstructionOutcome(s.name, values) # "value"
    <3>1. PICK outcome : outcome # "value" /\ Conclude(outcome, "instruction", <<>>)
      BY <1>3, <2>1 DEF VisitGate, VisitMeasure
    <3>. QED
      BY <3>1, ConcludeInRange
  <2>2. CASE visited = "value" /\ Recorded("instruction", InstructionOperands(s.name, values))
    BY <2>2, InstructionInRange
  <2>3. CASE Fail
    BY <2>3, SameInRange DEF Fail
  <2>. QED
    BY <1>3, <2>1, <2>2, <2>3 DEF VisitGate, VisitMeasure
<1>. QED
  BY <1>1, <1>2, <1>3, VariableInRange, AssignmentInRange DEF VisitStatement

(* The end of a function: its block goes to the table with its indices,    *)
(* or is lost, or stays with the scope that is left behind.                *)
LEMMA LeaveFunctionInRange ==
  ASSUME IInv, InRangeNow, LeaveFunction
  PROVE  InRangeNow'
<1>1. /\ Current \in Scope /\ Current.block \in Seq(Statement)
      /\ BlockInRange(Current.block, vars) /\ TypesKnown(Current.variable_table, vars)
  BY CurrentInRange DEF ScopeInRange, Scope
<1>2. \A kind, last : BlockInRange(PromoteReturns(Current.block, kind, last), vars)
  BY <1>1, PromoteReturnsInRange
<1>3. \A d \in DOMAIN PopScope : ScopeInRange(PopScope[d], vars)
  <2>1. \A d \in DOMAIN PopScope : d \in DOMAIN scope_stack /\ PopScope[d] = scope_stack[d]
    BY CurrentIsScope DEF PopScope
  <2>. QED
    BY <2>1 DEF InRangeNow, AllInRange
<1>4. \A k \in DOMAIN functions : BlockInRange(functions[k].block, vars)
  BY DEF InRangeNow, AllInRange
<1>5. CASE Reject
  BY <1>3, <1>4, <1>5 DEF Reject, InRangeNow, AllInRange
<1>6. ASSUME NEW block, BlockInRange(block, vars), Register(block)
      PROVE  InRangeNow'
  <2>. DEFINE new == FrameFunction(block)
  <2>1. new.block = block
    BY DEF FrameFunction
  <2>2. functions' = Append(functions, new) /\ scope_stack' = PopScope /\ vars' = vars
    BY <1>6 DEF Register
  <2>3. functions \in Seq(Function)
    BY DEF IInv, TypeOK
  <2>. HIDE DEF new
  <2>4. ASSUME NEW k \in DOMAIN functions'
        PROVE  functions'[k] = new \/ (k \in DOMAIN functions /\ functions'[k] = functions[k])
    BY <2>2, <2>3, <2>4
  <2>5. \A k \in DOMAIN functions' : BlockInRange(functions'[k].block, vars)
    BY <1>4, <1>6, <2>1, <2>4
  <2>. QED
    BY <1>3, <2>2, <2>5 DEF InRangeNow, AllInRange
<1>7. ASSUME NEW block, BlockInRange(block, vars),
             Escape(ReplaceCurrent([Current EXCEPT !.block = block]))
      PROVE  InRangeNow'
  <2>. DEFINE scope == [Current EXCEPT !.block = block]
  <2>1. scope.block = block /\ scope.variable_table = Current.variable_table
    BY <1>1 DEF Scope
  <2>2. scope_stack' = ReplaceCurrent(scope) /\ functions' = functions /\ vars' = vars
    BY <1>7 DEF Escape
  <2>. HIDE DEF scope
  <2>3. ScopeInRange(scope, vars)
    BY <1>1, <1>7, <2>1 DEF ScopeInRange
  <2>4. AllInRange(ReplaceCurrent(scope), functions, vars)
    BY <2>3, ReplacedInRange
  <2>. QED
    BY <2>2, <2>4 DEF InRangeNow
<1>. QED
  BY <1>1, <1>2, <1>5, <1>6, <1>7 DEF LeaveFunction

LEMMA StepInRange ==
  ASSUME IInv, InRangeNow, [Next]_state
  PROVE  InRangeNow'
<1>1. CASE Refuse \/ Analyze \/ VisitFunctionBody \/ Finish \/ UNCHANGED state
  BY <1>1, SameInRange DEF Refuse, Analyze, VisitFunctionBody, Finish, state
<1>2. ASSUME NEW f \in FunctionDecls, EnterFunction(f) PROVE InRangeNow'
  <2>1. CASE Fail
    BY <2>1, SameInRange DEF Fail
  <2>2. CASE scope_stack' = PushScope /\ UNCHANGED <<vars, functions>>
    <3>1. \A d \in DOMAIN PushScope :
            \/ d \in DOMAIN scope_stack /\ PushScope[d] = scope_stack[d]
            \/ PushScope[d] = EmptyScope
      BY CurrentIsScope DEF PushScope
    <3>2. ScopeInRange(EmptyScope, vars)
      BY DEF ScopeInRange, BlockInRange, TypesKnown, EmptyScope
    <3>. QED
      BY <2>2, <3>1, <3>2 DEF InRangeNow, AllInRange
  <2>. QED
    BY <1>2, <2>1, <2>2 DEF EnterFunction
<1>. QED
  BY <1>1, <1>2, StatementVisitInRange, LeaveFunctionInRange DEF Next, Continue

(* However often a name is declared again, in whatever scope, an index     *)
(* that was accepted stays below the size of the variable it was checked   *)
(* against (visit_index, resolve_variable).                                *)
THEOREM IndicesInRangeHolds == Spec => []IndicesInRange
<1>1. Init => InRangeNow
  <2>1. SUFFICES ASSUME Init PROVE InRangeNow
    OBVIOUS
  <2>2. \A n \in Mappings : MappedValue[n].vars = {}
    BY ConstantsAssumption DEF Literal
  <2>3. ScopeInRange(GlobalScope, vars)
    BY <2>2 DEF ScopeInRange, BlockInRange, TypesKnown, GlobalScope, EmptyScope
  <2>. QED
    BY <2>1, <2>3 DEF Init, InRangeNow, AllInRange
<1>2. IInv /\ InRangeNow /\ [Next]_state => InRangeNow'
  BY StepInRange
<1>3. InRangeNow => IndicesInRange
  BY DEF InRangeNow, AllInRange, ScopeInRange, BlockInRange, InRange, IndicesInRange
<1>. QED
  BY <1>1, <1>2, <1>3, Invariant, PTL DEF Spec

-----------------------------------------------------------------------------
(* The statements of a list of blocks, when one of the blocks changes.     *)
LEMMA CountedFinite ==
  ASSUME NEW S, NEW block \in Seq(S)
  PROVE  IsFiniteSet(Counted(block)) /\ Counted(block) \subseteq 1 .. Len(block)
<1>1. Counted(block) \subseteq 1 .. Len(block) /\ Len(block) \in Nat
  BY DEF Counted
<1>2. IsFiniteSet(1 .. Len(block))
  BY <1>1, FS_Interval
<1>3. QED
  BY <1>1, <1>2, FS_Subset

LEMMA CountedAppend ==
  ASSUME NEW S, NEW block \in Seq(S), NEW t
  PROVE  Counted(Append(block, t)) =
           IF t.node = "initialization" THEN Counted(block)
           ELSE Counted(block) \cup {Len(block) + 1}
<1>. DEFINE new == Append(block, t)
            n == Len(block)
<1>1. n \in Nat /\ DOMAIN block = 1 .. n
  OBVIOUS
<1>2. block \in Seq(S \cup {t})
  OBVIOUS
<1>3. DOMAIN new = 1 .. n + 1 /\ new[n + 1] = t /\ \A i \in 1 .. n : new[i] = block[i]
  BY <1>2
<1>. HIDE DEF new, n
<1>4. \A i : i \in 1 .. n + 1 <=> i \in 1 .. n \/ i = n + 1
  BY <1>1
<1>5. ASSUME NEW i PROVE i \in Counted(new) <=> \/ i \in Counted(block)
                                                \/ i = n + 1 /\ t.node # "initialization"
  BY <1>1, <1>3, <1>4 DEF Counted
<1>6. QED
  BY <1>5 DEF new, n

(* One of the blocks is another.                                           *)
LEMMA OtherBlock ==
  ASSUME NEW s, NEW t, NEW n \in DOMAIN s, DOMAIN t = DOMAIN s,
         \A d \in DOMAIN s : d # n => t[d] = s[d]
  PROVE  /\ Counted(t[n].block) = Counted(s[n].block) => StatementsOf(t) = StatementsOf(s)
         /\ \A m : m \notin Counted(s[n].block)
                   /\ Counted(t[n].block) = Counted(s[n].block) \cup {m}
              => StatementsOf(t) = StatementsOf(s) \cup {<<n, m>>} /\ <<n, m>> \notin StatementsOf(s)
<1>1. \A u, p : p \in StatementsOf(u) <=>
        \E d \in DOMAIN u : \E i \in Counted(u[d].block) : p = <<d, i>>
  BY DEF StatementsOf
<1>2. ASSUME Counted(t[n].block) = Counted(s[n].block)
      PROVE  StatementsOf(t) = StatementsOf(s)
  <2>1. \A d \in DOMAIN s : Counted(t[d].block) = Counted(s[d].block)
    BY <1>2
  <2>2. \A p : p \in StatementsOf(t) <=> p \in StatementsOf(s)
    BY <1>1, <2>1
  <2>3. QED
    BY <2>2
<1>3. ASSUME NEW m, m \notin Counted(s[n].block), Counted(t[n].block) = Counted(s[n].block) \cup {m}
      PROVE  StatementsOf(t) = StatementsOf(s) \cup {<<n, m>>} /\ <<n, m>> \notin StatementsOf(s)
  <2>1. <<n, m>> \notin StatementsOf(s)
    BY <1>1, <1>3
  <2>2. ASSUME NEW p PROVE p \in StatementsOf(t) <=> p \in StatementsOf(s) \/ p = <<n, m>>
    <3>1. ASSUME p \in StatementsOf(t) PROVE p \in StatementsOf(s) \/ p = <<n, m>>
      <4>1. PICK d \in DOMAIN t : \E i \in Counted(t[d].block) : p = <<d, i>>
        BY <1>1, <3>1
      <4>2. PICK i \in Counted(t[d].block) : p = <<d, i>>
        BY <4>1
      <4>3. i \in Counted(s[d].block) \/ (d = n /\ i = m)
        BY <1>3, <4>2
      <4>4. QED
        BY <1>1, <4>1, <4>2, <4>3
    <3>2. ASSUME p \in StatementsOf(s) PROVE p \in StatementsOf(t)
      <4>1. PICK d \in DOMAIN s : \E i \in Counted(s[d].block) : p = <<d, i>>
        BY <1>1, <3>2
      <4>2. \A i \in Counted(s[d].block) : i \in Counted(t[d].block)
        BY <1>3, <4>1
      <4>3. QED
        BY <1>1, <4>1, <4>2
    <3>3. p = <<n, m>> => p \in StatementsOf(t)
      BY <1>1, <1>3
    <3>4. QED
      BY <3>1, <3>2, <3>3
  <2>3. QED
    BY <2>1, <2>2
<1>4. QED
  BY <1>2, <1>3

(* One more block at the end.                                              *)
LEMMA MoreBlocks ==
  ASSUME NEW s, NEW t, NEW n \in Nat, DOMAIN s = 1 .. n, DOMAIN t = 1 .. n + 1,
         \A d \in 1 .. n : t[d] = s[d]
  PROVE  /\ StatementsOf(t) = StatementsOf(s) \cup ({n + 1} \X Counted(t[n + 1].block))
         /\ StatementsOf(s) \cap ({n + 1} \X Counted(t[n + 1].block)) = {}
<1>1. \A u, p : p \in StatementsOf(u) <=>
        \E d \in DOMAIN u : \E i \in Counted(u[d].block) : p = <<d, i>>
  BY DEF StatementsOf
<1>2. \A p : p \in {n + 1} \X Counted(t[n + 1].block) <=>
               \E i \in Counted(t[n + 1].block) : p = <<n + 1, i>>
  OBVIOUS
<1>3. \A d : d \in 1 .. n + 1 <=> d \in 1 .. n \/ d = n + 1
  OBVIOUS
<1>4. n + 1 \notin 1 .. n
  OBVIOUS
<1>5. \A p : p \in StatementsOf(t) <=>
               p \in StatementsOf(s) \/ p \in {n + 1} \X Counted(t[n + 1].block)
  BY <1>1, <1>2, <1>3
<1>6. \A p : ~(p \in StatementsOf(s) /\ p \in {n + 1} \X Counted(t[n + 1].block))
  BY <1>1, <1>2, <1>4
<1>7. QED
  BY <1>5, <1>6

LEMMA DisjointCount ==
  ASSUME NEW S, IsFiniteSet(S), NEW T, IsFiniteSet(T), S \cap T = {}
  PROVE  /\ IsFiniteSet(S \cup T)
         /\ Cardinality(S \cup T) = Cardinality(S) + Cardinality(T)
<1>1. /\ IsFiniteSet(S \cup T)
      /\ Cardinality(S \cup T) = Cardinality(S) + Cardinality(T) - Cardinality(S \cap T)
  BY FS_Union
<1>2. Cardinality(S \cap T) = 0
  BY FS_EmptySet
<1>3. Cardinality(S) \in Nat /\ Cardinality(T) \in Nat
  BY FS_CardinalityType
<1>4. QED
  BY <1>1, <1>2, <1>3

LEMMA BlockCount ==
  ASSUME NEW S, NEW block \in Seq(S), NEW n
  PROVE  /\ IsFiniteSet({n} \X Counted(block))
         /\ Cardinality({n} \X Counted(block)) = Cardinality(Counted(block))
         /\ Cardinality(Counted(block)) \in Nat
<1>1. IsFiniteSet(Counted(block)) /\ IsFiniteSet({n}) /\ Cardinality({n}) = 1
  BY CountedFinite, FS_Singleton
<1>2. Cardinality(Counted(block)) \in Nat
  BY <1>1, FS_CardinalityType
<1>3. QED
  BY <1>1, <1>2, FS_Product

-----------------------------------------------------------------------------
(* What a step adds to the account.                                        *)
OnStack == StatementsOf(scope_stack)

(* A step that fails may only take statements with it.                     *)
Fails == /\ ~ErrorFree' /\ UNCHANGED functions /\ OnStack' \subseteq OnStack

Waits == /\ ErrorFree' => ErrorFree
         /\ UNCHANGED <<vars, functions, visits>>
         /\ OnStack' = OnStack /\ InFunction' = InFunction

Declared == /\ ErrorFree' => ErrorFree
            /\ UNCHANGED functions /\ Len(vars') = Len(vars) + 1 /\ visits' = visits + 1
            /\ OnStack' = OnStack /\ InFunction' = InFunction

Stated == /\ ErrorFree' => ErrorFree
          /\ UNCHANGED <<vars, functions>> /\ visits' = visits + 1
          /\ \E p : p \notin OnStack /\ OnStack' = OnStack \cup {p}
          /\ InFunction' = InFunction

Begins == /\ ErrorFree' => ErrorFree
          /\ UNCHANGED <<vars, functions>> /\ visits' = visits + 1
          /\ OnStack' = OnStack /\ ~InFunction /\ InFunction'

Registers == /\ ErrorFree' => ErrorFree
             /\ UNCHANGED <<vars, visits>> /\ Len(functions') = Len(functions) + 1
             /\ InFunction /\ ~InFunction'
             /\ \E top, new : /\ IsFiniteSet(top) /\ IsFiniteSet(new)
                              /\ Cardinality(top) = Cardinality(new)
                              /\ OnStack = OnStack' \cup top /\ OnStack' \cap top = {}
                              /\ StatementsOf(functions)' = StatementsOf(functions) \cup new
                              /\ StatementsOf(functions) \cap new = {}

(* An error that has been reported is seen in a result, if not earlier.    *)
Bad(r) == r.errors # 0 \/ r.ended \in {"escaped", "leaked"}
Seen == \E i \in DOMAIN results : Bad(results[i])

Account == /\ IsFiniteSet(OnStack) /\ IsFiniteSet(StatementsOf(functions))
           /\ phase = "idle" /\ errors # 0 => Seen
           /\ NothingLost

LEMMA AccountKept ==
  ASSUME IInv, Account, IInv', (phase = "idle" /\ errors # 0 => Seen)',
         Fails \/ Waits \/ Declared \/ Stated \/ Begins \/ Registers
  PROVE  Account'
<1>. DEFINE F == StatementsOf(functions)
            a == Cardinality(OnStack)
            f == Cardinality(F)
<1>1. /\ IsFiniteSet(OnStack) /\ IsFiniteSet(F) /\ a \in Nat /\ f \in Nat
      /\ Len(vars) \in Nat /\ Len(functions) \in Nat /\ visits \in Nat
      /\ InFunction \in BOOLEAN
  BY FS_CardinalityType DEF Account, IInv, TypeOK, InFunction
<1>2. ErrorFree => visits = Len(vars) + Len(functions) + (IF InFunction THEN 1 ELSE 0) + a + f
  BY DEF Account, NothingLost, OnStack
<1>3. UNCHANGED functions => F' = F
  BY DEF StatementsOf
<1>. DEFINE Good == ErrorFree' => visits' = Len(vars') + Len(functions')
                                            + (IF InFunction' THEN 1 ELSE 0) + a' + f'
<1>4. SUFFICES IsFiniteSet(OnStack') /\ IsFiniteSet(F') /\ Good
  BY DEF Account, NothingLost, OnStack
<1>5. CASE Fails
  <2>1. IsFiniteSet(OnStack')
    BY <1>1, <1>5, FS_Subset DEF Fails
  <2>2. QED
    BY <1>1, <1>3, <1>5, <2>1 DEF Fails
<1>. HIDE DEF F
<1>6. CASE Waits
  BY <1>1, <1>2, <1>3, <1>6 DEF Waits
<1>7. CASE Declared
  BY <1>1, <1>2, <1>3, <1>7 DEF Declared
<1>8. CASE Stated
  <2>1. PICK p : p \notin OnStack /\ OnStack' = OnStack \cup {p}
    BY <1>8 DEF Stated
  <2>2. IsFiniteSet(OnStack') /\ a' = a + 1
    BY <1>1, <2>1, FS_AddElement
  <2>3. QED
    BY <1>1, <1>2, <1>3, <1>8, <2>2 DEF Stated
<1>9. CASE Begins
  BY <1>1, <1>2, <1>3, <1>9 DEF Begins
<1>10. CASE Registers
  <2>1. PICK top, new : /\ IsFiniteSet(top) /\ IsFiniteSet(new)
                        /\ Cardinality(top) = Cardinality(new)
                        /\ OnStack = OnStack' \cup top /\ OnStack' \cap top = {}
                        /\ F' = F \cup new /\ F \cap new = {}
    BY <1>10 DEF Registers, F
  <2>2. IsFiniteSet(OnStack') /\ a' \in Nat
    BY <1>1, <2>1, FS_Subset, FS_CardinalityType
  <2>3. IsFiniteSet(F') /\ f' = f + Cardinality(new)
    BY <1>1, <2>1, DisjointCount
  <2>4. a = a' + Cardinality(top)
    BY <2>1, <2>2, DisjointCount
  <2>5. Cardinality(new) \in Nat
    BY <2>1, FS_CardinalityType
  <2>. DEFINE c == Cardinality(new)
  <2>6. a = a' + c /\ f' = f + c /\ c \in Nat
    BY <2>1, <2>3, <2>4, <2>5
  <2>. HIDE DEF a, f, c
  <2>7. Good
    BY <1>1, <1>2, <1>10, <2>2, <2>6 DEF Registers
  <2>8. QED
    BY <2>2, <2>3, <2>7
<1>11. QED
  BY <1>5, <1>6, <1>7, <1>8, <1>9, <1>10

Accounted == /\ Fails \/ Waits \/ Declared \/ Stated \/ Begins \/ Registers
             /\ phase' = "idle" /\ errors' # 0 => Seen'

LEMMA ErrorFreeMeans ==
  /\ ErrorFree <=> errors = 0 /\ phase # "crashed" /\ ~Seen
  /\ ErrorFree' <=> errors' = 0 /\ phase' # "crashed" /\ ~Seen'
BY DEF ErrorFree, Seen, Bad

LEMMA SeenKept ==
  /\ results' = results => (Seen' <=> Seen)
  /\ \A r : IInv /\ results' = Append(results, r) => (Seen' <=> Seen \/ Bad(r))
<1>1. results' = results => (Seen' <=> Seen)
  BY DEF Seen
<1>2. ASSUME NEW r, IInv, results' = Append(results, r) PROVE Seen' <=> Seen \/ Bad(r)
  <2>1. results \in Seq(Result \cup {r}) /\ Len(results) \in Nat /\ DOMAIN results = 1 .. Len(results)
    BY <1>2 DEF IInv, TypeOK
  <2>2. /\ DOMAIN results' = 1 .. Len(results) + 1 /\ results'[Len(results) + 1] = r
        /\ \A i \in 1 .. Len(results) : results'[i] = results[i]
    BY <1>2, <2>1
  <2>3. \A i : i \in 1 .. Len(results) + 1 <=> i \in 1 .. Len(results) \/ i = Len(results) + 1
    BY <2>1
  <2>. HIDE DEF Bad
  <2>4. QED
    BY <2>1, <2>2, <2>3 DEF Seen
<1>3. QED
  BY <1>1, <1>2

LEMMA FailCounts ==
  ASSUME IInv, Fail, phase # "idle"
  PROVE  Accounted
<1>1. errors \in Nat /\ errors' = errors + 1 /\ UNCHANGED <<scope_stack, functions>> /\ phase' # "idle"
  BY DEF IInv, TypeOK, Fail
<1>2. errors' # 0
  BY <1>1
<1>3. ~ErrorFree'
  BY <1>2, ErrorFreeMeans
<1>4. OnStack' = OnStack
  BY <1>1 DEF OnStack, StatementsOf
<1>5. QED
  BY <1>1, <1>3, <1>4 DEF Accounted, Fails

LEMMA CrashCounts ==
  ASSUME IInv, Crash
  PROVE  Accounted
<1>1. OnStack' = OnStack
  BY DEF Crash, OnStack, StatementsOf
<1>2. ~ErrorFree' /\ phase' # "idle"
  BY ErrorFreeMeans DEF Crash
<1>3. QED
  BY <1>1, <1>2 DEF Accounted, Fails, Crash

LEMMA EscapeCounts ==
  ASSUME IInv, NEW stack, Escape(stack), OnStack' = OnStack
  PROVE  Accounted
<1>. DEFINE r == Ended(IF phase = "global" THEN "escaped" ELSE "leaked")
<1>1. results' = Append(results, r) /\ UNCHANGED functions
  BY DEF Escape
<1>2. Bad(r)
  BY DEF Bad, Ended
<1>. HIDE DEF r
<1>3. Seen'
  BY <1>1, <1>2, SeenKept
<1>4. ~ErrorFree'
  BY <1>3, ErrorFreeMeans
<1>5. QED
  BY <1>1, <1>3, <1>4 DEF Accounted, Fails

(* The current scope gets another block.                                   *)
LEMMA CurrentCounts ==
  ASSUME IInv, NEW scope, scope_stack' = ReplaceCurrent(scope)
  PROVE  /\ Counted(scope.block) = Counted(Current.block) => OnStack' = OnStack
         /\ \A m : m \notin Counted(Current.block)
                   /\ Counted(scope.block) = Counted(Current.block) \cup {m}
              => \E p : p \notin OnStack /\ OnStack' = OnStack \cup {p}
<1>1. scope_stack \in Seq(Scope) /\ Len(scope_stack) \in DOMAIN scope_stack
  BY CurrentIsScope
<1>2. /\ DOMAIN scope_stack' = DOMAIN scope_stack
      /\ scope_stack'[Len(scope_stack)] = scope
      /\ \A d \in DOMAIN scope_stack : d # Len(scope_stack) => scope_stack'[d] = scope_stack[d]
  BY <1>1 DEF ReplaceCurrent
<1>. DEFINE n == Len(scope_stack)
            t == scope_stack'
<1>3. /\ Counted(t[n].block) = Counted(scope_stack[n].block) => StatementsOf(t) = StatementsOf(scope_stack)
      /\ \A m : m \notin Counted(scope_stack[n].block)
                /\ Counted(t[n].block) = Counted(scope_stack[n].block) \cup {m}
           => StatementsOf(t) = StatementsOf(scope_stack) \cup {<<n, m>>}
              /\ <<n, m>> \notin StatementsOf(scope_stack)
  <2>. HIDE DEF t, n
  <2>1. DOMAIN t = DOMAIN scope_stack /\ n \in DOMAIN scope_stack
        /\ \A d \in DOMAIN scope_stack : d # n => t[d] = scope_stack[d]
    BY <1>1, <1>2 DEF t, n
  <2>2. QED
    BY <2>1, OtherBlock
<1>4. OnStack' = StatementsOf(t) /\ OnStack = StatementsOf(scope_stack)
  BY DEF OnStack, StatementsOf
<1>5. t[n].block = scope.block /\ scope_stack[n] = Current
  BY <1>2 DEF Current
<1>. HIDE DEF t, n
<1>6. QED
  BY <1>3, <1>4, <1>5

LEMMA WithStatementCounts ==
  ASSUME NEW scope, NEW block \in Seq(Statement), "block" \in DOMAIN scope, scope.block = block,
         NEW node, NEW operands
  PROVE  /\ "block" \in DOMAIN WithStatement(scope, node, operands)
         /\ Counted(WithStatement(scope, node, operands).block) =
              IF node = "initialization" THEN Counted(block)
              ELSE Counted(block) \cup {Len(block) + 1}
         /\ Len(block) + 1 \notin Counted(block)
<1>. DEFINE t == [node |-> node, operands |-> operands]
            w == WithStatement(scope, node, operands)
<1>1. "block" \in DOMAIN w /\ w.block = Append(block, t)
  BY DEF WithStatement
<1>2. t.node = node
  OBVIOUS
<1>. HIDE DEF w, t
<1>3. Counted(w.block) = IF node = "initialization" THEN Counted(block)
                         ELSE Counted(block) \cup {Len(block) + 1}
  BY <1>1, <1>2, CountedAppend
<1>4. Counted(block) \subseteq 1 .. Len(block) /\ Len(block) + 1 \notin 1 .. Len(block)
  BY CountedFinite
<1>5. QED
  BY <1>1, <1>3, <1>4 DEF w

LEMMA CurrentBlockList ==
  ASSUME IInv
  PROVE  Current.block \in Seq(Statement) /\ "block" \in DOMAIN Current
BY CurrentIsScope DEF Scope

LEMMA RecordedCounts ==
  ASSUME IInv, NEW node, node # "initialization", NEW operands, Recorded(node, operands),
         visits' = visits + 1, phase # "idle"
  PROVE  Accounted
<1>. DEFINE w == WithStatement(Current, node, operands)
            m == Len(Current.block) + 1
<1>1. /\ scope_stack' = ReplaceCurrent(w)
      /\ UNCHANGED <<vars, functions, phase, errors, results>>
  BY DEF Recorded
<1>2. m \notin Counted(Current.block) /\ Counted(w.block) = Counted(Current.block) \cup {m}
  BY CurrentBlockList, WithStatementCounts
<1>. HIDE DEF w, m
<1>3. \E p : p \notin OnStack /\ OnStack' = OnStack \cup {p}
  BY <1>1, <1>2, CurrentCounts
<1>4. (ErrorFree' => ErrorFree) /\ InFunction' = InFunction
  BY <1>1, ErrorFreeMeans, SeenKept DEF InFunction
<1>5. QED
  BY <1>1, <1>3, <1>4 DEF Accounted, Stated

LEMMA ConcludeCounts ==
  ASSUME IInv, NEW outcome, NEW node, node # "initialization", NEW operands,
         Conclude(outcome, node, operands), visits' = visits + 1, phase # "idle"
  PROVE  Accounted
<1>1. CASE Escape(scope_stack)
  <2>1. OnStack' = OnStack
    BY <1>1 DEF Escape, OnStack, StatementsOf
  <2>2. QED
    BY <1>1, <2>1, EscapeCounts
<1>2. QED
  BY <1>1, RecordedCounts, FailCounts, CrashCounts DEF Conclude

LEMMA DeclarationCounts ==
  ASSUME IInv, NEW scope, scope_stack' = ReplaceCurrent(scope),
         Counted(scope.block) = Counted(Current.block),
         NEW v, vars' = Append(vars, v), UNCHANGED <<functions, phase, results>>,
         errors' = errors, visits' = visits + 1, phase # "idle"
  PROVE  Accounted
<1>1. OnStack' = OnStack
  BY CurrentCounts
<1>2. Len(vars') = Len(vars) + 1
  BY CurrentIsScope
<1>3. (ErrorFree' => ErrorFree) /\ InFunction' = InFunction
  BY ErrorFreeMeans, SeenKept DEF InFunction
<1>4. QED
  BY <1>1, <1>2, <1>3 DEF Accounted, Declared

LEMMA WithVariableCounts ==
  ASSUME IInv, NEW id, NEW name, NEW type
  PROVE  LET w == WithVariable(Current, id, name, type)
         IN  "block" \in DOMAIN w /\ w.block = Current.block
BY CurrentIsScope DEF Scope, WithVariable

LEMMA InitializeCounts ==
  ASSUME IInv, NEW d, NEW rhs, Initialize(d, rhs), visits' = visits + 1, phase # "idle"
  PROVE  Accounted
<1>. DEFINE declared == CanBuildType(d.type)
            id       == Len(vars) + 1
            lhs      == IF declared THEN VariableRef(id, BuildType(d.type)) ELSE Lookup(d.name)
            scope    == IF declared THEN WithVariable(Current, id, d.name, BuildType(d.type))
                                    ELSE Current
            assigned == (declared \/ Visible(d.name)) /\ CanAssign(lhs, rhs)
            after    == IF assigned THEN WithStatement(scope, "initialization", Assigned(lhs, rhs))
                                    ELSE scope
            v        == [name |-> d.name, typ |-> BuildType(d.type)]
<1>1. /\ vars' = IF declared THEN Append(vars, v) ELSE vars
      /\ scope_stack' = ReplaceCurrent(after)
      /\ errors' = errors + (IF declared THEN 0 ELSE 1) + (IF assigned THEN 0 ELSE 1)
      /\ UNCHANGED <<functions, phase, results>>
  BY DEF Initialize
<1>2. "block" \in DOMAIN scope /\ scope.block = Current.block
  BY WithVariableCounts, CurrentBlockList
<1>. HIDE DEF declared, assigned, v, id, lhs, scope
<1>3. Counted(after.block) = Counted(Current.block)
  BY <1>2, CurrentBlockList, WithStatementCounts
<1>4. errors \in Nat
  BY DEF IInv, TypeOK
<1>. HIDE DEF after
<1>5. CASE declared /\ assigned
  <2>1. vars' = Append(vars, v) /\ errors' = errors
    BY <1>1, <1>4, <1>5
  <2>2. QED
    BY <1>1, <1>3, <2>1, DeclarationCounts
<1>6. CASE ~declared \/ ~assigned
  <2>1. errors' # 0
    BY <1>1, <1>4, <1>6
  <2>2. OnStack' = OnStack
    BY <1>1, <1>3, CurrentCounts
  <2>3. ~ErrorFree'
    BY <2>1, ErrorFreeMeans
  <2>4. QED
    BY <1>1, <2>2, <2>3 DEF Accounted, Fails
<1>7. QED
  BY <1>5, <1>6

LEMMA StatementCounts ==
  ASSUME IInv, VisitStatement
  PROVE  Accounted
<1>1. ASSUME NEW d \in VariableDecls, VisitVariable(d) PROVE Accounted
  <2>1. visits' = visits + 1 /\ phase # "idle"
    BY <1>1 DEF VisitVariable, Visit
  <2>2. CASE CanBuildType(d.type)
    <3>. DEFINE v == [name |-> d.name, typ |-> BuildType(d.type)]
                w == WithVariable(Current, Len(vars'), d.name, BuildType(d.type))
    <3>1. /\ vars' = Append(vars, v) /\ scope_stack' = ReplaceCurrent(w)
          /\ UNCHANGED <<functions, phase, errors, results>>
      BY <1>1, <2>2 DEF VisitVariable
    <3>2. w.block = Current.block
      BY WithVariableCounts
    <3>. HIDE DEF v, w
    <3>3. QED
      BY <2>1, <3>1, <3>2, DeclarationCounts
  <2>3. CASE ~CanBuildType(d.type)
    BY <1>1, <2>1, <2>3, FailCounts DEF VisitVariable
  <2>4. QED
    BY <2>2, <2>3
<1>2. ASSUME NEW d \in Initializations, VisitInitialization(d) PROVE Accounted
  <2>1. visits' = visits + 1 /\ phase # "idle"
    BY <1>2 DEF VisitInitialization, Visit
  <2>2. CASE Escape(scope_stack)
    <3>1. OnStack' = OnStack
      BY <2>2 DEF Escape, OnStack, StatementsOf
    <3>2. QED
      BY <2>2, <3>1, EscapeCounts
  <2>3. QED
    BY <1>2, <2>1, <2>2, InitializeCounts, FailCounts, CrashCounts DEF VisitInitialization
<1>3. ASSUME NEW s \in Statements,
             \/ VisitAssignment(s) \/ VisitReturn(s) \/ VisitExpressionStatement(s)
             \/ VisitGate(s) \/ VisitMeasure(s)
      PROVE  Accounted
  <2>1. visits' = visits + 1 /\ phase # "idle"
    BY <1>3 DEF VisitAssignment, VisitReturn, VisitExpressionStatement, VisitGate, VisitMeasure, Visit
  <2>2. \/ Fail
        \/ \E outcome, node, operands : node # "initialization" /\ Conclude(outcome, node, operands)
    <3>1. ASSUME NEW node, NEW operands, Recorded(node, operands)
          PROVE  Conclude("value", node, operands)
      BY <3>1 DEF Conclude
    <3>2. CASE VisitAssignment(s)
      BY <3>2 DEF VisitAssignment
    <3>3. CASE VisitReturn(s)
      BY <3>3 DEF VisitReturn
    <3>4. CASE VisitExpressionStatement(s)
      BY <3>4 DEF VisitExpressionStatement
    <3>5. CASE VisitGate(s)
      BY <3>1, <3>5 DEF VisitGate
    <3>6. CASE VisitMeasure(s)
      BY <3>1, <3>6 DEF VisitMeasure
    <3>7. QED
      BY <1>3, <3>2, <3>3, <3>4, <3>5, <3>6
  <2>3. QED
    BY <2>1, <2>2, FailCounts, ConcludeCounts
<1>4. QED
  BY <1>1, <1>2, <1>3 DEF VisitStatement

LEMMA EnterCounts ==
  ASSUME IInv, NEW f, EnterFunction(f)
  PROVE  Accounted
<1>1. visits' = visits + 1 /\ phase = "global"
  BY DEF EnterFunction, Visit
<1>2. CASE Fail
  BY <1>1, <1>2, FailCounts
<1>3. CASE scope_stack' = PushScope /\ phase' = "parameters" /\ UNCHANGED <<vars, functions, errors, results>>
  <2>1. scope_stack \in Seq(Scope) /\ Len(scope_stack) \in Nat
    BY CurrentIsScope
  <2>. DEFINE n == Len(scope_stack)
              t == Append(scope_stack, EmptyScope)
  <2>2. scope_stack \in Seq(Scope \cup {EmptyScope})
    BY <2>1
  <2>3. /\ DOMAIN scope_stack = 1 .. n /\ DOMAIN t = 1 .. n + 1 /\ t[n + 1] = EmptyScope
        /\ \A d \in 1 .. n : t[d] = scope_stack[d]
    BY <2>2
  <2>4. Counted(t[n + 1].block) = {}
    BY <2>3 DEF Counted, EmptyScope
  <2>. HIDE DEF t, n
  <2>5. StatementsOf(t) = StatementsOf(scope_stack)
    <3>1. Len(scope_stack) = n
      BY DEF n
    <3>2. StatementsOf(t) = StatementsOf(scope_stack) \cup ({n + 1} \X Counted(t[n + 1].block))
      BY <2>1, <2>3, <3>1, MoreBlocks
    <3>3. {n + 1} \X Counted(t[n + 1].block) = {}
      BY <2>4
    <3>4. QED
      BY <3>2, <3>3
  <2>6. scope_stack' = t
    BY <1>3 DEF PushScope, t
  <2>7. OnStack' = OnStack
    BY <2>5, <2>6 DEF OnStack, StatementsOf
  <2>8. (ErrorFree' => ErrorFree) /\ ~InFunction /\ InFunction'
    BY <1>1, <1>3, ErrorFreeMeans, SeenKept DEF InFunction
  <2>9. QED
    BY <1>1, <1>3, <2>7, <2>8 DEF Accounted, Begins
<1>4. QED
  BY <1>2, <1>3 DEF EnterFunction

-----------------------------------------------------------------------------
(* The block of a function goes from the stack to the function.            *)
LEMMA TopGoes ==
  ASSUME IInv, Len(scope_stack) > 1, scope_stack' = PopScope
  PROVE  LET top == {Len(scope_stack)} \X Counted(Current.block)
         IN  OnStack = OnStack' \cup top /\ OnStack' \cap top = {}
<1>. DEFINE n == Len(scope_stack) - 1
            t == SubSeq(scope_stack, 1, n)
<1>1. scope_stack \in Seq(Scope) /\ n \in Nat
  BY CurrentIsScope
<1>2. DOMAIN t = 1 .. n /\ \A d \in 1 .. n : t[d] = scope_stack[d]
  BY <1>1
<1>3. DOMAIN scope_stack = 1 .. n + 1 /\ n + 1 = Len(scope_stack)
  BY <1>1
<1>4. scope_stack' = t
  BY DEF PopScope
<1>. HIDE DEF t, n
<1>5. /\ StatementsOf(scope_stack) = StatementsOf(t) \cup ({n + 1} \X Counted(scope_stack[n + 1].block))
      /\ StatementsOf(t) \cap ({n + 1} \X Counted(scope_stack[n + 1].block)) = {}
  BY <1>1, <1>2, <1>3, MoreBlocks
<1>6. OnStack' = StatementsOf(t) /\ OnStack = StatementsOf(scope_stack) /\ Current = scope_stack[n + 1]
  BY <1>3, <1>4 DEF OnStack, StatementsOf, Current
<1>7. QED
  BY <1>3, <1>5, <1>6

LEMMA PromoteReturnsCounts ==
  ASSUME NEW block \in Seq(Statement), NEW kind, NEW last
  PROVE  Counted(PromoteReturns(block, kind, last)) = Counted(block)
<1>. DEFINE t == PromoteReturns(block, kind, last)
<1>1. DOMAIN t = DOMAIN block
  BY DEF PromoteReturns
<1>2. \A i \in DOMAIN block : block[i] \in Statement
  OBVIOUS
<1>3. ASSUME NEW i \in DOMAIN block PROVE t[i].node = block[i].node
  <2>. DEFINE x == [block[i] EXCEPT !.operands = <<Promoted(@[1], kind)>>]
  <2>1. t[i] = block[i] \/ t[i] = x
    BY DEF PromoteReturns
  <2>2. "node" \in DOMAIN block[i]
    BY <1>2 DEF Statement
  <2>3. x.node = block[i].node
    BY <2>2
  <2>4. QED
    BY <2>1, <2>3
<1>. HIDE DEF t
<1>4. Counted(t) = Counted(block)
  BY <1>1, <1>3 DEF Counted
<1>5. QED
  BY <1>4 DEF t

LEMMA RegisterCounts ==
  ASSUME IInv, phase = "body", NEW block, Counted(block) = Counted(Current.block),
         Register(block), UNCHANGED visits
  PROVE  Accounted
<1>. DEFINE f == FrameFunction(block)
            m == Len(functions)
            t == Append(functions, f)
            top == {Len(scope_stack)} \X Counted(Current.block)
            new == {m + 1} \X Counted(block)
<1>1. /\ functions' = t /\ scope_stack' = PopScope /\ phase' = "global"
      /\ UNCHANGED <<vars, errors, results>>
  BY DEF Register
<1>2. "block" \in DOMAIN f /\ f.block = block
  BY DEF FrameFunction
<1>3. functions \in Seq(Function \cup {f}) /\ m \in Nat
  BY DEF IInv, TypeOK
<1>4. /\ DOMAIN functions = 1 .. m /\ DOMAIN t = 1 .. m + 1 /\ t[m + 1] = f
      /\ \A d \in 1 .. m : t[d] = functions[d]
  BY <1>3
<1>. HIDE DEF f, m
<1>5. Len(functions') = Len(functions) + 1
  BY <1>1, <1>3
<1>. HIDE DEF t
<1>6. /\ StatementsOf(t) = StatementsOf(functions) \cup new
      /\ StatementsOf(functions) \cap new = {}
  BY <1>2, <1>3, <1>4, MoreBlocks
<1>7. StatementsOf(functions)' = StatementsOf(t)
  BY <1>1 DEF StatementsOf
<1>8. Current.block \in Seq(Statement) /\ Len(scope_stack) > 1
  BY CurrentBlockList DEF IInv, TypeOK
<1>9. OnStack = OnStack' \cup top /\ OnStack' \cap top = {}
  BY <1>1, <1>8, TopGoes
<1>10. IsFiniteSet(top) /\ IsFiniteSet(new) /\ Cardinality(top) = Cardinality(new)
  BY <1>8, BlockCount
<1>. HIDE DEF top, new
<1>11. (ErrorFree' => ErrorFree) /\ InFunction /\ ~InFunction'
  BY <1>1, ErrorFreeMeans, SeenKept DEF InFunction
<1>12. QED
  BY <1>1, <1>5, <1>6, <1>7, <1>9, <1>10, <1>11 DEF Accounted, Registers

LEMMA LeaveCounts ==
  ASSUME IInv, LeaveFunction
  PROVE  Accounted
<1>. DEFINE block == Current.block
            kind == frame.return_type.kind
<1>1. phase = "body" /\ UNCHANGED visits /\ block \in Seq(Statement) /\ Len(scope_stack) > 1
  BY CurrentBlockList DEF LeaveFunction, IInv, TypeOK
<1>2. CASE Reject
  <2>1. errors \in Nat /\ errors' = errors + 1 /\ UNCHANGED functions /\ phase' # "idle"
    BY <1>2 DEF IInv, TypeOK, Reject
  <2>2. errors' # 0
    BY <2>1
  <2>3. OnStack' \subseteq OnStack
    BY <1>1, <1>2, TopGoes DEF Reject
  <2>4. ~ErrorFree'
    BY <2>2, ErrorFreeMeans
  <2>5. QED
    BY <2>1, <2>3, <2>4 DEF Accounted, Fails
<1>3. CASE Register(block)
  BY <1>1, <1>3, RegisterCounts
<1>4. ASSUME NEW last, Register(PromoteReturns(block, kind, last)) PROVE Accounted
  <2>. DEFINE b == PromoteReturns(block, kind, last)
  <2>1. Counted(b) = Counted(Current.block)
    BY <1>1, PromoteReturnsCounts
  <2>. HIDE DEF b
  <2>2. Register(b)
    BY <1>4 DEF b
  <2>3. QED
    BY <1>1, <2>1, <2>2, RegisterCounts
<1>5. ASSUME NEW last,
             Escape(ReplaceCurrent([Current EXCEPT !.block = PromoteReturns(block, kind, last)]))
      PROVE  Accounted
  <2>. DEFINE b == PromoteReturns(block, kind, last)
              scope == [Current EXCEPT !.block = b]
  <2>1. Counted(b) = Counted(Current.block)
    BY <1>1, PromoteReturnsCounts
  <2>. HIDE DEF b
  <2>2. scope.block = b
    BY CurrentBlockList
  <2>. HIDE DEF scope
  <2>3. scope_stack' = ReplaceCurrent(scope)
    BY <1>5 DEF Escape, scope, b
  <2>4. OnStack' = OnStack
    BY <2>1, <2>2, <2>3, CurrentCounts
  <2>5. QED
    BY <1>5, <2>4, EscapeCounts
<1>6. QED
  BY <1>2, <1>3, <1>4, <1>5 DEF LeaveFunction

-----------------------------------------------------------------------------
LEMMA StepCounts ==
  ASSUME IInv, phase = "idle" /\ errors # 0 => Seen, [Next]_state
  PROVE  Accounted
<1>1. UNCHANGED scope_stack => OnStack' = OnStack
  BY DEF OnStack, StatementsOf
<1>2. CASE Refuse
  <2>. DEFINE r == Ended("refused")
  <2>1. results' = Append(results, r)
    BY <1>2 DEF Refuse
  <2>. HIDE DEF r
  <2>2. Seen => Seen'
    BY <2>1, SeenKept
  <2>3. (ErrorFree' => ErrorFree) /\ InFunction' = InFunction
    BY <1>2, <2>2, ErrorFreeMeans DEF Refuse, InFunction
  <2>4. QED
    BY <1>1, <1>2, <2>2, <2>3 DEF Refuse, CanAnalyze, Accounted, Waits
<1>3. CASE Analyze
  <2>1. Seen' <=> Seen
    BY <1>3, SeenKept DEF Analyze
  <2>2. (ErrorFree' => ErrorFree) /\ InFunction' = InFunction
    BY <1>3, <2>1, ErrorFreeMeans DEF Analyze, CanAnalyze, InFunction
  <2>3. QED
    BY <1>1, <1>3, <2>2 DEF Analyze, Accounted, Waits
<1>4. CASE Finish
  <2>1. PICK r : results' = Append(results, r) /\ r.errors = errors
    BY <1>4 DEF Finish, Root, Ended
  <2>2. Seen' <=> Seen \/ Bad(r)
    BY <2>1, SeenKept
  <2>3. errors # 0 => Bad(r)
    BY <2>1 DEF Bad
  <2>4. (ErrorFree' => ErrorFree) /\ InFunction' = InFunction
    BY <1>4, <2>2, ErrorFreeMeans DEF Finish, InFunction
  <2>5. QED
    BY <1>1, <1>4, <2>2, <2>3, <2>4 DEF Finish, Accounted, Waits
<1>5. CASE VisitFunctionBody \/ UNCHANGED state
  <2>1. Seen' <=> Seen
    BY <1>5, SeenKept DEF VisitFunctionBody, state
  <2>2. (ErrorFree' => ErrorFree) /\ InFunction' = InFunction
    BY <1>5, <2>1, ErrorFreeMeans DEF VisitFunctionBody, InFunction, state
  <2>3. QED
    BY <1>1, <1>5, <2>1, <2>2 DEF VisitFunctionBody, state, Accounted, Waits
<1>6. QED
  BY <1>2, <1>3, <1>4, <1>5, StatementCounts, EnterCounts, LeaveCounts DEF Next, Continue

LEMMA InitAccount == Init => Account
<1> SUFFICES ASSUME Init PROVE Account
  OBVIOUS
<1>1. scope_stack = <<GlobalScope>> /\ functions = <<>> /\ vars = <<>> /\ errors = 0 /\ visits = 0
      /\ phase = "idle"
  BY DEF Init
<1>2. Counted(GlobalScope.block) = {}
  BY DEF Counted, GlobalScope, EmptyScope
<1>3. DOMAIN <<GlobalScope>> = {1} /\ (<<GlobalScope>>)[1] = GlobalScope
  OBVIOUS
<1>4. OnStack = {} /\ StatementsOf(functions) = {}
  BY <1>1, <1>2, <1>3 DEF OnStack, StatementsOf
<1>5. IsFiniteSet({}) /\ Cardinality({}) = 0
  BY FS_EmptySet
<1>6. Len(<<>>) = 0
  OBVIOUS
<1>7. NothingLost
  <2>1. Len(vars) = 0 /\ Len(functions) = 0
    BY <1>1, <1>6, Zenon
  <2>2. ~InFunction
    BY <1>1 DEF InFunction
  <2>3. Cardinality(StatementsOf(scope_stack)) = 0 /\ Cardinality(StatementsOf(functions)) = 0
    BY <1>4, <1>5, Zenon DEF OnStack
  <2>. HIDE DEF StatementsOf
  <2>4. QED
    BY <1>1, <2>1, <2>2, <2>3 DEF NothingLost
<1>8. QED
  BY <1>1, <1>4, <1>5, <1>7 DEF Account

(* However declarations, statements and functions follow each other in one *)
(* analysis or several: without an error each visit is accounted for.      *)
THEOREM NothingLostHolds == Spec => []NothingLost
<1>1. IInv /\ Account /\ IInv' /\ [Next]_state => Account'
  BY StepCounts, AccountKept DEF Account, Accounted
<1>2. Account => NothingLost
  BY DEF Account
<1>3. QED
  BY <1>1, <1>2, InitAccount, Invariant, PTL DEF Spec
=============================================================================
