-------------------------- MODULE V1xAnalyzerProofs --------------------------
(***************************************************************************)
(* V1xAnalyzer for every alphabet of statements, whatever is registered,   *)
(* every version and every bound.  First what does not depend on what      *)
(* expressions are analyzed to: the scopes and the error model.  Then what *)
(* stands in the tree: instructions whose operands fit and gotos whose     *)
(* names were noted (FitInv), jumps that have one target and gotos that    *)
(* have any (JumpInv).  Then what expressions are analyzed to:             *)
(* every constant in every table is a number (TypeInv), from which the     *)
(* types follow.  Then which names the table of the global scope holds     *)
(* (BoundInv), from which the list of mappings follows.  Last what these   *)
(* names stand for (NamesInv): their values are those of the reference.    *)
(* At the end, that the simplification of control flow keeps the runs.     *)
(***************************************************************************)
EXTENDS V1xRuns, SequenceTheorems, FiniteSetTheorems, TLAPS

(* The scopes s belong to the handlers h.                                  *)
LoopAround(h, i) == \E k \in 1 .. i - 1 : IsLoop(h[k].header)

Nested(s, h) ==
  /\ IsList(s) /\ IsList(h) /\ Len(s) = 1 + Len(h)
  /\ \A i \in 1 .. Len(s) :
       /\ "within_loop" \in DOMAIN s[i]
       /\ s[i].within_loop \in BOOLEAN
       /\ s[i].within_loop <=> LoopAround(h, i)

(* Scopes that differ in what they hold only.                              *)
Alike(s, t) ==
  /\ IsList(t) /\ Len(t) = Len(s)
  /\ \A i \in 1 .. Len(s) :
       "within_loop" \in DOMAIN t[i] /\ t[i].within_loop = s[i].within_loop

IInv ==
  /\ Nested(scope_stack, handlers)
  /\ phase = "new" => handlers = <<>>
  /\ "error_model" \in DOMAIN root

ModelKept == root.error_model # Absent => root'.error_model = root.error_model

-----------------------------------------------------------------------------
LEMMA ListFacts ==
  ASSUME NEW s, IsList(s)
  PROVE  Len(s) \in Nat /\ DOMAIN s = 1 .. Len(s)
BY DEF IsList

LEMMA ListOfItsElements ==
  ASSUME NEW S, NEW t \in Seq(S)
  PROVE  IsList(t)
<1>1. Len(t) \in Nat /\ t \in [1 .. Len(t) -> S]
  OBVIOUS
<1>2. t \in [1 .. Len(t) -> Range(t)]
  BY <1>1 DEF Range
<1>3. QED
  BY <1>1, <1>2, SeqDef DEF IsList

LEMMA AppendToList ==
  ASSUME NEW s, IsList(s), NEW x
  PROVE  /\ IsList(Append(s, x)) /\ Len(Append(s, x)) = Len(s) + 1
         /\ \A i \in 1 .. Len(s) : Append(s, x)[i] = s[i]
         /\ Append(s, x)[Len(s) + 1] = x
<1>1. s \in Seq(Range(s) \cup {x})
  BY DEF IsList
<1>2. /\ Append(s, x) \in Seq(Range(s) \cup {x}) /\ Len(Append(s, x)) = Len(s) + 1
      /\ \A i \in 1 .. Len(s) : Append(s, x)[i] = s[i]
      /\ Append(s, x)[Len(s) + 1] = x
  BY <1>1
<1>3. QED
  BY <1>2, ListOfItsElements

LEMMA FrontOfList ==
  ASSUME NEW s, IsList(s), s # <<>>
  PROVE  /\ IsList(Front(s)) /\ Len(Front(s)) = Len(s) - 1 /\ Len(s) >= 1
         /\ \A i \in 1 .. Len(s) - 1 : Front(s)[i] = s[i]
<1>1. s \in Seq(Range(s)) /\ Len(s) \in Nat \ {0}
  BY DEF IsList
<1>2. Front(s) = SubSeq(s, 1, Len(s) - 1)
  BY DEF Front
<1>3. \A i \in 1 .. Len(s) - 1 : s[i] \in Range(s)
  BY <1>1 DEF Range
<1>4. /\ Front(s) \in Seq(Range(s))
      /\ Len(Front(s)) = IF 1 <= Len(s) - 1 THEN Len(s) - 1 - 1 + 1 ELSE 0
      /\ \A i \in 1 .. Len(s) - 1 - 1 + 1 : Front(s)[i] = s[1 + i - 1]
  BY <1>1, <1>2, <1>3, SubSeqProperties
<1>5. Len(Front(s)) = Len(s) - 1
  <2>1. ASSUME NEW m \in Nat \ {0}, NEW n, n = IF 1 <= m - 1 THEN m - 1 - 1 + 1 ELSE 0
        PROVE  n = m - 1
    BY <2>1
  <2>2. QED
    BY <1>1, <1>4, <2>1
<1>6. ASSUME NEW i \in 1 .. Len(s) - 1 PROVE Front(s)[i] = s[i]
  <2>1. i \in 1 .. Len(s) - 1 - 1 + 1 /\ 1 + i - 1 = i
    BY <1>1
  <2>2. QED
    BY <1>4, <2>1
<1>7. QED
  BY <1>1, <1>4, <1>5, <1>6, ListOfItsElements

LEMMA ReplaceLast ==
  ASSUME NEW s, IsList(s), s # <<>>, NEW x
  PROVE  LET t == [s EXCEPT ![Len(s)] = x]
         IN  /\ IsList(t) /\ Len(t) = Len(s) /\ t[Len(s)] = x
             /\ \A i \in 1 .. Len(s) - 1 : t[i] = s[i]
<1>1. s \in Seq(Range(s) \cup {x}) /\ Len(s) \in Nat \ {0}
  BY DEF IsList
<1>. DEFINE t == [s EXCEPT ![Len(s)] = x]
<1>2. Len(s) \in 1 .. Len(s) /\ x \in Range(s) \cup {x}
  BY <1>1
<1>3. /\ t \in Seq(Range(s) \cup {x}) /\ Len(t) = Len(s)
      /\ \A j \in 1 .. Len(s) : t[j] = IF j = Len(s) THEN x ELSE s[j]
  BY <1>1, <1>2, ExceptSeq
<1>. HIDE DEF t
<1>4. IsList(t)
  BY <1>3, ListOfItsElements
<1>5. \A i \in 1 .. Len(s) - 1 : i \in 1 .. Len(s) /\ i # Len(s)
  BY <1>1
<1>6. QED
  BY <1>2, <1>3, <1>4, <1>5 DEF t

-----------------------------------------------------------------------------
(* Scopes.                                                                 *)
LEMMA AlikeNested ==
  ASSUME NEW s, NEW t, NEW h, Nested(s, h), Alike(s, t)
  PROVE  Nested(t, h)
BY DEF Nested, Alike

LEMMA AlikeSame ==
  ASSUME NEW s, NEW h, Nested(s, h)
  PROVE  Alike(s, s)
BY DEF Nested, Alike

LEMMA NestedNotEmpty ==
  ASSUME NEW s, NEW h, Nested(s, h)
  PROVE  s # <<>> /\ Len(s) \in Nat \ {0} /\ Len(h) \in Nat
BY ListFacts DEF Nested

(* The last scope gets other mappings, or another block.                   *)
LEMMA LastChanged ==
  ASSUME NEW s, NEW h, Nested(s, h), NEW x,
         "within_loop" \in DOMAIN x, x.within_loop = s[Len(s)].within_loop
  PROVE  Alike(s, [s EXCEPT ![Len(s)] = x])
<1>. DEFINE t == [s EXCEPT ![Len(s)] = x]
<1>0. IsList(s) /\ s # <<>>
  BY NestedNotEmpty DEF Nested
<1>1. /\ IsList(t) /\ Len(t) = Len(s) /\ t[Len(s)] = x
      /\ \A i \in 1 .. Len(s) - 1 : t[i] = s[i]
  BY <1>0, ReplaceLast
<1>. HIDE DEF t
<1>2. \A i \in 1 .. Len(s) : i = Len(s) \/ i \in 1 .. Len(s) - 1
  BY NestedNotEmpty
<1>3. QED
  BY <1>1, <1>2 DEF Alike, Nested, t

LEMMA NewMappings ==
  ASSUME NEW s, NEW h, Nested(s, h), NEW m
  PROVE  Alike(s, [s EXCEPT ![Len(s)] = [s[Len(s)] EXCEPT !.mappings = m]])
<1>1. "within_loop" \in DOMAIN s[Len(s)]
  BY NestedNotEmpty DEF Nested
<1>. DEFINE x == [s[Len(s)] EXCEPT !.mappings = m]
<1>2. "within_loop" \in DOMAIN x /\ x.within_loop = s[Len(s)].within_loop
  BY <1>1
<1>. HIDE DEF x
<1>3. Alike(s, [s EXCEPT ![Len(s)] = x])
  BY <1>2, LastChanged
<1>4. QED
  BY <1>3 DEF x

LEMMA NewBlock ==
  ASSUME NEW s, NEW h, Nested(s, h), NEW b
  PROVE  Alike(s, [s EXCEPT ![Len(s)] = [s[Len(s)] EXCEPT !.block = b]])
<1>1. "within_loop" \in DOMAIN s[Len(s)]
  BY NestedNotEmpty DEF Nested
<1>. DEFINE x == [s[Len(s)] EXCEPT !.block = b]
<1>2. "within_loop" \in DOMAIN x /\ x.within_loop = s[Len(s)].within_loop
  BY <1>1
<1>. HIDE DEF x
<1>3. Alike(s, [s EXCEPT ![Len(s)] = x])
  BY <1>2, LastChanged
<1>4. QED
  BY <1>3 DEF x

(* Statements go to a block or to a subcircuit.                            *)
LEMMA StatementsAdded ==
  ASSUME NEW r, "error_model" \in DOMAIN r, NEW s, NEW h, Nested(s, h), NEW statements
  PROVE  LET after == AddToCurrentBlock(r, s, statements)
         IN  /\ Nested(after.scopes, h)
             /\ "error_model" \in DOMAIN after.root
             /\ after.root.error_model = r.error_model
<1>. DEFINE t == [s EXCEPT ![Len(s)].block = @ \o statements]
            q == [r EXCEPT !.subcircuits =
                    [CurrentSubcircuits(r) EXCEPT
                       ![Len(CurrentSubcircuits(r))].body = @ \o statements]]
<1>1. Nested(t, h)
  BY NewBlock, AlikeNested
<1>2. "error_model" \in DOMAIN q /\ q.error_model = r.error_model
  OBVIOUS
<1>3. AddToCurrentBlock(r, s, statements) \in
        {[root |-> r, scopes |-> s], [root |-> r, scopes |-> t], [root |-> q, scopes |-> s]}
  BY DEF AddToCurrentBlock
<1>. HIDE DEF t, q
<1>4. QED
  BY <1>1, <1>2, <1>3

LEMMA Pushed ==
  ASSUME NEW s, NEW h, Nested(s, h), NEW handler
  PROVE  Nested(PushScope(s, IsLoop(handler.header)), Append(h, handler))
<1>. DEFINE loop == IsLoop(handler.header)
            top == s[Len(s)]
            x == [top EXCEPT !.block = <<>>, !.within_loop = @ \/ loop]
            t == Append(s, x)
            g == Append(h, handler)
<1>1. PushScope(s, loop) = t
  BY DEF PushScope
<1>2. /\ Len(s) \in Nat \ {0} /\ Len(h) \in Nat /\ Len(s) = 1 + Len(h)
      /\ \A i \in 1 .. Len(s) : /\ "within_loop" \in DOMAIN s[i] /\ s[i].within_loop \in BOOLEAN
                                /\ s[i].within_loop <=> LoopAround(h, i)
  BY NestedNotEmpty DEF Nested
<1>3. loop \in BOOLEAN
  BY DEF IsLoop
<1>4. "within_loop" \in DOMAIN x /\ x.within_loop = (top.within_loop \/ loop)
  BY <1>2
<1>5. /\ IsList(t) /\ Len(t) = Len(s) + 1
      /\ \A i \in 1 .. Len(s) : t[i] = s[i]
      /\ t[Len(s) + 1] = x
  BY AppendToList DEF Nested
<1>6. /\ IsList(g) /\ Len(g) = Len(h) + 1
      /\ \A i \in 1 .. Len(h) : g[i] = h[i]
      /\ g[Len(h) + 1] = handler
  BY AppendToList DEF Nested
<1>. HIDE DEF x, t, g
<1>7. \A i \in 1 .. Len(s) : LoopAround(g, i) <=> LoopAround(h, i)
  BY <1>2, <1>6 DEF LoopAround
<1>8. LoopAround(g, Len(s) + 1) <=> LoopAround(h, Len(s)) \/ loop
  <2>1. \A k \in 1 .. Len(s) : k = Len(s) \/ k \in 1 .. Len(s) - 1
    BY <1>2
  <2>2. g[Len(s)] = handler
    BY <1>2, <1>6
  <2>3. \A k \in 1 .. Len(s) - 1 : g[k] = h[k] /\ k \in 1 .. Len(s)
    BY <1>2, <1>6
  <2>4. Len(s) \in 1 .. Len(s) /\ Len(s) + 1 - 1 = Len(s)
    BY <1>2
  <2>5. LoopAround(g, Len(s) + 1) <=> \E k \in 1 .. Len(s) : IsLoop(g[k].header)
    BY <2>4 DEF LoopAround
  <2>6. loop => LoopAround(g, Len(s) + 1)
    BY <2>2, <2>4, <2>5
  <2>7. LoopAround(h, Len(s)) => LoopAround(g, Len(s) + 1)
    BY <2>3, <2>5 DEF LoopAround
  <2>8. LoopAround(g, Len(s) + 1) => LoopAround(h, Len(s)) \/ loop
    BY <2>1, <2>2, <2>3, <2>5 DEF LoopAround
  <2>9. QED
    BY <2>6, <2>7, <2>8
<1>9. ASSUME NEW i \in 1 .. Len(t)
      PROVE  /\ "within_loop" \in DOMAIN t[i] /\ t[i].within_loop \in BOOLEAN
             /\ t[i].within_loop <=> LoopAround(g, i)
  <2>1. CASE i \in 1 .. Len(s)
    BY <1>2, <1>5, <1>7, <2>1
  <2>2. CASE i = Len(s) + 1
    <3>1. top.within_loop \in BOOLEAN /\ (top.within_loop <=> LoopAround(h, Len(s)))
      BY <1>2
    <3>2. QED
      BY <1>3, <1>4, <1>5, <1>8, <2>2, <3>1
  <2>3. QED
    BY <1>2, <1>5, <2>1, <2>2
<1>10. Nested(t, g)
  BY <1>2, <1>5, <1>6, <1>9 DEF Nested
<1>11. QED
  BY <1>1, <1>10 DEF t, g

LEMMA PoppedScope ==
  ASSUME NEW s, NEW h, Nested(s, h), h # <<>>
  PROVE  Nested(PopScope(s), Front(h))
<1>. DEFINE t == Front(s)
            g == Front(h)
<1>1. /\ Len(s) \in Nat \ {0} /\ Len(h) \in Nat /\ Len(s) = 1 + Len(h)
      /\ \A i \in 1 .. Len(s) : /\ "within_loop" \in DOMAIN s[i] /\ s[i].within_loop \in BOOLEAN
                                /\ s[i].within_loop <=> LoopAround(h, i)
  BY NestedNotEmpty DEF Nested
<1>2. /\ IsList(t) /\ Len(t) = Len(s) - 1
      /\ \A i \in 1 .. Len(s) - 1 : t[i] = s[i]
  BY FrontOfList, NestedNotEmpty DEF Nested
<1>3. /\ IsList(g) /\ Len(g) = Len(h) - 1
      /\ \A i \in 1 .. Len(h) - 1 : g[i] = h[i]
  BY FrontOfList DEF Nested
<1>. HIDE DEF t, g
<1>4. \A i \in 1 .. Len(s) - 1 : LoopAround(g, i) <=> LoopAround(h, i)
  BY <1>1, <1>3 DEF LoopAround
<1>5. Nested(t, g)
  BY <1>1, <1>2, <1>3, <1>4 DEF Nested
<1>6. QED
  BY <1>5 DEF PopScope, t, g

-----------------------------------------------------------------------------
(* What most statements do: a statement of a block, or an error.           *)
LEMMA Reported ==
  ASSUME NEW n, NEW crashed, Report(n, crashed), phase = "statements"
  PROVE  phase' # "new"
BY DEF Report

LEMMA Added ==
  ASSUME IInv, NEW statements, Becomes(AddToCurrentBlock(root, scope_stack, statements)),
         UNCHANGED handlers, phase' # "new"
  PROVE  IInv' /\ ModelKept
BY StatementsAdded DEF IInv, ModelKept, Becomes

LEMMA StackAlike ==
  ASSUME IInv, Alike(scope_stack, scope_stack'), UNCHANGED handlers, phase' # "new",
         "error_model" \in DOMAIN root', ModelKept
  PROVE  IInv' /\ ModelKept
BY AlikeNested DEF IInv

LEMMA StackSame == IInv => Alike(scope_stack, scope_stack)
BY AlikeSame DEF IInv

LEMMA OneScope ==
  ASSUME NEW s, "within_loop" \in DOMAIN s, s.within_loop = FALSE
  PROVE  Nested(<<s>>, <<>>)
<1>1. IsList(<<s>>) /\ IsList(<<>>)
  BY DEF IsList, Range
<1>2. ~LoopAround(<<>>, 1)
  BY DEF LoopAround
<1>3. Len(<<s>>) = 1 /\ Len(<<>>) = 0 /\ <<s>>[1] = s
  OBVIOUS
<1>4. ASSUME NEW i \in 1 .. Len(<<s>>) PROVE i = 1
  BY <1>3
<1>5. \A i \in 1 .. Len(<<s>>) :
        /\ "within_loop" \in DOMAIN (<<s>>)[i] /\ (<<s>>)[i].within_loop \in BOOLEAN
        /\ (<<s>>)[i].within_loop <=> LoopAround(<<>>, i)
  <2>1. SUFFICES ASSUME NEW i \in 1 .. Len(<<s>>)
                 PROVE  /\ "within_loop" \in DOMAIN (<<s>>)[i]
                        /\ (<<s>>)[i].within_loop \in BOOLEAN
                        /\ (<<s>>)[i].within_loop <=> LoopAround(<<>>, i)
    OBVIOUS
  <2>2. i = 1
    BY <1>4
  <2>3. (<<s>>)[i] = s
    BY <2>2
  <2>4. ~LoopAround(<<>>, i)
    BY <1>2, <2>2
  <2>5. QED
    BY <2>3, <2>4
<1>6. Len(<<s>>) = 1 + Len(<<>>)
  BY <1>3
<1>7. QED
  BY <1>1, <1>5, <1>6 DEF Nested

LEMMA StartStep ==
  ASSUME IInv, NEW count, Start(count)
  PROVE  IInv' /\ ModelKept
<1>1. PICK n : StartWith(n)
  BY DEF Start
<1>2. /\ handlers' = <<>> /\ phase' # "new"
      /\ "error_model" \in DOMAIN root' /\ root'.error_model = root.error_model
  BY <1>1 DEF StartWith, IInv
<1>3. \E s : /\ scope_stack' = <<s>> /\ "within_loop" \in DOMAIN s /\ s.within_loop = FALSE
  <2>1. \/ scope_stack' = <<GlobalScope>>
        \/ scope_stack' = <<[GlobalScope EXCEPT !.mappings = WithRegisters(@, n.value)]>>
    BY <1>1 DEF StartWith
  <2>2. "within_loop" \in DOMAIN GlobalScope /\ GlobalScope.within_loop = FALSE
    BY DEF GlobalScope
  <2>3. QED
    BY <2>1, <2>2
<1>4. PICK s : /\ scope_stack' = <<s>> /\ "within_loop" \in DOMAIN s /\ s.within_loop = FALSE
  BY <1>3
<1>5. Nested(scope_stack', <<>>)
  BY <1>4, OneScope
<1>6. QED
  BY <1>2, <1>5 DEF IInv, ModelKept

LEMMA BundleStep ==
  ASSUME IInv, NEW bundle, VisitBundle(bundle)
  PROVE  IInv' /\ ModelKept
<1>1. PICK items : VisitItems(items) /\ phase = "statements" /\ UNCHANGED handlers
  BY DEF VisitBundle, Visit
<1>2. PICK statements, n, crashed :
        Becomes(AddToCurrentBlock(root, scope_stack, statements)) /\ Report(n, crashed)
  BY <1>1 DEF VisitItems
<1>3. QED
  BY <1>1, <1>2, Reported, Added

LEMMA ErrorModelStep ==
  ASSUME IInv, NEW operands, VisitErrorModel(operands)
  PROVE  IInv' /\ ModelKept
<1>1. PICK model : /\ SetErrorModel(model) /\ phase = "statements"
                   /\ UNCHANGED <<scope_stack, handlers>>
                   /\ ErrorModelMissing \/ model = Error
  BY DEF VisitErrorModel, Visit
<1>2. Failed(Error)
  BY DEF Failed, Error
<1>3. ModelKept /\ "error_model" \in DOMAIN root'
  BY <1>1, <1>2 DEF SetErrorModel, ErrorModelMissing, ModelKept, IInv
<1>4. phase' # "new"
  BY <1>1, Reported DEF SetErrorModel
<1>5. QED
  BY <1>1, <1>3, <1>4, StackAlike, StackSame

LEMMA MappingStep ==
  ASSUME IInv, NEW decl, VisitMapping(decl)
  PROVE  IInv' /\ ModelKept
<1>1. PICK value : MapTo(decl.alias, value) /\ phase = "statements" /\ UNCHANGED <<root, handlers>>
  BY DEF VisitMapping, Visit
<1>2. phase' # "new"
  BY <1>1, Reported DEF MapTo
<1>3. Alike(scope_stack, scope_stack')
  BY <1>1, NewMappings, StackSame DEF MapTo, IInv
<1>4. QED
  BY <1>1, <1>2, <1>3, StackAlike DEF ModelKept, IInv

LEMMA VariablesStep ==
  ASSUME IInv, NEW decl, VisitVariables(decl)
  PROVE  IInv' /\ ModelKept
<1>1. /\ phase = "statements" /\ UNCHANGED handlers
      /\ \E ok : Report(IF ok THEN 0 ELSE 1, FALSE)
  BY DEF VisitVariables, Visit
<1>2. phase' # "new"
  BY <1>1, Reported
<1>3. "error_model" \in DOMAIN root' /\ root'.error_model = root.error_model
  BY DEF VisitVariables, IInv
<1>4. \/ scope_stack' = scope_stack
      \/ \E m : scope_stack' = [scope_stack EXCEPT ![Len(scope_stack)] =
                                   [scope_stack[Len(scope_stack)] EXCEPT !.mappings = m]]
  BY DEF VisitVariables
<1>5. Alike(scope_stack, scope_stack')
  <2>1. CASE scope_stack' = scope_stack
    BY <2>1, StackSame
  <2>2. ASSUME NEW m, scope_stack' = [scope_stack EXCEPT ![Len(scope_stack)] =
                                        [scope_stack[Len(scope_stack)] EXCEPT !.mappings = m]]
        PROVE  Alike(scope_stack, scope_stack')
    <3>1. Nested(scope_stack, handlers)
      BY DEF IInv
    <3>2. QED
      BY <2>2, <3>1, NewMappings
  <2>3. QED
    BY <1>4, <2>1, <2>2
<1>6. QED
  BY <1>1, <1>2, <1>3, <1>5, StackAlike DEF ModelKept

LEMMA SubcircuitStep ==
  ASSUME IInv, NEW decl, VisitSubcircuit(decl)
  PROVE  IInv' /\ ModelKept
<1>1. PICK n : /\ AddSubcircuit(decl.name, n) /\ phase = "statements"
               /\ UNCHANGED <<scope_stack, handlers>>
  BY DEF VisitSubcircuit, Visit
<1>2. phase' # "new"
  BY <1>1, Reported DEF AddSubcircuit
<1>3. "error_model" \in DOMAIN root' /\ root'.error_model = root.error_model
  BY <1>1 DEF AddSubcircuit, IInv
<1>4. QED
  BY <1>1, <1>2, <1>3, StackAlike, StackSame DEF ModelKept

LEMMA JumpStep ==
  ASSUME IInv, NEW header, VisitJump(header)
  PROVE  IInv' /\ ModelKept
<1>1. /\ phase = "statements" /\ UNCHANGED handlers
      /\ \E ok : Report(IF ok THEN 0 ELSE 1, FALSE)
      /\ \/ Becomes(AddToCurrentBlock(root, scope_stack, <<header>>))
         \/ UNCHANGED <<root, scope_stack>>
  BY DEF VisitJump, Visit, Unchanged, Becomes
<1>2. phase' # "new"
  BY <1>1, Reported
<1>3. CASE Becomes(AddToCurrentBlock(root, scope_stack, <<header>>))
  BY <1>1, <1>2, <1>3, Added
<1>4. CASE UNCHANGED <<root, scope_stack>>
  BY <1>1, <1>2, <1>4, StackAlike, StackSame DEF ModelKept, IInv
<1>5. QED
  BY <1>1, <1>3, <1>4

-----------------------------------------------------------------------------
(* Structured statements.                                                  *)
LEMMA OpenStep ==
  ASSUME IInv, NEW header, Open(header)
  PROVE  IInv' /\ ModelKept
<1>1. PICK analyzed, failure :
        OpenBlock(header, analyzed, failure) /\ phase = "statements" /\ UNCHANGED root
  BY DEF Open, OpenAnalyzed, Visit
<1>2. phase' # "new"
  BY <1>1, Reported DEF OpenBlock
<1>3. CASE failure = Absent
  <2>. DEFINE handler == Handler(header, analyzed)
  <2>1. /\ scope_stack' = PushScope(scope_stack, IsLoop(header))
        /\ handlers' = Append(handlers, handler)
    BY <1>1, <1>3 DEF OpenBlock
  <2>2. handler.header = header
    BY DEF Handler
  <2>. HIDE DEF handler
  <2>3. Nested(scope_stack', handlers')
    BY <2>1, <2>2, Pushed DEF IInv
  <2>4. QED
    BY <1>1, <1>2, <2>3 DEF IInv, ModelKept
<1>4. CASE failure # Absent
  BY <1>1, <1>2, <1>4 DEF OpenBlock, IInv, ModelKept
<1>5. QED
  BY <1>3, <1>4

LEMMA PoppedStack ==
  ASSUME IInv, handlers # <<>>
  PROVE  Nested(Popped, Front(handlers))
BY PoppedScope DEF IInv, Popped

LEMMA ReturnStep ==
  ASSUME IInv, handlers # <<>>, NEW statements, Return(statements), phase' # "new"
  PROVE  IInv' /\ ModelKept
BY PoppedStack, StatementsAdded DEF Return, Becomes, IInv, ModelKept

(* The next branch of an if has a scope of its own.                        *)
LEMMA NextBlockStep ==
  ASSUME IInv, handlers # <<>>, Handling.header.node = "if_else",
         NEW header, header.node = "if_else", NEW analyzed, NextBlock(header, analyzed),
         UNCHANGED root, phase' # "new"
  PROVE  IInv' /\ ModelKept
<1>. DEFINE handler == [header |-> header, analyzed |-> analyzed,
                        branches |-> ClosedBranches, sources |-> ClosedSources]
            front == Front(handlers)
<1>1. /\ handlers' = [handlers EXCEPT ![Len(handlers)] = handler]
      /\ scope_stack' = PushScope(Popped, FALSE)
  BY DEF NextBlock
<1>2. IsLoop(handler.header) = FALSE
  BY DEF IsLoop
<1>. HIDE DEF handler
<1>3. IsList(handlers)
  BY DEF IInv, Nested
<1>4. /\ IsList(front) /\ Len(front) = Len(handlers) - 1 /\ Len(handlers) \in Nat \ {0}
      /\ \A i \in 1 .. Len(handlers) - 1 : front[i] = handlers[i]
  BY <1>3, FrontOfList, ListFacts
<1>5. /\ IsList(handlers') /\ Len(handlers') = Len(handlers)
      /\ handlers'[Len(handlers)] = handler
      /\ \A i \in 1 .. Len(handlers) - 1 : handlers'[i] = handlers[i]
  BY <1>1, <1>3, ReplaceLast
<1>. DEFINE added == Append(front, handler)
<1>6. /\ IsList(added) /\ Len(added) = Len(front) + 1 /\ added[Len(front) + 1] = handler
      /\ \A i \in 1 .. Len(front) : added[i] = front[i]
  BY <1>4, AppendToList
<1>. HIDE DEF added, front
<1>7. /\ Len(added) = Len(handlers) /\ Len(handlers') = Len(handlers)
      /\ \A i \in 1 .. Len(handlers) : added[i] = handlers'[i]
  BY <1>4, <1>5, <1>6
<1>8. Nested(scope_stack', added)
  BY <1>1, <1>2, PoppedStack, Pushed DEF added, front
<1>9. Nested(scope_stack', handlers')
  <2>1. \A i \in 1 .. Len(scope_stack') :
          LoopAround(added, i) <=> LoopAround(handlers', i)
    <3>1. Len(scope_stack') = 1 + Len(handlers)
      BY <1>7, <1>8 DEF Nested
    <3>2. \A i \in 1 .. Len(scope_stack') : \A k \in 1 .. i - 1 : added[k] = handlers'[k]
      BY <1>4, <1>7, <3>1
    <3>3. QED
      BY <3>2 DEF LoopAround
  <2>2. QED
    BY <1>5, <1>7, <1>8, <2>1 DEF Nested
<1>10. QED
  BY <1>9 DEF IInv, ModelKept

LEMMA ElseIfStep ==
  ASSUME IInv, NEW condition, ElseIf(condition)
  PROVE  IInv' /\ ModelKept
<1>1. PICK analyzed :
        /\ ElseIfAnalyzed(condition, analyzed) /\ phase = "statements" /\ UNCHANGED root
        /\ handlers # <<>> /\ Handling.header.node = "if_else"
  BY DEF ElseIf, Visit, InBlock
<1>2. phase' # "new"
  BY <1>1, Reported DEF ElseIfAnalyzed
<1>3. CASE Failed(analyzed)
  BY <1>1, <1>2, <1>3, PoppedStack DEF ElseIfAnalyzed, IInv, ModelKept
<1>4. CASE ~Failed(analyzed)
  <2>. DEFINE header == [node |-> "if_else", condition |-> condition]
  <2>1. NextBlock(header, <<analyzed>>) /\ header.node = "if_else"
    BY <1>1, <1>4 DEF ElseIfAnalyzed
  <2>. HIDE DEF header
  <2>2. QED
    BY <1>1, <1>2, <2>1, NextBlockStep
<1>5. QED
  BY <1>3, <1>4

LEMMA ElseStep ==
  ASSUME IInv, Else
  PROVE  IInv' /\ ModelKept
<1>. DEFINE header == [node |-> "if_else"]
<1>1. /\ NextBlock(header, <<>>) /\ Report(0, FALSE) /\ phase = "statements" /\ UNCHANGED root
      /\ handlers # <<>> /\ Handling.header.node = "if_else" /\ header.node = "if_else"
  BY DEF Else, Visit, InBlock
<1>. HIDE DEF header
<1>2. QED
  BY <1>1, Reported, NextBlockStep

LEMMA EndStep ==
  ASSUME IInv, EndIf \/ EndFor \/ EndForeach \/ EndWhile
  PROVE  IInv' /\ ModelKept
<1>1. /\ handlers # <<>> /\ phase' = phase /\ phase = "statements"
      /\ \E statements : Return(statements)
  BY DEF EndIf, EndFor, EndForeach, EndWhile, InBlock
<1>2. QED
  BY <1>1, ReturnStep

LEMMA EndRepeatStep ==
  ASSUME IInv, NEW c, EndRepeat(c)
  PROVE  IInv' /\ ModelKept
<1>1. PICK condition : ReturnRepeat(condition) /\ handlers # <<>> /\ phase = "statements"
  BY DEF EndRepeat, InBlock
<1>2. phase' # "new" /\ \E statements : Return(statements)
  BY <1>1 DEF ReturnRepeat
<1>3. QED
  BY <1>1, <1>2, ReturnStep

LEMMA FinishStep ==
  ASSUME IInv, Finish
  PROVE  IInv' /\ ModelKept
<1>1. /\ UNCHANGED <<scope_stack, handlers>> /\ phase' # "new"
      /\ "error_model" \in DOMAIN root' /\ root'.error_model = root.error_model
  BY DEF Finish, IInv
<1>2. QED
  BY <1>1 DEF IInv, ModelKept

-----------------------------------------------------------------------------
(* An analysis starts with one scope outside any loop and with no handler. *)
THEOREM InitInv == Init => IInv
<1> SUFFICES ASSUME Init PROVE IInv
  OBVIOUS
<1>1. /\ scope_stack = <<GlobalScope>> /\ handlers = <<>> /\ root = EmptyRoot
      /\ "within_loop" \in DOMAIN GlobalScope /\ GlobalScope.within_loop = FALSE
      /\ "error_model" \in DOMAIN EmptyRoot
  BY DEF Init, GlobalScope, EmptyRoot
<1>2. Nested(<<GlobalScope>>, <<>>)
  BY <1>1, OneScope
<1>3. QED
  BY <1>1, <1>2 DEF IInv

(* Every statement keeps scopes and handlers in step and an error model as *)
(* it is.                                                                  *)
THEOREM NextInv == IInv /\ [Next]_vars => IInv' /\ ModelKept
<1> SUFFICES ASSUME IInv, [Next]_vars PROVE IInv' /\ ModelKept
  OBVIOUS
<1>1. ASSUME NEW count \in QubitCounts, Start(count) PROVE IInv' /\ ModelKept
  BY <1>1, StartStep
<1>2. CASE VisitStatement
  <2>1. ASSUME NEW b \in Bundles, VisitBundle(b) PROVE IInv' /\ ModelKept
    BY <2>1, BundleStep
  <2>2. ASSUME NEW d \in ErrorModelDecls, VisitErrorModel(d) PROVE IInv' /\ ModelKept
    BY <2>2, ErrorModelStep
  <2>3. ASSUME NEW d \in MappingDecls, VisitMapping(d) PROVE IInv' /\ ModelKept
    BY <2>3, MappingStep
  <2>4. ASSUME NEW d \in VariableDecls, VisitVariables(d) PROVE IInv' /\ ModelKept
    BY <2>4, VariablesStep
  <2>5. ASSUME NEW d \in SubcircuitDecls, VisitSubcircuit(d) PROVE IInv' /\ ModelKept
    BY <2>5, SubcircuitStep
  <2>6. ASSUME NEW h \in Headers, VisitJump(h) \/ Open(h) PROVE IInv' /\ ModelKept
    BY <2>6, JumpStep, OpenStep
  <2>7. QED
    BY <1>2, <2>1, <2>2, <2>3, <2>4, <2>5, <2>6 DEF VisitStatement
<1>3. CASE CloseBlock
  <2>1. ASSUME NEW c \in Conditions, ElseIf(c) \/ EndRepeat(c) PROVE IInv' /\ ModelKept
    BY <2>1, ElseIfStep, EndRepeatStep
  <2>2. CASE Else
    BY <2>2, ElseStep
  <2>3. CASE EndIf \/ EndFor \/ EndForeach \/ EndWhile
    BY <2>3, EndStep
  <2>4. QED
    BY <1>3, <2>1, <2>2, <2>3 DEF CloseBlock
<1>4. CASE Finish
  BY <1>4, FinishStep
<1>5. CASE UNCHANGED vars
  BY <1>5 DEF IInv, ModelKept, vars
<1>6. QED
  BY <1>1, <1>2, <1>3, <1>4, <1>5 DEF Next

(* However structured statements nest, end early or fail in a header, every *)
(* block being analyzed has its scope, and a scope knows whether there is a *)
(* loop around it (analyze_subblock).                                       *)
THEOREM ScopesAccountedForHolds == Spec => []ScopesAccountedFor
<1>1. IInv => ScopesAccountedFor
  BY ListFacts DEF IInv, Nested, LoopAround, ScopesAccountedFor
<1>2. IInv /\ [Next]_vars => IInv'
  BY NextInv
<1>3. QED
  BY <1>1, <1>2, InitInv, PTL DEF Spec

(* No statement, and nothing done at the end, replaces an error model once *)
(* there is one (analyze_error_model).                                     *)
THEOREM ErrorModelKeptHolds == Spec => ErrorModelKept
<1>1. IInv /\ [Next]_vars => IInv'
  BY NextInv
<1>2. IInv /\ [Next]_vars => [root.error_model # Absent => root'.error_model = root.error_model]_vars
  BY NextInv DEF ModelKept
<1>3. QED
  BY <1>1, <1>2, InitInv, PTL DEF Spec, ErrorModelKept

-----------------------------------------------------------------------------
(* A set of natural numbers has a least element.                           *)
LEMMA LeastOf ==
  ASSUME NEW S, S \subseteq Nat, S # {}
  PROVE  \E x \in S : \A y \in S : x <= y
<1>. DEFINE R == OpToRel(<, Nat)
<1>1. PICK x \in S : \A y \in S : ~(<<y, x>> \in R)
  <2>1. IsWellFoundedOn(R, Nat)
    BY NatLessThanWellFounded
  <2>. HIDE DEF R
  <2>. QED
    BY <2>1, WFMin
<1>2. R = {ss \in Nat \X Nat : ss[1] < ss[2]}
  BY DEF OpToRel
<1>. HIDE DEF R
<1>3. ASSUME NEW y \in S PROVE x <= y
  <2>1. <<y, x>> \notin R /\ x \in Nat /\ y \in Nat
    BY <1>1
  <2>2. ~(y < x)
    BY <1>2, <2>1
  <2>3. QED
    BY <2>1, <2>2
<1>4. QED
  BY <1>3

LEMMA MinInSet ==
  ASSUME NEW S, S \subseteq Nat, S # {}
  PROVE  Min(S) \in S
BY LeastOf DEF Min

LEMMA MaxInSet ==
  ASSUME NEW n \in Nat, NEW S, S \subseteq 1 .. n, S # {}
  PROVE  Max(S) \in S /\ \A y \in S : Max(S) >= y
<1>. DEFINE T == {m \in Nat : n - m \in S}
<1>1. T \subseteq Nat /\ T # {}
  <2>1. PICK s \in S : TRUE
    OBVIOUS
  <2>2. n - s \in Nat /\ n - (n - s) = s
    BY <2>1
  <2>3. QED
    BY <2>2
<1>2. PICK x \in T : \A y \in T : x <= y
  BY <1>1, LeastOf
<1>3. ASSUME NEW y \in S PROVE n - x >= y
  <2>1. n - y \in Nat /\ n - (n - y) = y
    OBVIOUS
  <2>2. x <= n - y
    BY <1>2, <2>1
  <2>3. QED
    BY <2>1, <2>2
<1>4. \E z \in S : \A y \in S : z >= y
  BY <1>2, <1>3
<1>5. QED
  BY <1>4 DEF Max

LEMMA PlacesFinite ==
  ASSUME NEW n \in Nat, NEW I, I \subseteq 1 .. n
  PROVE  IsFiniteSet(I) /\ Cardinality(I) \in Nat
<1>1. IsFiniteSet(1 .. n)
  BY FS_Interval
<1>2. QED
  BY <1>1, FS_Subset, FS_CardinalityType

(* Of a set of places there is a first one, a second one, and so on.       *)
LEMMA NthInPlaces ==
  ASSUME NEW n \in Nat, NEW I, I \subseteq 1 .. n, NEW k \in 1 .. Cardinality(I)
  PROVE  Nth(I, k) \in I /\ Cardinality({j \in I : j <= Nth(I, k)}) = k
<1>. DEFINE UpTo(i) == {j \in I : j <= i}
            Bad == {m \in 1 .. Cardinality(I) : ~\E i \in I : Cardinality(UpTo(i)) = m}
<1>0. \A i \in I : i \in Nat
  OBVIOUS
<1>1. IsFiniteSet(I) /\ Cardinality(I) \in Nat
  BY PlacesFinite
<1>2. ASSUME Bad # {} PROVE FALSE
  <2>1. Bad \subseteq Nat
    BY <1>1
  <2>2. PICK m \in Bad : \A y \in Bad : m <= y
    BY <1>2, <2>1, LeastOf
  <2>3. m \in 1 .. Cardinality(I) /\ m \in Nat
    BY <1>1
  <2>4. CASE m = 1
    <3>1. I # {}
      BY <1>1, <2>3, FS_EmptySet
    <3>2. PICK x \in I : \A y \in I : x <= y
      BY <1>0, <3>1, LeastOf
    <3>3. UpTo(x) = {x}
      <4>1. x \in UpTo(x)
        BY <1>0
      <4>2. ASSUME NEW j \in UpTo(x) PROVE j = x
        <5>1. j \in Nat /\ x \in Nat /\ j <= x /\ x <= j
          BY <1>0, <3>2
        <5>2. QED
          BY <5>1
      <4>3. QED
        BY <4>1, <4>2
    <3>4. Cardinality(UpTo(x)) = 1
      BY <3>3, FS_Singleton
    <3>5. QED
      BY <2>2, <2>4, <3>4
  <2>5. CASE m # 1
    <3>1. m - 1 \in 1 .. Cardinality(I) /\ ~(m <= m - 1) /\ m - 1 # Cardinality(I)
      BY <1>1, <2>3, <2>5
    <3>2. PICK i \in I : Cardinality(UpTo(i)) = m - 1
      BY <2>2, <3>1
    <3>. DEFINE J == {j \in I : j > i}
    <3>3. J # {}
      <4>1. SUFFICES ASSUME J = {} PROVE FALSE
        OBVIOUS
      <4>2. ASSUME NEW j \in I PROVE j \in UpTo(i)
        <5>1. ~(j > i) /\ j \in Nat /\ i \in Nat
          BY <1>0, <4>1
        <5>2. QED
          BY <5>1
      <4>3. UpTo(i) = I
        BY <4>2
      <4>4. QED
        BY <3>1, <3>2, <4>3
    <3>4. PICK x \in J : \A y \in J : x <= y
      BY <1>0, <3>3, LeastOf
    <3>5. UpTo(x) = UpTo(i) \cup {x} /\ x \notin UpTo(i)
      <4>1. x \in Nat /\ i \in Nat /\ x > i /\ x \in I
        BY <1>0
      <4>2. ASSUME NEW j \in I PROVE j <= x <=> j <= i \/ j = x
        <5>1. j \in Nat /\ (j > i => x <= j)
          BY <1>0, <3>4
        <5>2. QED
          BY <4>1, <5>1
      <4>3. ~(x <= i) /\ x <= x
        BY <4>1
      <4>4. QED
        BY <4>1, <4>2, <4>3
    <3>6. IsFiniteSet(UpTo(i))
      BY <1>1, FS_Subset
    <3>. HIDE DEF UpTo
    <3>7. Cardinality(UpTo(x)) = m - 1 + 1
      BY <3>2, <3>5, <3>6, FS_AddElement
    <3>8. Cardinality(UpTo(x)) = m /\ x \in I
      BY <2>3, <3>7
    <3>9. QED
      BY <2>2, <3>8
  <2>6. QED
    BY <2>4, <2>5
<1>3. \E i \in I : Cardinality(UpTo(i)) = k
  BY <1>2
<1>4. QED
  BY <1>3 DEF Nth

(* Places in a list, counted: no two of them have as many before them.     *)
PlacesTo(I, a) == {x \in I : x <= a}

LEMMA OnePlaceForEach ==
  ASSUME NEW n \in Nat, NEW I, I \subseteq 1 .. n, NEW i \in I, NEW j \in I,
         Cardinality(PlacesTo(I, i)) = Cardinality(PlacesTo(I, j))
  PROVE  i = j
<1>. DEFINE UpTo(a) == {x \in I : x <= a}
<1>0. \A a \in I : a \in Nat
  OBVIOUS
<1>1. IsFiniteSet(I) /\ \A a \in I : a \in Nat
  BY <1>0, PlacesFinite
<1>2. ASSUME NEW a \in I, NEW b \in I, a < b, Cardinality(UpTo(a)) = Cardinality(UpTo(b)) PROVE FALSE
  <2>1. a \in Nat /\ b \in Nat
    BY <1>1
  <2>2. UpTo(a) \in SUBSET UpTo(b)
    <3>1. ASSUME NEW x \in I, x <= a PROVE x <= b
      <4>1. x \in Nat
        BY <1>1
      <4>2. QED
        BY <1>2, <2>1, <3>1, <4>1
    <3>2. QED
      BY <3>1
  <2>3. IsFiniteSet(UpTo(b))
    BY <1>1, FS_Subset
  <2>4. b \in UpTo(b) /\ b \notin UpTo(a)
    BY <1>2, <2>1
  <2>. HIDE DEF UpTo
  <2>5. UpTo(b) = UpTo(a)
    BY <1>2, <2>2, <2>3, FS_Subset
  <2>6. QED
    BY <2>4, <2>5
<1>3. i \in Nat /\ j \in Nat
  BY <1>1
<1>4. Cardinality(UpTo(i)) = Cardinality(UpTo(j))
  BY DEF PlacesTo
<1>5. ~(i < j) /\ ~(j < i)
  BY <1>2, <1>4
<1>6. QED
  BY <1>3, <1>5

LEMMA EveryPlaceIsNth ==
  ASSUME NEW n \in Nat, NEW I, I \subseteq 1 .. n, NEW i \in I
  PROVE  \E k \in 1 .. Cardinality(I) : Nth(I, k) = i
<1>. DEFINE k == Cardinality(PlacesTo(I, i))
<1>1. PlacesTo(I, i) \subseteq I /\ i \in PlacesTo(I, i)
  BY DEF PlacesTo
<1>2. IsFiniteSet(I) /\ Cardinality(I) \in Nat
  BY PlacesFinite
<1>3. IsFiniteSet(PlacesTo(I, i)) /\ k \in Nat /\ k <= Cardinality(I)
  BY <1>1, <1>2, FS_Subset, FS_CardinalityType
<1>4. k # 0
  BY <1>1, <1>3, FS_EmptySet
<1>. HIDE DEF k
<1>5. k \in 1 .. Cardinality(I)
  BY <1>2, <1>3, <1>4
<1>6. Nth(I, k) \in I /\ Cardinality(PlacesTo(I, Nth(I, k))) = k
  BY <1>5, NthInPlaces DEF PlacesTo
<1>7. Nth(I, k) = i
  BY <1>6, OnePlaceForEach DEF k
<1>8. QED
  BY <1>5, <1>7

LEMMA ElementsAtPlaces ==
  ASSUME NEW s, IsList(s), NEW I, I \subseteq DOMAIN s
  PROVE  /\ IsList(ElementsAt(s, I))
         /\ \A x \in Range(ElementsAt(s, I)) : \E i \in I : x = s[i]
         /\ \A i \in I : s[i] \in Range(ElementsAt(s, I))
<1>1. Len(s) \in Nat /\ I \subseteq 1 .. Len(s)
  BY ListFacts
<1>2. Cardinality(I) \in Nat
  BY <1>1, PlacesFinite
<1>3. \A k \in 1 .. Cardinality(I) : Nth(I, k) \in I
  BY <1>1, NthInPlaces
<1>. DEFINE e == ElementsAt(s, I)
<1>4. DOMAIN e = 1 .. Cardinality(I) /\ \A k \in 1 .. Cardinality(I) : e[k] = s[Nth(I, k)]
  BY DEF ElementsAt
<1>5. e = [k \in 1 .. Cardinality(I) |-> e[k]]
  BY DEF ElementsAt
<1>. HIDE DEF e
<1>6. e \in [1 .. Cardinality(I) -> Range(e)]
  BY <1>4, <1>5 DEF Range
<1>7. e \in Seq(Range(e))
  BY <1>2, <1>6, SeqDef
<1>8. \A x \in Range(e) : \E i \in I : x = s[i]
  BY <1>3, <1>4 DEF Range
<1>9. ASSUME NEW i \in I PROVE s[i] \in Range(e)
  <2>1. PICK k \in 1 .. Cardinality(I) : Nth(I, k) = i
    BY <1>1, EveryPlaceIsNth
  <2>2. k \in DOMAIN e /\ e[k] = s[i]
    BY <1>4, <2>1
  <2>3. QED
    BY <2>2 DEF Range
<1>10. QED
  BY <1>7, <1>8, <1>9 DEF IsList, e

-----------------------------------------------------------------------------
(* What promote returns fits the type asked for.                           *)
LEMMA PromotedFits ==
  ASSUME NEW type \in Type, type.assignable => type.kind \notin {"real", "complex", "complex_matrix"},
         NEW v, Promotable(v, type)
  PROVE  TypeCheck(type, TypeOf(Promote(v, type)))
<1>1. CASE TypeCheck(type, TypeOf(v))
  BY <1>1 DEF Promote
<1>2. CASE ~TypeCheck(type, TypeOf(v)) /\ Converts(v, type)
  <2>1. Promote(v, type) = Converted(v, type)
    BY <1>2 DEF Promote
  <2>2. type.kind \in {"real", "complex", "complex_matrix"} /\ ~type.assignable
    BY <1>2 DEF Converts
  <2>3. CASE type.kind # "complex_matrix"
    <3>1. Converted(v, type) = Const(type.kind, v.value)
      BY <2>3 DEF Converted
    <3>2. /\ TypeOf(Const(type.kind, v.value)).kind = type.kind
          /\ type.kind \notin MatrixKinds
      BY <2>2, <2>3 DEF TypeOf, Const, MatrixType, MatrixKinds
    <3>3. QED
      BY <2>1, <2>2, <3>1, <3>2 DEF TypeCheck
  <2>4. CASE type.kind = "complex_matrix"
    <3>1. \E r, c : /\ Converted(v, type) = Matrix("complex_matrix", r, c)
                    /\ type.rows < 0 \/ r = type.rows
                    /\ type.cols < 0 \/ c = type.cols
      BY <2>4 DEF Converted
    <3>2. PICK r, c : /\ Converted(v, type) = Matrix("complex_matrix", r, c)
                      /\ type.rows < 0 \/ r = type.rows
                      /\ type.cols < 0 \/ c = type.cols
      BY <3>1
    <3>3. TypeOf(Matrix("complex_matrix", r, c)) = MatrixType("complex_matrix", r, c, FALSE)
      BY DEF TypeOf, Matrix
    <3>4. type.rows \in Int /\ type.cols \in Int
      BY DEF Type
    <3>5. /\ type.rows >= 0 => r = type.rows
          /\ type.cols >= 0 => c = type.cols
      BY <3>2, <3>4
    <3>6. QED
      BY <2>1, <2>2, <2>4, <3>2, <3>3, <3>5 DEF TypeCheck, MatrixType
  <2>5. QED
    BY <2>3, <2>4
<1>3. QED
  BY <1>1, <1>2 DEF Promotable

LEMMA FailureFails ==
  ASSUME NEW s, IsList(s), FirstFailure(s) # Absent
  PROVE  Failed(FirstFailure(s))
<1>. DEFINE bad == {i \in DOMAIN s : Failed(s[i])}
<1>1. bad # {} /\ FirstFailure(s) = s[Min(bad)]
  BY DEF FirstFailure
<1>2. bad \subseteq Nat
  BY ListFacts
<1>3. Min(bad) \in bad
  BY <1>1, <1>2, MinInSet
<1>4. QED
  BY <1>1, <1>3

LEMMA ResolveApplicable ==
  ASSUME NEW overloads, IsList(overloads), NEW name, NEW args, Applicable(overloads, name, args) # {}
  PROVE  LET k == Resolve(overloads, name, args)
         IN  /\ k \in DOMAIN overloads /\ overloads[k].name = name
             /\ Takes(overloads[k].params, args)
<1>1. Len(overloads) \in Nat /\ Applicable(overloads, name, args) \subseteq 1 .. Len(overloads)
  BY ListFacts DEF Applicable
<1>2. Resolve(overloads, name, args) \in Applicable(overloads, name, args)
  BY <1>1, MaxInSet DEF Resolve
<1>3. QED
  BY <1>2 DEF Applicable

(* A resolved instruction fits the overload it was resolved to.            *)
LEMMA ResolvedFits ==
  ASSUME NEW operands, IsList(operands), NEW name, NEW condition,
         Applicable(Instructions, name, operands) # {}
  PROVE  Fits(OfType(Instructions[Resolve(Instructions, name, operands)], operands, condition))
<1>. DEFINE k == Resolve(Instructions, name, operands)
            params == Instructions[k].params
            promoted == PromotedArgs(operands, params)
<1>1. k \in DOMAIN Instructions /\ Takes(params, operands)
  BY ResolveApplicable, InstructionsAssumption
<1>2. params \in Seq(Type)
  BY <1>1, InstructionsAssumption
<1>3. /\ Len(params) = Len(operands) /\ Len(operands) \in Nat /\ DOMAIN operands = 1 .. Len(operands)
      /\ \A i \in 1 .. Len(operands) : Promotable(operands[i], params[i])
  BY <1>1, ListFacts DEF Takes
<1>4. ASSUME NEW i \in 1 .. Len(operands)
      PROVE  /\ params[i] \in Type
             /\ params[i].assignable => params[i].kind \notin {"real", "complex", "complex_matrix"}
  <2>1. params[i] \in Range(params) /\ params[i] \in Type
    BY <1>2, <1>3 DEF Range
  <2>2. QED
    BY <1>1, <2>1, InstructionsAssumption
<1>5. /\ Len(promoted) = Len(operands) /\ DOMAIN promoted = 1 .. Len(operands)
      /\ \A i \in 1 .. Len(operands) : promoted[i] = Promote(operands[i], params[i])
  <2>1. promoted = [i \in 1 .. Len(operands) |-> Promote(operands[i], params[i])]
    BY <1>3 DEF PromotedArgs
  <2>. HIDE DEF promoted
  <2>2. QED
    BY <1>3, <2>1
<1>6. \A i \in 1 .. Len(operands) : TypeCheck(params[i], TypeOf(promoted[i]))
  BY <1>3, <1>4, <1>5, PromotedFits
<1>. DEFINE n == OfType(Instructions[k], operands, condition)
<1>7. n.name = Instructions[k].name /\ n.operands = promoted
  BY DEF OfType
<1>. HIDE DEF n, promoted, params, k
<1>8. Fits(n)
  BY <1>1, <1>3, <1>5, <1>6, <1>7 DEF Fits, params
<1>9. QED
  BY <1>8 DEF n, k

LEMMA InstructionFits ==
  ASSUME Instructions # <<>>, NEW insn, NEW name, NEW operands, IsList(operands), NEW condition,
         Instruction(insn, name, operands, condition).node = "instruction"
  PROVE  Fits(Instruction(insn, name, operands, condition))
<1>. DEFINE type == Instructions[Resolve(Instructions, name, operands)]
            result == Instruction(insn, name, operands, condition)
<1>1. /\ Error.node # "instruction" /\ Absent.node # "instruction"
      /\ Failed(condition) => condition.node # "instruction"
      /\ FirstFailure(operands) # Absent => FirstFailure(operands).node # "instruction"
  BY FailureFails DEF Error, Crash, Absent, Failed
<1>2. /\ result = OfType(type, operands, condition)
      /\ Applicable(Instructions, name, operands) # {}
  BY <1>1 DEF Instruction
<1>3. QED
  BY <1>2, ResolvedFits

-----------------------------------------------------------------------------
(* A set of statements is sound when it holds the statements of all blocks *)
(* of its statements, all instructions in it fit, and all gotos have their *)
(* targets in G: the names of gotos that will be looked up.                *)
Suits(G, n) ==
  /\ Instructions # <<>> /\ n.node = "instruction" => Fits(n)
  /\ n.node = "goto" => n.target \in G

Sound(G, S) ==
  \A t \in S : /\ Statements(BlocksIn(t)) \subseteq S
               /\ t.node = "bundle" => \A n \in Range(t.items) : Suits(G, n)

Fitting(G, t)      == \E S : Sound(G, S) /\ t \in S
FittingBlock(G, b) == IsList(b) /\ \A t \in Range(b) : Fitting(G, t)

FittingRoot(G, r) ==
  /\ "subcircuits" \in DOMAIN r /\ IsList(r.subcircuits)
  /\ \A i \in 1 .. Len(r.subcircuits) :
       "body" \in DOMAIN r.subcircuits[i] /\ FittingBlock(G, r.subcircuits[i].body)

FittingScopes(G, s) == \A i \in 1 .. Len(s) : "block" \in DOMAIN s[i] /\ FittingBlock(G, s[i].block)

FittingBranches(G, b) == IsList(b) /\ \A x \in Range(b) : FittingBlock(G, x.body)
FittingHandlers(G, h) == \A i \in 1 .. Len(h) : FittingBranches(G, h[i].branches)

FitFor(G) == FittingRoot(G, root) /\ FittingScopes(G, scope_stack) /\ FittingHandlers(G, handlers)

Noted  == IF api >= 12 THEN Range(gotos) ELSE {}
FitInv == api \in ApiVersions /\ IsList(gotos) /\ FitFor(Noted)

(* The targets of a list of instructions.                                  *)
TargetsIn(bundle) ==
  {bundle[i].operands[1].name : i \in {j \in DOMAIN bundle : IsGoto(bundle[j]) /\ HasTarget(bundle[j])}}

LEMMA FittingFromBlocks ==
  ASSUME NEW G, NEW t, \A b \in BlocksIn(t) : FittingBlock(G, b),
         t.node = "bundle" => \A n \in Range(t.items) : Suits(G, n)
  PROVE  Fitting(G, t)
<1>. DEFINE In == Statements(BlocksIn(t))
            Of(u) == CHOOSE S : Sound(G, S) /\ u \in S
            S == {t} \cup UNION {Of(u) : u \in In}
<1>1. \A u \in In : Fitting(G, u)
  BY DEF Statements, FittingBlock
<1>2. \A u \in In : Sound(G, Of(u)) /\ u \in Of(u)
  BY <1>1 DEF Fitting
<1>. HIDE DEF Of
<1>3. In \subseteq S
  BY <1>2
<1>4. ASSUME NEW v \in S
      PROVE  /\ Statements(BlocksIn(v)) \subseteq S
             /\ v.node = "bundle" => \A n \in Range(v.items) : Suits(G, n)
  <2>1. CASE v = t
    BY <1>3, <2>1
  <2>2. ASSUME NEW u \in In, v \in Of(u)
        PROVE  /\ Statements(BlocksIn(v)) \subseteq S
               /\ v.node = "bundle" => \A n \in Range(v.items) : Suits(G, n)
    <3>1. Sound(G, Of(u))
      BY <1>2
    <3>2. /\ Statements(BlocksIn(v)) \subseteq Of(u)
          /\ v.node = "bundle" => \A n \in Range(v.items) : Suits(G, n)
      BY <2>2, <3>1 DEF Sound
    <3>3. Of(u) \subseteq S
      OBVIOUS
    <3>4. QED
      BY <3>2, <3>3
  <2>3. QED
    BY <2>1, <2>2
<1>. HIDE DEF S
<1>5. Sound(G, S)
  BY <1>4 DEF Sound
<1>6. t \in S
  BY DEF S
<1>7. QED
  BY <1>5, <1>6 DEF Fitting

LEMMA FittingInside ==
  ASSUME NEW G, NEW t, Fitting(G, t)
  PROVE  /\ \A u \in Statements(BlocksIn(t)) : Fitting(G, u)
         /\ t.node = "bundle" => \A n \in Range(t.items) : Suits(G, n)
BY DEF Fitting, Sound

(* Blocks put together.                                                    *)
LEMMA EmptyFits == ASSUME NEW G PROVE FittingBlock(G, <<>>)
BY DEF FittingBlock, IsList, Range

LEMMA OneFits ==
  ASSUME NEW G, NEW t, Fitting(G, t)
  PROVE  FittingBlock(G, <<t>>)
<1>1. IsList(<<t>>) /\ Range(<<t>>) = {t}
  BY DEF IsList, Range
<1>2. QED
  BY <1>1 DEF FittingBlock

LEMMA BothFit ==
  ASSUME NEW G, NEW b, NEW c, FittingBlock(G, b), FittingBlock(G, c)
  PROVE  FittingBlock(G, b \o c)
<1>. DEFINE T == Range(b) \cup Range(c)
<1>1. b \in Seq(T) /\ c \in Seq(T) /\ \A t \in T : Fitting(G, t)
  BY DEF FittingBlock, IsList
<1>. HIDE DEF T
<1>2. b \o c \in Seq(T)
  BY <1>1
<1>3. IsList(b \o c)
  BY <1>2, ListOfItsElements
<1>4. Range(b \o c) \subseteq T
  BY <1>2 DEF Range
<1>5. QED
  BY <1>1, <1>3, <1>4 DEF FittingBlock

(* The stack of scopes.                                                    *)
LEMMA FittingPush ==
  ASSUME NEW G, NEW s, NEW h, Nested(s, h), FittingScopes(G, s), NEW loop
  PROVE  FittingScopes(G, PushScope(s, loop))
<1>. DEFINE x == [s[Len(s)] EXCEPT !.block = <<>>, !.within_loop = @ \/ loop]
            t == Append(s, x)
<1>1. IsList(s) /\ Len(s) \in 1 .. Len(s) /\ Len(s) \in Nat
  BY NestedNotEmpty DEF Nested
<1>2. "block" \in DOMAIN s[Len(s)]
  BY <1>1 DEF FittingScopes
<1>3. "block" \in DOMAIN x /\ x.block = <<>>
  BY <1>2
<1>4. PushScope(s, loop) = t
  BY DEF PushScope
<1>. HIDE DEF x
<1>5. /\ Len(t) = Len(s) + 1 /\ t[Len(s) + 1] = x
      /\ \A i \in 1 .. Len(s) : t[i] = s[i]
  BY <1>1, AppendToList
<1>. HIDE DEF t
<1>6. \A i \in 1 .. Len(t) : i \in 1 .. Len(s) \/ i = Len(s) + 1
  BY <1>1, <1>5
<1>7. FittingScopes(G, t)
  BY <1>3, <1>5, <1>6, EmptyFits DEF FittingScopes
<1>8. QED
  BY <1>4, <1>7

LEMMA FittingPop ==
  ASSUME NEW G, NEW s, NEW h, Nested(s, h), FittingScopes(G, s)
  PROVE  FittingScopes(G, PopScope(s))
<1>1. IsList(s) /\ s # <<>> /\ Len(s) \in Nat
  BY NestedNotEmpty DEF Nested
<1>2. Len(Front(s)) = Len(s) - 1 /\ \A i \in 1 .. Len(s) - 1 : Front(s)[i] = s[i]
  BY <1>1, FrontOfList
<1>3. \A i \in 1 .. Len(s) - 1 : i \in 1 .. Len(s)
  BY <1>1
<1>4. QED
  BY <1>2, <1>3 DEF FittingScopes, PopScope

LEMMA FittingLast ==
  ASSUME NEW G, NEW s, NEW h, Nested(s, h), FittingScopes(G, s), NEW x,
         "block" \in DOMAIN x, FittingBlock(G, x.block)
  PROVE  FittingScopes(G, [s EXCEPT ![Len(s)] = x])
<1>. DEFINE t == [s EXCEPT ![Len(s)] = x]
<1>1. IsList(s) /\ s # <<>> /\ Len(s) \in Nat \ {0}
  BY NestedNotEmpty DEF Nested
<1>2. /\ Len(t) = Len(s) /\ t[Len(s)] = x
      /\ \A i \in 1 .. Len(s) - 1 : t[i] = s[i]
  BY <1>1, ReplaceLast
<1>. HIDE DEF t
<1>3. \A i \in 1 .. Len(t) : i = Len(s) \/ (i \in 1 .. Len(s) - 1 /\ i \in 1 .. Len(s))
  BY <1>1, <1>2
<1>4. FittingScopes(G, t)
  BY <1>2, <1>3 DEF FittingScopes
<1>5. QED
  BY <1>4 DEF t

LEMMA FittingMappings ==
  ASSUME NEW G, NEW s, NEW h, Nested(s, h), FittingScopes(G, s), NEW m
  PROVE  FittingScopes(G, [s EXCEPT ![Len(s)] = [s[Len(s)] EXCEPT !.mappings = m]])
<1>. DEFINE x == [s[Len(s)] EXCEPT !.mappings = m]
<1>1. Len(s) \in 1 .. Len(s)
  BY NestedNotEmpty
<1>2. "block" \in DOMAIN s[Len(s)] /\ FittingBlock(G, s[Len(s)].block)
  BY <1>1 DEF FittingScopes
<1>3. "block" \in DOMAIN x /\ x.block = s[Len(s)].block
  BY <1>2
<1>. HIDE DEF x
<1>4. FittingScopes(G, [s EXCEPT ![Len(s)] = x])
  BY <1>2, <1>3, FittingLast
<1>5. QED
  BY <1>4 DEF x

LEMMA FittingInScope ==
  ASSUME NEW G, NEW s, NEW h, Nested(s, h), FittingScopes(G, s), NEW b, FittingBlock(G, b)
  PROVE  FittingScopes(G, [s EXCEPT ![Len(s)].block = @ \o b])
<1>. DEFINE c == s[Len(s)].block \o b
            x == [s[Len(s)] EXCEPT !.block = c]
<1>1. Len(s) \in 1 .. Len(s)
  BY NestedNotEmpty
<1>2. "block" \in DOMAIN s[Len(s)] /\ FittingBlock(G, c)
  BY <1>1, BothFit DEF FittingScopes
<1>3. [s EXCEPT ![Len(s)].block = @ \o b] = [s EXCEPT ![Len(s)] = x]
  OBVIOUS
<1>. HIDE DEF c
<1>4. "block" \in DOMAIN x /\ x.block = c
  BY <1>2
<1>. HIDE DEF x
<1>5. FittingScopes(G, [s EXCEPT ![Len(s)] = x])
  BY <1>2, <1>4, FittingLast
<1>6. QED
  BY <1>3, <1>5

(* The subcircuits of the tree.                                            *)
LEMMA FittingCurrent ==
  ASSUME NEW G, NEW r, FittingRoot(G, r)
  PROVE  LET subs == CurrentSubcircuits(r)
         IN  /\ IsList(subs) /\ subs # <<>>
             /\ \A i \in 1 .. Len(subs) : "body" \in DOMAIN subs[i] /\ FittingBlock(G, subs[i].body)
<1>1. CASE r.subcircuits = <<>>
  <2>. DEFINE sub == Subcircuit("", 1)
  <2>1. "body" \in DOMAIN sub /\ sub.body = <<>>
    BY DEF Subcircuit
  <2>. HIDE DEF sub
  <2>2. CurrentSubcircuits(r) = <<sub>>
    BY <1>1 DEF CurrentSubcircuits, sub
  <2>3. IsList(<<sub>>) /\ <<sub>> # <<>> /\ Len(<<sub>>) = 1
    BY DEF IsList, Range
  <2>4. \A i \in 1 .. Len(<<sub>>) : (<<sub>>)[i] = sub
    BY <2>3
  <2>5. QED
    BY <2>1, <2>2, <2>3, <2>4, EmptyFits
<1>2. CASE r.subcircuits # <<>>
  BY <1>2 DEF CurrentSubcircuits, FittingRoot
<1>3. QED
  BY <1>1, <1>2

LEMMA FittingInRoot ==
  ASSUME NEW G, NEW r, FittingRoot(G, r), NEW b, FittingBlock(G, b)
  PROVE  FittingRoot(G, [r EXCEPT !.subcircuits =
                        [CurrentSubcircuits(r) EXCEPT
                           ![Len(CurrentSubcircuits(r))].body = @ \o b]])
<1>. DEFINE subs == CurrentSubcircuits(r)
            last == subs[Len(subs)]
            c == last.body \o b
            x == [last EXCEPT !.body = c]
            new == [subs EXCEPT ![Len(subs)] = x]
            q == [r EXCEPT !.subcircuits = new]
<1>1. /\ IsList(subs) /\ subs # <<>>
      /\ \A i \in 1 .. Len(subs) : "body" \in DOMAIN subs[i] /\ FittingBlock(G, subs[i].body)
  BY FittingCurrent
<1>2. [r EXCEPT !.subcircuits = [CurrentSubcircuits(r) EXCEPT
                                   ![Len(CurrentSubcircuits(r))].body = @ \o b]] = q
  OBVIOUS
<1>. HIDE DEF subs
<1>3. Len(subs) \in Nat \ {0} /\ Len(subs) \in 1 .. Len(subs)
  BY <1>1 DEF IsList
<1>4. "body" \in DOMAIN last /\ FittingBlock(G, c)
  BY <1>1, <1>3, BothFit
<1>. HIDE DEF c
<1>5. "body" \in DOMAIN x /\ x.body = c
  BY <1>4
<1>. HIDE DEF x
<1>6. /\ IsList(new) /\ Len(new) = Len(subs) /\ new[Len(subs)] = x
      /\ \A i \in 1 .. Len(subs) - 1 : new[i] = subs[i]
  BY <1>1, ReplaceLast
<1>. HIDE DEF new
<1>7. \A i \in 1 .. Len(new) : i = Len(subs) \/ (i \in 1 .. Len(subs) - 1 /\ i \in 1 .. Len(subs))
  BY <1>3, <1>6
<1>8. \A i \in 1 .. Len(new) : "body" \in DOMAIN new[i] /\ FittingBlock(G, new[i].body)
  BY <1>1, <1>4, <1>5, <1>6, <1>7
<1>9. "subcircuits" \in DOMAIN q /\ q.subcircuits = new
  BY DEF FittingRoot
<1>. HIDE DEF q
<1>10. FittingRoot(G, q)
  BY <1>6, <1>8, <1>9 DEF FittingRoot
<1>11. QED
  BY <1>2, <1>10

LEMMA FittingAdded ==
  ASSUME NEW G, NEW r, FittingRoot(G, r), NEW s, NEW h, Nested(s, h), FittingScopes(G, s), NEW b, FittingBlock(G, b)
  PROVE  LET after == AddToCurrentBlock(r, s, b)
         IN  FittingRoot(G, after.root) /\ FittingScopes(G, after.scopes)
<1>. DEFINE t == [s EXCEPT ![Len(s)].block = @ \o b]
            q == [r EXCEPT !.subcircuits =
                    [CurrentSubcircuits(r) EXCEPT
                       ![Len(CurrentSubcircuits(r))].body = @ \o b]]
<1>1. FittingScopes(G, t) /\ FittingRoot(G, q)
  BY FittingInScope, FittingInRoot
<1>2. AddToCurrentBlock(r, s, b) \in
        {[root |-> r, scopes |-> s], [root |-> r, scopes |-> t], [root |-> q, scopes |-> s]}
  BY DEF AddToCurrentBlock
<1>. HIDE DEF t, q
<1>3. QED
  BY <1>1, <1>2

-----------------------------------------------------------------------------
(* What a bundle adds.                                                     *)
LEMMA SetIsNoOther ==
  ASSUME NEW m, NEW insn
  PROVE  AnalyzeSet(m, insn).node \notin {"instruction", "goto"}
<1>. DEFINE c == Condition(m, insn.condition)
            lhs == AnalyzeExpression(m, insn.operands[1])
            rhs == AnalyzeExpression(m, insn.operands[2])
            node == SetTo(lhs, rhs)
<1>1. Failed(node) \/ (node.node = "set" /\ "node" \in DOMAIN node)
  <2>. HIDE DEF lhs, rhs
  <2>1. Failed(node) \/ \E v : node = [node |-> "set", lhs |-> lhs, rhs |-> v, condition |-> Bool(TRUE)]
    <3>. DEFINE p == Promote(rhs, [TypeOf(lhs) EXCEPT !.assignable = FALSE])
    <3>1. Failed(Error)
      BY DEF Failed, Error
    <3>2. Failed(SetTo(lhs, rhs)) \/ SetTo(lhs, rhs) = SetNode(lhs, p)
      <4>1. CASE Failed(lhs)
        BY <4>1 DEF SetTo
      <4>2. CASE ~Failed(lhs) /\ Failed(rhs)
        BY <4>2 DEF SetTo
      <4>3. CASE ~Failed(lhs) /\ ~Failed(rhs) /\ ~IsAssignable(lhs)
        BY <3>1, <4>3 DEF SetTo
      <4>4. CASE ~Failed(lhs) /\ ~Failed(rhs) /\ IsAssignable(lhs)
        BY <4>4 DEF SetTo
      <4>5. QED
        BY <4>1, <4>2, <4>3, <4>4
    <3>. HIDE DEF p
    <3>3. Failed(SetNode(lhs, p)) \/ SetNode(lhs, p) =
            [node |-> "set", lhs |-> lhs, rhs |-> p, condition |-> Bool(TRUE)]
      BY DEF SetNode
    <3>4. CASE SetTo(lhs, rhs) = SetNode(lhs, p)
      <4>. HIDE DEF SetNode, SetTo
      <4>1. QED
        BY <3>3, <3>4
    <3>5. QED
      BY <3>2, <3>4
  <2>2. ASSUME NEW v, node = [node |-> "set", lhs |-> lhs, rhs |-> v, condition |-> Bool(TRUE)]
        PROVE  node.node = "set" /\ "node" \in DOMAIN node
    <3>. HIDE DEF node
    <3>1. QED
      BY <2>2
  <2>. HIDE DEF node
  <2>3. QED
    BY <2>1, <2>2
<1>2. AnalyzeSet(m, insn) = Error \/ AnalyzeSet(m, insn) = WithCondition(node, c)
  BY DEF AnalyzeSet, Assignment
<1>. HIDE DEF node, c
<1>3. [node EXCEPT !.condition = c].node = "set" \/ Failed(node)
  BY <1>1
<1>4. WithCondition(node, c).node \notin {"instruction", "goto"}
  BY <1>1, <1>3 DEF WithCondition, Failed, Error, Crash, Absent
<1>5. QED
  BY <1>2, <1>4 DEF Error

LEMMA MappedList ==
  ASSUME NEW s, IsList(s), NEW t, DOMAIN t = DOMAIN s, t = [i \in DOMAIN t |-> t[i]]
  PROVE  IsList(t)
<1>1. Len(s) \in Nat /\ DOMAIN t = 1 .. Len(s)
  BY ListFacts
<1>2. t \in [1 .. Len(s) -> Range(t)]
  BY <1>1 DEF Range
<1>3. QED
  BY <1>1, <1>2, SeqDef DEF IsList

LEMMA GotoIsNoOther ==
  ASSUME NEW m, NEW insn
  PROVE  /\ AnalyzeGoto(m, insn).node # "instruction"
         /\ AnalyzeGoto(m, insn).node = "goto" =>
              HasTarget(insn) /\ AnalyzeGoto(m, insn).target = insn.operands[1].name
<1>. DEFINE c == Condition(m, insn.condition)
            target == insn.operands[1].name
            node == [node |-> "goto", target |-> target, condition |-> Absent]
            other == [node EXCEPT !.condition = c]
<1>1. /\ node.node = "goto" /\ node.target = target
      /\ other.node = "goto" /\ other.target = target
  OBVIOUS
<1>2. \/ AnalyzeGoto(m, insn) = Error
      \/ HasTarget(insn) /\ AnalyzeGoto(m, insn) = WithCondition(node, c)
  BY DEF AnalyzeGoto
<1>3. WithCondition(node, c) = (IF Failed(node) THEN node ELSE IF Failed(c) THEN c
                                ELSE IF IsFalse(c) THEN Absent ELSE other)
  BY DEF WithCondition
<1>. HIDE DEF node, c, target, other
<1>4. \/ WithCondition(node, c).node \notin {"instruction", "goto"}
      \/ WithCondition(node, c).node = "goto" /\ WithCondition(node, c).target = target
  BY <1>1, <1>3 DEF Failed, Error, Crash, Absent
<1>5. QED
  BY <1>2, <1>4 DEF Error, target

LEMMA InstructionIsNoGoto ==
  ASSUME NEW m, NEW insn, IsList(insn.operands)
  PROVE  AnalyzeInstruction(m, insn).node # "goto"
<1>. DEFINE operands == [i \in DOMAIN insn.operands |-> AnalyzeExpression(m, insn.operands[i])]
            name == Lower(insn.name)
            c == Condition(m, insn.condition)
<1>1. AnalyzeInstruction(m, insn) = Instruction(insn, name, operands, c)
  BY DEF AnalyzeInstruction
<1>2. DOMAIN operands = DOMAIN insn.operands /\ operands = [i \in DOMAIN operands |-> operands[i]]
  OBVIOUS
<1>. HIDE DEF operands, name, c
<1>3. IsList(operands)
  BY <1>2, MappedList
<1>4. /\ Error.node # "goto" /\ Absent.node # "goto"
      /\ Failed(c) => c.node # "goto"
      /\ FirstFailure(operands) # Absent => FirstFailure(operands).node # "goto"
      /\ \A type : OfType(type, operands, c).node # "goto"
      /\ AsWritten(insn, operands, c).node # "goto"
  <2>1. \A type : OfType(type, operands, c).node = "instruction"
    BY DEF OfType
  <2>2. AsWritten(insn, operands, c).node = "instruction"
    BY DEF AsWritten
  <2>3. \A v : Failed(v) => v.node # "goto"
    BY DEF Failed, Error, Crash
  <2>4. Error.node # "goto" /\ Absent.node # "goto"
    BY DEF Error, Absent
  <2>5. QED
    BY <1>3, <2>1, <2>2, <2>3, <2>4, FailureFails
<1>5. QED
  BY <1>1, <1>4 DEF Instruction

LEMMA ItemFits ==
  ASSUME Instructions # <<>>, NEW m, NEW insn, IsList(insn.operands),
         AnalyzeItem(m, insn).node = "instruction"
  PROVE  Fits(AnalyzeItem(m, insn))
<1>. DEFINE operands == [i \in DOMAIN insn.operands |-> AnalyzeExpression(m, insn.operands[i])]
<1>1. AnalyzeItem(m, insn) = Instruction(insn, Lower(insn.name), operands, Condition(m, insn.condition))
  BY SetIsNoOther, GotoIsNoOther DEF AnalyzeItem, AnalyzeInstruction
<1>2. DOMAIN operands = DOMAIN insn.operands /\ operands = [i \in DOMAIN operands |-> operands[i]]
  OBVIOUS
<1>. HIDE DEF operands
<1>3. IsList(operands)
  BY <1>2, MappedList
<1>4. QED
  BY <1>1, <1>3, InstructionFits

LEMMA ItemSuits ==
  ASSUME NEW G, NEW m, NEW insn, IsList(insn.operands),
         IsGoto(insn) /\ HasTarget(insn) => insn.operands[1].name \in G
  PROVE  Suits(G, AnalyzeItem(m, insn))
<1>1. ASSUME AnalyzeItem(m, insn).node = "goto" PROVE AnalyzeItem(m, insn).target \in G
  <2>1. IsGoto(insn) /\ AnalyzeItem(m, insn) = AnalyzeGoto(m, insn)
    BY <1>1, SetIsNoOther, InstructionIsNoGoto DEF AnalyzeItem
  <2>2. QED
    BY <1>1, <2>1, GotoIsNoOther
<1>2. QED
  BY <1>1, ItemFits DEF Suits

LEMMA BundleFits ==
  ASSUME NEW G, NEW bundle \in Bundles, TargetsIn(bundle) \subseteq G, NEW m, NEW I
  PROVE  LET items == [i \in DOMAIN bundle |-> AnalyzeItem(m, bundle[i])]
         IN  I \subseteq DOMAIN items => Fitting(G, [node |-> "bundle", items |-> ElementsAt(items, I)])
<1>. DEFINE items == [i \in DOMAIN bundle |-> AnalyzeItem(m, bundle[i])]
<1> SUFFICES ASSUME I \subseteq DOMAIN items
             PROVE  Fitting(G, [node |-> "bundle", items |-> ElementsAt(items, I)])
  OBVIOUS
<1>1. IsList(bundle) /\ \A i \in DOMAIN bundle : IsList(bundle[i].operands)
  BY AlphabetAssumption DEF Range
<1>2. /\ DOMAIN items = DOMAIN bundle /\ items = [i \in DOMAIN items |-> items[i]]
      /\ \A i \in DOMAIN bundle : items[i] = AnalyzeItem(m, bundle[i])
  OBVIOUS
<1>. HIDE DEF items
<1>3. IsList(items)
  BY <1>1, <1>2, MappedList
<1>. DEFINE nodes == ElementsAt(items, I)
            t == [node |-> "bundle", items |-> nodes]
<1>4. \A n \in Range(nodes) : \E i \in DOMAIN items : n = items[i]
  BY <1>3, ElementsAtPlaces
<1>5. \A n \in Range(nodes) : Suits(G, n)
  <2>1. \A i \in DOMAIN bundle : IsGoto(bundle[i]) /\ HasTarget(bundle[i]) =>
                                 bundle[i].operands[1].name \in G
    BY DEF TargetsIn
  <2>2. \A i \in DOMAIN items : Suits(G, items[i])
    BY <1>1, <1>2, <2>1, ItemSuits
  <2>3. QED
    BY <1>4, <2>2
<1>. HIDE DEF nodes
<1>6. BlocksIn(t) = {} /\ t.items = nodes
  BY DEF BlocksIn
<1>. HIDE DEF t
<1>7. Fitting(G, t)
  BY <1>5, <1>6, FittingFromBlocks
<1>8. QED
  BY <1>7 DEF t, nodes

-----------------------------------------------------------------------------
(* What structured statements become.                                      *)
LEMMA LoopFits ==
  ASSUME NEW G, NEW t, t.node \in {"for", "foreach", "while", "repeat_until"}, FittingBlock(G, t.body)
  PROVE  FittingBlock(G, <<t>>)
<1>1. BlocksIn(t) = {t.body} /\ t.node # "bundle"
  BY DEF BlocksIn
<1>2. QED
  BY <1>1, FittingFromBlocks, OneFits

LEMMA IfFits ==
  ASSUME NEW G, NEW kept, FittingBranches(G, kept), NEW rest, rest # Absent => FittingBlock(G, rest.body)
  PROVE  FittingBlock(G, <<[node |-> "if_else", branches |-> kept, otherwise |-> rest]>>)
<1>. DEFINE t == [node |-> "if_else", branches |-> kept, otherwise |-> rest]
<1>1. t.node = "if_else" /\ t.branches = kept /\ t.otherwise = rest
  OBVIOUS
<1>. HIDE DEF t
<1>2. BlocksIn(t) = {b.body : b \in Range(kept)} \cup (IF rest = Absent THEN {} ELSE {rest.body})
  BY <1>1 DEF BlocksIn
<1>3. \A b \in BlocksIn(t) : FittingBlock(G, b)
  BY <1>2 DEF FittingBranches
<1>4. Fitting(G, t)
  BY <1>1, <1>3, FittingFromBlocks
<1>5. QED
  BY <1>4, OneFits DEF t

LEMMA OptimizedIfFits ==
  ASSUME NEW G, NEW branches, FittingBranches(G, branches),
         NEW otherwise, otherwise # Absent => FittingBlock(G, otherwise.body)
  PROVE  FittingBlock(G, OptimizedIf(branches, otherwise))
<1>. DEFINE always == {i \in DOMAIN branches : IsTrue(branches[i].condition)}
            first == IF always = {} THEN Len(branches) + 1 ELSE Min(always)
            places == {i \in 1 .. first - 1 : ~IsFalse(branches[i].condition)}
            kept == ElementsAt(branches, places)
            rest == IF always = {} THEN otherwise ELSE [body |-> branches[first].body]
<1>1. OptimizedIf(branches, otherwise) =
        IF kept = <<>> THEN IF rest = Absent THEN <<>> ELSE rest.body
        ELSE <<[node |-> "if_else", branches |-> kept, otherwise |-> rest]>>
  BY DEF OptimizedIf
<1>2. IsList(branches) /\ Len(branches) \in Nat /\ DOMAIN branches = 1 .. Len(branches)
  BY ListFacts DEF FittingBranches
<1>3. always # {} => first \in DOMAIN branches
  <2>1. always \subseteq Nat
    BY <1>2
  <2>2. always # {} => Min(always) \in always
    BY <2>1, MinInSet
  <2>3. QED
    BY <2>2
<1>4. first \in 1 .. Len(branches) + 1
  BY <1>2, <1>3
<1>5. rest # Absent => FittingBlock(G, rest.body)
  <2>1. CASE always = {}
    BY <2>1
  <2>2. CASE always # {}
    <3>1. branches[first] \in Range(branches)
      BY <1>3, <2>2 DEF Range
    <3>2. FittingBlock(G, branches[first].body)
      BY <3>1 DEF FittingBranches
    <3>. HIDE DEF first
    <3>3. rest.body = branches[first].body
      BY <2>2
    <3>4. QED
      BY <3>2, <3>3
  <2>3. QED
    BY <2>1, <2>2
<1>6. places \subseteq DOMAIN branches
  <2>. HIDE DEF first
  <2>1. QED
    BY <1>2, <1>4
<1>. HIDE DEF rest, places, always, first
<1>7. IsList(kept) /\ \A x \in Range(kept) : \E i \in places : x = branches[i]
  BY <1>2, <1>6, ElementsAtPlaces
<1>8. FittingBranches(G, kept)
  BY <1>6, <1>7 DEF FittingBranches, Range
<1>. HIDE DEF kept
<1>9. QED
  BY <1>1, <1>5, <1>8, IfFits, EmptyFits

-----------------------------------------------------------------------------
(* The steps.                                                              *)
LEMMA FittingAdd ==
  ASSUME NEW G, IInv, FitFor(G), NEW b, FittingBlock(G, b),
         Becomes(AddToCurrentBlock(root, scope_stack, b)), UNCHANGED handlers
  PROVE  FitFor(G)'
BY FittingAdded DEF IInv, FitFor, Becomes

LEMMA BundleStepFits ==
  ASSUME NEW G, IInv, FitFor(G), NEW bundle \in Bundles, VisitBundle(bundle),
         TargetsIn(bundle) \subseteq G
  PROVE  FitFor(G)'
<1>. DEFINE m == Current.mappings
            items == [i \in DOMAIN bundle |-> AnalyzeItem(m, bundle[i])]
            places == {i \in DOMAIN items : items[i] \notin {Error, Crash, Absent}}
            nodes == ElementsAt(items, places)
            b == IF nodes = <<>> THEN <<>> ELSE <<[node |-> "bundle", items |-> nodes]>>
<1>1. Becomes(AddToCurrentBlock(root, scope_stack, b)) /\ UNCHANGED handlers
  BY DEF VisitBundle, VisitItems
<1>2. Fitting(G, [node |-> "bundle", items |-> nodes])
  <2>. HIDE DEF m
  <2>1. places \subseteq DOMAIN items
    OBVIOUS
  <2>. HIDE DEF places
  <2>2. QED
    BY <2>1, BundleFits
<1>. HIDE DEF nodes
<1>3. FittingBlock(G, b)
  BY <1>2, OneFits, EmptyFits
<1>. HIDE DEF b
<1>4. QED
  BY <1>1, <1>3, FittingAdd

LEMMA SameBodiesFit ==
  ASSUME NEW G, FitFor(G), "subcircuits" \in DOMAIN root', root'.subcircuits = root.subcircuits
  PROVE  FittingRoot(G, root')
BY DEF FitFor, FittingRoot

LEMMA ErrorModelStepFits ==
  ASSUME NEW G, IInv, FitFor(G), NEW operands, VisitErrorModel(operands)
  PROVE  FitFor(G)'
<1>1. PICK model : SetErrorModel(model) /\ UNCHANGED <<scope_stack, handlers>>
  BY DEF VisitErrorModel
<1>2. "subcircuits" \in DOMAIN root' /\ root'.subcircuits = root.subcircuits
  BY <1>1 DEF SetErrorModel, FitFor, FittingRoot
<1>3. QED
  BY <1>1, <1>2, SameBodiesFit DEF FitFor

LEMMA MappingStepFits ==
  ASSUME NEW G, IInv, FitFor(G), NEW decl, VisitMapping(decl)
  PROVE  FitFor(G)'
<1>1. PICK value : MapTo(decl.alias, value) /\ UNCHANGED <<root, handlers>>
  BY DEF VisitMapping
<1>2. FittingScopes(G, scope_stack')
  <2>1. \/ scope_stack' = scope_stack
        \/ \E m : scope_stack' = [scope_stack EXCEPT ![Len(scope_stack)] =
                                    [scope_stack[Len(scope_stack)] EXCEPT !.mappings = m]]
    BY <1>1 DEF MapTo
  <2>2. Nested(scope_stack, handlers) /\ FittingScopes(G, scope_stack)
    BY DEF IInv, FitFor
  <2>3. ASSUME NEW m, scope_stack' = [scope_stack EXCEPT ![Len(scope_stack)] =
                                        [scope_stack[Len(scope_stack)] EXCEPT !.mappings = m]]
        PROVE  FittingScopes(G, scope_stack')
    BY <2>2, <2>3, FittingMappings
  <2>4. QED
    BY <2>1, <2>2, <2>3
<1>3. QED
  BY <1>1, <1>2 DEF FitFor

LEMMA VariablesStepFits ==
  ASSUME NEW G, IInv, FitFor(G), NEW decl, VisitVariables(decl)
  PROVE  FitFor(G)'
<1>1. UNCHANGED handlers
  BY DEF VisitVariables
<1>2. "subcircuits" \in DOMAIN root' /\ root'.subcircuits = root.subcircuits
  BY DEF VisitVariables, FitFor, FittingRoot
<1>3. FittingScopes(G, scope_stack')
  <2>1. \/ scope_stack' = scope_stack
        \/ \E m : scope_stack' = [scope_stack EXCEPT ![Len(scope_stack)] =
                                    [scope_stack[Len(scope_stack)] EXCEPT !.mappings = m]]
    BY DEF VisitVariables
  <2>2. Nested(scope_stack, handlers) /\ FittingScopes(G, scope_stack)
    BY DEF IInv, FitFor
  <2>3. ASSUME NEW m, scope_stack' = [scope_stack EXCEPT ![Len(scope_stack)] =
                                        [scope_stack[Len(scope_stack)] EXCEPT !.mappings = m]]
        PROVE  FittingScopes(G, scope_stack')
    BY <2>2, <2>3, FittingMappings
  <2>4. QED
    BY <2>1, <2>2, <2>3
<1>4. QED
  BY <1>1, <1>2, <1>3, SameBodiesFit DEF FitFor

LEMMA SubcircuitStepFits ==
  ASSUME NEW G, IInv, FitFor(G), NEW decl, VisitSubcircuit(decl)
  PROVE  FitFor(G)'
<1>1. PICK n : AddSubcircuit(decl.name, n) /\ UNCHANGED <<scope_stack, handlers>>
  BY DEF VisitSubcircuit
<1>2. CASE root' = root
  BY <1>1, <1>2 DEF FitFor
<1>3. CASE root' = [root EXCEPT !.subcircuits = Append(@, Subcircuit(decl.name, n.value))]
  <2>. DEFINE subs == root.subcircuits
              sub == Subcircuit(decl.name, n.value)
              new == Append(subs, sub)
  <2>1. "body" \in DOMAIN sub /\ sub.body = <<>>
    BY DEF Subcircuit
  <2>2. "subcircuits" \in DOMAIN root' /\ root'.subcircuits = new
    BY <1>3 DEF FitFor, FittingRoot
  <2>3. /\ IsList(subs) /\ Len(subs) \in Nat
        /\ \A i \in 1 .. Len(subs) : "body" \in DOMAIN subs[i] /\ FittingBlock(G, subs[i].body)
    BY ListFacts DEF FitFor, FittingRoot
  <2>. HIDE DEF subs, sub
  <2>4. /\ IsList(new) /\ Len(new) = Len(subs) + 1
        /\ \A i \in 1 .. Len(subs) : new[i] = subs[i]
        /\ new[Len(subs) + 1] = sub
    BY <2>3, AppendToList
  <2>. HIDE DEF new
  <2>5. \A i \in 1 .. Len(new) : i \in 1 .. Len(subs) \/ i = Len(subs) + 1
    BY <2>3, <2>4
  <2>6. \A i \in 1 .. Len(new) : "body" \in DOMAIN new[i] /\ FittingBlock(G, new[i].body)
    BY <2>1, <2>3, <2>4, <2>5, EmptyFits
  <2>7. FittingRoot(G, root')
    BY <2>2, <2>4, <2>6 DEF FittingRoot
  <2>8. QED
    BY <1>1, <2>7 DEF FitFor
<1>4. QED
  BY <1>1, <1>2, <1>3 DEF AddSubcircuit

LEMMA JumpStepFits ==
  ASSUME NEW G, IInv, FitFor(G), NEW header, VisitJump(header)
  PROVE  FitFor(G)'
<1>1. /\ header.node \in {"break", "continue"} /\ UNCHANGED handlers
      /\ \/ Becomes(AddToCurrentBlock(root, scope_stack, <<header>>))
         \/ UNCHANGED <<root, scope_stack>>
  BY DEF VisitJump, Unchanged, Becomes
<1>2. BlocksIn(header) = {} /\ header.node # "bundle"
  BY <1>1 DEF BlocksIn
<1>3. FittingBlock(G, <<header>>)
  BY <1>2, FittingFromBlocks, OneFits
<1>4. CASE Becomes(AddToCurrentBlock(root, scope_stack, <<header>>))
  BY <1>1, <1>3, <1>4, FittingAdd
<1>5. CASE UNCHANGED <<root, scope_stack>>
  BY <1>1, <1>5 DEF FitFor
<1>6. QED
  BY <1>1, <1>4, <1>5

LEMMA OpenStepFits ==
  ASSUME NEW G, IInv, FitFor(G), NEW header, Open(header)
  PROVE  FitFor(G)'
<1>1. PICK analyzed, failure : OpenBlock(header, analyzed, failure) /\ UNCHANGED root
  BY DEF Open, OpenAnalyzed
<1>2. CASE failure = Absent
  <2>. DEFINE handler == Handler(header, analyzed)
              new == Append(handlers, handler)
  <2>1. scope_stack' = PushScope(scope_stack, IsLoop(header)) /\ handlers' = new
    BY <1>1, <1>2 DEF OpenBlock
  <2>2. FittingScopes(G, scope_stack')
    BY <2>1, FittingPush DEF IInv, FitFor
  <2>3. FittingBranches(G, handler.branches)
    BY DEF Handler, FittingBranches, IsList, Range
  <2>. HIDE DEF handler
  <2>4. IsList(handlers) /\ Len(handlers) \in Nat
    BY ListFacts DEF IInv, Nested
  <2>5. /\ Len(new) = Len(handlers) + 1 /\ new[Len(handlers) + 1] = handler
        /\ \A i \in 1 .. Len(handlers) : new[i] = handlers[i]
    BY <2>4, AppendToList
  <2>. HIDE DEF new
  <2>6. \A i \in 1 .. Len(new) : i \in 1 .. Len(handlers) \/ i = Len(handlers) + 1
    BY <2>4, <2>5
  <2>7. FittingHandlers(G, new)
    BY <2>3, <2>5, <2>6 DEF FitFor, FittingHandlers
  <2>8. QED
    BY <1>1, <2>1, <2>2, <2>7 DEF FitFor
<1>3. CASE failure # Absent
  BY <1>1, <1>3 DEF OpenBlock, FitFor
<1>4. QED
  BY <1>2, <1>3

LEMMA HandlingFits ==
  ASSUME NEW G, IInv, FitFor(G), handlers # <<>>
  PROVE  /\ FittingBranches(G, Handling.branches) /\ FittingBlock(G, Current.block)
         /\ Nested(Popped, Front(handlers)) /\ FittingScopes(G, Popped) /\ FittingHandlers(G, Front(handlers))
<1>1. /\ IsList(handlers) /\ Len(handlers) \in 1 .. Len(handlers)
      /\ Len(scope_stack) \in 1 .. Len(scope_stack)
  BY NestedNotEmpty, ListFacts, FrontOfList DEF IInv, Nested
<1>2. FittingBranches(G, Handling.branches) /\ FittingBlock(G, Current.block)
  BY <1>1 DEF Handling, Current, FitFor, FittingHandlers, FittingScopes
<1>3. Nested(Popped, Front(handlers)) /\ FittingScopes(G, Popped)
  BY PoppedStack, FittingPop DEF IInv, FitFor, Popped
<1>4. /\ Len(Front(handlers)) = Len(handlers) - 1 /\ Len(handlers) \in Nat
      /\ \A i \in 1 .. Len(handlers) - 1 : Front(handlers)[i] = handlers[i]
  BY <1>1, FrontOfList, ListFacts
<1>5. \A i \in 1 .. Len(handlers) - 1 : i \in 1 .. Len(handlers)
  BY <1>4
<1>6. FittingHandlers(G, Front(handlers))
  BY <1>4, <1>5 DEF FitFor, FittingHandlers
<1>7. QED
  BY <1>2, <1>3, <1>6

LEMMA ReturnFits ==
  ASSUME NEW G, IInv, FitFor(G), handlers # <<>>, NEW b, FittingBlock(G, b), Return(b)
  PROVE  FitFor(G)'
BY HandlingFits, FittingAdded DEF Return, Becomes, FitFor

LEMMA BranchesFit ==
  ASSUME NEW G, IInv, FitFor(G), handlers # <<>>
  PROVE  FittingBranches(G, ClosedBranches)
<1>. DEFINE b == Handling.branches
            x == [condition |-> Handling.analyzed[1], body |-> Current.block]
<1>1. IsList(b) /\ (\A y \in Range(b) : FittingBlock(G, y.body)) /\ FittingBlock(G, x.body)
  BY HandlingFits DEF FittingBranches
<1>2. ClosedBranches = Append(b, x)
  BY DEF ClosedBranches
<1>. HIDE DEF b, x
<1>3. /\ IsList(Append(b, x)) /\ Len(Append(b, x)) = Len(b) + 1
      /\ \A i \in 1 .. Len(b) : Append(b, x)[i] = b[i]
      /\ Append(b, x)[Len(b) + 1] = x
  BY <1>1, AppendToList
<1>4. Len(b) \in Nat /\ DOMAIN b = 1 .. Len(b) /\ DOMAIN Append(b, x) = 1 .. Len(b) + 1
  BY <1>1, <1>3, ListFacts
<1>5. \A i \in 1 .. Len(b) + 1 : i \in 1 .. Len(b) \/ i = Len(b) + 1
  BY <1>4
<1>6. \A y \in Range(Append(b, x)) : y \in Range(b) \/ y = x
  BY <1>3, <1>4, <1>5 DEF Range
<1>7. QED
  BY <1>1, <1>2, <1>3, <1>6 DEF FittingBranches

LEMMA NextBlockFits ==
  ASSUME NEW G, IInv, FitFor(G), handlers # <<>>, NEW header, NEW analyzed, NextBlock(header, analyzed),
         UNCHANGED root
  PROVE  FitFor(G)'
<1>. DEFINE handler == [header |-> header, analyzed |-> analyzed,
                        branches |-> ClosedBranches, sources |-> ClosedSources]
            new == [handlers EXCEPT ![Len(handlers)] = handler]
<1>1. handlers' = new /\ scope_stack' = PushScope(Popped, FALSE)
  BY DEF NextBlock
<1>2. FittingBranches(G, handler.branches)
  BY BranchesFit
<1>. HIDE DEF handler
<1>3. IsList(handlers) /\ Len(handlers) \in Nat \ {0}
  BY ListFacts, FrontOfList DEF IInv, Nested
<1>4. /\ Len(new) = Len(handlers) /\ new[Len(handlers)] = handler
      /\ \A i \in 1 .. Len(handlers) - 1 : new[i] = handlers[i]
  BY <1>3, ReplaceLast
<1>. HIDE DEF new
<1>5. \A i \in 1 .. Len(new) : i = Len(handlers) \/ (i \in 1 .. Len(handlers) - 1 /\ i \in 1 .. Len(handlers))
  BY <1>3, <1>4
<1>6. FittingHandlers(G, new)
  BY <1>2, <1>4, <1>5 DEF FitFor, FittingHandlers
<1>7. FittingScopes(G, scope_stack')
  BY <1>1, HandlingFits, FittingPush
<1>8. QED
  BY <1>1, <1>6, <1>7 DEF FitFor

LEMMA ElseIfStepFits ==
  ASSUME NEW G, IInv, FitFor(G), NEW condition, ElseIf(condition)
  PROVE  FitFor(G)'
<1>1. PICK analyzed : ElseIfAnalyzed(condition, analyzed) /\ UNCHANGED root /\ handlers # <<>>
  BY DEF ElseIf, InBlock
<1>2. CASE Failed(analyzed)
  BY <1>1, <1>2, HandlingFits DEF ElseIfAnalyzed, FitFor
<1>3. CASE ~Failed(analyzed)
  <2>. DEFINE header == [node |-> "if_else", condition |-> condition]
  <2>1. NextBlock(header, <<analyzed>>)
    BY <1>1, <1>3 DEF ElseIfAnalyzed
  <2>. HIDE DEF header
  <2>2. QED
    BY <1>1, <2>1, NextBlockFits
<1>4. QED
  BY <1>2, <1>3

LEMMA ElseStepFits ==
  ASSUME NEW G, IInv, FitFor(G), Else
  PROVE  FitFor(G)'
<1>. DEFINE header == [node |-> "if_else"]
<1>1. NextBlock(header, <<>>) /\ UNCHANGED root /\ handlers # <<>>
  BY DEF Else, InBlock
<1>. HIDE DEF header
<1>2. QED
  BY <1>1, NextBlockFits

LEMMA EndIfStepFits ==
  ASSUME NEW G, IInv, FitFor(G), EndIf
  PROVE  FitFor(G)'
<1>1. handlers # <<>>
  BY DEF EndIf, InBlock
<1>. DEFINE otherwise == [body |-> Current.block]
<1>2. FittingBlock(G, OptimizedIf(Handling.branches, otherwise))
  BY <1>1, HandlingFits, OptimizedIfFits
<1>3. FittingBlock(G, OptimizedIf(ClosedBranches, Absent))
  BY <1>1, BranchesFit, OptimizedIfFits
<1>. DEFINE b == IF Handling.analyzed = <<>> THEN OptimizedIf(Handling.branches, otherwise)
                 ELSE OptimizedIf(ClosedBranches, Absent)
<1>4. Return(b)
  BY DEF EndIf
<1>5. FittingBlock(G, b)
  BY <1>2, <1>3
<1>. HIDE DEF b
<1>6. QED
  BY <1>1, <1>4, <1>5, ReturnFits

LEMMA EndLoopStepFits ==
  ASSUME NEW G, IInv, FitFor(G), EndFor \/ EndForeach \/ EndWhile
  PROVE  FitFor(G)'
<1>1. handlers # <<>>
  BY DEF EndFor, EndForeach, EndWhile, InBlock
<1>2. FittingBlock(G, Current.block)
  BY <1>1, HandlingFits
<1>3. \E b : Return(b) /\ FittingBlock(G, b)
  <2>1. CASE EndFor
    <3>. DEFINE t == [node |-> "for", initialize |-> Handling.analyzed[1],
                      condition |-> Handling.analyzed[2], update |-> Handling.analyzed[3],
                      body |-> Current.block]
    <3>1. Return(<<t>>)
      BY <2>1 DEF EndFor
    <3>2. t.node = "for" /\ t.body = Current.block
      OBVIOUS
    <3>. HIDE DEF t
    <3>3. QED
      BY <1>2, <3>1, <3>2, LoopFits
  <2>2. CASE EndForeach
    <3>. DEFINE t == [node |-> "foreach", lhs |-> Handling.analyzed[1],
                      frm |-> Handling.analyzed[2].value, to |-> Handling.analyzed[3].value,
                      body |-> Current.block]
    <3>1. Return(<<t>>)
      BY <2>2 DEF EndForeach
    <3>2. t.node = "foreach" /\ t.body = Current.block
      OBVIOUS
    <3>. HIDE DEF t
    <3>3. QED
      BY <1>2, <3>1, <3>2, LoopFits
  <2>3. CASE EndWhile
    <3>. DEFINE condition == Handling.analyzed[1]
                t == [node |-> "while", condition |-> condition, body |-> Current.block]
                b == OptimizedWhile(condition, Current.block)
    <3>1. Return(b)
      BY <2>3 DEF EndWhile
    <3>2. b = <<>> \/ b = <<t>>
      BY DEF OptimizedWhile
    <3>3. t.node = "while" /\ t.body = Current.block
      OBVIOUS
    <3>. HIDE DEF t, b
    <3>4. FittingBlock(G, <<t>>)
      BY <1>2, <3>3, LoopFits
    <3>5. QED
      BY <3>1, <3>2, <3>4, EmptyFits
  <2>4. QED
    BY <2>1, <2>2, <2>3
<1>4. QED
  BY <1>1, <1>3, ReturnFits

LEMMA EndRepeatStepFits ==
  ASSUME NEW G, IInv, FitFor(G), NEW c, EndRepeat(c)
  PROVE  FitFor(G)'
<1>1. PICK condition : ReturnRepeat(condition) /\ handlers # <<>>
  BY DEF EndRepeat, InBlock
<1>2. FittingBlock(G, Current.block)
  BY <1>1, HandlingFits
<1>. DEFINE t == [node |-> "repeat_until", condition |-> condition, body |-> Current.block]
            b == IF Failed(condition) THEN <<>> ELSE OptimizedRepeat(condition, Current.block)
<1>3. Return(b)
  BY <1>1 DEF ReturnRepeat
<1>4. b = <<>> \/ b = Current.block \/ b = <<t>>
  BY DEF OptimizedRepeat
<1>5. t.node = "repeat_until" /\ t.body = Current.block
  OBVIOUS
<1>. HIDE DEF t, b
<1>6. FittingBlock(G, <<t>>)
  BY <1>2, <1>5, LoopFits
<1>7. FittingBlock(G, b)
  BY <1>2, <1>4, <1>6, EmptyFits
<1>8. QED
  BY <1>1, <1>3, <1>7, ReturnFits

LEMMA StartStepFits ==
  ASSUME NEW G, IInv, FitFor(G), NEW count, Start(count)
  PROVE  FitFor(G)'
<1>1. PICK n : StartWith(n)
  BY DEF Start
<1>2. /\ UNCHANGED handlers
      /\ "subcircuits" \in DOMAIN root' /\ root'.subcircuits = root.subcircuits
  BY <1>1 DEF StartWith, FitFor, FittingRoot
<1>3. \E s : /\ scope_stack' = <<s>> /\ "block" \in DOMAIN s /\ s.block = <<>>
  <2>1. \/ scope_stack' = <<GlobalScope>>
        \/ scope_stack' = <<[GlobalScope EXCEPT !.mappings = WithRegisters(@, n.value)]>>
    BY <1>1 DEF StartWith
  <2>2. "block" \in DOMAIN GlobalScope /\ GlobalScope.block = <<>>
    BY DEF GlobalScope
  <2>3. QED
    BY <2>1, <2>2
<1>4. PICK s : /\ scope_stack' = <<s>> /\ "block" \in DOMAIN s /\ s.block = <<>>
  BY <1>3
<1>5. Len(<<s>>) = 1 /\ \A i \in 1 .. Len(<<s>>) : (<<s>>)[i] = s
  OBVIOUS
<1>6. FittingScopes(G, <<s>>)
  BY <1>4, <1>5, EmptyFits DEF FittingScopes
<1>7. QED
  BY <1>2, <1>4, <1>6, SameBodiesFit DEF FitFor

LEMMA FinishStepFits ==
  ASSUME NEW G, IInv, FitFor(G), Finish
  PROVE  FitFor(G)'
<1>1. /\ UNCHANGED <<scope_stack, handlers>>
      /\ "subcircuits" \in DOMAIN root' /\ root'.subcircuits = root.subcircuits
  BY DEF Finish, FitFor, FittingRoot
<1>2. QED
  BY <1>1, SameBodiesFit DEF FitFor

-----------------------------------------------------------------------------
(* The levels of blocks reached from a set of blocks.                      *)
Below(S) == UNION {BlocksIn(s) : s \in {t \in Statements(S) : TRUE}}
Levels(B, n) == CHOOSE f : f = [d \in 0 .. n |-> IF d = 0 THEN B ELSE Below(f[d - 1])]

LEMMA ReachedIsLevels ==
  ASSUME NEW B
  PROVE  Reached(B, LAMBDA s : TRUE) = UNION {Levels(B, MaxDepth)[d] : d \in 0 .. MaxDepth}
BY DEF Reached, Levels, Below

LEMMA LevelsExist ==
  ASSUME NEW B, NEW n \in Nat
  PROVE  \E f : f = [d \in 0 .. n |-> IF d = 0 THEN B ELSE Below(f[d - 1])]
<1>. DEFINE Is(f, m) == f = [d \in 0 .. m |-> IF d = 0 THEN B ELSE Below(f[d - 1])]
            Bad == {m \in Nat : ~\E f : Is(f, m)}
<1>1. ASSUME Bad # {} PROVE FALSE
  <2>1. PICK m \in Bad : \A y \in Bad : m <= y
    BY <1>1, LeastOf
  <2>2. CASE m = 0
    <3>. DEFINE f == [d \in 0 .. 0 |-> B]
    <3>1. f = [d \in 0 .. 0 |-> IF d = 0 THEN B ELSE Below(f[d - 1])]
      OBVIOUS
    <3>. HIDE DEF f
    <3>2. Is(f, m)
      BY <2>2, <3>1
    <3>3. QED
      BY <2>1, <3>2
  <2>3. CASE m # 0
    <3>1. m - 1 \in Nat /\ ~(m <= m - 1)
      BY <2>1, <2>3
    <3>2. PICK f : Is(f, m - 1)
      BY <2>1, <3>1
    <3>. DEFINE g == [d \in 0 .. m |-> IF d = m THEN Below(f[m - 1]) ELSE f[d]]
    <3>3. \A d \in 0 .. m : d \in Nat /\ (d # m => d \in 0 .. m - 1) /\ (d # 0 => d - 1 \in 0 .. m - 1)
      BY <2>1
    <3>4. \A d \in 0 .. m - 1 : g[d] = f[d] /\ f[d] = IF d = 0 THEN B ELSE Below(f[d - 1])
      <4>1. \A d \in 0 .. m - 1 : d \in 0 .. m /\ d # m
        BY <2>1
      <4>2. QED
        BY <3>2, <4>1
    <3>5. ASSUME NEW d \in 0 .. m PROVE g[d] = IF d = 0 THEN B ELSE Below(g[d - 1])
      <4>1. CASE d = m
        <5>1. g[d] = Below(f[m - 1]) /\ d # 0 /\ d - 1 = m - 1
          BY <2>3, <4>1
        <5>2. g[d - 1] = f[d - 1]
          BY <3>3, <3>4, <5>1
        <5>. HIDE DEF g
        <5>3. QED
          BY <5>1, <5>2
      <4>2. CASE d # m
        <5>1. g[d] = f[d] /\ f[d] = IF d = 0 THEN B ELSE Below(f[d - 1])
          BY <3>3, <3>4, <4>2
        <5>2. d # 0 => g[d - 1] = f[d - 1]
          BY <3>3, <3>4
        <5>. HIDE DEF g
        <5>3. QED
          BY <5>1, <5>2
      <4>3. QED
        BY <4>1, <4>2
    <3>6. g = [d \in 0 .. m |-> g[d]]
      OBVIOUS
    <3>. HIDE DEF g
    <3>7. Is(g, m)
      BY <3>5, <3>6
    <3>8. QED
      BY <2>1, <3>7
  <2>4. QED
    BY <2>2, <2>3
<1>2. \E f : Is(f, n)
  BY <1>1
<1>3. QED
  BY <1>2

LEMMA LevelsFit ==
  ASSUME NEW G, NEW B, \A t \in Statements(B) : Fitting(G, t), NEW n \in Nat, NEW d \in 0 .. n
  PROVE  \A t \in Statements(Levels(B, n)[d]) : Fitting(G, t)
<1>. DEFINE f == Levels(B, n)
            Bad == {k \in 0 .. n : ~\A t \in Statements(f[k]) : Fitting(G, t)}
<1>1. f = [k \in 0 .. n |-> IF k = 0 THEN B ELSE Below(f[k - 1])]
  BY LevelsExist DEF Levels
<1>. HIDE DEF f
<1>2. ASSUME NEW S, \A t \in Statements(S) : Fitting(G, t)
      PROVE  \A t \in Statements(Below(S)) : Fitting(G, t)
  <2>1. SUFFICES ASSUME NEW t \in Statements(Below(S)) PROVE Fitting(G, t)
    OBVIOUS
  <2>2. PICK s \in Statements(S) : t \in Statements(BlocksIn(s))
    BY <2>1 DEF Below, Statements
  <2>3. QED
    BY <1>2, <2>2, FittingInside
<1>3. ASSUME Bad # {} PROVE FALSE
  <2>1. PICK k \in Bad : \A y \in Bad : k <= y
    <3>1. Bad \subseteq Nat
      OBVIOUS
    <3>. HIDE DEF Bad
    <3>2. QED
      BY <1>3, <3>1, LeastOf
  <2>2. k # 0
    BY <1>1, <2>1
  <2>3. k - 1 \in 0 .. n /\ ~(k <= k - 1) /\ k \in 0 .. n
    BY <2>1, <2>2
  <2>4. \A t \in Statements(f[k - 1]) : Fitting(G, t)
    BY <2>1, <2>3
  <2>5. f[k] = Below(f[k - 1])
    BY <1>1, <2>2, <2>3
  <2>6. QED
    BY <1>2, <2>1, <2>4, <2>5
<1>4. QED
  BY <1>3 DEF f

(* The items of a tree made of fitting blocks suit.                        *)
LEMMA TreeSuits ==
  ASSUME NEW G, NEW r, FittingRoot(G, r), NEW n \in AllItems(r)
  PROVE  Suits(G, n)
<1>1. \A t \in Statements(Bodies(r)) : Fitting(G, t)
  <2>1. DOMAIN r.subcircuits = 1 .. Len(r.subcircuits)
    BY ListFacts DEF FittingRoot
  <2>2. QED
    BY <2>1 DEF Bodies, Statements, Range, FittingRoot, FittingBlock
<1>2. PICK t \in AllStatements(r) : t.node = "bundle" /\ n \in Range(t.items)
  BY DEF AllItems
<1>3. PICK d \in 0 .. MaxDepth : t \in Statements(Levels(Bodies(r), MaxDepth)[d])
  BY ReachedIsLevels DEF AllStatements, Statements
<1>4. Fitting(G, t)
  BY <1>1, <1>3, LevelsFit, ConstantsAssumption
<1>5. QED
  BY <1>2, <1>4, FittingInside

-----------------------------------------------------------------------------
(* Names of gotos are noted before the gotos get into the tree, and stay.  *)
LEMMA TargetsList ==
  ASSUME NEW bundle \in Bundles
  PROVE  IsList(TargetsOf(bundle)) /\ TargetsIn(bundle) \subseteq Range(TargetsOf(bundle))
<1>. DEFINE places == {i \in DOMAIN bundle : IsGoto(bundle[i]) /\ HasTarget(bundle[i])}
            jumps == ElementsAt(bundle, places)
            t == [i \in DOMAIN jumps |-> jumps[i].operands[1].name]
<1>1. IsList(bundle) /\ places \subseteq DOMAIN bundle
  BY AlphabetAssumption
<1>2. TargetsOf(bundle) = t /\ TargetsIn(bundle) = {bundle[i].operands[1].name : i \in places}
  BY DEF TargetsOf, TargetsIn
<1>. HIDE DEF places
<1>3. IsList(jumps) /\ \A i \in places : bundle[i] \in Range(jumps)
  BY <1>1, ElementsAtPlaces
<1>. HIDE DEF jumps
<1>4. /\ DOMAIN t = DOMAIN jumps /\ t = [i \in DOMAIN t |-> t[i]]
      /\ \A i \in DOMAIN jumps : t[i] = jumps[i].operands[1].name
  OBVIOUS
<1>. HIDE DEF t
<1>5. IsList(t)
  BY <1>3, <1>4, MappedList
<1>6. ASSUME NEW i \in places PROVE bundle[i].operands[1].name \in Range(t)
  <2>1. PICK k \in DOMAIN jumps : jumps[k] = bundle[i]
    BY <1>3 DEF Range
  <2>2. QED
    BY <1>4, <2>1 DEF Range
<1>7. QED
  BY <1>2, <1>5, <1>6

LEMMA ConcatenatedLists ==
  ASSUME NEW s, IsList(s), NEW t, IsList(t)
  PROVE  IsList(s \o t) /\ Range(s) \subseteq Range(s \o t) /\ Range(t) \subseteq Range(s \o t)
<1>. DEFINE T == Range(s) \cup Range(t)
<1>1. s \in Seq(T) /\ t \in Seq(T)
  BY DEF IsList
<1>. HIDE DEF T
<1>2. s \o t \in Seq(T) /\ Len(s) \in Nat /\ Len(t) \in Nat /\ Len(s \o t) = Len(s) + Len(t)
  BY <1>1
<1>3. IsList(s \o t)
  BY <1>2, ListOfItsElements
<1>4. DOMAIN s = 1 .. Len(s) /\ DOMAIN t = 1 .. Len(t) /\ DOMAIN (s \o t) = 1 .. Len(s) + Len(t)
  BY <1>1, <1>2
<1>5. ASSUME NEW i \in DOMAIN s PROVE i \in DOMAIN (s \o t) /\ (s \o t)[i] = s[i]
  BY <1>1, <1>2, <1>4
<1>6. ASSUME NEW i \in DOMAIN t PROVE i + Len(s) \in DOMAIN (s \o t) /\ (s \o t)[i + Len(s)] = t[i]
  BY <1>1, <1>2, <1>4
<1>7. QED
  BY <1>3, <1>5, <1>6 DEF Range

LEMMA OtherStepsNoteNothing ==
  ASSUME [Next]_vars
  PROVE  UNCHANGED gotos \/ \E bundle \in Bundles : VisitBundle(bundle)
<1>1. ASSUME NEW count \in QubitCounts, Start(count) PROVE UNCHANGED gotos
  BY <1>1 DEF Start, StartWith
<1>2. CASE VisitStatement
  BY <1>2 DEF VisitStatement, VisitErrorModel, VisitMapping, VisitVariables, VisitSubcircuit,
              VisitJump, Open
<1>3. CASE CloseBlock
  BY <1>3 DEF CloseBlock, ElseIf, EndRepeat, Else, EndIf, EndFor, EndForeach, EndWhile
<1>4. CASE Finish
  BY <1>4 DEF Finish
<1>5. CASE UNCHANGED vars
  BY <1>5 DEF vars
<1>6. QED
  BY <1>1, <1>2, <1>3, <1>4, <1>5 DEF Next

LEMMA VersionsKept == [Next]_vars => UNCHANGED <<api, file>>
<1> SUFFICES ASSUME [Next]_vars PROVE UNCHANGED <<api, file>>
  OBVIOUS
<1>1. ASSUME NEW count \in QubitCounts, Start(count) PROVE UNCHANGED <<api, file>>
  BY <1>1 DEF Start, StartWith
<1>2. CASE VisitStatement
  BY <1>2 DEF VisitStatement, VisitBundle, VisitErrorModel, VisitMapping, VisitVariables,
              VisitSubcircuit, VisitJump, Open
<1>3. CASE CloseBlock
  BY <1>3 DEF CloseBlock, ElseIf, EndRepeat, Else, EndIf, EndFor, EndForeach, EndWhile
<1>4. CASE Finish
  BY <1>4 DEF Finish
<1>5. CASE UNCHANGED vars
  BY <1>5 DEF vars
<1>6. QED
  BY <1>1, <1>2, <1>3, <1>4, <1>5 DEF Next

LEMMA NotedGrows ==
  ASSUME IsList(gotos), [Next]_vars
  PROVE  /\ IsList(gotos') /\ Noted \subseteq Noted'
         /\ \A bundle \in Bundles : VisitBundle(bundle) => TargetsIn(bundle) \subseteq Noted'
<1>1. api' = api
  BY VersionsKept
<1>2. ASSUME NEW bundle \in Bundles, VisitBundle(bundle)
      PROVE  /\ IsList(gotos') /\ Range(gotos) \subseteq Range(gotos')
             /\ TargetsIn(bundle) \subseteq Noted'
  <2>1. gotos' = gotos \o TargetsOf(bundle)
    BY <1>2 DEF VisitBundle
  <2>2. /\ IsList(gotos') /\ Range(gotos) \subseteq Range(gotos')
        /\ TargetsIn(bundle) \subseteq Range(gotos')
    BY <2>1, TargetsList, ConcatenatedLists
  <2>3. ASSUME NEW name \in TargetsIn(bundle) PROVE api >= 12
    BY DEF TargetsIn, IsGoto
  <2>4. QED
    BY <1>1, <2>2, <2>3 DEF Noted
<1>3. IsList(gotos') /\ Range(gotos) \subseteq Range(gotos')
  BY <1>2, OtherStepsNoteNothing
<1>4. QED
  BY <1>1, <1>2, <1>3 DEF Noted

(* What suits some names suits more names.                                 *)
LEMMA FittingMore ==
  ASSUME NEW G, NEW H, G \subseteq H, FitFor(G)
  PROVE  FitFor(H)
<1>1. \A n : Suits(G, n) => Suits(H, n)
  BY DEF Suits
<1>2. \A S : Sound(G, S) => Sound(H, S)
  BY <1>1 DEF Sound
<1>3. \A t : Fitting(G, t) => Fitting(H, t)
  BY <1>2 DEF Fitting
<1>4. \A b : FittingBlock(G, b) => FittingBlock(H, b)
  BY <1>3 DEF FittingBlock
<1>5. FittingRoot(H, root) /\ FittingScopes(H, scope_stack)
  BY <1>4 DEF FitFor, FittingRoot, FittingScopes
<1>6. \A b : FittingBranches(G, b) => FittingBranches(H, b)
  BY <1>4 DEF FittingBranches
<1>7. FittingHandlers(H, handlers)
  BY <1>6 DEF FitFor, FittingHandlers
<1>8. QED
  BY <1>5, <1>7 DEF FitFor

-----------------------------------------------------------------------------
LEMMA FitInit == Init => FitInv
<1> SUFFICES ASSUME Init PROVE FitInv
  OBVIOUS
<1>1. /\ scope_stack = <<GlobalScope>> /\ handlers = <<>> /\ root = EmptyRoot
      /\ api \in ApiVersions /\ gotos = <<>>
      /\ "block" \in DOMAIN GlobalScope /\ GlobalScope.block = <<>>
      /\ "subcircuits" \in DOMAIN EmptyRoot /\ EmptyRoot.subcircuits = <<>>
  BY DEF Init, GlobalScope, EmptyRoot
<1>2. Len(<<GlobalScope>>) = 1 /\ \A i \in 1 .. 1 : (<<GlobalScope>>)[i] = GlobalScope
  OBVIOUS
<1>3. ASSUME NEW G PROVE FitFor(G)
  <2>1. FittingScopes(G, scope_stack)
    BY <1>1, <1>2, EmptyFits DEF FittingScopes
  <2>2. FittingRoot(G, root) /\ FittingHandlers(G, handlers)
    BY <1>1 DEF FittingRoot, FittingHandlers, IsList, Range
  <2>3. QED
    BY <2>1, <2>2 DEF FitFor
<1>4. FitFor(Noted) /\ IsList(<<>>)
  BY <1>3 DEF IsList, Range
<1>5. QED
  BY <1>1, <1>4 DEF FitInv

(* Whatever is analyzed, if the targets of its gotos are in G.             *)
LEMMA StepFits ==
  ASSUME NEW G, IInv, FitFor(G), [Next]_vars,
         \A bundle \in Bundles : VisitBundle(bundle) => TargetsIn(bundle) \subseteq G
  PROVE  FitFor(G)'
<1>1. ASSUME NEW count \in QubitCounts, Start(count) PROVE FitFor(G)'
  BY <1>1, StartStepFits
<1>2. CASE VisitStatement
  <2>1. ASSUME NEW b \in Bundles, VisitBundle(b) PROVE FitFor(G)'
    BY <2>1, BundleStepFits
  <2>2. ASSUME NEW d \in ErrorModelDecls, VisitErrorModel(d) PROVE FitFor(G)'
    BY <2>2, ErrorModelStepFits
  <2>3. ASSUME NEW d \in MappingDecls, VisitMapping(d) PROVE FitFor(G)'
    BY <2>3, MappingStepFits
  <2>4. ASSUME NEW d \in VariableDecls, VisitVariables(d) PROVE FitFor(G)'
    BY <2>4, VariablesStepFits
  <2>5. ASSUME NEW d \in SubcircuitDecls, VisitSubcircuit(d) PROVE FitFor(G)'
    BY <2>5, SubcircuitStepFits
  <2>6. ASSUME NEW h \in Headers, VisitJump(h) \/ Open(h) PROVE FitFor(G)'
    BY <2>6, JumpStepFits, OpenStepFits
  <2>7. QED
    BY <1>2, <2>1, <2>2, <2>3, <2>4, <2>5, <2>6 DEF VisitStatement
<1>3. CASE CloseBlock
  <2>1. ASSUME NEW c \in Conditions, ElseIf(c) \/ EndRepeat(c) PROVE FitFor(G)'
    BY <2>1, ElseIfStepFits, EndRepeatStepFits
  <2>2. CASE Else
    BY <2>2, ElseStepFits
  <2>3. CASE EndIf \/ EndFor \/ EndForeach \/ EndWhile
    BY <2>3, EndIfStepFits, EndLoopStepFits
  <2>4. QED
    BY <1>3, <2>1, <2>2, <2>3 DEF CloseBlock
<1>4. CASE Finish
  BY <1>4, FinishStepFits
<1>5. CASE UNCHANGED vars
  BY <1>5 DEF FitFor, vars
<1>6. QED
  BY <1>1, <1>2, <1>3, <1>4, <1>5 DEF Next

LEMMA FitNext ==
  ASSUME IInv, FitInv, [Next]_vars
  PROVE  FitInv'
<1>1. PICK G : G = Noted'
  OBVIOUS
<1>2. /\ IsList(gotos') /\ Noted \subseteq G
      /\ \A bundle \in Bundles : VisitBundle(bundle) => TargetsIn(bundle) \subseteq G
  BY <1>1, NotedGrows DEF FitInv
<1>3. FitFor(G)
  BY <1>2, FittingMore DEF FitInv
<1>4. FitFor(G)'
  BY <1>2, <1>3, StepFits
<1>5. FitFor(Noted)'
  BY <1>1, <1>4 DEF FitFor
<1>6. QED
  BY <1>2, <1>5, VersionsKept DEF FitInv

(* Whatever an instruction set has registered, every instruction of the    *)
(* tree fits one of its overloads as it stands: nothing that is done to    *)
(* the tree behind resolve, in blocks, branches and subcircuits, lets one  *)
(* in that was not resolved and promoted.                                  *)
THEOREM OperandsFitHolds == Spec => []OperandsFit
<1>1. Init => IInv /\ FitInv
  BY InitInv, FitInit
<1>2. IInv /\ FitInv /\ [Next]_vars => (IInv /\ FitInv)'
  BY NextInv, FitNext
<1>3. FitInv => OperandsFit
  BY TreeSuits DEF OperandsFit, FitInv, FitFor, Suits
<1>4. QED
  BY <1>1, <1>2, <1>3, PTL DEF Spec

-----------------------------------------------------------------------------
(* What is counted is finite, and names are kept in lists.                 *)
Counting ==
  /\ errors \in Nat /\ IsList(gotos)
  /\ "subcircuits" \in DOMAIN root /\ "resolved" \in DOMAIN root /\ "mappings" \in DOMAIN root

JumpInv == Counting /\ JumpTargetsUnique /\ GotosResolved

LEMMA RecordsKept ==
  ASSUME Counting, NEW s, NEW b
  PROVE  LET after == AddToCurrentBlock(root, s, b)
         IN  "subcircuits" \in DOMAIN after.root /\ "resolved" \in DOMAIN after.root /\ "mappings" \in DOMAIN after.root
<1>. DEFINE q == [root EXCEPT !.subcircuits =
                    [CurrentSubcircuits(root) EXCEPT
                       ![Len(CurrentSubcircuits(root))].body = @ \o b]]
<1>1. "subcircuits" \in DOMAIN q /\ "resolved" \in DOMAIN q /\ "mappings" \in DOMAIN q
  BY DEF Counting
<1>2. AddToCurrentBlock(root, s, b).root \in {root, q}
  BY DEF AddToCurrentBlock
<1>. HIDE DEF q
<1>3. QED
  BY <1>1, <1>2 DEF Counting

(* While statements are being analyzed no tree has been returned.          *)
LEMMA StillCounting ==
  ASSUME Counting, NEW n \in Nat, NEW crashed, Report(n, crashed), phase = "statements",
         "subcircuits" \in DOMAIN root', "resolved" \in DOMAIN root', "mappings" \in DOMAIN root',
         IsList(gotos')
  PROVE  JumpInv'
<1>1. errors' \in Nat /\ phase' \in {"statements", "crash"}
  BY DEF Report, Counting
<1>2. QED
  BY <1>1 DEF JumpInv, Counting, JumpTargetsUnique, GotosResolved

(* The items of a bundle with an error are counted.                        *)
LEMMA ErrorsOfBundle ==
  ASSUME NEW bundle \in Bundles, VisitBundle(bundle)
  PROVE  \E n, crashed, b :
           n \in Nat /\ Report(n, crashed) /\ Becomes(AddToCurrentBlock(root, scope_stack, b))
<1>. DEFINE m == Current.mappings
            items == [i \in DOMAIN bundle |-> AnalyzeItem(m, bundle[i])]
            places == {i \in DOMAIN items : items[i] \notin {Error, Crash, Absent}}
            nodes == ElementsAt(items, places)
            failed == {i \in DOMAIN items : items[i] = Error}
            b == IF nodes = <<>> THEN <<>> ELSE <<[node |-> "bundle", items |-> nodes]>>
            serial == Serial(nodes)
<1>1. /\ Becomes(AddToCurrentBlock(root, scope_stack, b))
      /\ Report(Cardinality(failed) + Cardinality(serial), Crash \in Range(items))
  BY DEF VisitBundle, VisitItems
<1>2. IsList(bundle) /\ Len(bundle) \in Nat /\ DOMAIN bundle = 1 .. Len(bundle)
  BY AlphabetAssumption, ListFacts
<1>3. DOMAIN items = DOMAIN bundle /\ items = [i \in DOMAIN items |-> items[i]]
  OBVIOUS
<1>4. places \subseteq DOMAIN items /\ failed \subseteq DOMAIN items
  OBVIOUS
<1>. HIDE DEF items, places, failed, b
<1>5. IsList(nodes)
  BY <1>2, <1>3, <1>4, MappedList, ElementsAtPlaces
<1>. HIDE DEF nodes
<1>6. Cardinality(failed) \in Nat
  BY <1>2, <1>3, <1>4, PlacesFinite
<1>7. Cardinality(serial) \in Nat
  <2>1. serial \subseteq 1 .. Len(nodes) /\ Len(nodes) \in Nat
    BY <1>5, ListFacts DEF Serial
  <2>2. QED
    BY <2>1, PlacesFinite
<1>. HIDE DEF serial
<1>8. Cardinality(failed) + Cardinality(serial) \in Nat
  BY <1>6, <1>7
<1>9. QED
  BY <1>1, <1>8

LEMMA BundleStepJumps ==
  ASSUME Counting, NEW bundle \in Bundles, VisitBundle(bundle)
  PROVE  JumpInv'
<1>1. phase = "statements" /\ gotos' = gotos \o TargetsOf(bundle)
  BY DEF VisitBundle, Visit
<1>2. IsList(gotos')
  BY <1>1, TargetsList, ConcatenatedLists DEF Counting
<1>3. PICK n, crashed, b :
        n \in Nat /\ Report(n, crashed) /\ Becomes(AddToCurrentBlock(root, scope_stack, b))
  BY ErrorsOfBundle
<1>4. "subcircuits" \in DOMAIN root' /\ "resolved" \in DOMAIN root' /\ "mappings" \in DOMAIN root'
  BY <1>3, RecordsKept DEF Becomes
<1>5. QED
  BY <1>1, <1>2, <1>3, <1>4, StillCounting

(* The other statements count no error or one.                             *)
LEMMA StatementJumps ==
  ASSUME Counting, phase = "statements", UNCHANGED gotos,
         \E failed, crashed : Report(IF failed THEN 1 ELSE 0, crashed),
         "subcircuits" \in DOMAIN root', "resolved" \in DOMAIN root' /\ "mappings" \in DOMAIN root'
  PROVE  JumpInv'
<1>1. PICK failed, crashed : Report(IF failed THEN 1 ELSE 0, crashed)
  OBVIOUS
<1>2. (IF failed THEN 1 ELSE 0) \in Nat /\ IsList(gotos')
  BY DEF Counting
<1>3. QED
  BY <1>1, <1>2, StillCounting

LEMMA VisitJumps ==
  ASSUME Counting, VisitStatement
  PROVE  JumpInv'
<1>1. ASSUME NEW b \in Bundles, VisitBundle(b) PROVE JumpInv'
  BY <1>1, BundleStepJumps
<1>2. ASSUME NEW d \in ErrorModelDecls, VisitErrorModel(d) PROVE JumpInv'
  <2>1. PICK model : SetErrorModel(model) /\ phase = "statements" /\ UNCHANGED gotos
    BY <1>2 DEF VisitErrorModel, Visit
  <2>2. QED
    BY <2>1, StatementJumps DEF SetErrorModel, Counting
<1>3. ASSUME NEW d \in MappingDecls, VisitMapping(d) PROVE JumpInv'
  <2>1. PICK value : MapTo(d.alias, value) /\ phase = "statements" /\ UNCHANGED <<root, gotos>>
    BY <1>3 DEF VisitMapping, Visit
  <2>2. QED
    BY <2>1, StatementJumps DEF MapTo, Counting
<1>4. ASSUME NEW d \in VariableDecls, VisitVariables(d) PROVE JumpInv'
  <2>1. /\ phase = "statements" /\ UNCHANGED gotos
        /\ \E ok : Report(IF ok THEN 0 ELSE 1, FALSE)
        /\ "subcircuits" \in DOMAIN root' /\ "resolved" \in DOMAIN root' /\ "mappings" \in DOMAIN root'
    BY <1>4 DEF VisitVariables, Visit, Counting
  <2>2. QED
    BY <2>1, StillCounting DEF Counting
<1>5. ASSUME NEW d \in SubcircuitDecls, VisitSubcircuit(d) PROVE JumpInv'
  <2>1. PICK n : AddSubcircuit(d.name, n) /\ phase = "statements" /\ UNCHANGED gotos
    BY <1>5 DEF VisitSubcircuit, Visit
  <2>2. /\ \E ok, crashed : Report(IF ok THEN 0 ELSE 1, crashed)
        /\ "subcircuits" \in DOMAIN root' /\ "resolved" \in DOMAIN root' /\ "mappings" \in DOMAIN root'
    BY <2>1 DEF AddSubcircuit, Counting
  <2>3. QED
    BY <2>1, <2>2, StillCounting DEF Counting
<1>6. ASSUME NEW h \in Headers, VisitJump(h) PROVE JumpInv'
  <2>1. /\ phase = "statements" /\ UNCHANGED gotos
        /\ \E ok : Report(IF ok THEN 0 ELSE 1, FALSE)
        /\ \/ Becomes(AddToCurrentBlock(root, scope_stack, <<h>>))
           \/ UNCHANGED <<root, scope_stack>>
    BY <1>6 DEF VisitJump, Visit, Unchanged, Becomes
  <2>2. "subcircuits" \in DOMAIN root' /\ "resolved" \in DOMAIN root' /\ "mappings" \in DOMAIN root'
    BY <2>1, RecordsKept DEF Becomes, Counting
  <2>3. QED
    BY <2>1, <2>2, StillCounting DEF Counting
<1>7. ASSUME NEW h \in Headers, Open(h) PROVE JumpInv'
  <2>1. PICK analyzed, failure : OpenBlock(h, analyzed, failure) /\ phase = "statements"
                                 /\ UNCHANGED <<root, gotos>>
    BY <1>7 DEF Open, OpenAnalyzed, Visit
  <2>2. QED
    BY <2>1, StatementJumps DEF OpenBlock, Counting
<1>8. QED
  BY <1>1, <1>2, <1>3, <1>4, <1>5, <1>6, <1>7 DEF VisitStatement

LEMMA CloseJumps ==
  ASSUME Counting, CloseBlock
  PROVE  JumpInv'
<1>1. phase = "statements" /\ UNCHANGED gotos
  BY DEF CloseBlock, ElseIf, EndRepeat, Else, EndIf, EndFor, EndForeach, EndWhile, InBlock, Visit
<1>2. "subcircuits" \in DOMAIN root' /\ "resolved" \in DOMAIN root' /\ "mappings" \in DOMAIN root'
  <2>1. UNCHANGED root \/ \E b : Return(b)
    BY DEF CloseBlock, ElseIf, EndRepeat, ReturnRepeat, Else, EndIf, EndFor, EndForeach, EndWhile
  <2>2. QED
    BY <2>1, RecordsKept DEF Return, Becomes, Counting
<1>3. errors' \in {errors, errors + 1, errors + 0} /\ phase' \in {phase, "crash"}
  <2>1. ASSUME NEW c \in Conditions, ElseIf(c) \/ EndRepeat(c)
        PROVE  errors' \in {errors, errors + 1, errors + 0} /\ phase' \in {phase, "crash"}
    BY <2>1 DEF ElseIf, ElseIfAnalyzed, Report, EndRepeat, ReturnRepeat
  <2>2. CASE Else
    BY <2>2 DEF Else, Report
  <2>3. CASE EndIf \/ EndFor \/ EndForeach \/ EndWhile
    BY <2>3 DEF EndIf, EndFor, EndForeach, EndWhile
  <2>4. QED
    BY <2>1, <2>2, <2>3 DEF CloseBlock
<1>4. errors' \in Nat /\ phase' \in {"statements", "crash"}
  BY <1>1, <1>3 DEF Counting
<1>5. QED
  BY <1>1, <1>2, <1>4 DEF JumpInv, Counting, JumpTargetsUnique, GotosResolved

(* What is returned before the statements has an error.                    *)
LEMMA StartJumps ==
  ASSUME Counting, NEW count, Start(count)
  PROVE  JumpInv'
<1>1. PICK n : StartWith(n)
  BY DEF Start
<1>2. /\ UNCHANGED gotos
      /\ "subcircuits" \in DOMAIN root' /\ "resolved" \in DOMAIN root' /\ "mappings" \in DOMAIN root'
  BY <1>1 DEF StartWith, Counting
<1>. DEFINE missing == n = Absent /\ file < 11
            bad == n # Absent /\ ~Positive(n)
<1>3. errors' = (IF file > api THEN 1 ELSE 0) + (IF missing \/ bad THEN 1 ELSE 0)
  BY <1>1 DEF StartWith
<1>4. phase' \in {"returned", "crash", "statements"} /\ (phase' = "returned" => missing)
  BY <1>1 DEF StartWith
<1>. HIDE DEF missing, bad
<1>5. errors' \in Nat /\ (missing => errors' # 0)
  BY <1>3
<1>6. QED
  BY <1>2, <1>4, <1>5 DEF JumpInv, Counting, JumpTargetsUnique, GotosResolved

(* When no name is missing and none is there twice, a link of the tree     *)
(* leads to one subcircuit.                                                *)
LEMMA OneTarget ==
  ASSUME IsList(root.subcircuits), Duplicates = {}, NEW target \in SubcircuitNames
  PROVE  Cardinality({i \in DOMAIN root.subcircuits : root.subcircuits[i].name = target}) = 1
<1>. DEFINE subs == root.subcircuits
            I == {i \in DOMAIN subs : subs[i].name = target}
<1>1. DOMAIN subs = 1 .. Len(subs) /\ Len(subs) \in Nat
  BY ListFacts
<1>2. PICK i \in DOMAIN subs : subs[i].name = target
  BY DEF SubcircuitNames, Range
<1>3. \A j \in DOMAIN subs : \A k \in 1 .. j - 1 : subs[k].name # subs[j].name
  BY DEF Duplicates
<1>4. ASSUME NEW j \in I PROVE j = i
  <2>1. j \in Nat /\ i \in Nat /\ j >= 1 /\ i >= 1
    BY <1>1
  <2>2. ~(j < i) /\ ~(i < j)
    <3>1. j < i => j \in 1 .. i - 1
      BY <2>1
    <3>2. i < j => i \in 1 .. j - 1
      BY <2>1
    <3>3. QED
      BY <1>2, <1>3, <3>1, <3>2
  <2>3. QED
    BY <2>1, <2>2
<1>5. I = {i}
  BY <1>2, <1>4
<1>6. QED
  BY <1>5, FS_Singleton

LEMMA LookupsCounted ==
  ASSUME Counting, IsList(root.subcircuits)
  PROVE  /\ IsFiniteSet(Duplicates) /\ Cardinality(Duplicates) \in Nat
         /\ IsFiniteSet(Unresolved) /\ Cardinality(Unresolved) \in Nat
<1>1. Duplicates \subseteq 1 .. Len(root.subcircuits) /\ Len(root.subcircuits) \in Nat
  BY ListFacts DEF Duplicates
<1>2. Unresolved \subseteq 1 .. Len(gotos) /\ Len(gotos) \in Nat
  BY ListFacts DEF Unresolved, Counting
<1>3. QED
  BY <1>1, <1>2, PlacesFinite

LEMMA FinishJumps ==
  ASSUME Counting, IsList(root.subcircuits), FitInv, Finish
  PROVE  JumpInv'
<1>. DEFINE missing == IF LooksUpTargets
                       THEN Cardinality(Duplicates) + Cardinality(Unresolved) ELSE 0
<1>1. /\ errors' = errors + missing /\ UNCHANGED gotos
      /\ phase' = IF errors' = 0 /\ ~WellFormed(root') THEN "internal error" ELSE "returned"
  BY DEF Finish
<1>2. /\ "subcircuits" \in DOMAIN root' /\ "resolved" \in DOMAIN root' /\ "mappings" \in DOMAIN root'
      /\ root'.subcircuits = root.subcircuits
      /\ root'.resolved = IF LooksUpTargets THEN SubcircuitNames ELSE {}
  BY DEF Finish, Counting
<1>3. /\ IsFiniteSet(Duplicates) /\ Cardinality(Duplicates) \in Nat
      /\ IsFiniteSet(Unresolved) /\ Cardinality(Unresolved) \in Nat
  BY LookupsCounted
<1>4. /\ missing \in Nat
      /\ LooksUpTargets /\ missing = 0 => Cardinality(Duplicates) = 0 /\ Cardinality(Unresolved) = 0
  BY <1>3
<1>. HIDE DEF missing
<1>5. Counting'
  <2>1. errors \in Nat /\ IsList(gotos')
    BY <1>1 DEF Counting
  <2>2. errors' = errors + missing /\ missing \in Nat
    BY <1>1, <1>4
  <2>3. errors' \in Nat
    BY <2>1, <2>2
  <2>4. QED
    BY <1>2, <2>1, <2>3 DEF Counting
<1>6. ASSUME phase' = "returned", errors' = 0, NEW jump \in Jumps(root')
      PROVE  Cardinality({i \in DOMAIN root'.subcircuits :
                            root'.subcircuits[i].name = jump.target}) = 1
  <2>1. WellFormed(root')
    BY <1>1, <1>6
  <2>2. jump.target \in root'.resolved
    BY <1>6, <2>1 DEF WellFormed
  <2>3. LooksUpTargets /\ jump.target \in SubcircuitNames
    BY <1>2, <2>2
  <2>4. errors = 0 /\ missing = 0
    BY <1>1, <1>4, <1>6 DEF Counting
  <2>5. Duplicates = {}
    BY <1>3, <1>4, <2>3, <2>4, FS_EmptySet
  <2>6. QED
    BY <1>2, <2>3, <2>5, OneTarget
<1>7. JumpTargetsUnique'
  BY <1>6 DEF JumpTargetsUnique
<1>8. ASSUME file >= 12 \/ api < 12, errors' = 0 PROVE WellFormed(root')
  <2>1. SUFFICES ASSUME NEW jump \in Jumps(root') PROVE jump.target \in root'.resolved
    BY DEF WellFormed
  <2>2. FittingRoot(Noted, root')
    BY <1>2 DEF FitInv, FitFor, FittingRoot
  <2>3. jump \in AllItems(root') /\ jump.node = "goto"
    BY <2>1 DEF Jumps
  <2>4. jump.target \in Noted
    BY <2>2, <2>3, TreeSuits DEF Suits
  <2>5. api >= 12 /\ jump.target \in Range(gotos)
    BY <2>4 DEF Noted
  <2>6. api \in {10, 11, 12}
    BY ConstantsAssumption DEF FitInv
  <2>7. LooksUpTargets
    BY <1>8, <2>5, <2>6 DEF LooksUpTargets
  <2>8. missing = 0
    <3>1. errors' = errors + missing /\ errors' = 0
      BY <1>1, <1>8
    <3>2. errors \in Nat /\ missing \in Nat
      BY <1>4 DEF Counting
    <3>3. QED
      BY <3>1, <3>2
  <2>9. Unresolved = {}
    BY <1>3, <1>4, <2>7, <2>8, FS_EmptySet
  <2>10. jump.target \in SubcircuitNames
    BY <2>5, <2>9 DEF Unresolved, Range
  <2>11. QED
    BY <1>2, <2>7, <2>10
<1>9. GotosResolved'
  BY <1>1, <1>8, VersionsKept DEF GotosResolved, Next
<1>10. QED
  BY <1>5, <1>7, <1>9 DEF JumpInv

LEMMA JumpInit == Init => JumpInv
<1>1. Init => Counting
  BY DEF Init, Counting, EmptyRoot, IsList, Range
<1>2. Init => JumpTargetsUnique /\ GotosResolved
  BY DEF Init, JumpTargetsUnique, GotosResolved
<1>3. QED
  BY <1>1, <1>2 DEF JumpInv

LEMMA JumpNext ==
  ASSUME FitInv, JumpInv, [Next]_vars
  PROVE  JumpInv'
<1>1. Counting /\ IsList(root.subcircuits)
  BY DEF JumpInv, FitInv, FitFor, FittingRoot
<1>2. ASSUME NEW count \in QubitCounts, Start(count) PROVE JumpInv'
  BY <1>1, <1>2, StartJumps
<1>3. CASE VisitStatement
  BY <1>1, <1>3, VisitJumps
<1>4. CASE CloseBlock
  BY <1>1, <1>4, CloseJumps
<1>5. CASE Finish
  BY <1>1, <1>5, FinishJumps
<1>6. CASE UNCHANGED vars
  BY <1>6 DEF JumpInv, Counting, JumpTargetsUnique, GotosResolved, Jumps, vars
<1>7. QED
  BY <1>2, <1>3, <1>4, <1>5, <1>6 DEF Next

(* Whatever is written in which order, and whatever becomes of the blocks  *)
(* in between, a goto in a tree without errors leads to the one subcircuit *)
(* that has its name.                                                      *)
THEOREM JumpTargetsUniqueHolds == Spec => []JumpTargetsUnique
<1>1. IInv /\ FitInv /\ JumpInv /\ [Next]_vars => (IInv /\ FitInv /\ JumpInv)'
  BY NextInv, FitNext, JumpNext
<1>2. JumpInv => JumpTargetsUnique
  BY DEF JumpInv
<1>3. QED
  BY <1>1, <1>2, InitInv, FitInit, JumpInit, PTL DEF Spec

(* For every alphabet and nesting: a goto gets into the tree only under a   *)
(* name that was noted, nothing noted is forgotten, and what is noted and   *)
(* not looked up to the end comes from an API of version 1.2 in a file      *)
(* below it.  So only such gotos make analyze give up on its own result.    *)
THEOREM GotosResolvedHolds == Spec => []GotosResolved
<1>1. IInv /\ FitInv /\ JumpInv /\ [Next]_vars => (IInv /\ FitInv /\ JumpInv)'
  BY NextInv, FitNext, JumpNext
<1>2. JumpInv => GotosResolved
  BY DEF JumpInv
<1>3. QED
  BY <1>1, <1>2, InitInv, FitInit, JumpInit, PTL DEF Spec

-----------------------------------------------------------------------------
(* What expressions are analyzed to: every constant has an integer.  The    *)
(* induction is over the bits: there are 2 ^ n sets of n bits, and a sum of  *)
(* the first n bits exists because there is no least n without one.         *)
LEMMA PowerOfTwo ==
  ASSUME NEW n \in Nat
  PROVE  2 ^ n \in Nat \ {0}
<1>. DEFINE S == SUBSET (1 .. n)
<1>1. IsFiniteSet(1 .. n) /\ Cardinality(1 .. n) = n
  BY FS_Interval
<1>2. IsFiniteSet(S) /\ Cardinality(S) = 2 ^ n
  BY <1>1, FS_SUBSET
<1>3. S # {}
  OBVIOUS
<1>. HIDE DEF S
<1>4. Cardinality(S) \in Nat /\ Cardinality(S) # 0
  BY <1>2, <1>3, FS_CardinalityType, FS_EmptySet
<1>5. QED
  BY <1>2, <1>4

LEMMA WrapInt ==
  ASSUME NEW n \in Int
  PROVE  Wrap(n) \in Int
<1>1. 2 ^ IntBits \in Nat \ {0} /\ 2 ^ (IntBits - 1) \in Nat \ {0}
  BY IntBitsAssumption, PowerOfTwo
<1>2. ASSUME NEW x, NEW y, x \in Nat \ {0}, y \in Nat \ {0} PROVE ((n - (-y)) % x) + (-y) \in Int
  BY <1>2
<1>3. QED
  BY <1>1, <1>2 DEF Wrap, MinInt

LEMMA UnsignedInt ==
  ASSUME NEW n \in Int
  PROVE  Unsigned(n) \in Nat
<1>1. 2 ^ IntBits \in Nat \ {0}
  BY IntBitsAssumption, PowerOfTwo
<1>2. ASSUME NEW x \in Nat \ {0} PROVE n % x \in Nat
  OBVIOUS
<1>3. QED
  BY <1>1, <1>2 DEF Unsigned

LEMMA SumExists ==
  ASSUME NEW f, NEW n \in Nat
  PROVE  \E s : s = [k \in 0 .. n |-> IF k = 0 THEN 0 ELSE s[k - 1] + f[k]]
<1>. DEFINE Is(s, m) == s = [k \in 0 .. m |-> IF k = 0 THEN 0 ELSE s[k - 1] + f[k]]
            Bad == {m \in Nat : ~\E s : Is(s, m)}
<1>1. ASSUME Bad # {} PROVE FALSE
  <2>1. PICK m \in Bad : \A y \in Bad : m <= y
    BY <1>1, LeastOf
  <2>2. CASE m = 0
    <3>. DEFINE s == [k \in 0 .. 0 |-> 0]
    <3>1. s = [k \in 0 .. 0 |-> IF k = 0 THEN 0 ELSE s[k - 1] + f[k]]
      OBVIOUS
    <3>. HIDE DEF s
    <3>2. Is(s, m)
      BY <2>2, <3>1
    <3>3. QED
      BY <2>1, <3>2
  <2>3. CASE m # 0
    <3>1. m - 1 \in Nat /\ ~(m <= m - 1)
      BY <2>1, <2>3
    <3>2. PICK s : Is(s, m - 1)
      BY <2>1, <3>1
    <3>. DEFINE t == [k \in 0 .. m |-> IF k = m THEN s[m - 1] + f[m] ELSE s[k]]
    <3>3. \A k \in 0 .. m : k \in Nat /\ (k # m => k \in 0 .. m - 1) /\ (k # 0 => k - 1 \in 0 .. m - 1)
      BY <2>1
    <3>4. \A k \in 0 .. m - 1 : t[k] = s[k] /\ s[k] = IF k = 0 THEN 0 ELSE s[k - 1] + f[k]
      <4>1. \A k \in 0 .. m - 1 : k \in 0 .. m /\ k # m
        BY <2>1
      <4>2. QED
        BY <3>2, <4>1
    <3>5. ASSUME NEW k \in 0 .. m PROVE t[k] = IF k = 0 THEN 0 ELSE t[k - 1] + f[k]
      <4>1. CASE k = m
        <5>1. t[k] = s[m - 1] + f[m] /\ k # 0 /\ k - 1 = m - 1
          BY <2>3, <4>1
        <5>2. t[k - 1] = s[k - 1]
          BY <3>3, <3>4, <5>1
        <5>. HIDE DEF t
        <5>3. QED
          BY <4>1, <5>1, <5>2
      <4>2. CASE k # m
        <5>1. t[k] = s[k] /\ s[k] = IF k = 0 THEN 0 ELSE s[k - 1] + f[k]
          BY <3>3, <3>4, <4>2
        <5>2. k # 0 => t[k - 1] = s[k - 1]
          BY <3>3, <3>4
        <5>. HIDE DEF t
        <5>3. QED
          BY <5>1, <5>2
      <4>3. QED
        BY <4>1, <4>2
    <3>6. t = [k \in 0 .. m |-> t[k]]
      OBVIOUS
    <3>. HIDE DEF t
    <3>7. Is(t, m)
      BY <3>5, <3>6
    <3>8. QED
      BY <2>1, <3>7
  <2>4. QED
    BY <2>2, <2>3
<1>2. \E s : Is(s, n)
  BY <1>1
<1>3. QED
  BY <1>2

LEMMA SumInt ==
  ASSUME NEW n \in Nat, NEW f \in [1 .. n -> Int]
  PROVE  FirstSum(f, n) \in Int
<1>. DEFINE Is(s) == s = [k \in 0 .. n |-> IF k = 0 THEN 0 ELSE s[k - 1] + f[k]]
            sum == CHOOSE s : Is(s)
            Bad == {k \in 0 .. n : sum[k] \notin Int}
<1>1. FirstSum(f, n) = sum[n]
  BY DEF FirstSum
<1>2. Is(sum)
  BY SumExists
<1>3. \A k \in 0 .. n : sum[k] = IF k = 0 THEN 0 ELSE sum[k - 1] + f[k]
  BY <1>2
<1>. HIDE DEF sum
<1>4. ASSUME Bad # {} PROVE FALSE
  <2>1. PICK k \in Bad : \A y \in Bad : k <= y
    <3>1. Bad \subseteq Nat
      OBVIOUS
    <3>2. QED
      BY <1>4, <3>1, LeastOf
  <2>2. k # 0
    BY <1>3, <2>1
  <2>3. k \in 1 .. n /\ k - 1 \in 0 .. n /\ ~(k <= k - 1)
    BY <2>1, <2>2
  <2>4. sum[k - 1] \in Int /\ f[k] \in Int
    BY <2>1, <2>3
  <2>5. sum[k] = sum[k - 1] + f[k] /\ k \in 0 .. n
    BY <1>3, <2>2, <2>3
  <2>6. sum[k] \in Int
    BY <2>4, <2>5
  <2>7. QED
    BY <2>1, <2>6
<1>5. QED
  BY <1>1, <1>4

LEMMA BitwiseInt ==
  ASSUME NEW a, NEW b, NEW f, f = [k \in 1 .. IntBits |-> f[k]],
         \A k \in 1 .. IntBits : f[k] = 2 ^ (k - 1) \/ f[k] = 0
  PROVE  Wrap(FirstSum(f, IntBits)) \in Int
<1>1. IntBits \in Nat /\ \A k \in 1 .. IntBits : k - 1 \in Nat
  BY IntBitsAssumption
<1>2. \A k \in 1 .. IntBits : f[k] \in Int
  BY <1>1, PowerOfTwo
<1>3. f \in [1 .. IntBits -> Int]
  BY <1>2
<1>4. QED
  BY <1>1, <1>3, SumInt, WrapInt

-----------------------------------------------------------------------------
(* Every operator and function of the library that returns an integer, for  *)
(* operands of any size: it is an integer or the program has ended (Crash).  *)
LEMMA DivisionInt ==
  ASSUME NEW a \in Int, NEW b \in Int, b # 0
  PROVE  DivFloor(a, b) \in Int /\ ModFloor(a, b) \in Int
<1>1. Magnitude(a) \in Nat /\ Magnitude(b) \in Nat \ {0}
  BY DEF Magnitude
<1>2. ASSUME NEW x \in Nat, NEW y \in Nat \ {0} PROVE x \div y \in Int
  OBVIOUS
<1>3. Quotient(a, b) \in Int
  BY <1>1, <1>2 DEF Quotient
<1>4. ASSUME NEW q \in Int PROVE b * q \in Int
  OBVIOUS
<1>5. Remainder(a, b) \in Int
  BY <1>3, <1>4 DEF Remainder
<1>6. QED
  BY <1>3, <1>5 DEF DivFloor, ModFloor

LEMMA ShiftInt ==
  ASSUME NEW a \in Int, NEW b \in Int
  PROVE  /\ Wrap(a * 2 ^ Count(b)) \in Int /\ a \div 2 ^ Count(b) \in Int
         /\ Wrap(Unsigned(a) \div 2 ^ Count(b)) \in Int
<1>1. 2 ^ Count(b) \in Nat \ {0}
  <2>1. b % IntBits \in Nat
    BY IntBitsAssumption
  <2>2. QED
    BY <2>1, PowerOfTwo DEF Count
<1>2. ASSUME NEW x \in Int, NEW y \in Nat \ {0} PROVE x * y \in Int /\ x \div y \in Int
  OBVIOUS
<1>3. Unsigned(a) \in Int
  BY UnsignedInt
<1>4. QED
  BY <1>1, <1>2, <1>3, WrapInt

LEMMA BitsInt ==
  ASSUME NEW a, NEW b
  PROVE  /\ IntArithmetic("&", a, b) \in Int /\ IntArithmetic("^", a, b) \in Int
         /\ IntArithmetic("|", a, b) \in Int
<1>1. Bitwise2(a, b, LAMBDA x, y : x /\ y) \in Int
  BY BitwiseInt DEF Bitwise2
<1>2. Bitwise2(a, b, LAMBDA x, y : x # y) \in Int
  BY BitwiseInt DEF Bitwise2
<1>3. Bitwise2(a, b, LAMBDA x, y : x \/ y) \in Int
  BY BitwiseInt DEF Bitwise2
<1>4. QED
  BY <1>1, <1>2, <1>3 DEF IntArithmetic

LEMMA ArithmeticInt ==
  ASSUME NEW op \in IntBinaries, NEW a \in Int, NEW b \in Int, op \in {"//", "%"} => b # 0
  PROVE  IntArithmetic(op, a, b) \in Int
<1>1. CASE op \in {"&", "^", "|"}
  BY <1>1, BitsInt
<1>2. CASE op \in {"//", "%"}
  BY <1>2, DivisionInt DEF IntArithmetic
<1>3. CASE op \in {"<<", ">>", ">>>"}
  BY <1>3, ShiftInt DEF IntArithmetic
<1>4. CASE op \in {"+", "-", "*"}
  <2>1. a + b \in Int /\ a - b \in Int /\ a * b \in Int
    OBVIOUS
  <2>2. QED
    BY <1>4, <2>1, WrapInt DEF IntArithmetic
<1>5. QED
  BY <1>1, <1>2, <1>3, <1>4 DEF IntBinaries

LEMMA UnaryInt ==
  ASSUME NEW op \in IntUnaries, NEW a \in Int
  PROVE  IntUnary(op, a) \in Int
<1>1. -a \in Int /\ -a - 1 \in Int /\ Magnitude(a) \in Int
  BY DEF Magnitude
<1>2. QED
  BY <1>1, WrapInt DEF IntUnary, IntUnaries

LEMMA ConstValued ==
  /\ Valued(Error) /\ Valued(Crash)
  /\ \A kind, n : n \in Int => Valued(Const(kind, n))
  /\ \A kind, rows, cols : Valued(Matrix(kind, rows, cols))
  /\ \A b : Valued(Bool(b))
BY DEF Valued, Error, Crash, Const, Matrix, Bool, IsConst

LEMMA ComputedValued ==
  ASSUME NEW k \in DOMAIN Functions, NEW n \in Nat, n = Len(Functions[k].params),
         NEW x, x \in [1 .. n -> Int]
  PROVE  Valued(Computed(Functions[k].name, Functions[k].result, x))
<1>. DEFINE op == Functions[k].name
            result == Functions[k].result
<1>1. x \in Seq(Int) /\ Len(x) = n
  OBVIOUS
<1>2. CASE op = "?:"
  <2>1. n = 3
    BY <1>2, FunctionsAssumption
  <2>2. x[2] \in Int /\ x[3] \in Int
    BY <2>1
  <2>3. QED
    BY <1>2, <2>2, ConstValued DEF Computed, Comparisons
<1>3. CASE op # "?:" /\ result = "int"
  <2>1. \/ n = 1 /\ op \in IntUnaries
        \/ n = 2 /\ op \in IntBinaries
    BY <1>3, FunctionsAssumption
  <2>2. Computed(op, result, x) = ComputedInt(op, x)
    BY <1>3, <2>1 DEF Computed, IntUnaries, IntBinaries, Comparisons
  <2>3. CASE n = 1 /\ op \in IntUnaries
    <3>1. x[1] \in Int
      BY <2>3
    <3>2. QED
      BY <1>1, <2>2, <2>3, <3>1, UnaryInt, ConstValued DEF ComputedInt
  <2>4. CASE n = 2 /\ op \in IntBinaries
    <3>1. x[1] \in Int /\ x[2] \in Int
      BY <2>4
    <3>2. CASE op \in {"//", "%"} /\ Traps(x[1], x[2])
      BY <1>1, <2>2, <2>4, <3>2, ConstValued DEF ComputedInt
    <3>3. CASE ~(op \in {"//", "%"} /\ Traps(x[1], x[2]))
      <4>1. IntArithmetic(op, x[1], x[2]) \in Int
        BY <2>4, <3>1, <3>3, ArithmeticInt DEF Traps
      <4>2. QED
        BY <1>1, <2>2, <2>4, <3>3, <4>1, ConstValued DEF ComputedInt
    <3>4. QED
      BY <3>2, <3>3
  <2>5. QED
    BY <2>1, <2>3, <2>4
<1>4. CASE op # "?:" /\ result # "int"
  BY <1>4, ConstValued DEF Computed, Comparisons
<1>5. QED
  BY <1>2, <1>3, <1>4

LEMMA PromoteValued ==
  ASSUME NEW v, Valued(v), NEW type
  PROVE  Valued(Promote(v, type))
<1>1. IsConst(v) => v.value \in Int
  BY DEF Valued
<1>2. Converts(v, type) => IsConst(v)
  BY DEF Converts
<1>3. Converts(v, type) => Valued(Converted(v, type))
  BY <1>1, <1>2, ConstValued DEF Converted
<1>4. QED
  BY <1>3, ConstValued DEF Promote

LEMMA CallValued ==
  ASSUME NEW args, IsList(args), \A i \in DOMAIN args : Valued(args[i]), NEW name
  PROVE  Valued(Call(Functions, name, args))
<1>. DEFINE k == Resolve(Functions, name, args)
            f == Functions[k]
            new == PromotedArgs(args, f.params)
            x == [i \in DOMAIN new |-> new[i].value]
            n == Len(f.params)
<1>1. CASE Applicable(Functions, name, args) = {}
  BY <1>1, ConstValued DEF Call
<1>2. CASE Applicable(Functions, name, args) # {}
  <2>1. k \in DOMAIN Functions /\ Takes(f.params, args)
    BY <1>2, ResolveApplicable, FunctionsAssumption
  <2>2. n \in Nat /\ Len(args) = n /\ DOMAIN args = 1 .. n
    BY <2>1, ListFacts DEF Takes
  <2>3. DOMAIN new = 1 .. n /\ \A i \in 1 .. n : Valued(new[i])
    BY <2>2, PromoteValued DEF PromotedArgs
  <2>4. Call(Functions, name, args) = CallImpl(f, new)
    BY <1>2 DEF Call
  <2>. HIDE DEF new, k
  <2>5. CASE \A i \in DOMAIN new : IsConst(new[i])
    <3>1. \A i \in 1 .. n : new[i].value \in Int
      BY <2>3, <2>5 DEF Valued
    <3>2. x \in [1 .. n -> Int]
      BY <2>3, <3>1
    <3>3. CallImpl(f, new) = Computed(f.name, f.result, x)
      BY <2>5 DEF CallImpl
    <3>. HIDE DEF x
    <3>4. QED
      BY <2>1, <2>2, <2>4, <3>2, <3>3, ComputedValued
  <2>6. CASE ~\A i \in DOMAIN new : IsConst(new[i])
    BY <2>4, <2>6, ConstValued DEF CallImpl
  <2>7. QED
    BY <2>5, <2>6
<1>3. QED
  BY <1>1, <1>2

-----------------------------------------------------------------------------
(* A table holds no constant without an integer.                           *)
Table(m)  == DOMAIN m = Names /\ \A n \in Names : m[n] # Absent => Valued(m[n].value)
Tables(s) == \A i \in 1 .. Len(s) : "mappings" \in DOMAIN s[i] /\ Table(s[i].mappings)

LEMMA InitialTable == Table(InitialMappings)
<1>1. ASSUME NEW n \in Names, InitialMappings[n] # Absent PROVE Valued(InitialMappings[n].value)
  <2>1. n \in DOMAIN Mappings /\ InitialMappings[n] = Entry(Mappings[n], 0)
    BY <1>1 DEF InitialMappings
  <2>2. QED
    BY <2>1, ExpressionsAssumption DEF Entry
<1>2. DOMAIN InitialMappings = Names
  BY DEF InitialMappings
<1>3. QED
  BY <1>1, <1>2 DEF Table

LEMMA AddedTable ==
  ASSUME NEW m, Table(m), NEW name, NEW v, Valued(v), NEW position
  PROVE  Table(TableAdd(m, name, v, position))
<1>. DEFINE t == TableAdd(m, name, v, position)
<1>1. DOMAIN t = Names
  BY DEF TableAdd, Table
<1>2. \A n \in Names : t[n] = m[n] \/ t[n] = Entry(v, position)
  BY DEF TableAdd, Table
<1>3. Entry(v, position).value = v
  BY DEF Entry
<1>. HIDE DEF t
<1>4. ASSUME NEW n \in Names, t[n] # Absent PROVE Valued(t[n].value)
  <2>1. CASE t[n] = m[n]
    BY <1>4, <2>1 DEF Table
  <2>2. CASE t[n] = Entry(v, position)
    BY <1>3, <2>2
  <2>3. QED
    BY <1>2, <2>1, <2>2
<1>5. QED
  BY <1>1, <1>4 DEF Table, t

LEMMA NamedValued ==
  ASSUME NEW m, Table(m), NEW name, Lower(name) \in Names
  PROVE  Valued(ResolveName(m, name))
BY ConstValued DEF Table, ResolveName

LEMMA SimpleValued ==
  ASSUME NEW m, Table(m), NEW e, IsSimple(e)
  PROVE  Valued(SimpleValue(m, e))
<1>1. ASSUME NEW v, Valued(v) PROVE Valued(OnlyFromVersion11(v))
  BY <1>1, ConstValued DEF OnlyFromVersion11
<1>2. CASE e.node = "literal"
  BY <1>1, <1>2 DEF SimpleValue, IsSimple
<1>3. CASE e.node = "identifier"
  BY <1>1, <1>3, NamedValued DEF SimpleValue, IsSimple
<1>4. CASE e.node = "index"
  <2>. DEFINE v == ResolveName(m, e.name)
  <2>1. Valued(v)
    BY <1>4, NamedValued DEF IsSimple
  <2>. HIDE DEF v
  <2>2. Valued(Indexed(v, e.ranges))
    <3>1. CASE IsRefs(v)
      <4>1. ASSUME NEW w PROVE Valued([v EXCEPT !.index = w])
        BY <2>1, <3>1 DEF Valued, IsRefs, IsConst
      <4>2. QED
        BY <4>1, ConstValued DEF Indexed
    <3>2. CASE ~IsRefs(v)
      BY <3>2, ConstValued DEF Indexed
    <3>3. QED
      BY <3>1, <3>2
  <2>3. SimpleValue(m, e) = OnlyFromVersion11(Indexed(v, e.ranges))
    BY <1>4 DEF SimpleValue, v
  <2>4. QED
    BY <1>1, <2>2, <2>3
<1>5. QED
  BY <1>2, <1>3, <1>4 DEF IsSimple

LEMMA ExpressionValued ==
  ASSUME NEW m, Table(m), NEW e, IsExpression(e)
  PROVE  Valued(AnalyzeExpression(m, e))
<1>1. ASSUME NEW v, Valued(v) PROVE Valued(OnlyFromVersion11(v))
  BY <1>1, ConstValued DEF OnlyFromVersion11
<1>2. CASE e.node = "matrix"
  <2>1. ASSUME NEW elements, NEW rows, NEW cols PROVE Valued(MatrixOf(elements, rows, cols))
    BY ConstValued DEF MatrixOf
  <2>2. Valued(MatrixValue(m, e.rows))
    BY <2>1, ConstValued DEF MatrixValue
  <2>3. AnalyzeExpression(m, e) = MatrixValue(m, e.rows)
    BY <1>2 DEF AnalyzeExpression
  <2>4. QED
    BY <2>2, <2>3
<1>3. CASE e.node = "call"
  <2>. DEFINE args == [i \in DOMAIN e.args |-> SimpleValue(m, e.args[i])]
              name == Lower(e.name)
  <2>1. IsList(e.args) /\ \A a \in Range(e.args) : IsSimple(a)
    BY <1>3 DEF IsExpression, IsSimple
  <2>2. \A i \in DOMAIN args : Valued(args[i])
    <3>1. \A i \in DOMAIN e.args : e.args[i] \in Range(e.args)
      BY DEF Range
    <3>2. QED
      BY <2>1, <3>1, SimpleValued
  <2>3. IsList(args)
    BY <2>1, MappedList
  <2>4. AnalyzeExpression(m, e) = FunctionValue(name, args)
    BY <1>3 DEF AnalyzeExpression
  <2>. HIDE DEF args, name
  <2>5. CASE FirstFailure(args) = Absent
    BY <1>1, <2>2, <2>3, <2>4, <2>5, CallValued DEF FunctionValue
  <2>6. CASE FirstFailure(args) # Absent
    <3>. DEFINE bad == {i \in DOMAIN args : Failed(args[i])}
    <3>1. bad # {} /\ FirstFailure(args) = args[Min(bad)]
      BY <2>6 DEF FirstFailure
    <3>2. bad \subseteq Nat /\ bad \subseteq DOMAIN args
      BY <2>3, ListFacts
    <3>. HIDE DEF bad
    <3>3. Min(bad) \in DOMAIN args
      BY <3>1, <3>2, MinInSet
    <3>4. QED
      BY <2>2, <2>4, <2>6, <3>1, <3>3 DEF FunctionValue
  <2>7. QED
    BY <2>5, <2>6
<1>4. CASE IsSimple(e)
  BY <1>4, SimpleValued DEF AnalyzeExpression, IsSimple
<1>5. QED
  BY <1>2, <1>3, <1>4 DEF IsExpression

LEMMA ConstantInt ==
  ASSUME NEW m, Table(m), NEW e, IsExpression(e), Positive(AnalyzeAsConstInt(m, e))
  PROVE  AnalyzeAsConstInt(m, e).value \in Nat \ {0}
<1>. DEFINE v == AnalyzeAs(m, e, ScalarType("int", FALSE))
<1>1. Valued(v)
  BY ExpressionValued, PromoteValued DEF AnalyzeAs, PromoteUnlessFailed
<1>2. ~Failed(ConstantOf(v)) /\ ConstantOf(v).value >= 1
  BY DEF Positive, AnalyzeAsConstInt
<1>. HIDE DEF v
<1>3. IsConst(v) /\ ConstantOf(v) = v
  BY <1>2 DEF ConstantOf, Failed, Error
<1>4. v.value \in Int
  BY <1>1, <1>3 DEF Valued
<1>5. AnalyzeAsConstInt(m, e) = v
  BY <1>3 DEF AnalyzeAsConstInt, v
<1>6. QED
  BY <1>2, <1>3, <1>4, <1>5

-----------------------------------------------------------------------------
(* The tables of the scopes.                                               *)
AddedVariable(table, names, at, type, i) ==
  TableAdd(table, names[i], VariableRef(IdentifierAt(at, i), type), 0)

DeclaredOf(table, names, at, type, n) ==
  CHOOSE f : f = [i \in 0 .. n |->
                    IF i = 0 THEN table ELSE AddedVariable(f[i - 1], names, at, type, i)]

LEMMA DeclaredExist ==
  ASSUME NEW table, NEW names, NEW at, NEW type, NEW n \in Nat
  PROVE  \E f : f = [i \in 0 .. n |->
                       IF i = 0 THEN table ELSE AddedVariable(f[i - 1], names, at, type, i)]
<1>. DEFINE Next1(t, i) == AddedVariable(t, names, at, type, i)
            Is(f, m) == f = [i \in 0 .. m |-> IF i = 0 THEN table ELSE Next1(f[i - 1], i)]
            Bad == {m \in Nat : ~\E f : Is(f, m)}
<1>. HIDE DEF Next1
<1>1. ASSUME Bad # {} PROVE FALSE
  <2>1. PICK m \in Bad : \A y \in Bad : m <= y
    BY <1>1, LeastOf
  <2>2. CASE m = 0
    <3>. DEFINE f == [i \in 0 .. 0 |-> table]
    <3>1. f = [i \in 0 .. 0 |-> IF i = 0 THEN table ELSE Next1(f[i - 1], i)]
      OBVIOUS
    <3>. HIDE DEF f
    <3>2. Is(f, m)
      BY <2>2, <3>1
    <3>3. QED
      BY <2>1, <3>2
  <2>3. CASE m # 0
    <3>1. m - 1 \in Nat /\ ~(m <= m - 1)
      BY <2>1, <2>3
    <3>2. PICK f : Is(f, m - 1)
      BY <2>1, <3>1
    <3>. DEFINE g == [i \in 0 .. m |-> IF i = m THEN Next1(f[m - 1], m) ELSE f[i]]
    <3>3. \A i \in 0 .. m : i \in Nat /\ (i # m => i \in 0 .. m - 1) /\ (i # 0 => i - 1 \in 0 .. m - 1)
      BY <2>1
    <3>4. \A i \in 0 .. m - 1 : g[i] = f[i] /\ f[i] = IF i = 0 THEN table ELSE Next1(f[i - 1], i)
      <4>1. \A i \in 0 .. m - 1 : i \in 0 .. m /\ i # m
        BY <2>1
      <4>2. QED
        BY <3>2, <4>1
    <3>5. ASSUME NEW i \in 0 .. m PROVE g[i] = IF i = 0 THEN table ELSE Next1(g[i - 1], i)
      <4>1. CASE i = m
        <5>1. g[i] = Next1(f[m - 1], m) /\ i # 0 /\ i - 1 = m - 1
          BY <2>3, <4>1
        <5>2. g[i - 1] = f[i - 1]
          BY <3>3, <3>4, <5>1
        <5>. HIDE DEF g
        <5>3. QED
          BY <4>1, <5>1, <5>2
      <4>2. CASE i # m
        <5>1. g[i] = f[i] /\ f[i] = IF i = 0 THEN table ELSE Next1(f[i - 1], i)
          BY <3>3, <3>4, <4>2
        <5>2. i # 0 => g[i - 1] = f[i - 1]
          BY <3>3, <3>4
        <5>. HIDE DEF g
        <5>3. QED
          BY <5>1, <5>2
      <4>3. QED
        BY <4>1, <4>2
    <3>6. g = [i \in 0 .. m |-> g[i]]
      OBVIOUS
    <3>. HIDE DEF g
    <3>7. Is(g, m)
      BY <3>5, <3>6
    <3>8. QED
      BY <2>1, <3>7
  <2>4. QED
    BY <2>2, <2>3
<1>2. \E f : Is(f, n)
  BY <1>1
<1>3. QED
  BY <1>2 DEF Next1

LEMMA DeclaredSteps ==
  ASSUME NEW table, NEW names, NEW at, NEW type, NEW n \in Nat
  PROVE  \A i \in 0 .. n :
           DeclaredOf(table, names, at, type, n)[i] =
             IF i = 0 THEN table
             ELSE AddedVariable(DeclaredOf(table, names, at, type, n)[i - 1], names, at, type, i)
<1>. DEFINE f == DeclaredOf(table, names, at, type, n)
<1>1. f = [i \in 0 .. n |-> IF i = 0 THEN table ELSE AddedVariable(f[i - 1], names, at, type, i)]
  BY DeclaredExist DEF DeclaredOf
<1>. HIDE DEF f
<1>2. \A i \in 0 .. n : f[i] = IF i = 0 THEN table ELSE AddedVariable(f[i - 1], names, at, type, i)
  BY <1>1
<1>3. QED
  BY <1>2 DEF f

LEMMA DeclaredTable ==
  ASSUME NEW table, Table(table), NEW names, IsList(names), NEW at, NEW type
  PROVE  Table(DeclareIn(table, names, at, type))
<1>. DEFINE n == Len(names)
            f == DeclaredOf(table, names, at, type, n)
            Bad == {i \in 0 .. n : ~Table(f[i])}
<1>1. n \in Nat
  BY ListFacts
<1>2. DeclareIn(table, names, at, type) = f[n]
  BY DEF DeclareIn, DeclaredOf, AddedVariable
<1>. HIDE DEF n
<1>4. \A i \in 0 .. n : f[i] = IF i = 0 THEN table
                              ELSE AddedVariable(f[i - 1], names, at, type, i)
  BY <1>1, DeclaredSteps
<1>. HIDE DEF f
<1>5. \A i : Valued(VariableRef(IdentifierAt(at, i), type))
  BY DEF Valued, VariableRef, IsConst
<1>6. ASSUME Bad # {} PROVE FALSE
  <2>1. PICK i \in Bad : \A j \in Bad : i <= j
    <3>1. Bad \subseteq Nat
      BY <1>1
    <3>2. QED
      BY <1>6, <3>1, LeastOf
  <2>2. i # 0
    BY <1>4, <2>1
  <2>3. i \in 0 .. n /\ i - 1 \in 0 .. n /\ ~(i <= i - 1)
    BY <1>1, <2>1, <2>2
  <2>4. Table(f[i - 1])
    BY <2>1, <2>3
  <2>5. Table(f[i])
    BY <1>4, <1>5, <2>2, <2>3, <2>4, AddedTable DEF AddedVariable
  <2>6. QED
    BY <2>1, <2>5
<1>7. QED
  BY <1>1, <1>2, <1>6

-----------------------------------------------------------------------------
(* What is done to the scopes keeps their tables.                           *)
LEMMA TablesPush ==
  ASSUME NEW s, NEW h, Nested(s, h), Tables(s), NEW loop
  PROVE  Tables(PushScope(s, loop))
<1>. DEFINE x == [s[Len(s)] EXCEPT !.block = <<>>, !.within_loop = @ \/ loop]
            t == Append(s, x)
<1>1. IsList(s) /\ Len(s) \in 1 .. Len(s) /\ Len(s) \in Nat
  BY NestedNotEmpty DEF Nested
<1>2. "mappings" \in DOMAIN s[Len(s)] /\ Table(s[Len(s)].mappings)
  BY <1>1 DEF Tables
<1>3. "mappings" \in DOMAIN x /\ x.mappings = s[Len(s)].mappings
  BY <1>2
<1>4. PushScope(s, loop) = t
  BY DEF PushScope
<1>. HIDE DEF x
<1>5. /\ Len(t) = Len(s) + 1 /\ t[Len(s) + 1] = x
      /\ \A i \in 1 .. Len(s) : t[i] = s[i]
  BY <1>1, AppendToList
<1>. HIDE DEF t
<1>6. \A i \in 1 .. Len(t) : i \in 1 .. Len(s) \/ i = Len(s) + 1
  BY <1>1, <1>5
<1>7. Tables(t)
  BY <1>2, <1>3, <1>5, <1>6 DEF Tables
<1>8. QED
  BY <1>4, <1>7

LEMMA TablesPop ==
  ASSUME NEW s, NEW h, Nested(s, h), Tables(s)
  PROVE  Tables(PopScope(s))
<1>1. IsList(s) /\ s # <<>> /\ Len(s) \in Nat
  BY NestedNotEmpty DEF Nested
<1>2. Len(Front(s)) = Len(s) - 1 /\ \A i \in 1 .. Len(s) - 1 : Front(s)[i] = s[i]
  BY <1>1, FrontOfList
<1>3. \A i \in 1 .. Len(s) - 1 : i \in 1 .. Len(s)
  BY <1>1
<1>4. QED
  BY <1>2, <1>3 DEF Tables, PopScope

LEMMA TablesLast ==
  ASSUME NEW s, NEW h, Nested(s, h), Tables(s), NEW x,
         "mappings" \in DOMAIN x, Table(x.mappings)
  PROVE  Tables([s EXCEPT ![Len(s)] = x])
<1>. DEFINE t == [s EXCEPT ![Len(s)] = x]
<1>1. IsList(s) /\ s # <<>> /\ Len(s) \in Nat \ {0}
  BY NestedNotEmpty DEF Nested
<1>2. /\ Len(t) = Len(s) /\ t[Len(s)] = x
      /\ \A i \in 1 .. Len(s) - 1 : t[i] = s[i]
  BY <1>1, ReplaceLast
<1>. HIDE DEF t
<1>3. \A i \in 1 .. Len(t) : i = Len(s) \/ (i \in 1 .. Len(s) - 1 /\ i \in 1 .. Len(s))
  BY <1>1, <1>2
<1>4. Tables(t)
  BY <1>2, <1>3 DEF Tables
<1>5. QED
  BY <1>4 DEF t

LEMMA TablesMapping ==
  ASSUME NEW s, NEW h, Nested(s, h), Tables(s), NEW m, Table(m)
  PROVE  Tables([s EXCEPT ![Len(s)].mappings = m])
<1>. DEFINE x == [s[Len(s)] EXCEPT !.mappings = m]
<1>1. Len(s) \in 1 .. Len(s)
  BY NestedNotEmpty
<1>2. "mappings" \in DOMAIN s[Len(s)]
  BY <1>1 DEF Tables
<1>3. "mappings" \in DOMAIN x /\ x.mappings = m
  BY <1>2
<1>4. [s EXCEPT ![Len(s)].mappings = m] = [s EXCEPT ![Len(s)] = x]
  OBVIOUS
<1>. HIDE DEF x
<1>5. QED
  BY <1>3, <1>4, TablesLast

LEMMA TablesInScope ==
  ASSUME NEW s, NEW h, Nested(s, h), Tables(s), NEW b
  PROVE  Tables([s EXCEPT ![Len(s)].block = @ \o b])
<1>. DEFINE x == [s[Len(s)] EXCEPT !.block = @ \o b]
<1>1. Len(s) \in 1 .. Len(s)
  BY NestedNotEmpty
<1>2. "mappings" \in DOMAIN s[Len(s)] /\ Table(s[Len(s)].mappings)
  BY <1>1 DEF Tables
<1>3. "mappings" \in DOMAIN x /\ x.mappings = s[Len(s)].mappings
  BY <1>2
<1>4. [s EXCEPT ![Len(s)].block = @ \o b] = [s EXCEPT ![Len(s)] = x]
  OBVIOUS
<1>. HIDE DEF x
<1>5. QED
  BY <1>2, <1>3, <1>4, TablesLast

(* A subcircuit is repeated once at least.                                 *)
Repeats(sub)  == "iterations" \in DOMAIN sub /\ sub.iterations \in Nat \ {0}
Repeating(r) == /\ "version" \in DOMAIN r /\ "subcircuits" \in DOMAIN r /\ IsList(r.subcircuits)
                /\ \A i \in 1 .. Len(r.subcircuits) : Repeats(r.subcircuits[i])

LEMMA RepeatingInRoot ==
  ASSUME NEW r, Repeating(r), NEW b
  PROVE  Repeating([r EXCEPT !.subcircuits =
                      [CurrentSubcircuits(r) EXCEPT
                         ![Len(CurrentSubcircuits(r))].body = @ \o b]])
<1>. DEFINE subs == CurrentSubcircuits(r)
            last == subs[Len(subs)]
            x == [last EXCEPT !.body = @ \o b]
            new == [subs EXCEPT ![Len(subs)] = x]
            q == [r EXCEPT !.subcircuits = new]
<1>1. IsList(subs) /\ subs # <<>> /\ \A i \in 1 .. Len(subs) : Repeats(subs[i])
  <2>1. CASE r.subcircuits = <<>>
    <3>. DEFINE sub == Subcircuit("", 1)
    <3>1. Repeats(sub)
      BY DEF Subcircuit, Repeats
    <3>. HIDE DEF sub
    <3>2. CurrentSubcircuits(r) = <<sub>>
      BY <2>1 DEF CurrentSubcircuits, sub
    <3>3. IsList(<<sub>>) /\ <<sub>> # <<>> /\ Len(<<sub>>) = 1
      BY DEF IsList, Range
    <3>4. \A i \in 1 .. Len(<<sub>>) : (<<sub>>)[i] = sub
      BY <3>3
    <3>5. QED
      BY <3>1, <3>2, <3>3, <3>4
  <2>2. CASE r.subcircuits # <<>>
    BY <2>2 DEF CurrentSubcircuits, Repeating
  <2>3. QED
    BY <2>1, <2>2
<1>2. [r EXCEPT !.subcircuits = [CurrentSubcircuits(r) EXCEPT
                                   ![Len(CurrentSubcircuits(r))].body = @ \o b]] = q
  OBVIOUS
<1>. HIDE DEF subs
<1>3. Len(subs) \in Nat \ {0} /\ Len(subs) \in 1 .. Len(subs)
  BY <1>1 DEF IsList
<1>4. Repeats(x)
  BY <1>1, <1>3 DEF Repeats
<1>. HIDE DEF x
<1>5. /\ IsList(new) /\ Len(new) = Len(subs) /\ new[Len(subs)] = x
      /\ \A i \in 1 .. Len(subs) - 1 : new[i] = subs[i]
  BY <1>1, ReplaceLast
<1>. HIDE DEF new
<1>6. \A i \in 1 .. Len(new) : i = Len(subs) \/ (i \in 1 .. Len(subs) - 1 /\ i \in 1 .. Len(subs))
  BY <1>3, <1>5
<1>7. \A i \in 1 .. Len(new) : Repeats(new[i])
  BY <1>1, <1>4, <1>5, <1>6
<1>8. "version" \in DOMAIN q /\ "subcircuits" \in DOMAIN q /\ q.subcircuits = new
  BY DEF Repeating
<1>. HIDE DEF q
<1>9. Repeating(q)
  BY <1>5, <1>7, <1>8 DEF Repeating
<1>10. QED
  BY <1>2, <1>9

LEMMA TypedAdded ==
  ASSUME NEW r, Repeating(r), NEW s, NEW h, Nested(s, h), Tables(s), NEW b
  PROVE  LET after == AddToCurrentBlock(r, s, b)
         IN  /\ Repeating(after.root) /\ after.root.version = r.version
             /\ Tables(after.scopes)
<1>. DEFINE t == [s EXCEPT ![Len(s)].block = @ \o b]
            q == [r EXCEPT !.subcircuits =
                    [CurrentSubcircuits(r) EXCEPT
                       ![Len(CurrentSubcircuits(r))].body = @ \o b]]
<1>1. Tables(t) /\ Repeating(q)
  BY TablesInScope, RepeatingInRoot
<1>2. q.version = r.version
  BY DEF Repeating
<1>3. AddToCurrentBlock(r, s, b) \in
        {[root |-> r, scopes |-> s], [root |-> r, scopes |-> t], [root |-> q, scopes |-> s]}
  BY DEF AddToCurrentBlock
<1>. HIDE DEF t, q
<1>4. QED
  BY <1>1, <1>2, <1>3

-----------------------------------------------------------------------------
(* What the analysis notes beside its scopes, with the version and the tree.  *)
Booked ==
  /\ api \in ApiVersions /\ file \in FileVersions
  /\ phase \in {"new", "statements", "returned", "internal error", "crash"}
  /\ visits \in 0 .. MaxStatements /\ gotos \in Seq(STRING)

TypeInv == Booked /\ root.version \in 0 .. api /\ Repeating(root) /\ Tables(scope_stack)

LEMMA CurrentTable ==
  ASSUME IInv, TypeInv
  PROVE  Table(Current.mappings)
<1>1. Len(scope_stack) \in 1 .. Len(scope_stack)
  BY NestedNotEmpty DEF IInv
<1>2. QED
  BY <1>1 DEF TypeInv, Tables, Current

LEMMA VisitBooked ==
  ASSUME Booked, Visit, NEW n, NEW crashed, Report(n, crashed), UNCHANGED <<api, file>>,
         gotos' \in Seq(STRING)
  PROVE  Booked'
<1>1. visits' \in 0 .. MaxStatements
  BY ConstantsAssumption DEF Booked, Visit, Report
<1>2. QED
  BY <1>1 DEF Booked, Report

LEMMA AddTyped ==
  ASSUME IInv, TypeInv, Booked', UNCHANGED api, NEW b,
         Becomes(AddToCurrentBlock(root, scope_stack, b))
  PROVE  TypeInv'
<1>1. /\ Repeating(root) /\ Nested(scope_stack, handlers) /\ Tables(scope_stack)
      /\ root.version \in 0 .. api
  BY DEF IInv, TypeInv
<1>2. Repeating(root') /\ root'.version = root.version /\ Tables(scope_stack')
  BY <1>1, TypedAdded DEF Becomes
<1>3. QED
  BY <1>1, <1>2 DEF TypeInv

LEMMA SameRootTyped ==
  ASSUME TypeInv, Booked', UNCHANGED <<api, root>>, Tables(scope_stack')
  PROVE  TypeInv'
BY DEF TypeInv

LEMMA BundleStepTyped ==
  ASSUME IInv, TypeInv, NEW bundle \in Bundles, VisitBundle(bundle)
  PROVE  TypeInv'
<1>1. PICK b, n, crashed : /\ Becomes(AddToCurrentBlock(root, scope_stack, b))
                           /\ Report(n, crashed)
  BY DEF VisitBundle, VisitItems
<1>2. TargetsOf(bundle) \in Seq(STRING)
  <2>. DEFINE places == {i \in DOMAIN bundle : IsGoto(bundle[i]) /\ HasTarget(bundle[i])}
              jumps  == ElementsAt(bundle, places)
  <2>1. IsList(bundle) /\ places \subseteq DOMAIN bundle
    BY AlphabetAssumption
  <2>2. \A i \in places : bundle[i].operands[1].name \in STRING
    <3>1. ASSUME NEW i \in places PROVE bundle[i].operands[1].name \in STRING
      <4>. DEFINE operands == bundle[i].operands
      <4>1. Len(operands) = 1 /\ operands[1].node = "identifier"
        BY DEF HasTarget
      <4>2. bundle[i] \in Range(bundle)
        BY DEF Range
      <4>3. IsList(operands) /\ \A e \in Range(operands) : e.node = "identifier" => e.name \in STRING
        BY <4>2, AlphabetAssumption
      <4>4. operands[1] \in Range(operands)
        <5>1. DOMAIN operands = 1 .. 1
          BY <4>1, <4>3, ListFacts
        <5>2. QED
          BY <5>1 DEF Range
      <4>5. QED
        BY <4>1, <4>3, <4>4
    <3>2. QED
      BY <3>1
  <2>. HIDE DEF places
  <2>3. IsList(jumps) /\ \A x \in Range(jumps) : \E i \in places : x = bundle[i]
    BY <2>1, ElementsAtPlaces
  <2>4. TargetsOf(bundle) = [i \in DOMAIN jumps |-> jumps[i].operands[1].name]
    BY DEF TargetsOf, places
  <2>. HIDE DEF jumps
  <2>5. Len(jumps) \in Nat /\ DOMAIN jumps = 1 .. Len(jumps)
    BY <2>3, ListFacts
  <2>6. \A i \in 1 .. Len(jumps) : jumps[i].operands[1].name \in STRING
    <3>1. \A i \in 1 .. Len(jumps) : jumps[i] \in Range(jumps)
      BY <2>5 DEF Range
    <3>2. QED
      BY <2>2, <2>3, <3>1
  <2>7. QED
    BY <2>4, <2>5, <2>6
<1>3. gotos' \in Seq(STRING)
  <2>1. gotos \in Seq(STRING) /\ gotos' = gotos \o TargetsOf(bundle)
    BY DEF VisitBundle, TypeInv, Booked
  <2>2. QED
    BY <1>2, <2>1
<1>4. Booked'
  BY <1>1, <1>3, VisitBooked DEF VisitBundle, TypeInv
<1>5. UNCHANGED api
  BY DEF VisitBundle
<1>6. QED
  BY <1>1, <1>4, <1>5, AddTyped

LEMMA ErrorModelStepTyped ==
  ASSUME IInv, TypeInv, NEW operands, VisitErrorModel(operands)
  PROVE  TypeInv'
<1>1. PICK model : SetErrorModel(model) /\ Visit /\ UNCHANGED <<api, file, scope_stack, gotos>>
  BY DEF VisitErrorModel
<1>2. Booked'
  BY <1>1, VisitBooked DEF SetErrorModel, TypeInv, Booked
<1>3. /\ "version" \in DOMAIN root' /\ "subcircuits" \in DOMAIN root'
      /\ root'.version = root.version /\ root'.subcircuits = root.subcircuits
  BY <1>1 DEF SetErrorModel, TypeInv, Repeating
<1>4. QED
  BY <1>1, <1>2, <1>3 DEF TypeInv, Repeating, Tables

LEMMA MappingStepTyped ==
  ASSUME IInv, TypeInv, NEW decl \in MappingDecls, VisitMapping(decl)
  PROVE  TypeInv'
<1>. DEFINE v == AnalyzeExpression(Current.mappings, decl.expr)
            m == TableAdd(Current.mappings, decl.alias, v, visits + 1)
<1>1. MapTo(decl.alias, v) /\ Visit /\ UNCHANGED <<api, file, root, gotos>>
  BY DEF VisitMapping
<1>2. Table(m)
  BY CurrentTable, ExpressionValued, ExpressionsAssumption, AddedTable
<1>3. scope_stack' = scope_stack \/ scope_stack' = [scope_stack EXCEPT ![Len(scope_stack)].mappings = m]
  BY <1>1 DEF MapTo, Current
<1>4. \E n, crashed : Report(n, crashed)
  BY <1>1 DEF MapTo
<1>. HIDE DEF m, v
<1>5. Tables(scope_stack')
  BY <1>2, <1>3, TablesMapping DEF IInv, TypeInv
<1>6. Booked'
  BY <1>1, <1>4, VisitBooked DEF TypeInv, Booked
<1>7. QED
  BY <1>1, <1>5, <1>6, SameRootTyped

LEMMA VariablesStepTyped ==
  ASSUME IInv, TypeInv, NEW decl \in VariableDecls, VisitVariables(decl)
  PROVE  TypeInv'
<1>. DEFINE type == ScalarType(KindOfVariable[Lower(decl.type)], TRUE)
            m == DeclareIn(Current.mappings, decl.names, visits + 1, type)
<1>1. Visit /\ UNCHANGED <<api, file, gotos>> /\ \E n, crashed : Report(n, crashed)
  BY DEF VisitVariables
<1>2. Table(m)
  BY CurrentTable, AlphabetAssumption, DeclaredTable
<1>3. scope_stack' = scope_stack \/ scope_stack' = [scope_stack EXCEPT ![Len(scope_stack)].mappings = m]
  BY DEF VisitVariables, Current
<1>. HIDE DEF m
<1>4. Tables(scope_stack')
  BY <1>2, <1>3, TablesMapping DEF IInv, TypeInv
<1>5. Booked'
  BY <1>1, VisitBooked DEF TypeInv, Booked
<1>6. /\ "version" \in DOMAIN root' /\ "subcircuits" \in DOMAIN root'
      /\ root'.version = root.version /\ root'.subcircuits = root.subcircuits
  BY DEF VisitVariables, TypeInv, Repeating
<1>7. QED
  BY <1>1, <1>4, <1>5, <1>6 DEF TypeInv, Repeating

-----------------------------------------------------------------------------
(* The statements, blocks and branches that open, close or add subcircuits.  *)
LEMMA SubcircuitStepTyped ==
  ASSUME IInv, TypeInv, NEW decl \in SubcircuitDecls, VisitSubcircuit(decl)
  PROVE  TypeInv'
<1>. DEFINE n == IF decl.iterations = NoExpression THEN Const("int", 1)
                 ELSE AnalyzeAsConstInt(Current.mappings, decl.iterations)
            sub == Subcircuit(decl.name, n.value)
            new == Append(root.subcircuits, sub)
            q == [root EXCEPT !.subcircuits = new]
<1>1. /\ AddSubcircuit(decl.name, n) /\ Visit
      /\ UNCHANGED <<api, file, scope_stack, gotos>>
  BY DEF VisitSubcircuit
<1>2. Positive(n) => n.value \in Nat \ {0}
  <2>1. CASE decl.iterations = NoExpression
    BY <2>1 DEF Const
  <2>2. CASE decl.iterations # NoExpression
    BY <2>2, CurrentTable, ConstantInt, ExpressionsAssumption
  <2>3. QED
    BY <2>1, <2>2
<1>. HIDE DEF n
<1>3. \E m, crashed : Report(m, crashed)
  BY <1>1 DEF AddSubcircuit
<1>4. Booked'
  BY <1>1, <1>3, VisitBooked DEF TypeInv, Booked
<1>5. CASE ~(IsGlobal /\ Positive(n))
  <2>1. UNCHANGED root
    BY <1>1, <1>5 DEF AddSubcircuit
  <2>2. Tables(scope_stack')
    BY <1>1 DEF TypeInv
  <2>3. QED
    BY <1>1, <1>4, <2>1, <2>2, SameRootTyped
<1>6. CASE IsGlobal /\ Positive(n)
  <2>1. root' = q
    BY <1>1, <1>6 DEF AddSubcircuit
  <2>2. Repeats(sub)
    BY <1>2, <1>6 DEF Repeats, Subcircuit
  <2>. HIDE DEF sub
  <2>3. IsList(root.subcircuits) /\ \A i \in 1 .. Len(root.subcircuits) : Repeats(root.subcircuits[i])
    BY DEF TypeInv, Repeating
  <2>4. Len(root.subcircuits) \in Nat
    BY <2>3, ListFacts
  <2>5. /\ IsList(new) /\ Len(new) = Len(root.subcircuits) + 1
        /\ new[Len(root.subcircuits) + 1] = sub
        /\ \A i \in 1 .. Len(root.subcircuits) : new[i] = root.subcircuits[i]
    BY <2>3, AppendToList
  <2>. HIDE DEF new
  <2>6. \A i \in 1 .. Len(new) : i \in 1 .. Len(root.subcircuits) \/ i = Len(root.subcircuits) + 1
    BY <2>4, <2>5
  <2>7. \A i \in 1 .. Len(new) : Repeats(new[i])
    BY <2>2, <2>3, <2>5, <2>6
  <2>8. /\ "version" \in DOMAIN q /\ "subcircuits" \in DOMAIN q
        /\ q.subcircuits = new /\ q.version = root.version
    BY DEF TypeInv, Repeating
  <2>. HIDE DEF q
  <2>9. Repeating(q)
    BY <2>5, <2>7, <2>8 DEF Repeating
  <2>10. QED
    BY <1>1, <1>4, <2>1, <2>8, <2>9 DEF TypeInv
<1>7. QED
  BY <1>5, <1>6

LEMMA JumpStepTyped ==
  ASSUME IInv, TypeInv, NEW header, VisitJump(header)
  PROVE  TypeInv'
<1>1. /\ Visit /\ UNCHANGED <<api, file, gotos>> /\ \E n, crashed : Report(n, crashed)
      /\ \/ Becomes(AddToCurrentBlock(root, scope_stack, <<header>>))
         \/ Becomes(Unchanged)
  BY DEF VisitJump
<1>2. Booked'
  BY <1>1, VisitBooked DEF TypeInv, Booked
<1>3. CASE Becomes(Unchanged)
  BY <1>1, <1>2, <1>3 DEF TypeInv, Becomes, Unchanged
<1>4. QED
  BY <1>1, <1>2, <1>3, AddTyped

LEMMA OpenStepTyped ==
  ASSUME IInv, TypeInv, NEW header, Open(header)
  PROVE  TypeInv'
<1>1. PICK analyzed, failure : /\ OpenBlock(header, analyzed, failure) /\ Visit
                               /\ UNCHANGED <<api, file, root, gotos>>
  BY DEF Open, OpenAnalyzed
<1>2. \E n, crashed : Report(n, crashed)
  BY <1>1 DEF OpenBlock
<1>3. Booked'
  BY <1>1, <1>2, VisitBooked DEF TypeInv, Booked
<1>4. scope_stack' = scope_stack \/ scope_stack' = PushScope(scope_stack, IsLoop(header))
  BY <1>1 DEF OpenBlock
<1>5. Tables(scope_stack')
  BY <1>4, TablesPush DEF IInv, TypeInv
<1>6. QED
  BY <1>1, <1>3, <1>5, SameRootTyped

LEMMA PoppedTables ==
  ASSUME IInv, TypeInv, handlers # <<>>
  PROVE  Nested(Popped, Front(handlers)) /\ Tables(Popped)
BY PoppedStack, TablesPop DEF IInv, TypeInv, Popped

LEMMA ReturnTyped ==
  ASSUME IInv, TypeInv, handlers # <<>>, NEW b, Return(b), UNCHANGED <<api, file, gotos, visits>>,
         phase' \in {phase, "crash"}
  PROVE  TypeInv'
<1>1. /\ Repeating(root) /\ Nested(Popped, Front(handlers)) /\ Tables(Popped)
      /\ root.version \in 0 .. api
  BY PoppedTables DEF TypeInv
<1>2. Becomes(AddToCurrentBlock(root, Popped, b))
  BY DEF Return
<1>3. Repeating(root') /\ root'.version = root.version /\ Tables(scope_stack')
  BY <1>1, <1>2, TypedAdded DEF Becomes
<1>4. Booked'
  BY DEF TypeInv, Booked
<1>5. QED
  BY <1>1, <1>3, <1>4 DEF TypeInv

LEMMA BranchStepTyped ==
  ASSUME IInv, TypeInv, Visit, handlers # <<>>, \E n, crashed : Report(n, crashed),
         scope_stack' = Popped \/ scope_stack' = PushScope(Popped, FALSE),
         UNCHANGED <<api, file, root, gotos>>
  PROVE  TypeInv'
<1>1. Tables(scope_stack')
  BY PoppedTables, TablesPush
<1>2. Booked'
  BY VisitBooked DEF TypeInv, Booked
<1>3. QED
  BY <1>1, <1>2, SameRootTyped

LEMMA CloseTyped ==
  ASSUME IInv, TypeInv, CloseBlock
  PROVE  TypeInv'
<1>1. ASSUME NEW c \in Conditions, ElseIf(c) PROVE TypeInv'
  <2>1. PICK analyzed : /\ ElseIfAnalyzed(c, analyzed) /\ Visit /\ handlers # <<>>
                        /\ UNCHANGED <<api, file, root, gotos>>
    BY <1>1 DEF ElseIf, InBlock
  <2>2. \E n, crashed : Report(n, crashed)
    BY <2>1 DEF ElseIfAnalyzed
  <2>3. scope_stack' = Popped \/ scope_stack' = PushScope(Popped, FALSE)
    BY <2>1 DEF ElseIfAnalyzed, NextBlock
  <2>4. QED
    BY <2>1, <2>2, <2>3, BranchStepTyped
<1>2. CASE Else
  <2>1. /\ Visit /\ handlers # <<>> /\ Report(0, FALSE) /\ UNCHANGED <<api, file, root, gotos>>
        /\ scope_stack' = PushScope(Popped, FALSE)
    BY <1>2 DEF Else, InBlock, NextBlock
  <2>2. QED
    BY <2>1, BranchStepTyped
<1>3. CASE EndIf \/ EndFor \/ EndForeach \/ EndWhile
  <2>1. /\ handlers # <<>> /\ \E b : Return(b)
        /\ UNCHANGED <<api, file, gotos, phase, visits>>
    BY <1>3 DEF EndIf, EndFor, EndForeach, EndWhile, InBlock
  <2>2. QED
    BY <2>1, ReturnTyped
<1>4. ASSUME NEW c \in Conditions, EndRepeat(c) PROVE TypeInv'
  <2>1. /\ handlers # <<>> /\ \E b : Return(b)
        /\ UNCHANGED <<api, file, gotos, visits>> /\ phase' \in {phase, "crash"}
    BY <1>4 DEF EndRepeat, ReturnRepeat, InBlock
  <2>2. QED
    BY <2>1, ReturnTyped
<1>5. QED
  BY <1>1, <1>2, <1>3, <1>4 DEF CloseBlock

LEMMA StartStepTyped ==
  ASSUME TypeInv, NEW count, Start(count)
  PROVE  TypeInv'
<1>1. PICK n : StartWith(n)
  BY DEF Start
<1>2. Booked'
  BY <1>1 DEF StartWith, TypeInv, Booked
<1>3. /\ "version" \in DOMAIN root' /\ "subcircuits" \in DOMAIN root'
      /\ root'.version = (IF file > api THEN api ELSE file)
      /\ root'.subcircuits = root.subcircuits /\ UNCHANGED api
  BY <1>1 DEF StartWith, TypeInv, Repeating
<1>4. root'.version \in 0 .. api
  <2>1. file \in Nat /\ api \in Nat
    <3>1. ApiVersions \subseteq {10, 11, 12} /\ FileVersions \subseteq Nat
      BY ConstantsAssumption
    <3>2. file \in FileVersions /\ api \in ApiVersions
      BY DEF TypeInv, Booked
    <3>3. QED
      BY <3>1, <3>2
  <2>2. ASSUME NEW f \in Nat, NEW a \in Nat PROVE (IF f > a THEN a ELSE f) \in 0 .. a
    OBVIOUS
  <2>3. QED
    BY <1>3, <2>1, <2>2
<1>5. Repeating(root')
  BY <1>3 DEF TypeInv, Repeating
<1>6. Tables(scope_stack')
  <2>. DEFINE m == WithRegisters(InitialMappings, n.value)
              s == [GlobalScope EXCEPT !.mappings = m]
  <2>1. Table(m)
    <3>1. \A index : Valued(QubitRefs(index)) /\ Valued(BitRefs(index))
      BY DEF Valued, QubitRefs, BitRefs, IsConst
    <3>2. QED
      BY <3>1, InitialTable, AddedTable DEF WithRegisters
  <2>. HIDE DEF m
  <2>2. "mappings" \in DOMAIN GlobalScope /\ GlobalScope.mappings = InitialMappings
    BY DEF GlobalScope
  <2>3. "mappings" \in DOMAIN s /\ s.mappings = m
    BY <2>2
  <2>4. scope_stack' = <<GlobalScope>> \/ scope_stack' = <<s>>
    BY <1>1, <2>2 DEF StartWith, m
  <2>. HIDE DEF s
  <2>5. ASSUME NEW x, "mappings" \in DOMAIN x, Table(x.mappings) PROVE Tables(<<x>>)
    <3>1. Len(<<x>>) = 1 /\ \A i \in 1 .. 1 : (<<x>>)[i] = x
      OBVIOUS
    <3>2. QED
      BY <2>5, <3>1 DEF Tables
  <2>6. QED
    BY <2>1, <2>2, <2>3, <2>4, <2>5, InitialTable
<1>7. QED
  BY <1>2, <1>3, <1>4, <1>5, <1>6 DEF TypeInv

LEMMA FinishStepTyped ==
  ASSUME TypeInv, Finish
  PROVE  TypeInv'
<1>1. /\ UNCHANGED <<api, file, scope_stack, gotos, visits>>
      /\ phase' \in {"internal error", "returned"}
  BY DEF Finish
<1>2. /\ "version" \in DOMAIN root' /\ "subcircuits" \in DOMAIN root'
      /\ root'.version = root.version /\ root'.subcircuits = root.subcircuits
  BY DEF Finish, TypeInv, Repeating
<1>3. Booked'
  BY <1>1 DEF TypeInv, Booked
<1>4. QED
  BY <1>1, <1>2, <1>3 DEF TypeInv, Repeating

LEMMA TypeInit == Init => TypeInv
<1> SUFFICES ASSUME Init PROVE TypeInv
  OBVIOUS
<1>1. Booked
  <2>1. gotos \in Seq(STRING)
    BY DEF Init
  <2>2. visits \in 0 .. MaxStatements
    BY ConstantsAssumption DEF Init
  <2>3. QED
    BY <2>1, <2>2 DEF Init, Booked
<1>2. root.version \in 0 .. api
  BY ConstantsAssumption DEF Init, EmptyRoot
<1>3. Repeating(root)
  BY DEF Init, EmptyRoot, Repeating, IsList, Range
<1>4. Tables(scope_stack)
  <2>1. "mappings" \in DOMAIN GlobalScope /\ GlobalScope.mappings = InitialMappings
    BY DEF GlobalScope
  <2>2. Len(<<GlobalScope>>) = 1 /\ \A i \in 1 .. 1 : (<<GlobalScope>>)[i] = GlobalScope
    OBVIOUS
  <2>3. QED
    BY <2>1, <2>2, InitialTable DEF Init, Tables
<1>5. QED
  BY <1>1, <1>2, <1>3, <1>4 DEF TypeInv

LEMMA TypeNext ==
  ASSUME IInv, TypeInv, [Next]_vars
  PROVE  TypeInv'
<1>1. ASSUME NEW count \in QubitCounts, Start(count) PROVE TypeInv'
  BY <1>1, StartStepTyped
<1>2. CASE VisitStatement
  <2>1. ASSUME NEW b \in Bundles, VisitBundle(b) PROVE TypeInv'
    BY <2>1, BundleStepTyped
  <2>2. ASSUME NEW d \in ErrorModelDecls, VisitErrorModel(d) PROVE TypeInv'
    BY <2>2, ErrorModelStepTyped
  <2>3. ASSUME NEW d \in MappingDecls, VisitMapping(d) PROVE TypeInv'
    BY <2>3, MappingStepTyped
  <2>4. ASSUME NEW d \in VariableDecls, VisitVariables(d) PROVE TypeInv'
    BY <2>4, VariablesStepTyped
  <2>5. ASSUME NEW d \in SubcircuitDecls, VisitSubcircuit(d) PROVE TypeInv'
    BY <2>5, SubcircuitStepTyped
  <2>6. ASSUME NEW h \in Headers, VisitJump(h) \/ Open(h) PROVE TypeInv'
    BY <2>6, JumpStepTyped, OpenStepTyped
  <2>7. QED
    BY <1>2, <2>1, <2>2, <2>3, <2>4, <2>5, <2>6 DEF VisitStatement
<1>3. CASE CloseBlock
  BY <1>3, CloseTyped
<1>4. CASE Finish
  BY <1>4, FinishStepTyped
<1>5. CASE UNCHANGED vars
  BY <1>5 DEF TypeInv, Booked, vars
<1>6. QED
  BY <1>1, <1>2, <1>3, <1>4, <1>5 DEF Next

(* An analysis of any program keeps its books in shape: constants stay     *)
(* integers through arithmetic, folding, promotion and every table they    *)
(* are kept in, so that what a subcircuit is repeated is always a positive *)
(* integer; the version never exceeds that of the analyzer.                *)
THEOREM TypeCorrect == Spec => []TypeOK
<1>1. IInv /\ FitInv /\ JumpInv /\ TypeInv /\ [Next]_vars => (IInv /\ FitInv /\ JumpInv /\ TypeInv)'
  BY NextInv, FitNext, JumpNext, TypeNext
<1>2. ASSUME IInv, JumpInv, TypeInv PROVE TypeOK
  <2>1. errors \in Nat
    BY <1>2 DEF JumpInv, Counting
  <2>2. \A sub \in Range(root.subcircuits) : sub.iterations \in Nat \ {0}
    <3>1. /\ DOMAIN root.subcircuits = 1 .. Len(root.subcircuits)
          /\ \A i \in 1 .. Len(root.subcircuits) : Repeats(root.subcircuits[i])
      BY <1>2, ListFacts DEF TypeInv, Repeating
    <3>2. QED
      BY <3>1 DEF Range, Repeats
  <2>3. \A i \in DOMAIN scope_stack : scope_stack[i].within_loop \in BOOLEAN
    <3>1. /\ DOMAIN scope_stack = 1 .. Len(scope_stack)
          /\ \A i \in 1 .. Len(scope_stack) : scope_stack[i].within_loop \in BOOLEAN
      BY <1>2, ListFacts DEF IInv, Nested
    <3>2. QED
      BY <3>1
  <2>4. Booked /\ root.version \in 0 .. api
    BY <1>2 DEF TypeInv
  <2>5. QED
    BY <2>1, <2>2, <2>3, <2>4 DEF TypeOK, Booked
<1>3. Init => IInv /\ FitInv /\ JumpInv /\ TypeInv
  BY InitInv, FitInit, JumpInit, TypeInit
<1>4. QED
  BY <1>1, <1>2, <1>3, PTL DEF Spec

-----------------------------------------------------------------------------
(* What the global scope holds of the names written in it: the last        *)
(* statement of w that binds a name decides whether its entry in the table *)
(* m is that of a map statement, and positions are in the order of w.      *)
Decides(w, i, n) ==
  /\ i \in 1 .. Len(w) /\ n \in Binds(w[i])
  /\ \A j \in i + 1 .. Len(w) : n \notin Binds(w[j])

NamesBound(w) == \A i \in 1 .. Len(w) : Binds(w[i]) \subseteq Names
PlacedBy(m, v) == \A n \in Names : m[n] # Absent => m[n].position \in 0 .. v
Decided(m, w) ==
  \A n \in Names : \A i \in 1 .. Len(w) :
    Decides(w, i, n) => m[n] # Absent /\ (m[n].position # 0 <=> w[i].node = "mapping")
SavedDecided(m, w) == \A n \in Saved(m) : \E i \in 1 .. Len(w) : Decides(w, i, n)
InOrder(m, w) ==
  \A n, k \in Saved(m) : \A i, j \in 1 .. Len(w) :
    Decides(w, i, n) /\ Decides(w, j, k) /\ i < j => m[n].position < m[k].position

Listed(m, w, v) ==
  NamesBound(w) /\ PlacedBy(m, v) /\ Decided(m, w) /\ SavedDecided(m, w) /\ InOrder(m, w)

(* A statement is added to w, and the names it binds to m.                 *)
Bound(m, s, v, m2) ==
  \A n \in Names :
    IF n \in Binds(s) THEN m2[n] # Absent /\ m2[n].position = (IF s.node = "mapping" THEN v ELSE 0)
    ELSE m2[n] = m[n]

LEMMA DecidesAdded ==
  ASSUME NEW w, IsList(w), NEW s, NEW n, NEW i
  PROVE  Decides(Append(w, s), i, n) <=>
           \/ i = Len(w) + 1 /\ n \in Binds(s)
           \/ n \notin Binds(s) /\ Decides(w, i, n)
<1>. DEFINE u == Append(w, s)
<1>1. /\ Len(w) \in Nat /\ Len(u) = Len(w) + 1 /\ u[Len(w) + 1] = s
      /\ \A j \in 1 .. Len(w) : u[j] = w[j]
  BY ListFacts, AppendToList
<1>. HIDE DEF u
<1>2. CASE i = Len(w) + 1
  <2>1. i \in 1 .. Len(u) /\ i \notin 1 .. Len(w) /\ i + 1 .. Len(u) = {}
    BY <1>1, <1>2
  <2>2. QED
    BY <1>1, <1>2, <2>1 DEF Decides, u
<1>3. CASE i \in 1 .. Len(w)
  <2>1. i \in 1 .. Len(u) /\ i # Len(w) + 1 /\ u[i] = w[i] /\ i \in Nat
    BY <1>1, <1>3
  <2>2. \A j : j \in i + 1 .. Len(u) <=> j \in i + 1 .. Len(w) \/ j = Len(w) + 1
    BY <1>1, <1>3
  <2>3. \A j \in i + 1 .. Len(w) : j \in 1 .. Len(w)
    BY <1>1, <1>3
  <2>4. \A j \in i + 1 .. Len(w) : u[j] = w[j]
    BY <1>1, <2>3
  <2>5. Decides(u, i, n) <=> n \in Binds(w[i]) /\ \A j \in i + 1 .. Len(u) : n \notin Binds(u[j])
    BY <2>1 DEF Decides
  <2>6. (\A j \in i + 1 .. Len(u) : n \notin Binds(u[j])) <=>
          n \notin Binds(s) /\ \A j \in i + 1 .. Len(w) : n \notin Binds(w[j])
    BY <1>1, <2>2, <2>4
  <2>7. Decides(w, i, n) <=> n \in Binds(w[i]) /\ \A j \in i + 1 .. Len(w) : n \notin Binds(w[j])
    BY <1>3 DEF Decides
  <2>8. QED
    BY <2>1, <2>5, <2>6, <2>7 DEF u
<1>4. CASE i # Len(w) + 1 /\ i \notin 1 .. Len(w)
  <2>1. i \notin 1 .. Len(u)
    BY <1>1, <1>4
  <2>2. QED
    BY <1>4, <2>1 DEF Decides, u
<1>5. QED
  BY <1>2, <1>3, <1>4

LEMMA ListedAdded ==
  ASSUME NEW m, NEW w, IsList(w), NEW v \in Nat, Listed(m, w, v),
         NEW s, Binds(s) \subseteq Names,
         NEW v2 \in Nat, v <= v2, s.node = "mapping" => v < v2, NEW m2, Bound(m, s, v2, m2)
  PROVE  Listed(m2, Append(w, s), v2)
<1>. DEFINE u == Append(w, s)
<1>1. /\ Len(w) \in Nat /\ Len(u) = Len(w) + 1 /\ u[Len(w) + 1] = s
      /\ \A j \in 1 .. Len(w) : u[j] = w[j]
  BY ListFacts, AppendToList
<1>2. \A i, n : Decides(u, i, n) <=> \/ i = Len(w) + 1 /\ n \in Binds(s)
                                     \/ n \notin Binds(s) /\ Decides(w, i, n)
  BY DecidesAdded
<1>. HIDE DEF u
<1>3. \A i \in 1 .. Len(u) : i = Len(w) + 1 \/ i \in 1 .. Len(w)
  BY <1>1
<1>4. \A i \in 1 .. Len(w) : i \in 1 .. Len(u) /\ i # Len(w) + 1
  BY <1>1
<1>5. Len(w) + 1 \in 1 .. Len(u)
  BY <1>1
<1>6. \A n \in Names : n \in Binds(s) =>
        m2[n] # Absent /\ m2[n].position = (IF s.node = "mapping" THEN v2 ELSE 0)
  BY DEF Bound
<1>7. \A n \in Names : n \notin Binds(s) => m2[n] = m[n]
  BY DEF Bound
<1>8. NamesBound(u)
  BY <1>1, <1>3 DEF NamesBound, Listed
<1>9. PlacedBy(m2, v2)
  <2>1. ASSUME NEW n \in Names, m2[n] # Absent PROVE m2[n].position \in 0 .. v2
    <3>1. CASE n \in Binds(s)
      BY <1>6, <3>1
    <3>2. CASE n \notin Binds(s)
      <4>1. m[n] # Absent /\ m2[n].position = m[n].position
        BY <1>7, <2>1, <3>2
      <4>2. m[n].position \in 0 .. v
        BY <4>1 DEF Listed, PlacedBy
      <4>3. QED
        BY <4>1, <4>2
    <3>3. QED
      BY <3>1, <3>2
  <2>2. QED
    BY <2>1 DEF PlacedBy
<1>10. Decided(m2, u)
  <2>1. ASSUME NEW n \in Names, NEW i \in 1 .. Len(u), Decides(u, i, n)
        PROVE  m2[n] # Absent /\ (m2[n].position # 0 <=> u[i].node = "mapping")
    <3>1. CASE i = Len(w) + 1 /\ n \in Binds(s)
      <4>1. s.node = "mapping" => v2 # 0
        OBVIOUS
      <4>2. QED
        BY <1>1, <1>6, <3>1, <4>1
    <3>2. CASE n \notin Binds(s) /\ Decides(w, i, n)
      <4>1. i \in 1 .. Len(w)
        BY <3>2 DEF Decides
      <4>2. QED
        BY <1>1, <1>7, <3>2, <4>1 DEF Listed, Decided
    <3>3. QED
      BY <1>2, <2>1, <3>1, <3>2
  <2>2. QED
    BY <2>1 DEF Decided
<1>11. \A n \in Saved(m2) : n \in Binds(s) \/ n \in Saved(m)
  BY <1>7 DEF Saved
<1>12. SavedDecided(m2, u)
  <2>1. ASSUME NEW n \in Saved(m2) PROVE \E i \in 1 .. Len(u) : Decides(u, i, n)
    <3>1. CASE n \in Binds(s)
      BY <1>2, <1>5, <3>1
    <3>2. CASE n \notin Binds(s)
      <4>1. PICK i \in 1 .. Len(w) : Decides(w, i, n)
        BY <1>11, <3>2 DEF Listed, SavedDecided
      <4>2. Decides(u, i, n)
        BY <1>2, <3>2, <4>1
      <4>3. QED
        BY <1>4, <4>2
    <3>3. QED
      BY <3>1, <3>2
  <2>2. QED
    BY <2>1 DEF SavedDecided
<1>13. InOrder(m2, u)
  <2>1. ASSUME NEW n \in Saved(m2), NEW k \in Saved(m2),
               NEW i \in 1 .. Len(u), NEW j \in 1 .. Len(u),
               Decides(u, i, n), Decides(u, j, k), i < j
        PROVE  m2[n].position < m2[k].position
    <3>1. n \in Names /\ k \in Names /\ m2[k] # Absent /\ m2[k].position # 0
      BY DEF Saved
    <3>2. i # Len(w) + 1
      BY <1>1, <2>1
    <3>3. n \notin Binds(s) /\ Decides(w, i, n) /\ i \in 1 .. Len(w)
      BY <1>2, <1>3, <2>1, <3>2
    <3>4. n \in Saved(m) /\ m2[n].position = m[n].position
      BY <1>7, <1>11, <3>1, <3>3
    <3>5. m[n].position \in 0 .. v
      BY <3>4 DEF Listed, PlacedBy, Saved
    <3>6. CASE k \in Binds(s)
      <4>1. m2[k].position = v2 /\ v < v2
        BY <1>6, <3>1, <3>6
      <4>2. QED
        BY <3>4, <3>5, <4>1
    <3>7. CASE k \notin Binds(s)
      <4>1. Decides(w, j, k) /\ j \in 1 .. Len(w)
        BY <1>2, <2>1, <3>7 DEF Decides
      <4>2. k \in Saved(m) /\ m2[k].position = m[k].position
        BY <1>7, <1>11, <3>1, <3>7
      <4>3. QED
        BY <2>1, <3>3, <3>4, <4>1, <4>2 DEF Listed, InOrder
    <3>8. QED
      BY <3>6, <3>7
  <2>2. QED
    BY <2>1 DEF InOrder
<1>14. QED
  BY <1>8, <1>9, <1>10, <1>12, <1>13 DEF Listed, u

LEMMA ListedLater ==
  ASSUME NEW m, NEW w, NEW v \in Nat, Listed(m, w, v)
  PROVE  Listed(m, w, v + 1)
<1>1. ASSUME NEW n \in Names, m[n] # Absent PROVE m[n].position \in 0 .. v + 1
  <2>1. m[n].position \in 0 .. v
    BY <1>1 DEF Listed, PlacedBy
  <2>2. QED
    BY <2>1
<1>2. QED
  BY <1>1 DEF Listed, PlacedBy

-----------------------------------------------------------------------------
LEMMA SameSize ==
  ASSUME NEW J, IsFiniteSet(J), NEW T, NEW f,
         \A j \in J : f[j] \in T,
         \A t \in T : \E j \in J : f[j] = t,
         \A i, j \in J : f[i] = f[j] => i = j
  PROVE  IsFiniteSet(T) /\ Cardinality(T) = Cardinality(J)
<1>. DEFINE g == [j \in J |-> f[j]]
<1>1. g \in [J -> T] /\ \A j \in J : g[j] = f[j]
  OBVIOUS
<1>. HIDE DEF g
<1>2. g \in Injection(J, T)
  BY <1>1 DEF Injection, IsInjective
<1>3. g \in Surjection(J, T)
  BY <1>1 DEF Surjection
<1>4. ExistsBijection(J, T)
  BY <1>2, <1>3 DEF ExistsBijection, Bijection
<1>5. QED
  BY <1>4, FS_Bijection

(* The map statements that hold, as Holding has them, of any list w; the   *)
(* name FinalMappings gives the mapping at a place.                        *)
HoldingIn(w) ==
  {i \in DOMAIN w :
     /\ w[i].node = "mapping"
     /\ \A j \in i + 1 .. Len(w) : Binds(w[i]) \cap Binds(w[j]) = {}}

Earlier(m, n) == {x \in Saved(m) : m[x].position < m[n].position}
NameAt(m, k)  == CHOOSE n \in Saved(m) : Cardinality(Earlier(m, n)) = k - 1

LEMMA NamesListed ==
  ASSUME NEW m, NEW w, IsList(w), NEW v \in Nat, Listed(m, w, v)
  PROVE  /\ Cardinality(Saved(m)) = Cardinality(HoldingIn(w))
         /\ Cardinality(Saved(m)) \in Nat
         /\ \A k \in 1 .. Cardinality(Saved(m)) :
              NameAt(m, k) \in Saved(m) /\ Binds(w[Nth(HoldingIn(w), k)]) = {NameAt(m, k)}
<1>. DEFINE H == HoldingIn(w)
            S == Saved(m)
            f == [i \in H |-> Lower(w[i].alias)]
            UpTo(i)   == {x \in H : x <= i}
            Before(i) == {x \in H : x < i}
<1>1. DOMAIN w = 1 .. Len(w) /\ Len(w) \in Nat
  BY ListFacts
<1>2. H \subseteq 1 .. Len(w)
  BY <1>1 DEF HoldingIn
<1>3. \A i \in H : w[i].node = "mapping" /\ Binds(w[i]) = {f[i]}
  BY DEF HoldingIn, Binds
<1>4. ASSUME NEW i \in H PROVE f[i] \in S /\ Decides(w, i, f[i])
  <2>1. f[i] \in Names
    BY <1>2, <1>3 DEF Listed, NamesBound
  <2>2. \A j \in i + 1 .. Len(w) : f[i] \notin Binds(w[j])
    BY <1>3 DEF HoldingIn
  <2>3. Decides(w, i, f[i])
    BY <1>2, <1>3, <2>2 DEF Decides
  <2>4. m[f[i]] # Absent /\ m[f[i]].position # 0
    BY <1>2, <1>3, <2>1, <2>3 DEF Listed, Decided
  <2>5. QED
    BY <2>1, <2>3, <2>4 DEF Saved
<1>5. ASSUME NEW n \in S PROVE \E i \in H : f[i] = n
  <2>1. n \in Names /\ m[n] # Absent /\ m[n].position # 0
    BY DEF Saved
  <2>2. PICK i \in 1 .. Len(w) : Decides(w, i, n)
    BY DEF Listed, SavedDecided
  <2>3. w[i].node = "mapping"
    BY <2>1, <2>2 DEF Listed, Decided
  <2>4. Binds(w[i]) = {Lower(w[i].alias)}
    BY <2>3 DEF Binds
  <2>5. n = Lower(w[i].alias) /\ \A j \in i + 1 .. Len(w) : n \notin Binds(w[j])
    BY <2>2, <2>4 DEF Decides
  <2>6. i \in H
    BY <1>1, <2>3, <2>4, <2>5 DEF HoldingIn
  <2>7. QED
    BY <2>5, <2>6
<1>6. \A n \in S : m[n].position \in Nat
  <2>1. \A n \in S : m[n].position \in 0 .. v
    BY DEF Listed, PlacedBy, Saved
  <2>2. QED
    BY <2>1
<1>7. \A i \in H : i \in Nat
  BY <1>2
<1>. HIDE DEF f, H, S
<1>8. \A i, j \in H : i < j => m[f[i]].position < m[f[j]].position
  <2>1. ASSUME NEW i \in H, NEW j \in H, i < j PROVE m[f[i]].position < m[f[j]].position
    <3>1. f[i] \in S /\ Decides(w, i, f[i]) /\ f[j] \in S /\ Decides(w, j, f[j])
      BY <1>4
    <3>2. i \in 1 .. Len(w) /\ j \in 1 .. Len(w)
      BY <1>2
    <3>3. QED
      BY <2>1, <3>1, <3>2 DEF Listed, InOrder, S
  <2>2. QED
    BY <2>1
<1>9. \A i, j \in H : m[f[i]].position < m[f[j]].position => i < j
  <2>1. ASSUME NEW i \in H, NEW j \in H, m[f[i]].position < m[f[j]].position PROVE i < j
    <3>1. m[f[i]].position \in Nat /\ m[f[j]].position \in Nat /\ i \in Nat /\ j \in Nat
      BY <1>4, <1>6, <1>7
    <3>2. i # j
      BY <2>1, <3>1
    <3>3. j < i => m[f[j]].position < m[f[i]].position
      BY <1>8
    <3>4. QED
      BY <2>1, <3>1, <3>2, <3>3
  <2>2. QED
    BY <2>1
<1>10. \A i, j \in H : f[i] = f[j] => i = j
  <2>1. ASSUME NEW i \in H, NEW j \in H, f[i] = f[j] PROVE i = j
    <3>1. m[f[i]].position \in Nat /\ i \in Nat /\ j \in Nat
      BY <1>4, <1>6, <1>7
    <3>2. ~(i < j) /\ ~(j < i)
      BY <1>8, <2>1, <3>1
    <3>3. QED
      BY <3>1, <3>2
  <2>2. QED
    BY <2>1
<1>11. IsFiniteSet(H) /\ Cardinality(H) \in Nat
  BY <1>1, <1>2, PlacesFinite
<1>12. Cardinality(S) = Cardinality(H)
  BY <1>4, <1>5, <1>10, <1>11, SameSize
<1>13. ASSUME NEW i \in H PROVE Cardinality(Earlier(m, f[i])) = Cardinality(Before(i))
  <2>1. IsFiniteSet(Before(i))
    BY <1>11, FS_Subset
  <2>2. \A j \in Before(i) : f[j] \in Earlier(m, f[i])
    BY <1>4, <1>8 DEF Earlier, S
  <2>3. \A n \in Earlier(m, f[i]) : \E j \in Before(i) : f[j] = n
    <3>1. ASSUME NEW n \in S, m[n].position < m[f[i]].position PROVE \E j \in Before(i) : f[j] = n
      <4>1. PICK j \in H : f[j] = n
        BY <1>5
      <4>2. j < i
        BY <1>9, <3>1, <4>1
      <4>3. QED
        BY <4>1, <4>2
    <3>2. QED
      BY <3>1 DEF Earlier, S
  <2>4. \A j, k \in Before(i) : f[j] = f[k] => j = k
    BY <1>10
  <2>. HIDE DEF Before
  <2>5. QED
    BY <2>1, <2>2, <2>3, <2>4, SameSize
<1>14. ASSUME NEW i \in H
       PROVE  Cardinality(UpTo(i)) = Cardinality(Before(i)) + 1 /\ Cardinality(Before(i)) \in Nat
  <2>1. IsFiniteSet(Before(i))
    BY <1>11, FS_Subset
  <2>2. UpTo(i) = Before(i) \cup {i} /\ i \notin Before(i)
    <3>1. \A x \in H : x <= i <=> x < i \/ x = i
      BY <1>7
    <3>2. ~(i < i)
      BY <1>7
    <3>3. QED
      BY <3>1, <3>2
  <2>. HIDE DEF Before, UpTo
  <2>3. QED
    BY <2>1, <2>2, FS_AddElement, FS_CardinalityType
<1>15. ASSUME NEW k \in 1 .. Cardinality(H)
       PROVE  NameAt(m, k) \in S /\ Binds(w[Nth(H, k)]) = {NameAt(m, k)}
  <2>. DEFINE i == Nth(H, k)
              n == NameAt(m, k)
  <2>0. k \in Nat
    BY <1>11
  <2>1. i \in H /\ Cardinality(UpTo(i)) = k
    BY <1>1, <1>2, NthInPlaces
  <2>. HIDE DEF i, UpTo, Before
  <2>2. Cardinality(Earlier(m, f[i])) = k - 1
    BY <1>13, <1>14, <2>0, <2>1
  <2>3. n \in S /\ Cardinality(Earlier(m, n)) = k - 1
    BY <1>4, <2>1, <2>2 DEF NameAt, S
  <2>. HIDE DEF n
  <2>4. PICK j \in H : f[j] = n
    BY <1>5, <2>3
  <2>5. Cardinality(UpTo(j)) = k
    BY <1>13, <1>14, <2>0, <2>3, <2>4
  <2>6. j = i
    <3>1. Cardinality(PlacesTo(H, i)) = Cardinality(PlacesTo(H, j))
      BY <2>1, <2>5 DEF UpTo, PlacesTo
    <3>2. QED
      BY <1>1, <1>2, <2>1, <3>1, OnePlaceForEach
  <2>7. Binds(w[i]) = {n}
    BY <1>3, <2>1, <2>4, <2>6
  <2>8. QED
    BY <2>3, <2>7 DEF i, n
<1>16. QED
  BY <1>11, <1>12, <1>15 DEF H, S

-----------------------------------------------------------------------------
(* The invariant: the names bound in the global scope are those written in *)
(* it, as long as there is no error.                                       *)
GlobalNames(s) == s[1].mappings
Books(w, h)    == IsList(w) /\ Len(w) = 1 + Len(h) /\ IsList(w[1])

BoundInv ==
  /\ Books(written, handlers)
  /\ phase = "new" => written[1] = <<>>
  /\ phase = "statements" /\ errors = 0 => Listed(GlobalNames(scope_stack), written[1], visits)
  /\ MappingsListed

BindsNothing(s) == s.node \notin {"mapping", "variables"}
Recorded == \/ written'[1] = written[1]
            \/ \E s : BindsNothing(s) /\ written'[1] = Append(written[1], s)

(* A step that binds no name in the global scope.                          *)
NamesKept ==
  /\ phase = "statements" /\ phase' \in {"statements", "crash"}
  /\ visits' \in {visits, visits + 1} /\ (errors' = 0 => errors = 0)
  /\ GlobalNames(scope_stack') = GlobalNames(scope_stack)
  /\ Books(written', handlers') /\ Recorded

LEMMA NothingBound ==
  ASSUME BoundInv, visits \in Nat, NamesKept
  PROVE  BoundInv'
<1>. DEFINE m == GlobalNames(scope_stack)
            w == written[1]
<1>0. /\ phase = "statements" /\ phase' \in {"statements", "crash"}
      /\ visits' \in {visits, visits + 1} /\ (errors' = 0 => errors = 0)
      /\ GlobalNames(scope_stack') = GlobalNames(scope_stack)
      /\ Books(written', handlers') /\ Recorded
  BY DEF NamesKept
<1>1. phase' # "new" /\ MappingsListed'
  BY <1>0 DEF MappingsListed
<1>2. ASSUME phase' = "statements", errors' = 0
      PROVE  Listed(GlobalNames(scope_stack'), written'[1], visits')
  <2>1. Listed(m, w, visits) /\ IsList(w)
    BY <1>0, <1>2 DEF BoundInv, Books
  <2>. HIDE DEF m, w
  <2>2. Listed(m, w, visits')
    BY <1>0, <2>1, ListedLater
  <2>3. CASE written'[1] = w
    BY <1>0, <2>2, <2>3 DEF m
  <2>4. ASSUME NEW s, BindsNothing(s), written'[1] = Append(w, s)
        PROVE  Listed(m, written'[1], visits')
    <3>1. Binds(s) = {} /\ s.node # "mapping"
      BY <2>4 DEF Binds, BindsNothing
    <3>2. Bound(m, s, visits', m)
      BY <3>1 DEF Bound
    <3>3. visits' \in Nat /\ visits' <= visits'
      BY <1>0
    <3>4. Listed(m, Append(w, s), visits')
      BY <2>1, <2>2, <3>1, <3>2, <3>3, ListedAdded
    <3>5. QED
      BY <2>4, <3>4
  <2>5. QED
    BY <1>0, <2>3, <2>4 DEF Recorded, m, w
<1>3. QED
  BY <1>0, <1>1, <1>2 DEF BoundInv

(* What is written.                                                        *)
LEMMA WroteBooks ==
  ASSUME Books(written, handlers), IsList(handlers), NEW s, Wrote(s), UNCHANGED handlers
  PROVE  /\ Books(written', handlers')
         /\ written'[1] = IF handlers = <<>> THEN Append(written[1], s) ELSE written[1]
<1>. DEFINE x == Append(written[Len(written)], s)
            t == [written EXCEPT ![Len(written)] = x]
<1>1. IsList(written) /\ Len(handlers) \in Nat /\ Len(written) = 1 + Len(handlers) /\ IsList(written[1])
  BY ListFacts DEF Books
<1>2. written # <<>> /\ (handlers = <<>> <=> Len(handlers) = 0)
  BY <1>1 DEF IsList
<1>3. written' = t
  BY DEF Wrote
<1>4. /\ IsList(t) /\ Len(t) = Len(written) /\ t[Len(written)] = x
      /\ \A i \in 1 .. Len(written) - 1 : t[i] = written[i]
  BY <1>1, <1>2, ReplaceLast
<1>. HIDE DEF t
<1>5. CASE handlers = <<>>
  <2>1. Len(written) = 1
    BY <1>1, <1>2, <1>5
  <2>2. t[1] = Append(written[1], s)
    BY <1>4, <2>1
  <2>3. IsList(t[1])
    BY <1>1, <2>2, AppendToList
  <2>4. QED
    BY <1>1, <1>3, <1>4, <1>5, <2>2, <2>3 DEF Books
<1>6. CASE handlers # <<>>
  <2>1. 1 \in 1 .. Len(written) - 1
    BY <1>1, <1>2, <1>6
  <2>2. t[1] = written[1]
    BY <1>4, <2>1
  <2>3. QED
    BY <1>1, <1>3, <1>4, <1>6, <2>2 DEF Books
<1>7. QED
  BY <1>5, <1>6

LEMMA BooksFront ==
  ASSUME Books(written, handlers), IsList(handlers), handlers # <<>>
  PROVE  Books(Front(written), Front(handlers)) /\ Front(written)[1] = written[1]
<1>1. IsList(written) /\ Len(handlers) \in Nat \ {0} /\ Len(written) = 1 + Len(handlers)
      /\ IsList(written[1])
  BY DEF Books, IsList
<1>2. written # <<>>
  BY <1>1
<1>3. /\ IsList(Front(written)) /\ Len(Front(written)) = Len(written) - 1
      /\ \A i \in 1 .. Len(written) - 1 : Front(written)[i] = written[i]
  BY <1>1, <1>2, FrontOfList
<1>4. Len(Front(handlers)) = Len(handlers) - 1
  BY FrontOfList
<1>5. 1 \in 1 .. Len(written) - 1
  BY <1>1
<1>6. Front(written)[1] = written[1]
  BY <1>3, <1>5
<1>7. Len(Front(written)) = 1 + Len(Front(handlers))
  BY <1>1, <1>3, <1>4
<1>8. QED
  BY <1>1, <1>3, <1>6, <1>7 DEF Books

(* A block that is closed becomes a statement of the one around it.        *)
LEMMA WroteBlockBooks ==
  ASSUME Books(written, handlers), IsList(handlers), handlers # <<>>,
         NEW s, BindsNothing(s), WroteBlock(s), handlers' = Front(handlers)
  PROVE  Books(written', handlers') /\ Recorded
<1>. DEFINE f == Front(written)
            x == Append(f[Len(f)], s)
            t == [f EXCEPT ![Len(f)] = x]
<1>1. Books(f, handlers') /\ f[1] = written[1]
  BY BooksFront
<1>2. IsList(written) /\ written # <<>> /\ Len(f) = Len(written) - 1
  <2>1. IsList(written) /\ written # <<>>
    BY DEF Books, IsList
  <2>2. QED
    BY <2>1, FrontOfList
<1>3. written' = t
  BY <1>2 DEF WroteBlock
<1>. HIDE DEF f
<1>4. IsList(f) /\ Len(f) = 1 + Len(handlers') /\ IsList(f[1]) /\ Len(handlers') \in Nat
  <2>1. IsList(handlers')
    BY FrontOfList
  <2>2. QED
    BY <1>1, <2>1, ListFacts DEF Books
<1>5. f # <<>>
  BY <1>4
<1>6. /\ IsList(t) /\ Len(t) = Len(f) /\ t[Len(f)] = x
      /\ \A i \in 1 .. Len(f) - 1 : t[i] = f[i]
  BY <1>4, <1>5, ReplaceLast
<1>. HIDE DEF t
<1>7. CASE Len(f) = 1
  <2>1. t[1] = Append(f[1], s)
    BY <1>6, <1>7
  <2>2. IsList(t[1])
    BY <1>4, <2>1, AppendToList
  <2>3. Books(written', handlers')
    BY <1>3, <1>4, <1>6, <2>2 DEF Books
  <2>4. QED
    BY <1>1, <1>3, <2>1, <2>3 DEF Recorded
<1>8. CASE Len(f) # 1
  <2>1. 1 \in 1 .. Len(f) - 1
    BY <1>4, <1>8
  <2>2. t[1] = f[1]
    BY <1>6, <2>1
  <2>3. Books(written', handlers')
    BY <1>3, <1>4, <1>6, <2>2 DEF Books
  <2>4. QED
    BY <1>1, <1>3, <2>2, <2>3 DEF Recorded
<1>9. QED
  BY <1>7, <1>8

(* What becomes of the global scope.                                       *)
LEMMA PushedGlobal ==
  ASSUME NEW s, NEW h, Nested(s, h), NEW loop
  PROVE  GlobalNames(PushScope(s, loop)) = GlobalNames(s)
<1>1. IsList(s) /\ 1 \in 1 .. Len(s)
  BY NestedNotEmpty DEF Nested
<1>2. QED
  BY <1>1, AppendToList DEF PushScope, GlobalNames

LEMMA PoppedGlobal ==
  ASSUME NEW s, NEW h, Nested(s, h), h # <<>>
  PROVE  GlobalNames(PopScope(s)) = GlobalNames(s)
<1>1. IsList(s) /\ Len(s) = 1 + Len(h) /\ Len(h) \in Nat \ {0}
  BY DEF Nested, IsList
<1>2. s # <<>> /\ 1 \in 1 .. Len(s) - 1
  BY <1>1
<1>3. QED
  BY <1>1, <1>2, FrontOfList DEF PopScope, GlobalNames

LEMMA AddedGlobal ==
  ASSUME NEW r, NEW s, NEW h, Nested(s, h), NEW b
  PROVE  GlobalNames(AddToCurrentBlock(r, s, b).scopes) = GlobalNames(s)
<1>. DEFINE x == [s[Len(s)] EXCEPT !.block = @ \o b]
            t == [s EXCEPT ![Len(s)] = x]
            q == [r EXCEPT !.subcircuits =
                    [CurrentSubcircuits(r) EXCEPT
                       ![Len(CurrentSubcircuits(r))].body = @ \o b]]
<1>1. \/ AddToCurrentBlock(r, s, b) = [root |-> r, scopes |-> s]
      \/ AddToCurrentBlock(r, s, b) = [root |-> q, scopes |-> s]
      \/ Len(s) > 1 /\ AddToCurrentBlock(r, s, b) = [root |-> r, scopes |-> t]
  BY DEF AddToCurrentBlock
<1>2. IsList(s) /\ s # <<>> /\ Len(s) \in Nat
  BY NestedNotEmpty DEF Nested
<1>. HIDE DEF x, q
<1>3. \A i \in 1 .. Len(s) - 1 : t[i] = s[i]
  BY <1>2, ReplaceLast
<1>. HIDE DEF t
<1>4. Len(s) > 1 => 1 \in 1 .. Len(s) - 1
  BY <1>2
<1>5. QED
  BY <1>1, <1>3, <1>4 DEF GlobalNames

(* The current scope gets other names: the global one, if it is that.      *)
LEMMA NamesGlobal ==
  ASSUME NEW s, NEW h, Nested(s, h), Tables(s), NEW m
  PROVE  GlobalNames([s EXCEPT ![Len(s)].mappings = m]) = IF h = <<>> THEN m ELSE GlobalNames(s)
<1>. DEFINE x == [s[Len(s)] EXCEPT !.mappings = m]
            t == [s EXCEPT ![Len(s)] = x]
<1>1. IsList(s) /\ s # <<>> /\ Len(s) = 1 + Len(h) /\ Len(h) \in Nat /\ (h = <<>> <=> Len(h) = 0)
  BY NestedNotEmpty DEF Nested, IsList
<1>2. "mappings" \in DOMAIN s[Len(s)]
  BY <1>1 DEF Tables
<1>3. x.mappings = m
  BY <1>2
<1>4. [s EXCEPT ![Len(s)].mappings = m] = t
  OBVIOUS
<1>. HIDE DEF x
<1>5. /\ t[Len(s)] = x
      /\ \A i \in 1 .. Len(s) - 1 : t[i] = s[i]
  BY <1>1, ReplaceLast
<1>. HIDE DEF t
<1>6. CASE h = <<>>
  BY <1>1, <1>3, <1>4, <1>5, <1>6 DEF GlobalNames
<1>7. CASE h # <<>>
  <2>1. 1 \in 1 .. Len(s) - 1
    BY <1>1, <1>7
  <2>2. QED
    BY <1>4, <1>5, <1>7, <2>1 DEF GlobalNames
<1>8. QED
  BY <1>6, <1>7

-----------------------------------------------------------------------------
(* The steps.                                                              *)
AllInv == IInv /\ JumpInv /\ TypeInv /\ BoundInv

LEMMA HandlersListed ==
  ASSUME AllInv
  PROVE  /\ IsList(handlers) /\ Books(written, handlers) /\ Nested(scope_stack, handlers)
         /\ Tables(scope_stack) /\ errors \in Nat /\ visits \in Nat
<1>1. visits \in 0 .. MaxStatements /\ MaxStatements \in Nat
  BY ConstantsAssumption DEF AllInv, TypeInv, Booked
<1>2. visits \in Nat
  BY <1>1
<1>3. QED
  BY <1>2 DEF AllInv, IInv, JumpInv, Counting, TypeInv, BoundInv, Nested

LEMMA VisitKeepsNames ==
  ASSUME AllInv, phase = "statements", NEW n \in Nat, NEW crashed, Report(n, crashed),
         GlobalNames(scope_stack') = GlobalNames(scope_stack),
         Books(written', handlers'), Recorded
  PROVE  NamesKept
<1>1. visits \in Nat /\ errors \in Nat /\ visits' = visits + 1 /\ errors' = errors + n
  BY HandlersListed DEF Report
<1>2. phase' \in {"statements", "crash"}
  BY DEF Report
<1>3. errors' = 0 => errors = 0
  BY <1>1
<1>4. QED
  BY <1>1, <1>2, <1>3 DEF NamesKept

(* A statement that binds nothing is written.                              *)
LEMMA StatementKeeps ==
  ASSUME AllInv, phase = "statements", NEW n \in Nat, NEW crashed, Report(n, crashed),
         GlobalNames(scope_stack') = GlobalNames(scope_stack),
         NEW s, BindsNothing(s), Wrote(s), UNCHANGED handlers
  PROVE  NamesKept
<1>1. Books(written', handlers') /\ Recorded
  BY HandlersListed, WroteBooks DEF Recorded
<1>2. QED
  BY <1>1, VisitKeepsNames

LEMMA BundleKeepsNames ==
  ASSUME AllInv, NEW bundle \in Bundles, VisitBundle(bundle)
  PROVE  NamesKept
<1>. DEFINE s == [node |-> "bundle", items |-> bundle]
<1>1. phase = "statements" /\ Wrote(s) /\ UNCHANGED handlers
  BY DEF VisitBundle, Visit
<1>2. BindsNothing(s)
  BY DEF BindsNothing
<1>3. PICK n, crashed, b :
        n \in Nat /\ Report(n, crashed) /\ Becomes(AddToCurrentBlock(root, scope_stack, b))
  BY ErrorsOfBundle
<1>. HIDE DEF s
<1>4. GlobalNames(scope_stack') = GlobalNames(scope_stack)
  BY <1>3, HandlersListed, AddedGlobal DEF Becomes
<1>5. QED
  BY <1>1, <1>2, <1>3, <1>4, StatementKeeps

LEMMA PlainKeepsNames ==
  ASSUME AllInv, VisitStatement
  PROVE  \/ NamesKept
         \/ \E b \in Bundles : VisitBundle(b)
         \/ \E d \in MappingDecls : VisitMapping(d)
         \/ \E d \in VariableDecls : VisitVariables(d)
         \/ \E h \in Headers : Open(h)
<1>1. ASSUME NEW d \in ErrorModelDecls, VisitErrorModel(d) PROVE NamesKept
  <2>. DEFINE s == [node |-> "error_model"]
  <2>1. PICK model : /\ SetErrorModel(model) /\ phase = "statements"
                     /\ Wrote(s) /\ UNCHANGED <<scope_stack, handlers>>
    BY <1>1 DEF VisitErrorModel, Visit
  <2>2. PICK n, crashed : n \in Nat /\ Report(n, crashed)
    BY <2>1 DEF SetErrorModel
  <2>3. BindsNothing(s)
    BY DEF BindsNothing
  <2>. HIDE DEF s
  <2>4. QED
    BY <2>1, <2>2, <2>3, StatementKeeps
<1>2. ASSUME NEW d \in SubcircuitDecls, VisitSubcircuit(d) PROVE NamesKept
  <2>. DEFINE s == [node |-> "subcircuit", name |-> d.name, iterations |-> d.iterations]
  <2>1. PICK k : /\ AddSubcircuit(d.name, k) /\ phase = "statements"
                 /\ Wrote(s) /\ UNCHANGED <<scope_stack, handlers>>
    BY <1>2 DEF VisitSubcircuit, Visit
  <2>2. PICK n, crashed : n \in Nat /\ Report(n, crashed)
    BY <2>1 DEF AddSubcircuit
  <2>3. BindsNothing(s)
    BY DEF BindsNothing
  <2>. HIDE DEF s
  <2>4. QED
    BY <2>1, <2>2, <2>3, StatementKeeps
<1>3. ASSUME NEW h \in Headers, VisitJump(h) PROVE NamesKept
  <2>1. /\ phase = "statements" /\ UNCHANGED handlers /\ Wrote(h) /\ BindsNothing(h)
        /\ \E n, crashed : n \in Nat /\ Report(n, crashed)
        /\ \/ Becomes(AddToCurrentBlock(root, scope_stack, <<h>>))
           \/ UNCHANGED scope_stack
    BY <1>3 DEF VisitJump, Visit, Unchanged, Becomes, BindsNothing
  <2>2. GlobalNames(scope_stack') = GlobalNames(scope_stack)
    BY <2>1, HandlersListed, AddedGlobal DEF Becomes
  <2>3. QED
    BY <2>1, <2>2, StatementKeeps
<1>4. QED
  BY <1>1, <1>2, <1>3 DEF VisitStatement

LEMMA OpenKeepsNames ==
  ASSUME AllInv, NEW header, Open(header)
  PROVE  NamesKept
<1>1. PICK analyzed, failure : OpenBlock(header, analyzed, failure) /\ phase = "statements"
  BY DEF Open, OpenAnalyzed, Visit
<1>2. PICK n, crashed : n \in Nat /\ Report(n, crashed)
  BY <1>1 DEF OpenBlock
<1>3. CASE failure = Absent
  <2>. DEFINE k == Handler(header, analyzed)
              t == Append(written, <<>>)
              g == Append(handlers, k)
  <2>1. /\ scope_stack' = PushScope(scope_stack, IsLoop(header))
        /\ handlers' = g /\ written' = t
    BY <1>1, <1>3 DEF OpenBlock
  <2>2. GlobalNames(scope_stack') = GlobalNames(scope_stack)
    BY <2>1, HandlersListed, PushedGlobal
  <2>3. /\ IsList(written) /\ IsList(handlers) /\ Len(written) = 1 + Len(handlers)
        /\ Len(handlers) \in Nat /\ IsList(written[1])
    BY HandlersListed, ListFacts DEF Books
  <2>. HIDE DEF k
  <2>4. /\ IsList(t) /\ Len(t) = Len(written) + 1 /\ \A i \in 1 .. Len(written) : t[i] = written[i]
        /\ Len(g) = Len(handlers) + 1
    BY <2>3, AppendToList
  <2>. HIDE DEF t, g
  <2>5. t[1] = written[1] /\ Len(t) = 1 + Len(g)
    <3>1. 1 \in 1 .. Len(written)
      BY <2>3
    <3>2. QED
      BY <2>3, <2>4, <3>1
  <2>6. Books(written', handlers') /\ Recorded
    BY <2>1, <2>3, <2>4, <2>5 DEF Books, Recorded
  <2>7. QED
    BY <1>1, <1>2, <2>2, <2>6, VisitKeepsNames
<1>4. CASE failure # Absent
  <2>1. UNCHANGED <<scope_stack, handlers, written>>
    BY <1>1, <1>4 DEF OpenBlock
  <2>2. Books(written', handlers') /\ Recorded
    BY <2>1, HandlersListed DEF Recorded
  <2>3. QED
    BY <1>1, <1>2, <2>1, <2>2, VisitKeepsNames
<1>5. QED
  BY <1>3, <1>4

(* The next branch of an if takes the place of the one before.             *)
LEMMA NextBlockKeepsNames ==
  ASSUME AllInv, handlers # <<>>, NEW header, NEW analyzed, NextBlock(header, analyzed)
  PROVE  /\ Books(written', handlers') /\ Recorded
         /\ GlobalNames(scope_stack') = GlobalNames(scope_stack)
<1>. DEFINE k == [header |-> header, analyzed |-> analyzed,
                  branches |-> ClosedBranches, sources |-> ClosedSources]
            t == [written EXCEPT ![Len(written)] = <<>>]
            g == [handlers EXCEPT ![Len(handlers)] = k]
<1>1. handlers' = g /\ scope_stack' = PushScope(Popped, FALSE) /\ written' = t
  BY DEF NextBlock
<1>2. Nested(Popped, Front(handlers)) /\ GlobalNames(Popped) = GlobalNames(scope_stack)
  BY PoppedStack, HandlersListed, PoppedGlobal DEF Popped, AllInv
<1>3. GlobalNames(scope_stack') = GlobalNames(scope_stack)
  BY <1>1, <1>2, PushedGlobal
<1>4. /\ IsList(written) /\ IsList(handlers) /\ Len(written) = 1 + Len(handlers)
      /\ IsList(written[1])
  BY HandlersListed DEF Books
<1>5. Len(handlers) \in Nat \ {0}
  BY <1>4 DEF IsList
<1>6. written # <<>> /\ 1 \in 1 .. Len(written) - 1
  BY <1>4, <1>5
<1>. HIDE DEF k
<1>7. /\ IsList(t) /\ Len(t) = Len(written) /\ \A i \in 1 .. Len(written) - 1 : t[i] = written[i]
  BY <1>4, <1>6, ReplaceLast
<1>8. Len(g) = Len(handlers)
  BY <1>4, ReplaceLast
<1>. HIDE DEF t, g
<1>9. t[1] = written[1]
  BY <1>6, <1>7
<1>10. QED
  BY <1>1, <1>3, <1>4, <1>7, <1>8, <1>9 DEF Books, Recorded

LEMMA ReturnKeepsNames ==
  ASSUME AllInv, handlers # <<>>, phase = "statements", NEW b, Return(b),
         NEW s, BindsNothing(s), WroteBlock(s), UNCHANGED visits,
         errors' \in {errors, errors + 1}, phase' \in {phase, "crash"}
  PROVE  NamesKept
<1>1. IsList(handlers) /\ Books(written, handlers) /\ errors \in Nat /\ visits \in Nat
  BY HandlersListed
<1>2. handlers' = Front(handlers) /\ Becomes(AddToCurrentBlock(root, Popped, b))
  BY DEF Return
<1>3. Books(written', handlers') /\ Recorded
  BY <1>1, <1>2, WroteBlockBooks
<1>4. Nested(Popped, Front(handlers)) /\ GlobalNames(Popped) = GlobalNames(scope_stack)
  BY PoppedStack, HandlersListed, PoppedGlobal DEF Popped, AllInv
<1>5. GlobalNames(scope_stack') = GlobalNames(scope_stack)
  BY <1>2, <1>4, AddedGlobal DEF Becomes
<1>6. errors' = 0 => errors = 0
  BY <1>1
<1>7. QED
  BY <1>1, <1>3, <1>5, <1>6 DEF NamesKept

LEMMA CloseKeepsNames ==
  ASSUME AllInv, CloseBlock
  PROVE  NamesKept
<1>1. ASSUME NEW c \in Conditions, ElseIf(c) PROVE NamesKept
  <2>1. PICK analyzed : ElseIfAnalyzed(c, analyzed) /\ phase = "statements" /\ handlers # <<>>
    BY <1>1 DEF ElseIf, InBlock, Visit
  <2>2. PICK n, crashed : n \in Nat /\ Report(n, crashed)
    BY <2>1 DEF ElseIfAnalyzed
  <2>3. CASE Failed(analyzed)
    <3>1. handlers' = Front(handlers) /\ scope_stack' = Popped /\ written' = Front(written)
      BY <2>1, <2>3 DEF ElseIfAnalyzed
    <3>2. Books(written', handlers') /\ Recorded
      BY <2>1, <3>1, HandlersListed, BooksFront DEF Recorded
    <3>3. GlobalNames(scope_stack') = GlobalNames(scope_stack)
      BY <2>1, <3>1, HandlersListed, PoppedGlobal DEF Popped
    <3>4. QED
      BY <2>1, <2>2, <3>2, <3>3, VisitKeepsNames
  <2>4. CASE ~Failed(analyzed)
    BY <2>1, <2>2, <2>4, NextBlockKeepsNames, VisitKeepsNames DEF ElseIfAnalyzed
  <2>5. QED
    BY <2>3, <2>4
<1>2. CASE Else
  <2>1. /\ phase = "statements" /\ handlers # <<>> /\ Report(0, FALSE)
        /\ NextBlock([node |-> "if_else"], <<>>)
    BY <1>2 DEF Else, InBlock, Visit
  <2>2. QED
    BY <2>1, NextBlockKeepsNames, VisitKeepsNames
<1>3. CASE EndIf \/ EndFor \/ EndForeach \/ EndWhile
  <2>1. /\ phase = "statements" /\ handlers # <<>> /\ \E b : Return(b)
        /\ UNCHANGED <<errors, phase, visits>>
    BY <1>3 DEF EndIf, EndFor, EndForeach, EndWhile, InBlock
  <2>2. \E s : BindsNothing(s) /\ WroteBlock(s)
    BY <1>3 DEF EndIf, EndFor, EndForeach, EndWhile, BindsNothing
  <2>3. QED
    BY <2>1, <2>2, ReturnKeepsNames
<1>4. ASSUME NEW c \in Conditions, EndRepeat(c) PROVE NamesKept
  <2>1. /\ phase = "statements" /\ handlers # <<>> /\ \E b : Return(b) /\ UNCHANGED visits
        /\ phase' \in {phase, "crash"} /\ errors' \in {errors, errors + 1}
    BY <1>4 DEF EndRepeat, ReturnRepeat, InBlock
  <2>2. \E s : BindsNothing(s) /\ WroteBlock(s)
    BY <1>4 DEF EndRepeat, BindsNothing
  <2>3. QED
    BY <2>1, <2>2, ReturnKeepsNames
<1>5. QED
  BY <1>1, <1>2, <1>3, <1>4 DEF CloseBlock

-----------------------------------------------------------------------------
(* The statements that bind names.                                         *)
LEMMA AddedEntry ==
  ASSUME NEW m, DOMAIN m = Names, NEW name, NEW v, NEW position
  PROVE  LET t == TableAdd(m, name, v, position)
         IN  /\ DOMAIN t = Names
             /\ \A n \in Names : IF n = Lower(name) THEN t[n] # Absent /\ t[n].position = position
                                 ELSE t[n] = m[n]
<1>. DEFINE x == Entry(v, position)
<1>1. x # Absent /\ x.position = position
  <2>1. x.node = "mapping" /\ Absent.node = "absent" /\ x.position = position
    BY DEF Entry, Absent
  <2>2. QED
    BY <2>1
<1>. HIDE DEF x
<1>2. TableAdd(m, name, v, position) = [m EXCEPT ![Lower(name)] = x]
  BY DEF TableAdd, x
<1>3. QED
  BY <1>1, <1>2

(* Of names that are declared together each is bound to a variable.        *)
LEMMA DeclaredBound ==
  ASSUME NEW table, DOMAIN table = Names, NEW names, IsList(names), NEW at, NEW type
  PROVE  LET t == DeclareIn(table, names, at, type)
         IN  \A n \in Names : IF \E k \in 1 .. Len(names) : Lower(names[k]) = n
                              THEN t[n] # Absent /\ t[n].position = 0
                              ELSE t[n] = table[n]
<1>. DEFINE l == Len(names)
            f == DeclaredOf(table, names, at, type, l)
            Among(n, i) == \E k \in 1 .. i : Lower(names[k]) = n
            Right(t, i) ==
              /\ DOMAIN t = Names
              /\ \A n \in Names : IF Among(n, i) THEN t[n] # Absent /\ t[n].position = 0
                                  ELSE t[n] = table[n]
            Bad == {i \in 0 .. l : ~Right(f[i], i)}
<1>1. l \in Nat
  BY ListFacts
<1>2. DeclareIn(table, names, at, type) = f[l]
  BY DEF DeclareIn, DeclaredOf, AddedVariable
<1>. HIDE DEF l
<1>4. \A i \in 0 .. l : f[i] = IF i = 0 THEN table
                              ELSE AddedVariable(f[i - 1], names, at, type, i)
  BY <1>1, DeclaredSteps
<1>. HIDE DEF f
<1>5. Right(f[0], 0)
  <2>1. f[0] = table
    BY <1>1, <1>4
  <2>2. \A n : ~Among(n, 0)
    OBVIOUS
  <2>. HIDE DEF Among
  <2>3. QED
    BY <2>1, <2>2
<1>6. ASSUME NEW i \in 1 .. l, Right(f[i - 1], i - 1) PROVE Right(f[i], i)
  <2>1. i \in 0 .. l /\ i # 0
    BY <1>1
  <2>2. f[i] = TableAdd(f[i - 1], names[i], VariableRef(IdentifierAt(at, i), type), 0)
    BY <1>4, <2>1 DEF AddedVariable
  <2>3. \A n : Among(n, i) <=> Among(n, i - 1) \/ n = Lower(names[i])
    <3>1. \A k : k \in 1 .. i <=> k \in 1 .. i - 1 \/ k = i
      BY <1>1
    <3>2. QED
      BY <3>1
  <2>. HIDE DEF Among
  <2>4. /\ DOMAIN f[i] = Names
        /\ \A n \in Names : IF n = Lower(names[i]) THEN f[i][n] # Absent /\ f[i][n].position = 0
                            ELSE f[i][n] = f[i - 1][n]
    BY <1>6, <2>2, AddedEntry
  <2>5. QED
    BY <1>6, <2>3, <2>4
<1>. HIDE DEF Right
<1>7. ASSUME Bad # {} PROVE FALSE
  <2>1. PICK i \in Bad : \A j \in Bad : i <= j
    <3>1. Bad \subseteq Nat
      BY <1>1
    <3>2. QED
      BY <1>7, <3>1, LeastOf
  <2>2. i # 0
    BY <1>5, <2>1
  <2>3. i \in 1 .. l /\ i - 1 \in 0 .. l /\ ~(i <= i - 1)
    BY <1>1, <2>1, <2>2
  <2>4. Right(f[i - 1], i - 1)
    BY <2>1, <2>3
  <2>5. QED
    BY <1>6, <2>1, <2>3, <2>4
<1>8. Right(f[l], l)
  BY <1>1, <1>7
<1>9. QED
  BY <1>2, <1>8 DEF Right, l

(* A statement that binds names, in the global scope or in a block.        *)
LEMMA BindingStepBound ==
  ASSUME AllInv, phase = "statements", NEW n \in Nat, NEW crashed, Report(n, crashed),
         NEW s, Wrote(s), UNCHANGED handlers, NEW m,
         Binds(s) \subseteq Names, Bound(Current.mappings, s, visits + 1, m),
         errors' = 0 /\ phase' = "statements" =>
           scope_stack' = [scope_stack EXCEPT ![Len(scope_stack)].mappings = m]
  PROVE  BoundInv'
<1>1. /\ IsList(handlers) /\ Nested(scope_stack, handlers) /\ Tables(scope_stack)
      /\ Books(written, handlers) /\ errors \in Nat /\ visits \in Nat
  BY HandlersListed
<1>2. /\ Books(written', handlers')
      /\ written'[1] = IF handlers = <<>> THEN Append(written[1], s) ELSE written[1]
  BY <1>1, WroteBooks
<1>3. phase' \in {"statements", "crash"} /\ MappingsListed'
  BY DEF Report, MappingsListed
<1>4. ASSUME phase' = "statements", errors' = 0
      PROVE  Listed(GlobalNames(scope_stack'), written'[1], visits')
  <2>1. errors = 0 /\ visits' = visits + 1
    BY <1>1, <1>4 DEF Report
  <2>2. Listed(GlobalNames(scope_stack), written[1], visits) /\ IsList(written[1])
    BY <1>1, <2>1 DEF AllInv, BoundInv, Books
  <2>3. GlobalNames(scope_stack') = IF handlers = <<>> THEN m ELSE GlobalNames(scope_stack)
    BY <1>1, <1>4, NamesGlobal
  <2>4. CASE handlers # <<>>
    BY <1>1, <1>2, <2>1, <2>2, <2>3, <2>4, ListedLater
  <2>5. CASE handlers = <<>>
    <3>1. Current.mappings = GlobalNames(scope_stack)
      BY <1>1, <2>5 DEF Nested, Current, GlobalNames
    <3>2. visits' \in Nat /\ visits < visits' /\ visits <= visits'
      BY <1>1, <2>1
    <3>3. Bound(GlobalNames(scope_stack), s, visits', m)
      BY <2>1, <3>1
    <3>4. Listed(m, Append(written[1], s), visits')
      BY <1>1, <2>2, <3>2, <3>3, ListedAdded
    <3>5. QED
      BY <1>2, <2>3, <2>5, <3>4
  <2>6. QED
    BY <2>4, <2>5
<1>5. QED
  BY <1>2, <1>3, <1>4 DEF BoundInv

LEMMA MappingStepBound ==
  ASSUME AllInv, NEW decl \in MappingDecls, VisitMapping(decl)
  PROVE  BoundInv'
<1>. DEFINE v == AnalyzeExpression(Current.mappings, decl.expr)
            m == TableAdd(Current.mappings, decl.alias, v, visits + 1)
            s == [node |-> "mapping", alias |-> decl.alias, expr |-> decl.expr]
<1>1. MapTo(decl.alias, v) /\ phase = "statements" /\ Wrote(s) /\ UNCHANGED handlers
  BY DEF VisitMapping, Visit
<1>2. Binds(s) = {Lower(decl.alias)} /\ s.node = "mapping" /\ Lower(decl.alias) \in Names
  BY AlphabetAssumption DEF Binds
<1>3. DOMAIN Current.mappings = Names
  BY CurrentTable DEF AllInv, Table
<1>. HIDE DEF s, v
<1>4. Bound(Current.mappings, s, visits + 1, m)
  <2>. DEFINE table == Current.mappings
  <2>. HIDE DEF table
  <2>1. \A n \in Names : IF n = Lower(decl.alias) THEN m[n] # Absent /\ m[n].position = visits + 1
                         ELSE m[n] = table[n]
    BY <1>3, AddedEntry DEF table
  <2>. HIDE DEF m
  <2>2. QED
    BY <1>2, <2>1 DEF Bound, table
<1>5. /\ Report(IF v = Error THEN 1 ELSE 0, v = Crash)
      /\ ~Failed(v) => scope_stack' = [scope_stack EXCEPT ![Len(scope_stack)].mappings = m]
  BY <1>1 DEF MapTo, Current
<1>. HIDE DEF m
<1>6. errors' = 0 /\ phase' = "statements" => ~Failed(v)
  <2>1. errors \in Nat
    BY HandlersListed
  <2>2. Failed(v) => v = Error \/ v = Crash
    BY DEF Failed
  <2>3. v = Error => errors' = errors + 1
    BY <1>5 DEF Report
  <2>4. v = Crash => phase' = "crash"
    BY <1>5 DEF Report
  <2>5. QED
    BY <2>1, <2>2, <2>3, <2>4
<1>7. (IF v = Error THEN 1 ELSE 0) \in Nat
  OBVIOUS
<1>8. QED
  BY <1>1, <1>2, <1>4, <1>5, <1>6, <1>7, BindingStepBound

LEMMA VariablesStepBound ==
  ASSUME AllInv, NEW decl \in VariableDecls, VisitVariables(decl)
  PROVE  BoundInv'
<1>. DEFINE type == ScalarType(KindOfVariable[Lower(decl.type)], TRUE)
            m == DeclareIn(Current.mappings, decl.names, visits + 1, type)
            s == [node |-> "variables", at |-> visits + 1, type |-> decl.type, names |-> decl.names]
            ok == root.version >= 11 /\ Lower(decl.type) \in DOMAIN KindOfVariable
<1>1. /\ phase = "statements" /\ Wrote(s) /\ UNCHANGED handlers
      /\ Report(IF ok THEN 0 ELSE 1, FALSE)
      /\ ok => scope_stack' = [scope_stack EXCEPT ![Len(scope_stack)].mappings = m]
  BY DEF VisitVariables, Visit, Current
<1>2. IsList(decl.names) /\ \A name \in Range(decl.names) : Lower(name) \in Names
  BY AlphabetAssumption
<1>3. Binds(s) = {Lower(name) : name \in Range(decl.names)} /\ s.node # "mapping"
  BY DEF Binds
<1>. HIDE DEF ok, s
<1>4. Binds(s) \subseteq Names
  BY <1>2, <1>3
<1>5. Bound(Current.mappings, s, visits + 1, m)
  <2>. DEFINE table == Current.mappings
  <2>1. DOMAIN table = Names
    BY CurrentTable DEF AllInv, Table
  <2>. HIDE DEF table, type
  <2>2. \A n \in Names : IF \E k \in 1 .. Len(decl.names) : Lower(decl.names[k]) = n
                         THEN m[n] # Absent /\ m[n].position = 0
                         ELSE m[n] = table[n]
    BY <1>2, <2>1, DeclaredBound DEF table
  <2>. HIDE DEF m
  <2>3. \A n : n \in Binds(s) <=> \E k \in 1 .. Len(decl.names) : Lower(decl.names[k]) = n
    <3>1. DOMAIN decl.names = 1 .. Len(decl.names)
      BY <1>2, ListFacts
    <3>2. QED
      BY <1>3, <3>1 DEF Range
  <2>4. QED
    BY <1>3, <2>2, <2>3 DEF Bound, table
<1>. HIDE DEF m
<1>6. errors' = 0 => ok
  <2>1. errors \in Nat
    BY HandlersListed
  <2>2. ~ok => errors' = errors + 1
    BY <1>1 DEF Report
  <2>3. QED
    BY <2>1, <2>2
<1>7. (IF ok THEN 0 ELSE 1) \in Nat
  OBVIOUS
<1>8. QED
  BY <1>1, <1>4, <1>5, <1>6, <1>7, BindingStepBound

-----------------------------------------------------------------------------
(* The beginning and the end.                                              *)
Predefined(m) == DOMAIN m = Names /\ \A n \in Names : m[n] # Absent => m[n].position = 0

LEMMA PredefinedAdded ==
  ASSUME NEW m, Predefined(m), NEW name, NEW v
  PROVE  Predefined(TableAdd(m, name, v, 0))
<1>. DEFINE t == TableAdd(m, name, v, 0)
<1>1. /\ DOMAIN t = Names
      /\ \A n \in Names : IF n = Lower(name) THEN t[n] # Absent /\ t[n].position = 0
                          ELSE t[n] = m[n]
  BY AddedEntry DEF Predefined
<1>. HIDE DEF t
<1>2. Predefined(t)
  BY <1>1 DEF Predefined
<1>3. QED
  BY <1>2 DEF t

LEMMA PredefinedListed ==
  ASSUME NEW m, Predefined(m), NEW v \in Nat
  PROVE  Listed(m, <<>>, v)
<1>1. Saved(m) = {}
  BY DEF Predefined, Saved
<1>2. PlacedBy(m, v)
  <2>1. 0 \in 0 .. v
    OBVIOUS
  <2>2. QED
    BY <2>1 DEF Predefined, PlacedBy
<1>3. 1 .. Len(<<>>) = {}
  OBVIOUS
<1>4. QED
  BY <1>1, <1>2, <1>3 DEF Listed, NamesBound, Decided, SavedDecided, InOrder

LEMMA StartStepBound ==
  ASSUME AllInv, NEW count, Start(count)
  PROVE  BoundInv'
<1>1. PICK n : StartWith(n)
  BY DEF Start
<1>2. /\ phase = "new" /\ UNCHANGED <<handlers, written, visits>>
  BY <1>1 DEF StartWith
<1>3. Books(written', handlers') /\ written'[1] = <<>> /\ visits' \in Nat
  BY <1>2, HandlersListed DEF AllInv, BoundInv
<1>4. Predefined(GlobalNames(scope_stack'))
  <2>1. Predefined(InitialMappings)
    <3>1. \A n1 \in Names : InitialMappings[n1] =
            IF n1 \in DOMAIN Mappings THEN Entry(Mappings[n1], 0) ELSE Absent
      BY DEF InitialMappings
    <3>2. DOMAIN InitialMappings = Names
      BY DEF InitialMappings
    <3>3. \A x : Entry(x, 0).position = 0
      BY DEF Entry
    <3>4. QED
      BY <3>1, <3>2, <3>3 DEF Predefined
  <2>. DEFINE m == WithRegisters(InitialMappings, n.value)
              s == [GlobalScope EXCEPT !.mappings = m]
  <2>2. Predefined(m)
    BY <2>1, PredefinedAdded DEF WithRegisters
  <2>. HIDE DEF m
  <2>3. "mappings" \in DOMAIN GlobalScope /\ GlobalScope.mappings = InitialMappings
    BY DEF GlobalScope
  <2>4. s.mappings = m
    BY <2>3
  <2>5. scope_stack' = <<GlobalScope>> \/ scope_stack' = <<s>>
    BY <1>1, <2>3 DEF StartWith, m
  <2>. HIDE DEF s
  <2>6. ASSUME NEW x PROVE GlobalNames(<<x>>) = x.mappings
    BY DEF GlobalNames
  <2>7. QED
    BY <2>1, <2>2, <2>3, <2>4, <2>5, <2>6
<1>5. Listed(GlobalNames(scope_stack'), written'[1], visits')
  BY <1>3, <1>4, PredefinedListed
<1>6. phase' # "new" /\ MappingsListed'
  <2>. DEFINE missing == n = Absent /\ file < 11
              bad == n # Absent /\ ~Positive(n)
  <2>1. errors' = (IF file > api THEN 1 ELSE 0) + (IF missing \/ bad THEN 1 ELSE 0)
    BY <1>1 DEF StartWith
  <2>2. phase' # "new" /\ (phase' = "returned" => missing)
    BY <1>1 DEF StartWith
  <2>. HIDE DEF missing, bad
  <2>3. missing => errors' # 0
    BY <2>1
  <2>4. QED
    BY <2>2, <2>3 DEF MappingsListed
<1>7. QED
  BY <1>3, <1>5, <1>6 DEF BoundInv

LEMMA FinishBound ==
  ASSUME AllInv, Finish
  PROVE  BoundInv'
<1>. DEFINE table == Current.mappings
            w == written[1]
            missing == IF LooksUpTargets
                       THEN Cardinality(Duplicates) + Cardinality(Unresolved) ELSE 0
<1>1. /\ phase = "statements" /\ Len(scope_stack) = 1
      /\ UNCHANGED <<scope_stack, handlers, written, visits>>
      /\ phase' \in {"internal error", "returned"}
      /\ root' = [root EXCEPT !.mappings = FinalMappings,
                              !.resolved = IF LooksUpTargets THEN SubcircuitNames ELSE {}]
  BY DEF Finish, IsGlobal
<1>2. Books(written, handlers) /\ errors \in Nat /\ visits \in Nat
  BY HandlersListed
<1>0. errors' = errors + missing
  BY DEF Finish
<1>3. missing \in Nat
  <2>1. Cardinality(Duplicates) \in Nat /\ Cardinality(Unresolved) \in Nat
    BY LookupsCounted DEF AllInv, JumpInv, TypeInv, Repeating
  <2>2. QED
    BY <2>1
<1>. HIDE DEF missing
<1>4. errors' = 0 => errors = 0
  BY <1>0, <1>2, <1>3
<1>5. root'.mappings = FinalMappings
  <2>1. "mappings" \in DOMAIN root
    BY DEF AllInv, JumpInv, Counting
  <2>2. QED
    BY <1>1, <2>1
<1>6. /\ DOMAIN FinalMappings = 1 .. Cardinality(Saved(table))
      /\ FinalMappings = [k \in 1 .. Cardinality(Saved(table)) |-> FinalMappings[k]]
      /\ \A k \in 1 .. Cardinality(Saved(table)) : FinalMappings[k].name = NameAt(table, k)
  BY DEF FinalMappings, NameAt, Earlier
<1>7. ASSUME errors' = 0 PROVE /\ Len(root'.mappings) = Cardinality(Holding)
                               /\ \A k \in DOMAIN root'.mappings :
                                    Binds(w[Nth(Holding, k)]) = {root'.mappings[k].name}
  <2>1. table = GlobalNames(scope_stack)
    BY <1>1 DEF Current, GlobalNames
  <2>2. Listed(table, w, visits) /\ IsList(w)
    BY <1>1, <1>2, <1>4, <1>7, <2>1 DEF AllInv, BoundInv, Books
  <2>3. Holding = HoldingIn(w)
    BY DEF Holding, HoldingIn
  <2>. HIDE DEF table, w
  <2>4. /\ Cardinality(Saved(table)) = Cardinality(Holding)
        /\ Cardinality(Saved(table)) \in Nat
        /\ \A k \in 1 .. Cardinality(Saved(table)) : Binds(w[Nth(Holding, k)]) = {NameAt(table, k)}
    BY <1>2, <2>2, <2>3, NamesListed
  <2>. DEFINE s == FinalMappings
  <2>. HIDE DEF s
  <2>5. Len(s) = Cardinality(Saved(table))
    BY <1>6, <2>4 DEF s
  <2>6. QED
    BY <1>5, <1>6, <2>4, <2>5 DEF s
<1>8. MappingsListed'
  <2>1. Holding' = Holding
    BY <1>1 DEF Holding
  <2>2. QED
    BY <1>1, <1>7, <2>1 DEF MappingsListed
<1>9. QED
  BY <1>1, <1>2, <1>8 DEF BoundInv

LEMMA BoundInit == Init => BoundInv
<1> SUFFICES ASSUME Init PROVE BoundInv
  OBVIOUS
<1>1. written = <<<<>>>> /\ handlers = <<>> /\ phase = "new"
  BY DEF Init
<1>2. IsList(<<>>) /\ IsList(<<<<>>>>)
  BY DEF IsList, Range
<1>3. Len(written) = 1 + Len(handlers) /\ written[1] = <<>>
  BY <1>1
<1>4. QED
  BY <1>1, <1>2, <1>3 DEF BoundInv, Books, MappingsListed

(* Which steps bind a name in the global scope.                            *)
LEMMA StatementKeepsNames ==
  ASSUME AllInv, VisitStatement \/ CloseBlock
  PROVE  \/ NamesKept
         \/ \E d \in MappingDecls : VisitMapping(d)
         \/ \E d \in VariableDecls : VisitVariables(d)
BY PlainKeepsNames, BundleKeepsNames, OpenKeepsNames, CloseKeepsNames

LEMMA BoundNext ==
  ASSUME AllInv, [Next]_vars
  PROVE  BoundInv'
<1>1. ASSUME NEW count \in QubitCounts, Start(count) PROVE BoundInv'
  BY <1>1, StartStepBound
<1>2. CASE NamesKept
  BY <1>2, HandlersListed, NothingBound DEF AllInv
<1>3. CASE VisitStatement \/ CloseBlock
  <2>1. \/ NamesKept
        \/ \E d \in MappingDecls : VisitMapping(d)
        \/ \E d \in VariableDecls : VisitVariables(d)
    BY <1>3, StatementKeepsNames
  <2>2. QED
    BY <1>2, <2>1, MappingStepBound, VariablesStepBound
<1>4. CASE Finish
  BY <1>4, FinishBound
<1>5. CASE UNCHANGED vars
  <2>1. UNCHANGED <<scope_stack, handlers, phase, errors, written, root, visits>>
    BY <1>5 DEF vars
  <2>2. Holding' = Holding
    BY <2>1 DEF Holding
  <2>3. MappingsListed'
    BY <2>1, <2>2 DEF AllInv, BoundInv, MappingsListed
  <2>4. QED
    BY <2>1, <2>3 DEF AllInv, BoundInv
<1>6. QED
  BY <1>1, <1>2, <1>3, <1>4, <1>5 DEF Next

(* Whatever is mapped and declared in which order, in whatever case, in    *)
(* the global scope and in blocks: the mappings of a tree without errors   *)
(* are the map statements of the global scope whose names were not bound   *)
(* again, one for each and in their order.                                 *)
THEOREM MappingsListedHolds == Spec => []MappingsListed
<1>1. IInv /\ FitInv /\ JumpInv /\ TypeInv /\ BoundInv /\ [Next]_vars
        => (IInv /\ FitInv /\ JumpInv /\ TypeInv /\ BoundInv)'
  BY NextInv, FitNext, JumpNext, TypeNext, BoundNext DEF AllInv
<1>2. BoundInv => MappingsListed
  BY DEF BoundInv
<1>3. QED
  BY <1>1, <1>2, InitInv, FitInit, JumpInit, TypeInit, BoundInit, PTL DEF Spec

-----------------------------------------------------------------------------
(* What is analyzed depends on no more than the version and the values of  *)
(* the names.                                                              *)
SameValues(m, k) ==
  \A n \in Names : (m[n] = Absent <=> k[n] = Absent) /\ (m[n] # Absent => m[n].value = k[n].value)

LEMMA SameNamed ==
  ASSUME NEW m, NEW k, SameValues(m, k), NEW name, Lower(name) \in Names
  PROVE  ResolveName(m, name) = ResolveName(k, name)
BY DEF SameValues, ResolveName

LEMMA SameSimple ==
  ASSUME NEW m, NEW k, SameValues(m, k), NEW e, IsSimple(e)
  PROVE  SimpleValue(m, e) = SimpleValue(k, e)
<1>1. CASE e.node = "literal"
  BY <1>1 DEF SimpleValue
<1>2. CASE e.node \in {"identifier", "index"} /\ Lower(e.name) \in Names
  <2>1. ResolveName(m, e.name) = ResolveName(k, e.name)
    BY <1>2, SameNamed
  <2>2. QED
    BY <1>2, <2>1 DEF SimpleValue
<1>3. QED
  BY <1>1, <1>2 DEF IsSimple

LEMMA SameExpression ==
  ASSUME NEW m, NEW k, SameValues(m, k), NEW e, IsExpression(e)
  PROVE  AnalyzeExpression(m, e) = AnalyzeExpression(k, e)
<1>1. CASE e.node = "matrix"
  <2>. DEFINE rows == e.rows
              ragged == \E i \in DOMAIN rows : Len(rows[i]) # Len(rows[1])
  <2>1. IsList(rows) /\ \A i \in DOMAIN rows : IsList(rows[i]) /\ \A a \in Range(rows[i]) : IsSimple(a)
    <3>1. \A i \in DOMAIN rows : rows[i] \in Range(rows)
      BY DEF Range
    <3>2. QED
      BY <1>1, <3>1 DEF IsExpression, IsSimple
  <2>2. ASSUME ~ragged PROVE Elements(m, rows) = Elements(k, rows)
    <3>1. ASSUME NEW i \in DOMAIN rows, NEW j \in DOMAIN rows[1]
          PROVE  SimpleValue(m, rows[i][j]) = SimpleValue(k, rows[i][j])
      <4>1. 1 \in DOMAIN rows
        BY <2>1, ListFacts
      <4>2. DOMAIN rows[i] = 1 .. Len(rows[i]) /\ DOMAIN rows[1] = 1 .. Len(rows[1])
        BY <2>1, <4>1, ListFacts
      <4>3. Len(rows[i]) = Len(rows[1])
        BY <2>2
      <4>4. rows[i][j] \in Range(rows[i])
        BY <4>2, <4>3 DEF Range
      <4>5. QED
        BY <2>1, <4>4, SameSimple
    <3>. HIDE DEF rows
    <3>2. \A x : x \in Elements(m, rows) <=> x \in Elements(k, rows)
      BY <3>1 DEF Elements
    <3>3. QED
      BY <3>2, Zenon
  <2>3. \A t : AnalyzeExpression(t, e) =
                 IF ragged THEN Error ELSE MatrixOf(Elements(t, rows), Len(rows), Len(rows[1]))
    BY <1>1 DEF AnalyzeExpression, MatrixValue
  <2>. HIDE DEF rows, ragged
  <2>4. QED
    BY <2>2, <2>3
<1>2. CASE e.node = "call"
  <2>1. \A i \in DOMAIN e.args : IsSimple(e.args[i])
    BY <1>2 DEF IsExpression, IsSimple, Range
  <2>2. \A i \in DOMAIN e.args : SimpleValue(m, e.args[i]) = SimpleValue(k, e.args[i])
    BY <2>1, SameSimple
  <2>3. [i \in DOMAIN e.args |-> SimpleValue(m, e.args[i])] =
        [i \in DOMAIN e.args |-> SimpleValue(k, e.args[i])]
    BY <2>2
  <2>4. QED
    BY <1>2, <2>3 DEF AnalyzeExpression
<1>3. CASE IsSimple(e)
  BY <1>3, SameSimple DEF AnalyzeExpression, IsSimple
<1>4. QED
  BY <1>1, <1>2, <1>3 DEF IsExpression

(* ... and the version does not change.                                    *)
LEMMA SameVersion ==
  ASSUME api' = api
  PROVE  \A m, e : AnalyzeExpression(m, e)' = AnalyzeExpression(m, e)
<1>1. \A v : OnlyFromVersion11(v)' = OnlyFromVersion11(v)
  BY DEF OnlyFromVersion11
<1>2. \A m, e : SimpleValue(m, e)' = SimpleValue(m, e)
  BY <1>1 DEF SimpleValue
<1>3. \A name, args : FunctionValue(name, args)' = FunctionValue(name, args)
  BY <1>1 DEF FunctionValue
<1>4. ASSUME NEW m, NEW rows PROVE MatrixValue(m, rows)' = MatrixValue(m, rows)
  <2>1. \A x : x \in Elements(m, rows)' <=> x \in Elements(m, rows)
    BY <1>2 DEF Elements
  <2>2. Elements(m, rows)' = Elements(m, rows)
    BY <2>1, Zenon
  <2>3. QED
    BY <2>2 DEF MatrixValue
<1>5. ASSUME NEW m, NEW args
      PROVE  [i \in DOMAIN args |-> SimpleValue(m, args[i])'] =
             [i \in DOMAIN args |-> SimpleValue(m, args[i])]
  BY <1>2
<1>6. ASSUME NEW m, NEW e PROVE AnalyzeExpression(m, e)' = AnalyzeExpression(m, e)
  <2>1. CASE e.node = "call"
    BY <1>3, <1>5, <2>1 DEF AnalyzeExpression
  <2>2. CASE e.node # "call"
    BY <1>2, <1>4, <2>2 DEF AnalyzeExpression
  <2>3. QED
    BY <2>1, <2>2
<1>7. QED
  BY <1>6

-----------------------------------------------------------------------------
(* The division of the library, put together from that of C++, is that of  *)
(* mathematics.                                                            *)
IsFloor(a, b, q) ==
  IF b > 0 THEN q * b <= a /\ a < (q + 1) * b ELSE q * b >= a /\ a > (q + 1) * b

LEMMA Division ==
  ASSUME NEW x \in Nat, NEW y \in Nat \ {0}
  PROVE  LET p == x \div y
             t == p * y
         IN  p \in Nat /\ p <= x /\ t \in Nat /\ t <= x /\ x < t + y
<1>. DEFINE p == x \div y
<1>1. p \in Nat /\ p * y \in Nat /\ p * y <= x /\ x < p * y + y
  OBVIOUS
<1>. HIDE DEF p
<1>2. p <= p * y
  BY <1>1
<1>3. p <= x
  BY <1>1, <1>2
<1>4. QED
  BY <1>1, <1>3 DEF p

LEMMA FloorUnique ==
  ASSUME NEW a \in Int, NEW b \in Int, b # 0, NEW q \in Int, NEW r \in Int,
         IsFloor(a, b, q), IsFloor(a, b, r)
  PROVE  q = r
<1>1. ASSUME NEW s \in Int, NEW t \in Int, IsFloor(a, b, s), IsFloor(a, b, t) PROVE ~(s > t)
  <2>1. SUFFICES ASSUME s > t PROVE FALSE
    OBVIOUS
  <2>. DEFINE d == s - t - 1
              c == IF b > 0 THEN b ELSE -b
  <2>2. d \in Nat /\ c \in Nat /\ s = t + 1 + d
    BY <2>1
  <2>. HIDE DEF d
  <2>3. d * c \in Nat
    BY <2>2
  <2>4. CASE b > 0
    <3>1. s * b = (t + 1) * b + d * b /\ c = b
      BY <2>2, <2>4
    <3>2. s * b <= a /\ a < (t + 1) * b /\ s * b \in Int /\ (t + 1) * b \in Int
      BY <1>1, <2>4 DEF IsFloor
    <3>3. QED
      BY <2>3, <3>1, <3>2
  <2>5. CASE b < 0
    <3>1. s * b = (t + 1) * b + d * b /\ d * b = -(d * c)
      BY <2>2, <2>5
    <3>2. s * b >= a /\ a > (t + 1) * b /\ s * b \in Int /\ (t + 1) * b \in Int
      BY <1>1, <2>5 DEF IsFloor
    <3>3. QED
      BY <2>3, <3>1, <3>2
  <2>6. QED
    BY <2>4, <2>5
<1>2. QED
  BY <1>1

LEMMA DivisionIsFloor ==
  ASSUME NEW a \in Int, NEW b \in Int, b # 0
  PROVE  /\ IsFloor(a, b, DivFloor(a, b)) /\ DivFloor(a, b) \in -Magnitude(a) .. Magnitude(a)
         /\ ModFloor(a, b) = a - b * DivFloor(a, b)
<1>. DEFINE x == Magnitude(a)
            y == Magnitude(b)
            p == x \div y
            t == p * y
            q == Quotient(a, b)
            c == Adjusts(a, b)
            f == DivFloor(a, b)
<1>1. x \in Nat /\ y \in Nat \ {0}
  BY DEF Magnitude
<1>2. p \in Nat /\ p <= x /\ t \in Nat /\ t <= x /\ x < t + y
  BY <1>1, Division
<1>3. a = (IF a < 0 THEN -x ELSE x) /\ b = (IF b < 0 THEN -y ELSE y)
  BY DEF Magnitude
<1>4. q = IF (a < 0) = (b < 0) THEN p ELSE -p
  BY DEF Quotient
<1>. HIDE DEF x, y, q
<1>. HIDE DEF p
<1>5. b * q = (IF a < 0 THEN -t ELSE t)
  <2>1. CASE a < 0 /\ b < 0
    BY <1>1, <1>2, <1>3, <1>4, <2>1
  <2>2. CASE a < 0 /\ ~(b < 0)
    BY <1>1, <1>2, <1>3, <1>4, <2>2
  <2>3. CASE ~(a < 0) /\ b < 0
    BY <1>1, <1>2, <1>3, <1>4, <2>3
  <2>4. CASE ~(a < 0) /\ ~(b < 0)
    BY <1>1, <1>2, <1>3, <1>4, <2>4
  <2>5. QED
    BY <2>1, <2>2, <2>3, <2>4
<1>6. q \in Int /\ -x <= q /\ q <= x
  BY <1>1, <1>2, <1>4
<1>7. b * q \in Int /\ q * b = b * q /\ (q + 1) * b = b * q + b /\ (q - 1) * b = b * q - b
  BY <1>6
<1>. HIDE DEF t
<1>8. /\ Remainder(a, b) = a - b * q
      /\ c <=> Remainder(a, b) # 0 /\ (Remainder(a, b) < 0) # (b < 0)
      /\ f = q - (IF c THEN 1 ELSE 0)
      /\ ModFloor(a, b) = IF c THEN Remainder(a, b) + b ELSE Remainder(a, b)
  BY DEF Remainder, Adjusts, DivFloor, ModFloor, q
<1>. HIDE DEF c, f
<1>9. c <=> x # t /\ (a < 0) # (b < 0)
  BY <1>1, <1>2, <1>3, <1>5, <1>8
<1>10. IsFloor(a, b, f)
  <2>1. CASE c
    <3>1. f = q - 1 /\ f * b = b * q - b /\ (f + 1) * b = b * q
      BY <1>6, <1>7, <1>8, <2>1
    <3>2. QED
      BY <1>1, <1>2, <1>3, <1>5, <1>9, <2>1, <3>1 DEF IsFloor
  <2>2. CASE ~c
    <3>1. f = q /\ f * b = b * q /\ (f + 1) * b = b * q + b
      BY <1>6, <1>7, <1>8, <2>2
    <3>2. QED
      BY <1>1, <1>2, <1>3, <1>5, <1>9, <2>2, <3>1 DEF IsFloor
  <2>3. QED
    BY <2>1, <2>2
<1>11. f \in -x .. x
  <2>1. CASE c
    <3>1. q = -p /\ f = -p - 1 /\ x # t
      BY <1>4, <1>6, <1>8, <1>9, <2>1
    <3>2. p # x
      <4>1. SUFFICES ASSUME p = x PROVE FALSE
        OBVIOUS
      <4>2. t = x * y /\ t <= x /\ t # x
        BY <1>2, <3>1, <4>1 DEF t
      <4>3. x * y >= x
        BY <1>1
      <4>4. QED
        BY <1>1, <1>2, <4>2, <4>3
    <3>3. QED
      BY <1>1, <1>2, <3>1, <3>2
  <2>2. CASE ~c
    BY <1>1, <1>6, <1>8, <2>2
  <2>3. QED
    BY <2>1, <2>2
<1>12. ModFloor(a, b) = a - b * f
  <2>1. CASE c
    <3>1. f = q - 1 /\ b * f = b * q - b
      BY <1>6, <1>7, <1>8, <2>1
    <3>2. QED
      BY <1>7, <1>8, <2>1, <3>1
  <2>2. CASE ~c
    <3>1. f = q
      BY <1>6, <1>8, <2>2
    <3>2. QED
      BY <1>8, <2>2, <3>1
  <2>3. QED
    BY <2>1, <2>2
<1>13. QED
  BY <1>10, <1>11, <1>12 DEF f, x

LEMMA FloorIsDivision ==
  ASSUME NEW a \in Int, NEW b \in Int, b # 0
  PROVE  FloorOf(a, b) = DivFloor(a, b)
<1>. DEFINE range == -Magnitude(a) .. Magnitude(a)
            q == CHOOSE q \in range : IsFloor(a, b, q)
<1>1. FloorOf(a, b) = q
  BY DEF FloorOf, IsFloor
<1>2. DivFloor(a, b) \in range /\ IsFloor(a, b, DivFloor(a, b))
  BY DivisionIsFloor
<1>3. range \subseteq Int
  BY DEF Magnitude
<1>. HIDE DEF range
<1>4. q \in range /\ IsFloor(a, b, q)
  BY <1>2
<1>. HIDE DEF q
<1>5. q = DivFloor(a, b)
  BY <1>2, <1>3, <1>4, FloorUnique
<1>6. QED
  BY <1>1, <1>5

-----------------------------------------------------------------------------
LEMMA FailureFailed ==
  ASSUME NEW args, IsList(args), FirstFailure(args) # Absent
  PROVE  Failed(FirstFailure(args))
<1>. DEFINE bad == {i \in DOMAIN args : Failed(args[i])}
<1>1. bad # {} /\ FirstFailure(args) = args[Min(bad)]
  BY DEF FirstFailure
<1>2. bad \subseteq Nat
  BY ListFacts
<1>3. Min(bad) \in bad
  <2>. HIDE DEF bad
  <2>1. QED
    BY <1>1, <1>2, MinInSet
<1>4. QED
  BY <1>1, <1>3

LEMMA NoNumberFails ==
  /\ \A kind, n : ~Failed(Const(kind, n))
  /\ Failed(Error) /\ Failed(Crash)
BY DEF Failed, Error, Crash, Const

(* What // and % return is what mathematics has.                           *)
LEMMA DivisionsComputed ==
  ASSUME NEW args, IsList(args), \A i \in DOMAIN args : Valued(args[i]),
         NEW name \in {"//", "%"}, ~Failed(FunctionValue(name, args))
  PROVE  /\ DOMAIN args = {1, 2}
         /\ FunctionValue(name, args) = Divided(name, args[1].value, args[2].value)
<1>. DEFINE k == Resolve(Functions, name, args)
            f == Functions[k]
            int == ScalarType("int", FALSE)
            new == PromotedArgs(args, f.params)
            x == [i \in DOMAIN new |-> new[i].value]
<1>1. FirstFailure(args) = Absent
  BY FailureFailed DEF FunctionValue
<1>2. FunctionValue(name, args) = Call(Functions, name, args)
  BY <1>1, NoNumberFails DEF FunctionValue, OnlyFromVersion11
<1>3. Applicable(Functions, name, args) # {}
  BY <1>2, NoNumberFails DEF Call
<1>4. k \in DOMAIN Functions /\ Takes(f.params, args) /\ f.name = name
  BY <1>3, ResolveApplicable, FunctionsAssumption
<1>5. f.params = <<int, int>> /\ f.result = "int"
  BY <1>4, DivisionsAssumption
<1>6. Call(Functions, name, args) = CallImpl(f, new)
  BY <1>3 DEF Call
<1>. HIDE DEF k
<1>7. Len(args) = 2 /\ DOMAIN args = {1, 2}
  <2>1. Len(f.params) = 2
    BY <1>5
  <2>2. Len(args) = 2 /\ DOMAIN args = 1 .. 2
    BY <1>4, <2>1, ListFacts DEF Takes
  <2>3. QED
    BY <2>2
<1>8. f.params[1] = int /\ f.params[2] = int
  BY <1>5
<1>9. \A v : Promotable(v, int) => Promote(v, int) = v
  <2>1. \A v : ~Converts(v, int)
    BY DEF Converts, ScalarType
  <2>2. QED
    BY <2>1 DEF Promotable, Promote
<1>10. Promotable(args[1], int) /\ Promotable(args[2], int)
  BY <1>4, <1>7, <1>8 DEF Takes
<1>11. DOMAIN new = {1, 2} /\ new[1] = args[1] /\ new[2] = args[2]
  BY <1>7, <1>8, <1>9, <1>10 DEF PromotedArgs
<1>. HIDE DEF new, int
<1>12. \A i \in DOMAIN new : IsConst(new[i])
  BY <1>2, <1>6, NoNumberFails DEF CallImpl
<1>13. args[1].value \in Int /\ args[2].value \in Int
  BY <1>7, <1>11, <1>12 DEF Valued
<1>14. CallImpl(f, new) = Computed(name, "int", x)
  BY <1>4, <1>5, <1>12 DEF CallImpl
<1>15. Len(x) = 2 /\ x[1] = args[1].value /\ x[2] = args[2].value
  <2>1. DOMAIN x = 1 .. 2
    BY <1>11
  <2>2. x[1] = args[1].value /\ x[2] = args[2].value
    BY <1>11
  <2>3. x \in Seq({x[1], x[2]})
    BY <2>1
  <2>4. QED
    BY <2>1, <2>2, <2>3
<1>. HIDE DEF x
<1>16. Computed(name, "int", x) = ComputedInt(name, x)
  BY DEF Computed, Comparisons
<1>17. ~Traps(x[1], x[2]) /\ ComputedInt(name, x) = Const("int", IntArithmetic(name, x[1], x[2]))
  BY <1>2, <1>6, <1>14, <1>15, <1>16, NoNumberFails DEF ComputedInt
<1>18. x[2] # 0
  BY <1>17 DEF Traps
<1>19. IntArithmetic(name, x[1], x[2]) =
         IF name = "//" THEN DivFloor(x[1], x[2]) ELSE ModFloor(x[1], x[2])
  BY DEF IntArithmetic
<1>20. /\ FloorOf(x[1], x[2]) = DivFloor(x[1], x[2])
       /\ ModFloor(x[1], x[2]) = x[1] - x[2] * DivFloor(x[1], x[2])
  BY <1>13, <1>15, <1>18, FloorIsDivision, DivisionIsFloor
<1>21. Divided(name, x[1], x[2]) = Const("int", IntArithmetic(name, x[1], x[2]))
  BY <1>19, <1>20 DEF Divided
<1>22. QED
  BY <1>2, <1>6, <1>7, <1>14, <1>15, <1>16, <1>17, <1>21

LEMMA DenotesAnalyzed ==
  ASSUME NEW m, Table(m), NEW e, IsExpression(e), ~Failed(AnalyzeExpression(m, e))
  PROVE  Denotes(m, e) = AnalyzeExpression(m, e)
<1>1. CASE e.node = "call" /\ Lower(e.name) \in {"//", "%"}
  <2>. DEFINE args == [i \in DOMAIN e.args |-> SimpleValue(m, e.args[i])]
              name == Lower(e.name)
  <2>1. IsList(e.args) /\ \A a \in Range(e.args) : IsSimple(a)
    BY <1>1 DEF IsExpression, IsSimple
  <2>2. \A i \in DOMAIN args : Valued(args[i])
    <3>1. \A i \in DOMAIN e.args : e.args[i] \in Range(e.args)
      BY DEF Range
    <3>2. QED
      BY <2>1, <3>1, SimpleValued
  <2>3. IsList(args)
    BY <2>1, MappedList
  <2>4. AnalyzeExpression(m, e) = FunctionValue(name, args)
    BY <1>1 DEF AnalyzeExpression
  <2>. HIDE DEF args
  <2>5. /\ DOMAIN args = {1, 2}
        /\ FunctionValue(name, args) = Divided(name, args[1].value, args[2].value)
    BY <1>1, <2>2, <2>3, <2>4, DivisionsComputed
  <2>6. args[1] = SimpleValue(m, e.args[1]) /\ args[2] = SimpleValue(m, e.args[2])
    BY <2>5 DEF args
  <2>7. QED
    BY <1>1, <2>4, <2>5, <2>6 DEF Denotes
<1>2. CASE ~(e.node = "call" /\ Lower(e.name) \in {"//", "%"})
  BY <1>2 DEF Denotes
<1>3. QED
  BY <1>1, <1>2

-----------------------------------------------------------------------------
(* A statement binds in the reference what its handler binds.              *)
LEMMA SameDenoted ==
  ASSUME NEW m, Table(m), NEW k, DOMAIN k = Names, SameValues(m, k),
         NEW e, IsExpression(e), ~Failed(AnalyzeExpression(m, e))
  PROVE  Denotes(k, e) = AnalyzeExpression(m, e)
<1>1. AnalyzeExpression(k, e) = AnalyzeExpression(m, e)
  BY SameExpression
<1>2. Table(k)
  BY DEF Table, SameValues
<1>3. QED
  BY <1>1, <1>2, DenotesAnalyzed

LEMMA MappingBinds ==
  ASSUME NEW m, Table(m), NEW k, DOMAIN k = Names, SameValues(m, k),
         NEW s, s.node = "mapping", Lower(s.alias) \in Names, IsExpression(s.expr),
         ~Failed(AnalyzeExpression(m, s.expr)), NEW position
  PROVE  /\ DOMAIN Bind(k, s) = Names
         /\ SameValues(TableAdd(m, s.alias, AnalyzeExpression(m, s.expr), position), Bind(k, s))
<1>. DEFINE v == AnalyzeExpression(m, s.expr)
            x == Entry(v, position)
            y == Entry(v, 0)
            t == TableAdd(m, s.alias, v, position)
<1>1. Bind(k, s) = [k EXCEPT ![Lower(s.alias)] = y]
  BY SameDenoted DEF Bind, BindMapping
<1>2. t = [m EXCEPT ![Lower(s.alias)] = x]
  BY DEF TableAdd
<1>3. x # Absent /\ y # Absent /\ x.value = y.value
  <2>1. x.node = "mapping" /\ y.node = "mapping" /\ Absent.node = "absent" /\ x.value = v /\ y.value = v
    BY DEF Entry, Absent
  <2>2. QED
    BY <2>1
<1>4. DOMAIN m = Names
  BY DEF Table
<1>. HIDE DEF x, y, t
<1>5. \A n \in Names : IF n = Lower(s.alias) THEN t[n] = x /\ Bind(k, s)[n] = y
                       ELSE t[n] = m[n] /\ Bind(k, s)[n] = k[n]
  BY <1>1, <1>2, <1>4
<1>6. DOMAIN Bind(k, s) = Names
  BY <1>1
<1>7. SameValues(t, Bind(k, s))
  BY <1>3, <1>5 DEF SameValues
<1>8. QED
  BY <1>6, <1>7 DEF t

(* The last of the identifiers that are one name.                          *)
IsLast(names, n, k, i) ==
  /\ k \in 1 .. i /\ Lower(names[k]) = n
  /\ \A j \in k + 1 .. i : Lower(names[j]) # n

LEMMA DeclaredLast ==
  ASSUME NEW table, DOMAIN table = Names, NEW names, IsList(names), NEW at, NEW type,
         NEW n \in Names, NEW k, IsLast(names, n, k, Len(names))
  PROVE  DeclareIn(table, names, at, type)[n] = Entry(VariableRef(IdentifierAt(at, k), type), 0)
<1>. DEFINE l == Len(names)
            f == DeclaredOf(table, names, at, type, l)
            x(j) == Entry(VariableRef(IdentifierAt(at, j), type), 0)
            Right(t, i) == DOMAIN t = Names /\ \A j : IsLast(names, n, j, i) => t[n] = x(j)
            Bad == {i \in 0 .. l : ~Right(f[i], i)}
<1>1. l \in Nat
  BY ListFacts
<1>2. DeclareIn(table, names, at, type) = f[l]
  BY DEF DeclareIn, DeclaredOf, AddedVariable
<1>0. IsLast(names, n, k, l)
  OBVIOUS
<1>. HIDE DEF l
<1>4. \A i \in 0 .. l : f[i] = IF i = 0 THEN table
                              ELSE AddedVariable(f[i - 1], names, at, type, i)
  BY <1>1, DeclaredSteps
<1>. HIDE DEF f
<1>5. Right(f[0], 0)
  BY <1>1, <1>4 DEF IsLast
<1>6. ASSUME NEW i \in 1 .. l, Right(f[i - 1], i - 1) PROVE Right(f[i], i)
  <2>1. i \in 0 .. l /\ i # 0
    BY <1>1
  <2>2. f[i] = [f[i - 1] EXCEPT ![Lower(names[i])] = x(i)]
    BY <1>4, <2>1 DEF AddedVariable, TableAdd
  <2>3. DOMAIN f[i] = Names
    BY <1>6, <2>2
  <2>4. ASSUME NEW j, IsLast(names, n, j, i) PROVE f[i][n] = x(j)
    <3>. HIDE DEF x
    <3>1. CASE j = i
      BY <1>6, <2>2, <2>4, <3>1 DEF IsLast
    <3>2. CASE j # i
      <4>1. j \in 1 .. i - 1 /\ i \in j + 1 .. i
        BY <1>1, <2>4, <3>2 DEF IsLast
      <4>2. \A q \in j + 1 .. i - 1 : q \in j + 1 .. i
        BY <1>1
      <4>3. IsLast(names, n, j, i - 1) /\ Lower(names[i]) # n
        BY <2>4, <4>1, <4>2 DEF IsLast
      <4>4. f[i - 1][n] = x(j)
        BY <1>6, <4>3
      <4>5. QED
        BY <1>6, <2>2, <4>3, <4>4
    <3>3. QED
      BY <3>1, <3>2
  <2>5. QED
    BY <2>3, <2>4
<1>. HIDE DEF Right
<1>7. ASSUME Bad # {} PROVE FALSE
  <2>1. PICK i \in Bad : \A j \in Bad : i <= j
    <3>1. Bad \subseteq Nat
      BY <1>1
    <3>2. QED
      BY <1>7, <3>1, LeastOf
  <2>2. i # 0
    BY <1>5, <2>1
  <2>3. i \in 1 .. l /\ i - 1 \in 0 .. l /\ ~(i <= i - 1)
    BY <1>1, <2>1, <2>2
  <2>4. Right(f[i - 1], i - 1)
    BY <2>1, <2>3
  <2>5. QED
    BY <1>6, <2>1, <2>3, <2>4
<1>8. Right(f[l], l)
  BY <1>1, <1>7
<1>9. QED
  BY <1>0, <1>2, <1>8 DEF Right

LEMMA LastIsLast ==
  ASSUME NEW s, IsList(s.names), NEW n, \E i \in DOMAIN s.names : Lower(s.names[i]) = n
  PROVE  IsLast(s.names, n, LastOf(s, n), Len(s.names))
<1>. DEFINE S == {i \in DOMAIN s.names : Lower(s.names[i]) = n}
            l == Len(s.names)
            k == LastOf(s, n)
<1>1. l \in Nat /\ DOMAIN s.names = 1 .. l
  BY ListFacts
<1>2. S \subseteq 1 .. l /\ S # {}
  BY <1>1
<1>3. k = Max(S)
  BY DEF LastOf
<1>4. k \in S /\ \A y \in S : k >= y
  <2>. HIDE DEF S, l
  <2>1. QED
    BY <1>1, <1>2, <1>3, MaxInSet
<1>5. ASSUME NEW j \in k + 1 .. l, Lower(s.names[j]) = n PROVE FALSE
  <2>1. k \in 1 .. l
    BY <1>2, <1>4
  <2>2. j \in 1 .. l /\ ~(k >= j)
    BY <1>1, <2>1
  <2>3. j \in S
    BY <1>1, <1>5, <2>2
  <2>4. QED
    BY <1>4, <2>2, <2>3
<1>6. QED
  BY <1>2, <1>4, <1>5 DEF IsLast

LEMMA VariablesBind ==
  ASSUME NEW m, Table(m), NEW k, DOMAIN k = Names, SameValues(m, k),
         NEW s, s.node = "variables", IsList(s.names)
  PROVE  LET type == ScalarType(KindOfVariable[Lower(s.type)], TRUE)
         IN  /\ DOMAIN Bind(k, s) = Names
             /\ SameValues(DeclareIn(m, s.names, s.at, type), Bind(k, s))
<1>. DEFINE type == ScalarType(KindOfVariable[Lower(s.type)], TRUE)
            t == DeclareIn(m, s.names, s.at, type)
            b == Bind(k, s)
<1>1. \A n : n \in Binds(s) <=> \E i \in 1 .. Len(s.names) : Lower(s.names[i]) = n
  <2>1. DOMAIN s.names = 1 .. Len(s.names)
    BY ListFacts
  <2>2. Binds(s) = {Lower(name) : name \in Range(s.names)}
    BY DEF Binds
  <2>3. QED
    BY <2>1, <2>2 DEF Range
<1>2. DOMAIN m = Names
  BY DEF Table
<1>3. b = BindVariables(k, s)
  BY DEF Bind
<1>4. /\ DOMAIN b = Names
      /\ \A n \in Names : b[n] = IF n \in Binds(s) THEN Entry(Variable(s, n), 0) ELSE k[n]
  BY <1>3 DEF BindVariables
<1>. HIDE DEF b
<1>5. ASSUME NEW n \in Names, n \notin Binds(s) PROVE t[n] = m[n] /\ b[n] = k[n]
  <2>1. ~\E i \in 1 .. Len(s.names) : Lower(s.names[i]) = n
    BY <1>1, <1>5
  <2>. HIDE DEF type
  <2>2. t[n] = m[n]
    BY <1>2, <2>1, DeclaredBound
  <2>3. QED
    BY <1>4, <1>5, <2>2
<1>6. ASSUME NEW n \in Names, n \in Binds(s)
      PROVE  t[n] = Entry(Variable(s, n), 0) /\ b[n] = Entry(Variable(s, n), 0)
  <2>1. DOMAIN s.names = 1 .. Len(s.names)
    BY ListFacts
  <2>2. IsLast(s.names, n, LastOf(s, n), Len(s.names))
    BY <1>1, <1>6, <2>1, LastIsLast
  <2>. HIDE DEF type
  <2>3. t[n] = Entry(VariableRef(IdentifierAt(s.at, LastOf(s, n)), type), 0)
    BY <1>2, <2>2, DeclaredLast
  <2>4. QED
    BY <1>4, <1>6, <2>3 DEF Variable, type
<1>. HIDE DEF t
<1>7. SameValues(t, b)
  BY <1>5, <1>6 DEF SameValues
<1>8. QED
  BY <1>4, <1>7 DEF t, b

LEMMA NothingBinds ==
  ASSUME NEW k, NEW s, BindsNothing(s)
  PROVE  Bind(k, s) = k
BY DEF Bind, BindsNothing

-----------------------------------------------------------------------------
(* The names behind a list of statements.                                  *)
NamesOf(block, n) ==
  CHOOSE f : f = [i \in 0 .. n |-> IF i = 0 THEN InitialNames ELSE Bind(f[i - 1], block[i])]

LEMMA NamesExist ==
  ASSUME NEW block, NEW n \in Nat
  PROVE  \E f : f = [i \in 0 .. n |-> IF i = 0 THEN InitialNames ELSE Bind(f[i - 1], block[i])]
<1>. DEFINE table == InitialNames
            Next1(t, i) == Bind(t, block[i])
            Is(f, m) == f = [i \in 0 .. m |-> IF i = 0 THEN table ELSE Next1(f[i - 1], i)]
            Bad == {m \in Nat : ~\E f : Is(f, m)}
<1>. HIDE DEF Next1, table
<1>1. ASSUME Bad # {} PROVE FALSE
  <2>1. PICK m \in Bad : \A y \in Bad : m <= y
    BY <1>1, LeastOf
  <2>2. CASE m = 0
    <3>. DEFINE f == [i \in 0 .. 0 |-> table]
    <3>1. f = [i \in 0 .. 0 |-> IF i = 0 THEN table ELSE Next1(f[i - 1], i)]
      OBVIOUS
    <3>. HIDE DEF f
    <3>2. Is(f, m)
      BY <2>2, <3>1
    <3>3. QED
      BY <2>1, <3>2
  <2>3. CASE m # 0
    <3>1. m - 1 \in Nat /\ ~(m <= m - 1)
      BY <2>1, <2>3
    <3>2. PICK f : Is(f, m - 1)
      BY <2>1, <3>1
    <3>. DEFINE g == [i \in 0 .. m |-> IF i = m THEN Next1(f[m - 1], m) ELSE f[i]]
    <3>3. \A i \in 0 .. m : i \in Nat /\ (i # m => i \in 0 .. m - 1) /\ (i # 0 => i - 1 \in 0 .. m - 1)
      BY <2>1
    <3>4. \A i \in 0 .. m - 1 : g[i] = f[i] /\ f[i] = IF i = 0 THEN table ELSE Next1(f[i - 1], i)
      <4>1. \A i \in 0 .. m - 1 : i \in 0 .. m /\ i # m
        BY <2>1
      <4>2. QED
        BY <3>2, <4>1
    <3>5. ASSUME NEW i \in 0 .. m PROVE g[i] = IF i = 0 THEN table ELSE Next1(g[i - 1], i)
      <4>1. CASE i = m
        <5>1. g[i] = Next1(f[m - 1], m) /\ i # 0 /\ i - 1 = m - 1
          BY <2>3, <4>1
        <5>2. g[i - 1] = f[i - 1]
          BY <3>3, <3>4, <5>1
        <5>. HIDE DEF g
        <5>3. QED
          BY <4>1, <5>1, <5>2
      <4>2. CASE i # m
        <5>1. g[i] = f[i] /\ f[i] = IF i = 0 THEN table ELSE Next1(f[i - 1], i)
          BY <3>3, <3>4, <4>2
        <5>2. i # 0 => g[i - 1] = f[i - 1]
          BY <3>3, <3>4
        <5>. HIDE DEF g
        <5>3. QED
          BY <5>1, <5>2
      <4>3. QED
        BY <4>1, <4>2
    <3>6. g = [i \in 0 .. m |-> g[i]]
      OBVIOUS
    <3>. HIDE DEF g
    <3>7. Is(g, m)
      BY <3>5, <3>6
    <3>8. QED
      BY <2>1, <3>7
  <2>4. QED
    BY <2>2, <2>3
<1>2. \E f : Is(f, n)
  BY <1>1
<1>3. QED
  BY <1>2 DEF Next1, table

LEMMA NamesSteps ==
  ASSUME NEW block, NEW n \in Nat
  PROVE  \A i \in 0 .. n :
           NamesOf(block, n)[i] =
             IF i = 0 THEN InitialNames ELSE Bind(NamesOf(block, n)[i - 1], block[i])
<1>. DEFINE f == NamesOf(block, n)
<1>1. f = [i \in 0 .. n |-> IF i = 0 THEN InitialNames ELSE Bind(f[i - 1], block[i])]
  BY NamesExist DEF NamesOf
<1>. HIDE DEF f
<1>2. \A i \in 0 .. n : f[i] = IF i = 0 THEN InitialNames ELSE Bind(f[i - 1], block[i])
  BY <1>1
<1>3. QED
  BY <1>2 DEF f

LEMMA NothingBehind == NamesBehind(<<>>) = InitialNames
<1>1. NamesBehind(<<>>) = NamesOf(<<>>, 0)[0]
  BY DEF NamesBehind, NamesOf
<1>2. QED
  BY <1>1, NamesSteps

LEMMA OneMoreBehind ==
  ASSUME NEW w, IsList(w), NEW s
  PROVE  NamesBehind(Append(w, s)) = Bind(NamesBehind(w), s)
<1>. DEFINE u == Append(w, s)
            n == Len(w)
            f == NamesOf(w, n)
            g == NamesOf(u, n + 1)
            Bad == {i \in 0 .. n : f[i] # g[i]}
<1>1. n \in Nat /\ Len(u) = n + 1 /\ u[n + 1] = s /\ \A i \in 1 .. n : u[i] = w[i]
  BY ListFacts, AppendToList
<1>2. NamesBehind(w) = f[n]
  BY DEF NamesBehind, NamesOf
<1>3. NamesBehind(u) = NamesOf(u, Len(u))[Len(u)]
  BY DEF NamesBehind, NamesOf
<1>4. NamesBehind(u) = g[n + 1]
  BY <1>1, <1>3
<1>5. \A i \in 0 .. n : f[i] = IF i = 0 THEN InitialNames ELSE Bind(f[i - 1], w[i])
  BY <1>1, NamesSteps
<1>6. \A i \in 0 .. n + 1 : g[i] = IF i = 0 THEN InitialNames ELSE Bind(g[i - 1], u[i])
  <2>. HIDE DEF u, n
  <2>1. n + 1 \in Nat
    BY <1>1
  <2>2. QED
    BY <2>1, NamesSteps
<1>. HIDE DEF f, g, u, n
<1>7. ASSUME Bad # {} PROVE FALSE
  <2>1. PICK i \in Bad : \A j \in Bad : i <= j
    <3>1. Bad \subseteq Nat
      BY <1>1
    <3>2. QED
      BY <1>7, <3>1, LeastOf
  <2>2. i \in 0 .. n /\ i \in 0 .. n + 1
    BY <1>1, <2>1
  <2>3. i # 0
    BY <1>5, <1>6, <2>1, <2>2
  <2>4. i \in 1 .. n /\ i - 1 \in 0 .. n /\ ~(i <= i - 1)
    BY <1>1, <2>1, <2>3
  <2>5. f[i - 1] = g[i - 1]
    BY <2>1, <2>4
  <2>6. f[i] = g[i]
    BY <1>1, <1>5, <1>6, <2>2, <2>3, <2>4, <2>5
  <2>7. QED
    BY <2>1, <2>6
<1>8. f[n] = g[n]
  BY <1>1, <1>7
<1>9. g[n + 1] = Bind(g[n], s)
  <2>1. PICK q : q = n + 1
    OBVIOUS
  <2>2. q \in 0 .. n + 1 /\ q # 0 /\ q - 1 = n
    BY <1>1, <2>1
  <2>3. g[q] = Bind(g[q - 1], u[q])
    BY <1>6, <2>2
  <2>4. QED
    BY <1>1, <2>1, <2>2, <2>3
<1>10. QED
  BY <1>2, <1>4, <1>8, <1>9 DEF u

(* They are the same while version and qubits stay.                        *)
LEMMA SameNames ==
  ASSUME UNCHANGED api, root'.num_qubits = root.num_qubits
  PROVE  \A w : NamesBehind(w)' = NamesBehind(w)
<1>1. InitialNames' = InitialNames
  BY DEF InitialNames, InitialMappings, WithRegisters, TableAdd
<1>2. ASSUME NEW m, NEW e PROVE Denotes(m, e)' = Denotes(m, e)
  <2>1. \A v : OnlyFromVersion11(v)' = OnlyFromVersion11(v)
    BY DEF OnlyFromVersion11
  <2>2. \A e1 : SimpleValue(m, e1)' = SimpleValue(m, e1)
    BY <2>1 DEF SimpleValue
  <2>3. AnalyzeExpression(m, e)' = AnalyzeExpression(m, e)
    BY SameVersion
  <2>4. QED
    BY <2>2, <2>3 DEF Denotes
<1>3. ASSUME NEW m, NEW s PROVE Bind(m, s)' = Bind(m, s)
  <2>1. BindMapping(m, s)' = BindMapping(m, s)
    BY <1>2 DEF BindMapping
  <2>2. BindVariables(m, s)' = BindVariables(m, s)
    BY DEF BindVariables, Variable, LastOf
  <2>3. QED
    BY <2>1, <2>2 DEF Bind
<1>4. ASSUME NEW w PROVE NamesBehind(w)' = NamesBehind(w)
  <2>. DEFINE Is(f) == f = [i \in 0 .. Len(w) |-> IF i = 0 THEN InitialNames ELSE Bind(f[i - 1], w[i])]
  <2>1. ASSUME NEW f PROVE Is(f)' <=> Is(f)
    BY <1>1, <1>3
  <2>2. NamesBehind(w) = (CHOOSE f : Is(f))[Len(w)]
    BY DEF NamesBehind
  <2>3. NamesBehind(w)' = (CHOOSE f : Is(f)')[Len(w)]
    BY DEF NamesBehind
  <2>. HIDE DEF Is
  <2>4. (CHOOSE f : Is(f)) = (CHOOSE f : Is(f)')
    BY <2>1, Zenon
  <2>5. QED
    BY <2>2, <2>3, <2>4
<1>5. QED
  BY <1>4

-----------------------------------------------------------------------------
(* The invariant: the global scope has the names behind what was written   *)
(* in it, as long as there is no error.                                    *)
Follows(m, k) == DOMAIN k = Names /\ SameValues(m, k)

NamesInv ==
  /\ "num_qubits" \in DOMAIN root
  /\ phase = "statements" /\ errors = 0 =>
       Follows(GlobalNames(scope_stack), NamesBehind(written[1]))
  /\ MappingsHold

(* The qubits are counted once.                                            *)
CountKept == "num_qubits" \in DOMAIN root' /\ root'.num_qubits = root.num_qubits

LEMMA CountInBlock ==
  ASSUME "num_qubits" \in DOMAIN root, NEW s, NEW b, Becomes(AddToCurrentBlock(root, s, b))
  PROVE  CountKept
<1>. DEFINE q == [root EXCEPT !.subcircuits =
                    [CurrentSubcircuits(root) EXCEPT
                       ![Len(CurrentSubcircuits(root))].body = @ \o b]]
<1>1. "num_qubits" \in DOMAIN q /\ q.num_qubits = root.num_qubits
  OBVIOUS
<1>2. AddToCurrentBlock(root, s, b).root \in {root, q}
  BY DEF AddToCurrentBlock
<1>. HIDE DEF q
<1>3. QED
  BY <1>1, <1>2 DEF Becomes, CountKept

LEMMA StatementKeepsCount ==
  ASSUME "num_qubits" \in DOMAIN root, VisitStatement \/ CloseBlock
  PROVE  CountKept
<1>1. ASSUME NEW b \in Bundles, VisitBundle(b) PROVE CountKept
  <2>1. \E x : Becomes(AddToCurrentBlock(root, scope_stack, x))
    BY <1>1 DEF VisitBundle, VisitItems
  <2>2. QED
    BY <2>1, CountInBlock
<1>2. ASSUME NEW d \in ErrorModelDecls, VisitErrorModel(d) PROVE CountKept
  <2>1. \E model : SetErrorModel(model)
    BY <1>2 DEF VisitErrorModel
  <2>2. QED
    BY <2>1 DEF SetErrorModel, CountKept
<1>3. ASSUME NEW d \in VariableDecls, VisitVariables(d) PROVE CountKept
  BY <1>3 DEF VisitVariables, CountKept
<1>4. ASSUME NEW d \in SubcircuitDecls, VisitSubcircuit(d) PROVE CountKept
  <2>1. \E n : AddSubcircuit(d.name, n)
    BY <1>4 DEF VisitSubcircuit
  <2>2. QED
    BY <2>1 DEF AddSubcircuit, CountKept
<1>5. ASSUME NEW h \in Headers, VisitJump(h) PROVE CountKept
  <2>1. Becomes(AddToCurrentBlock(root, scope_stack, <<h>>)) \/ UNCHANGED root
    BY <1>5 DEF VisitJump, Unchanged, Becomes
  <2>2. QED
    BY <2>1, CountInBlock DEF CountKept
<1>6. CASE (\E d \in MappingDecls : VisitMapping(d)) \/ (\E h \in Headers : Open(h))
  BY <1>6 DEF VisitMapping, Open, CountKept
<1>7. CASE CloseBlock
  <2>1. UNCHANGED root \/ \E b : Return(b)
    BY <1>7 DEF CloseBlock, ElseIf, EndRepeat, ReturnRepeat, Else, EndIf, EndFor, EndForeach, EndWhile
  <2>2. QED
    BY <2>1, CountInBlock DEF Return, CountKept
<1>8. QED
  BY <1>1, <1>2, <1>3, <1>4, <1>5, <1>6, <1>7 DEF VisitStatement

(* What is behind a list of statements, before and after a step.           *)
LEMMA BehindAfter ==
  ASSUME UNCHANGED api, CountKept, NEW w, written'[1] = w
  PROVE  NamesBehind(written[1])' = NamesBehind(w)
BY SameNames DEF CountKept

(* A step that binds no name in the global scope.                          *)
LEMMA KeptNamesFollow ==
  ASSUME BoundInv, NamesInv, UNCHANGED api, CountKept, NamesKept
  PROVE  NamesInv'
<1>. DEFINE w == written[1]
<1>1. /\ phase = "statements" /\ phase' \in {"statements", "crash"} /\ (errors' = 0 => errors = 0)
      /\ GlobalNames(scope_stack') = GlobalNames(scope_stack) /\ Recorded
  BY DEF NamesKept
<1>2. "num_qubits" \in DOMAIN root' /\ MappingsHold'
  BY <1>1 DEF MappingsHold, CountKept
<1>3. NamesBehind(written[1])' = NamesBehind(w)
  <2>1. CASE written'[1] = w
    BY <2>1, BehindAfter
  <2>2. ASSUME NEW s, BindsNothing(s), written'[1] = Append(w, s)
        PROVE  NamesBehind(written[1])' = NamesBehind(w)
    <3>1. IsList(w)
      BY DEF BoundInv, Books
    <3>2. NamesBehind(Append(w, s)) = NamesBehind(w)
      BY <2>2, <3>1, OneMoreBehind, NothingBinds
    <3>. DEFINE u == Append(w, s)
    <3>. HIDE DEF u
    <3>3. NamesBehind(written[1])' = NamesBehind(u)
      BY <2>2, BehindAfter DEF u
    <3>4. QED
      BY <3>2, <3>3 DEF u
  <2>3. QED
    BY <1>1, <2>1, <2>2 DEF Recorded
<1>4. ASSUME phase' = "statements", errors' = 0
      PROVE  Follows(GlobalNames(scope_stack'), NamesBehind(w))
  BY <1>1, <1>4 DEF NamesInv
<1>5. QED
  BY <1>1, <1>2, <1>3, <1>4 DEF NamesInv, Follows, SameValues

(* A statement that binds names, in the global scope or in a block.        *)
LEMMA BindingStepFollows ==
  ASSUME AllInv, NamesInv, UNCHANGED api, CountKept,
         phase = "statements", NEW n \in Nat, NEW crashed, Report(n, crashed),
         NEW s, Wrote(s), UNCHANGED handlers, NEW m,
         errors' = 0 /\ phase' = "statements" =>
           /\ scope_stack' = [scope_stack EXCEPT ![Len(scope_stack)].mappings = m]
           /\ \A k : Follows(Current.mappings, k) => Follows(m, Bind(k, s))
  PROVE  NamesInv'
<1>. DEFINE w == written[1]
<1>1. /\ IsList(handlers) /\ Nested(scope_stack, handlers) /\ Tables(scope_stack)
      /\ Books(written, handlers) /\ errors \in Nat
  BY HandlersListed
<1>2. written'[1] = IF handlers = <<>> THEN Append(w, s) ELSE w
  BY <1>1, WroteBooks
<1>3. "num_qubits" \in DOMAIN root' /\ phase' \in {"statements", "crash"} /\ MappingsHold'
  BY DEF Report, MappingsHold, CountKept
<1>4. ASSUME phase' = "statements", errors' = 0
      PROVE  Follows(GlobalNames(scope_stack'), NamesBehind(written[1])')
  <2>1. errors = 0
    BY <1>1, <1>4 DEF Report
  <2>2. Follows(GlobalNames(scope_stack), NamesBehind(w)) /\ IsList(w)
    BY <1>1, <2>1 DEF NamesInv, Books
  <2>3. GlobalNames(scope_stack') = IF handlers = <<>> THEN m ELSE GlobalNames(scope_stack)
    BY <1>1, <1>4, NamesGlobal
  <2>4. CASE handlers # <<>>
    <3>1. NamesBehind(written[1])' = NamesBehind(w)
      BY <1>2, <2>4, BehindAfter
    <3>2. QED
      BY <2>2, <2>3, <2>4, <3>1
  <2>5. CASE handlers = <<>>
    <3>1. Current.mappings = GlobalNames(scope_stack)
      BY <1>1, <2>5 DEF Nested, Current, GlobalNames
    <3>2. Follows(m, Bind(NamesBehind(w), s))
      BY <1>4, <2>2, <3>1
    <3>3. NamesBehind(Append(w, s)) = Bind(NamesBehind(w), s)
      BY <2>2, OneMoreBehind
    <3>. DEFINE u == Append(w, s)
    <3>. HIDE DEF u
    <3>4. NamesBehind(written[1])' = NamesBehind(u)
      BY <1>2, <2>5, BehindAfter DEF u
    <3>5. QED
      BY <2>3, <2>5, <3>2, <3>3, <3>4 DEF u
  <2>6. QED
    BY <2>4, <2>5
<1>5. QED
  BY <1>3, <1>4 DEF NamesInv, Follows, SameValues

LEMMA MappingStepFollows ==
  ASSUME AllInv, NamesInv, UNCHANGED api, CountKept, NEW decl \in MappingDecls, VisitMapping(decl)
  PROVE  NamesInv'
<1>. DEFINE v == AnalyzeExpression(Current.mappings, decl.expr)
            m == TableAdd(Current.mappings, decl.alias, v, visits + 1)
            s == [node |-> "mapping", alias |-> decl.alias, expr |-> decl.expr]
<1>1. MapTo(decl.alias, v) /\ phase = "statements" /\ Wrote(s) /\ UNCHANGED handlers
  BY DEF VisitMapping, Visit
<1>2. /\ s.node = "mapping" /\ s.alias = decl.alias /\ s.expr = decl.expr
      /\ Lower(decl.alias) \in Names /\ IsExpression(decl.expr)
  BY AlphabetAssumption, ExpressionsAssumption
<1>3. Table(Current.mappings)
  BY CurrentTable DEF AllInv
<1>. HIDE DEF s
<1>4. ASSUME ~Failed(v), NEW k, Follows(Current.mappings, k) PROVE Follows(m, Bind(k, s))
  BY <1>2, <1>3, <1>4, MappingBinds DEF Follows
<1>. HIDE DEF v
<1>5. /\ Report(IF v = Error THEN 1 ELSE 0, v = Crash)
      /\ ~Failed(v) => scope_stack' = [scope_stack EXCEPT ![Len(scope_stack)].mappings = m]
  BY <1>1 DEF MapTo, Current
<1>. HIDE DEF m
<1>6. errors' = 0 /\ phase' = "statements" => ~Failed(v)
  <2>1. errors \in Nat
    BY HandlersListed
  <2>2. Failed(v) => v = Error \/ v = Crash
    BY DEF Failed
  <2>3. v = Error => errors' = errors + 1
    BY <1>5 DEF Report
  <2>4. v = Crash => phase' = "crash"
    BY <1>5 DEF Report
  <2>5. QED
    BY <2>1, <2>2, <2>3, <2>4
<1>7. (IF v = Error THEN 1 ELSE 0) \in Nat
  OBVIOUS
<1>8. QED
  BY <1>1, <1>4, <1>5, <1>6, <1>7, BindingStepFollows

LEMMA VariablesStepFollows ==
  ASSUME AllInv, NamesInv, UNCHANGED api, CountKept, NEW decl \in VariableDecls, VisitVariables(decl)
  PROVE  NamesInv'
<1>. DEFINE type == ScalarType(KindOfVariable[Lower(decl.type)], TRUE)
            m == DeclareIn(Current.mappings, decl.names, visits + 1, type)
            s == [node |-> "variables", at |-> visits + 1, type |-> decl.type, names |-> decl.names]
            ok == root.version >= 11 /\ Lower(decl.type) \in DOMAIN KindOfVariable
<1>1. /\ phase = "statements" /\ Wrote(s) /\ UNCHANGED handlers
      /\ Report(IF ok THEN 0 ELSE 1, FALSE)
      /\ ok => scope_stack' = [scope_stack EXCEPT ![Len(scope_stack)].mappings = m]
  BY DEF VisitVariables, Visit, Current
<1>2. /\ s.node = "variables" /\ s.type = decl.type /\ s.names = decl.names /\ s.at = visits + 1
      /\ IsList(decl.names)
  BY AlphabetAssumption
<1>3. Table(Current.mappings)
  BY CurrentTable DEF AllInv
<1>. HIDE DEF ok, s
<1>4. ASSUME NEW k, Follows(Current.mappings, k) PROVE Follows(m, Bind(k, s))
  BY <1>2, <1>3, <1>4, VariablesBind DEF Follows
<1>. HIDE DEF m
<1>6. errors' = 0 => ok
  <2>1. errors \in Nat
    BY HandlersListed
  <2>2. ~ok => errors' = errors + 1
    BY <1>1 DEF Report
  <2>3. QED
    BY <2>1, <2>2
<1>7. (IF ok THEN 0 ELSE 1) \in Nat
  OBVIOUS
<1>8. QED
  BY <1>1, <1>4, <1>6, <1>7, BindingStepFollows

-----------------------------------------------------------------------------
(* The beginning and the end.                                              *)
LEMMA StartStepFollows ==
  ASSUME AllInv, NamesInv, UNCHANGED api, NEW count, Start(count)
  PROVE  NamesInv'
<1>1. PICK n : StartWith(n)
  BY DEF Start
<1>2. phase = "new" /\ UNCHANGED written
  BY <1>1 DEF StartWith
<1>3. written'[1] = <<>>
  BY <1>2 DEF AllInv, BoundInv
<1>4. (NamesBehind(<<>>) = InitialNames)'
  BY NothingBehind, PTL
<1>5. NamesBehind(written[1])' = InitialNames'
  BY <1>3, <1>4
<1>. DEFINE missing == n = Absent /\ file < 11
            bad == n # Absent /\ ~Positive(n)
            num == IF n = Absent \/ Failed(n) THEN 0 ELSE n.value
            m == WithRegisters(InitialMappings, n.value)
<1>6. /\ errors' = (IF file > api THEN 1 ELSE 0) + (IF missing \/ bad THEN 1 ELSE 0)
      /\ phase' # "new" /\ (phase' = "returned" => missing)
      /\ scope_stack' = IF n # Absent /\ ~bad
                        THEN <<[GlobalScope EXCEPT !.mappings = WithRegisters(@, n.value)]>>
                        ELSE <<GlobalScope>>
  BY <1>1 DEF StartWith
<1>7. "num_qubits" \in DOMAIN root' /\ root'.num_qubits = num
  BY <1>1 DEF StartWith, NamesInv
<1>8. InitialNames' = IF num = 0 THEN InitialMappings ELSE WithRegisters(InitialMappings, num)
  BY <1>7 DEF InitialNames, InitialMappings, WithRegisters, TableAdd
<1>. HIDE DEF missing
<1>9. MappingsHold'
  BY <1>6 DEF MappingsHold
<1>10. DOMAIN InitialMappings = Names /\ \A x : DOMAIN WithRegisters(InitialMappings, x) = Names
  BY DEF InitialMappings, WithRegisters, TableAdd
<1>11. ASSUME errors' = 0
       PROVE  GlobalNames(scope_stack') = InitialNames' /\ DOMAIN InitialNames' = Names
  <2>1. ~bad
    BY <1>6, <1>11
  <2>2. ASSUME NEW x PROVE GlobalNames(<<x>>) = x.mappings
    BY DEF GlobalNames
  <2>3. "mappings" \in DOMAIN GlobalScope /\ GlobalScope.mappings = InitialMappings
    BY DEF GlobalScope
  <2>4. CASE n = Absent
    <3>1. num = 0 /\ scope_stack' = <<GlobalScope>>
      BY <1>6, <2>4
    <3>2. QED
      BY <1>8, <1>10, <2>2, <2>3, <3>1
  <2>5. CASE n # Absent
    <3>. DEFINE s == [GlobalScope EXCEPT !.mappings = m]
    <3>1. scope_stack' = <<s>>
      BY <1>6, <2>1, <2>3, <2>5
    <3>. HIDE DEF m
    <3>2. s.mappings = m
      BY <2>3
    <3>3. num = n.value /\ num # 0
      BY <2>1, <2>5 DEF Positive
    <3>. HIDE DEF s, num
    <3>4. QED
      BY <1>8, <1>10, <2>2, <3>1, <3>2, <3>3 DEF m
  <2>6. QED
    BY <2>4, <2>5
<1>12. QED
  BY <1>5, <1>7, <1>9, <1>11 DEF NamesInv, Follows, SameValues

LEMMA FinishFollows ==
  ASSUME AllInv, NamesInv, UNCHANGED api, Finish
  PROVE  NamesInv'
<1>. DEFINE table == Current.mappings
            w == written[1]
            missing == IF LooksUpTargets
                       THEN Cardinality(Duplicates) + Cardinality(Unresolved) ELSE 0
<1>1. /\ phase = "statements" /\ Len(scope_stack) = 1
      /\ UNCHANGED written
      /\ phase' \in {"internal error", "returned"}
      /\ root' = [root EXCEPT !.mappings = FinalMappings,
                              !.resolved = IF LooksUpTargets THEN SubcircuitNames ELSE {}]
  BY DEF Finish, IsGlobal
<1>0. errors' = errors + missing
  BY DEF Finish
<1>2. Books(written, handlers) /\ errors \in Nat /\ visits \in Nat
  BY HandlersListed
<1>3. missing \in Nat
  <2>1. Cardinality(Duplicates) \in Nat /\ Cardinality(Unresolved) \in Nat
    BY LookupsCounted DEF AllInv, JumpInv, TypeInv, Repeating
  <2>2. QED
    BY <2>1
<1>. HIDE DEF missing
<1>4. errors' = 0 => errors = 0
  BY <1>0, <1>2, <1>3
<1>5. root'.mappings = FinalMappings /\ CountKept
  BY <1>1 DEF AllInv, JumpInv, Counting, NamesInv, CountKept
<1>6. NamesBehind(written[1])' = NamesBehind(w)
  BY <1>1, <1>5, BehindAfter
<1>7. /\ DOMAIN FinalMappings = 1 .. Cardinality(Saved(table))
      /\ \A k \in DOMAIN FinalMappings :
           /\ FinalMappings[k].name = NameAt(table, k)
           /\ FinalMappings[k].value = table[NameAt(table, k)].value
  BY DEF FinalMappings, NameAt, Earlier
<1>8. ASSUME errors' = 0, NEW k \in DOMAIN FinalMappings
      PROVE  Stands(NamesBehind(w)[FinalMappings[k].name], FinalMappings[k].value)
  <2>1. table = GlobalNames(scope_stack)
    BY <1>1 DEF Current, GlobalNames
  <2>2. Listed(table, w, visits) /\ IsList(w) /\ Follows(table, NamesBehind(w))
    BY <1>1, <1>2, <1>4, <1>8, <2>1 DEF AllInv, BoundInv, Books, NamesInv
  <2>. HIDE DEF table, w
  <2>3. NameAt(table, k) \in Saved(table)
    BY <1>2, <1>7, <2>2, NamesListed
  <2>4. QED
    BY <1>7, <2>2, <2>3 DEF Saved, Follows, SameValues, Stands
<1>9. MappingsHold'
  BY <1>5, <1>6, <1>8 DEF MappingsHold, Stands
<1>10. QED
  BY <1>1, <1>5, <1>9 DEF NamesInv, CountKept
(* What the names stand for.                                               *)
LEMMA NamesInit == Init => NamesInv
<1>1. Init => root = EmptyRoot /\ phase = "new"
  BY DEF Init
<1>2. QED
  BY <1>1 DEF NamesInv, EmptyRoot, MappingsHold

LEMMA NamesNext ==
  ASSUME AllInv, NamesInv, [Next]_vars
  PROVE  NamesInv'
<1>1. UNCHANGED api
  BY VersionsKept
<1>2. ASSUME NEW count \in QubitCounts, Start(count) PROVE NamesInv'
  BY <1>1, <1>2, StartStepFollows
<1>3. CASE VisitStatement \/ CloseBlock
  <2>1. CountKept
    BY <1>3, StatementKeepsCount DEF NamesInv
  <2>2. CASE NamesKept
    BY <1>1, <2>1, <2>2, KeptNamesFollow DEF AllInv
  <2>3. ASSUME NEW d \in MappingDecls, VisitMapping(d) PROVE NamesInv'
    BY <1>1, <2>1, <2>3, MappingStepFollows
  <2>4. ASSUME NEW d \in VariableDecls, VisitVariables(d) PROVE NamesInv'
    BY <1>1, <2>1, <2>4, VariablesStepFollows
  <2>5. QED
    BY <1>3, <2>2, <2>3, <2>4, StatementKeepsNames
<1>4. CASE Finish
  BY <1>1, <1>4, FinishFollows
<1>5. CASE UNCHANGED vars
  <2>1. UNCHANGED <<api, root, scope_stack, phase, errors, written>>
    BY <1>5 DEF vars
  <2>2. CountKept
    BY <2>1 DEF CountKept, NamesInv
  <2>3. NamesBehind(written[1])' = NamesBehind(written[1])
    BY <2>1, <2>2, BehindAfter
  <2>4. QED
    BY <2>1, <2>3 DEF NamesInv, Follows, SameValues, MappingsHold, Stands
<1>6. QED
  BY <1>2, <1>3, <1>4, <1>5 DEF Next

(* The mappings of a tree without errors have the values their names have  *)
(* behind the last statement of the global scope, by the block structure   *)
(* of what is written and by the mathematics of division: whatever is      *)
(* bound again, in whatever case, in blocks and behind them, and however   *)
(* the division of C++ rounds.                                             *)
THEOREM MappingsHoldHolds == Spec => []MappingsHold
<1>1. IInv /\ FitInv /\ JumpInv /\ TypeInv /\ BoundInv /\ NamesInv /\ [Next]_vars
        => (IInv /\ FitInv /\ JumpInv /\ TypeInv /\ BoundInv /\ NamesInv)'
  BY NextInv, FitNext, JumpNext, TypeNext, BoundNext, NamesNext DEF AllInv
<1>2. NamesInv => MappingsHold
  BY DEF NamesInv
<1>3. QED
  BY <1>1, <1>2, InitInv, FitInit, JumpInit, TypeInit, BoundInit, NamesInit, PTL DEF Spec

-----------------------------------------------------------------------------
(* What the simplifications of control flow do to the runs of a program.   *)
(* First the chains of branches, from one of their branches on.            *)
Entering(s, bodies, i, after) == Guarded(s[i].condition, bodies[i], after)

Chains(s, bodies, rest, m) ==
  CHOOSE f : f = [n \in 0 .. m |->
                    IF n = 0 THEN rest ELSE Entering(s, bodies, Len(s) - n + 1, f[n - 1])]

LEMMA ChainRunsIsChains ==
  ASSUME NEW s, NEW bodies, NEW rest
  PROVE  ChainRuns(s, bodies, rest) = Chains(s, bodies, rest, Len(s))[Len(s)]
BY DEF ChainRuns, Chains, Entering

LEMMA ChainsExist ==
  ASSUME NEW s, NEW bodies, NEW rest, NEW n \in Nat
  PROVE  \E f : f = [d \in 0 .. n |->
                       IF d = 0 THEN rest ELSE Entering(s, bodies, Len(s) - d + 1, f[d - 1])]
<1>. DEFINE Step(d, x) == Entering(s, bodies, Len(s) - d + 1, x)
            Is(f, m) == f = [d \in 0 .. m |-> IF d = 0 THEN rest ELSE Step(d, f[d - 1])]
            Bad == {m \in Nat : ~\E f : Is(f, m)}
<1>. HIDE DEF Step
<1>1. ASSUME Bad # {} PROVE FALSE
  <2>1. PICK m \in Bad : \A y \in Bad : m <= y
    BY <1>1, LeastOf
  <2>2. CASE m = 0
    <3>. DEFINE f == [d \in 0 .. 0 |-> rest]
    <3>1. f = [d \in 0 .. 0 |-> IF d = 0 THEN rest ELSE Step(d, f[d - 1])]
      OBVIOUS
    <3>. HIDE DEF f
    <3>2. Is(f, m)
      BY <2>2, <3>1
    <3>3. QED
      BY <2>1, <3>2
  <2>3. CASE m # 0
    <3>1. m - 1 \in Nat /\ ~(m <= m - 1)
      BY <2>1, <2>3
    <3>2. PICK f : Is(f, m - 1)
      BY <2>1, <3>1
    <3>. DEFINE g == [d \in 0 .. m |-> IF d = m THEN Step(m, f[m - 1]) ELSE f[d]]
    <3>3. \A d \in 0 .. m : d \in Nat /\ (d # m => d \in 0 .. m - 1) /\ (d # 0 => d - 1 \in 0 .. m - 1)
      BY <2>1
    <3>4. \A d \in 0 .. m - 1 : g[d] = f[d] /\ f[d] = IF d = 0 THEN rest ELSE Step(d, f[d - 1])
      <4>1. \A d \in 0 .. m - 1 : d \in 0 .. m /\ d # m
        BY <2>1
      <4>2. QED
        BY <3>2, <4>1
    <3>5. ASSUME NEW d \in 0 .. m PROVE g[d] = IF d = 0 THEN rest ELSE Step(d, g[d - 1])
      <4>1. CASE d = m
        <5>1. g[d] = Step(m, f[m - 1]) /\ d # 0 /\ d - 1 = m - 1
          BY <2>3, <4>1
        <5>2. g[d - 1] = f[d - 1]
          BY <3>3, <3>4, <5>1
        <5>. HIDE DEF g
        <5>3. QED
          BY <4>1, <5>1, <5>2
      <4>2. CASE d # m
        <5>1. g[d] = f[d] /\ f[d] = IF d = 0 THEN rest ELSE Step(d, f[d - 1])
          BY <3>3, <3>4, <4>2
        <5>2. d # 0 => g[d - 1] = f[d - 1]
          BY <3>3, <3>4
        <5>. HIDE DEF g
        <5>3. QED
          BY <5>1, <5>2
      <4>3. QED
        BY <4>1, <4>2
    <3>6. g = [d \in 0 .. m |-> g[d]]
      OBVIOUS
    <3>. HIDE DEF g
    <3>7. Is(g, m)
      BY <3>5, <3>6
    <3>8. QED
      BY <2>1, <3>7
  <2>4. QED
    BY <2>2, <2>3
<1>2. \E f : Is(f, n)
  BY <1>1
<1>3. QED
  BY <1>2 DEF Step

(* The runs of a chain, from each of its branches on.                      *)
IsChain(c, s, bodies, rest) ==
  /\ c[Len(s) + 1] = rest
  /\ \A i \in 1 .. Len(s) : c[i] = Entering(s, bodies, i, c[i + 1])

ChainFrom(f, n) == [i \in 1 .. n + 1 |-> f[n + 1 - i]]

LEMMA ChainOfRuns ==
  ASSUME NEW s, IsList(s), NEW bodies, NEW rest
  PROVE  \E c : IsChain(c, s, bodies, rest) /\ c[1] = ChainRuns(s, bodies, rest)
<1>. DEFINE n == Len(s)
            f == Chains(s, bodies, rest, n)
            c == ChainFrom(f, n)
<1>1. n \in Nat
  BY ListFacts
<1>2. f = [d \in 0 .. n |-> IF d = 0 THEN rest ELSE Entering(s, bodies, n - d + 1, f[d - 1])]
  BY <1>1, ChainsExist DEF Chains
<1>3. ChainRuns(s, bodies, rest) = f[n]
  BY ChainRunsIsChains
<1>. HIDE DEF f, n
<1>4. f[0] = rest /\ \A d \in 1 .. n : f[d] = Entering(s, bodies, n - d + 1, f[d - 1])
  BY <1>1, <1>2
<1>5. c[1] = f[n] /\ c[n + 1] = rest
  BY <1>1, <1>4 DEF ChainFrom
<1>6. ASSUME NEW i \in 1 .. n PROVE c[i] = Entering(s, bodies, i, c[i + 1])
  <2>. DEFINE d == n + 1 - i
  <2>1. /\ i \in 1 .. n + 1 /\ i + 1 \in 1 .. n + 1 /\ d \in 1 .. n
        /\ n - d + 1 = i /\ n + 1 - (i + 1) = d - 1
    BY <1>1
  <2>2. c[i] = f[d] /\ c[i + 1] = f[n + 1 - (i + 1)]
    BY <2>1 DEF ChainFrom
  <2>. HIDE DEF d, c
  <2>3. f[d] = Entering(s, bodies, n - d + 1, f[d - 1])
    BY <1>4, <2>1
  <2>4. QED
    BY <2>1, <2>2, <2>3
<1>. HIDE DEF c
<1>7. IsChain(c, s, bodies, rest)
  BY <1>5, <1>6 DEF IsChain, n
<1>8. QED
  BY <1>3, <1>5, <1>7


(* Branches never taken, and those behind one that is always taken, count  *)
(* for nothing: a chain is that of its branches at some of the places,     *)
(* before a place where both come to the same.                             *)
Skips(c, d, s, bodies, first, places) ==
  /\ places \subseteq 1 .. first - 1
  /\ \A i \in 1 .. first - 1 : c[i] = Entering(s, bodies, i, c[i + 1])
  /\ \A i \in 1 .. first - 1 : i \notin places => c[i] = c[i + 1]
  /\ \A k \in 1 .. Cardinality(places) : d[k] = Entering(s, bodies, Nth(places, k), d[k + 1])
  /\ c[first] = d[Cardinality(places) + 1]

LEMMA ChainAtPlaces ==
  ASSUME NEW s, NEW first \in Nat \ {0}, NEW bodies, NEW c, NEW d,
         NEW places, Skips(c, d, s, bodies, first, places)
  PROVE  c[1] = d[1]
<1>. USE DEF Skips
<1>. DEFINE Before(i) == {j \in places : j < i}
            At(i) == Cardinality(Before(i)) + 1
            Bad == {m \in 0 .. first - 1 : c[first - m] # d[At(first - m)]}
<1>1. IsFiniteSet(places) /\ Cardinality(places) \in Nat
  <2>1. first - 1 \in Nat
    OBVIOUS
  <2>2. QED
    BY <2>1, PlacesFinite
<1>2. ASSUME NEW i \in 1 .. first - 1 PROVE At(i + 1) = IF i \in places THEN At(i) + 1 ELSE At(i)
  <2>1. IsFiniteSet(Before(i)) /\ Cardinality(Before(i)) \in Nat
    BY <1>1, FS_Subset, FS_CardinalityType
  <2>2. \A j \in places : j \in Nat /\ i \in Nat /\ (j < i + 1 <=> j < i \/ j = i)
    OBVIOUS
  <2>3. i \in places => Before(i + 1) = Before(i) \cup {i} /\ i \notin Before(i)
    <3>1. ~(i < i)
      OBVIOUS
    <3>2. ASSUME i \in places, NEW j PROVE j \in Before(i + 1) <=> j \in Before(i) \cup {i}
      BY <2>2, <3>2
    <3>3. QED
      BY <3>1, <3>2
  <2>4. i \notin places => Before(i + 1) = Before(i)
    BY <2>2
  <2>. HIDE DEF Before
  <2>5. i \in places => Cardinality(Before(i + 1)) = Cardinality(Before(i)) + 1
    BY <2>1, <2>3, FS_AddElement
  <2>6. QED
    BY <2>4, <2>5
<1>3. ASSUME NEW i \in places PROVE At(i) \in 1 .. Cardinality(places) /\ Nth(places, At(i)) = i
  <2>1. first - 1 \in Nat
    OBVIOUS
  <2>2. PICK k \in 1 .. Cardinality(places) : Nth(places, k) = i
    BY <2>1, EveryPlaceIsNth
  <2>3. Cardinality({j \in places : j <= i}) = k
    BY <2>1, <2>2, NthInPlaces
  <2>4. {j \in places : j <= i} = Before(i + 1)
    <3>1. \A j \in places : j \in Nat /\ i \in Nat /\ (j < i + 1 <=> j <= i)
      OBVIOUS
    <3>2. QED
      BY <3>1
  <2>5. At(i + 1) = At(i) + 1
    BY <1>2
  <2>6. IsFiniteSet(Before(i)) /\ Cardinality(Before(i)) \in Nat
    BY <1>1, FS_Subset, FS_CardinalityType
  <2>7. At(i + 1) = k + 1
    BY <2>3, <2>4
  <2>8. At(i) \in Nat
    BY <2>6
  <2>. HIDE DEF At
  <2>9. At(i) = k
    BY <1>1, <2>5, <2>7, <2>8
  <2>10. QED
    BY <2>2, <2>9
<1>4. Before(first) = places
  <2>1. \A j \in places : j < first
    OBVIOUS
  <2>2. QED
    BY <2>1
<1>5. Before(1) = {}
  <2>1. \A j \in places : ~(j < 1)
    OBVIOUS
  <2>2. QED
    BY <2>1
<1>6. At(first) = Cardinality(places) + 1 /\ At(1) = 1
  BY <1>4, <1>5, FS_EmptySet
<1>. HIDE DEF At
<1>7. ASSUME NEW i \in 1 .. first - 1, c[i + 1] = d[At(i + 1)] PROVE c[i] = d[At(i)]
  <2>1. CASE i \notin places
    <3>1. At(i + 1) = At(i)
      BY <1>2, <2>1
    <3>2. QED
      BY <1>7, <2>1, <3>1
  <2>2. CASE i \in places
    <3>1. At(i + 1) = At(i) + 1
      BY <1>2, <2>2
    <3>2. At(i) \in 1 .. Cardinality(places) /\ Nth(places, At(i)) = i
      BY <1>3, <2>2
    <3>3. d[At(i)] = Entering(s, bodies, i, d[At(i) + 1])
      BY <3>2
    <3>4. c[i] = Entering(s, bodies, i, c[i + 1])
      OBVIOUS
    <3>5. QED
      BY <1>7, <3>1, <3>3, <3>4
  <2>3. QED
    BY <2>1, <2>2
<1>8. ASSUME Bad # {} PROVE FALSE
  <2>1. PICK m \in Bad : \A y \in Bad : m <= y
    <3>1. Bad \subseteq Nat
      OBVIOUS
    <3>2. QED
      BY <1>8, <3>1, LeastOf
  <2>2. m \in 0 .. first - 1 /\ c[first - m] # d[At(first - m)]
    BY <2>1
  <2>3. m # 0
    <3>1. first - 0 = first
      OBVIOUS
    <3>2. QED
      BY <1>6, <2>2, <3>1
  <2>4. m - 1 \in 0 .. first - 1 /\ ~(m <= m - 1)
    BY <2>2, <2>3
  <2>5. c[first - (m - 1)] = d[At(first - (m - 1))]
    BY <2>1, <2>4
  <2>6. first - m \in 1 .. first - 1 /\ first - m + 1 = first - (m - 1)
    BY <2>2, <2>3
  <2>7. QED
    BY <1>7, <2>2, <2>5, <2>6
<1>9. first - 1 \in 0 .. first - 1 /\ first - (first - 1) = 1
  OBVIOUS
<1>10. c[1] = d[At(1)]
  BY <1>8, <1>9
<1>11. QED
  BY <1>6, <1>10

LEMMA GuardDecided ==
  ASSUME NEW condition, NEW yes, NEW no
  PROVE  /\ IsTrue(condition) => Guarded(condition, yes, no) = yes
         /\ IsFalse(condition) /\ ~IsTrue(condition) => Guarded(condition, yes, no) = no
BY DEF Guarded

(* A chain and what is left of it when its conditions that are constant    *)
(* are decided: bodies and rest are the runs of its branches and its else. *)
Taken(s, bodies, rest, first, left) ==
  /\ first \in 1 .. Len(s) + 1
  /\ \A i \in 1 .. first - 1 : ~IsTrue(s[i].condition)
  /\ first \in 1 .. Len(s) => IsTrue(s[first].condition)
  /\ left = IF first = Len(s) + 1 THEN rest ELSE bodies[first]

KeptAt(s, bodies, first, kept, keptBodies, places) ==
  /\ places \subseteq 1 .. first - 1
  /\ \A i \in 1 .. first - 1 : i \in places <=> ~IsFalse(s[i].condition)
  /\ Len(kept) = Cardinality(places)
  /\ \A k \in 1 .. Len(kept) :
       kept[k] = s[Nth(places, k)] /\ keptBodies[k] = bodies[Nth(places, k)]

LEMMA ChainSimplified ==
  ASSUME NEW s, IsList(s), NEW bodies, NEW rest, NEW first, NEW left,
         Taken(s, bodies, rest, first, left),
         NEW kept, IsList(kept), NEW keptBodies, NEW places,
         KeptAt(s, bodies, first, kept, keptBodies, places)
  PROVE  ChainRuns(kept, keptBodies, left) = ChainRuns(s, bodies, rest)
<1>. USE DEF Taken, KeptAt
<1>0. Len(s) \in Nat /\ 1 .. first - 1 \subseteq 1 .. Len(s)
  <2>1. Len(s) \in Nat
    BY ListFacts
  <2>2. QED
    BY <2>1
<1>1. PICK c : IsChain(c, s, bodies, rest) /\ c[1] = ChainRuns(s, bodies, rest)
  BY ChainOfRuns
<1>2. PICK d : IsChain(d, kept, keptBodies, left) /\ d[1] = ChainRuns(kept, keptBodies, left)
  BY ChainOfRuns
<1>3. \A i \in 1 .. first - 1 : c[i] = Entering(s, bodies, i, c[i + 1])
  BY <1>0, <1>1 DEF IsChain
<1>4. ASSUME NEW i \in 1 .. first - 1, i \notin places PROVE c[i] = c[i + 1]
  <2>1. IsFalse(s[i].condition) /\ ~IsTrue(s[i].condition)
    BY <1>4
  <2>2. QED
    BY <1>3, <2>1, GuardDecided DEF Entering
<1>5. ASSUME NEW k \in 1 .. Cardinality(places) PROVE d[k] = Entering(s, bodies, Nth(places, k), d[k + 1])
  <2>1. d[k] = Entering(kept, keptBodies, k, d[k + 1])
    BY <1>2 DEF IsChain
  <2>2. kept[k] = s[Nth(places, k)] /\ keptBodies[k] = bodies[Nth(places, k)]
    OBVIOUS
  <2>3. QED
    BY <2>1, <2>2 DEF Entering
<1>6. d[Cardinality(places) + 1] = left
  BY <1>2 DEF IsChain
<1>7. c[first] = left
  <2>1. CASE first = Len(s) + 1
    BY <1>1, <2>1 DEF IsChain
  <2>2. CASE first # Len(s) + 1
    <3>1. first \in 1 .. Len(s)
      BY <1>0, <2>2
    <3>2. c[first] = Entering(s, bodies, first, c[first + 1])
      BY <1>1, <3>1 DEF IsChain
    <3>3. QED
      BY <2>2, <3>1, <3>2, GuardDecided DEF Entering
  <2>3. QED
    BY <2>1, <2>2
<1>8. places \subseteq 1 .. first - 1
  OBVIOUS
<1>9. /\ \A i \in 1 .. first - 1 : i \notin places => c[i] = c[i + 1]
      /\ \A k \in 1 .. Cardinality(places) : d[k] = Entering(s, bodies, Nth(places, k), d[k + 1])
      /\ c[first] = d[Cardinality(places) + 1]
  BY <1>4, <1>5, <1>6, <1>7
<1>11. first \in Nat \ {0}
  BY <1>0
<1>12. c[1] = d[1]
  <2>1. Skips(c, d, s, bodies, first, places)
    BY <1>3, <1>8, <1>9 DEF Skips
  <2>2. QED
    BY <1>11, <2>1, ChainAtPlaces
<1>13. QED
  BY <1>1, <1>2, <1>12

(* For any account of the runs of blocks, R, that gives those of an if-else *)
(* chain from those of its branches: the chain add_if_else makes of what   *)
(* was written has the runs of all of it, the branches never taken and     *)
(* those behind one that is always taken included (cqasm-analyzer-helper). *)
THEOREM IfKeepsRuns ==
  ASSUME NEW R(_), R(<<>>) = Done,
         \A b, e : IsList(b) =>
           R(<<[node |-> "if_else", branches |-> b, otherwise |-> e]>>) =
             ChainRuns(b, [i \in DOMAIN b |-> R(b[i].body)],
                       IF e = Absent THEN Done ELSE R(e.body)),
         NEW branches, IsList(branches), NEW otherwise
  PROVE  R(OptimizedIf(branches, otherwise)) =
           ChainRuns(branches, [i \in DOMAIN branches |-> R(branches[i].body)],
                     IF otherwise = Absent THEN Done ELSE R(otherwise.body))
<1>. DEFINE always == {i \in DOMAIN branches : IsTrue(branches[i].condition)}
            first == IF always = {} THEN Len(branches) + 1 ELSE Min(always)
            places == {i \in 1 .. first - 1 : ~IsFalse(branches[i].condition)}
            kept == ElementsAt(branches, places)
            final == IF always = {} THEN otherwise ELSE [body |-> branches[first].body]
            bodies == [i \in DOMAIN branches |-> R(branches[i].body)]
            keptBodies == [i \in DOMAIN kept |-> R(kept[i].body)]
            rest == IF otherwise = Absent THEN Done ELSE R(otherwise.body)
            left == IF final = Absent THEN Done ELSE R(final.body)
<1>1. OptimizedIf(branches, otherwise) =
        IF kept = <<>> THEN IF final = Absent THEN <<>> ELSE final.body
        ELSE <<[node |-> "if_else", branches |-> kept, otherwise |-> final]>>
  BY DEF OptimizedIf
<1>2. Len(branches) \in Nat /\ DOMAIN branches = 1 .. Len(branches)
  BY ListFacts
<1>3. /\ always # {} => first \in always /\ \A i \in always : first <= i
      /\ always = {} => first = Len(branches) + 1
  <2>1. always \subseteq Nat
    BY <1>2
  <2>2. always # {} => Min(always) \in always /\ \A i \in always : Min(always) <= i
    BY <2>1, LeastOf DEF Min
  <2>3. QED
    BY <2>2
<1>. HIDE DEF first
<1>4. first \in 1 .. Len(branches) + 1
  BY <1>2, <1>3
<1>5. \A i \in 1 .. first - 1 : ~IsTrue(branches[i].condition)
  BY <1>2, <1>3, <1>4
<1>6. first \in 1 .. Len(branches) => IsTrue(branches[first].condition)
  BY <1>2, <1>3
<1>7. left = IF first = Len(branches) + 1 THEN rest ELSE bodies[first]
  <2>1. CASE always = {}
    BY <1>3, <2>1
  <2>2. CASE always # {}
    <3>1. first \in DOMAIN branches /\ first # Len(branches) + 1
      BY <1>2, <1>3, <2>2
    <3>2. final # Absent /\ final.body = branches[first].body
      BY <2>2 DEF Absent
    <3>. HIDE DEF final, rest
    <3>3. QED
      BY <3>1, <3>2
  <2>3. QED
    BY <2>1, <2>2
<1>8. places \subseteq DOMAIN branches /\ places \subseteq 1 .. Len(branches)
  BY <1>2, <1>4
<1>9. Cardinality(places) \in Nat /\ \A k \in 1 .. Cardinality(places) : Nth(places, k) \in places
  <2>. HIDE DEF places
  <2>1. QED
    BY <1>2, <1>8, PlacesFinite, NthInPlaces
<1>10. DOMAIN kept = 1 .. Cardinality(places) /\ \A k \in DOMAIN kept : kept[k] = branches[Nth(places, k)]
  BY DEF ElementsAt
<1>. HIDE DEF always, final
<1>11. IsList(kept)
  <2>. HIDE DEF places
  <2>1. QED
    BY <1>8, ElementsAtPlaces
<1>. HIDE DEF kept
<1>13. Len(kept) = Cardinality(places)
  <2>1. Len(kept) \in Nat /\ DOMAIN kept = 1 .. Len(kept)
    BY <1>11, ListFacts
  <2>2. QED
    BY <1>9, <1>10, <2>1
<1>14. \A k \in 1 .. Len(kept) :
         kept[k] = branches[Nth(places, k)] /\ keptBodies[k] = bodies[Nth(places, k)]
  BY <1>8, <1>9, <1>10, <1>13
<1>. HIDE DEF bodies, keptBodies, rest, left
<1>15. ChainRuns(kept, keptBodies, left) = ChainRuns(branches, bodies, rest)
  <2>1. Taken(branches, bodies, rest, first, left)
    BY <1>4, <1>5, <1>6, <1>7 DEF Taken
  <2>2. KeptAt(branches, bodies, first, kept, keptBodies, places)
    BY <1>13, <1>14 DEF KeptAt
  <2>. HIDE DEF places
  <2>3. QED
    BY <1>11, <2>1, <2>2, ChainSimplified
<1>16. CASE kept # <<>>
  <2>1. R(<<[node |-> "if_else", branches |-> kept, otherwise |-> final]>>) =
          ChainRuns(kept, keptBodies, left)
    BY <1>11 DEF keptBodies, left
  <2>2. QED
    BY <1>1, <1>15, <1>16, <2>1 DEF bodies, rest
<1>17. CASE kept = <<>>
  <2>1. Len(kept) = 0
    BY <1>17
  <2>2. PICK d : IsChain(d, kept, keptBodies, left) /\ d[1] = ChainRuns(kept, keptBodies, left)
    BY <1>11, ChainOfRuns
  <2>3. d[1] = left
    BY <2>1, <2>2 DEF IsChain
  <2>4. R(OptimizedIf(branches, otherwise)) = left
    BY <1>1, <1>17 DEF left
  <2>5. QED
    BY <1>15, <2>2, <2>3, <2>4 DEF bodies, rest
<1>18. QED
  BY <1>16, <1>17

-----------------------------------------------------------------------------
(* Loops that are followed for some passes.                                *)
LEMMA Passes ==
  ASSUME NEW start, NEW once, NEW twice
  PROVE  LET f == [n \in 0 .. 2 |-> IF n = 0 THEN start ELSE IF n = 1 THEN once ELSE twice]
         IN  f[0] = start /\ f[1] = once /\ f[2] = twice
OBVIOUS

RepeatPass(condition, body, after) == Pass(body, Guarded(condition, Done, after))

LEMMA RepeatUnrolled ==
  ASSUME NEW condition, NEW body
  PROVE  \E before : RepeatRuns(condition, body, Unroll) = RepeatPass(condition, body, before)
<1>. DEFINE Step(x) == RepeatPass(condition, body, x)
            Is(f) == f = [n \in 0 .. Unroll |-> IF n = 0 THEN Cut ELSE Step(f[n - 1])]
            g == [n \in 0 .. 2 |-> IF n = 0 THEN Cut ELSE IF n = 1 THEN Step(Cut) ELSE Step(Step(Cut))]
<1>1. RepeatRuns(condition, body, Unroll) = (CHOOSE f : Is(f))[Unroll]
  BY DEF RepeatRuns, RepeatPass
<1>. HIDE DEF Step
<1>2. g = [n \in 0 .. 2 |-> IF n = 0 THEN Cut ELSE Step(g[n - 1])]
  <2>1. g[0] = Cut /\ g[1] = Step(Cut) /\ g[2] = Step(Step(Cut))
    BY Passes
  <2>2. \A n \in 0 .. 2 : n = 0 \/ n = 1 \/ n = 2
    OBVIOUS
  <2>3. ASSUME NEW n \in 0 .. 2 PROVE g[n] = IF n = 0 THEN Cut ELSE Step(g[n - 1])
    <3>1. CASE n = 0
      BY <2>1, <3>1
    <3>2. CASE n = 1
      BY <2>1, <3>2
    <3>3. CASE n = 2
      BY <2>1, <3>3
    <3>4. QED
      BY <2>2, <3>1, <3>2, <3>3
  <2>4. g = [n \in 0 .. 2 |-> g[n]]
    OBVIOUS
  <2>. HIDE DEF g
  <2>5. QED
    BY <2>3, <2>4
<1>. HIDE DEF g
<1>3. Is(g)
  BY <1>2 DEF Unroll
<1>4. PICK f : Is(f) /\ RepeatRuns(condition, body, Unroll) = f[2]
  BY <1>1, <1>3 DEF Unroll
<1>5. f[2] = Step(f[1])
  BY <1>4 DEF Unroll
<1>6. QED
  BY <1>4, <1>5 DEF Step

WhilePass(condition, body, update, after) == Guarded(condition, Pass(body, Then(update, after)), Done)

LEMMA WhileUnrolled ==
  ASSUME NEW condition, NEW body, NEW update
  PROVE  \E before :
           WhileRuns(condition, body, update, Unroll) = WhilePass(condition, body, update, before)
<1>. DEFINE Step(x) == WhilePass(condition, body, update, x)
            Is(f) == f = [n \in 0 .. Unroll |-> IF n = 0 THEN Cut ELSE Step(f[n - 1])]
            g == [n \in 0 .. 2 |-> IF n = 0 THEN Cut ELSE IF n = 1 THEN Step(Cut) ELSE Step(Step(Cut))]
<1>1. WhileRuns(condition, body, update, Unroll) = (CHOOSE f : Is(f))[Unroll]
  BY DEF WhileRuns, WhilePass
<1>. HIDE DEF Step
<1>2. g = [n \in 0 .. 2 |-> IF n = 0 THEN Cut ELSE Step(g[n - 1])]
  <2>1. g[0] = Cut /\ g[1] = Step(Cut) /\ g[2] = Step(Step(Cut))
    BY Passes
  <2>2. \A n \in 0 .. 2 : n = 0 \/ n = 1 \/ n = 2
    OBVIOUS
  <2>3. ASSUME NEW n \in 0 .. 2 PROVE g[n] = IF n = 0 THEN Cut ELSE Step(g[n - 1])
    <3>1. CASE n = 0
      BY <2>1, <3>1
    <3>2. CASE n = 1
      BY <2>1, <3>2
    <3>3. CASE n = 2
      BY <2>1, <3>3
    <3>4. QED
      BY <2>2, <3>1, <3>2, <3>3
  <2>4. g = [n \in 0 .. 2 |-> g[n]]
    OBVIOUS
  <2>. HIDE DEF g
  <2>5. QED
    BY <2>3, <2>4
<1>. HIDE DEF g
<1>3. Is(g)
  BY <1>2 DEF Unroll
<1>4. PICK f : Is(f) /\ WhileRuns(condition, body, update, Unroll) = f[2]
  BY <1>1, <1>3 DEF Unroll
<1>5. f[2] = Step(f[1])
  BY <1>4 DEF Unroll
<1>6. QED
  BY <1>4, <1>5 DEF Step

(* The runs of a body without a break or continue of the loop around it.   *)
StaysInside(runs) ==
  \A r \in runs :
    /\ r = Run(r.ops, r.exit) /\ IsList(r.ops)
    /\ r.exit.kind \in {"end", "goto", "cut"}
    /\ r.exit.kind = "end" => r.exit = Exit("end")

LEMMA GoesOn ==
  ASSUME NEW S, NEW T, NEW r \in S, r.exit.kind \in {"end", "continue"}, NEW s \in T
  PROVE  Run(r.ops \o s.ops, s.exit) \in
           {Run(a.ops \o b.ops, b.exit) :
              a \in {t \in S : t.exit.kind \in {"end", "continue"}}, b \in T}
<1>. DEFINE going == {t \in S : t.exit.kind \in {"end", "continue"}}
<1>1. r \in going
  OBVIOUS
<1>. HIDE DEF going
<1>2. \E a \in going, b \in T : Run(r.ops \o s.ops, s.exit) = Run(a.ops \o b.ops, b.exit)
  BY <1>1
<1>3. Run(r.ops \o s.ops, s.exit) \in {Run(a.ops \o b.ops, b.exit) : a \in going, b \in T}
  BY <1>2
<1>4. QED
  BY <1>3 DEF going

LEMMA OnePass ==
  ASSUME NEW runs, StaysInside(runs)
  PROVE  Pass(runs, Done) = runs
<1>. DEFINE ended == {Run(r.ops \o s.ops, s.exit) :
                       r \in {t \in runs : t.exit.kind \in {"end", "continue"}}, s \in Done}
            broken == {Run(r.ops, Exit("end")) : r \in {t \in runs : t.exit.kind = "break"}}
            left == {r \in runs : r.exit.kind \in {"goto", "cut"}}
<1>1. Pass(runs, Done) = broken \cup left \cup ended
  BY DEF Pass
<1>2. broken = {}
  BY DEF StaysInside
<1>3. \A s : s \in Done <=> s = Run(<<>>, Exit("end"))
  BY DEF Done
<1>4. Run(<<>>, Exit("end")).ops = <<>> /\ Run(<<>>, Exit("end")).exit = Exit("end")
  BY DEF Run
<1>5. ASSUME NEW r \in runs, r.exit.kind = "end" PROVE Run(r.ops \o <<>>, Exit("end")) = r
  <2>1. r.ops \in Seq(Range(r.ops))
    BY DEF StaysInside, IsList
  <2>2. r.ops \o <<>> = r.ops
    BY <2>1
  <2>3. QED
    BY <1>5, <2>2 DEF StaysInside
<1>6. ended = {r \in runs : r.exit.kind = "end"}
  <2>1. \A r \in runs : r.exit.kind \in {"end", "continue"} <=> r.exit.kind = "end"
    BY DEF StaysInside
  <2>2. ASSUME NEW x \in ended PROVE x \in {r \in runs : r.exit.kind = "end"}
    <3>1. PICK r \in {t \in runs : t.exit.kind \in {"end", "continue"}}, s \in Done :
            x = Run(r.ops \o s.ops, s.exit)
      BY <2>2
    <3>2. r \in runs /\ r.exit.kind = "end"
      BY <2>1, <3>1
    <3>3. s = Run(<<>>, Exit("end"))
      BY <1>3, <3>1
    <3>4. s.ops = <<>> /\ s.exit = Exit("end")
      BY <1>4, <3>3
    <3>5. x = Run(r.ops \o <<>>, Exit("end"))
      BY <3>1, <3>4
    <3>6. x = r
      BY <1>5, <3>2, <3>5
    <3>7. QED
      BY <3>2, <3>6
  <2>3. ASSUME NEW r \in runs, r.exit.kind = "end" PROVE r \in ended
    <3>1. r = Run(r.ops \o <<>>, Exit("end"))
      BY <1>5, <2>3
    <3>2. Run(<<>>, Exit("end")) \in Done
      BY <1>3
    <3>3. r \in runs /\ r.exit.kind \in {"end", "continue"}
      BY <2>3
    <3>4. Run(r.ops \o Run(<<>>, Exit("end")).ops, Run(<<>>, Exit("end")).exit) \in ended
      BY <3>2, <3>3, GoesOn
    <3>5. Run(r.ops \o Run(<<>>, Exit("end")).ops, Run(<<>>, Exit("end")).exit) = r
      BY <1>4, <3>1
    <3>. HIDE DEF ended
    <3>6. QED
      BY <3>4, <3>5
  <2>4. QED
    BY <2>2, <2>3
<1>. HIDE DEF ended, broken
<1>7. \A r \in runs : r.exit.kind = "end" \/ r.exit.kind \in {"goto", "cut"}
  BY DEF StaysInside
<1>8. QED
  BY <1>1, <1>2, <1>6, <1>7

(* A while loop that is never entered leaves nothing behind, and no run of *)
(* it is lost (cqasm-analyzer-helper.cpp, the statement is not added).     *)
THEOREM WhileKeepsRuns ==
  ASSUME NEW R(_), R(<<>>) = Done,
         \A c, b : R(<<[node |-> "while", condition |-> c, body |-> b]>>) =
                     WhileRuns(c, R(b), Done, Unroll),
         NEW condition, NEW body
  PROVE  R(OptimizedWhile(condition, body)) = WhileRuns(condition, R(body), Done, Unroll)
<1>1. CASE IsFalse(condition)
  <2>1. PICK before : WhileRuns(condition, R(body), Done, Unroll) =
                        WhilePass(condition, R(body), Done, before)
    BY WhileUnrolled
  <2>2. ~IsTrue(condition)
    BY <1>1 DEF IsTrue, IsFalse, Bool, Const
  <2>3. WhilePass(condition, R(body), Done, before) = Done
    BY <1>1, <2>2 DEF WhilePass, Guarded
  <2>4. QED
    BY <1>1, <2>1, <2>3 DEF OptimizedWhile
<1>2. CASE ~IsFalse(condition)
  BY <1>2 DEF OptimizedWhile
<1>3. QED
  BY <1>1, <1>2

(* A repeat-until loop always left after its first pass has the runs of    *)
(* its body, which replaces it, unless a break or continue of the loop is  *)
(* in it: that case is the one JumpsInsideLoops is about.                  *)
THEOREM RepeatKeepsRuns ==
  ASSUME NEW R(_),
         \A c, b : R(<<[node |-> "repeat_until", condition |-> c, body |-> b]>>) =
                     RepeatRuns(c, R(b), Unroll),
         NEW condition, NEW body, IsTrue(condition) => StaysInside(R(body))
  PROVE  R(OptimizedRepeat(condition, body)) = RepeatRuns(condition, R(body), Unroll)
<1>1. CASE IsTrue(condition)
  <2>1. PICK before : RepeatRuns(condition, R(body), Unroll) =
                        RepeatPass(condition, R(body), before)
    BY RepeatUnrolled
  <2>2. Guarded(condition, Done, before) = Done
    BY <1>1, GuardDecided
  <2>3. Pass(R(body), Done) = R(body)
    BY <1>1, OnePass
  <2>4. QED
    BY <1>1, <2>1, <2>2, <2>3 DEF RepeatPass, OptimizedRepeat
<1>2. CASE ~IsTrue(condition)
  BY <1>2 DEF OptimizedRepeat
<1>3. QED
  BY <1>1, <1>2
=============================================================================
