------------------------- MODULE V3xReadingTheorems -------------------------
(***************************************************************************)
(* From the expressions of V3xReadingProofs to the statements of a         *)
(* program, one visit after the other, and from there to the replies of a  *)
(* Frontend: its answers mean what is written.  At the end, the same way   *)
(* for its errors: they are where something is wrong.                      *)
(***************************************************************************)
EXTENDS V3xReadingProofs

-----------------------------------------------------------------------------
(* The path of a node tells it from all others.                             *)
LEMMA PathsApart ==
  ASSUME NEW p \in Seq(Nat), NEW q \in Seq(Nat), NEW i \in Nat, NEW j \in Nat,
         Child(p, i) = Child(q, j)
  PROVE  p = q /\ i = j
<1>1. Append(p, i) = Append(q, j)
  BY DEF Child
<1>2. Len(p) = Len(q)
  <2>1. Len(Append(p, i)) = Len(p) + 1 /\ Len(Append(q, j)) = Len(q) + 1
    OBVIOUS
  <2>2. QED
    BY <1>1, <2>1
<1>3. i = j
  <2>1. Append(p, i)[Len(p) + 1] = i /\ Append(q, j)[Len(q) + 1] = j
    OBVIOUS
  <2>2. QED
    BY <1>1, <1>2, <2>1
<1>4. ASSUME NEW k \in 1 .. Len(p) PROVE p[k] = q[k]
  <2>1. Append(p, i)[k] = p[k] /\ Append(q, j)[k] = q[k]
    BY <1>2
  <2>2. QED
    BY <1>1, <2>1
<1>5. p = q
  <2>1. p = [k \in 1 .. Len(p) |-> p[k]] /\ q = [k \in 1 .. Len(q) |-> q[k]]
    OBVIOUS
  <2>2. QED
    BY <1>2, <1>4, <2>1
<1>6. QED
  BY <1>3, <1>5

LEMMA LevelPaths ==
  ASSUME NEW t, ProgramTree(t)
  PROVE  \A d \in Nat : d \in 0 .. MaxDepth =>
           /\ \A n \in LevelsOf(t)[d] : n.path \in Seq(Nat) /\ Len(n.path) = d
           /\ \A n, m \in LevelsOf(t)[d] : n.path = m.path => n = m
<1>. DEFINE P(d) == /\ \A n \in LevelsOf(t)[d] : n.path \in Seq(Nat) /\ Len(n.path) = d
                    /\ \A n, m \in LevelsOf(t)[d] : n.path = m.path => n = m
            S == {d \in Nat : d \in 0 .. MaxDepth => P(d)}
<1>1. 0 \in S
  <2>1. LevelsOf(t)[0] = {Standing(<<>>, t)} /\ Standing(<<>>, t).path = <<>>
    BY RootLevel DEF Standing
  <2>2. <<>> \in Seq(Nat) /\ Len(<<>>) = 0
    OBVIOUS
  <2>3. \A n \in LevelsOf(t)[0] : n = Standing(<<>>, t)
    BY <2>1
  <2>4. P(0)
    BY <2>1, <2>2, <2>3
  <2>5. QED
    BY <2>4
<1>2. ASSUME NEW d \in Nat, d \in S PROVE d + 1 \in S
  <2>1. SUFFICES ASSUME d + 1 \in 0 .. MaxDepth PROVE P(d + 1)
    OBVIOUS
  <2>2. d \in 0 .. MaxDepth /\ d + 1 # 0 /\ (d + 1) - 1 = d /\ P(d)
    <3>1. d \in 0 .. MaxDepth /\ d + 1 # 0 /\ (d + 1) - 1 = d
      BY <2>1, Depth
    <3>. HIDE DEF P
    <3>2. QED
      BY <1>2, <3>1
  <2>3. LevelsOf(t)[d + 1] = UNION {Below(n) : n \in LevelsOf(t)[d]}
    <3>1. d + 1 # 0 /\ (d + 1) - 1 = d
      OBVIOUS
    <3>2. LevelsOf(t)[d + 1] =
            IF d + 1 = 0 THEN {Standing(<<>>, t)}
            ELSE UNION {Below(n) : n \in LevelsOf(t)[(d + 1) - 1]}
      BY <2>1, LevelSteps
    <3>3. QED
      BY <3>1, <3>2
  <2>4. \A n \in LevelsOf(t)[d] : n \in Nodes(t) /\ DOMAIN n.node.kids \subseteq Nat
    BY <2>2, KidsListed DEF Nodes
  <2>5. \A n, i : Under(n, i).path = Child(n.path, i)
    BY DEF Under, Standing
  <2>6. ASSUME NEW m \in LevelsOf(t)[d + 1]
        PROVE  \E n \in LevelsOf(t)[d] : \E i \in DOMAIN n.node.kids : m = Under(n, i)
    <3>1. PICK n \in LevelsOf(t)[d] : m \in Below(n)
      BY <2>3
    <3>2. PICK i \in DOMAIN n.node.kids : m = Under(n, i)
      BY <3>1 DEF Below
    <3>3. QED
      BY <3>1, <3>2
  <2>. HIDE DEF S
  <2>7. ASSUME NEW m \in LevelsOf(t)[d + 1] PROVE m.path \in Seq(Nat) /\ Len(m.path) = d + 1
    <3>1. PICK n \in LevelsOf(t)[d] : \E i \in DOMAIN n.node.kids : m = Under(n, i)
      BY <2>6
    <3>2. PICK i \in DOMAIN n.node.kids : m = Under(n, i)
      BY <3>1
    <3>3. i \in Nat /\ n.path \in Seq(Nat) /\ Len(n.path) = d /\ m.path = Append(n.path, i)
      BY <2>2, <2>4, <2>5, <3>2 DEF Child
    <3>4. QED
      BY <3>3
  <2>8. ASSUME NEW m \in LevelsOf(t)[d + 1], NEW k \in LevelsOf(t)[d + 1], m.path = k.path PROVE m = k
    <3>1. PICK n \in LevelsOf(t)[d] : \E i \in DOMAIN n.node.kids : m = Under(n, i)
      BY <2>6
    <3>2. PICK i \in DOMAIN n.node.kids : m = Under(n, i)
      BY <3>1
    <3>3. PICK o \in LevelsOf(t)[d] : \E j \in DOMAIN o.node.kids : k = Under(o, j)
      BY <2>6
    <3>4. PICK j \in DOMAIN o.node.kids : k = Under(o, j)
      BY <3>3
    <3>5. /\ i \in Nat /\ j \in Nat /\ n.path \in Seq(Nat) /\ o.path \in Seq(Nat)
          /\ Child(n.path, i) = Child(o.path, j)
      BY <2>2, <2>4, <2>5, <2>8, <3>2, <3>4
    <3>6. n.path = o.path /\ i = j
      BY <3>5, PathsApart
    <3>7. n = o
      BY <2>2, <3>6
    <3>8. QED
      BY <3>2, <3>4, <3>6, <3>7
  <2>9. QED
    BY <2>7, <2>8
<1>3. \A d \in Nat : d \in S
  <2>. HIDE DEF S
  <2>1. QED
    BY <1>1, <1>2, Inductive
<1>4. QED
  BY <1>3

LEMMA NodeFound ==
  ASSUME NEW t, ProgramTree(t), NEW n \in Nodes(t)
  PROVE  NodeAt(t, n.path) = n.node
<1>1. ASSUME NEW m \in Nodes(t), m.path = n.path PROVE m = n
  <2>1. PICK d \in 0 .. MaxDepth : n \in LevelsOf(t)[d]
    BY DEF Nodes
  <2>2. PICK c \in 0 .. MaxDepth : m \in LevelsOf(t)[c]
    BY DEF Nodes
  <2>3. d \in Nat /\ c \in Nat
    BY Depth
  <2>4. Len(n.path) = d /\ Len(m.path) = c
    BY <2>1, <2>2, <2>3, LevelPaths
  <2>5. c = d
    BY <1>1, <2>4
  <2>6. QED
    BY <1>1, <2>1, <2>2, <2>3, <2>5, LevelPaths
<1>2. QED
  BY <1>1 DEF NodeAt

-----------------------------------------------------------------------------
(* The states of a block of a function exist, statement by statement. *)
LocalStep(es, i, prior) == IF prior.broken THEN prior ELSE VisitLocal(es[i], prior)

AreLocalStates(f, es, s, length) ==
  f = [i \in 0 .. length |-> IF i = 0 THEN s ELSE LocalStep(es, i, f[i - 1])]

LEMMA LocalStatesExist ==
  ASSUME NEW es, NEW s, NEW length \in Nat
  PROVE  \E f : AreLocalStates(f, es, s, length)
<1>. DEFINE Next1(d, x) == LocalStep(es, d, x)
            Is(f, m) == \A d \in 0 .. m : f[d] = IF d = 0 THEN s ELSE Next1(d, f[d - 1])
            S == {m \in Nat : \E f : f = [d \in 0 .. m |-> f[d]] /\ Is(f, m)}
<1>. HIDE DEF Next1
<1>1. 0 \in S
  <2>. DEFINE f == [d \in 0 .. 0 |-> s]
  <2>1. f = [d \in 0 .. 0 |-> f[d]] /\ Is(f, 0)
    OBVIOUS
  <2>. HIDE DEF f, Is
  <2>2. QED
    BY <2>1
<1>2. ASSUME NEW m \in Nat, m \in S PROVE m + 1 \in S
  <2>1. PICK f : f = [d \in 0 .. m |-> f[d]] /\ Is(f, m)
    BY <1>2
  <2>. DEFINE g == [d \in 0 .. m + 1 |-> IF d = m + 1 THEN Next1(d, f[m]) ELSE f[d]]
  <2>2. g = [d \in 0 .. m + 1 |-> g[d]]
    OBVIOUS
  <2>3. ASSUME NEW d \in 0 .. m + 1 PROVE g[d] = IF d = 0 THEN s ELSE Next1(d, g[d - 1])
    <3>1. CASE d = m + 1
      <4>1. d # 0 /\ d - 1 = m /\ m \in 0 .. m + 1 /\ m # m + 1
        BY <3>1
      <4>2. g[d] = Next1(d, f[m]) /\ g[d - 1] = f[m]
        BY <3>1, <4>1
      <4>. HIDE DEF g
      <4>3. QED
        BY <4>1, <4>2
    <3>2. CASE d # m + 1
      <4>1. d \in 0 .. m /\ g[d] = f[d]
        BY <3>2
      <4>2. d # 0 => d - 1 \in 0 .. m /\ g[d - 1] = f[d - 1]
        BY <4>1
      <4>3. f[d] = IF d = 0 THEN s ELSE Next1(d, f[d - 1])
        BY <2>1, <4>1
      <4>. HIDE DEF g
      <4>4. QED
        BY <4>1, <4>2, <4>3
    <3>3. QED
      BY <3>1, <3>2
  <2>. HIDE DEF g
  <2>4. Is(g, m + 1)
    BY <2>3
  <2>. HIDE DEF Is
  <2>5. QED
    BY <2>2, <2>4
<1>3. \A m \in Nat : m \in S
  <2>. HIDE DEF S
  <2>1. QED
    BY <1>1, <1>2, Inductive
<1>4. PICK f : f = [d \in 0 .. length |-> f[d]] /\ Is(f, length)
  BY <1>3
<1>5. f = [d \in 0 .. length |-> IF d = 0 THEN s ELSE Next1(d, f[d - 1])]
  BY <1>4
<1>6. QED
  BY <1>5 DEF Next1, AreLocalStates

LEMMA LocalStatesNext ==
  ASSUME NEW es, Len(es) \in Nat, NEW s
  PROVE  /\ LocalStates(es, s)[0] = s
         /\ \A c \in Nat : c + 1 \in 0 .. Len(es) =>
              LocalStates(es, s)[c + 1] = LocalStep(es, c + 1, LocalStates(es, s)[c])
<1>. DEFINE g == CHOOSE f : AreLocalStates(f, es, s, Len(es))
<1>1. LocalStates(es, s) = g
  BY DEF LocalStates, AreLocalStates, LocalStep
<1>2. AreLocalStates(g, es, s, Len(es))
  BY LocalStatesExist
<1>. HIDE DEF g
<1>3. \A d \in 0 .. Len(es) : g[d] = IF d = 0 THEN s ELSE LocalStep(es, d, g[d - 1])
  BY <1>2 DEF AreLocalStates
<1>4. g[0] = s
  <2>1. 0 \in 0 .. Len(es)
    OBVIOUS
  <2>2. QED
    BY <1>3, <2>1
<1>5. ASSUME NEW c \in Nat, c + 1 \in 0 .. Len(es) PROVE g[c + 1] = LocalStep(es, c + 1, g[c])
  <2>1. c + 1 # 0 /\ (c + 1) - 1 = c
    OBVIOUS
  <2>2. g[c + 1] = IF c + 1 = 0 THEN s ELSE LocalStep(es, c + 1, g[(c + 1) - 1])
    BY <1>3, <1>5
  <2>3. QED
    BY <2>1, <2>2
<1>6. QED
  BY <1>1, <1>4, <1>5

(* So do those of a program. *)
GlobalStep(es, i, prior) == IF prior.broken THEN prior ELSE VisitStatement(es[i], prior)

AreGlobalStates(f, es, s, length) ==
  f = [i \in 0 .. length |-> IF i = 0 THEN s ELSE GlobalStep(es, i, f[i - 1])]

LEMMA GlobalStatesExist ==
  ASSUME NEW es, NEW s, NEW length \in Nat
  PROVE  \E f : AreGlobalStates(f, es, s, length)
<1>. DEFINE Next1(d, x) == GlobalStep(es, d, x)
            Is(f, m) == \A d \in 0 .. m : f[d] = IF d = 0 THEN s ELSE Next1(d, f[d - 1])
            S == {m \in Nat : \E f : f = [d \in 0 .. m |-> f[d]] /\ Is(f, m)}
<1>. HIDE DEF Next1
<1>1. 0 \in S
  <2>. DEFINE f == [d \in 0 .. 0 |-> s]
  <2>1. f = [d \in 0 .. 0 |-> f[d]] /\ Is(f, 0)
    OBVIOUS
  <2>. HIDE DEF f, Is
  <2>2. QED
    BY <2>1
<1>2. ASSUME NEW m \in Nat, m \in S PROVE m + 1 \in S
  <2>1. PICK f : f = [d \in 0 .. m |-> f[d]] /\ Is(f, m)
    BY <1>2
  <2>. DEFINE g == [d \in 0 .. m + 1 |-> IF d = m + 1 THEN Next1(d, f[m]) ELSE f[d]]
  <2>2. g = [d \in 0 .. m + 1 |-> g[d]]
    OBVIOUS
  <2>3. ASSUME NEW d \in 0 .. m + 1 PROVE g[d] = IF d = 0 THEN s ELSE Next1(d, g[d - 1])
    <3>1. CASE d = m + 1
      <4>1. d # 0 /\ d - 1 = m /\ m \in 0 .. m + 1 /\ m # m + 1
        BY <3>1
      <4>2. g[d] = Next1(d, f[m]) /\ g[d - 1] = f[m]
        BY <3>1, <4>1
      <4>. HIDE DEF g
      <4>3. QED
        BY <4>1, <4>2
    <3>2. CASE d # m + 1
      <4>1. d \in 0 .. m /\ g[d] = f[d]
        BY <3>2
      <4>2. d # 0 => d - 1 \in 0 .. m /\ g[d - 1] = f[d - 1]
        BY <4>1
      <4>3. f[d] = IF d = 0 THEN s ELSE Next1(d, f[d - 1])
        BY <2>1, <4>1
      <4>. HIDE DEF g
      <4>4. QED
        BY <4>1, <4>2, <4>3
    <3>3. QED
      BY <3>1, <3>2
  <2>. HIDE DEF g
  <2>4. Is(g, m + 1)
    BY <2>3
  <2>. HIDE DEF Is
  <2>5. QED
    BY <2>2, <2>4
<1>3. \A m \in Nat : m \in S
  <2>. HIDE DEF S
  <2>1. QED
    BY <1>1, <1>2, Inductive
<1>4. PICK f : f = [d \in 0 .. length |-> f[d]] /\ Is(f, length)
  BY <1>3
<1>5. f = [d \in 0 .. length |-> IF d = 0 THEN s ELSE Next1(d, f[d - 1])]
  BY <1>4
<1>6. QED
  BY <1>5 DEF Next1, AreGlobalStates

LEMMA GlobalStatesNext ==
  ASSUME NEW es, Len(es) \in Nat, NEW s
  PROVE  /\ GlobalStates(es, s)[0] = s
         /\ \A c \in Nat : c + 1 \in 0 .. Len(es) =>
              GlobalStates(es, s)[c + 1] = GlobalStep(es, c + 1, GlobalStates(es, s)[c])
<1>. DEFINE g == CHOOSE f : AreGlobalStates(f, es, s, Len(es))
<1>1. GlobalStates(es, s) = g
  BY DEF GlobalStates, AreGlobalStates, GlobalStep
<1>2. AreGlobalStates(g, es, s, Len(es))
  BY GlobalStatesExist
<1>. HIDE DEF g
<1>3. \A d \in 0 .. Len(es) : g[d] = IF d = 0 THEN s ELSE GlobalStep(es, d, g[d - 1])
  BY <1>2 DEF AreGlobalStates
<1>4. g[0] = s
  <2>1. 0 \in 0 .. Len(es)
    OBVIOUS
  <2>2. QED
    BY <1>3, <2>1
<1>5. ASSUME NEW c \in Nat, c + 1 \in 0 .. Len(es) PROVE g[c + 1] = GlobalStep(es, c + 1, g[c])
  <2>1. c + 1 # 0 /\ (c + 1) - 1 = c
    OBVIOUS
  <2>2. g[c + 1] = IF c + 1 = 0 THEN s ELSE GlobalStep(es, c + 1, g[(c + 1) - 1])
    BY <1>3, <1>5
  <2>3. QED
    BY <2>1, <2>2
<1>6. QED
  BY <1>1, <1>4, <1>5

-----------------------------------------------------------------------------
(* What the ends of a handler change in the state of an analysis.           *)
IsState(s) ==
  DOMAIN s = {"names", "functions", "variables", "calls", "errors", "statements", "broken"}

Record(e, values) == [node |-> e.node, path |-> e.path, values |-> values]

LEMMA ReportFields ==
  ASSUME NEW s, IsState(s), NEW at
  PROVE  LET z == Report(s, at) IN
         /\ IsState(z) /\ z.names = s.names /\ z.functions = s.functions
         /\ z.statements = s.statements /\ z.broken = s.broken /\ z.errors = Append(s.errors, at)
BY DEF Report, IsState

LEMMA BreakFields ==
  ASSUME NEW s, IsState(s)
  PROVE  LET z == [s EXCEPT !.broken = TRUE] IN
         /\ IsState(z) /\ z.names = s.names /\ z.functions = s.functions
         /\ z.statements = s.statements /\ z.errors = s.errors
BY DEF IsState

LEMMA AddedFields ==
  ASSUME NEW s, IsState(s), NEW e, NEW values
  PROVE  LET z == Added(s, e, values) IN
         /\ IsState(z) /\ z.names = s.names /\ z.functions = s.functions
         /\ z.statements = Append(s.statements, Record(e, values))
         /\ z.broken = s.broken /\ z.errors = s.errors
<1>. DEFINE more == s.calls \o FlattenSeq([i \in DOMAIN values |-> values[i].term.calls])
            longer == Append(s.statements, [node |-> e.node, path |-> e.path, values |-> values])
            z == [s EXCEPT !.statements = longer, !.calls = more]
<1>1. Added(s, e, values) = z
  BY DEF Added
<1>2. longer = Append(s.statements, Record(e, values))
  BY DEF Record
<1>. HIDE DEF more, longer
<1>3. /\ IsState(z) /\ z.names = s.names /\ z.functions = s.functions
      /\ z.statements = longer /\ z.broken = s.broken /\ z.errors = s.errors
  BY DEF IsState
<1>4. QED
  BY <1>1, <1>2, <1>3

NamesWith(names, name, v) ==
  [n \in DOMAIN names \cup {name} |-> IF n = name THEN v ELSE names[n]]

LEMMA DeclareFields ==
  ASSUME NEW s, IsState(s), NEW name, NEW type, NEW v,
         v = WithTerm(VariableRef(s.variables + 1, BuildType(Written(type))), 0, name, <<>>),
         NEW after, after = Declare(s, name, type)
  PROVE  /\ IsState(after) /\ after.functions = s.functions /\ after.statements = s.statements
         /\ after.broken = s.broken /\ after.errors = s.errors
         /\ after.names = NamesWith(s.names, name, v)
<1>. DEFINE id == s.variables + 1
            w == WithTerm(VariableRef(id, BuildType(Written(type))), 0, name, <<>>)
            names == [n \in DOMAIN s.names \cup {name} |-> IF n = name THEN w ELSE s.names[n]]
            z == [s EXCEPT !.variables = id, !.names = names]
<1>1. Declare(s, name, type) = z
  BY DEF Declare
<1>. HIDE DEF id, names
<1>2. /\ IsState(z) /\ z.functions = s.functions /\ z.statements = s.statements
      /\ z.broken = s.broken /\ z.errors = s.errors /\ z.names = names
  BY DEF IsState
<1>3. QED
  BY <1>1, <1>2 DEF id, names, NamesWith

-----------------------------------------------------------------------------
(* What a statement leaves: the names in sight and perhaps one it declares, *)
(* the functions, and the statements so far and perhaps itself, with the    *)
(* values of its operands.                                                  *)
Operand(n, j) == IF n.node.rule = "variableInitialization" THEN Under(n, 2) ELSE Under(n, j)

NameAdded(s, names) ==
  \/ names = s.names
  \/ \E name, id, type, v :
       /\ v = WithTerm(VariableRef(id, type), 0, name, <<>>)
       /\ names = NamesWith(s.names, name, v)

(* Each value is that of its operand.                                       *)
ValuesFound(t, n, s, values) ==
  /\ DOMAIN values = DOMAIN Operands(n.node)
  /\ \A j \in DOMAIN values :
       /\ Operand(n, j) \in Nodes(t) /\ Operand(n, j).node = Operands(n.node)[j]
       /\ Operands(n.node)[j].rule \in Expressions
       /\ Visit(Ast(t)[Operand(n, j)], s).end = "value"
       /\ values[j] = Visit(Ast(t)[Operand(n, j)], s).value

StatementAdded(t, n, s, statements) ==
  \/ statements = s.statements
  \/ \E values : /\ statements = Append(s.statements, Record(Ast(t)[n], values))
                 /\ ValuesFound(t, n, s, values)

Leaves(t, n, s, z) ==
  IsState(z) /\ z.functions = s.functions /\ NameAdded(s, z.names) /\ StatementAdded(t, n, s, z.statements)

LEMMA ConcludeLeaves ==
  ASSUME NEW t, NEW n, NEW s, IsState(s), NEW z, IsState(z), z.functions = s.functions,
         NameAdded(s, z.names), z.statements = s.statements,
         NEW r, NEW values, NEW at, r.end = "value" => ValuesFound(t, n, s, values)
  PROVE  Leaves(t, n, s, Conclude(z, Ast(t)[n], r, values, at))
<1>. DEFINE e == Ast(t)[n]
            after == Conclude(z, e, r, values, at)
<1>1. CASE r.end = "value"
  <2>1. after = Added(z, e, values)
    BY <1>1 DEF Conclude
  <2>2. /\ IsState(after) /\ after.names = z.names /\ after.functions = z.functions
        /\ after.statements = Append(z.statements, Record(e, values))
    BY <2>1, AddedFields
  <2>. HIDE DEF after, e
  <2>3. NameAdded(s, after.names)
    BY <2>2
  <2>4. StatementAdded(t, n, s, after.statements)
    BY <1>1, <2>2 DEF StatementAdded, e
  <2>5. QED
    BY <2>2, <2>3, <2>4 DEF Leaves, after, e
<1>2. CASE r.end # "value"
  <2>1. after = Report(z, Context(r, at).at) \/ after = [z EXCEPT !.broken = TRUE]
    BY <1>2 DEF Conclude
  <2>2. /\ IsState(after) /\ after.names = z.names /\ after.functions = z.functions
        /\ after.statements = z.statements
    <3>1. CASE after = Report(z, Context(r, at).at)
      BY <3>1, ReportFields
    <3>2. CASE after = [z EXCEPT !.broken = TRUE]
      BY <3>2, BreakFields
    <3>3. QED
      BY <2>1, <3>1, <3>2
  <2>. HIDE DEF after, e
  <2>3. NameAdded(s, after.names)
    BY <2>2
  <2>4. StatementAdded(t, n, s, after.statements)
    BY <2>2 DEF StatementAdded
  <2>5. QED
    BY <2>2, <2>3, <2>4 DEF Leaves, after, e
<1>3. QED
  BY <1>1, <1>2

LEMMA VariableLeaves ==
  ASSUME NEW e, NEW s, IsState(s)
  PROVE  LET z == VisitVariable(e, s) IN
         /\ IsState(z) /\ z.functions = s.functions /\ NameAdded(s, z.names)
         /\ z.statements = s.statements /\ z.broken = s.broken
<1>1. CASE CanBuildType(Written(e.kids[1]))
  <2>. DEFINE name == e.name
              type == e.kids[1]
              ref == VariableRef(s.variables + 1, BuildType(Written(type)))
              v == WithTerm(ref, 0, name, <<>>)
              z == Declare(s, name, type)
  <2>1. VisitVariable(e, s) = z
    BY <1>1 DEF VisitVariable
  <2>. HIDE DEF name, type
  <2>2. v = WithTerm(VariableRef(s.variables + 1, BuildType(Written(type))), 0, name, <<>>)
    OBVIOUS
  <2>. HIDE DEF v
  <2>3. /\ IsState(z) /\ z.functions = s.functions /\ z.statements = s.statements
        /\ z.broken = s.broken
        /\ z.names = NamesWith(s.names, name, v)
    <3>1. z = Declare(s, name, type)
      OBVIOUS
    <3>. HIDE DEF z
    <3>2. QED
      BY <2>2, <3>1, DeclareFields
  <2>. HIDE DEF z
  <2>4. NameAdded(s, z.names)
    BY <2>2, <2>3 DEF NameAdded
  <2>5. QED
    BY <2>1, <2>3, <2>4
<1>2. CASE ~CanBuildType(Written(e.kids[1]))
  BY <1>2, ReportFields DEF VisitVariable, NameAdded
<1>3. QED
  BY <1>1, <1>2

(* The operands of a statement with several.                                *)
LEMMA AllValues ==
  ASSUME NEW t, ProgramTree(t), NEW n \in Nodes(t), ~Transparent(n.node),
         n.node.rule # "variableInitialization", Of(n.node, Expressions), NEW s,
         Failing(VisitAll(Ast(t)[n].kids, s)) = {}
  PROVE  ValuesFound(t, n, s, ValuesOf(VisitAll(Ast(t)[n].kids, s)))
<1>. DEFINE e == Ast(t)[n]
            rs == VisitAll(e.kids, s)
            values == ValuesOf(rs)
<1>1. Readable(t)
  BY ProgramReadable
<1>2. /\ DOMAIN e.kids = DOMAIN n.node.kids
      /\ \A i \in DOMAIN n.node.kids :
           /\ e.kids[i] = Ast(t)[Under(n, i)]
           /\ Under(n, i) \in Nodes(t) /\ Under(n, i).node = n.node.kids[i]
  BY <1>1, AstNode
<1>3. Operands(n.node) = n.node.kids /\ \A j : Operand(n, j) = Under(n, j)
  BY DEF Operands, Operand
<1>. HIDE DEF e
<1>4. DOMAIN rs = DOMAIN n.node.kids /\ \A i \in DOMAIN n.node.kids : rs[i] = Context(Visit(e.kids[i], s), e.kids[i].at)
  BY <1>2 DEF VisitAll, VisitExpression
<1>5. \A i \in DOMAIN n.node.kids : rs[i].end = "value"
  BY <1>4 DEF Failing, e
<1>6. \A i \in DOMAIN n.node.kids : rs[i] = Visit(e.kids[i], s)
  BY <1>4, <1>5, ContextKeeps
<1>7. DOMAIN values = DOMAIN n.node.kids /\ \A i \in DOMAIN n.node.kids : values[i] = rs[i].value
  BY <1>4 DEF ValuesOf
<1>. HIDE DEF rs, values
<1>8. ValuesFound(t, n, s, values)
  BY <1>2, <1>3, <1>5, <1>6, <1>7 DEF ValuesFound, Of
<1>9. QED
  BY <1>8 DEF values, rs, e

(* The operand of a statement with one.                                     *)
LEMMA OneValue ==
  ASSUME NEW t, ProgramTree(t), NEW n \in Nodes(t), ~Transparent(n.node), NEW s,
         NEW k, Operands(n.node) = <<n.node.kids[k]>>, k \in DOMAIN n.node.kids,
         Operand(n, 1) = Under(n, k), n.node.kids[k].rule \in Expressions,
         Visit(Ast(t)[n].kids[k], s).end = "value"
  PROVE  ValuesFound(t, n, s, <<Visit(Ast(t)[n].kids[k], s).value>>)
<1>. DEFINE e == Ast(t)[n]
            value == Visit(e.kids[k], s).value
<1>1. Readable(t)
  BY ProgramReadable
<1>2. /\ e.kids[k] = Ast(t)[Under(n, k)]
      /\ Under(n, k) \in Nodes(t) /\ Under(n, k).node = n.node.kids[k]
  BY <1>1, AstNode
<1>. HIDE DEF e
<1>3. DOMAIN <<value>> = DOMAIN Operands(n.node) /\ DOMAIN <<value>> = {1}
      /\ <<value>>[1] = value /\ Operands(n.node)[1] = n.node.kids[k]
  OBVIOUS
<1>4. Visit(Ast(t)[Operand(n, 1)], s).end = "value" /\ Visit(Ast(t)[Operand(n, 1)], s).value = value
  BY <1>2 DEF e
<1>. HIDE DEF value
<1>5. ValuesFound(t, n, s, <<value>>)
  BY <1>2, <1>3, <1>4 DEF ValuesFound
<1>6. QED
  BY <1>5 DEF value, e

-----------------------------------------------------------------------------
(* Every handler of a statement leaves no more than that.                   *)
LEMMA StatementNodes ==
  ASSUME NEW t, ProgramTree(t), NEW n \in Nodes(t),
         n.node.rule \in LocalStatements \cup {"functionDeclaration", "localBlock", "parameters", "globalBlock",
                                               "program"}
  PROVE  /\ ~Transparent(n.node) /\ Grammatical(n.node)
         /\ LET e == Ast(t)[n] IN
            /\ e.node = n.node.rule /\ e.name = n.node.token /\ e.path = n.path
            /\ DOMAIN e.kids = DOMAIN n.node.kids /\ DOMAIN n.node.kids = 1 .. Len(n.node.kids)
            /\ Len(n.node.kids) \in Nat
            /\ \A i \in DOMAIN n.node.kids :
                 /\ e.kids[i] = Ast(t)[Under(n, i)]
                 /\ Under(n, i) \in Nodes(t) /\ Under(n, i).node = n.node.kids[i]
<1>1. /\ ~Transparent(n.node) /\ n.node.rule \notin Operators
      /\ n.node.rule \notin {"axisInitializationList", "initializationList"}
  BY DEF Transparent, LocalStatements, Operators
<1>2. NodeName(n.node) = n.node.rule
  BY <1>1 DEF NodeName
<1>3. Readable(t) /\ Grammatical(n.node)
  BY ProgramReadable DEF ProgramTree
<1>4. DOMAIN n.node.kids = 1 .. Len(n.node.kids) /\ Len(n.node.kids) \in Nat
  BY KidsListed
<1>5. QED
  BY <1>1, <1>2, <1>3, <1>4, AstNode

LEMMA InitializationLeaves ==
  ASSUME NEW t, ProgramTree(t), NEW n \in Nodes(t), n.node.rule = "variableInitialization",
         NEW s, IsState(s)
  PROVE  Leaves(t, n, s, VisitInitialization(Ast(t)[n], s))
<1>. DEFINE e == Ast(t)[n]
            rhs == VisitExpression(e.kids[2], s)
            declared == VisitVariable(e, s)
<1>1. ~Transparent(n.node) /\ Grammatical(n.node) /\ DOMAIN n.node.kids = 1 .. Len(n.node.kids)
  BY StatementNodes DEF LocalStatements
<1>2. 2 \in DOMAIN n.node.kids /\ n.node.kids[2].rule \in Expressions
  BY <1>1 DEF Grammatical
<1>3. Operands(n.node) = <<n.node.kids[2]>> /\ Operand(n, 1) = Under(n, 2)
  BY DEF Operands, Operand
<1>4. VisitInitialization(e, s) =
        IF rhs.end # "value" THEN Conclude(s, e, rhs, <<>>, e.at)
        ELSE Conclude(declared, e, AssignTo(e.name, declared, rhs.value), <<rhs.value>>, e.at)
  BY DEF VisitInitialization, Initialize
<1>5. CASE rhs.end # "value"
  <2>1. NameAdded(s, s.names)
    BY DEF NameAdded
  <2>. HIDE DEF rhs, declared
  <2>2. QED
    BY <1>4, <1>5, <2>1, ConcludeLeaves
<1>6. CASE rhs.end = "value"
  <2>1. rhs = Visit(e.kids[2], s)
    BY <1>6, ContextKeeps DEF VisitExpression
  <2>2. ValuesFound(t, n, s, <<rhs.value>>)
    BY <1>1, <1>2, <1>3, <1>6, <2>1, OneValue
  <2>3. /\ IsState(declared) /\ declared.functions = s.functions /\ NameAdded(s, declared.names)
        /\ declared.statements = s.statements
    BY VariableLeaves
  <2>. HIDE DEF rhs, declared
  <2>4. QED
    BY <1>4, <1>6, <2>2, <2>3, ConcludeLeaves
<1>7. QED
  BY <1>5, <1>6

(* Statements that fail with their first operand that fails, else with what *)
(* the values are not fit for.                                              *)
LEMMA OperandsLeave ==
  ASSUME NEW t, ProgramTree(t), NEW n \in Nodes(t),
         n.node.rule \in {"assignmentStatement", "gate", "measureInstruction"},
         NEW s, IsState(s), NEW fit, NEW at
  PROVE  LET rs == VisitAll(Ast(t)[n].kids, s) IN
         Leaves(t, n, s, Conclude(s, Ast(t)[n], IF Failing(rs) # {} THEN FirstBad(rs) ELSE fit,
                                  ValuesOf(rs), at))
<1>. DEFINE e == Ast(t)[n]
            rs == VisitAll(e.kids, s)
            r == IF Failing(rs) # {} THEN FirstBad(rs) ELSE fit
<1>1. /\ ~Transparent(n.node) /\ Grammatical(n.node) /\ DOMAIN e.kids = DOMAIN n.node.kids
      /\ DOMAIN n.node.kids = 1 .. Len(n.node.kids) /\ Len(n.node.kids) \in Nat
  BY StatementNodes DEF LocalStatements
<1>2. Of(n.node, Expressions) /\ n.node.rule # "variableInitialization"
  BY <1>1 DEF Grammatical, Have, Lists
<1>3. DOMAIN rs \subseteq Nat
  BY <1>1 DEF VisitAll
<1>4. r.end = "value" => Failing(rs) = {}
  <2>. HIDE DEF rs
  <2>1. QED
    BY <1>3, FirstBadFails
<1>5. r.end = "value" => ValuesFound(t, n, s, ValuesOf(rs))
  BY <1>1, <1>2, <1>4, AllValues
<1>6. NameAdded(s, s.names)
  BY DEF NameAdded
<1>. HIDE DEF r, rs
<1>7. Leaves(t, n, s, Conclude(s, e, r, ValuesOf(rs), at))
  BY <1>5, <1>6, ConcludeLeaves
<1>8. QED
  BY <1>7 DEF r, rs

LEMMA OperandLeaves ==
  ASSUME NEW t, ProgramTree(t), NEW n \in Nodes(t),
         n.node.rule \in {"returnStatement", "expressionStatement"},
         NEW s, IsState(s), NEW at, NEW r, r.end = "value" => r = Visit(Ast(t)[n].kids[1], s)
  PROVE  Leaves(t, n, s, ConcludeWith(s, Ast(t)[n], r, at))
<1>. DEFINE e == Ast(t)[n]
<1>1. /\ ~Transparent(n.node) /\ Grammatical(n.node)
      /\ DOMAIN n.node.kids = 1 .. Len(n.node.kids)
  BY StatementNodes DEF LocalStatements
<1>2. Have(n.node, 1, Expressions)
  BY <1>1 DEF Grammatical
<1>3. 1 \in DOMAIN n.node.kids /\ n.node.kids[1].rule \in Expressions
      /\ DOMAIN n.node.kids = {1}
  BY <1>1, <1>2 DEF Have, Of
<1>4. Operands(n.node) = <<n.node.kids[1]>> /\ Operand(n, 1) = Under(n, 1)
  <2>1. Operands(n.node) = n.node.kids
    BY DEF Operands
  <2>2. PICK T : n.node.kids \in Seq(T)
    BY DEF ProgramTree, IsTree, IsList
  <2>3. n.node.kids = <<n.node.kids[1]>>
    BY <1>2, <2>2 DEF Have
  <2>4. QED
    BY <2>1, <2>3 DEF Operand
<1>5. r.end = "value" => ValuesFound(t, n, s, <<r.value>>)
  BY <1>1, <1>3, <1>4, OneValue
<1>6. NameAdded(s, s.names)
  BY DEF NameAdded
<1>7. QED
  BY <1>5, <1>6, ConcludeLeaves DEF ConcludeWith

LEMMA LocalLeaves ==
  ASSUME NEW t, ProgramTree(t), NEW n \in Nodes(t), n.node.rule \in LocalStatements,
         NEW s, IsState(s)
  PROVE  Leaves(t, n, s, VisitLocal(Ast(t)[n], s))
<1>. DEFINE e == Ast(t)[n]
            rs == VisitAll(e.kids, s)
            resolved == InstructionResult("measure", ValuesOf(rs))
<1>1. e.node = n.node.rule
  BY StatementNodes
<1>. HIDE DEF e
<1>2. CASE n.node.rule = "variableDefinition"
  <2>1. VisitLocal(e, s) = VisitVariable(e, s)
    BY <1>1, <1>2 DEF VisitLocal
  <2>2. QED
    BY <2>1, VariableLeaves DEF Leaves, StatementAdded, e
<1>3. CASE n.node.rule = "variableInitialization"
  BY <1>1, <1>3, InitializationLeaves DEF VisitLocal, e
<1>4. CASE n.node.rule = "assignmentStatement"
  <2>. DEFINE fit == IF ~IsReference(rs[1].value) THEN Error(NoPlace) ELSE Assign(rs[1].value, rs[2].value)
  <2>1. VisitLocal(e, s) = Conclude(s, e, IF Failing(rs) # {} THEN FirstBad(rs) ELSE fit, ValuesOf(rs), e.at)
    BY <1>1, <1>4 DEF VisitLocal, VisitAssignment, AssignmentResult
  <2>. HIDE DEF fit
  <2>2. QED
    BY <1>4, <2>1, OperandsLeave DEF e
<1>5. CASE n.node.rule = "returnStatement"
  <2>1. VisitLocal(e, s) = ConcludeWith(s, e, VisitExpression(e.kids[1], s), NoPlace)
    BY <1>1, <1>5 DEF VisitLocal, VisitReturn
  <2>2. VisitExpression(e.kids[1], s).end = "value" => VisitExpression(e.kids[1], s) = Visit(e.kids[1], s)
    BY ContextKeeps DEF VisitExpression
  <2>3. QED
    BY <1>5, <2>1, <2>2, OperandLeaves DEF e
<1>6. CASE n.node.rule = "expressionStatement"
  <2>. DEFINE r == IF e.kids[1].node = "functionCall" THEN Visit(e.kids[1], s) ELSE Error(NoPlace)
  <2>1. VisitLocal(e, s) = ConcludeWith(s, e, r, e.kids[1].at)
    BY <1>1, <1>6 DEF VisitLocal, VisitExpressionStatement
  <2>2. r.end = "value" => r = Visit(e.kids[1], s)
    BY Ends
  <2>. HIDE DEF r
  <2>3. QED
    BY <1>6, <2>1, <2>2, OperandLeaves DEF e
<1>7. CASE n.node.rule = "gate"
  <2>. DEFINE fit == InstructionResult(e.name, ValuesOf(rs))
  <2>1. VisitLocal(e, s) = Conclude(s, e, IF Failing(rs) # {} THEN FirstBad(rs) ELSE fit, ValuesOf(rs), e.at)
    BY <1>1, <1>7 DEF VisitLocal, VisitGate, GateResult
  <2>. HIDE DEF fit
  <2>2. QED
    BY <1>7, <2>1, OperandsLeave DEF e
<1>8. CASE n.node.rule = "measureInstruction"
  <2>. DEFINE fit == Measured(resolved, rs)
  <2>1. VisitLocal(e, s) = Conclude(s, e, IF Failing(rs) # {} THEN FirstBad(rs) ELSE fit, ValuesOf(rs), e.at)
    BY <1>1, <1>8 DEF VisitLocal, VisitMeasure, MeasureResult
  <2>. HIDE DEF fit
  <2>2. QED
    BY <1>8, <2>1, OperandsLeave DEF e
<1>9. QED
  BY <1>2, <1>3, <1>4, <1>5, <1>6, <1>7, <1>8 DEF LocalStatements, e

-----------------------------------------------------------------------------
(* The statements analyzed so far compute what is written.                  *)
AsWritten(t, statement) ==
  LET operands == Operands(NodeAt(t, statement.path))
  IN  /\ \A j \in DOMAIN operands : Reads(statement.values[j].term, operands[j])
      /\ \A j \in DOMAIN statement.values : Leveled(statement.values[j].term)

Faithful(t, s) ==
  /\ IsState(s) /\ IsList(s.functions) /\ IsList(s.statements)
  /\ \A name \in DOMAIN s.names : s.names[name].term.of = name
  /\ Fitting(s.names)
  /\ \A i \in DOMAIN s.statements : AsWritten(t, s.statements[i])

LEMMA Listing ==
  ASSUME NEW l, IsList(l)
  PROVE  Len(l) \in Nat /\ DOMAIN l = 1 .. Len(l) /\ Listed(l)
<1>1. Len(l) \in Nat /\ DOMAIN l = 1 .. Len(l)
  BY DEF IsList
<1>2. QED
  BY <1>1 DEF Listed

LEMMA Longer ==
  ASSUME NEW l, IsList(l), NEW x
  PROVE  LET m == Append(l, x) IN
         /\ IsList(m) /\ DOMAIN m = 1 .. Len(l) + 1
         /\ m[Len(l) + 1] = x /\ \A i \in DOMAIN l : m[i] = l[i]
<1>. DEFINE S == {l[i] : i \in DOMAIN l}
            T == S \cup {x}
            m == Append(l, x)
<1>1. l \in Seq(T) /\ x \in T
  <2>1. l \in Seq(S)
    BY DEF IsList
  <2>2. \A i \in 1 .. Len(l) : l[i] \in T
    BY <2>1
  <2>3. QED
    BY <2>1, <2>2
<1>. HIDE DEF S, T
<1>2. /\ m \in Seq(T) /\ Len(m) = Len(l) + 1 /\ DOMAIN m = 1 .. Len(l) + 1
      /\ m[Len(l) + 1] = x /\ \A i \in 1 .. Len(l) : m[i] = l[i]
  BY <1>1
<1>3. \A i \in DOMAIN l : m[i] = l[i]
  BY <1>1, <1>2
<1>. HIDE DEF m
<1>4. IsList(m)
  <2>1. \A i \in 1 .. Len(m) : m[i] \in {m[j] : j \in DOMAIN m}
    BY <1>2
  <2>2. m = [i \in 1 .. Len(m) |-> m[i]] /\ Len(m) \in Nat
    BY <1>1, <1>2
  <2>. DEFINE M == {m[j] : j \in DOMAIN m}
  <2>3. m \in Seq(M)
    <3>. HIDE DEF M
    <3>1. \A i \in 1 .. Len(m) : m[i] \in M
      BY <2>1 DEF M
    <3>2. QED
      BY <2>2, <3>1
  <2>4. QED
    BY <2>3 DEF IsList
<1>5. QED
  BY <1>2, <1>3, <1>4 DEF m

LEMMA NamesKept ==
  ASSUME NEW s, NEW names, NameAdded(s, names),
         \A name \in DOMAIN s.names : s.names[name].term.of = name
  PROVE  \A name \in DOMAIN names : names[name].term.of = name
<1>1. CASE names = s.names
  BY <1>1
<1>2. CASE names # s.names
  <2>1. PICK name, id, type, v :
          /\ v = WithTerm(VariableRef(id, type), 0, name, <<>>)
          /\ names = NamesWith(s.names, name, v)
    BY <1>2 DEF NameAdded
  <2>2. v.term.of = name
    BY <2>1, AnyTerm
  <2>3. QED
    BY <2>1, <2>2 DEF NamesWith
<1>3. QED
  BY <1>1, <1>2

LEMMA FitKept ==
  ASSUME NEW s, NEW names, NameAdded(s, names), Fitting(s.names)
  PROVE  \A name \in DOMAIN names : Fit(names[name])
<1>1. CASE names = s.names
  BY <1>1 DEF Fitting
<1>2. CASE names # s.names
  <2>1. PICK name, id, type, v :
          /\ v = WithTerm(VariableRef(id, type), 0, name, <<>>)
          /\ names = NamesWith(s.names, name, v)
    BY <1>2 DEF NameAdded
  <2>2. Fit(v)
    <3>. DEFINE ref == VariableRef(id, type)
    <3>1. ref.node = "variable_ref"
      BY DEF VariableRef
    <3>. HIDE DEF ref
    <3>2. \A i \in DOMAIN <<>> : Leveled(<<>>[i])
      OBVIOUS
    <3>3. Fit(WithTerm(ref, 0, name, <<>>))
      BY <3>1, <3>2, SimplyFit
    <3>4. QED
      BY <2>1, <3>3 DEF ref
  <2>3. QED
    BY <2>1, <2>2 DEF Fitting, NamesWith
<1>3. QED
  BY <1>1, <1>2

LEMMA LeavesFaithful ==
  ASSUME NEW t, ProgramTree(t), NEW n \in Nodes(t), n.node.rule \in LocalStatements,
         NEW s, Faithful(t, s), NEW z, Leaves(t, n, s, z)
  PROVE  Faithful(t, z)
<1>1. IsState(z) /\ z.functions = s.functions
  BY DEF Leaves
<1>2. \A name \in DOMAIN z.names : z.names[name].term.of = name
  BY NamesKept DEF Leaves, Faithful
<1>8. Fitting(z.names)
  <2>1. \A name \in DOMAIN z.names : Fit(z.names[name])
    BY FitKept DEF Leaves, Faithful
  <2>2. QED
    BY <2>1 DEF Fitting
<1>3. IsList(z.functions)
  BY <1>1 DEF Faithful
<1>4. Scoped(s)
  BY Listing DEF Scoped, Faithful
<1>5. CASE z.statements = s.statements
  BY <1>1, <1>2, <1>3, <1>5, <1>8 DEF Faithful
<1>6. ASSUME NEW values, z.statements = Append(s.statements, Record(Ast(t)[n], values)),
             ValuesFound(t, n, s, values)
      PROVE  Faithful(t, z)
  <2>. DEFINE record == Record(Ast(t)[n], values)
  <2>1. record.path = n.path /\ record.values = values
    BY StatementNodes DEF Record
  <2>2. NodeAt(t, record.path) = n.node
    BY <2>1, NodeFound
  <2>3. ASSUME NEW j \in DOMAIN Operands(n.node)
        PROVE  Reads(values[j].term, Operands(n.node)[j])
    <3>. DEFINE m == Operand(n, j)
    <3>1. /\ m \in Nodes(t) /\ m.node = Operands(n.node)[j] /\ m.node.rule \in Expressions
          /\ Visit(Ast(t)[m], s).end = "value" /\ values[j] = Visit(Ast(t)[m], s).value
      BY <1>6 DEF ValuesFound
    <3>. HIDE DEF m
    <3>2. Means(t, m, s)
      BY <1>4, <3>1, ExpressionsMean
    <3>3. QED
      BY <3>1, <3>2 DEF Means
  <2>8. ASSUME NEW j \in DOMAIN values PROVE Leveled(values[j].term)
    <3>. DEFINE m == Operand(n, j)
    <3>1. /\ m \in Nodes(t) /\ m.node.rule \in Expressions
          /\ Visit(Ast(t)[m], s).end = "value" /\ values[j] = Visit(Ast(t)[m], s).value
      BY <1>6 DEF ValuesFound
    <3>. HIDE DEF m
    <3>2. Fits(t, m, s)
      BY <1>4, <3>1, ExpressionsFit DEF Faithful, Scoped
    <3>3. QED
      BY <3>1, <3>2 DEF Fits, Fit
  <2>4. AsWritten(t, record)
    BY <2>1, <2>2, <2>3, <2>8 DEF AsWritten
  <2>. HIDE DEF record
  <2>5. /\ IsList(z.statements) /\ DOMAIN z.statements = 1 .. Len(s.statements) + 1
        /\ z.statements[Len(s.statements) + 1] = record
        /\ \A i \in DOMAIN s.statements : z.statements[i] = s.statements[i]
    BY <1>6, Longer DEF Faithful, record
  <2>6. ASSUME NEW i \in DOMAIN z.statements PROVE AsWritten(t, z.statements[i])
    <3>1. DOMAIN s.statements = 1 .. Len(s.statements) /\ Len(s.statements) \in Nat
      BY Listing DEF Faithful
    <3>2. i = Len(s.statements) + 1 \/ i \in DOMAIN s.statements
      BY <2>5, <3>1
    <3>3. QED
      BY <2>4, <2>5, <3>2 DEF Faithful
  <2>7. QED
    BY <1>1, <1>2, <1>3, <1>8, <2>5, <2>6 DEF Faithful
<1>7. QED
  BY <1>5, <1>6 DEF Leaves, StatementAdded

-----------------------------------------------------------------------------
(* The statements of a block are nodes of the tree.                         *)
AreStatements(t, es) ==
  /\ Len(es) \in Nat /\ DOMAIN es = 1 .. Len(es)
  /\ \A i \in DOMAIN es : \E n \in Nodes(t) : es[i] = Ast(t)[n] /\ n.node.rule \in LocalStatements

LEMMA LocalFaithful ==
  ASSUME NEW t, ProgramTree(t), NEW es, AreStatements(t, es), NEW s, Faithful(t, s)
  PROVE  \A i \in Nat : i \in 0 .. Len(es) => Faithful(t, LocalStates(es, s)[i])
<1>. DEFINE g == LocalStates(es, s)
            S == {i \in Nat : i \in 0 .. Len(es) => Faithful(t, g[i])}
<1>0. Len(es) \in Nat /\ g[0] = s
  BY LocalStatesNext DEF AreStatements
<1>1. 0 \in S
  BY <1>0
<1>2. ASSUME NEW i \in Nat, i \in S PROVE i + 1 \in S
  <2>1. SUFFICES ASSUME i + 1 \in 0 .. Len(es) PROVE Faithful(t, g[i + 1])
    OBVIOUS
  <2>2. Faithful(t, g[i]) /\ i + 1 \in DOMAIN es
    BY <1>0, <1>2, <2>1 DEF AreStatements
  <2>3. g[i + 1] = LocalStep(es, i + 1, g[i])
    BY <1>0, <2>1, LocalStatesNext
  <2>. HIDE DEF g
  <2>4. g[i + 1] = g[i] \/ g[i + 1] = VisitLocal(es[i + 1], g[i])
    BY <2>3 DEF LocalStep
  <2>5. PICK n \in Nodes(t) : es[i + 1] = Ast(t)[n] /\ n.node.rule \in LocalStatements
    BY <2>2 DEF AreStatements
  <2>6. Leaves(t, n, g[i], VisitLocal(es[i + 1], g[i]))
    BY <2>2, <2>5, LocalLeaves DEF Faithful
  <2>7. QED
    BY <2>2, <2>4, <2>5, <2>6, LeavesFaithful
<1>3. \A i \in Nat : i \in S
  <2>. HIDE DEF S
  <2>1. QED
    BY <1>1, <1>2, Inductive
<1>4. QED
  BY <1>3

(* A block of so many statements.                                           *)
Statements(t, ks, length) ==
  /\ ks = [i \in 1 .. length |-> ks[i]]
  /\ \A i \in 1 .. length : \E k \in Nodes(t) : ks[i] = Ast(t)[k] /\ k.node.rule \in LocalStatements

(* The parameters and the body of a function, one after the other.          *)
LEMMA BodyStatements ==
  ASSUME NEW t, ProgramTree(t), NEW n \in Nodes(t), n.node.rule = "functionDeclaration"
  PROVE  LET e == Ast(t)[n] IN AreStatements(t, e.kids[1].kids \o e.kids[3].kids)
<1>. DEFINE e == Ast(t)[n]
            p == Under(n, 1)
            b == Under(n, 3)
            ps == e.kids[1].kids
            bs == e.kids[3].kids
<1>1. /\ Grammatical(n.node) /\ DOMAIN n.node.kids = 1 .. Len(n.node.kids)
      /\ \A i \in DOMAIN n.node.kids :
           /\ e.kids[i] = Ast(t)[Under(n, i)]
           /\ Under(n, i) \in Nodes(t) /\ Under(n, i).node = n.node.kids[i]
  BY StatementNodes
<1>2. 1 \in DOMAIN n.node.kids /\ 3 \in DOMAIN n.node.kids
      /\ n.node.kids[1].rule = "parameters" /\ n.node.kids[3].rule = "localBlock"
  BY <1>1 DEF Grammatical
<1>3. /\ p \in Nodes(t) /\ p.node.rule = "parameters" /\ ps = Ast(t)[p].kids
      /\ b \in Nodes(t) /\ b.node.rule = "localBlock" /\ bs = Ast(t)[b].kids
  BY <1>1, <1>2
<1>. HIDE DEF e, p, b
<1>4. ASSUME NEW m \in Nodes(t), m.node.rule \in {"parameters", "localBlock"}
      PROVE  \E length \in Nat : Statements(t, Ast(t)[m].kids, length)
  <2>1. /\ Grammatical(m.node) /\ ~Transparent(m.node)
        /\ DOMAIN Ast(t)[m].kids = DOMAIN m.node.kids
        /\ DOMAIN m.node.kids = 1 .. Len(m.node.kids) /\ Len(m.node.kids) \in Nat
        /\ \A i \in DOMAIN m.node.kids :
             /\ Ast(t)[m].kids[i] = Ast(t)[Under(m, i)]
             /\ Under(m, i) \in Nodes(t) /\ Under(m, i).node = m.node.kids[i]
    BY <1>4, StatementNodes
  <2>2. \A i \in DOMAIN m.node.kids : m.node.kids[i].rule \in LocalStatements
    BY <1>4, <2>1 DEF Grammatical, Of, LocalStatements
  <2>3. Ast(t)[m].kids = [i \in DOMAIN m.node.kids |-> Ast(t)[Under(m, i)]]
    <3>1. Ast(t)[m] = AstFrom(Ast(t), m)
      BY ProgramReadable, AstSteps
    <3>2. QED
      BY <2>1, <3>1 DEF AstFrom, Built
  <2>. DEFINE ks == Ast(t)[m].kids
              length == Len(m.node.kids)
  <2>4. length \in Nat /\ ks = [i \in 1 .. length |-> ks[i]]
    BY <2>1, <2>3
  <2>5. ASSUME NEW i \in 1 .. length
        PROVE  \E k \in Nodes(t) : ks[i] = Ast(t)[k] /\ k.node.rule \in LocalStatements
    BY <2>1, <2>2
  <2>. HIDE DEF ks, length
  <2>6. Statements(t, ks, length)
    BY <2>4, <2>5 DEF Statements
  <2>7. QED
    BY <2>4, <2>6 DEF ks
<1>5. PICK P \in Nat : Statements(t, ps, P)
  BY <1>3, <1>4
<1>51. PICK B1 \in Nat : Statements(t, bs, B1)
  BY <1>3, <1>4
<1>. HIDE DEF ps, bs
<1>52. P \in Nat /\ B1 \in Nat /\ ps = [i \in 1 .. P |-> ps[i]] /\ bs = [i \in 1 .. B1 |-> bs[i]]
  BY <1>5, <1>51 DEF Statements
<1>6. /\ Len(ps) = P /\ Len(bs) = B1
  BY <1>52
<1>. DEFINE all == ps \o bs
<1>7. /\ Len(all) = P + B1 /\ DOMAIN all = 1 .. P + B1
      /\ \A i \in 1 .. P + B1 : all[i] = IF i <= P THEN ps[i] ELSE bs[i - P]
  <2>. DEFINE S == {ps[i] : i \in 1 .. P} \cup {bs[i] : i \in 1 .. B1}
  <2>1. ps \in Seq(S) /\ bs \in Seq(S)
    <3>1. /\ \A i \in 1 .. P : ps[i] \in S
          /\ \A i \in 1 .. B1 : bs[i] \in S
      OBVIOUS
    <3>. HIDE DEF S
    <3>2. QED
      BY <1>52, <3>1
  <2>. HIDE DEF S
  <2>2. QED
    BY <1>6, <2>1
<1>. HIDE DEF all
<1>8. ASSUME NEW i \in 1 .. P + B1
      PROVE  \E k \in Nodes(t) : all[i] = Ast(t)[k] /\ k.node.rule \in LocalStatements
  <2>1. CASE i <= P
    <3>1. i \in 1 .. P /\ all[i] = ps[i]
      BY <1>7, <2>1
    <3>2. QED
      BY <1>5, <3>1 DEF Statements
  <2>2. CASE ~(i <= P)
    <3>1. i - P \in 1 .. B1
      BY <1>52, <2>2
    <3>2. all[i] = bs[i - P]
      BY <1>7, <2>2
    <3>3. QED
      BY <1>51, <3>1, <3>2 DEF Statements
  <2>3. QED
    BY <2>1, <2>2
<1>9. AreStatements(t, all)
  <2>1. P + B1 \in Nat
    BY <1>52
  <2>2. QED
    BY <1>7, <1>8, <2>1 DEF AreStatements
<1>10. QED
  BY <1>9 DEF all, ps, bs, e

-----------------------------------------------------------------------------
(* Functions of the program, and the program.                               *)
LEMMA ReturnEnds ==
  ASSUME NEW values, NEW returns
  PROVE  CheckReturns(values, returns).end \in {"value", "error", "broken"}
<1>. DEFINE bad == {i \in DOMAIN values : IsVoid(values[i]) \/ ~Promotable(values[i], returns.kind)}
            void == IsVoid(values[Min(bad)])
            odd == (returns = NoType) # (values = <<>>)
            fine == returns = NoType \/ bad = {}
<1>1. CheckReturns(values, returns) =
        CASE odd  -> Error(NoPlace)
          [] fine -> Found(NoValue)
          [] OTHER -> IF void THEN Broken ELSE Error(NoPlace)
  BY DEF CheckReturns
<1>. HIDE DEF void, odd, fine
<1>2. CheckReturns(values, returns) \in {Error(NoPlace), Found(NoValue), Broken}
  BY <1>1
<1>3. QED
  BY <1>2, Ends

LEMMA LeaveFields ==
  ASSUME NEW e, NEW s, NEW body, IsState(body), IsList(body.functions), NEW returns
  PROVE  LET z == LeaveFunction(e, s, body, returns) IN
         /\ IsState(z) /\ z.names = s.names /\ z.statements = s.statements
         /\ IsList(z.functions)
<1>. DEFINE left == [body EXCEPT !.names = s.names, !.statements = s.statements]
            checked == CheckReturns(ReturnedBy(body.statements), returns)
            f == [id |-> Len(s.functions) + 1, name |-> e.name, returns |-> returns,
                  params |-> ParameterKinds(e.kids[1].kids)]
            z == LeaveFunction(e, s, body, returns)
<1>1. IsState(left) /\ left.names = s.names /\ left.statements = s.statements /\ left.functions = body.functions
  BY DEF IsState
<1>2. z = CASE body.broken \/ checked.end = "broken" -> [left EXCEPT !.broken = TRUE]
            [] checked.end = "error" -> Report(left, e.at)
            [] checked.end = "value" -> [left EXCEPT !.functions = Append(@, f)]
  BY DEF LeaveFunction
<1>3. checked.end \in {"value", "error", "broken"}
  BY ReturnEnds
<1>. HIDE DEF left, checked, f, z
<1>4. z \in {[left EXCEPT !.broken = TRUE], Report(left, e.at), [left EXCEPT !.functions = Append(@, f)]}
  BY <1>2, <1>3
<1>5. CASE z = [left EXCEPT !.broken = TRUE]
  BY <1>1, <1>5, BreakFields DEF z
<1>6. CASE z = Report(left, e.at)
  BY <1>1, <1>6, ReportFields DEF z
<1>7. CASE z = [left EXCEPT !.functions = Append(@, f)]
  <2>1. /\ IsState(z) /\ z.names = left.names /\ z.statements = left.statements
        /\ z.functions = Append(left.functions, f)
    BY <1>1, <1>7 DEF IsState
  <2>2. IsList(z.functions)
    BY <1>1, <2>1, Longer
  <2>3. QED
    BY <1>1, <2>1, <2>2 DEF z
<1>8. QED
  BY <1>4, <1>5, <1>6, <1>7

LEMMA EmptyBody ==
  ASSUME NEW t, NEW s, Faithful(t, s)
  PROVE  Faithful(t, [s EXCEPT !.statements = <<>>])
<1>. DEFINE z == [s EXCEPT !.statements = <<>>]
<1>1. IsState(z) /\ z.names = s.names /\ z.functions = s.functions /\ z.statements = <<>>
  BY DEF Faithful, IsState
<1>. HIDE DEF z
<1>2. IsList(<<>>) /\ DOMAIN <<>> = {}
  BY DEF IsList
<1>3. QED
  BY <1>1, <1>2 DEF Faithful, z

LEMMA FunctionFaithful ==
  ASSUME NEW t, ProgramTree(t), NEW n \in Nodes(t), n.node.rule = "functionDeclaration",
         NEW s, Faithful(t, s)
  PROVE  Faithful(t, VisitFunction(Ast(t)[n], s))
<1>. DEFINE e == Ast(t)[n]
            es == e.kids[1].kids \o e.kids[3].kids
            type == e.kids[2].kids
            start == [s EXCEPT !.statements = <<>>]
            body == VisitBody(es, start)
            returns == IF type = <<>> THEN NoType ELSE BuildType(Written(type[1]))
            illegible == type # <<>> /\ ~CanBuildType(Written(type[1]))
<1>1. VisitFunction(e, s) =
        IF illegible THEN Report(s, e.at) ELSE LeaveFunction(e, s, body, returns)
  BY DEF VisitFunction
<1>2. AreStatements(t, es)
  BY BodyStatements
<1>3. Faithful(t, start)
  BY EmptyBody
<1>. HIDE DEF es, start, illegible, returns
<1>4. Faithful(t, body)
  <2>1. Len(es) \in Nat /\ Len(es) \in 0 .. Len(es)
    BY <1>2 DEF AreStatements
  <2>2. Faithful(t, LocalStates(es, start)[Len(es)])
    BY <1>2, <1>3, <2>1, LocalFaithful
  <2>3. QED
    BY <2>2 DEF VisitBody
<1>. HIDE DEF body, e
<1>5. IsState(body) /\ IsList(body.functions) /\ IsState(s)
  BY <1>4 DEF Faithful
<1>6. CASE illegible
  <2>1. VisitFunction(e, s) = Report(s, e.at)
    BY <1>1, <1>6
  <2>2. QED
    BY <1>5, <2>1, ReportFields DEF Faithful, e
<1>7. CASE ~illegible
  <2>1. VisitFunction(e, s) = LeaveFunction(e, s, body, returns)
    BY <1>1, <1>7
  <2>2. QED
    BY <1>5, <2>1, LeaveFields DEF Faithful, e
<1>8. QED
  BY <1>6, <1>7

(* The statements of a program.                                             *)
AreGlobal(t, es) ==
  /\ Len(es) \in Nat /\ DOMAIN es = 1 .. Len(es)
  /\ \A i \in DOMAIN es : \E n \in Nodes(t) :
       es[i] = Ast(t)[n] /\ n.node.rule \in LocalStatements \cup {"functionDeclaration"}

LEMMA StatementFaithful ==
  ASSUME NEW t, ProgramTree(t), NEW n \in Nodes(t),
         n.node.rule \in LocalStatements \cup {"functionDeclaration"}, NEW s, Faithful(t, s)
  PROVE  Faithful(t, VisitStatement(Ast(t)[n], s))
<1>. DEFINE e == Ast(t)[n]
<1>1. e.node = n.node.rule
  BY StatementNodes
<1>. HIDE DEF e
<1>2. CASE n.node.rule = "functionDeclaration"
  BY <1>1, <1>2, FunctionFaithful DEF VisitStatement, e
<1>3. CASE n.node.rule \in LocalStatements
  <2>1. n.node.rule # "functionDeclaration"
    BY <1>3 DEF LocalStatements
  <2>2. VisitStatement(e, s) = VisitLocal(e, s)
    BY <1>1, <2>1 DEF VisitStatement
  <2>3. Leaves(t, n, s, VisitLocal(e, s))
    BY <1>3, LocalLeaves DEF e, Faithful
  <2>4. QED
    BY <1>3, <2>2, <2>3, LeavesFaithful DEF e
<1>4. QED
  BY <1>2, <1>3

LEMMA GlobalFaithful ==
  ASSUME NEW t, ProgramTree(t), NEW es, AreGlobal(t, es), NEW s, Faithful(t, s)
  PROVE  \A i \in Nat : i \in 0 .. Len(es) => Faithful(t, GlobalStates(es, s)[i])
<1>. DEFINE g == GlobalStates(es, s)
            S == {i \in Nat : i \in 0 .. Len(es) => Faithful(t, g[i])}
<1>0. Len(es) \in Nat /\ g[0] = s
  BY GlobalStatesNext DEF AreGlobal
<1>1. 0 \in S
  BY <1>0
<1>2. ASSUME NEW i \in Nat, i \in S PROVE i + 1 \in S
  <2>1. SUFFICES ASSUME i + 1 \in 0 .. Len(es) PROVE Faithful(t, g[i + 1])
    OBVIOUS
  <2>2. Faithful(t, g[i]) /\ i + 1 \in DOMAIN es
    BY <1>0, <1>2, <2>1 DEF AreGlobal
  <2>3. g[i + 1] = GlobalStep(es, i + 1, g[i])
    BY <1>0, <2>1, GlobalStatesNext
  <2>. HIDE DEF g
  <2>4. g[i + 1] = g[i] \/ g[i + 1] = VisitStatement(es[i + 1], g[i])
    BY <2>3 DEF GlobalStep
  <2>5. PICK n \in Nodes(t) :
          es[i + 1] = Ast(t)[n] /\ n.node.rule \in LocalStatements \cup {"functionDeclaration"}
    BY <2>2 DEF AreGlobal
  <2>6. QED
    BY <2>2, <2>4, <2>5, StatementFaithful
<1>3. \A i \in Nat : i \in S
  <2>. HIDE DEF S
  <2>1. QED
    BY <1>1, <1>2, Inductive
<1>4. QED
  BY <1>3

LEMMA EmptyFaithful == ASSUME NEW t PROVE Faithful(t, EmptyProgram)
<1>1. IsState(EmptyProgram) /\ EmptyProgram.names = GlobalNames
      /\ EmptyProgram.functions = <<>> /\ EmptyProgram.statements = <<>>
  BY DEF EmptyProgram, IsState
<1>2. IsList(<<>>) /\ DOMAIN <<>> = {}
  BY DEF IsList
<1>3. ASSUME NEW name \in DOMAIN GlobalNames PROVE GlobalNames[name].term.of = name
  <2>. DEFINE m == DefaultMappings[name]
              c == Const(m.kind, IF m.kind = "axis" THEN 3 ELSE 1, m.number = 0)
  <2>1. GlobalNames[name] = ConstantOf(name)
    BY DEF GlobalNames
  <2>2. ConstantOf(name) = WithTerm(c, m.number, name, <<>>)
    BY DEF ConstantOf
  <2>. HIDE DEF c, m
  <2>3. QED
    BY <2>1, <2>2, AnyTerm
<1>4. QED
  BY <1>1, <1>2, <1>3, GlobalsFit DEF Faithful

(* The block of a program behind its version.                               *)
BlockOf(t) == Under(Standing(<<>>, t), 2)

LEMMA ProgramStatements ==
  ASSUME NEW t, ProgramTree(t)
  PROVE  /\ Build(t).kids[2] = Ast(t)[BlockOf(t)] /\ BlockOf(t) \in Nodes(t)
         /\ AreGlobal(t, Build(t).kids[2].kids)
<1>. DEFINE r == Standing(<<>>, t)
            b == BlockOf(t)
            e == Ast(t)[b]
<1>1. r \in Nodes(t) /\ r.node = t /\ r.node.rule = "program"
  BY RootNode DEF ProgramTree
<1>2. /\ Grammatical(r.node) /\ DOMAIN r.node.kids = 1 .. Len(r.node.kids)
      /\ \A i \in DOMAIN r.node.kids :
           /\ Ast(t)[r].kids[i] = Ast(t)[Under(r, i)]
           /\ Under(r, i) \in Nodes(t) /\ Under(r, i).node = r.node.kids[i]
  BY <1>1, StatementNodes
<1>3. 2 \in DOMAIN r.node.kids /\ r.node.kids[2].rule = "globalBlock"
  BY <1>1, <1>2 DEF Grammatical
<1>4. b \in Nodes(t) /\ b.node.rule = "globalBlock" /\ Build(t).kids[2] = e
  BY <1>2, <1>3 DEF BlockOf, Build
<1>. HIDE DEF b, r
<1>5. /\ Grammatical(b.node) /\ DOMAIN e.kids = DOMAIN b.node.kids
      /\ DOMAIN b.node.kids = 1 .. Len(b.node.kids) /\ Len(b.node.kids) \in Nat
      /\ \A i \in DOMAIN b.node.kids :
           /\ e.kids[i] = Ast(t)[Under(b, i)]
           /\ Under(b, i) \in Nodes(t) /\ Under(b, i).node = b.node.kids[i]
  BY <1>4, StatementNodes
<1>6. ASSUME NEW i \in DOMAIN b.node.kids
      PROVE  \E n \in Nodes(t) :
               e.kids[i] = Ast(t)[n] /\ n.node.rule \in LocalStatements \cup {"functionDeclaration"}
  BY <1>4, <1>5 DEF Grammatical, Of
<1>7. e.kids = [i \in DOMAIN b.node.kids |-> Ast(t)[Under(b, i)]]
  <2>1. ~Transparent(b.node)
    BY <1>4, StatementNodes
  <2>2. e = AstFrom(Ast(t), b)
    BY <1>4, ProgramReadable, AstSteps
  <2>3. QED
    BY <2>1, <2>2 DEF AstFrom, Built
<1>8. Len(e.kids) = Len(b.node.kids)
  <2>. DEFINE ks == e.kids
              length == Len(b.node.kids)
  <2>1. length \in Nat /\ ks = [i \in 1 .. length |-> ks[i]]
    BY <1>5, <1>7
  <2>. HIDE DEF ks, length
  <2>2. Len(ks) = length
    BY <2>1
  <2>3. QED
    BY <2>2 DEF ks, length
<1>9. AreGlobal(t, e.kids)
  BY <1>5, <1>6, <1>8 DEF AreGlobal
<1>10. QED
  BY <1>4, <1>9 DEF b

(* Everything a program is analyzed into computes what is written.          *)
LEMMA ProgramFaithful ==
  ASSUME NEW t, ProgramTree(t)
  PROVE  Faithful(t, AnalyzeProgram(Build(t)))
<1>. DEFINE es == Build(t).kids[2].kids
<1>1. AreGlobal(t, es) /\ Faithful(t, EmptyProgram)
  BY ProgramStatements, EmptyFaithful
<1>2. AnalyzeProgram(Build(t)) = GlobalStates(es, EmptyProgram)[Len(es)]
  BY DEF AnalyzeProgram, VisitBlock
<1>. HIDE DEF es
<1>3. Len(es) \in Nat /\ Len(es) \in 0 .. Len(es)
  BY <1>1 DEF AreGlobal
<1>4. QED
  BY <1>1, <1>2, <1>3, GlobalFaithful

-----------------------------------------------------------------------------
(* What is parsed and analyzed.                                             *)
AnalyzedProgram(text) == AnalyzeProgram(Build(Trees[text]))

StatedInTree(text) == Items(Build(Trees[text]).kids[1])

LEMMA ResultFields ==
  \A errors, root, version, meaning :
    LET r == SemanticResult(errors, root, version, meaning) IN
    /\ r.errors = errors /\ r.root = root /\ r.version = version /\ r.meaning = meaning
BY DEF SemanticResult

LEMMA ParsedWell ==
  ASSUME NEW text \in Texts, NEW r \in ParseResults(text), r.errors = <<>>
  PROVE  /\ r.root = text /\ Trees[text] # NoTree
         /\ \A q \in ParseResults(text) : q.errors = <<>>
<1>. DEFINE faults == Faults(Trees[text])
<1>1. ParseResults(text) =
        IF Trees[text] = NoTree THEN {Result(<<Place(<<>>, "syntax")>>, Missing)}
        ELSE IF faults = {}     THEN {Result(<<>>, text)}
        ELSE                         {Result(<<at>>, Missing) : at \in faults}
  BY DEF ParseResults
<1>. HIDE DEF faults
<1>2. \A errors, root : Result(errors, root).errors = errors /\ Result(errors, root).root = root
  BY ResultFields DEF Result
<1>3. \A at : <<at>> # <<>>
  OBVIOUS
<1>4. Trees[text] # NoTree /\ faults = {}
  <2>1. CASE Trees[text] = NoTree
    <3>1. r = Result(<<Place(<<>>, "syntax")>>, Missing)
      BY <1>1, <2>1
    <3>2. QED
      BY <1>2, <1>3, <3>1
  <2>2. CASE Trees[text] # NoTree /\ faults # {}
    <3>1. PICK at \in faults : r = Result(<<at>>, Missing)
      BY <1>1, <2>2
    <3>2. QED
      BY <1>2, <1>3, <3>1
  <2>3. QED
    BY <2>1, <2>2
<1>5. QED
  BY <1>1, <1>2, <1>4

LEMMA TextTree ==
  ASSUME NEW text \in Texts, Trees[text] # NoTree
  PROVE  ProgramTree(Trees[text])
BY TreesAssumption, GrammarAssumption DEF ProgramTree

LEMMA AnalyzedWell ==
  ASSUME NEW text \in Texts, NEW a \in Analyzed["v3x"][text]
  PROVE  /\ Trees[text] # NoTree
         /\ a.meaning = AnalyzedProgram(text).statements /\ a.errors = AnalyzedProgram(text).errors
         /\ a.version = StatedInTree(text)
<1>1. a \in AnalysisResults(text)
  BY AnalyzerAssumption
<1>2. PICK r \in ParseResults(text) : r.errors = <<>> /\ a = AnalysisOf(Build(Trees[r.root]))
  BY <1>1 DEF AnalysisResults
<1>3. r.root = text /\ Trees[text] # NoTree
  BY <1>2, ParsedWell
<1>4. a = AnalysisOf(Build(Trees[text]))
  BY <1>2, <1>3
<1>5. QED
  BY <1>3, <1>4 DEF AnalysisOf, Analysis, AnalyzedProgram, StatedInTree

-----------------------------------------------------------------------------
(* A result or reply with the statements of a program.                      *)
Accepted(x) ==
  x.root \in Texts /\ Trees[x.root] # NoTree /\ x.meaning = AnalyzedProgram(x.root).statements

(* A string that is parsed and analyzed.                                    *)
Judged ==
  /\ call.dialect = "v3x" /\ call.source = "string" /\ Analyzing
  /\ call.data \in Texts /\ Stated[call.data] # <<>>
  /\ \E r \in ParseResults(call.data) : r.errors = <<>>
  /\ ~Exceeds(StatedInTree(call.data), call.api)

Verdict == <<>> \o AnalyzedProgram(call.data).errors

ReadingInv ==
  /\ phase = "parse" /\ call.source = "string" => opened = call.data
  /\ phase = "analyze" /\ call.dialect = "v3x" =>
       result.root \in Texts /\ (call.source = "string" => result.root = call.data)
  /\ phase = "reply" /\ call.dialect = "v3x" /\ call.op # "parse" /\ result.errors = <<>> =>
       Accepted(result)
  /\ Judged /\ phase = "reply" => result.errors = Verdict
  /\ Replied("tree") /\ call.op # "parse" => Accepted(reply)
  /\ Judged /\ Replied("errors") => reply.errors = Verdict

LEMMA ReadingInit == Init => ReadingInv
<1> SUFFICES ASSUME Init PROVE ReadingInv
  OBVIOUS
<1>1. phase = "idle" /\ reply.kind = "thrown"
  BY ReplyKinds DEF Init, NoReply
<1>2. QED
  BY <1>1 DEF ReadingInv, Replied

LEMMA ElsewhereReading ==
  ASSUME ReadingInv, UNCHANGED <<call, phase, opened, result, reply>>
  PROVE  ReadingInv'
BY DEF ReadingInv, Replied, Judged, Analyzing, Verdict, Accepted

LEMMA BeginReading ==
  ASSUME NEW c, Begin(c)
  PROVE  ReadingInv'
BY DEF Begin, ReadingInv, Replied

LEMMA VersionUnreadableReading ==
  ASSUME IInv, ReadingInv, VersionUnreadable
  PROVE  ReadingInv'
<1>1. phase' = "reply" /\ result'.errors # <<>> /\ call' = call
  BY Refusals DEF VersionUnreadable
<1>2. ~Judged'
  <2>1. call.source = "string" => Stated[call.data] = <<>>
    BY StringText DEF VersionUnreadable, VersionIn
  <2>2. QED
    BY <1>1, <2>1 DEF Judged
<1>3. QED
  BY <1>1, <1>2 DEF ReadingInv, Replied

LEMMA VersionReadReading ==
  ASSUME IInv, ReadingInv, VersionRead
  PROVE  ReadingInv'
<1>1. /\ phase' \in {"open", "reply"} /\ call' = call
      /\ phase' = "reply" => result'.errors # <<>> /\ Exceeds(VersionIn(TextOf(call)), call.api)
  BY Refusals DEF VersionRead
<1>2. phase' = "reply" => ~Judged'
  <2>1. call.source = "string" => VersionIn(TextOf(call)) = Stated[call.data]
    BY StringText DEF VersionIn
  <2>2. QED
    BY <1>1, <2>1 DEF Judged, Analyzing
<1>3. QED
  BY <1>1, <1>2 DEF ReadingInv, Replied

LEMMA OpenMissingReading ==
  ASSUME IInv, ReadingInv, OpenMissing
  PROVE  ReadingInv'
<1>1. /\ phase' \in {"idle", "reply"} /\ call' = call
      /\ phase' = "idle" => reply'.kind = "thrown"
      /\ phase' = "reply" => result'.errors # <<>>
  BY Refusals, ReplyKinds DEF OpenMissing
<1>2. ~Judged'
  <2>1. call.source # "string"
    BY StringText DEF OpenMissing
  <2>2. QED
    BY <1>1, <2>1 DEF Judged
<1>3. QED
  BY <1>1, <1>2 DEF ReadingInv, Replied

LEMMA OpenSourceReading ==
  ASSUME IInv, ReadingInv, OpenSource
  PROVE  ReadingInv'
<1>1. phase' = "parse" /\ call' = call /\ opened' = TextOf(call)
  BY DEF OpenSource
<1>2. call.source = "string" => opened' = call.data
  BY <1>1, StringText
<1>3. QED
  BY <1>1, <1>2 DEF ReadingInv, Replied

LEMMA ParseSourceReading ==
  ASSUME IInv, ReadingInv, ParseSource
  PROVE  ReadingInv'
<1>1. /\ phase = "parse" /\ phase' \in {"reply", "analyze"} /\ call' = call
      /\ result' \in Parsed[call.dialect][ParserText]
      /\ phase' = "analyze" => result'.errors = <<>>
      /\ phase' = "reply" => call.op = "parse" \/ result'.errors # <<>>
  BY DEF ParseSource
<1>2. ParserText \in Texts
  BY <1>1, Inputs DEF IInv, TypeOK, TextsKnown, ParserText
<1>3. call.source = "string" => ParserText = call.data
  BY <1>1 DEF ReadingInv, ParserText, FromPath
<1>4. call.dialect = "v3x" => result' \in ParseResults(ParserText)
  BY <1>1, <1>2, ParserAssumption
<1>5. call.dialect = "v3x" /\ result'.errors = <<>> => result'.root = ParserText
  BY <1>2, <1>4, ParsedWell
<1>6. Judged' => phase' # "reply"
  <2>1. SUFFICES ASSUME Judged PROVE phase' # "reply"
    BY <1>1 DEF Judged, Analyzing
  <2>2. PICK r \in ParseResults(call.data) : r.errors = <<>>
    BY <2>1 DEF Judged
  <2>3. result' \in ParseResults(call.data) /\ call.data \in Texts /\ call.op # "parse"
    BY <1>3, <1>4, <2>1 DEF Judged, Analyzing
  <2>4. result'.errors = <<>>
    BY <2>2, <2>3, ParsedWell
  <2>5. QED
    BY <1>1, <2>3, <2>4
<1>7. QED
  BY <1>1, <1>2, <1>3, <1>5, <1>6 DEF ReadingInv, Replied

LEMMA AnalyzeTreeReading ==
  ASSUME IInv, ReadingInv, AnalyzeTree
  PROVE  ReadingInv'
<1>1. PICK a \in Analyzed[call.dialect][result.root] :
        ConcludeAnalysis(a, AnalysisErrors(a, call.api))
  BY DEF AnalyzeTree
<1>2. /\ phase = "analyze" /\ phase' \in {"idle", "reply"} /\ call' = call
      /\ phase' = "idle" => reply'.kind = "thrown"
      /\ phase' = "reply" => /\ result'.root = result.root /\ result'.meaning = a.meaning
                             /\ result'.errors = AnalysisErrors(a, call.api)
  BY <1>1, ReplyKinds, ResultFields DEF AnalyzeTree, ConcludeAnalysis
<1>3. call.dialect = "v3x" =>
        /\ result.root \in Texts /\ Trees[result.root] # NoTree
        /\ a.meaning = AnalyzedProgram(result.root).statements
        /\ a.errors = AnalyzedProgram(result.root).errors
        /\ a.version = StatedInTree(result.root)
  BY <1>1, <1>2, AnalyzedWell DEF ReadingInv
<1>4. phase' = "reply" /\ call.dialect = "v3x" => Accepted(result)'
  BY <1>2, <1>3 DEF Accepted
<1>5. Judged' /\ phase' = "reply" => result'.errors = Verdict'
  <2>1. SUFFICES ASSUME Judged, phase' = "reply" PROVE result'.errors = Verdict
    BY <1>2 DEF Judged, Analyzing, Verdict
  <2>2. result.root = call.data
    BY <1>2, <2>1 DEF ReadingInv, Judged
  <2>3. VersionErrors(a, call.api) = <<>>
    BY <1>3, <2>1, <2>2 DEF VersionErrors, Judged
  <2>4. QED
    BY <1>2, <1>3, <2>1, <2>2, <2>3 DEF AnalysisErrors, Verdict, Judged
<1>6. QED
  BY <1>2, <1>4, <1>5 DEF ReadingInv, Replied

LEMMA AnswerReading ==
  ASSUME IInv, ReadingInv, Answer
  PROVE  ReadingInv'
<1>1. phase = "reply" /\ phase' = "idle" /\ call' = call /\ reply' = ReplyTo(call, result)
  BY DEF Answer
<1>2. /\ reply'.kind = "tree" => /\ result.errors = <<>> /\ reply'.root = result.root
                                 /\ reply'.meaning = result.meaning
      /\ reply'.kind = "errors" => reply'.errors = result.errors
  BY <1>1 DEF ReplyTo, Tree, Errors, Thrown, Reply, Result, SemanticResult
<1>3. Replied("tree")' /\ call'.op # "parse" => Accepted(reply)'
  BY <1>1, <1>2 DEF Replied, ReadingInv, Accepted
<1>4. Judged' => Judged
  BY <1>1 DEF Judged, Analyzing
<1>5. Verdict' = Verdict
  BY <1>1 DEF Verdict
<1>6. Judged' /\ Replied("errors")' => reply'.errors = Verdict'
  BY <1>1, <1>2, <1>4, <1>5 DEF Replied, ReadingInv
<1>7. QED
  BY <1>1, <1>3, <1>6 DEF ReadingInv

LEMMA ReadingNext == IInv /\ ReadingInv /\ [Next]_vars => ReadingInv'
<1> SUFFICES ASSUME IInv, ReadingInv, [Next]_vars PROVE ReadingInv'
  OBVIOUS
<1>1. ASSUME NEW text \in FileTexts, Write(text) PROVE ReadingInv'
  BY <1>1, ElsewhereReading DEF Write
<1>2. CASE RewindStream
  BY <1>2, ElsewhereReading DEF RewindStream
<1>3. ASSUME NEW c \in Calls, Begin(c) PROVE ReadingInv'
  BY <1>3, BeginReading
<1>4. CASE VersionUnreadable
  BY <1>4, VersionUnreadableReading
<1>5. CASE VersionRead
  BY <1>5, VersionReadReading
<1>6. CASE OpenMissing
  BY <1>6, OpenMissingReading
<1>7. CASE OpenSource
  BY <1>7, OpenSourceReading
<1>8. CASE ParseSource
  BY <1>8, ParseSourceReading
<1>9. CASE AnalyzeTree
  BY <1>9, AnalyzeTreeReading
<1>10. CASE Answer
  BY <1>10, AnswerReading
<1>11. CASE UNCHANGED vars
  BY <1>11, ElsewhereReading DEF vars
<1>12. QED
  BY <1>1, <1>2, <1>3, <1>4, <1>5, <1>6, <1>7, <1>8, <1>9, <1>10, <1>11 DEF Next, Serve

LEMMA ReadingAlways == Spec => [](IInv /\ ReadingInv)
BY ReadingInit, ReadingNext, Invariant, PTL DEF Spec

(* Every statement of an accepted program computes what is written.         *)
LEMMA MeaningFromReading == IInv /\ ReadingInv => MeaningAsWritten
<1> SUFFICES ASSUME ReadingInv, Replied("tree"), call.op # "parse", NEW i \in DOMAIN reply.meaning
             PROVE  AsWritten(Trees[reply.root], reply.meaning[i])
  BY DEF MeaningAsWritten, AsWritten
<1>1. Accepted(reply)
  BY DEF ReadingInv
<1>2. Faithful(Trees[reply.root], AnalyzedProgram(reply.root))
  BY <1>1, TextTree, ProgramFaithful DEF Accepted, AnalyzedProgram
<1>3. QED
  BY <1>1, <1>2 DEF Accepted, Faithful

(* Every constant of it has the kind that is written.                       *)
LEMMA KindsFromReading == IInv /\ ReadingInv => KindsAsWritten
<1> SUFFICES ASSUME ReadingInv, Replied("tree"), call.op # "parse", NEW i \in DOMAIN reply.meaning
             PROVE  AsWritten(Trees[reply.root], reply.meaning[i])
  BY DEF KindsAsWritten, AsWritten
<1>1. Accepted(reply)
  BY DEF ReadingInv
<1>2. Faithful(Trees[reply.root], AnalyzedProgram(reply.root))
  BY <1>1, TextTree, ProgramFaithful DEF Accepted, AnalyzedProgram
<1>3. QED
  BY <1>1, <1>2 DEF Accepted, Faithful

(* Whatever is combined in whatever depth, each constant of an accepted     *)
(* program has the kind that promoting as little as possible gives it: of   *)
(* the table register_default_function_impls_into fills, the last overload  *)
(* that fits is the one that promotes least (DefaultsSorted).               *)
THEOREM KindsAsWrittenHolds == Spec => []KindsAsWritten
BY KindsFromReading, ReadingAlways, PTL

(* For parse trees of any depth, every expression of an accepted program    *)
(* applies what is written to what is written, from the tokens through the  *)
(* nodes of BuildTreeGenAstVisitor to the names AnalyzeTreeGenAstVisitor    *)
(* looks up, statement by statement.                                        *)
THEOREM MeaningAsWrittenHolds == Spec => []MeaningAsWritten
BY MeaningFromReading, ReadingAlways, PTL

-----------------------------------------------------------------------------
(* How visits fail: with an error of their own, without a place, or with    *)
(* that of their first part that fails.                                     *)
LEMMA LeastIs ==
  ASSUME NEW S, S \subseteq Nat, NEW m \in S, \A y \in S : m <= y
  PROVE  Min(S) = m
<1>1. Min(S) \in S /\ \A y \in S : Min(S) <= y
  BY DEF Min
<1>2. Min(S) <= m /\ m <= Min(S) /\ m \in Nat /\ Min(S) \in Nat
  BY <1>1
<1>3. QED
  BY <1>2

LEMMA CallFails ==
  ASSUME NEW name, NEW rs, NEW s, DOMAIN rs \subseteq Nat, Listed(s.functions),
         Call(name, rs, s).end = "error"
  PROVE  \/ Failing(rs) # {} /\ Call(name, rs, s) = FirstBad(rs)
         \/ Failing(rs) = {} /\ Call(name, rs, s) = Error(NoPlace)
<1>. DEFINE args == ValuesOf(rs)
            f == s.functions[Chosen(s.functions, name, args)]
            made == WithTerm(FunctionCall(f.id, f.returns, PromotedArgs(args, f.params)), f.id, name,
                             [i \in DOMAIN args |-> args[i].term])
<1>1. CASE Failing(rs) # {}
  BY <1>1 DEF Call
<1>2. CASE Failing(rs) = {}
  <2>1. Resolution(s.functions, name, args) \in {"escape", "error", "match"}
    BY Resolutions
  <2>2. Call(name, rs, s) \in {Broken, Compute(name, args), Error(NoPlace), Found(made)}
    BY <1>2, <2>1 DEF Call, CallWith, Resolved, Called
  <2>. HIDE DEF made
  <2>3. Compute(name, args).end # "error"
    BY Ends DEF Compute, Applied
  <2>4. QED
    BY <1>2, <2>2, <2>3, Ends
<1>3. QED
  BY <1>1, <1>2

LEMMA ListFails ==
  ASSUME NEW rs, DOMAIN rs \subseteq Nat, ListOutcome(rs).end = "error"
  PROVE  \/ ListOutcome(rs) = Error(NoPlace)
         \/ \E m \in DOMAIN rs : /\ ListOutcome(rs) = rs[m]
                                 /\ \A i \in DOMAIN rs : rs[i].end # "value" => m <= i
<1>. DEFINE vs == ValuesOf(rs)
            ok(i) == rs[i].end = "value" /\ ListElement(rs[i].value)
            bad == {i \in DOMAIN rs : ~ok(i)}
            kind == HighestKind([i \in DOMAIN vs |-> vs[i].typ.kind])
            value == WithTerm(Const(ArrayOf[kind], Len(vs), \A i \in DOMAIN vs : vs[i].number = 0),
                              0, "list", [i \in DOMAIN vs |-> vs[i].term])
<1>1. ListOutcome(rs) =
        IF rs = <<>> THEN Error(NoPlace)
        ELSE IF bad # {} THEN IF rs[Min(bad)].end = "value" THEN Error(NoPlace) ELSE rs[Min(bad)]
        ELSE Found(value)
  BY DEF ListOutcome
<1>2. bad \subseteq Nat /\ \A i \in DOMAIN rs : rs[i].end # "value" => i \in bad
  OBVIOUS
<1>3. bad \subseteq DOMAIN rs
  OBVIOUS
<1>. HIDE DEF value, bad
<1>4. CASE bad = {} \/ rs = <<>>
  BY <1>1, <1>4, Ends
<1>5. CASE bad # {} /\ rs # <<>>
  <2>1. PICK x \in bad : \A y \in bad : x <= y
    BY <1>2, <1>5, LeastIn
  <2>2. Min(bad) = x
    BY <1>2, <2>1, LeastIs
  <2>3. QED
    BY <1>1, <1>2, <1>3, <1>5, <2>1, <2>2
<1>6. QED
  BY <1>4, <1>5

LEMMA IndexFails ==
  ASSUME NEW name, NEW entries, NEW s, DOMAIN entries \subseteq Nat,
         IndexEntries(name, entries, s).end = "error"
  PROVE  \/ IndexEntries(name, entries, s) = Error(NoPlace)
         \/ \E m \in DOMAIN entries : IndexEntries(name, entries, s) = entries[m]
<1>. DEFINE v == s.names[name]
            indices == FlattenSeq(ValuesOf(entries))
            unknown == name \notin DOMAIN s.names
            fixed == v.node # "variable_ref"
            other == v.typ.kind \notin {V, W}
            failing == Failing(entries) # {}
            outside == \E i \in DOMAIN indices : indices[i] \notin 0 .. v.typ.size - 1
            value == WithTerm(IndexRef(CHOOSE id \in v.vars : TRUE, v.typ, indices), 0, name,
                              [i \in DOMAIN indices |-> Term("index", Const("int", 1, FALSE), indices[i], <<>>)])
<1>1. IndexEntries(name, entries, s) =
        IF unknown THEN Error(NoPlace)
        ELSE IF fixed THEN Broken
        ELSE IF other THEN Error(NoPlace)
        ELSE IF failing THEN FirstBad(entries)
        ELSE IF outside THEN Error(NoPlace)
        ELSE Found(value)
  BY DEF IndexEntries
<1>2. failing => \E m \in DOMAIN entries : FirstBad(entries) = entries[m]
  BY FirstBadFails
<1>. HIDE DEF value, unknown, fixed, other, failing, outside
<1>3. QED
  BY <1>1, <1>2, Ends

LEMMA EntryFails ==
  ASSUME NEW rs, DOMAIN rs \subseteq Nat, Entry(rs).end = "error"
  PROVE  Entry(rs) = Error(NoPlace) \/ \E m \in DOMAIN rs : Entry(rs) = rs[m]
<1>. DEFINE value == [i \in 1 .. rs[Len(rs)].value.number - rs[1].value.number + 1
                        |-> rs[1].value.number + i - 1]
            reversed == rs[1].value.number > rs[Len(rs)].value.number
            failing == Failing(rs) # {}
<1>1. Entry(rs) = IF failing THEN FirstBad(rs) ELSE IF reversed THEN Error(NoPlace) ELSE Found(value)
  BY DEF Entry
<1>2. failing => \E m \in DOMAIN rs : FirstBad(rs) = rs[m]
  BY FirstBadFails
<1>. HIDE DEF value, reversed, failing
<1>3. QED
  BY <1>1, <1>2, Ends

LEMMA ConstIntFails ==
  ASSUME NEW r, NEW at, ConstInt(r, at).end = "error"
  PROVE  ConstInt(r, at) = r \/ ConstInt(r, at) = Error(at)
BY Ends DEF ConstInt

(* What the visit of an index entry comes to.                               *)
LEMMA EvaluateEntry ==
  ASSUME NEW e, e.node \in {"indexItem", "indexRange"}, NEW rs, NEW s
  PROVE  Evaluate(e, rs, s) = Entry(Indices(e.kids, rs))
<1>. DEFINE literal == Found(WithTerm(Const(LiteralKind[e.node], 1, e.number = 0), e.number, "literal", <<>>))
            name == IF e.name \in DOMAIN s.names THEN Found(s.names[e.name]) ELSE Error(NoPlace)
            entry == Entry(Indices(e.kids, rs))
            index == Context(IndexEntries(e.name, rs, s), e.at)
            list == ListOutcome(Elements(e.kids, rs))
            any == Call(FunctionOf(e), Placed(e.kids, rs), s)
<1>1. Evaluate(e, rs, s) =
        CASE e.node \in DOMAIN LiteralKind -> literal
          [] e.node = "identifier" -> name
          [] e.node \in {"indexItem", "indexRange"} -> entry
          [] e.node = "index" -> index
          [] e.node = "InitializationList" -> list
          [] OTHER -> any
  BY DEF Evaluate
<1>. HIDE DEF literal, name, entry, index, list, any
<1>2. Evaluate(e, rs, s) = entry
  BY <1>1, LiteralNodes
<1>3. QED
  BY <1>2 DEF entry

-----------------------------------------------------------------------------
(* The expressions of an AST, whatever the parentheses around them.         *)
IsExpression(t, e) ==
  \E n \in Nodes(t) : n.node.rule \in Expressions /\ ~Transparent(n.node) /\ e = Ast(t)[n]

LEMMA AllExpressions ==
  ASSUME NEW t, ProgramTree(t)
  PROVE  \A n \in Nodes(t) : n.node.rule \in Expressions => IsExpression(t, Ast(t)[n])
<1>. DEFINE P(k) == \A n \in Nodes(t) : n.node.rule \in Expressions /\ Flat(n.node, k) =>
                                        IsExpression(t, Ast(t)[n])
            S == {k \in Nat : P(k)}
<1>0. Readable(t)
  BY ProgramReadable
<1>1. ASSUME NEW k \in Nat, NEW n \in Nodes(t), n.node.rule \in Expressions, Flat(n.node, k),
             k = 0 \/ P(k - 1)
      PROVE  IsExpression(t, Ast(t)[n])
  <2>1. CASE Transparent(n.node)
    <3>1. Ast(t)[n] = Ast(t)[Under(n, 1)] /\ 1 \in DOMAIN n.node.kids
      BY <1>0, <2>1, AstSteps DEF AstFrom, Readable
    <3>2. k # 0 /\ Flat(n.node.kids[1], k - 1)
      BY <1>1, <3>1, FlatKid
    <3>3. Under(n, 1) \in Nodes(t) /\ Under(n, 1).node = n.node.kids[1]
      BY <1>0, <3>1, FlatClosed DEF Readable, Under, Standing
    <3>4. n.node.rule # "index"
      BY <2>1 DEF Transparent
    <3>5. n.node.kids[1].rule \in Expressions
      BY <1>1, <3>1, <3>4, PartsExpressions
    <3>6. QED
      BY <1>1, <3>1, <3>2, <3>3, <3>5
  <2>2. CASE ~Transparent(n.node)
    BY <1>1, <2>2 DEF IsExpression
  <2>3. QED
    BY <2>1, <2>2
<1>2. 0 \in S
  BY <1>1
<1>3. ASSUME NEW k \in Nat, k \in S PROVE k + 1 \in S
  <2>1. k + 1 \in Nat /\ (k + 1) - 1 = k
    OBVIOUS
  <2>. HIDE DEF P
  <2>2. QED
    BY <1>1, <1>3, <2>1 DEF P
<1>4. \A k \in Nat : k \in S
  <2>. HIDE DEF S
  <2>1. QED
    BY <1>2, <1>3, Inductive
<1>5. \A n \in Nodes(t) : Flat(n.node, MaxDepth)
  BY <1>0, FlatInside DEF Readable
<1>6. QED
  BY <1>4, <1>5, Depth

(* What an expression is visited as, and what its parts are.                *)
Node(e) ==
  \/ e.node \in DOMAIN LiteralKind \cup {"identifier", "functionCall", "index", "InitializationList"}
  \/ e.node \notin SpecialNodes

LEMMA ExpressionShape ==
  ASSUME NEW t, ProgramTree(t), NEW e, IsExpression(t, e), NEW s
  PROVE  /\ Flat(e, MaxDepth) /\ Visit(e, s) = Evaluate(e, PartsVisited(e, s), s)
         /\ DOMAIN e.kids \subseteq Nat /\ Node(e)
         /\ e.node # "index" => \A i \in DOMAIN e.kids : IsExpression(t, e.kids[i])
         /\ e.node = "index" => \A i \in DOMAIN e.kids :
              LET b == e.kids[i] IN
              /\ b.node \in {"indexItem", "indexRange"} /\ Flat(b, MaxDepth)
              /\ Visit(b, s) = Evaluate(b, PartsVisited(b, s), s)
              /\ DOMAIN b.kids \subseteq Nat
              /\ \A j \in DOMAIN b.kids : IsExpression(t, b.kids[j])
<1>1. PICK n \in Nodes(t) : n.node.rule \in Expressions /\ ~Transparent(n.node) /\ e = Ast(t)[n]
  BY DEF IsExpression
<1>2. Readable(t)
  BY ProgramReadable
<1>3. /\ Flat(e, MaxDepth) /\ e.node = NodeName(n.node) /\ DOMAIN e.kids = DOMAIN n.node.kids
      /\ \A i \in DOMAIN n.node.kids :
           /\ e.kids[i] = Ast(t)[Under(n, i)]
           /\ Under(n, i) \in Nodes(t) /\ Under(n, i).node = n.node.kids[i]
  BY <1>1, <1>2, AstNode
<1>4. Visit(e, s) = Evaluate(e, PartsVisited(e, s), s)
  BY <1>3, VisitByParts
<1>5. DOMAIN e.kids \subseteq Nat
  BY <1>3, KidsListed
<1>6. Node(e) /\ (e.node = "index" <=> n.node.rule = "index")
  <2>1. CASE n.node.rule \in Operators
    <3>1. e.node = NodeOf(n.node.rule, n.node.token)
      BY <1>3, <2>1 DEF NodeName, Operators
    <3>2. e.node \notin SpecialNodes
      BY <2>1, <3>1, OperatorNodes
    <3>3. QED
      BY <2>1, <3>2 DEF Node, SpecialNodes, Operators
  <2>2. CASE n.node.rule \in Lists
    BY <1>3, <2>2 DEF NodeName, Lists, Operators, Node
  <2>3. CASE n.node.rule \in DOMAIN LiteralKind \cup {"functionCall", "index", "identifier"}
    BY <1>3, <2>3, LiteralNodes DEF NodeName, Operators, Node
  <2>4. n.node.rule # "parensExpression"
    BY <1>1 DEF Transparent
  <2>5. QED
    BY <1>1, <2>1, <2>2, <2>3, <2>4 DEF Expressions
<1>7. ASSUME n.node.rule # "index", NEW i \in DOMAIN e.kids PROVE IsExpression(t, e.kids[i])
  <2>1. n.node.kids[i].rule \in Expressions
    BY <1>1, <1>3, <1>7, PartsExpressions
  <2>2. QED
    BY <1>3, <1>7, <2>1, AllExpressions
<1>8. ASSUME n.node.rule = "index", NEW i \in DOMAIN e.kids
      PROVE  LET b == e.kids[i] IN
             /\ b.node \in {"indexItem", "indexRange"} /\ Flat(b, MaxDepth)
             /\ Visit(b, s) = Evaluate(b, PartsVisited(b, s), s)
             /\ DOMAIN b.kids \subseteq Nat
             /\ \A j \in DOMAIN b.kids : IsExpression(t, b.kids[j])
  <2>. DEFINE m == Under(n, i)
  <2>1. m \in Nodes(t) /\ m.node = n.node.kids[i] /\ e.kids[i] = Ast(t)[m]
    BY <1>3, <1>8
  <2>2. m.node.rule \in {"indexItem", "indexRange"}
    <3>1. Grammatical(n.node)
      BY DEF ProgramTree
    <3>2. QED
      BY <1>3, <1>8, <2>1, <3>1 DEF Grammatical, Of
  <2>. HIDE DEF m
  <2>3. Grammatical(m.node) /\ ~Transparent(m.node)
    BY <2>1, <2>2 DEF ProgramTree, Transparent
  <2>4. Of(m.node, Expressions)
    BY <2>2, <2>3 DEF Grammatical, Have
  <2>5. /\ Flat(Ast(t)[m], MaxDepth) /\ Ast(t)[m].node = NodeName(m.node)
        /\ DOMAIN Ast(t)[m].kids = DOMAIN m.node.kids
        /\ \A j \in DOMAIN m.node.kids :
             /\ Ast(t)[m].kids[j] = Ast(t)[Under(m, j)]
             /\ Under(m, j) \in Nodes(t) /\ Under(m, j).node = m.node.kids[j]
    BY <1>2, <2>1, <2>3, AstNode
  <2>6. Ast(t)[m].node \in {"indexItem", "indexRange"}
    BY <2>2, <2>5 DEF NodeName, Operators
  <2>7. DOMAIN Ast(t)[m].kids \subseteq Nat
    BY <2>1, <2>5, KidsListed
  <2>8. ASSUME NEW j \in DOMAIN Ast(t)[m].kids PROVE IsExpression(t, Ast(t)[m].kids[j])
    BY <2>4, <2>5, AllExpressions DEF Of
  <2>9. Visit(Ast(t)[m], s) = Evaluate(Ast(t)[m], PartsVisited(Ast(t)[m], s), s)
    BY <2>5, VisitByParts
  <2>10. QED
    BY <2>1, <2>5, <2>6, <2>7, <2>8, <2>9
<1>9. QED
  BY <1>3, <1>4, <1>5, <1>6, <1>7, <1>8

-----------------------------------------------------------------------------
(* Where the error of a suspect ends up, when those around it have offered  *)
(* their places; the first parts that fail.                                 *)
Landing(x, s) == IF Visit(x.expression, s).at # NoPlace THEN Visit(x.expression, s).at ELSE Here(x)

LEMMA SuspectFields ==
  \A e, around, unplaced :
    /\ Suspect(e, around, unplaced).expression = e
    /\ Suspect(e, around, unplaced).around = around
    /\ Suspect(e, around, unplaced).unplaced = unplaced
BY DEF Suspect

LEMMA FirstFailing ==
  ASSUME NEW es, DOMAIN es \subseteq Nat, NEW s, NEW m \in DOMAIN es, Fails(es[m], s),
         \A i \in DOMAIN es : Fails(es[i], s) => m <= i
  PROVE  FailingParts(es, s) # {} /\ Min(FailingParts(es, s)) = m
<1>1. m \in FailingParts(es, s) /\ FailingParts(es, s) \subseteq Nat
  BY DEF FailingParts
<1>2. \A y \in FailingParts(es, s) : m <= y
  BY DEF FailingParts
<1>3. QED
  BY <1>1, <1>2, LeastIs

(* An error with a place of its own, or none.                               *)
LEMMA OwnError ==
  ASSUME NEW x, NEW s, Visit(x.expression, s).at = NoPlace
  PROVE  Landing(x, s) = Here(x)
BY DEF Landing

(* The error of a part, as it is or given the place of the part.            *)
LEMMA PartLanding ==
  ASSUME NEW x, NEW s, NEW b, NEW unplaced, NEW z, z = Suspect(b, Here(x), unplaced),
         Fails(b, s), unplaced \in BOOLEAN,
         unplaced => /\ Visit(x.expression, s).at = Visit(b, s).at
                     /\ b.node = "index" /\ Visit(b, s).at = NoPlace => b.at = NoPlace,
         ~unplaced => Visit(x.expression, s).at = Context(Visit(b, s), b.at).at
  PROVE  Landing(z, s) = Landing(x, s)
<1>1. z.expression = b /\ z.around = Here(x) /\ z.unplaced = unplaced
  BY SuspectFields
<1>2. CASE Visit(b, s).at # NoPlace
  <2>1. Visit(x.expression, s).at = Visit(b, s).at
    BY <1>2, ContextKeeps DEF Fails
  <2>2. QED
    BY <1>1, <1>2, <2>1 DEF Landing
<1>3. CASE Visit(b, s).at = NoPlace
  <2>1. Landing(z, s) = Here(z)
    BY <1>1, <1>3 DEF Landing
  <2>2. CASE unplaced
    <3>1. Here(z) = Here(x)
      BY <1>1, <1>3, <2>2 DEF Here
    <3>2. QED
      BY <1>3, <2>1, <2>2, <3>1 DEF Landing
  <2>3. CASE ~unplaced
    <3>1. Visit(x.expression, s).at = b.at
      BY <1>3, <2>3, ContextKeeps, Ends DEF Fails
    <3>2. Here(z) = IF b.at = NoPlace THEN Here(x) ELSE b.at
      BY <1>1, <2>3 DEF Here
    <3>3. QED
      BY <2>1, <3>1, <3>2 DEF Landing
  <2>4. QED
    BY <2>2, <2>3
<1>4. QED
  BY <1>2, <1>3

-----------------------------------------------------------------------------
(* A suspect is at fault itself, or one of its parts is a suspect and its   *)
(* error is that of the part.                                               *)
Part(e, b) ==
  \/ \E i \in DOMAIN e.kids : b = e.kids[i]
  \/ \E i \in DOMAIN e.kids : \E j \in DOMAIN e.kids[i].kids : b = e.kids[i].kids[j]

Pursued(t, x, s) ==
  \/ Landing(x, s) \in Blamed(x, s)
  \/ \E z \in Narrowed(x, s) :
       /\ IsExpression(t, z.expression) /\ Fails(z.expression, s) /\ Landing(z, s) = Landing(x, s)
       /\ Part(x.expression, z.expression)

(* Expressions whose first failing part fails for them.                     *)
LEMMA PartPursued ==
  ASSUME NEW t, NEW x, NEW e, e = x.expression, e.node # "index", DOMAIN e.kids \subseteq Nat,
         NEW s, NEW m \in DOMAIN e.kids, IsExpression(t, e.kids[m]), Fails(e.kids[m], s),
         \A i \in DOMAIN e.kids : Fails(e.kids[i], s) => m <= i,
         e.node = "InitializationList" /\ m = 1 =>
           /\ Visit(e, s).at = Visit(e.kids[m], s).at
           /\ e.kids[m].node = "index" /\ Visit(e.kids[m], s).at = NoPlace => e.kids[m].at = NoPlace,
         ~(e.node = "InitializationList" /\ m = 1) =>
           Visit(e, s).at = Context(Visit(e.kids[m], s), e.kids[m].at).at
  PROVE  Pursued(t, x, s)
<1>. DEFINE b == e.kids[m]
            unplaced == e.node = "InitializationList" /\ m = 1
            z == Suspect(b, Here(x), unplaced)
<1>1. FailingParts(e.kids, s) # {} /\ Min(FailingParts(e.kids, s)) = m
  BY FirstFailing
<1>2. Narrowed(x, s) = {z}
  BY <1>1 DEF Narrowed
<1>3. z.expression = b
  BY SuspectFields
<1>4. Landing(z, s) = Landing(x, s)
  <2>1. unplaced \in BOOLEAN
    OBVIOUS
  <2>2. unplaced => /\ Visit(x.expression, s).at = Visit(b, s).at
                    /\ b.node = "index" /\ Visit(b, s).at = NoPlace => b.at = NoPlace
    OBVIOUS
  <2>3. ~unplaced => Visit(x.expression, s).at = Context(Visit(b, s), b.at).at
    OBVIOUS
  <2>4. z = Suspect(b, Here(x), unplaced) /\ Fails(b, s)
    OBVIOUS
  <2>. HIDE DEF z, unplaced, b
  <2>5. QED
    BY <2>1, <2>2, <2>3, <2>4, PartLanding
<1>5. Part(x.expression, b)
  BY DEF Part
<1>. HIDE DEF z
<1>6. QED
  BY <1>2, <1>3, <1>4, <1>5 DEF Pursued

(* Its own error is found at the suspect.                                   *)
LEMMA OwnPursued ==
  ASSUME NEW t, NEW x, NEW e, e = x.expression, NEW s, Visit(e, s).at = NoPlace,
         e.node \in {"index", "InitializationList"} \/ FailingParts(e.kids, s) = {}
  PROVE  Pursued(t, x, s)
<1>1. Landing(x, s) = Here(x)
  BY OwnError
<1>2. CASE e.node = "index"
  BY <1>1, <1>2 DEF Pursued, Blamed
<1>3. CASE e.node # "index"
  <2>1. Blamed(x, s) = {Here(x)}
    BY <1>3 DEF Blamed
  <2>2. QED
    BY <1>1, <2>1 DEF Pursued
<1>4. QED
  BY <1>2, <1>3

LEMMA CallPursued ==
  ASSUME NEW t, NEW x, NEW e, e = x.expression, DOMAIN e.kids \subseteq Nat,
         NEW s, Listed(s.functions), NEW name,
         e.node \notin {"index", "InitializationList"},
         \A i \in DOMAIN e.kids : IsExpression(t, e.kids[i]),
         Visit(e, s) = Call(name, Placed(e.kids, PartsVisited(e, s)), s), Fails(e, s)
  PROVE  Pursued(t, x, s)
<1>. DEFINE rs == Placed(e.kids, PartsVisited(e, s))
<1>1. DOMAIN rs = DOMAIN e.kids
      /\ \A i \in DOMAIN e.kids : rs[i] = Context(Visit(e.kids[i], s), e.kids[i].at)
  BY DEF Placed, PartsVisited
<1>2. \A i \in DOMAIN e.kids : /\ Fails(e.kids[i], s) => rs[i].end = "error"
                               /\ rs[i].end = "error" => Fails(e.kids[i], s)
  BY <1>1, ContextKeeps, Ends DEF Fails
<1>3. Call(name, rs, s).end = "error" /\ Visit(e, s) = Call(name, rs, s)
  BY DEF Fails
<1>. HIDE DEF rs
<1>4. DOMAIN rs \subseteq Nat
  BY <1>1
<1>5. CASE Failing(rs) # {} /\ Call(name, rs, s) = FirstBad(rs)
  <2>. DEFINE m == Min(Failing(rs))
  <2>1. m \in DOMAIN rs /\ FirstBad(rs) = rs[m] /\ \A i \in Failing(rs) : m <= i
    BY <1>4, <1>5, FirstBadFails
  <2>. HIDE DEF m
  <2>2. m \in DOMAIN e.kids /\ rs[m].end = "error" /\ Visit(e, s) = rs[m]
    BY <1>1, <1>3, <1>5, <2>1
  <2>3. Fails(e.kids[m], s) /\ Visit(e, s).at = Context(Visit(e.kids[m], s), e.kids[m].at).at
    BY <1>1, <1>2, <2>2
  <2>4. \A i \in DOMAIN e.kids : Fails(e.kids[i], s) => m <= i
    BY <1>1, <1>2, <2>1 DEF Failing
  <2>5. QED
    BY <2>2, <2>3, <2>4, PartPursued
<1>6. CASE Failing(rs) = {} /\ Call(name, rs, s) = Error(NoPlace)
  <2>1. FailingParts(e.kids, s) = {}
    BY <1>1, <1>2, <1>6 DEF FailingParts, Failing
  <2>2. Visit(e, s).at = NoPlace
    BY <1>3, <1>6, Ends
  <2>3. QED
    BY <2>1, <2>2, OwnPursued
<1>7. QED
  BY <1>3, <1>4, <1>5, <1>6, CallFails

(* The visit of an index gives its error the place of the index.            *)
LEMMA IndexPlaced ==
  ASSUME NEW e, e.node = "index", NEW s, Visit(e, s) = Evaluate(e, PartsVisited(e, s), s),
         Fails(e, s), Visit(e, s).at = NoPlace
  PROVE  e.at = NoPlace
<1>. DEFINE r == IndexEntries(e.name, PartsVisited(e, s), s)
<1>1. Visit(e, s) = Context(r, e.at)
  BY EvaluateKinds
<1>. HIDE DEF r
<1>2. r.end = "error" /\ r.at = NoPlace
  BY <1>1, ContextKeeps, Ends DEF Fails
<1>3. QED
  BY <1>1, <1>2, ContextKeeps, Ends

LEMMA ListPursued ==
  ASSUME NEW t, ProgramTree(t), NEW x, NEW e, e = x.expression, DOMAIN e.kids \subseteq Nat,
         NEW s, e.node = "InitializationList",
         \A i \in DOMAIN e.kids : IsExpression(t, e.kids[i]),
         Visit(e, s) = ListOutcome(Elements(e.kids, PartsVisited(e, s))), Fails(e, s)
  PROVE  Pursued(t, x, s)
<1>. DEFINE rs == Elements(e.kids, PartsVisited(e, s))
<1>1. DOMAIN rs = DOMAIN e.kids
      /\ \A i \in DOMAIN e.kids :
           rs[i] = IF i = 1 THEN Visit(e.kids[i], s) ELSE Context(Visit(e.kids[i], s), e.kids[i].at)
  BY DEF Elements, PartsVisited
<1>2. \A i \in DOMAIN e.kids : /\ Fails(e.kids[i], s) => rs[i].end = "error"
                               /\ rs[i].end = "error" => Fails(e.kids[i], s)
  BY <1>1, ContextKeeps, Ends DEF Fails
<1>3. ListOutcome(rs).end = "error" /\ Visit(e, s) = ListOutcome(rs)
  BY DEF Fails
<1>. HIDE DEF rs
<1>4. DOMAIN rs \subseteq Nat
  BY <1>1
<1>5. CASE ListOutcome(rs) = Error(NoPlace)
  <2>1. Visit(e, s).at = NoPlace
    BY <1>3, <1>5, Ends
  <2>2. QED
    BY <2>1, OwnPursued
<1>6. ASSUME NEW m \in DOMAIN rs, ListOutcome(rs) = rs[m],
             \A i \in DOMAIN rs : rs[i].end # "value" => m <= i
      PROVE  Pursued(t, x, s)
  <2>1. m \in DOMAIN e.kids /\ Fails(e.kids[m], s) /\ IsExpression(t, e.kids[m])
    BY <1>1, <1>2, <1>3, <1>6
  <2>2. \A i \in DOMAIN e.kids : Fails(e.kids[i], s) => m <= i
    BY <1>1, <1>2, <1>6
  <2>3. m = 1 => Visit(e, s).at = Visit(e.kids[m], s).at
    BY <1>1, <1>3, <1>6
  <2>4. m # 1 => Visit(e, s).at = Context(Visit(e.kids[m], s), e.kids[m].at).at
    BY <1>1, <1>3, <1>6
  <2>5. e.kids[m].node = "index" /\ Visit(e.kids[m], s).at = NoPlace => e.kids[m].at = NoPlace
    <3>1. Visit(e.kids[m], s) = Evaluate(e.kids[m], PartsVisited(e.kids[m], s), s)
      BY <2>1, ExpressionShape
    <3>2. QED
      BY <2>1, <3>1, IndexPlaced
  <2>6. QED
    BY <2>1, <2>2, <2>3, <2>4, <2>5, PartPursued
<1>7. QED
  BY <1>3, <1>4, <1>5, <1>6, ListFails

LEMMA IndexPursued ==
  ASSUME NEW t, ProgramTree(t), NEW x, NEW e, e = x.expression, IsExpression(t, e),
         NEW s, e.node = "index", Fails(e, s)
  PROVE  Pursued(t, x, s)
<1>. DEFINE entries == PartsVisited(e, s)
            r == IndexEntries(e.name, entries, s)
<1>1. /\ Visit(e, s) = Evaluate(e, PartsVisited(e, s), s) /\ DOMAIN e.kids \subseteq Nat
      /\ \A i \in DOMAIN e.kids :
           LET b == e.kids[i] IN
           /\ b.node \in {"indexItem", "indexRange"}
           /\ Visit(b, s) = Evaluate(b, PartsVisited(b, s), s)
           /\ DOMAIN b.kids \subseteq Nat
           /\ \A j \in DOMAIN b.kids : IsExpression(t, b.kids[j])
  BY ExpressionShape
<1>2. Visit(e, s) = Context(r, e.at)
  BY <1>1, EvaluateKinds
<1>3. DOMAIN entries = DOMAIN e.kids /\ \A i \in DOMAIN e.kids : entries[i] = Visit(e.kids[i], s)
  BY DEF PartsVisited
<1>4. r.end = "error"
  BY <1>2, ContextKeeps DEF Fails
<1>. HIDE DEF r
<1>5. Blamed(x, s) = {Here(x)} \cup {b.at : b \in Bounds(e)}
  BY DEF Blamed
<1>6. Narrowed(x, s) = {Suspect(b, Here(x), TRUE) : b \in {c \in Bounds(e) : Fails(c, s)}}
  BY DEF Narrowed
<1>7. CASE r.at = NoPlace
  <2>1. Visit(e, s).at = e.at
    BY <1>2, <1>4, <1>7, ContextKeeps, Ends
  <2>2. e.at # NoPlace => Here(x) = e.at
    BY DEF Here
  <2>3. Landing(x, s) = Here(x)
    BY <2>1, <2>2 DEF Landing
  <2>4. QED
    BY <1>5, <2>3 DEF Pursued
<1>8. CASE r.at # NoPlace
  <2>1. Visit(e, s) = r
    BY <1>2, <1>4, <1>8, ContextKeeps
  <2>2. PICK i \in DOMAIN entries : r = entries[i]
    <3>1. r # Error(NoPlace) /\ DOMAIN entries \subseteq Nat
      BY <1>1, <1>3, <1>8, Ends
    <3>2. QED
      BY <1>4, <3>1, IndexFails DEF r
  <2>. DEFINE k == e.kids[i]
              rs == Indices(k.kids, PartsVisited(k, s))
  <2>3. /\ i \in DOMAIN e.kids /\ r = Visit(k, s) /\ k.node \in {"indexItem", "indexRange"}
        /\ Visit(k, s) = Evaluate(k, PartsVisited(k, s), s) /\ DOMAIN k.kids \subseteq Nat
        /\ \A j \in DOMAIN k.kids : IsExpression(t, k.kids[j])
    BY <1>1, <1>3, <2>2
  <2>4. r = Entry(rs)
    BY <2>3, EvaluateEntry
  <2>5. DOMAIN rs = DOMAIN k.kids /\ \A j \in DOMAIN k.kids : rs[j] = ConstInt(Visit(k.kids[j], s), k.kids[j].at)
    BY DEF Indices, PartsVisited
  <2>. HIDE DEF rs
  <2>6. PICK j \in DOMAIN rs : r = rs[j]
    BY <1>4, <1>8, <2>3, <2>4, <2>5, EntryFails, Ends
  <2>. DEFINE b == k.kids[j]
  <2>7. j \in DOMAIN k.kids /\ r = ConstInt(Visit(b, s), b.at) /\ IsExpression(t, b)
    BY <2>3, <2>5, <2>6
  <2>8. b \in Bounds(e) /\ Part(e, b)
    <3>1. b \in {k.kids[q] : q \in DOMAIN k.kids}
      BY <2>7
    <3>2. {e.kids[i].kids[q] : q \in DOMAIN e.kids[i].kids}
            \in {{e.kids[p].kids[q] : q \in DOMAIN e.kids[p].kids} : p \in DOMAIN e.kids}
      BY <2>3
    <3>3. b \in Bounds(e)
      BY <3>1, <3>2 DEF Bounds
    <3>4. Part(e, b)
      BY <2>3, <2>7 DEF Part
    <3>5. QED
      BY <3>3, <3>4
  <2>. HIDE DEF b, k
  <2>9. CASE r = Error(b.at)
    <3>1. Landing(x, s) = b.at
      BY <1>8, <2>1, <2>9, Ends DEF Landing
    <3>2. QED
      BY <1>5, <2>8, <3>1 DEF Pursued
  <2>10. CASE r = Visit(b, s)
    <3>. DEFINE z == Suspect(b, Here(x), TRUE)
    <3>1. Fails(b, s)
      BY <1>4, <2>10 DEF Fails
    <3>2. z \in Narrowed(x, s) /\ z.expression = b
      BY <1>6, <2>8, <3>1, SuspectFields
    <3>3. Landing(z, s) = Landing(x, s)
      BY <1>8, <2>1, <2>10, <3>2 DEF Landing
    <3>. HIDE DEF z
    <3>4. QED
      BY <2>7, <2>8, <3>1, <3>2, <3>3 DEF Pursued
  <2>11. QED
    BY <1>4, <2>7, <2>9, <2>10, ConstIntFails
<1>9. QED
  BY <1>7, <1>8

LEMMA ExpressionPursued ==
  ASSUME NEW t, ProgramTree(t), NEW x, IsExpression(t, x.expression),
         NEW s, Listed(s.functions), Fails(x.expression, s)
  PROVE  Pursued(t, x, s)
<1>. DEFINE e == x.expression
            rs == PartsVisited(e, s)
<1>1. /\ Visit(e, s) = Evaluate(e, rs, s) /\ DOMAIN e.kids \subseteq Nat /\ Node(e)
      /\ e.node # "index" => \A i \in DOMAIN e.kids : IsExpression(t, e.kids[i])
  BY ExpressionShape
<1>2. CASE e.node \in DOMAIN LiteralKind
  <2>. DEFINE value == WithTerm(Const(LiteralKind[e.node], 1, e.number = 0), e.number, "literal", <<>>)
  <2>1. Visit(e, s) = Found(value)
    BY <1>1, <1>2, EvaluateKinds
  <2>. HIDE DEF value
  <2>2. QED
    BY <2>1, Ends DEF Fails
<1>3. CASE e.node = "identifier"
  <2>1. Visit(e, s) = IF e.name \in DOMAIN s.names THEN Found(s.names[e.name]) ELSE Error(NoPlace)
    BY <1>1, <1>3, EvaluateKinds
  <2>2. Visit(e, s).at = NoPlace
    BY <2>1, Ends DEF Fails
  <2>3. DOMAIN e.kids = {}
    <3>1. PICK n \in Nodes(t) : n.node.rule \in Expressions /\ ~Transparent(n.node) /\ e = Ast(t)[n]
      BY DEF IsExpression
    <3>2. e.node = NodeName(n.node) /\ DOMAIN e.kids = DOMAIN n.node.kids
      BY <3>1, ProgramReadable, AstNode
    <3>3. n.node.rule = "identifier"
      <4>1. CASE n.node.rule \in Operators
        <5>1. e.node \notin SpecialNodes
          BY <3>2, <4>1, OperatorNodes DEF NodeName, Operators
        <5>2. QED
          BY <1>3, <5>1 DEF SpecialNodes
      <4>2. CASE n.node.rule \notin Operators
        BY <1>3, <3>2, <4>2 DEF NodeName
      <4>3. QED
        BY <4>1, <4>2
    <3>4. Grammatical(n.node)
      BY DEF ProgramTree
    <3>5. n.node.kids = <<>>
      BY <3>3, <3>4 DEF Grammatical
    <3>6. QED
      BY <3>2, <3>5
  <2>4. FailingParts(e.kids, s) = {}
    BY <2>3 DEF FailingParts
  <2>5. QED
    BY <2>2, <2>4, OwnPursued
<1>4. CASE e.node = "functionCall"
  <2>1. Visit(e, s) = Call(e.name, Placed(e.kids, rs), s)
    BY <1>1, <1>4, EvaluateKinds
  <2>2. QED
    BY <1>1, <1>4, <2>1, CallPursued
<1>5. CASE e.node \notin SpecialNodes
  <2>1. Visit(e, s) = Call(OperatorOf(e.node), Placed(e.kids, rs), s)
    BY <1>1, <1>5, EvaluateKinds
  <2>2. e.node \notin {"index", "InitializationList"}
    BY <1>5 DEF SpecialNodes
  <2>3. QED
    BY <1>1, <2>1, <2>2, CallPursued
<1>6. CASE e.node = "InitializationList"
  <2>1. Visit(e, s) = ListOutcome(Elements(e.kids, rs))
    BY <1>1, <1>6, EvaluateKinds
  <2>2. QED
    BY <1>1, <1>6, <2>1, ListPursued
<1>7. CASE e.node = "index"
  BY <1>7, IndexPursued
<1>8. QED
  BY <1>1, <1>2, <1>3, <1>4, <1>5, <1>6, <1>7 DEF Node

-----------------------------------------------------------------------------
(* The suspects of each level, down to the deepest.                         *)
NarrowedAll(xs, s) == UNION {Narrowed(x, s) : x \in xs}

AreSuspects(f, e, around, s, depth) ==
  f = [d \in 0 .. depth |-> IF d = 0 THEN {Suspect(e, around, FALSE)} ELSE NarrowedAll(f[d - 1], s)]

LEMMA SuspectsExist ==
  ASSUME NEW e, NEW around, NEW s, NEW depth \in Nat
  PROVE  \E f : AreSuspects(f, e, around, s, depth)
<1>. DEFINE first == {Suspect(e, around, FALSE)}
            Next1(d, x) == NarrowedAll(x, s)
            Is(f, m) == \A d \in 0 .. m : f[d] = IF d = 0 THEN first ELSE Next1(d, f[d - 1])
            S == {m \in Nat : \E f : f = [d \in 0 .. m |-> f[d]] /\ Is(f, m)}
<1>. HIDE DEF first, Next1
<1>1. 0 \in S
  <2>. DEFINE f == [d \in 0 .. 0 |-> first]
  <2>1. f = [d \in 0 .. 0 |-> f[d]] /\ Is(f, 0)
    OBVIOUS
  <2>. HIDE DEF f, Is
  <2>2. QED
    BY <2>1
<1>2. ASSUME NEW m \in Nat, m \in S PROVE m + 1 \in S
  <2>1. PICK f : f = [d \in 0 .. m |-> f[d]] /\ Is(f, m)
    BY <1>2
  <2>. DEFINE g == [d \in 0 .. m + 1 |-> IF d = m + 1 THEN Next1(d, f[m]) ELSE f[d]]
  <2>2. g = [d \in 0 .. m + 1 |-> g[d]]
    OBVIOUS
  <2>3. ASSUME NEW d \in 0 .. m + 1 PROVE g[d] = IF d = 0 THEN first ELSE Next1(d, g[d - 1])
    <3>1. CASE d = m + 1
      <4>1. d # 0 /\ d - 1 = m /\ m \in 0 .. m + 1 /\ m # m + 1
        BY <3>1
      <4>2. g[d] = Next1(d, f[m]) /\ g[d - 1] = f[m]
        BY <3>1, <4>1
      <4>. HIDE DEF g
      <4>3. QED
        BY <4>1, <4>2
    <3>2. CASE d # m + 1
      <4>1. d \in 0 .. m /\ g[d] = f[d]
        BY <3>2
      <4>2. d # 0 => d - 1 \in 0 .. m /\ g[d - 1] = f[d - 1]
        BY <4>1
      <4>3. f[d] = IF d = 0 THEN first ELSE Next1(d, f[d - 1])
        BY <2>1, <4>1
      <4>. HIDE DEF g
      <4>4. QED
        BY <4>1, <4>2, <4>3
    <3>3. QED
      BY <3>1, <3>2
  <2>. HIDE DEF g
  <2>4. Is(g, m + 1)
    BY <2>3
  <2>. HIDE DEF Is
  <2>5. QED
    BY <2>2, <2>4
<1>3. \A m \in Nat : m \in S
  <2>. HIDE DEF S
  <2>1. QED
    BY <1>1, <1>2, Inductive
<1>4. PICK f : f = [d \in 0 .. depth |-> f[d]] /\ Is(f, depth)
  BY <1>3
<1>5. f = [d \in 0 .. depth |-> IF d = 0 THEN first ELSE Next1(d, f[d - 1])]
  BY <1>4
<1>6. QED
  BY <1>5 DEF first, Next1, AreSuspects

LEMMA SuspectsNext ==
  ASSUME NEW e, NEW around, NEW s
  PROVE  /\ Suspects(e, around, s)[0] = {Suspect(e, around, FALSE)}
         /\ \A c \in Nat : c + 1 \in 0 .. MaxDepth =>
              Suspects(e, around, s)[c + 1] = NarrowedAll(Suspects(e, around, s)[c], s)
<1>. DEFINE g == CHOOSE f : AreSuspects(f, e, around, s, MaxDepth)
<1>1. Suspects(e, around, s) = g
  BY DEF Suspects, AreSuspects, NarrowedAll
<1>2. AreSuspects(g, e, around, s, MaxDepth)
  BY SuspectsExist, Depth
<1>. HIDE DEF g
<1>3. \A d \in 0 .. MaxDepth :
        g[d] = IF d = 0 THEN {Suspect(e, around, FALSE)} ELSE NarrowedAll(g[d - 1], s)
  BY <1>2 DEF AreSuspects
<1>4. g[0] = {Suspect(e, around, FALSE)}
  <2>1. 0 \in 0 .. MaxDepth
    BY Depth
  <2>2. QED
    BY <1>3, <2>1
<1>5. ASSUME NEW c \in Nat, c + 1 \in 0 .. MaxDepth PROVE g[c + 1] = NarrowedAll(g[c], s)
  <2>1. c + 1 # 0 /\ (c + 1) - 1 = c
    OBVIOUS
  <2>2. g[c + 1] = IF c + 1 = 0 THEN {Suspect(e, around, FALSE)} ELSE NarrowedAll(g[(c + 1) - 1], s)
    BY <1>3, <1>5
  <2>3. QED
    BY <2>1, <2>2
<1>6. QED
  BY <1>1, <1>4, <1>5

(* The parts of an expression are less deep.                                *)
LEMMA FlatPart ==
  ASSUME NEW e, NEW k, Flat(e, k), NEW b, Part(e, b)
  PROVE  k # 0 /\ k - 1 \in Nat /\ Flat(b, k - 1)
<1>1. CASE \E i \in DOMAIN e.kids : b = e.kids[i]
  BY <1>1, FlatKid
<1>2. ASSUME NEW i \in DOMAIN e.kids, NEW j \in DOMAIN e.kids[i].kids, b = e.kids[i].kids[j]
      PROVE  k # 0 /\ k - 1 \in Nat /\ Flat(b, k - 1)
  <2>1. k # 0 /\ k - 1 \in Nat /\ Flat(e.kids[i], k - 1)
    BY FlatKid
  <2>. DEFINE h == k - 1
  <2>2. h \in Nat /\ Flat(e.kids[i], h)
    BY <2>1
  <2>. HIDE DEF h
  <2>3. h # 0 /\ h - 1 \in Nat /\ Flat(b, h - 1)
    BY <1>2, <2>2, FlatKid
  <2>. DEFINE g == h - 1
  <2>4. g \in Nat /\ g + 1 = h /\ Flat(b, g)
    BY <2>2, <2>3
  <2>5. h \in 0 .. MaxDepth
    BY <2>2 DEF Flat
  <2>. HIDE DEF g
  <2>6. Flat(b, h)
    BY <2>4, <2>5, FlatMore
  <2>7. QED
    BY <2>1, <2>6 DEF h
<1>3. QED
  BY <1>1, <1>2 DEF Part

(* The error of an expression is found at one of its suspects.              *)
Chased(t, e, around, s, d) ==
  \E y \in Suspects(e, around, s)[d] :
    /\ IsExpression(t, y.expression) /\ Fails(y.expression, s)
    /\ Landing(y, s) = Landing(Suspect(e, around, FALSE), s)
    /\ Flat(y.expression, MaxDepth - d)

LEMMA BlamedFaulty ==
  ASSUME NEW e, NEW around, NEW s, NEW d \in 0 .. MaxDepth, NEW y \in Suspects(e, around, s)[d],
         NEW at \in Blamed(y, s)
  PROVE  at \in Faulty(e, around, s)
<1>1. y \in UNION {Suspects(e, around, s)[k] : k \in 0 .. MaxDepth}
  OBVIOUS
<1>2. QED
  BY <1>1 DEF Faulty

LEMMA ErrorFound ==
  ASSUME NEW t, ProgramTree(t), NEW e, IsExpression(t, e), NEW around,
         NEW s, Listed(s.functions), Fails(e, s)
  PROVE  Landing(Suspect(e, around, FALSE), s) \in Faulty(e, around, s)
<1>. DEFINE found == Landing(Suspect(e, around, FALSE), s) \in Faulty(e, around, s)
            S == {d \in Nat : d \in 0 .. MaxDepth => found \/ Chased(t, e, around, s, d)}
<1>0. MaxDepth \in Nat
  BY Depth
<1>1. 0 \in S
  <2>. DEFINE x == Suspect(e, around, FALSE)
  <2>0. Suspects(e, around, s)[0] = {Suspect(e, around, FALSE)}
    BY SuspectsNext
  <2>1. x \in Suspects(e, around, s)[0] /\ x.expression = e
    BY <2>0, SuspectFields
  <2>2. Flat(e, MaxDepth) /\ MaxDepth - 0 = MaxDepth
    BY <1>0, ExpressionShape
  <2>3. Chased(t, e, around, s, 0)
    BY <2>1, <2>2 DEF Chased
  <2>. HIDE DEF found
  <2>4. QED
    BY <2>3
<1>2. ASSUME NEW d \in 0 .. MaxDepth, Chased(t, e, around, s, d)
      PROVE  found \/ (d # MaxDepth /\ (d + 1 \in 0 .. MaxDepth => Chased(t, e, around, s, d + 1)))
  <2>1. PICK y \in Suspects(e, around, s)[d] :
          /\ IsExpression(t, y.expression) /\ Fails(y.expression, s)
          /\ Landing(y, s) = Landing(Suspect(e, around, FALSE), s)
          /\ Flat(y.expression, MaxDepth - d)
    BY <1>2 DEF Chased
  <2>2. Pursued(t, y, s)
    BY <2>1, ExpressionPursued
  <2>3. CASE Landing(y, s) \in Blamed(y, s)
    BY <2>1, <2>3, BlamedFaulty
  <2>4. ASSUME NEW z \in Narrowed(y, s), IsExpression(t, z.expression), Fails(z.expression, s),
               Landing(z, s) = Landing(y, s), Part(y.expression, z.expression)
        PROVE  d # MaxDepth /\ (d + 1 \in 0 .. MaxDepth => Chased(t, e, around, s, d + 1))
    <3>. DEFINE k == MaxDepth - d
    <3>1. Flat(y.expression, k)
      BY <2>1
    <3>. HIDE DEF k
    <3>2. k # 0 /\ Flat(z.expression, k - 1)
      BY <2>4, <3>1, FlatPart
    <3>3. d # MaxDepth /\ k - 1 = MaxDepth - (d + 1)
      BY <1>0, <3>2 DEF k
    <3>4. ASSUME d + 1 \in 0 .. MaxDepth PROVE Chased(t, e, around, s, d + 1)
      <4>1. Suspects(e, around, s)[d + 1] = NarrowedAll(Suspects(e, around, s)[d], s)
        <5>1. d \in Nat
          BY <1>0
        <5>2. \A c \in Nat : c + 1 \in 0 .. MaxDepth =>
                Suspects(e, around, s)[c + 1] = NarrowedAll(Suspects(e, around, s)[c], s)
          BY SuspectsNext
        <5>3. QED
          BY <3>4, <5>1, <5>2
      <4>2. z \in Suspects(e, around, s)[d + 1]
        BY <2>4, <4>1 DEF NarrowedAll
      <4>3. QED
        BY <2>1, <2>4, <3>2, <3>3, <4>2 DEF Chased
    <3>5. QED
      BY <3>3, <3>4
  <2>5. QED
    BY <2>2, <2>3, <2>4 DEF Pursued
<1>. HIDE DEF found
<1>3. ASSUME NEW d \in Nat, d \in S PROVE d + 1 \in S
  <2>1. d + 1 \in 0 .. MaxDepth => d \in 0 .. MaxDepth
    BY <1>0
  <2>2. QED
    BY <1>2, <1>3, <2>1
<1>4. \A d \in Nat : d \in S
  <2>. HIDE DEF S
  <2>1. QED
    BY <1>1, <1>3, Inductive
<1>5. MaxDepth \in 0 .. MaxDepth
  BY <1>0
<1>6. found \/ Chased(t, e, around, s, MaxDepth)
  BY <1>0, <1>4, <1>5
<1>7. QED
  BY <1>2, <1>5, <1>6 DEF found

-----------------------------------------------------------------------------
(* The errors of a state are among those places.                            *)
Among(places, s) ==
  IsState(s) /\ IsList(s.errors) /\ \A i \in DOMAIN s.errors : s.errors[i] \in places

LEMMA ReportAmong ==
  ASSUME NEW places, NEW s, Among(places, s), NEW at \in places
  PROVE  Among(places, Report(s, at))
<1>. DEFINE z == Report(s, at)
<1>1. IsState(z) /\ z.errors = Append(s.errors, at)
  BY ReportFields DEF Among
<1>. HIDE DEF z
<1>2. /\ IsList(z.errors) /\ DOMAIN z.errors = 1 .. Len(s.errors) + 1
      /\ z.errors[Len(s.errors) + 1] = at /\ \A i \in DOMAIN s.errors : z.errors[i] = s.errors[i]
  BY <1>1, Longer DEF Among
<1>3. Len(s.errors) \in Nat /\ DOMAIN s.errors = 1 .. Len(s.errors)
  BY Listing DEF Among
<1>4. ASSUME NEW i \in DOMAIN z.errors PROVE z.errors[i] \in places
  <2>1. i = Len(s.errors) + 1 \/ i \in DOMAIN s.errors
    BY <1>2, <1>3
  <2>2. QED
    BY <1>2, <2>1 DEF Among
<1>5. QED
  BY <1>1, <1>2, <1>4 DEF Among, z

LEMMA ConcludeAmong ==
  ASSUME NEW places, NEW s, Among(places, s), NEW e, NEW r, NEW values, NEW at,
         r.end = "error" => Context(r, at).at \in places
  PROVE  Among(places, Conclude(s, e, r, values, at))
<1>1. CASE r.end = "value"
  <2>. DEFINE z == Added(s, e, values)
  <2>1. Conclude(s, e, r, values, at) = z
    BY <1>1 DEF Conclude
  <2>2. IsState(z) /\ z.errors = s.errors
    BY AddedFields DEF Among
  <2>. HIDE DEF z
  <2>3. QED
    BY <2>1, <2>2 DEF Among
<1>2. CASE r.end = "error"
  <2>1. Conclude(s, e, r, values, at) = Report(s, Context(r, at).at)
    BY <1>2 DEF Conclude
  <2>2. QED
    BY <1>2, <2>1, ReportAmong
<1>3. CASE r.end # "value" /\ r.end # "error"
  <2>. DEFINE z == [s EXCEPT !.broken = TRUE]
  <2>1. Conclude(s, e, r, values, at) = z
    BY <1>3 DEF Conclude
  <2>2. IsState(z) /\ z.errors = s.errors
    BY BreakFields DEF Among
  <2>. HIDE DEF z
  <2>3. QED
    BY <2>1, <2>2 DEF Among
<1>4. QED
  BY <1>1, <1>2, <1>3

(* Where the faults of a statement may be, given its operands and its place. *)
FaultsAmong(e, parts, at, s) ==
  IF FailingParts(parts, s) = {} THEN {at, Place(e.path, "name")}
  ELSE Faulty(parts[Min(FailingParts(parts, s))], at, s)

LEMMA FaultsShape ==
  ASSUME NEW e, NEW s
  PROVE  /\ e.node = "variableInitialization" => FaultsOf(e, s) = FaultsAmong(e, <<e.kids[2]>>, e.at, s)
         /\ e.node \in {"variableDefinition", "functionDeclaration"} =>
              FaultsOf(e, s) = {e.at, Place(e.path, "name")}
         /\ e.node = "returnStatement" => FaultsOf(e, s) = FaultsAmong(e, e.kids, NoPlace, s)
         /\ e.node = "expressionStatement" =>
              FaultsOf(e, s) = IF e.kids[1].node # "functionCall" THEN {e.kids[1].at}
                               ELSE FaultsAmong(e, e.kids, e.kids[1].at, s)
         /\ e.node \in {"assignmentStatement", "gate", "measureInstruction"} =>
              FaultsOf(e, s) = FaultsAmong(e, e.kids, e.at, s)
<1>1. FailingParts(<<>>, s) = {}
  BY DEF FailingParts
<1>2. CASE e.node = "variableInitialization"
  BY <1>2 DEF FaultsOf, FaultsAmong
<1>3. CASE e.node \in {"variableDefinition", "functionDeclaration"}
  BY <1>1, <1>3 DEF FaultsOf
<1>4. CASE e.node = "returnStatement"
  BY <1>4 DEF FaultsOf, FaultsAmong
<1>5. CASE e.node = "expressionStatement"
  BY <1>5 DEF FaultsOf, FaultsAmong
<1>6. CASE e.node \in {"assignmentStatement", "gate", "measureInstruction"}
  BY <1>6 DEF FaultsOf, FaultsAmong
<1>7. QED
  BY <1>2, <1>3, <1>4, <1>5, <1>6

(* The first operand that fails is where the fault is looked for.           *)
LEMMA OperandFault ==
  ASSUME NEW t, ProgramTree(t), NEW s, Listed(s.functions), NEW e, NEW parts, NEW at,
         DOMAIN parts \subseteq Nat, NEW m \in DOMAIN parts, IsExpression(t, parts[m]),
         Fails(parts[m], s), \A i \in DOMAIN parts : Fails(parts[i], s) => m <= i
  PROVE  Context(VisitExpression(parts[m], s), at).at \in FaultsAmong(e, parts, at, s)
<1>. DEFINE b == parts[m]
            r == Visit(b, s)
            x == Suspect(b, at, FALSE)
<1>1. FailingParts(parts, s) # {} /\ Min(FailingParts(parts, s)) = m
  BY FirstFailing
<1>2. FaultsAmong(e, parts, at, s) = Faulty(b, at, s)
  BY <1>1 DEF FaultsAmong
<1>3. IsExpression(t, b) /\ Fails(b, s) /\ x = Suspect(b, at, FALSE)
  OBVIOUS
<1>5. VisitExpression(b, s) = Context(r, b.at) /\ r.end = "error"
  BY DEF VisitExpression, Fails
<1>. HIDE DEF x, b
<1>4. x.expression = b /\ x.around = at /\ x.unplaced = FALSE
  BY <1>3 DEF Suspect
<1>9. Landing(x, s) \in Faulty(b, at, s)
  BY <1>3, ErrorFound
<1>6. Landing(x, s) = IF r.at # NoPlace THEN r.at ELSE IF b.at = NoPlace THEN at ELSE b.at
  BY <1>4 DEF Landing, Here
<1>. HIDE DEF r
<1>7. Context(Context(r, b.at), at).at = Landing(x, s)
  <2>1. CASE r.at # NoPlace
    BY <1>5, <1>6, <2>1, ContextKeeps
  <2>2. CASE r.at = NoPlace
    <3>1. Context(r, b.at) = Error(b.at)
      BY <1>5, <2>2, ContextKeeps
    <3>2. Context(Error(b.at), at).at = IF b.at = NoPlace THEN at ELSE b.at
      BY Ends, ContextKeeps
    <3>3. QED
      BY <1>6, <2>2, <3>1, <3>2
  <2>3. QED
    BY <2>1, <2>2
<1>8. QED
  BY <1>2, <1>5, <1>7, <1>9 DEF b

LEMMA VisitFails ==
  ASSUME NEW e, NEW s
  PROVE  /\ VisitExpression(e, s).end = "error" <=> Fails(e, s)
         /\ VisitExpression(e, s).end = "value" <=> Visit(e, s).end = "value"
BY ContextKeeps, Ends DEF VisitExpression, Fails

-----------------------------------------------------------------------------
(* The errors of each statement.                                            *)
LEMMA OperandsErrors ==
  ASSUME NEW t, ProgramTree(t), NEW s, Listed(s.functions), NEW e, DOMAIN e.kids \subseteq Nat,
         \A i \in DOMAIN e.kids : IsExpression(t, e.kids[i]),
         NEW places, Among(places, s), FaultsAmong(e, e.kids, e.at, s) \subseteq places,
         NEW values, NEW fit, fit.end = "error" => fit.at = NoPlace
  PROVE  LET rs == VisitAll(e.kids, s) IN
         Among(places, Conclude(s, e, IF Failing(rs) # {} THEN FirstBad(rs) ELSE fit, values, e.at))
<1>. DEFINE rs == VisitAll(e.kids, s)
            r == IF Failing(rs) # {} THEN FirstBad(rs) ELSE fit
<1>1. DOMAIN rs = DOMAIN e.kids /\ \A i \in DOMAIN e.kids : rs[i] = VisitExpression(e.kids[i], s)
  BY DEF VisitAll
<1>. HIDE DEF rs
<1>2. \A i \in DOMAIN e.kids : Fails(e.kids[i], s) => i \in Failing(rs)
  <2>1. \A i \in DOMAIN e.kids : Fails(e.kids[i], s) => rs[i].end = "error"
    BY <1>1, VisitFails
  <2>2. QED
    BY <1>1, <2>1 DEF Failing
<1>3. CASE Failing(rs) # {}
  <2>. DEFINE m == Min(Failing(rs))
  <2>1. m \in DOMAIN rs /\ r = rs[m] /\ \A i \in Failing(rs) : m <= i
    BY <1>1, <1>3, FirstBadFails
  <2>. HIDE DEF m, r
  <2>2. m \in DOMAIN e.kids /\ r = VisitExpression(e.kids[m], s)
    BY <1>1, <2>1
  <2>3. r.end = "error" => Fails(e.kids[m], s)
    BY <2>2, VisitFails
  <2>4. r.end = "error" => Context(VisitExpression(e.kids[m], s), e.at).at \in FaultsAmong(e, e.kids, e.at, s)
    BY <1>2, <2>1, <2>2, <2>3, OperandFault
  <2>5. r.end = "error" => Context(r, e.at).at \in places
    BY <2>2, <2>4
  <2>6. QED
    BY <2>5, ConcludeAmong DEF r, rs
<1>4. CASE Failing(rs) = {}
  <2>1. FailingParts(e.kids, s) = {}
    BY <1>2, <1>4 DEF FailingParts
  <2>2. e.at \in places
    BY <2>1 DEF FaultsAmong
  <2>3. r = fit
    BY <1>4
  <2>. HIDE DEF r
  <2>4. r.end = "error" => Context(r, e.at).at = e.at
    BY <2>3, ContextKeeps, Ends
  <2>5. QED
    BY <2>2, <2>4, ConcludeAmong DEF r, rs
<1>5. QED
  BY <1>3, <1>4

LEMMA DeclarationErrors ==
  ASSUME NEW e, NEW places, NEW s, Among(places, s), Place(e.path, "name") \in places
  PROVE  Among(places, VisitVariable(e, s))
<1>1. CASE CanBuildType(Written(e.kids[1]))
  <2>. DEFINE name == e.name
              type == e.kids[1]
              ref == VariableRef(s.variables + 1, BuildType(Written(type)))
              v == WithTerm(ref, 0, name, <<>>)
              z == Declare(s, name, type)
  <2>1. VisitVariable(e, s) = z
    BY <1>1 DEF VisitVariable
  <2>. HIDE DEF name, type
  <2>2. v = WithTerm(VariableRef(s.variables + 1, BuildType(Written(type))), 0, name, <<>>)
    OBVIOUS
  <2>. HIDE DEF v
  <2>3. IsState(z) /\ z.errors = s.errors
    <3>1. z = Declare(s, name, type)
      OBVIOUS
    <3>. HIDE DEF z
    <3>2. IsState(s)
      BY DEF Among
    <3>3. QED
      BY <2>2, <3>1, <3>2, DeclareFields
  <2>. HIDE DEF z
  <2>4. QED
    BY <2>1, <2>3 DEF Among
<1>2. CASE ~CanBuildType(Written(e.kids[1]))
  <2>1. VisitVariable(e, s) = Report(s, Place(e.path, "name"))
    BY <1>2 DEF VisitVariable
  <2>2. QED
    BY <2>1, ReportAmong
<1>3. QED
  BY <1>1, <1>2

LEMMA AssignEnds ==
  ASSUME NEW name, NEW s, NEW value, NEW lhs, NEW rhs
  PROVE  /\ AssignTo(name, s, value).end = "error" => AssignTo(name, s, value).at = NoPlace
         /\ Assign(lhs, rhs).end = "error" => Assign(lhs, rhs).at = NoPlace
<1>1. \A x, y : Assign(x, y) = Found(y) \/ Assign(x, y) = Error(NoPlace)
  BY DEF Assign
<1>2. \/ \E x, y : AssignTo(name, s, value) = Assign(x, y)
      \/ AssignTo(name, s, value) = Error(NoPlace)
  BY DEF AssignTo
<1>3. QED
  BY <1>1, <1>2, Ends

LEMMA InitializationErrors ==
  ASSUME NEW t, ProgramTree(t), NEW s, Listed(s.functions), NEW e, IsExpression(t, e.kids[2]),
         NEW places, Among(places, s), FaultsAmong(e, <<e.kids[2]>>, e.at, s) \subseteq places
  PROVE  Among(places, VisitInitialization(e, s))
<1>. DEFINE rhs == VisitExpression(e.kids[2], s)
            declared == VisitVariable(e, s)
            assigned == AssignTo(e.name, declared, rhs.value)
            parts == <<e.kids[2]>>
<1>1. VisitInitialization(e, s) =
        IF rhs.end # "value" THEN Conclude(s, e, rhs, <<>>, e.at)
        ELSE Conclude(declared, e, assigned, <<rhs.value>>, e.at)
  BY DEF VisitInitialization, Initialize
<1>2. DOMAIN parts = {1} /\ parts[1] = e.kids[2]
  OBVIOUS
<1>. HIDE DEF parts
<1>3. CASE rhs.end # "value"
  <2>1. ASSUME rhs.end = "error" PROVE Context(rhs, e.at).at \in places
    <3>1. Fails(parts[1], s) /\ IsExpression(t, parts[1])
      BY <1>2, <2>1, VisitFails
    <3>2. DOMAIN parts \subseteq Nat /\ 1 \in DOMAIN parts
          /\ \A i \in DOMAIN parts : Fails(parts[i], s) => 1 <= i
      BY <1>2
    <3>3. Context(VisitExpression(parts[1], s), e.at).at \in FaultsAmong(e, parts, e.at, s)
      BY <3>1, <3>2, OperandFault
    <3>4. QED
      BY <1>2, <3>3 DEF parts
  <2>2. QED
    BY <1>1, <1>3, <2>1, ConcludeAmong
<1>4. CASE rhs.end = "value"
  <2>1. FailingParts(parts, s) = {}
    <3>1. ~Fails(parts[1], s)
      BY <1>2, <1>4, VisitFails
    <3>2. QED
      BY <1>2, <3>1 DEF FailingParts
  <2>2. e.at \in places /\ Place(e.path, "name") \in places
    BY <2>1 DEF FaultsAmong, parts
  <2>3. Among(places, declared)
    BY <2>2, DeclarationErrors
  <2>4. assigned.end = "error" => assigned.at = NoPlace
    BY AssignEnds
  <2>. HIDE DEF assigned, declared
  <2>5. assigned.end = "error" => Context(assigned, e.at).at = e.at
    BY <2>4, ContextKeeps, Ends
  <2>6. Among(places, Conclude(declared, e, assigned, <<rhs.value>>, e.at))
    BY <2>2, <2>3, <2>5, ConcludeAmong
  <2>7. QED
    BY <1>1, <1>4, <2>6 DEF assigned, declared
<1>5. QED
  BY <1>3, <1>4

-----------------------------------------------------------------------------
(* The error of an expression statement or a return is that of its          *)
(* expression; nothing else is in it.                                       *)
LEMMA ReturnErrors ==
  ASSUME NEW t, ProgramTree(t), NEW s, Listed(s.functions), NEW e, DOMAIN e.kids = {1},
         IsExpression(t, e.kids[1]),
         NEW places, Among(places, s), FaultsAmong(e, e.kids, NoPlace, s) \subseteq places
  PROVE  Among(places, VisitReturn(e, s))
<1>. DEFINE r == VisitExpression(e.kids[1], s)
<1>1. VisitReturn(e, s) = Conclude(s, e, r, <<r.value>>, NoPlace)
  BY DEF VisitReturn, ConcludeWith
<1>2. ASSUME r.end = "error" PROVE Context(r, NoPlace).at \in places
  <2>1. Fails(e.kids[1], s)
    BY <1>2, VisitFails
  <2>2. 1 \in DOMAIN e.kids /\ DOMAIN e.kids \subseteq Nat
        /\ \A i \in DOMAIN e.kids : Fails(e.kids[i], s) => 1 <= i
    OBVIOUS
  <2>3. Context(VisitExpression(e.kids[1], s), NoPlace).at \in FaultsAmong(e, e.kids, NoPlace, s)
    BY <2>1, <2>2, OperandFault
  <2>4. QED
    BY <2>3
<1>. HIDE DEF r
<1>3. QED
  BY <1>1, <1>2, ConcludeAmong

LEMMA ExpressionErrors ==
  ASSUME NEW t, ProgramTree(t), NEW s, Listed(s.functions), NEW e, DOMAIN e.kids = {1},
         IsExpression(t, e.kids[1]), NEW places, Among(places, s),
         e.kids[1].node # "functionCall" => e.kids[1].at \in places,
         e.kids[1].node = "functionCall" => FaultsAmong(e, e.kids, e.kids[1].at, s) \subseteq places
  PROVE  Among(places, VisitExpressionStatement(e, s))
<1>. DEFINE b == e.kids[1]
            r == IF b.node = "functionCall" THEN Visit(b, s) ELSE Error(NoPlace)
<1>1. VisitExpressionStatement(e, s) = Conclude(s, e, r, <<r.value>>, b.at)
  BY DEF VisitExpressionStatement, ConcludeWith
<1>2. ASSUME b.node = "functionCall", r.end = "error" PROVE Context(r, b.at).at \in places
  <2>1. r = Visit(b, s)
    BY <1>2
  <2>2. Fails(b, s)
    BY <1>2, <2>1 DEF Fails
  <2>3. 1 \in DOMAIN e.kids /\ DOMAIN e.kids \subseteq Nat
        /\ \A i \in DOMAIN e.kids : Fails(e.kids[i], s) => 1 <= i
    OBVIOUS
  <2>4. Context(VisitExpression(b, s), b.at).at \in FaultsAmong(e, e.kids, b.at, s)
    BY <2>2, <2>3, OperandFault
  <2>5. VisitExpression(b, s) = Context(r, b.at)
    BY <2>1 DEF VisitExpression
  <2>. HIDE DEF r, b
  <2>6. Context(Context(r, b.at), b.at).at = Context(r, b.at).at
    <3>1. CASE r.at # NoPlace
      BY <1>2, <3>1, ContextKeeps
    <3>2. CASE r.at = NoPlace
      <4>1. Context(r, b.at) = Error(b.at)
        BY <1>2, <3>2, ContextKeeps
      <4>2. Context(Error(b.at), b.at).at = b.at
        BY Ends, ContextKeeps
      <4>3. QED
        BY <4>1, <4>2, Ends
    <3>3. QED
      BY <3>1, <3>2
  <2>7. QED
    BY <1>2, <2>4, <2>5, <2>6 DEF b
<1>3. ASSUME b.node # "functionCall" PROVE Context(r, b.at).at \in places
  <2>1. r = Error(NoPlace)
    BY <1>3
  <2>2. Context(Error(NoPlace), b.at).at = b.at
    BY Ends, ContextKeeps
  <2>3. QED
    BY <1>3, <2>1, <2>2
<1>. HIDE DEF r, b
<1>4. QED
  BY <1>1, <1>2, <1>3, ConcludeAmong

(* The instructions are a list, so one that no overload fits is an error     *)
(* without a place of its own.                                              *)
LEMMA ListsJoined ==
  ASSUME NEW k, IsList(k), NEW l, IsList(l)
  PROVE  IsList(k \o l)
<1>. DEFINE S == {k[i] : i \in DOMAIN k} \cup {l[i] : i \in DOMAIN l}
            m == k \o l
<1>1. k \in Seq(S) /\ l \in Seq(S)
  <2>1. k \in Seq({k[i] : i \in DOMAIN k}) /\ l \in Seq({l[i] : i \in DOMAIN l})
    BY DEF IsList
  <2>2. QED
    BY <2>1
<1>. HIDE DEF S
<1>2. m \in Seq(S)
  BY <1>1
<1>. HIDE DEF m
<1>3. m = [i \in 1 .. Len(m) |-> m[i]] /\ Len(m) \in Nat /\ DOMAIN m = 1 .. Len(m)
  BY <1>2
<1>. DEFINE M == {m[j] : j \in DOMAIN m}
<1>4. \A i \in 1 .. Len(m) : m[i] \in M
  BY <1>3
<1>. HIDE DEF M
<1>5. m \in Seq(M)
  BY <1>3, <1>4
<1>6. QED
  BY <1>5 DEF IsList, M, m

LEMMA InstructionsListed ==
  ASSUME NEW names, NEW n \in Nat, DOMAIN names = 1 .. n, NEW params
  PROVE  IsList(Instruction(names, params))
<1>. DEFINE m == Instruction(names, params)
            M == {m[j] : j \in DOMAIN m}
<1>1. DOMAIN m = 1 .. n /\ m = [i \in 1 .. n |-> m[i]]
  BY DEF Instruction
<1>. HIDE DEF m
<1>2. \A i \in 1 .. n : m[i] \in M
  BY <1>1
<1>. HIDE DEF M
<1>3. m \in Seq(M)
  BY <1>1, <1>2
<1>4. QED
  BY <1>3 DEF IsList, M, m

LEMMA ControlledListed == ASSUME NEW name, NEW rest PROVE IsList(Controlled(name, rest))
<1>1. DOMAIN <<name>> = 1 .. 1
  OBVIOUS
<1>2. \A params : IsList(Instruction(<<name>>, params))
  BY <1>1, InstructionsListed
<1>3. QED
  BY <1>2, ListsJoined DEF Controlled

LEMMA DefaultsListed == Listed(DefaultInstructions)
<1>. DEFINE gates     == <<"h", "mx90", "my90", "s", "sdag", "x", "x90", "y", "y90", "z">>
            rotations == <<"rx", "ry", "rz">>
            measure   == <<"measure">>
            all       == <<"i">> \o gates
<1>1. /\ DOMAIN gates = 1 .. 10 /\ DOMAIN rotations = 1 .. 3 /\ DOMAIN measure = 1 .. 1
      /\ DOMAIN all = 1 .. 11
  OBVIOUS
<1>2. DefaultInstructions =
        Controlled("cnot", <<>>) \o Controlled("cr", <<"float">>) \o
        Controlled("crk", <<"int">>) \o Controlled("cz", <<>>) \o
        Instruction(all, <<Q>>) \o Instruction(gates, <<V>>) \o
        Instruction(rotations, <<Q, "float">>) \o Instruction(rotations, <<V, "float">>) \o
        Instruction(measure, <<B, Q>>) \o Instruction(measure, <<W, V>>) \o
        Instruction(measure, <<B, V>>) \o Instruction(measure, <<W, Q>>)
  BY DEF DefaultInstructions
<1>. HIDE DEF gates, rotations, measure, all
<1>3. ASSUME NEW params
      PROVE  /\ IsList(Instruction(all, params)) /\ IsList(Instruction(gates, params))
             /\ IsList(Instruction(rotations, params)) /\ IsList(Instruction(measure, params))
  BY <1>1, InstructionsListed
<1>4. IsList(DefaultInstructions)
  BY <1>2, <1>3, ControlledListed, ListsJoined
<1>5. QED
  BY <1>4, Listing

LEMMA InstructionEnds ==
  ASSUME NEW name, NEW values
  PROVE  InstructionResult(name, values).end = "error" => InstructionResult(name, values).at = NoPlace
<1>1. Resolution(DefaultInstructions, name, values) \in {"match", "error", "escape"}
  BY DefaultsListed, Resolutions
<1>2. InstructionResult(name, values) \in {Found(values), Error(NoPlace), Broken}
  BY <1>1 DEF InstructionResult, Resolved
<1>3. QED
  BY <1>2, Ends

LEMMA LocalErrors ==
  ASSUME NEW t, ProgramTree(t), NEW n \in Nodes(t), n.node.rule \in LocalStatements,
         NEW s, Listed(s.functions),
         NEW places, Among(places, s), FaultsOf(Ast(t)[n], s) \subseteq places
  PROVE  Among(places, VisitLocal(Ast(t)[n], s))
<1>. DEFINE e == Ast(t)[n]
            rs == VisitAll(e.kids, s)
            resolved == InstructionResult("measure", ValuesOf(rs))
<1>1. /\ ~Transparent(n.node) /\ Grammatical(n.node) /\ e.node = n.node.rule
      /\ DOMAIN e.kids = DOMAIN n.node.kids
      /\ DOMAIN n.node.kids = 1 .. Len(n.node.kids) /\ Len(n.node.kids) \in Nat
      /\ \A i \in DOMAIN n.node.kids :
           /\ e.kids[i] = Ast(t)[Under(n, i)]
           /\ Under(n, i) \in Nodes(t) /\ Under(n, i).node = n.node.kids[i]
  BY StatementNodes
<1>2. ASSUME NEW i \in DOMAIN n.node.kids, n.node.kids[i].rule \in Expressions
      PROVE  IsExpression(t, e.kids[i])
  BY <1>1, <1>2, AllExpressions
<1>3. DOMAIN e.kids \subseteq Nat
  BY <1>1
<1>4. n.node.rule \in {"returnStatement", "expressionStatement"} =>
        DOMAIN e.kids = {1} /\ IsExpression(t, e.kids[1])
  <2>1. SUFFICES ASSUME n.node.rule \in {"returnStatement", "expressionStatement"}
                 PROVE  DOMAIN e.kids = {1} /\ IsExpression(t, e.kids[1])
    OBVIOUS
  <2>2. Have(n.node, 1, Expressions)
    BY <1>1, <2>1 DEF Grammatical
  <2>3. 1 \in DOMAIN n.node.kids /\ n.node.kids[1].rule \in Expressions /\ DOMAIN n.node.kids = {1}
    BY <1>1, <2>2 DEF Have, Of
  <2>. HIDE DEF e
  <2>4. QED
    BY <1>1, <1>2, <2>3
<1>5. n.node.rule \in {"assignmentStatement", "gate", "measureInstruction"} =>
        \A i \in DOMAIN e.kids : IsExpression(t, e.kids[i])
  <2>1. SUFFICES ASSUME n.node.rule \in {"assignmentStatement", "gate", "measureInstruction"},
                        NEW i \in DOMAIN e.kids
                 PROVE  IsExpression(t, e.kids[i])
    OBVIOUS
  <2>2. Of(n.node, Expressions)
    BY <1>1, <2>1 DEF Grammatical, Have, Lists
  <2>. HIDE DEF e
  <2>3. QED
    BY <1>1, <1>2, <2>2 DEF Of
<1>6. n.node.rule = "variableInitialization" => IsExpression(t, e.kids[2])
  <2>1. SUFFICES ASSUME n.node.rule = "variableInitialization" PROVE IsExpression(t, e.kids[2])
    OBVIOUS
  <2>2. 2 \in DOMAIN n.node.kids /\ n.node.kids[2].rule \in Expressions
    BY <1>1, <2>1 DEF Grammatical
  <2>. HIDE DEF e
  <2>3. QED
    BY <1>2, <2>2
<1>7. /\ e.node = "variableInitialization" => FaultsAmong(e, <<e.kids[2]>>, e.at, s) \subseteq places
      /\ e.node = "variableDefinition" => Place(e.path, "name") \in places
      /\ e.node = "returnStatement" => FaultsAmong(e, e.kids, NoPlace, s) \subseteq places
      /\ e.node = "expressionStatement" =>
           /\ e.kids[1].node # "functionCall" => e.kids[1].at \in places
           /\ e.kids[1].node = "functionCall" => FaultsAmong(e, e.kids, e.kids[1].at, s) \subseteq places
      /\ e.node \in {"assignmentStatement", "gate", "measureInstruction"} =>
           FaultsAmong(e, e.kids, e.at, s) \subseteq places
  <2>. HIDE DEF e
  <2>1. FaultsOf(e, s) \subseteq places
    BY DEF e
  <2>2. QED
    BY <2>1, FaultsShape
<1>. HIDE DEF e
<1>8. CASE n.node.rule = "variableDefinition"
  <2>1. VisitLocal(e, s) = VisitVariable(e, s)
    BY <1>1, <1>8 DEF VisitLocal
  <2>2. QED
    BY <1>1, <1>7, <1>8, <2>1, DeclarationErrors DEF e
<1>9. CASE n.node.rule = "variableInitialization"
  <2>1. VisitLocal(e, s) = VisitInitialization(e, s)
    BY <1>1, <1>9 DEF VisitLocal
  <2>2. QED
    BY <1>1, <1>6, <1>7, <1>9, <2>1, InitializationErrors DEF e
<1>10. CASE n.node.rule = "assignmentStatement"
  <2>. DEFINE fit == IF ~IsReference(rs[1].value) THEN Error(NoPlace) ELSE Assign(rs[1].value, rs[2].value)
  <2>1. VisitLocal(e, s) = Conclude(s, e, IF Failing(rs) # {} THEN FirstBad(rs) ELSE fit, ValuesOf(rs), e.at)
    BY <1>1, <1>10 DEF VisitLocal, VisitAssignment, AssignmentResult
  <2>2. fit.end = "error" => fit.at = NoPlace
    BY AssignEnds, Ends
  <2>. HIDE DEF fit
  <2>3. FaultsAmong(e, e.kids, e.at, s) \subseteq places /\ \A i \in DOMAIN e.kids : IsExpression(t, e.kids[i])
    BY <1>1, <1>5, <1>7, <1>10
  <2>4. Among(places, VisitLocal(e, s))
    BY <1>3, <2>1, <2>2, <2>3, OperandsErrors
  <2>5. QED
    BY <2>4 DEF e
<1>11. CASE n.node.rule = "returnStatement"
  <2>1. VisitLocal(e, s) = VisitReturn(e, s)
    BY <1>1, <1>11 DEF VisitLocal
  <2>2. QED
    BY <1>1, <1>4, <1>7, <1>11, <2>1, ReturnErrors DEF e
<1>12. CASE n.node.rule = "expressionStatement"
  <2>1. VisitLocal(e, s) = VisitExpressionStatement(e, s)
    BY <1>1, <1>12 DEF VisitLocal
  <2>2. QED
    BY <1>1, <1>4, <1>7, <1>12, <2>1, ExpressionErrors DEF e
<1>13. CASE n.node.rule = "gate"
  <2>. DEFINE fit == InstructionResult(e.name, ValuesOf(rs))
  <2>1. VisitLocal(e, s) = Conclude(s, e, IF Failing(rs) # {} THEN FirstBad(rs) ELSE fit, ValuesOf(rs), e.at)
    BY <1>1, <1>13 DEF VisitLocal, VisitGate, GateResult
  <2>2. fit.end = "error" => fit.at = NoPlace
    BY InstructionEnds
  <2>. HIDE DEF fit
  <2>3. FaultsAmong(e, e.kids, e.at, s) \subseteq places /\ \A i \in DOMAIN e.kids : IsExpression(t, e.kids[i])
    BY <1>1, <1>5, <1>7, <1>13
  <2>4. Among(places, VisitLocal(e, s))
    BY <1>3, <2>1, <2>2, <2>3, OperandsErrors
  <2>5. QED
    BY <2>4 DEF e
<1>14. CASE n.node.rule = "measureInstruction"
  <2>. DEFINE fit == Measured(resolved, rs)
  <2>1. VisitLocal(e, s) = Conclude(s, e, IF Failing(rs) # {} THEN FirstBad(rs) ELSE fit, ValuesOf(rs), e.at)
    BY <1>1, <1>14 DEF VisitLocal, VisitMeasure, MeasureResult
  <2>2. fit.end = "error" => fit.at = NoPlace
    <3>1. resolved.end = "error" => resolved.at = NoPlace
      BY InstructionEnds
    <3>2. QED
      BY <3>1, Ends DEF Measured
  <2>. HIDE DEF fit
  <2>3. FaultsAmong(e, e.kids, e.at, s) \subseteq places /\ \A i \in DOMAIN e.kids : IsExpression(t, e.kids[i])
    BY <1>1, <1>5, <1>7, <1>14
  <2>4. Among(places, VisitLocal(e, s))
    BY <1>3, <2>1, <2>2, <2>3, OperandsErrors
  <2>5. QED
    BY <2>4 DEF e
<1>15. QED
  BY <1>8, <1>9, <1>10, <1>11, <1>12, <1>13, <1>14 DEF LocalStatements, e

-----------------------------------------------------------------------------
(* The errors of a block, statement by statement.                           *)
LEMMA LocalsAmong ==
  ASSUME NEW t, ProgramTree(t), NEW es, AreStatements(t, es), NEW s, Faithful(t, s),
         NEW places, Among(places, s),
         \A i \in DOMAIN es : FaultsOf(es[i], LocalStates(es, s)[i - 1]) \subseteq places
  PROVE  \A i \in Nat : i \in 0 .. Len(es) => Among(places, LocalStates(es, s)[i])
<1>. DEFINE g == LocalStates(es, s)
            S == {i \in Nat : i \in 0 .. Len(es) => Among(places, g[i])}
<1>0. Len(es) \in Nat /\ g[0] = s
  BY LocalStatesNext DEF AreStatements
<1>1. 0 \in S
  BY <1>0
<1>2. ASSUME NEW i \in Nat, i \in S PROVE i + 1 \in S
  <2>1. SUFFICES ASSUME i + 1 \in 0 .. Len(es) PROVE Among(places, g[i + 1])
    OBVIOUS
  <2>2. Among(places, g[i]) /\ i + 1 \in DOMAIN es /\ i \in 0 .. Len(es)
    BY <1>0, <1>2, <2>1 DEF AreStatements
  <2>3. g[i + 1] = LocalStep(es, i + 1, g[i])
    BY <1>0, <2>1, LocalStatesNext
  <2>4. Faithful(t, g[i])
    BY <2>2, LocalFaithful
  <2>5. FaultsOf(es[i + 1], g[i]) \subseteq places
    <3>1. (i + 1) - 1 = i
      OBVIOUS
    <3>2. FaultsOf(es[i + 1], g[(i + 1) - 1]) \subseteq places
      BY <2>2
    <3>. HIDE DEF g
    <3>3. QED
      BY <3>1, <3>2
  <2>. HIDE DEF g
  <2>6. g[i + 1] = g[i] \/ g[i + 1] = VisitLocal(es[i + 1], g[i])
    BY <2>3 DEF LocalStep
  <2>7. PICK n \in Nodes(t) : es[i + 1] = Ast(t)[n] /\ n.node.rule \in LocalStatements
    BY <2>2 DEF AreStatements
  <2>8. Listed(g[i].functions)
    BY <2>4, Listing DEF Faithful
  <2>9. FaultsOf(Ast(t)[n], g[i]) \subseteq places
    BY <2>5, <2>7
  <2>10. Among(places, VisitLocal(Ast(t)[n], g[i]))
    BY <2>2, <2>7, <2>8, <2>9, LocalErrors
  <2>11. QED
    BY <2>2, <2>6, <2>7, <2>10
<1>3. \A i \in Nat : i \in S
  <2>. HIDE DEF S
  <2>1. QED
    BY <1>1, <1>2, Inductive
<1>4. QED
  BY <1>3

LEMMA StatementsCounted ==
  ASSUME NEW t, NEW es, AreStatements(t, es)
  PROVE  Len(es) \in Nat /\ Len(es) \in 0 .. Len(es)
BY DEF AreStatements

LEMMA LeaveAmong ==
  ASSUME NEW e, NEW s, NEW body, NEW places, Among(places, body), e.at \in places, NEW returns
  PROVE  Among(places, LeaveFunction(e, s, body, returns))
<1>. DEFINE left == [body EXCEPT !.names = s.names, !.statements = s.statements]
            checked == CheckReturns(ReturnedBy(body.statements), returns)
            f == [id |-> Len(s.functions) + 1, name |-> e.name, returns |-> returns,
                  params |-> ParameterKinds(e.kids[1].kids)]
            z == LeaveFunction(e, s, body, returns)
<1>1. IsState(left) /\ left.errors = body.errors
  BY DEF IsState, Among
<1>2. z = CASE body.broken \/ checked.end = "broken" -> [left EXCEPT !.broken = TRUE]
            [] checked.end = "error" -> Report(left, e.at)
            [] checked.end = "value" -> [left EXCEPT !.functions = Append(@, f)]
  BY DEF LeaveFunction
<1>3. checked.end \in {"value", "error", "broken"}
  BY ReturnEnds
<1>. HIDE DEF left, checked, f, z
<1>4. Among(places, left)
  BY <1>1 DEF Among
<1>5. z \in {[left EXCEPT !.broken = TRUE], Report(left, e.at), [left EXCEPT !.functions = Append(@, f)]}
  BY <1>2, <1>3
<1>6. CASE z = [left EXCEPT !.broken = TRUE]
  <2>1. IsState(z) /\ z.errors = left.errors
    BY <1>1, <1>6, BreakFields
  <2>2. QED
    BY <1>4, <2>1 DEF Among, z
<1>7. CASE z = Report(left, e.at)
  BY <1>4, <1>7, ReportAmong DEF z
<1>8. CASE z = [left EXCEPT !.functions = Append(@, f)]
  <2>1. IsState(z) /\ z.errors = left.errors
    BY <1>1, <1>8 DEF IsState
  <2>2. QED
    BY <1>4, <2>1 DEF Among, z
<1>9. QED
  BY <1>5, <1>6, <1>7, <1>8

(* A function: the statements of its parameters and its body, and itself.   *)
LEMMA FunctionErrors ==
  ASSUME NEW t, ProgramTree(t), NEW n \in Nodes(t), n.node.rule = "functionDeclaration",
         NEW s, Faithful(t, s), NEW places, Among(places, s),
         NEW es, es = Ast(t)[n].kids[1].kids \o Ast(t)[n].kids[3].kids,
         NEW start, start = [s EXCEPT !.statements = <<>>],
         FaultsOf(Ast(t)[n], s) \subseteq places,
         \A i \in DOMAIN es : FaultsOf(es[i], LocalStates(es, start)[i - 1]) \subseteq places
  PROVE  Among(places, VisitFunction(Ast(t)[n], s))
<1>. DEFINE e == Ast(t)[n]
            type == e.kids[2].kids
            body == VisitBody(es, start)
            returns == IF type = <<>> THEN NoType ELSE BuildType(Written(type[1]))
            illegible == type # <<>> /\ ~CanBuildType(Written(type[1]))
<1>1. VisitFunction(e, s) =
        IF illegible THEN Report(s, e.at) ELSE LeaveFunction(e, s, body, returns)
  BY DEF VisitFunction
<1>2. AreStatements(t, es)
  BY BodyStatements
<1>3. Faithful(t, start)
  BY EmptyBody
<1>4. Among(places, start)
  <2>1. IsState(start) /\ start.errors = s.errors
    BY DEF IsState, Among
  <2>2. QED
    BY <2>1 DEF Among
<1>5. e.at \in places
  <2>1. e.node = "functionDeclaration"
    BY StatementNodes
  <2>. HIDE DEF e
  <2>2. FaultsOf(e, s) = {e.at, Place(e.path, "name")}
    BY <2>1, FaultsShape
  <2>3. QED
    BY <2>2 DEF e
<1>. HIDE DEF illegible, returns
<1>6. Among(places, body)
  <2>1. Len(es) \in Nat /\ Len(es) \in 0 .. Len(es)
    BY <1>2, StatementsCounted
  <2>2. Among(places, LocalStates(es, start)[Len(es)])
    BY <1>2, <1>3, <1>4, <2>1, LocalsAmong
  <2>3. QED
    BY <2>2 DEF VisitBody
<1>. HIDE DEF body, e
<1>7. CASE illegible
  <2>1. VisitFunction(e, s) = Report(s, e.at)
    BY <1>1, <1>7
  <2>2. QED
    BY <1>5, <2>1, ReportAmong DEF e
<1>8. CASE ~illegible
  <2>1. VisitFunction(e, s) = LeaveFunction(e, s, body, returns)
    BY <1>1, <1>8
  <2>2. QED
    BY <1>5, <1>6, <2>1, LeaveAmong DEF e
<1>9. QED
  BY <1>7, <1>8

-----------------------------------------------------------------------------
(* Where everything that is analyzed may be at fault.                       *)
FaultPlaces(es, s) == UNION {FaultsOf(v.statement, v.scope) : v \in Encountered(es, s)}

LEMMA StatementMet ==
  ASSUME NEW es, NEW s, NEW i \in DOMAIN es
  PROVE  FaultsOf(es[i], GlobalStates(es, s)[i - 1]) \subseteq FaultPlaces(es, s)
<1>. DEFINE v == [statement |-> es[i], scope |-> GlobalStates(es, s)[i - 1]]
<1>1. v \in Encountered(es, s)
  BY DEF Encountered, Entered, In
<1>2. v.statement = es[i] /\ v.scope = GlobalStates(es, s)[i - 1]
  OBVIOUS
<1>. HIDE DEF v
<1>3. FaultsOf(v.statement, v.scope) \subseteq FaultPlaces(es, s)
  BY <1>1 DEF FaultPlaces
<1>4. QED
  BY <1>2, <1>3

LEMMA InsideMet ==
  ASSUME NEW es, NEW s, NEW i \in DOMAIN es, es[i].node = "functionDeclaration",
         NEW inside, inside = es[i].kids[1].kids \o es[i].kids[3].kids,
         NEW start, start = [GlobalStates(es, s)[i - 1] EXCEPT !.statements = <<>>],
         NEW j \in DOMAIN inside
  PROVE  FaultsOf(inside[j], LocalStates(inside, start)[j - 1]) \subseteq FaultPlaces(es, s)
<1>. DEFINE v == [statement |-> inside[j], scope |-> LocalStates(inside, start)[j - 1]]
<1>1. In(inside, LocalStates(inside, start)) \subseteq Encountered(es, s)
  BY DEF Encountered, Entered
<1>2. v \in In(inside, LocalStates(inside, start))
  BY DEF In
<1>3. v.statement = inside[j] /\ v.scope = LocalStates(inside, start)[j - 1]
  OBVIOUS
<1>. HIDE DEF v
<1>4. FaultsOf(v.statement, v.scope) \subseteq FaultPlaces(es, s)
  BY <1>1, <1>2 DEF FaultPlaces
<1>5. QED
  BY <1>3, <1>4

LEMMA GlobalsAmong ==
  ASSUME NEW t, ProgramTree(t), NEW es, AreGlobal(t, es), NEW s, Faithful(t, s),
         Among(FaultPlaces(es, s), s)
  PROVE  \A i \in Nat : i \in 0 .. Len(es) => Among(FaultPlaces(es, s), GlobalStates(es, s)[i])
<1>. DEFINE g == GlobalStates(es, s)
            places == FaultPlaces(es, s)
            S == {i \in Nat : i \in 0 .. Len(es) => Among(places, g[i])}
<1>0. Len(es) \in Nat /\ g[0] = s
  BY GlobalStatesNext DEF AreGlobal
<1>1. 0 \in S
  BY <1>0
<1>2. ASSUME NEW i \in Nat, i \in S PROVE i + 1 \in S
  <2>1. SUFFICES ASSUME i + 1 \in 0 .. Len(es) PROVE Among(places, g[i + 1])
    OBVIOUS
  <2>. DEFINE e == es[i + 1]
              start == [g[i] EXCEPT !.statements = <<>>]
              inside == e.kids[1].kids \o e.kids[3].kids
  <2>2. Among(places, g[i]) /\ i + 1 \in DOMAIN es /\ i \in 0 .. Len(es) /\ (i + 1) - 1 = i
    BY <1>0, <1>2, <2>1 DEF AreGlobal
  <2>3. g[i + 1] = GlobalStep(es, i + 1, g[i])
    BY <1>0, <2>1, GlobalStatesNext
  <2>4. Faithful(t, g[i])
    BY <2>2, GlobalFaithful
  <2>5. FaultsOf(e, g[i]) \subseteq places
    <3>1. FaultsOf(es[i + 1], g[(i + 1) - 1]) \subseteq places
      BY <2>2, StatementMet
    <3>. HIDE DEF g, places
    <3>2. QED
      BY <2>2, <3>1
  <2>6. ASSUME e.node = "functionDeclaration"
        PROVE  \A j \in DOMAIN inside : FaultsOf(inside[j], LocalStates(inside, start)[j - 1]) \subseteq places
    <3>1. start = [g[(i + 1) - 1] EXCEPT !.statements = <<>>]
      <4>. HIDE DEF g
      <4>1. QED
        BY <2>2
    <3>. HIDE DEF start
    <3>2. ASSUME NEW j \in DOMAIN inside
          PROVE  FaultsOf(inside[j], LocalStates(inside, start)[j - 1]) \subseteq places
      BY <2>2, <2>6, <3>1, InsideMet
    <3>3. QED
      BY <3>2
  <2>. HIDE DEF g, places
  <2>7. g[i + 1] = g[i] \/ g[i + 1] = VisitStatement(e, g[i])
    BY <2>3 DEF GlobalStep
  <2>8. PICK n \in Nodes(t) :
          e = Ast(t)[n] /\ n.node.rule \in LocalStatements \cup {"functionDeclaration"}
    BY <2>2 DEF AreGlobal
  <2>9. e.node = n.node.rule
    BY <2>8, StatementNodes
  <2>10. Listed(g[i].functions)
    BY <2>4, Listing DEF Faithful
  <2>11. CASE n.node.rule = "functionDeclaration"
    <3>1. VisitStatement(e, g[i]) = VisitFunction(e, g[i])
      BY <2>9, <2>11 DEF VisitStatement
    <3>2. \A j \in DOMAIN inside : FaultsOf(inside[j], LocalStates(inside, start)[j - 1]) \subseteq places
      BY <2>6, <2>9, <2>11
    <3>3. inside = Ast(t)[n].kids[1].kids \o Ast(t)[n].kids[3].kids
          /\ FaultsOf(Ast(t)[n], g[i]) \subseteq places /\ start = [g[i] EXCEPT !.statements = <<>>]
      BY <2>5, <2>8
    <3>. HIDE DEF inside, start, e
    <3>4. Among(places, VisitFunction(Ast(t)[n], g[i]))
      BY <2>2, <2>4, <2>11, <3>2, <3>3, FunctionErrors
    <3>5. QED
      BY <2>2, <2>7, <2>8, <3>1, <3>4
  <2>12. CASE n.node.rule \in LocalStatements
    <3>1. n.node.rule # "functionDeclaration"
      BY <2>12 DEF LocalStatements
    <3>2. VisitStatement(e, g[i]) = VisitLocal(e, g[i])
      BY <2>9, <3>1 DEF VisitStatement
    <3>3. FaultsOf(Ast(t)[n], g[i]) \subseteq places
      BY <2>5, <2>8
    <3>4. Among(places, VisitLocal(Ast(t)[n], g[i]))
      BY <2>2, <2>10, <2>12, <3>3, LocalErrors
    <3>5. QED
      BY <2>2, <2>7, <2>8, <3>2, <3>4
  <2>13. QED
    BY <2>8, <2>11, <2>12
<1>3. \A i \in Nat : i \in S
  <2>. HIDE DEF S
  <2>1. QED
    BY <1>1, <1>2, Inductive
<1>4. QED
  BY <1>3

(* The errors of a program are where something analyzed is at fault.        *)
LEMMA ProgramErrors ==
  ASSUME NEW t, ProgramTree(t), NEW es, es = Build(t).kids[2].kids
  PROVE  Among(FaultPlaces(es, EmptyProgram), AnalyzeProgram(Build(t)))
<1>1. AreGlobal(t, es) /\ Faithful(t, EmptyProgram)
  BY ProgramStatements, EmptyFaithful
<1>2. Among(FaultPlaces(es, EmptyProgram), EmptyProgram)
  <2>1. IsState(EmptyProgram) /\ EmptyProgram.errors = <<>>
    BY DEF EmptyProgram, IsState
  <2>2. IsList(<<>>) /\ DOMAIN <<>> = {}
    BY DEF IsList
  <2>3. QED
    BY <2>1, <2>2 DEF Among
<1>3. AnalyzeProgram(Build(t)) = GlobalStates(es, EmptyProgram)[Len(es)]
  BY DEF AnalyzeProgram, VisitBlock
<1>4. Len(es) \in Nat /\ Len(es) \in 0 .. Len(es)
  BY <1>1 DEF AreGlobal
<1>5. QED
  BY <1>1, <1>2, <1>3, <1>4, GlobalsAmong

(* Each error of a reply is one of its program.                             *)
LEMMA ErrorsFromReading == IInv /\ ReadingInv => ErrorsPointAtInnermost
<1> SUFFICES ASSUME IInv, ReadingInv, Replied("errors"), Analyzing, Stated[call.data] # <<>>,
                    NEW r \in ParseResults(call.data), r.errors = <<>>,
                    ~Exceeds(Items(Build(Trees[call.data]).kids[1]), call.api),
                    NEW i \in DOMAIN reply.errors
             PROVE  \E v \in Encountered(Build(Trees[call.data]).kids[2].kids, EmptyProgram) :
                      reply.errors[i] \in FaultsOf(v.statement, v.scope)
  BY DEF ErrorsPointAtInnermost
<1>. DEFINE es == Build(Trees[call.data]).kids[2].kids
            found == AnalyzedProgram(call.data).errors
<1>1. call.data \in Texts
  BY CallFields DEF IInv, TypeOK
<1>2. Judged
  BY <1>1 DEF Judged, Replied, StatedInTree
<1>3. reply.errors = <<>> \o found
  BY <1>2 DEF ReadingInv, Verdict
<1>4. Trees[call.data] # NoTree
  BY <1>1, ParsedWell
<1>5. Among(FaultPlaces(es, EmptyProgram), AnalyzedProgram(call.data))
  <2>1. ProgramTree(Trees[call.data])
    BY <1>1, <1>4, TextTree
  <2>2. QED
    BY <2>1, ProgramErrors DEF AnalyzedProgram
<1>. HIDE DEF es, found
<1>6. IsList(found) /\ \A j \in DOMAIN found : found[j] \in FaultPlaces(es, EmptyProgram)
  BY <1>5 DEF Among, found
<1>7. reply.errors = found
  BY <1>3, <1>6 DEF IsList
<1>8. reply.errors[i] \in FaultPlaces(es, EmptyProgram)
  BY <1>6, <1>7
<1>9. QED
  BY <1>8 DEF FaultPlaces, es

(* For parse trees of any depth and any number of errors, each error of a   *)
(* reply is where the innermost failing part of a statement of the program  *)
(* is: no handler of AnalyzeTreeGenAstVisitor on its way up replaces a      *)
(* place it has (Error::context).                                           *)
THEOREM ErrorsPointAtInnermostHolds == Spec => []ErrorsPointAtInnermost
BY ErrorsFromReading, ReadingAlways, PTL
=============================================================================
