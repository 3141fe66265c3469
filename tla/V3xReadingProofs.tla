-------------------------- MODULE V3xReadingProofs --------------------------
(***************************************************************************)
(* Proofs about V3xReading, for every parse tree of the grammar: the AST   *)
(* and the visits of the analyzer exist for trees of any depth, a term     *)
(* reads its tree if its parts read theirs, and so every expression that   *)
(* has a value means what is written and has the kinds that are written.   *)
(***************************************************************************)
EXTENDS V3xReading, V3xLiteralsProofs

-----------------------------------------------------------------------------
(* Induction on a set of natural numbers.                                   *)
LEMMA Inductive ==
  ASSUME NEW S, 0 \in S, \A k \in Nat : k \in S => k + 1 \in S
  PROVE  \A k \in Nat : k \in S
<1>. DEFINE Bad == {k \in Nat : k \notin S}
<1>1. ASSUME Bad # {} PROVE FALSE
  <2>1. PICK k \in Bad : \A y \in Bad : k <= y
    BY <1>1, LeastIn
  <2>2. k # 0 /\ k - 1 \in Nat /\ ~(k <= k - 1)
    BY <2>1
  <2>3. k - 1 \in S /\ (k - 1) + 1 = k
    BY <2>1, <2>2
  <2>4. QED
    BY <2>1, <2>2, <2>3
<1>2. QED
  BY <1>1

-----------------------------------------------------------------------------
(* The nodes of a tree without their paths; a tree of height k at most.     *)
NodesAt(t, d) == {n.node : n \in LevelsOf(t)[d]}

Flat(t, k) == k \in 0 .. MaxDepth /\ \A x \in NodesAt(t, k) : DOMAIN x.kids = {}

KidsOf(x) == {x.kids[i] : i \in DOMAIN x.kids}

LEMMA LevelZero == ASSUME NEW t PROVE NodesAt(t, 0) = {t}
<1>1. NodesAt(t, 0) = {n.node : n \in {Standing(<<>>, t)}}
  BY RootLevel DEF NodesAt
<1>2. Standing(<<>>, t).node = t
  BY DEF Standing
<1>3. \A f : {n.node : n \in {f}} = {f.node}
  OBVIOUS
<1>4. QED
  BY <1>1, <1>2, <1>3

LEMMA BelowKids ==
  ASSUME NEW n
  PROVE  {m.node : m \in Below(n)} = KidsOf(n.node)
<1>1. \A i \in DOMAIN n.node.kids : Under(n, i).node = n.node.kids[i]
  BY DEF Under, Standing
<1>2. {m.node : m \in Below(n)} = {Under(n, i).node : i \in DOMAIN n.node.kids}
  BY DEF Below
<1>3. QED
  BY <1>1, <1>2 DEF KidsOf

LEMMA LevelKids ==
  ASSUME NEW t, NEW d \in Nat, d + 1 \in 0 .. MaxDepth
  PROVE  NodesAt(t, d + 1) = UNION {KidsOf(x) : x \in NodesAt(t, d)}
<1>. PICK e : e = d + 1
  OBVIOUS
<1>1. e \in 0 .. MaxDepth /\ e # 0 /\ e - 1 = d
  OBVIOUS
<1>2. LevelsOf(t)[e] = UNION {Below(n) : n \in LevelsOf(t)[d]}
  BY <1>1, LevelSteps
<1>3. {m.node : m \in UNION {Below(n) : n \in LevelsOf(t)[d]}}
        = UNION {{m.node : m \in Below(n)} : n \in LevelsOf(t)[d]}
  OBVIOUS
<1>4. UNION {{m.node : m \in Below(n)} : n \in LevelsOf(t)[d]}
        = UNION {KidsOf(n.node) : n \in LevelsOf(t)[d]}
  BY BelowKids
<1>5. UNION {KidsOf(n.node) : n \in LevelsOf(t)[d]} = UNION {KidsOf(x) : x \in NodesAt(t, d)}
  BY DEF NodesAt
<1>6. QED
  BY <1>2, <1>3, <1>4, <1>5 DEF NodesAt

(* The levels below the root are those of its children.                     *)
LEMMA LevelsOfKids ==
  ASSUME NEW t
  PROVE  \A d \in Nat : d + 1 \in 0 .. MaxDepth =>
           NodesAt(t, d + 1) = UNION {NodesAt(x, d) : x \in KidsOf(t)}
<1>. DEFINE S == {d \in Nat : d + 1 \in 0 .. MaxDepth =>
                              NodesAt(t, d + 1) = UNION {NodesAt(x, d) : x \in KidsOf(t)}}
<1>1. 0 \in S
  <2>1. SUFFICES ASSUME 0 + 1 \in 0 .. MaxDepth
                 PROVE  NodesAt(t, 0 + 1) = UNION {NodesAt(x, 0) : x \in KidsOf(t)}
    OBVIOUS
  <2>2. NodesAt(t, 0 + 1) = UNION {KidsOf(x) : x \in NodesAt(t, 0)}
    BY <2>1, LevelKids
  <2>3. UNION {KidsOf(x) : x \in NodesAt(t, 0)} = KidsOf(t)
    BY LevelZero
  <2>4. UNION {NodesAt(x, 0) : x \in KidsOf(t)} = KidsOf(t)
    BY LevelZero
  <2>5. QED
    BY <2>2, <2>3, <2>4
<1>2. ASSUME NEW d \in Nat, d \in S PROVE d + 1 \in S
  <2>1. SUFFICES ASSUME (d + 1) + 1 \in 0 .. MaxDepth
                 PROVE  NodesAt(t, (d + 1) + 1) = UNION {NodesAt(x, d + 1) : x \in KidsOf(t)}
    OBVIOUS
  <2>2. d + 1 \in Nat /\ d + 1 \in 0 .. MaxDepth
    BY <2>1, Depth
  <2>3. NodesAt(t, (d + 1) + 1) = UNION {KidsOf(y) : y \in NodesAt(t, d + 1)}
    BY <2>1, <2>2, LevelKids
  <2>4. NodesAt(t, d + 1) = UNION {NodesAt(x, d) : x \in KidsOf(t)}
    BY <1>2, <2>2
  <2>5. \A x : NodesAt(x, d + 1) = UNION {KidsOf(y) : y \in NodesAt(x, d)}
    BY <2>2, LevelKids
  <2>6. UNION {KidsOf(y) : y \in UNION {NodesAt(x, d) : x \in KidsOf(t)}}
          = UNION {UNION {KidsOf(y) : y \in NodesAt(x, d)} : x \in KidsOf(t)}
    OBVIOUS
  <2>7. UNION {UNION {KidsOf(y) : y \in NodesAt(x, d)} : x \in KidsOf(t)}
          = UNION {NodesAt(x, d + 1) : x \in KidsOf(t)}
    BY <2>5
  <2>8. QED
    BY <2>3, <2>4, <2>6, <2>7
<1>3. \A d \in Nat : d \in S
  <2>. HIDE DEF S
  <2>1. QED
    BY <1>1, <1>2, Inductive
<1>4. QED
  BY <1>3

LEMMA FlatZero == ASSUME NEW t PROVE Flat(t, 0) <=> DOMAIN t.kids = {}
BY LevelZero, Depth DEF Flat

LEMMA FlatUp ==
  ASSUME NEW t, NEW k \in Nat, k + 1 \in 0 .. MaxDepth
  PROVE  Flat(t, k + 1) <=> \A x \in KidsOf(t) : Flat(x, k)
<1>1. NodesAt(t, k + 1) = UNION {NodesAt(x, k) : x \in KidsOf(t)}
  BY LevelsOfKids
<1>2. k \in 0 .. MaxDepth
  BY Depth
<1>3. QED
  BY <1>1, <1>2 DEF Flat

LEMMA FlatKid ==
  ASSUME NEW t, NEW k, Flat(t, k), NEW i \in DOMAIN t.kids
  PROVE  k # 0 /\ k - 1 \in Nat /\ Flat(t.kids[i], k - 1)
<1>1. k \in Nat /\ k \in 0 .. MaxDepth
  BY Depth DEF Flat
<1>2. k # 0
  BY FlatZero
<1>3. PICK j : j = k - 1
  OBVIOUS
<1>4. j \in Nat /\ j + 1 = k
  BY <1>1, <1>2, <1>3
<1>5. Flat(t.kids[i], j)
  BY <1>1, <1>4, FlatUp DEF KidsOf
<1>6. QED
  BY <1>2, <1>3, <1>4, <1>5

(* A tree of height k is one of height k + 1.                               *)
LEMMA FlatMore ==
  \A k \in Nat : k + 1 \in 0 .. MaxDepth => \A t : Flat(t, k) => Flat(t, k + 1)
<1>. DEFINE S == {k \in Nat : k + 1 \in 0 .. MaxDepth => \A t : Flat(t, k) => Flat(t, k + 1)}
<1>1. 0 \in S
  <2>1. ASSUME 0 + 1 \in 0 .. MaxDepth, NEW t, Flat(t, 0) PROVE Flat(t, 0 + 1)
    <3>1. KidsOf(t) = {}
      BY <2>1, FlatZero DEF KidsOf
    <3>2. QED
      BY <2>1, <3>1, FlatUp
  <2>2. QED
    BY <2>1
<1>2. ASSUME NEW k \in Nat, k \in S PROVE k + 1 \in S
  <2>1. ASSUME (k + 1) + 1 \in 0 .. MaxDepth, NEW t, Flat(t, k + 1)
        PROVE  Flat(t, (k + 1) + 1)
    <3>1. k + 1 \in Nat /\ k + 1 \in 0 .. MaxDepth
      BY <2>1, Depth
    <3>2. \A x \in KidsOf(t) : Flat(x, k)
      BY <2>1, <3>1, FlatUp
    <3>3. \A x \in KidsOf(t) : Flat(x, k + 1)
      BY <1>2, <3>1, <3>2
    <3>4. QED
      BY <2>1, <3>1, <3>3, FlatUp
  <2>2. QED
    BY <2>1
<1>3. \A k \in Nat : k \in S
  <2>. HIDE DEF S
  <2>1. QED
    BY <1>1, <1>2, Inductive
<1>4. QED
  BY <1>3

(* What is at level d of a tree of height k is of height k - d.             *)
LEMMA FlatLevel ==
  ASSUME NEW t, NEW k, Flat(t, k)
  PROVE  \A d \in Nat : d \in 0 .. MaxDepth =>
           \A x \in NodesAt(t, d) : k - d \in Nat /\ Flat(x, k - d)
<1>. DEFINE S == {d \in Nat : d \in 0 .. MaxDepth =>
                              \A x \in NodesAt(t, d) : k - d \in Nat /\ Flat(x, k - d)}
<1>0. k \in Nat /\ k - 0 = k
  BY Depth DEF Flat
<1>1. 0 \in S
  BY <1>0, LevelZero
<1>2. ASSUME NEW d \in Nat, d \in S PROVE d + 1 \in S
  <2>1. SUFFICES ASSUME d + 1 \in 0 .. MaxDepth, NEW x \in NodesAt(t, d + 1)
                 PROVE  k - (d + 1) \in Nat /\ Flat(x, k - (d + 1))
    OBVIOUS
  <2>2. NodesAt(t, d + 1) = UNION {KidsOf(y) : y \in NodesAt(t, d)} /\ d \in 0 .. MaxDepth
    BY <2>1, Depth, LevelKids
  <2>3. PICK y \in NodesAt(t, d) : x \in KidsOf(y)
    BY <2>1, <2>2
  <2>4. PICK i \in DOMAIN y.kids : x = y.kids[i]
    BY <2>3 DEF KidsOf
  <2>5. PICK h : h = k - d
    OBVIOUS
  <2>6. h \in Nat /\ Flat(y, h)
    BY <1>2, <2>2, <2>3, <2>5
  <2>7. h # 0 /\ h - 1 \in Nat /\ Flat(x, h - 1)
    BY <2>4, <2>6, FlatKid
  <2>8. h - 1 = k - (d + 1)
    BY <1>0, <2>5
  <2>9. QED
    BY <2>7, <2>8
<1>3. \A d \in Nat : d \in S
  <2>. HIDE DEF S
  <2>1. QED
    BY <1>1, <1>2, Inductive
<1>4. QED
  BY <1>3

(* The nodes of a flat tree are closed under children.                      *)
LEMMA FlatUnder ==
  ASSUME NEW t, Flat(t, MaxDepth), NEW d \in 0 .. MaxDepth, NEW n \in LevelsOf(t)[d],
         NEW i \in DOMAIN n.node.kids
  PROVE  d + 1 \in 0 .. MaxDepth /\ Under(n, i) \in LevelsOf(t)[d + 1]
<1>1. d # MaxDepth
  <2>1. SUFFICES ASSUME d = MaxDepth PROVE FALSE
    OBVIOUS
  <2>2. n.node \in NodesAt(t, MaxDepth)
    BY <2>1 DEF NodesAt
  <2>3. DOMAIN n.node.kids = {}
    BY <2>2 DEF Flat
  <2>4. QED
    BY <2>3
<1>2. PICK e : e = d + 1
  OBVIOUS
<1>3. e \in 0 .. MaxDepth /\ e # 0 /\ e - 1 = d
  BY <1>1, <1>2, Depth
<1>4. LevelsOf(t)[e] = UNION {Below(m) : m \in LevelsOf(t)[e - 1]}
  BY <1>3, LevelSteps
<1>5. Under(n, i) \in Below(n)
  BY DEF Below
<1>6. Under(n, i) \in LevelsOf(t)[e]
  BY <1>3, <1>4, <1>5
<1>7. QED
  BY <1>2, <1>3, <1>6

LEMMA FlatClosed ==
  ASSUME NEW t, Flat(t, MaxDepth), NEW n \in Nodes(t), NEW i \in DOMAIN n.node.kids
  PROVE  Under(n, i) \in Nodes(t)
<1>1. PICK d \in 0 .. MaxDepth : n \in LevelsOf(t)[d]
  BY DEF Nodes
<1>2. d + 1 \in 0 .. MaxDepth /\ Under(n, i) \in LevelsOf(t)[d + 1]
  BY <1>1, FlatUnder
<1>3. QED
  BY <1>2 DEF Nodes

LEMMA FlatInside ==
  ASSUME NEW t, Flat(t, MaxDepth), NEW n \in Nodes(t)
  PROVE  Flat(n.node, MaxDepth)
<1>1. PICK d \in 0 .. MaxDepth : n \in LevelsOf(t)[d]
  BY DEF Nodes
<1>2. n.node \in NodesAt(t, d) /\ d \in Nat
  BY <1>1, Depth DEF NodesAt
<1>3. PICK h \in Nat : h <= MaxDepth /\ Flat(n.node, h)
  BY <1>1, <1>2, FlatLevel, Depth
<1>. DEFINE S == {k \in Nat : h + k <= MaxDepth => Flat(n.node, h + k)}
<1>4. 0 \in S
  BY <1>3
<1>5. ASSUME NEW k \in Nat, k \in S PROVE k + 1 \in S
  <2>1. SUFFICES ASSUME h + (k + 1) <= MaxDepth PROVE Flat(n.node, h + (k + 1))
    OBVIOUS
  <2>2. PICK j : j = h + k
    OBVIOUS
  <2>3. j \in Nat /\ j + 1 = h + (k + 1) /\ j + 1 \in 0 .. MaxDepth
    BY <1>3, <2>1, <2>2, Depth
  <2>4. Flat(n.node, j)
    BY <1>5, <2>1, <2>2, <2>3, Depth
  <2>5. Flat(n.node, j + 1)
    BY <2>3, <2>4, FlatMore
  <2>6. QED
    BY <2>3, <2>5
<1>6. \A k \in Nat : k \in S
  <2>. HIDE DEF S
  <2>1. QED
    BY <1>4, <1>5, Inductive
<1>7. MaxDepth - h \in Nat /\ h + (MaxDepth - h) = MaxDepth
  BY <1>3, Depth
<1>8. QED
  BY <1>6, <1>7

-----------------------------------------------------------------------------
(* The AST of a parse tree, node by node.  What leaves no node of its own   *)
(* has one part.                                                            *)
Readable(t) ==
  /\ Flat(t, MaxDepth)
  /\ \A n \in Nodes(t) : Transparent(n.node) => 1 \in DOMAIN n.node.kids

AstFrom(f, n) ==
  IF Transparent(n.node) THEN f[Under(n, 1)]
  ELSE Built(n, [i \in DOMAIN n.node.kids |-> f[Under(n, i)]])

LEMMA AstDepends ==
  ASSUME NEW t, Readable(t), NEW n \in Nodes(t), NEW f, NEW g,
         \A i \in DOMAIN n.node.kids : g[Under(n, i)] = f[Under(n, i)]
  PROVE  AstFrom(g, n) = AstFrom(f, n)
<1>1. [i \in DOMAIN n.node.kids |-> g[Under(n, i)]] = [i \in DOMAIN n.node.kids |-> f[Under(n, i)]]
  OBVIOUS
<1>2. Transparent(n.node) => g[Under(n, 1)] = f[Under(n, 1)]
  BY DEF Readable
<1>3. QED
  BY <1>1, <1>2 DEF AstFrom

(* The nodes of the AST exist. *)
KnownAst(f, t, k) ==
  \A d \in 0 .. MaxDepth : MaxDepth <= d + k =>
    \A n \in LevelsOf(t)[d] : f[n] = AstFrom(f, n)

LEMMA AstExists ==
  ASSUME NEW t, Readable(t)
  PROVE  \E f : f = [n \in Nodes(t) |-> AstFrom(f, n)]
<1>. DEFINE Made(f) == [n \in Nodes(t) |-> AstFrom(f, n)]
            S == {k \in Nat : \E f : KnownAst(f, t, k)}
<1>0. Flat(t, MaxDepth)
  BY DEF Readable
<1>1. ASSUME NEW f, NEW k \in Nat, k = 0 \/ KnownAst(f, t, k - 1)
      PROVE  KnownAst(Made(f), t, k)
  <2>1. SUFFICES ASSUME NEW d \in 0 .. MaxDepth, MaxDepth <= d + k, NEW n \in LevelsOf(t)[d]
                 PROVE  Made(f)[n] = AstFrom(Made(f), n)
    BY DEF KnownAst
  <2>2. n \in Nodes(t)
    BY DEF Nodes
  <2>3. ASSUME NEW i \in DOMAIN n.node.kids PROVE Made(f)[Under(n, i)] = f[Under(n, i)]
    <3>1. d + 1 \in 0 .. MaxDepth /\ Under(n, i) \in LevelsOf(t)[d + 1]
      BY <1>0, FlatUnder
    <3>2. k # 0 /\ MaxDepth <= (d + 1) + (k - 1)
      BY <2>1, <3>1, Depth
    <3>3. f[Under(n, i)] = AstFrom(f, Under(n, i))
      BY <1>1, <3>1, <3>2 DEF KnownAst
    <3>4. Under(n, i) \in Nodes(t)
      BY <3>1 DEF Nodes
    <3>5. QED
      BY <3>3, <3>4
  <2>4. Made(f)[n] = AstFrom(f, n)
    BY <2>2
  <2>. HIDE DEF Made
  <2>5. AstFrom(Made(f), n) = AstFrom(f, n)
    BY <2>2, <2>3, AstDepends
  <2>6. QED
    BY <2>4, <2>5
<1>2. 0 \in S
  BY <1>1
<1>3. ASSUME NEW k \in Nat, k \in S PROVE k + 1 \in S
  <2>1. PICK f : KnownAst(f, t, k)
    BY <1>3
  <2>2. k + 1 \in Nat /\ (k + 1) - 1 = k
    OBVIOUS
  <2>. HIDE DEF Made
  <2>3. KnownAst(Made(f), t, k + 1)
    BY <1>1, <2>1, <2>2
  <2>4. QED
    BY <2>2, <2>3
<1>4. \A k \in Nat : k \in S
  <2>. HIDE DEF S
  <2>1. QED
    BY <1>2, <1>3, Inductive
<1>5. PICK f : KnownAst(f, t, MaxDepth)
  BY <1>4, Depth
<1>6. KnownAst(Made(f), t, MaxDepth + 1)
  <2>1. MaxDepth + 1 \in Nat /\ (MaxDepth + 1) - 1 = MaxDepth
    BY Depth
  <2>. HIDE DEF Made
  <2>2. QED
    BY <1>1, <1>5, <2>1
<1>7. ASSUME NEW n \in Nodes(t) PROVE Made(f)[n] = AstFrom(Made(f), n)
  <2>1. PICK d \in 0 .. MaxDepth : n \in LevelsOf(t)[d]
    BY DEF Nodes
  <2>2. MaxDepth <= d + (MaxDepth + 1)
    BY <2>1, Depth
  <2>. HIDE DEF Made
  <2>3. QED
    BY <1>6, <2>1, <2>2 DEF KnownAst
<1>8. Made(f) = [n \in Nodes(t) |-> Made(f)[n]]
  OBVIOUS
<1>. HIDE DEF Made
<1>9. Made(f) = [n \in Nodes(t) |-> AstFrom(Made(f), n)]
  BY <1>7, <1>8
<1>10. QED
  BY <1>9

LEMMA AstSteps ==
  ASSUME NEW t, Readable(t)
  PROVE  \A n \in Nodes(t) : Ast(t)[n] = AstFrom(Ast(t), n)
<1>. DEFINE Is(f) == f = [n \in Nodes(t) |-> AstFrom(f, n)]
<1>1. Ast(t) = CHOOSE f : Is(f)
  BY DEF Ast, AstFrom
<1>2. \E f : Is(f)
  BY AstExists
<1>3. Is(Ast(t))
  <2>. HIDE DEF Is
  <2>1. QED
    BY <1>1, <1>2
<1>4. QED
  BY <1>3

-----------------------------------------------------------------------------
(* The visit of an expression, node by node.                                *)
VisitFrom(f, n, s) == Evaluate(n.node, [i \in DOMAIN n.node.kids |-> f[Under(n, i)]], s)

LEMMA VisitDepends ==
  ASSUME NEW t, NEW s, NEW n \in Nodes(t), NEW f, NEW g,
         \A i \in DOMAIN n.node.kids : g[Under(n, i)] = f[Under(n, i)]
  PROVE  VisitFrom(g, n, s) = VisitFrom(f, n, s)
<1>1. [i \in DOMAIN n.node.kids |-> g[Under(n, i)]] = [i \in DOMAIN n.node.kids |-> f[Under(n, i)]]
  OBVIOUS
<1>2. QED
  BY <1>1 DEF VisitFrom

(* The visits of the nodes exist. *)
KnownVisit(f, t, s, k) ==
  \A d \in 0 .. MaxDepth : MaxDepth <= d + k =>
    \A n \in LevelsOf(t)[d] : f[n] = VisitFrom(f, n, s)

LEMMA VisitExists ==
  ASSUME NEW t, NEW s, Flat(t, MaxDepth)
  PROVE  \E f : f = [n \in Nodes(t) |-> VisitFrom(f, n, s)]
<1>. DEFINE Made(f) == [n \in Nodes(t) |-> VisitFrom(f, n, s)]
            S == {k \in Nat : \E f : KnownVisit(f, t, s, k)}
<1>0. Flat(t, MaxDepth)
  OBVIOUS
<1>1. ASSUME NEW f, NEW k \in Nat, k = 0 \/ KnownVisit(f, t, s, k - 1)
      PROVE  KnownVisit(Made(f), t, s, k)
  <2>1. SUFFICES ASSUME NEW d \in 0 .. MaxDepth, MaxDepth <= d + k, NEW n \in LevelsOf(t)[d]
                 PROVE  Made(f)[n] = VisitFrom(Made(f), n, s)
    BY DEF KnownVisit
  <2>2. n \in Nodes(t)
    BY DEF Nodes
  <2>3. ASSUME NEW i \in DOMAIN n.node.kids PROVE Made(f)[Under(n, i)] = f[Under(n, i)]
    <3>1. d + 1 \in 0 .. MaxDepth /\ Under(n, i) \in LevelsOf(t)[d + 1]
      BY <1>0, FlatUnder
    <3>2. k # 0 /\ MaxDepth <= (d + 1) + (k - 1)
      BY <2>1, <3>1, Depth
    <3>3. f[Under(n, i)] = VisitFrom(f, Under(n, i), s)
      BY <1>1, <3>1, <3>2 DEF KnownVisit
    <3>4. Under(n, i) \in Nodes(t)
      BY <3>1 DEF Nodes
    <3>5. QED
      BY <3>3, <3>4
  <2>4. Made(f)[n] = VisitFrom(f, n, s)
    BY <2>2
  <2>. HIDE DEF Made
  <2>5. VisitFrom(Made(f), n, s) = VisitFrom(f, n, s)
    BY <2>2, <2>3, VisitDepends
  <2>6. QED
    BY <2>4, <2>5
<1>2. 0 \in S
  BY <1>1
<1>3. ASSUME NEW k \in Nat, k \in S PROVE k + 1 \in S
  <2>1. PICK f : KnownVisit(f, t, s, k)
    BY <1>3
  <2>2. k + 1 \in Nat /\ (k + 1) - 1 = k
    OBVIOUS
  <2>. HIDE DEF Made
  <2>3. KnownVisit(Made(f), t, s, k + 1)
    BY <1>1, <2>1, <2>2
  <2>4. QED
    BY <2>2, <2>3
<1>4. \A k \in Nat : k \in S
  <2>. HIDE DEF S
  <2>1. QED
    BY <1>2, <1>3, Inductive
<1>5. PICK f : KnownVisit(f, t, s, MaxDepth)
  BY <1>4, Depth
<1>6. KnownVisit(Made(f), t, s, MaxDepth + 1)
  <2>1. MaxDepth + 1 \in Nat /\ (MaxDepth + 1) - 1 = MaxDepth
    BY Depth
  <2>. HIDE DEF Made
  <2>2. QED
    BY <1>1, <1>5, <2>1
<1>7. ASSUME NEW n \in Nodes(t) PROVE Made(f)[n] = VisitFrom(Made(f), n, s)
  <2>1. PICK d \in 0 .. MaxDepth : n \in LevelsOf(t)[d]
    BY DEF Nodes
  <2>2. MaxDepth <= d + (MaxDepth + 1)
    BY <2>1, Depth
  <2>. HIDE DEF Made
  <2>3. QED
    BY <1>6, <2>1, <2>2 DEF KnownVisit
<1>8. Made(f) = [n \in Nodes(t) |-> Made(f)[n]]
  OBVIOUS
<1>. HIDE DEF Made
<1>9. Made(f) = [n \in Nodes(t) |-> VisitFrom(Made(f), n, s)]
  BY <1>7, <1>8
<1>10. QED
  BY <1>9

LEMMA VisitSteps ==
  ASSUME NEW e, Flat(e, MaxDepth), NEW s
  PROVE  \A n \in Nodes(e) : Visits(e, s)[n] = VisitFrom(Visits(e, s), n, s)
<1>. DEFINE Is(f) == f = [n \in Nodes(e) |-> VisitFrom(f, n, s)]
<1>1. Visits(e, s) = CHOOSE f : Is(f)
  BY DEF Visits, VisitFrom
<1>2. \E f : Is(f)
  BY VisitExists
<1>3. Is(Visits(e, s))
  <2>. HIDE DEF Is
  <2>1. QED
    BY <1>1, <1>2
<1>4. QED
  BY <1>3

LEMMA RootNode == ASSUME NEW t PROVE Standing(<<>>, t) \in Nodes(t) /\ Standing(<<>>, t).node = t
BY RootLevel DEF Standing

(* A visit depends on nothing but what it visits.                           *)
LEMMA VisitLocal1 ==
  ASSUME NEW s
  PROVE  \A k \in Nat : \A e : Flat(e, MaxDepth) => \A n \in Nodes(e) :
           Flat(n.node, k) => Visits(e, s)[n] = Visit(n.node, s)
<1>. DEFINE P(k) == \A e : Flat(e, MaxDepth) => \A n \in Nodes(e) :
                      Flat(n.node, k) => Visits(e, s)[n] = Visit(n.node, s)
            S == {k \in Nat : P(k)}
<1>1. ASSUME NEW k \in Nat, k = 0 \/ P(k - 1) PROVE P(k)
  <2>1. SUFFICES ASSUME NEW e, Flat(e, MaxDepth), NEW n \in Nodes(e), Flat(n.node, k)
                 PROVE  Visits(e, s)[n] = Visit(n.node, s)
    OBVIOUS
  <2>. DEFINE r == Standing(<<>>, n.node)
  <2>2. Flat(n.node, MaxDepth) /\ r \in Nodes(n.node) /\ r.node = n.node
    BY <2>1, FlatInside, RootNode
  <2>3. ASSUME NEW i \in DOMAIN n.node.kids
        PROVE  Visits(e, s)[Under(n, i)] = Visits(n.node, s)[Under(r, i)]
    <3>1. k # 0 /\ k - 1 \in Nat /\ Flat(n.node.kids[i], k - 1)
      BY <2>1, FlatKid
    <3>2. Under(n, i) \in Nodes(e) /\ Under(n, i).node = n.node.kids[i]
      BY <2>1, FlatClosed DEF Under, Standing
    <3>3. Under(r, i) \in Nodes(n.node) /\ Under(r, i).node = n.node.kids[i]
      BY <2>2, FlatClosed DEF Under, Standing
    <3>4. Visits(e, s)[Under(n, i)] = Visit(n.node.kids[i], s)
      BY <1>1, <2>1, <3>1, <3>2
    <3>5. Visits(n.node, s)[Under(r, i)] = Visit(n.node.kids[i], s)
      BY <1>1, <2>2, <3>1, <3>3
    <3>6. QED
      BY <3>4, <3>5
  <2>. HIDE DEF r
  <2>4. [i \in DOMAIN n.node.kids |-> Visits(e, s)[Under(n, i)]]
          = [i \in DOMAIN n.node.kids |-> Visits(n.node, s)[Under(r, i)]]
    BY <2>3
  <2>5. Visits(e, s)[n] = VisitFrom(Visits(e, s), n, s)
    BY <2>1, VisitSteps
  <2>6. Visits(n.node, s)[r] = VisitFrom(Visits(n.node, s), r, s)
    BY <2>2, VisitSteps
  <2>7. Visits(e, s)[n] = Visits(n.node, s)[r]
    BY <2>2, <2>4, <2>5, <2>6 DEF VisitFrom
  <2>8. QED
    BY <2>7 DEF Visit, r
<1>2. 0 \in S
  BY <1>1
<1>3. ASSUME NEW k \in Nat, k \in S PROVE k + 1 \in S
  <2>. HIDE DEF P
  <2>1. P(k + 1)
    BY <1>1, <1>3
  <2>2. QED
    BY <2>1
<1>4. \A k \in Nat : k \in S
  <2>. HIDE DEF S
  <2>1. QED
    BY <1>2, <1>3, Inductive
<1>5. QED
  BY <1>4

(* What an expression comes to, given what its parts come to.               *)
PartsVisited(e, s) == [i \in DOMAIN e.kids |-> Visit(e.kids[i], s)]

LEMMA VisitByParts ==
  ASSUME NEW e, Flat(e, MaxDepth), NEW s
  PROVE  Visit(e, s) = Evaluate(e, PartsVisited(e, s), s)
<1>. DEFINE r == Standing(<<>>, e)
<1>1. r \in Nodes(e) /\ r.node = e
  BY RootNode
<1>2. ASSUME NEW i \in DOMAIN e.kids PROVE Visits(e, s)[Under(r, i)] = Visit(e.kids[i], s)
  <2>1. Under(r, i) \in Nodes(e) /\ Under(r, i).node = e.kids[i]
    BY <1>1, FlatClosed DEF Under, Standing
  <2>2. Flat(e.kids[i], MaxDepth) /\ MaxDepth \in Nat
    BY <2>1, FlatInside, Depth
  <2>3. QED
    BY <2>1, <2>2, VisitLocal1
<1>3. Visit(e, s) = Visits(e, s)[r]
  BY DEF Visit
<1>. HIDE DEF r
<1>4. Visits(e, s)[r] = VisitFrom(Visits(e, s), r, s)
  BY <1>1, VisitSteps
<1>5. [i \in DOMAIN e.kids |-> Visits(e, s)[Under(r, i)]] = PartsVisited(e, s)
  BY <1>2 DEF PartsVisited
<1>6. QED
  BY <1>1, <1>3, <1>4, <1>5 DEF VisitFrom

-----------------------------------------------------------------------------
HalvesOf(ps) == UNION {Halves(p) : p \in ps}

(* What a term and a tree are compared by, level by level. *)
ArePairs(f, term, t, depth) ==
  f = [d \in 0 .. depth |-> IF d = 0 THEN {Pair(term, t)} ELSE HalvesOf(f[d - 1])]

LEMMA PairsExist ==
  ASSUME NEW term, NEW t, NEW depth \in Nat
  PROVE  \E f : ArePairs(f, term, t, depth)
<1>. DEFINE first == {Pair(term, t)}
            Next1(d, x) == HalvesOf(x)
            Is(f, m) == \A d \in 0 .. m : f[d] = IF d = 0 THEN first ELSE Next1(d, f[d - 1])
            S == {m \in Nat : \E f : f = [d \in 0 .. m |-> f[d]] /\ Is(f, m)}
<1>. HIDE DEF first, Next1
<1>1. 0 \in S
  <2>. DEFINE f == [d \in 0 .. 0 |-> first]
  <2>1. f = [d \in 0 .. 0 |-> f[d]] /\ Is(f, 0)
    OBVIOUS
  <2>. HIDE DEF f, Is
  <2>2. QED
    BY <2>1
<1>2. ASSUME NEW m \in Nat, m \in S PROVE m + 1 \in S
  <2>1. PICK f : f = [d \in 0 .. m |-> f[d]] /\ Is(f, m)
    BY <1>2
  <2>. DEFINE g == [d \in 0 .. m + 1 |-> IF d = m + 1 THEN Next1(d, f[m]) ELSE f[d]]
  <2>2. g = [d \in 0 .. m + 1 |-> g[d]]
    OBVIOUS
  <2>3. ASSUME NEW d \in 0 .. m + 1 PROVE g[d] = IF d = 0 THEN first ELSE Next1(d, g[d - 1])
    <3>1. CASE d = m + 1
      <4>1. d # 0 /\ d - 1 = m /\ m \in 0 .. m + 1 /\ m # m + 1
        BY <3>1
      <4>2. g[d] = Next1(d, f[m]) /\ g[d - 1] = f[m]
        BY <3>1, <4>1
      <4>. HIDE DEF g
      <4>3. QED
        BY <4>1, <4>2
    <3>2. CASE d # m + 1
      <4>1. d \in 0 .. m /\ g[d] = f[d]
        BY <3>2
      <4>2. d # 0 => d - 1 \in 0 .. m /\ g[d - 1] = f[d - 1]
        BY <4>1
      <4>3. f[d] = IF d = 0 THEN first ELSE Next1(d, f[d - 1])
        BY <2>1, <4>1
      <4>. HIDE DEF g
      <4>4. QED
        BY <4>1, <4>2, <4>3
    <3>3. QED
      BY <3>1, <3>2
  <2>. HIDE DEF g
  <2>4. Is(g, m + 1)
    BY <2>3
  <2>. HIDE DEF Is
  <2>5. QED
    BY <2>2, <2>4
<1>3. \A m \in Nat : m \in S
  <2>. HIDE DEF S
  <2>1. QED
    BY <1>1, <1>2, Inductive
<1>4. PICK f : f = [d \in 0 .. depth |-> f[d]] /\ Is(f, depth)
  BY <1>3
<1>5. f = [d \in 0 .. depth |-> IF d = 0 THEN first ELSE Next1(d, f[d - 1])]
  BY <1>4
<1>6. QED
  BY <1>5 DEF first, Next1, ArePairs

LEMMA PairsSteps ==
  ASSUME NEW term, NEW t
  PROVE  \A d \in 0 .. MaxDepth :
           Pairs(term, t)[d] = IF d = 0 THEN {Pair(term, t)} ELSE HalvesOf(Pairs(term, t)[d - 1])
<1>. DEFINE g == CHOOSE f : ArePairs(f, term, t, MaxDepth)
<1>1. Pairs(term, t) = g
  BY DEF Pairs, ArePairs, HalvesOf
<1>2. ArePairs(g, term, t, MaxDepth)
  BY PairsExist, Depth
<1>. HIDE DEF g
<1>3. \A d \in 0 .. MaxDepth : g[d] = IF d = 0 THEN {Pair(term, t)} ELSE HalvesOf(g[d - 1])
  BY <1>2 DEF ArePairs
<1>4. QED
  BY <1>1, <1>3

LEMMA PairsFirst ==
  ASSUME NEW term, NEW t
  PROVE  Pairs(term, t)[0] = {Pair(term, t)}
<1>. DEFINE g == Pairs(term, t)
<1>1. 0 \in 0 .. MaxDepth
  BY Depth
<1>2. \A d \in 0 .. MaxDepth : g[d] = IF d = 0 THEN {Pair(term, t)} ELSE HalvesOf(g[d - 1])
  BY PairsSteps
<1>. HIDE DEF g
<1>3. g[0] = {Pair(term, t)}
  BY <1>1, <1>2
<1>4. QED
  BY <1>3 DEF g

LEMMA PairsNext ==
  ASSUME NEW term, NEW t, NEW c \in Nat, c + 1 \in 0 .. MaxDepth
  PROVE  Pairs(term, t)[c + 1] = HalvesOf(Pairs(term, t)[c])
<1>. DEFINE g == Pairs(term, t)
<1>1. \A d \in 0 .. MaxDepth : g[d] = IF d = 0 THEN {Pair(term, t)} ELSE HalvesOf(g[d - 1])
  BY PairsSteps
<1>. HIDE DEF g
<1>2. PICK d : d = c + 1
  OBVIOUS
<1>3. d \in 0 .. MaxDepth /\ d # 0 /\ d - 1 = c
  BY <1>2
<1>4. g[d] = HalvesOf(g[c])
  BY <1>1, <1>3
<1>5. QED
  BY <1>2, <1>4 DEF g

LEMMA PairsBelow ==
  ASSUME NEW term, NEW t
  PROVE  \A d \in Nat : d + 1 \in 0 .. MaxDepth =>
           Pairs(term, t)[d + 1] = UNION {Pairs(p.term, p.tree)[d] : p \in Halves(Pair(term, t))}
<1>. DEFINE top == Halves(Pair(term, t))
            S == {d \in Nat : d + 1 \in 0 .. MaxDepth =>
                    Pairs(term, t)[d + 1] = UNION {Pairs(p.term, p.tree)[d] : p \in top}}
<1>0. \A p \in top : Pair(p.term, p.tree) = p
  BY DEF Halves, Pair
<1>. HIDE DEF top
<1>1. 0 \in S
  <2>1. SUFFICES ASSUME 0 + 1 \in 0 .. MaxDepth
                 PROVE  Pairs(term, t)[0 + 1] = UNION {Pairs(p.term, p.tree)[0] : p \in top}
    OBVIOUS
  <2>2. 1 \in 0 .. MaxDepth /\ 0 \in 0 .. MaxDepth /\ 1 # 0 /\ 1 - 1 = 0 /\ 0 + 1 = 1
    BY <2>1, Depth
  <2>3. Pairs(term, t)[0 + 1] = HalvesOf(Pairs(term, t)[0])
    BY <2>1, PairsNext
  <2>4. Pairs(term, t)[0] = {Pair(term, t)}
    BY PairsFirst
  <2>5. Pairs(term, t)[0 + 1] = top
    BY <2>3, <2>4 DEF top, HalvesOf
  <2>6. \A p \in top : Pairs(p.term, p.tree)[0] = {p}
    BY <1>0, PairsFirst
  <2>7. UNION {Pairs(p.term, p.tree)[0] : p \in top} = top
    BY <2>6
  <2>8. QED
    BY <2>2, <2>5, <2>7
<1>2. ASSUME NEW d \in Nat, d \in S PROVE d + 1 \in S
  <2>1. SUFFICES ASSUME (d + 1) + 1 \in 0 .. MaxDepth
                 PROVE  Pairs(term, t)[(d + 1) + 1] = UNION {Pairs(p.term, p.tree)[d + 1] : p \in top}
    OBVIOUS
  <2>2. PICK e : e = (d + 1) + 1
    OBVIOUS
  <2>3. /\ e \in 0 .. MaxDepth /\ e # 0 /\ e - 1 = d + 1
        /\ d + 1 \in 0 .. MaxDepth /\ d + 1 # 0 /\ (d + 1) - 1 = d
    BY <2>1, <2>2, Depth
  <2>4. Pairs(term, t)[(d + 1) + 1] = HalvesOf(Pairs(term, t)[d + 1])
    BY <2>1, PairsNext
  <2>5. Pairs(term, t)[d + 1] = UNION {Pairs(p.term, p.tree)[d] : p \in top}
    BY <1>2, <2>3
  <2>6. \A p : Pairs(p.term, p.tree)[d + 1] = HalvesOf(Pairs(p.term, p.tree)[d])
    BY <2>3, PairsNext
  <2>7. HalvesOf(UNION {Pairs(p.term, p.tree)[d] : p \in top})
          = UNION {HalvesOf(Pairs(p.term, p.tree)[d]) : p \in top}
    BY DEF HalvesOf
  <2>8. UNION {HalvesOf(Pairs(p.term, p.tree)[d]) : p \in top}
          = UNION {Pairs(p.term, p.tree)[d + 1] : p \in top}
    BY <2>6
  <2>9. QED
    BY <2>2, <2>4, <2>5, <2>7, <2>8
<1>3. \A d \in Nat : d \in S
  <2>. HIDE DEF S
  <2>1. QED
    BY <1>1, <1>2, Inductive
<1>4. QED
  BY <1>3 DEF top

(* A term reads as a tree when its parts read as the parts of the tree.     *)
LEMMA ReadsByParts ==
  ASSUME NEW term, NEW t, Agrees(Pair(term, t)),
         \A p \in Halves(Pair(term, t)) : Reads(p.term, p.tree)
  PROVE  Reads(term, t)
<1>1. SUFFICES ASSUME NEW d \in 0 .. MaxDepth, NEW q \in Pairs(term, t)[d] PROVE Agrees(q)
  BY DEF Reads
<1>2. CASE d = 0
  BY <1>1, <1>2, PairsFirst
<1>3. CASE d # 0
  <2>1. PICK c : c = d - 1
    OBVIOUS
  <2>2. c \in Nat /\ c + 1 = d /\ c \in 0 .. MaxDepth
    BY <1>3, <2>1, Depth
  <2>3. Pairs(term, t)[c + 1] = UNION {Pairs(p.term, p.tree)[c] : p \in Halves(Pair(term, t))}
    BY <2>2, PairsBelow
  <2>4. PICK p \in Halves(Pair(term, t)) : q \in Pairs(p.term, p.tree)[c]
    BY <1>1, <2>2, <2>3
  <2>5. QED
    BY <2>2, <2>4 DEF Reads
<1>4. QED
  BY <1>2, <1>3

LEMMA ReadsUnmarked ==
  ASSUME NEW term, NEW t, Unmarked(t), Reads(term, t.kids[1])
  PROVE  Reads(term, t)
<1>0. Pair(term, t).term = term /\ Pair(term, t).tree = t
  BY DEF Pair
<1>3. t.rule \notin DOMAIN LiteralKind /\ t.rule \notin {"identifier", "index"}
  BY DEF Unmarked, LiteralKind
<1>4. ~Undivided(t)
  BY <1>3 DEF Undivided
<1>1. Agrees(Pair(term, t)) /\ Halves(Pair(term, t)) = {Pair(term, t.kids[1])}
  BY <1>0, <1>3, <1>4 DEF Agrees, Halves
<1>2. Pair(term, t.kids[1]).term = term /\ Pair(term, t.kids[1]).tree = t.kids[1]
  BY DEF Pair
<1>5. QED
  BY <1>1, <1>2, ReadsByParts

LEMMA ReadsUndivided ==
  ASSUME NEW term, NEW t, ~Unmarked(t), Undivided(t), Agrees(Pair(term, t))
  PROVE  Reads(term, t)
<1>1. Halves(Pair(term, t)) = {}
  BY DEF Halves, Pair
<1>2. QED
  BY <1>1, ReadsByParts

LEMMA ReadsDivided ==
  ASSUME NEW term, NEW t, ~Unmarked(t), ~Undivided(t), term.of = SignOf(t),
         DOMAIN term.kids = DOMAIN t.kids,
         \A i \in DOMAIN t.kids : Reads(term.kids[i], t.kids[i])
  PROVE  Reads(term, t)
<1>1. Halves(Pair(term, t)) = {Pair(term.kids[i], t.kids[i]) : i \in DOMAIN t.kids}
  BY DEF Halves, Pair
<1>2. \A i : Pair(term.kids[i], t.kids[i]).term = term.kids[i] /\ Pair(term.kids[i], t.kids[i]).tree = t.kids[i]
  BY DEF Pair
<1>3. \A p \in Halves(Pair(term, t)) : Reads(p.term, p.tree)
  BY <1>1, <1>2
<1>4. Pair(term, t).term = term /\ Pair(term, t).tree = t
  BY DEF Pair
<1>5. t.rule \notin DOMAIN LiteralKind /\ t.rule \notin {"identifier", "index"}
  BY DEF Undivided
<1>6. Agrees(Pair(term, t))
  BY <1>4, <1>5 DEF Agrees
<1>7. QED
  BY <1>3, <1>6, ReadsByParts

-----------------------------------------------------------------------------
(* Trees of programs.                                                       *)
ProgramTree(t) ==
  IsTree(t) /\ t.rule = "program" /\ \A n \in Nodes(t) : Grammatical(n.node)

LEMMA KidsListed ==
  ASSUME NEW t, ProgramTree(t), NEW n \in Nodes(t)
  PROVE  Len(n.node.kids) \in Nat /\ DOMAIN n.node.kids = 1 .. Len(n.node.kids)
<1>1. PICK T : n.node.kids \in Seq(T)
  BY DEF ProgramTree, IsTree, IsList
<1>2. QED
  BY <1>1

LEMMA ProgramReadable ==
  ASSUME NEW t, ProgramTree(t)
  PROVE  Readable(t)
<1>1. Flat(t, MaxDepth)
  <2>1. \A n \in LevelsOf(t)[MaxDepth] : DOMAIN n.node.kids = {}
    BY DEF ProgramTree, IsTree
  <2>2. MaxDepth \in 0 .. MaxDepth
    BY Depth
  <2>3. QED
    BY <2>1, <2>2 DEF Flat, NodesAt
<1>2. ASSUME NEW n \in Nodes(t), Transparent(n.node) PROVE 1 \in DOMAIN n.node.kids
  <2>1. Grammatical(n.node)
    BY DEF ProgramTree
  <2>2. Arity("unaryPlusMinusExpression") = 1 /\ "unaryPlusMinusExpression" \in Operators
    BY DEF Arity, Operators
  <2>3. n.node.rule \in {"parensExpression", "unaryPlusMinusExpression"}
    BY <1>2 DEF Transparent
  <2>4. Len(n.node.kids) = 1
    BY <2>1, <2>2, <2>3 DEF Grammatical, Have
  <2>5. QED
    BY <2>4, KidsListed
<1>3. QED
  BY <1>1, <1>2 DEF Readable

(* The AST is not deeper than the tree.                                     *)
LEMMA AstFlat ==
  ASSUME NEW t, Readable(t)
  PROVE  \A k \in Nat : \A n \in Nodes(t) : Flat(n.node, k) => Flat(Ast(t)[n], k)
<1>. DEFINE P(k) == \A n \in Nodes(t) : Flat(n.node, k) => Flat(Ast(t)[n], k)
            S == {k \in Nat : P(k)}
<1>0. ASSUME NEW n \in Nodes(t), ~Transparent(n.node)
      PROVE  /\ DOMAIN Ast(t)[n].kids = DOMAIN n.node.kids
             /\ \A i \in DOMAIN n.node.kids : Ast(t)[n].kids[i] = Ast(t)[Under(n, i)]
  <2>1. Ast(t)[n] = Built(n, [i \in DOMAIN n.node.kids |-> Ast(t)[Under(n, i)]])
    BY <1>0, AstSteps DEF AstFrom
  <2>2. QED
    BY <2>1 DEF Built
<1>1. 0 \in S
  <2>1. ASSUME NEW n \in Nodes(t), Flat(n.node, 0) PROVE Flat(Ast(t)[n], 0)
    <3>1. DOMAIN n.node.kids = {}
      BY <2>1, FlatZero
    <3>2. ~Transparent(n.node)
      BY <3>1 DEF Readable
    <3>3. QED
      BY <1>0, <3>1, <3>2, FlatZero
  <2>2. QED
    BY <2>1
<1>2. ASSUME NEW k \in Nat, k \in S PROVE k + 1 \in S
  <2>1. SUFFICES ASSUME NEW n \in Nodes(t), Flat(n.node, k + 1) PROVE Flat(Ast(t)[n], k + 1)
    OBVIOUS
  <2>2. k + 1 \in 0 .. MaxDepth
    BY <2>1 DEF Flat
  <2>3. ASSUME NEW i \in DOMAIN n.node.kids PROVE Flat(Ast(t)[Under(n, i)], k)
    <3>1. Under(n, i) \in Nodes(t) /\ Under(n, i).node = n.node.kids[i]
      BY FlatClosed DEF Readable, Under, Standing
    <3>2. Flat(n.node.kids[i], k)
      BY <2>1, <2>2, FlatUp DEF KidsOf
    <3>3. QED
      BY <1>2, <3>1, <3>2
  <2>4. CASE Transparent(n.node)
    <3>1. Ast(t)[n] = Ast(t)[Under(n, 1)] /\ 1 \in DOMAIN n.node.kids
      BY <2>4, AstSteps DEF AstFrom, Readable
    <3>2. Flat(Ast(t)[Under(n, 1)], k)
      BY <2>3, <3>1
    <3>3. Flat(Ast(t)[Under(n, 1)], k + 1)
      BY <2>2, <3>2, FlatMore
    <3>4. QED
      BY <3>1, <3>3
  <2>5. CASE ~Transparent(n.node)
    <3>1. \A x \in KidsOf(Ast(t)[n]) : Flat(x, k)
      BY <1>0, <2>3, <2>5 DEF KidsOf
    <3>2. QED
      BY <2>2, <3>1, FlatUp
  <2>6. QED
    BY <2>4, <2>5
<1>3. \A k \in Nat : k \in S
  <2>. HIDE DEF S
  <2>1. QED
    BY <1>1, <1>2, Inductive
<1>4. QED
  BY <1>3

(* What a node that is not left out is built into.                          *)
LEMMA AstNode ==
  ASSUME NEW t, Readable(t), NEW n \in Nodes(t), ~Transparent(n.node)
  PROVE  LET e == Ast(t)[n] IN
         /\ Flat(e, MaxDepth)
         /\ e.node = NodeName(n.node) /\ e.name = n.node.token /\ e.number = n.node.number
         /\ e.at = PlaceOf(n.node.rule, n.path) /\ e.path = n.path
         /\ DOMAIN e.kids = DOMAIN n.node.kids
         /\ \A i \in DOMAIN n.node.kids :
              /\ e.kids[i] = Ast(t)[Under(n, i)]
              /\ Under(n, i) \in Nodes(t) /\ Under(n, i).node = n.node.kids[i]
              /\ Under(n, i).path = Child(n.path, i)
<1>. DEFINE e == Ast(t)[n]
<1>1. e = Built(n, [i \in DOMAIN n.node.kids |-> Ast(t)[Under(n, i)]])
  BY AstSteps DEF AstFrom
<1>2. Flat(e, MaxDepth)
  <2>1. Flat(n.node, MaxDepth) /\ MaxDepth \in Nat
    BY FlatInside, Depth DEF Readable
  <2>2. QED
    BY <2>1, AstFlat
<1>3. \A i \in DOMAIN n.node.kids :
        /\ Under(n, i) \in Nodes(t) /\ Under(n, i).node = n.node.kids[i]
        /\ Under(n, i).path = Child(n.path, i)
  BY FlatClosed DEF Readable, Under, Standing
<1>4. /\ e.node = NodeName(n.node) /\ e.name = n.node.token /\ e.number = n.node.number
      /\ e.at = PlaceOf(n.node.rule, n.path) /\ e.path = n.path
      /\ DOMAIN e.kids = DOMAIN n.node.kids
      /\ \A i \in DOMAIN n.node.kids : e.kids[i] = Ast(t)[Under(n, i)]
  BY <1>1 DEF Built
<1>5. QED
  BY <1>2, <1>3, <1>4

-----------------------------------------------------------------------------
(* The term of a value, whatever it is the value of.                        *)
LEMMA TermFields ==
  ASSUME NEW of, NEW v, NEW number, NEW kids
  PROVE  LET m == Term(of, v, number, kids) IN
         /\ m.of = of /\ m.number = number /\ m.kids = kids
         /\ m.node = v.node /\ m.kind = v.typ.kind
BY DEF Term

LEMMA AnyTerm ==
  ASSUME NEW v, NEW number, NEW of, NEW kids
  PROVE  LET w == WithTerm(v, number, of, kids) IN
         /\ w.term = Term(of, v, number, kids) /\ w.number = number
         /\ w.node = v.node /\ w.typ = v.typ
         /\ w.term.of = of /\ w.term.kids = kids /\ w.term.number = number
BY TermFields DEF WithTerm

-----------------------------------------------------------------------------
(* How visits end.                                                          *)
LEMMA Ends ==
  /\ \A v : Found(v).end = "value" /\ Found(v).value = v
  /\ \A at : Error(at).end = "error" /\ Error(at).at = at
  /\ Broken.end = "broken"
BY DEF Found, Error, Broken

LEMMA ContextKeeps ==
  ASSUME NEW r, NEW at
  PROVE  /\ r.end # "error" => Context(r, at) = r
         /\ r.end = "error" => /\ r.at # NoPlace => Context(r, at) = r
                               /\ r.at = NoPlace => Context(r, at) = Error(at)
         /\ Context(r, at).end = "value" => r.end = "value"
BY DEF Context, Error

LEMMA FirstBadFails ==
  ASSUME NEW rs, DOMAIN rs \subseteq Nat, Failing(rs) # {}
  PROVE  /\ Min(Failing(rs)) \in DOMAIN rs /\ FirstBad(rs) = rs[Min(Failing(rs))]
         /\ FirstBad(rs).end # "value"
         /\ \A i \in Failing(rs) : Min(Failing(rs)) <= i
<1>1. Failing(rs) \subseteq Nat
  BY DEF Failing
<1>2. PICK x \in Failing(rs) : \A y \in Failing(rs) : x <= y
  BY <1>1, LeastIn
<1>3. Min(Failing(rs)) \in Failing(rs) /\ \A y \in Failing(rs) : Min(Failing(rs)) <= y
  BY <1>2 DEF Min
<1>4. QED
  BY <1>3 DEF Failing, FirstBad

(* One of finitely many overloads is the last.                              *)
Listed(overloads) == \E n \in Nat : DOMAIN overloads = 1 .. n

LEMMA GreatestIn ==
  ASSUME NEW n \in Nat, NEW S, S \subseteq 1 .. n, S # {}
  PROVE  Max(S) \in S /\ \A y \in S : y <= Max(S)
<1>. DEFINE gaps == {n - x : x \in S}
<1>1. gaps \subseteq Nat /\ gaps # {}
  <2>1. \A x \in S : n - x \in Nat
    OBVIOUS
  <2>2. QED
    BY <2>1
<1>2. PICK g \in gaps : \A y \in gaps : g <= y
  BY <1>1, LeastIn
<1>3. PICK x \in S : g = n - x
  BY <1>2
<1>4. \A y \in S : n - x <= n - y
  BY <1>2, <1>3
<1>5. \A y \in S : y <= x
  BY <1>4
<1>6. QED
  BY <1>3, <1>5 DEF Max

LEMMA LastChosen ==
  ASSUME NEW overloads, Listed(overloads), NEW name, NEW args,
         Candidates(overloads, name, args) # {}
  PROVE  /\ LastCandidate(overloads, name, args) \in Candidates(overloads, name, args)
         /\ \A k \in Candidates(overloads, name, args) : k <= LastCandidate(overloads, name, args)
<1>1. PICK n \in Nat : DOMAIN overloads = 1 .. n
  BY DEF Listed
<1>2. Candidates(overloads, name, args) \subseteq 1 .. n
  BY <1>1 DEF Candidates
<1>3. QED
  BY <1>2, GreatestIn DEF LastCandidate

LEMMA Resolutions ==
  ASSUME NEW overloads, Listed(overloads), NEW name, NEW args
  PROVE  /\ Resolution(overloads, name, args) \in {"escape", "error", "match"}
         /\ Resolution(overloads, name, args) = "error" <=> Candidates(overloads, name, args) = {}
<1>1. CASE Candidates(overloads, name, args) = {}
  BY <1>1 DEF Resolution
<1>2. CASE Candidates(overloads, name, args) # {}
  <2>. DEFINE k == LastCandidate(overloads, name, args)
  <2>1. TryOverload(args, overloads[k].params) # "no_match"
    BY <1>2, LastChosen DEF Candidates
  <2>2. TryOverload(args, overloads[k].params) \in {"no_match", "match", "escape"}
    BY DEF TryOverload
  <2>3. Resolution(overloads, name, args) = TryOverload(args, overloads[k].params)
    BY <1>2 DEF Resolution
  <2>4. QED
    BY <1>2, <2>1, <2>2, <2>3
<1>3. QED
  BY <1>1, <1>2

(* What a call that succeeds comes to.                                      *)
LEMMA CallValue ==
  ASSUME NEW name, NEW rs, NEW s, DOMAIN rs \subseteq Nat, Listed(s.functions),
         Call(name, rs, s).end = "value"
  PROVE  LET v == Call(name, rs, s).value IN
         /\ Failing(rs) = {}
         /\ v.term.of = name
         /\ v.term.kids = [i \in DOMAIN rs |-> rs[i].value.term]
<1>. DEFINE args == ValuesOf(rs)
            f == s.functions[Chosen(s.functions, name, args)]
            d == DefaultFunctions[Chosen(DefaultFunctions, name, args)]
            terms == [i \in DOMAIN args |-> args[i].term]
            called == WithTerm(FunctionCall(f.id, f.returns, PromotedArgs(args, f.params)), f.id, name, terms)
<1>1. Failing(rs) = {}
  BY FirstBadFails DEF Call
<1>2. terms = [i \in DOMAIN rs |-> rs[i].value.term]
  BY DEF ValuesOf
<1>3. Call(name, rs, s) \in {Broken, Compute(name, args), Error(NoPlace), Found(called)}
  <2>1. Resolution(s.functions, name, args) \in {"escape", "error", "match"}
    BY Resolutions
  <2>2. QED
    BY <1>1, <2>1 DEF Call, CallWith, Resolved, Called
<1>8. called.term.of = name /\ called.term.kids = terms
  BY AnyTerm
<1>. HIDE DEF called, terms
<1>4. Call(name, rs, s) \in {Compute(name, args), Found(called)}
  BY <1>3, Ends
<1>5. CASE Call(name, rs, s) = Found(called)
  <2>1. called.term.of = name /\ called.term.kids = terms
    BY <1>8
  <2>2. QED
    BY <1>1, <1>2, <1>5, <2>1, Ends
<1>6. CASE Call(name, rs, s) = Compute(name, args)
  <2>. DEFINE numbers == [i \in DOMAIN args |-> args[i].number]
              number == Computed(name, numbers)
              value == WithTerm(Const(d.result, 1, number = 0), number, name, terms)
  <2>0. Compute(name, args) = IF DividesByZero(name, d.params, numbers) THEN Broken ELSE Found(value)
    BY DEF Compute, Applied, terms
  <2>1. Compute(name, args) \in {Broken, Found(value)}
    BY <2>0
  <2>. DEFINE c == Const(d.result, 1, number = 0)
  <2>3. value.term.of = name /\ value.term.kids = terms
    <3>1. value = WithTerm(c, number, name, terms)
      OBVIOUS
    <3>. HIDE DEF value, c, number
    <3>2. QED
      BY <3>1, AnyTerm
  <2>. HIDE DEF value
  <2>2. Call(name, rs, s) = Found(value)
    BY <1>6, <2>1, Ends
  <2>4. QED
    BY <1>1, <1>2, <2>2, <2>3, Ends
<1>7. QED
  BY <1>4, <1>5, <1>6

-----------------------------------------------------------------------------
(* From the sign of an operator to the function that is looked up.          *)
LEMMA SignKept ==
  ASSUME NEW t, t.rule \in Operators, t.token \in Signs[t.rule], ~Unmarked(t)
  PROVE  OperatorOf(NodeOf(t.rule, t.token)) = SignOf(t)
<1>1. CASE t.rule = "unaryPlusMinusExpression"
  BY <1>1 DEF Signs, Unmarked, NodeOf, OperatorOf, SignOf, Lists
<1>2. CASE t.rule = "bitwiseNotExpression"
  BY <1>2 DEF Signs, Unmarked, NodeOf, OperatorOf, SignOf, Lists
<1>3. CASE t.rule = "logicalNotExpression"
  BY <1>3 DEF Signs, Unmarked, NodeOf, OperatorOf, SignOf, Lists
<1>4. CASE t.rule = "powerExpression"
  BY <1>4 DEF Signs, Unmarked, NodeOf, OperatorOf, SignOf, Lists
<1>5. CASE t.rule = "productExpression"
  BY <1>5 DEF Signs, Unmarked, NodeOf, OperatorOf, SignOf, Lists
<1>6. CASE t.rule = "additionExpression"
  BY <1>6 DEF Signs, Unmarked, NodeOf, OperatorOf, SignOf, Lists
<1>7. CASE t.rule = "shiftExpression"
  BY <1>7 DEF Signs, Unmarked, NodeOf, OperatorOf, SignOf, Lists
<1>8. CASE t.rule = "comparisonExpression"
  BY <1>8 DEF Signs, Unmarked, NodeOf, OperatorOf, SignOf, Lists
<1>9. CASE t.rule = "equalityExpression"
  BY <1>9 DEF Signs, Unmarked, NodeOf, OperatorOf, SignOf, Lists
<1>10. CASE t.rule = "bitwiseAndExpression"
  BY <1>10 DEF Signs, Unmarked, NodeOf, OperatorOf, SignOf, Lists
<1>11. CASE t.rule = "bitwiseXorExpression"
  BY <1>11 DEF Signs, Unmarked, NodeOf, OperatorOf, SignOf, Lists
<1>12. CASE t.rule = "bitwiseOrExpression"
  BY <1>12 DEF Signs, Unmarked, NodeOf, OperatorOf, SignOf, Lists
<1>13. CASE t.rule = "logicalAndExpression"
  BY <1>13 DEF Signs, Unmarked, NodeOf, OperatorOf, SignOf, Lists
<1>14. CASE t.rule = "logicalXorExpression"
  BY <1>14 DEF Signs, Unmarked, NodeOf, OperatorOf, SignOf, Lists
<1>15. CASE t.rule = "logicalOrExpression"
  BY <1>15 DEF Signs, Unmarked, NodeOf, OperatorOf, SignOf, Lists
<1>16. CASE t.rule = "ternaryConditionalExpression"
  BY <1>16 DEF Signs, Unmarked, NodeOf, OperatorOf, SignOf, Lists
<1>17. QED
  BY <1>1, <1>2, <1>3, <1>4, <1>5, <1>6, <1>7, <1>8, <1>9, <1>10, <1>11, <1>12, <1>13, <1>14,
     <1>15, <1>16 DEF Operators

(* The nodes the analyzer has visits of its own for are not operators.      *)
SpecialNodes ==
  {"integerLiteral", "floatLiteral", "booleanLiteral", "identifier", "functionCall", "indexItem",
   "indexRange", "index", "InitializationList"}

LEMMA LiteralNodes == DOMAIN LiteralKind = {"integerLiteral", "floatLiteral", "booleanLiteral"}
BY DEF LiteralKind

LEMMA OperatorNodes ==
  ASSUME NEW rule \in Operators, NEW token
  PROVE  NodeOf(rule, token) \notin SpecialNodes
<1>1. NodeOf(rule, token) \in
        {"UnaryMinus", "BitwiseNot", "LogicalNot", "Power", "Product", "Division", "Modulo",
         "Addition", "Subtraction", "ShiftLeft", "ShiftRight", "CmpGt", "CmpLt", "CmpGe", "CmpLe",
         "CmpEq", "CmpNe", "BitwiseAnd", "BitwiseXor", "BitwiseOr", "LogicalAnd", "LogicalXor",
         "LogicalOr", "TernaryConditional"}
  BY DEF NodeOf, Operators
<1>2. QED
  BY <1>1 DEF SpecialNodes

(* What a list or an index that succeeds comes to.                          *)
LEMMA ListValue ==
  ASSUME NEW rs, ListOutcome(rs).end = "value"
  PROVE  /\ \A i \in DOMAIN rs : rs[i].end = "value"
         /\ ListOutcome(rs).value.term.of = "list"
         /\ ListOutcome(rs).value.term.kids = [i \in DOMAIN rs |-> rs[i].value.term]
<1>. DEFINE vs == ValuesOf(rs)
            ok(i) == rs[i].end = "value" /\ ListElement(rs[i].value)
            bad == {i \in DOMAIN rs : ~ok(i)}
            kind == HighestKind([i \in DOMAIN vs |-> vs[i].typ.kind])
            zero == \A i \in DOMAIN vs : vs[i].number = 0
            const == Const(ArrayOf[kind], Len(vs), zero)
            terms == [i \in DOMAIN vs |-> vs[i].term]
            value == WithTerm(const, 0, "list", terms)
<1>1. ListOutcome(rs) =
        IF rs = <<>> THEN Error(NoPlace)
        ELSE IF bad # {} THEN IF rs[Min(bad)].end = "value" THEN Error(NoPlace) ELSE rs[Min(bad)]
        ELSE Found(value)
  BY DEF ListOutcome
<1>2. terms = [i \in DOMAIN rs |-> rs[i].value.term]
  BY DEF ValuesOf
<1>3. \A i \in DOMAIN rs : i \notin bad => rs[i].end = "value"
  OBVIOUS
<1>4. value.term.of = "list" /\ value.term.kids = terms
  <2>. HIDE DEF const, terms
  <2>1. QED
    BY AnyTerm
<1>. HIDE DEF bad, value, terms
<1>5. bad = {} /\ ListOutcome(rs) = Found(value)
  BY <1>1, Ends
<1>6. QED
  BY <1>2, <1>3, <1>4, <1>5, Ends

LEMMA IndexValue ==
  ASSUME NEW name, NEW entries, NEW s, DOMAIN entries \subseteq Nat,
         IndexEntries(name, entries, s).end = "value"
  PROVE  /\ IndexEntries(name, entries, s).value.term.of = name
         /\ IndexEntries(name, entries, s).value.node = "index_ref"
<1>. DEFINE v == s.names[name]
            indices == FlattenSeq(ValuesOf(entries))
            unknown == name \notin DOMAIN s.names
            fixed == v.node # "variable_ref"
            other == v.typ.kind \notin {V, W}
            failing == Failing(entries) # {}
            outside == \E i \in DOMAIN indices : indices[i] \notin 0 .. v.typ.size - 1
            ref == IndexRef(CHOOSE id \in v.vars : TRUE, v.typ, indices)
            terms == [i \in DOMAIN indices |-> Term("index", Const("int", 1, FALSE), indices[i], <<>>)]
            value == WithTerm(ref, 0, name, terms)
<1>1. IndexEntries(name, entries, s) =
        IF unknown THEN Error(NoPlace)
        ELSE IF fixed THEN Broken
        ELSE IF other THEN Error(NoPlace)
        ELSE IF failing THEN FirstBad(entries)
        ELSE IF outside THEN Error(NoPlace)
        ELSE Found(value)
  BY DEF IndexEntries
<1>2. failing => FirstBad(entries).end # "value"
  BY FirstBadFails
<1>4. value.term.of = name /\ value.node = "index_ref"
  <2>1. ref.node = "index_ref"
    BY DEF IndexRef
  <2>. HIDE DEF ref, terms
  <2>2. QED
    BY <2>1, AnyTerm
<1>. HIDE DEF value, unknown, fixed, other, failing, outside
<1>5. IndexEntries(name, entries, s) = Found(value)
  BY <1>1, <1>2, Ends
<1>6. QED
  BY <1>4, <1>5, Ends

-----------------------------------------------------------------------------
(* A scope whose names stand for themselves.                                *)
Scoped(s) ==
  /\ \A name \in DOMAIN s.names : s.names[name].term.of = name
  /\ Listed(s.functions)

(* The value of an expression, if it has one, reads as what is written.     *)
Means(t, n, s) ==
  Visit(Ast(t)[n], s).end = "value" => Reads(Visit(Ast(t)[n], s).value.term, n.node)

LEMMA PlacedValues ==
  ASSUME NEW es, NEW rs, Failing(Placed(es, rs)) = {}
  PROVE  /\ DOMAIN Placed(es, rs) = DOMAIN es
         /\ \A i \in DOMAIN es : rs[i].end = "value" /\ Placed(es, rs)[i] = rs[i]
<1>1. DOMAIN Placed(es, rs) = DOMAIN es
  BY DEF Placed
<1>2. ASSUME NEW i \in DOMAIN es PROVE rs[i].end = "value" /\ Placed(es, rs)[i] = rs[i]
  <2>1. Placed(es, rs)[i] = Context(rs[i], es[i].at)
    BY DEF Placed
  <2>2. Placed(es, rs)[i].end = "value"
    BY <1>1 DEF Failing
  <2>3. QED
    BY <2>1, <2>2, ContextKeeps
<1>3. QED
  BY <1>1, <1>2

LEMMA ElementValues ==
  ASSUME NEW es, NEW rs, NEW i \in DOMAIN es, Elements(es, rs)[i].end = "value"
  PROVE  rs[i].end = "value" /\ Elements(es, rs)[i] = rs[i]
<1>1. Elements(es, rs)[i] = IF i = 1 THEN rs[i] ELSE Context(rs[i], es[i].at)
  BY DEF Elements
<1>2. QED
  BY <1>1, ContextKeeps

LEMMA EvaluateKinds ==
  ASSUME NEW e, NEW rs, NEW s
  PROVE  /\ e.node \in DOMAIN LiteralKind => Evaluate(e, rs, s) =
              Found(WithTerm(Const(LiteralKind[e.node], 1, e.number = 0), e.number, "literal", <<>>))
         /\ e.node = "identifier" => Evaluate(e, rs, s) =
              IF e.name \in DOMAIN s.names THEN Found(s.names[e.name]) ELSE Error(NoPlace)
         /\ e.node = "functionCall" => Evaluate(e, rs, s) = Call(e.name, Placed(e.kids, rs), s)
         /\ e.node = "index" => Evaluate(e, rs, s) = Context(IndexEntries(e.name, rs, s), e.at)
         /\ e.node = "InitializationList" => Evaluate(e, rs, s) = ListOutcome(Elements(e.kids, rs))
         /\ e.node \notin SpecialNodes => Evaluate(e, rs, s) = Call(OperatorOf(e.node), Placed(e.kids, rs), s)
<1>. DEFINE literal == Found(WithTerm(Const(LiteralKind[e.node], 1, e.number = 0), e.number, "literal", <<>>))
            name == IF e.name \in DOMAIN s.names THEN Found(s.names[e.name]) ELSE Error(NoPlace)
            called == Call(e.name, Placed(e.kids, rs), s)
            entry == Entry(Indices(e.kids, rs))
            index == Context(IndexEntries(e.name, rs, s), e.at)
            list == ListOutcome(Elements(e.kids, rs))
            operator == Call(OperatorOf(e.node), Placed(e.kids, rs), s)
            any == Call(FunctionOf(e), Placed(e.kids, rs), s)
<1>1. Evaluate(e, rs, s) =
        CASE e.node \in DOMAIN LiteralKind -> literal
          [] e.node = "identifier" -> name
          [] e.node \in {"indexItem", "indexRange"} -> entry
          [] e.node = "index" -> index
          [] e.node = "InitializationList" -> list
          [] OTHER -> any
  BY DEF Evaluate
<1>0. any = IF e.node = "functionCall" THEN called ELSE operator
  BY DEF FunctionOf
<1>. HIDE DEF literal, name, called, entry, index, list, operator, any
<1>2. /\ e.node \in DOMAIN LiteralKind => Evaluate(e, rs, s) = literal
      /\ e.node = "identifier" => Evaluate(e, rs, s) = name
      /\ e.node = "functionCall" => Evaluate(e, rs, s) = any
      /\ e.node = "index" => Evaluate(e, rs, s) = index
      /\ e.node = "InitializationList" => Evaluate(e, rs, s) = list
      /\ e.node \notin SpecialNodes => Evaluate(e, rs, s) = any
  BY <1>1, LiteralNodes DEF SpecialNodes
<1>3. e.node \notin SpecialNodes => e.node # "functionCall"
  BY DEF SpecialNodes
<1>4. QED
  BY <1>0, <1>2, <1>3 DEF literal, name, called, index, list, operator

LEMMA ExpressionParts ==
  ASSUME NEW t, ProgramTree(t), NEW n \in Nodes(t), ~Transparent(n.node), NEW s
  PROVE  LET e == Ast(t)[n]
             rs == PartsVisited(e, s)
         IN  /\ Visit(e, s) = Evaluate(e, rs, s)
             /\ e.node = NodeName(n.node) /\ e.name = n.node.token /\ e.number = n.node.number
             /\ DOMAIN e.kids = DOMAIN n.node.kids /\ DOMAIN e.kids \subseteq Nat
             /\ DOMAIN rs = DOMAIN n.node.kids
             /\ \A i \in DOMAIN n.node.kids : rs[i] = Visit(Ast(t)[Under(n, i)], s)
<1>. DEFINE e == Ast(t)[n]
<1>1. Readable(t)
  BY ProgramReadable
<1>2. /\ Flat(e, MaxDepth)
      /\ e.node = NodeName(n.node) /\ e.name = n.node.token /\ e.number = n.node.number
      /\ DOMAIN e.kids = DOMAIN n.node.kids
      /\ \A i \in DOMAIN n.node.kids : e.kids[i] = Ast(t)[Under(n, i)]
  BY <1>1, AstNode
<1>. HIDE DEF e
<1>3. Visit(e, s) = Evaluate(e, PartsVisited(e, s), s)
  BY <1>2, VisitByParts
<1>4. DOMAIN n.node.kids \subseteq Nat
  BY KidsListed
<1>5. DOMAIN PartsVisited(e, s) = DOMAIN n.node.kids /\ \A i \in DOMAIN n.node.kids : PartsVisited(e, s)[i] = Visit(Ast(t)[Under(n, i)], s)
  BY <1>2 DEF PartsVisited
<1>6. QED
  BY <1>2, <1>3, <1>4, <1>5 DEF e

LEMMA NameMeans ==
  ASSUME NEW t, ProgramTree(t), NEW s, Scoped(s), NEW n \in Nodes(t),
         n.node.rule \in DOMAIN LiteralKind \cup {"identifier", "index"}
  PROVE  Means(t, n, s)
<1>. DEFINE e == Ast(t)[n]
            rs == PartsVisited(e, s)
            r == Visit(e, s)
<1>1. ~Transparent(n.node) /\ ~Unmarked(n.node) /\ Undivided(n.node) /\ n.node.rule \notin Operators \cup Lists
  BY LiteralNodes DEF Transparent, Unmarked, Undivided, Operators, Lists
<1>2. /\ r = Evaluate(e, rs, s) /\ e.node = NodeName(n.node) /\ e.name = n.node.token
      /\ e.number = n.node.number /\ DOMAIN rs \subseteq Nat
  BY <1>1, ExpressionParts
<1>3. e.node = n.node.rule
  BY <1>1, <1>2 DEF NodeName, Lists
<1>4. SUFFICES ASSUME r.end = "value" PROVE Agrees(Pair(r.value.term, n.node))
  BY <1>1, ReadsUndivided DEF Means
<1>. HIDE DEF e, rs, r
<1>5. Pair(r.value.term, n.node).term = r.value.term /\ Pair(r.value.term, n.node).tree = n.node
  BY DEF Pair
<1>6. CASE n.node.rule \in DOMAIN LiteralKind
  <2>1. PICK v : r = Found(WithTerm(v, e.number, "literal", <<>>))
    BY <1>2, <1>3, <1>6, EvaluateKinds
  <2>2. r.value.term.of = "literal" /\ r.value.term.number = n.node.number
    BY <1>2, <2>1, AnyTerm, Ends
  <2>3. QED
    BY <1>1, <1>5, <1>6, <2>2, LiteralNodes DEF Agrees
<1>7. CASE n.node.rule = "identifier"
  <2>1. r = IF e.name \in DOMAIN s.names THEN Found(s.names[e.name]) ELSE Error(NoPlace)
    BY <1>2, <1>3, <1>7, EvaluateKinds
  <2>2. r.value.term.of = n.node.token
    BY <1>2, <1>4, <2>1, Ends DEF Scoped
  <2>3. n.node.rule \notin DOMAIN LiteralKind
    BY <1>7, LiteralNodes
  <2>4. QED
    BY <1>1, <1>5, <1>7, <2>2, <2>3 DEF Agrees
<1>8. CASE n.node.rule = "index"
  <2>1. r = Context(IndexEntries(e.name, rs, s), e.at)
    BY <1>2, <1>3, <1>8, EvaluateKinds
  <2>2. r = IndexEntries(e.name, rs, s)
    BY <1>4, <2>1, ContextKeeps
  <2>3. r.value.term.of = n.node.token
    BY <1>2, <1>4, <2>2, IndexValue
  <2>4. n.node.rule \notin DOMAIN LiteralKind
    BY <1>8, LiteralNodes
  <2>5. QED
    BY <1>1, <1>5, <1>8, <2>3, <2>4 DEF Agrees
<1>9. QED
  BY <1>6, <1>7, <1>8

LEMMA PartsMean ==
  ASSUME NEW t, ProgramTree(t), NEW s, Scoped(s), NEW n \in Nodes(t),
         n.node.rule \in Expressions \ (DOMAIN LiteralKind \cup {"identifier", "index"}),
         \A i \in DOMAIN n.node.kids : Means(t, Under(n, i), s)
  PROVE  Means(t, n, s)
<1>. DEFINE e == Ast(t)[n]
            rs == PartsVisited(e, s)
            r == Visit(e, s)
<1>1. CASE Transparent(n.node)
  <2>1. Readable(t) /\ 1 \in DOMAIN n.node.kids
    BY <1>1, ProgramReadable DEF Readable
  <2>2. e = Ast(t)[Under(n, 1)]
    BY <1>1, <2>1, AstSteps DEF AstFrom
  <2>3. Under(n, 1).node = n.node.kids[1]
    BY DEF Under, Standing
  <2>4. Unmarked(n.node)
    BY <1>1 DEF Transparent, Unmarked
  <2>5. QED
    BY <2>1, <2>2, <2>3, <2>4, ReadsUnmarked DEF Means
<1>2. CASE ~Transparent(n.node)
  <2>1. ~Unmarked(n.node) /\ ~Undivided(n.node)
    BY <1>2 DEF Transparent, Unmarked, Undivided
  <2>2. /\ r = Evaluate(e, rs, s) /\ e.node = NodeName(n.node) /\ e.name = n.node.token
        /\ DOMAIN e.kids = DOMAIN n.node.kids /\ DOMAIN e.kids \subseteq Nat
        /\ \A i \in DOMAIN n.node.kids : rs[i] = Visit(Ast(t)[Under(n, i)], s)
    BY <1>2, ExpressionParts
  <2>3. \A i : Under(n, i).node = n.node.kids[i]
    BY DEF Under, Standing
  <2>4. \A i \in DOMAIN n.node.kids : rs[i].end = "value" => Reads(rs[i].value.term, n.node.kids[i])
    BY <2>2, <2>3 DEF Means
  <2>. HIDE DEF e, rs, r
  <2>5. SUFFICES ASSUME r.end = "value"
                 PROVE  /\ r.value.term.of = SignOf(n.node)
                        /\ DOMAIN r.value.term.kids = DOMAIN n.node.kids
                        /\ \A i \in DOMAIN n.node.kids :
                             rs[i].end = "value" /\ r.value.term.kids[i] = rs[i].value.term
    BY <2>1, <2>4, ReadsDivided DEF Means, r, e
  <2>6. ASSUME NEW name, r = Call(name, Placed(e.kids, rs), s), name = SignOf(n.node)
        PROVE  /\ r.value.term.of = SignOf(n.node)
               /\ DOMAIN r.value.term.kids = DOMAIN n.node.kids
               /\ \A i \in DOMAIN n.node.kids :
                    rs[i].end = "value" /\ r.value.term.kids[i] = rs[i].value.term
    <3>. DEFINE ps == Placed(e.kids, rs)
    <3>1. DOMAIN ps = DOMAIN n.node.kids /\ DOMAIN ps \subseteq Nat
      BY <2>2 DEF Placed
    <3>. HIDE DEF ps
    <3>2. Failing(ps) = {} /\ r.value.term.of = name /\ r.value.term.kids = [i \in DOMAIN ps |-> ps[i].value.term]
      BY <2>5, <2>6, <3>1, CallValue DEF ps, Scoped
    <3>3. \A i \in DOMAIN n.node.kids : rs[i].end = "value" /\ ps[i] = rs[i]
      BY <2>2, <3>2, PlacedValues DEF ps
    <3>4. QED
      BY <2>6, <3>1, <3>2, <3>3
  <2>7. CASE n.node.rule \in Operators
    <3>0. n.node.rule \notin {"axisInitializationList", "initializationList"}
      BY <2>7 DEF Operators
    <3>1. e.node = NodeOf(n.node.rule, n.node.token)
      BY <2>2, <2>7, <3>0 DEF NodeName
    <3>2. e.node \notin SpecialNodes
      BY <2>7, <3>1, OperatorNodes
    <3>3. n.node.token \in Signs[n.node.rule]
      BY <2>7 DEF ProgramTree, Grammatical
    <3>4. OperatorOf(e.node) = SignOf(n.node)
      BY <2>1, <2>7, <3>1, <3>3, SignKept
    <3>5. r = Call(OperatorOf(e.node), Placed(e.kids, rs), s)
      BY <2>2, <3>2, EvaluateKinds
    <3>6. QED
      BY <2>6, <3>4, <3>5
  <2>8. CASE n.node.rule = "functionCall"
    <3>1. n.node.rule \notin Operators \cup Lists /\ n.node.rule # "ternaryConditionalExpression"
      BY <2>8 DEF Operators, Lists
    <3>2. e.node = "functionCall" /\ SignOf(n.node) = e.name
      BY <2>2, <2>8, <3>1 DEF NodeName, SignOf, Lists
    <3>3. r = Call(e.name, Placed(e.kids, rs), s)
      BY <2>2, <3>2, EvaluateKinds
    <3>4. QED
      BY <2>6, <3>2, <3>3
  <2>9. CASE n.node.rule \in Lists
    <3>1. n.node.rule \notin Operators
      BY <2>9 DEF Operators, Lists
    <3>2. e.node = "InitializationList" /\ SignOf(n.node) = "list"
      BY <2>2, <2>9, <3>1 DEF NodeName, SignOf, Lists
    <3>. DEFINE ps == Elements(e.kids, rs)
    <3>3. r = ListOutcome(ps)
      BY <2>2, <3>2, EvaluateKinds
    <3>4. DOMAIN ps = DOMAIN n.node.kids
      BY <2>2 DEF Elements
    <3>5. /\ \A i \in DOMAIN ps : ps[i].end = "value"
          /\ r.value.term.of = "list" /\ r.value.term.kids = [i \in DOMAIN ps |-> ps[i].value.term]
      <4>. HIDE DEF ps
      <4>1. QED
        BY <2>5, <3>3, ListValue
    <3>6. \A i \in DOMAIN n.node.kids : rs[i].end = "value" /\ ps[i] = rs[i]
      BY <2>2, <3>4, <3>5, ElementValues
    <3>. HIDE DEF ps
    <3>7. QED
      BY <3>2, <3>4, <3>5, <3>6
  <2>10. n.node.rule # "parensExpression"
    BY <1>2 DEF Transparent
  <2>11. QED
    BY <2>7, <2>8, <2>9, <2>10 DEF Expressions
<1>3. QED
  BY <1>1, <1>2

(* The parts of an expression are expressions, except the entries of an     *)
(* index.                                                                   *)
LEMMA PartsExpressions ==
  ASSUME NEW t, ProgramTree(t), NEW n \in Nodes(t),
         n.node.rule \in Expressions \ {"index"}, NEW i \in DOMAIN n.node.kids
  PROVE  n.node.kids[i].rule \in Expressions
<1>1. Grammatical(n.node)
  BY DEF ProgramTree
<1>2. CASE n.node.rule \in Operators
  BY <1>1, <1>2 DEF Grammatical, Have, Of
<1>3. CASE n.node.rule \in Lists \cup {"functionCall"}
  BY <1>1, <1>3 DEF Grammatical, Of
<1>4. CASE n.node.rule = "parensExpression"
  BY <1>1, <1>4 DEF Grammatical, Have, Of
<1>5. CASE n.node.rule \in DOMAIN LiteralKind \cup {"identifier"}
  BY <1>1, <1>5 DEF Grammatical
<1>6. QED
  BY <1>2, <1>3, <1>4, <1>5 DEF Expressions

(* Every expression means what is written.                                  *)
LEMMA ExpressionsMean ==
  ASSUME NEW t, ProgramTree(t), NEW s, Scoped(s)
  PROVE  \A n \in Nodes(t) : n.node.rule \in Expressions => Means(t, n, s)
<1>. DEFINE P(k) == \A n \in Nodes(t) : n.node.rule \in Expressions /\ Flat(n.node, k) => Means(t, n, s)
            S == {k \in Nat : P(k)}
<1>0. Readable(t)
  BY ProgramReadable
<1>1. ASSUME NEW k \in Nat, NEW n \in Nodes(t), n.node.rule \in Expressions, Flat(n.node, k),
             k = 0 \/ P(k - 1)
      PROVE  Means(t, n, s)
  <2>1. CASE n.node.rule \in DOMAIN LiteralKind \cup {"identifier", "index"}
    BY <2>1, NameMeans
  <2>2. CASE n.node.rule \notin DOMAIN LiteralKind \cup {"identifier", "index"}
    <3>1. ASSUME NEW i \in DOMAIN n.node.kids PROVE Means(t, Under(n, i), s)
      <4>1. k # 0 /\ Flat(n.node.kids[i], k - 1)
        BY <1>1, FlatKid
      <4>2. Under(n, i) \in Nodes(t) /\ Under(n, i).node = n.node.kids[i]
        BY <1>0, FlatClosed DEF Readable, Under, Standing
      <4>3. n.node.kids[i].rule \in Expressions
        BY <1>1, <2>2, PartsExpressions
      <4>4. QED
        BY <1>1, <4>1, <4>2, <4>3
    <3>2. QED
      BY <1>1, <2>2, <3>1, PartsMean
  <2>3. QED
    BY <2>1, <2>2
<1>2. 0 \in S
  BY <1>1
<1>3. ASSUME NEW k \in Nat, k \in S PROVE k + 1 \in S
  <2>1. k + 1 \in Nat /\ (k + 1) - 1 = k
    OBVIOUS
  <2>. HIDE DEF P
  <2>2. QED
    BY <1>1, <1>3, <2>1 DEF P
<1>4. \A k \in Nat : k \in S
  <2>. HIDE DEF S
  <2>1. QED
    BY <1>2, <1>3, Inductive
<1>5. \A n \in Nodes(t) : Flat(n.node, MaxDepth)
  BY <1>0, FlatInside DEF Readable
<1>6. QED
  BY <1>4, <1>5, Depth

-----------------------------------------------------------------------------
(* The kinds of a term, from its parts.                                     *)
LEMMA LeveledByParts ==
  ASSUME NEW term, term.kind = KindWritten(term),
         \A i \in DOMAIN term.kids : Leveled(term.kids[i])
  PROVE  Leveled(term)
<1>1. SUFFICES ASSUME NEW n \in Nodes(term) PROVE n.node.kind = KindWritten(n.node)
  BY DEF Leveled
<1>2. PICK d \in 0 .. MaxDepth : n \in LevelsOf(term)[d]
  BY DEF Nodes
<1>3. n.node \in NodesAt(term, d)
  BY <1>2 DEF NodesAt
<1>4. CASE d = 0
  BY <1>3, <1>4, LevelZero
<1>5. CASE d # 0
  <2>1. PICK c \in Nat : d = c + 1 /\ c \in 0 .. MaxDepth
    <3>1. d - 1 \in Nat /\ d = (d - 1) + 1 /\ d - 1 \in 0 .. MaxDepth
      BY <1>5, Depth
    <3>2. QED
      BY <3>1
  <2>2. PICK x \in KidsOf(term) : n.node \in NodesAt(x, c)
    BY <1>3, <2>1, LevelsOfKids
  <2>3. PICK m \in LevelsOf(x)[c] : m.node = n.node
    BY <2>2 DEF NodesAt
  <2>4. m \in Nodes(x)
    BY <2>1, <2>3 DEF Nodes
  <2>5. Leveled(x)
    BY <2>2 DEF KidsOf
  <2>6. QED
    BY <2>3, <2>4, <2>5 DEF Leveled
<1>6. QED
  BY <1>4, <1>5

(* The names of the functions with an implementation.                       *)
Mixing   == {"+", "-", "*", "/", "abs"}
Whole    == {"%", "~", "&", "|", "^", "<<", ">>"}
Deciding == {"!", "&&", "||", "^^", "==", "!=", ">=", ">", "<=", "<"}
Real     == {"**", "sqrt", "exp", "log", "sin", "cos", "tan", "sinh", "cosh", "tanh", "asin",
             "acos", "atan", "asinh", "acosh", "atanh"}

LEMMA NamesOfTables ==
  /\ ToSet(Comparisons) = {"==", "!=", ">=", ">", "<=", "<"}
  /\ {"**"} \cup ToSet(RealFunctions) = Real
<1>1. ToSet(Comparisons) = {"==", "!=", ">=", ">", "<=", "<"}
  BY DEF ToSet, Comparisons
<1>2. ToSet(RealFunctions) =
        {"sqrt", "exp", "log", "sin", "cos", "tan", "sinh", "cosh", "tanh", "asin",
         "acos", "atan", "asinh", "acosh", "atanh"}
  BY DEF ToSet, RealFunctions
<1>3. QED
  BY <1>1, <1>2 DEF Real

LEMMA KindCases ==
  ASSUME NEW term
  PROVE  /\ term.node # "const" => KindWritten(term) = term.kind
         /\ term.of \notin Mixing \cup Whole \cup Deciding \cup Real \cup {"?:"} =>
              KindWritten(term) = term.kind
         /\ term.node = "const" /\ term.of \in Whole => KindWritten(term) = "int"
         /\ term.node = "const" /\ term.of \in Deciding => KindWritten(term) = "bool"
         /\ term.node = "const" /\ term.of \in Real => KindWritten(term) = "float"
         /\ term.node = "const" /\ term.of = "?:" =>
              KindWritten(term) = Highest({term.kids[2].kind, term.kids[3].kind})
         /\ term.node = "const" /\ term.of \in Mixing =>
              KindWritten(term) = Highest({term.kids[i].kind : i \in DOMAIN term.kids} \cup {"int"})
<1>. DEFINE mixed == Highest({term.kids[i].kind : i \in DOMAIN term.kids} \cup {"int"})
            chosen == Highest({term.kids[2].kind, term.kids[3].kind})
<1>1. {"!", "&&", "||", "^^"} \cup ToSet(Comparisons) = Deciding
  BY NamesOfTables DEF Deciding
<1>2. KindWritten(term) =
        IF term.node # "const" THEN term.kind
        ELSE CASE term.of \in Mixing -> mixed
               [] term.of = "?:" -> chosen
               [] term.of \in Whole -> "int"
               [] term.of \in Deciding -> "bool"
               [] term.of \in Real -> "float"
               [] OTHER -> term.kind
  BY <1>1, NamesOfTables DEF KindWritten, Mixing, Whole
<1>3. /\ term.of \in Whole    => term.of \notin Mixing /\ term.of # "?:"
      /\ term.of \in Deciding => term.of \notin Mixing /\ term.of # "?:" /\ term.of \notin Whole
      /\ term.of \in Real     => term.of \notin Mixing /\ term.of # "?:" /\ term.of \notin Whole
                                 /\ term.of \notin Deciding
      /\ "?:" \notin Mixing
  BY DEF Mixing, Whole, Deciding, Real
<1>. HIDE DEF mixed, chosen
<1>a. term.node # "const" => KindWritten(term) = term.kind
  BY <1>2
<1>b. term.of \notin Mixing \cup Whole \cup Deciding \cup Real \cup {"?:"} =>
        KindWritten(term) = term.kind
  <2>1. SUFFICES ASSUME term.of \notin Mixing, term.of \notin Whole, term.of \notin Deciding,
                        term.of \notin Real, term.of # "?:"
                 PROVE  KindWritten(term) = term.kind
    OBVIOUS
  <2>2. QED
    BY <1>2, <2>1
<1>c. term.node = "const" /\ term.of \in Whole => KindWritten(term) = "int"
  BY <1>2, <1>3
<1>d. term.node = "const" /\ term.of \in Deciding => KindWritten(term) = "bool"
  BY <1>2, <1>3
<1>e. term.node = "const" /\ term.of \in Real => KindWritten(term) = "float"
  BY <1>2, <1>3
<1>f. term.node = "const" /\ term.of = "?:" => KindWritten(term) = chosen
  <2>1. "?:" \notin Whole /\ "?:" \notin Deciding /\ "?:" \notin Real
    BY DEF Whole, Deciding, Real
  <2>2. QED
    BY <1>2, <1>3, <2>1
<1>g. term.node = "const" /\ term.of \in Mixing => KindWritten(term) = mixed
  BY <1>2, <1>3
<1>5. QED
  BY <1>a, <1>b, <1>c, <1>d, <1>e, <1>f, <1>g DEF mixed, chosen

-----------------------------------------------------------------------------
(* The overload that must come after one, and so be tried before it.        *)
Lesser(f) ==
  IF f.name = "?:"
  THEN IF f.result = "float"
       THEN [name |-> "?:", params |-> <<"bool", "int", "int">>, result |-> "int"]
       ELSE [name |-> "?:", params |-> <<"bool", "bool", "bool">>, result |-> "bool"]
  ELSE [name |-> f.name, params |-> [i \in DOMAIN f.params |-> "int"], result |-> "int"]

HasLesser(f) ==
  \/ f.name \in Mixing /\ f.result = "float"
  \/ f.name = "?:" /\ f.result # "bool"

Proper(f) ==
  /\ f.name \in Mixing \cup Whole \cup Deciding \cup Real \cup {"?:"}
  /\ \E n \in Nat : DOMAIN f.params = 1 .. n /\ Len(f.params) = n
  /\ f.name \in Mixing => f.result \in {"float", "int"} /\ \A i \in DOMAIN f.params : f.params[i] = f.result
  /\ f.name = "?:" => /\ Len(f.params) = 3 /\ f.result \in {"float", "int", "bool"}
                      /\ f.params[1] = "bool" /\ f.params[2] = f.result /\ f.params[3] = f.result
  /\ f.name \in Whole => f.result = "int"
  /\ f.name \in Deciding => f.result = "bool"
  /\ f.name \in Real => f.result = "float"

(* A table but for what comes yet.                                          *)
Sorted(table, due) ==
  /\ IsList(table)
  /\ \A k \in DOMAIN table :
       /\ Proper(table[k])
       /\ HasLesser(table[k]) => Lesser(table[k]) \in due
                                 \/ \E m \in DOMAIN table : m > k /\ table[m] = Lesser(table[k])

LEMMA Sorting ==
  ASSUME NEW table, NEW due, Sorted(table, due), NEW names, NEW n \in Nat, Len(names) = n,
         DOMAIN names = 1 .. n, NEW params, NEW returns, NEW more,
         \A i \in 1 .. n : LET f == [name |-> names[i], params |-> params, result |-> returns] IN
           Proper(f) /\ (HasLesser(f) => Lesser(f) \in more),
         \A g \in due : g \in more \/
           \E i \in 1 .. n : g = [name |-> names[i], params |-> params, result |-> returns]
  PROVE  Sorted(table \o Overloads(names, params, returns), more)
<1>. DEFINE added == Overloads(names, params, returns)
            f(i) == [name |-> names[i], params |-> params, result |-> returns]
            whole == table \o added
            S == {table[i] : i \in DOMAIN table} \cup {f(i) : i \in 1 .. n}
<1>0. added = [i \in 1 .. n |-> f(i)]
  BY DEF Overloads
<1>. HIDE DEF f, added
<1>1. /\ table \in Seq(S) /\ Len(table) \in Nat /\ DOMAIN table = 1 .. Len(table)
  <2>1. Len(table) \in Nat /\ DOMAIN table = 1 .. Len(table) /\ table = [i \in 1 .. Len(table) |-> table[i]]
    BY DEF Sorted, IsList
  <2>2. \A i \in 1 .. Len(table) : table[i] \in S
    BY <2>1
  <2>. HIDE DEF S
  <2>3. QED
    BY <2>1, <2>2
<1>2. added \in Seq(S) /\ Len(added) = n /\ \A i \in 1 .. n : added[i] = f(i)
  <2>1. \A i \in 1 .. n : f(i) \in S
    OBVIOUS
  <2>. HIDE DEF S
  <2>2. QED
    BY <1>0, <2>1
<1>3. /\ whole \in Seq(S) /\ Len(whole) = Len(table) + n /\ DOMAIN whole = 1 .. Len(table) + n
      /\ \A i \in DOMAIN table : i \in DOMAIN whole /\ whole[i] = table[i]
      /\ \A i \in 1 .. n : Len(table) + i \in DOMAIN whole /\ whole[Len(table) + i] = f(i)
  <2>. HIDE DEF S
  <2>1. QED
    BY <1>1, <1>2
<1>4. IsList(whole)
  <2>. DEFINE Members == {whole[i] : i \in DOMAIN whole}
  <2>0. 1 .. Len(whole) = DOMAIN whole
    BY <1>1, <1>3
  <2>1. \A i \in 1 .. Len(whole) : whole[i] \in Members
    <3>. HIDE DEF whole
    <3>1. QED
      BY <2>0
  <2>2. whole = [i \in 1 .. Len(whole) |-> whole[i]] /\ Len(whole) \in Nat
    <3>1. Len(whole) \in Nat
      BY <1>1, <1>3
    <3>. HIDE DEF whole, S
    <3>2. QED
      BY <1>3, <3>1
  <2>. HIDE DEF Members, whole
  <2>3. whole \in Seq(Members)
    BY <2>1, <2>2
  <2>4. QED
    BY <2>3 DEF IsList, W
<1>. HIDE DEF whole, S
<1>5. ASSUME NEW g \in due PROVE g \in more \/ \E m \in DOMAIN whole : m > Len(table) /\ whole[m] = g
  <2>1. CASE g \in more
    BY <2>1
  <2>2. CASE g \notin more
    <3>1. PICK i \in 1 .. n : g = f(i)
      BY <2>2 DEF f
    <3>2. Len(table) + i > Len(table)
      BY <1>1
    <3>3. QED
      BY <1>3, <3>1, <3>2
  <2>3. QED
    BY <2>1, <2>2
<1>6. ASSUME NEW k \in DOMAIN whole
      PROVE  /\ Proper(whole[k])
             /\ HasLesser(whole[k]) => Lesser(whole[k]) \in more
                                       \/ \E m \in DOMAIN whole : m > k /\ whole[m] = Lesser(whole[k])
  <2>1. CASE k \in DOMAIN table
    <3>1. Proper(table[k]) /\ whole[k] = table[k]
      BY <1>3, <2>1 DEF Sorted
    <3>2. SUFFICES ASSUME HasLesser(table[k]), Lesser(table[k]) \notin more
                   PROVE  \E m \in DOMAIN whole : m > k /\ whole[m] = Lesser(table[k])
      BY <3>1
    <3>3. CASE Lesser(table[k]) \in due
      <4>1. PICK m \in DOMAIN whole : m > Len(table) /\ whole[m] = Lesser(table[k])
        BY <1>5, <3>2, <3>3
      <4>2. m > k
        BY <1>1, <1>3, <2>1, <4>1
      <4>3. QED
        BY <4>1, <4>2
    <3>4. CASE Lesser(table[k]) \notin due
      <4>1. PICK m \in DOMAIN table : m > k /\ table[m] = Lesser(table[k])
        BY <2>1, <3>2, <3>4 DEF Sorted
      <4>2. QED
        BY <1>3, <4>1
    <3>5. QED
      BY <3>3, <3>4
  <2>2. CASE k \notin DOMAIN table
    <3>1. k - Len(table) \in 1 .. n /\ k = Len(table) + (k - Len(table))
      BY <1>1, <1>3, <2>2
    <3>2. PICK i \in 1 .. n : whole[k] = f(i)
      BY <1>3, <3>1
    <3>3. QED
      BY <3>2 DEF f
  <2>3. QED
    BY <2>1, <2>2
<1>7. QED
  BY <1>4, <1>6 DEF Sorted, whole, added

-----------------------------------------------------------------------------
(* The kinds of overloads there are.                                        *)
Made(name, params, returns) == [name |-> name, params |-> params, result |-> returns]

Alike(kind, n) == [i \in 1 .. n |-> kind]

Lengthy(params) == \E n \in Nat : DOMAIN params = 1 .. n /\ Len(params) = n

LEMMA Parameters ==
  /\ <<"float">> = Alike("float", 1) /\ <<"int">> = Alike("int", 1) /\ <<"bool">> = Alike("bool", 1)
  /\ FF = Alike("float", 2) /\ II = Alike("int", 2) /\ BB = Alike("bool", 2)
  /\ \A kind : \A n \in Nat : Lengthy(Alike(kind, n)) /\ DOMAIN Alike(kind, n) = 1 .. n
  /\ \A kind : Lengthy(<<"bool", kind, kind>>) /\ Len(<<"bool", kind, kind>>) = 3
<1>1. /\ <<"float">> = Alike("float", 1) /\ <<"int">> = Alike("int", 1) /\ <<"bool">> = Alike("bool", 1)
  BY DEF Alike
<1>2. FF = Alike("float", 2) /\ II = Alike("int", 2) /\ BB = Alike("bool", 2)
  BY DEF Alike, FF, II, BB
<1>3. ASSUME NEW kind, NEW n \in Nat PROVE Lengthy(Alike(kind, n)) /\ DOMAIN Alike(kind, n) = 1 .. n
  <2>1. DOMAIN Alike(kind, n) = 1 .. n /\ Alike(kind, n) \in Seq({kind})
    BY DEF Alike
  <2>2. Len(Alike(kind, n)) = n
    BY <2>1
  <2>3. QED
    BY <2>1, <2>2 DEF Lengthy
<1>4. \A kind : Lengthy(<<"bool", kind, kind>>) /\ Len(<<"bool", kind, kind>>) = 3
  BY DEF Lengthy
<1>5. QED
  BY <1>1, <1>2, <1>3, <1>4

LEMMA NamesApart ==
  /\ \A name \in Mixing   : name \notin Whole /\ name \notin Deciding /\ name \notin Real /\ name # "?:"
  /\ \A name \in Whole    : name \notin Mixing /\ name \notin Deciding /\ name \notin Real /\ name # "?:"
  /\ \A name \in Deciding : name \notin Mixing /\ name \notin Whole /\ name \notin Real /\ name # "?:"
  /\ \A name \in Real     : name \notin Mixing /\ name \notin Whole /\ name \notin Deciding /\ name # "?:"
  /\ "?:" \notin Mixing /\ "?:" \notin Whole /\ "?:" \notin Deciding /\ "?:" \notin Real
<1>1. \A name \in Mixing : name \notin Whole /\ name \notin Deciding /\ name \notin Real /\ name # "?:"
  BY DEF Mixing, Whole, Deciding, Real
<1>2. \A name \in Whole : name \notin Mixing /\ name \notin Deciding /\ name \notin Real /\ name # "?:"
  BY DEF Mixing, Whole, Deciding, Real
<1>3. \A name \in Deciding : name \notin Mixing /\ name \notin Whole /\ name \notin Real /\ name # "?:"
  BY DEF Mixing, Whole, Deciding, Real
<1>4. \A name \in Real : name \notin Mixing /\ name \notin Whole /\ name \notin Deciding /\ name # "?:"
  BY DEF Mixing, Whole, Deciding, Real
<1>5. "?:" \notin Mixing /\ "?:" \notin Whole /\ "?:" \notin Deciding /\ "?:" \notin Real
  BY DEF Mixing, Whole, Deciding, Real
<1>6. QED
  BY <1>1, <1>2, <1>3, <1>4, <1>5

LEMMA MadeFields ==
  ASSUME NEW name, NEW params, NEW returns
  PROVE  /\ Made(name, params, returns).name = name
         /\ Made(name, params, returns).params = params
         /\ Made(name, params, returns).result = returns
BY DEF Made

LEMMA SteadyMade ==
  ASSUME NEW params, Lengthy(params), NEW name
  PROVE  /\ name \in Whole => Proper(Made(name, params, "int")) /\ ~HasLesser(Made(name, params, "int"))
         /\ name \in Deciding =>
              Proper(Made(name, params, "bool")) /\ ~HasLesser(Made(name, params, "bool"))
         /\ name \in Real =>
              Proper(Made(name, params, "float")) /\ ~HasLesser(Made(name, params, "float"))
<1>1. ASSUME name \in Whole
      PROVE  Proper(Made(name, params, "int")) /\ ~HasLesser(Made(name, params, "int"))
  <2>1. name \notin Mixing /\ name \notin Deciding /\ name \notin Real /\ name # "?:"
    BY <1>1, NamesApart
  <2>2. QED
    BY <1>1, <2>1, MadeFields DEF Proper, HasLesser, Lengthy
<1>2. ASSUME name \in Deciding
      PROVE  Proper(Made(name, params, "bool")) /\ ~HasLesser(Made(name, params, "bool"))
  <2>1. name \notin Mixing /\ name \notin Whole /\ name \notin Real /\ name # "?:"
    BY <1>2, NamesApart
  <2>2. QED
    BY <1>2, <2>1, MadeFields DEF Proper, HasLesser, Lengthy
<1>3. ASSUME name \in Real
      PROVE  Proper(Made(name, params, "float")) /\ ~HasLesser(Made(name, params, "float"))
  <2>1. name \notin Mixing /\ name \notin Deciding /\ name \notin Whole /\ name # "?:"
    BY <1>3, NamesApart
  <2>2. QED
    BY <1>3, <2>1, MadeFields DEF Proper, HasLesser, Lengthy
<1>4. QED
  BY <1>1, <1>2, <1>3

LEMMA MixingMade ==
  ASSUME NEW name \in Mixing, NEW n \in Nat
  PROVE  /\ Proper(Made(name, Alike("int", n), "int")) /\ ~HasLesser(Made(name, Alike("int", n), "int"))
         /\ Proper(Made(name, Alike("float", n), "float"))
         /\ Lesser(Made(name, Alike("float", n), "float")) = Made(name, Alike("int", n), "int")
<1>1. name \notin Whole /\ name \notin Deciding /\ name \notin Real /\ name # "?:"
  BY NamesApart
<1>2. /\ \A i \in DOMAIN Alike("int", n) : Alike("int", n)[i] = "int"
      /\ \A i \in DOMAIN Alike("float", n) : Alike("float", n)[i] = "float"
  BY DEF Alike
<1>3. /\ Proper(Made(name, Alike("int", n), "int")) /\ ~HasLesser(Made(name, Alike("int", n), "int"))
  BY <1>1, <1>2, MadeFields, Parameters DEF Proper, HasLesser, Lengthy
<1>4. Proper(Made(name, Alike("float", n), "float"))
  BY <1>1, <1>2, MadeFields, Parameters DEF Proper, Lengthy
<1>5. Lesser(Made(name, Alike("float", n), "float")) = Made(name, Alike("int", n), "int")
  <2>1. [i \in DOMAIN Alike("float", n) |-> "int"] = Alike("int", n)
    BY Parameters DEF Alike
  <2>2. QED
    BY <1>1, <2>1, MadeFields DEF Lesser, Made
<1>6. QED
  BY <1>3, <1>4, <1>5

LEMMA ChoiceMade ==
  LET choice(kind) == Made("?:", <<"bool", kind, kind>>, kind) IN
  /\ \A kind \in {"float", "int", "bool"} : Proper(choice(kind))
  /\ ~HasLesser(choice("bool"))
  /\ Lesser(choice("float")) = choice("int") /\ Lesser(choice("int")) = choice("bool")
<1>. DEFINE choice(kind) == Made("?:", <<"bool", kind, kind>>, kind)
<1>1. ASSUME NEW kind \in {"float", "int", "bool"} PROVE Proper(choice(kind))
  <2>1. /\ <<"bool", kind, kind>>[1] = "bool" /\ <<"bool", kind, kind>>[2] = kind
        /\ <<"bool", kind, kind>>[3] = kind
    OBVIOUS
  <2>2. QED
    <3>. DEFINE params == <<"bool", kind, kind>>
    <3>1. Lengthy(params) /\ Len(params) = 3 /\ params[1] = "bool" /\ params[2] = kind /\ params[3] = kind
      BY <2>1, Parameters
    <3>. HIDE DEF params
    <3>2. /\ Made("?:", params, kind).name = "?:" /\ Made("?:", params, kind).params = params
          /\ Made("?:", params, kind).result = kind
      BY MadeFields
    <3>. DEFINE f == Made("?:", params, kind)
    <3>. HIDE DEF f
    <3>4. /\ f.name = "?:" /\ f.params = params /\ f.result = kind
      BY <3>2 DEF f
    <3>5. /\ f.name \notin Mixing /\ f.name \notin Whole /\ f.name \notin Deciding
          /\ f.name \notin Real
      BY <3>4, NamesApart
    <3>6. Proper(f)
      BY <3>1, <3>4, <3>5 DEF Proper, Lengthy
    <3>3. QED
      BY <3>6 DEF params, f
<1>2. ~HasLesser(choice("bool"))
  BY MadeFields, NamesApart DEF HasLesser
<1>3. Lesser(choice("float")) = choice("int") /\ Lesser(choice("int")) = choice("bool")
  BY MadeFields DEF Lesser, Made
<1>4. QED
  BY <1>1, <1>2, <1>3

(* Sorting, for the overloads of one list of names.                         *)
Suits(f, more) == Proper(f) /\ (HasLesser(f) => Lesser(f) \in more)

Adding(names, n, params, returns, due, more) ==
  /\ Len(names) = n /\ DOMAIN names = 1 .. n
  /\ \A i \in 1 .. n : Suits(Made(names[i], params, returns), more)
  /\ \A g \in due : g \in more \/ \E i \in 1 .. n : g = Made(names[i], params, returns)

LEMMA SortedStep ==
  ASSUME NEW table, NEW due, Sorted(table, due), NEW names, NEW n \in Nat, NEW params, NEW returns,
         NEW more, Adding(names, n, params, returns, due, more)
  PROVE  Sorted(table \o Overloads(names, params, returns), more)
BY Sorting DEF Made, Adding, Suits

(* The lists of overloads that the table is made of.                        *)
LEMMA SteadyAdded ==
  ASSUME NEW table, Sorted(table, {}), NEW names, NEW n \in Nat, Len(names) = n,
         DOMAIN names = 1 .. n, NEW params, Lengthy(params), NEW returns,
         \/ returns = "int" /\ \A i \in 1 .. n : names[i] \in Whole
         \/ returns = "bool" /\ \A i \in 1 .. n : names[i] \in Deciding
         \/ returns = "float" /\ \A i \in 1 .. n : names[i] \in Real
  PROVE  Sorted(table \o Overloads(names, params, returns), {})
<1>1. ASSUME NEW i \in 1 .. n PROVE Suits(Made(names[i], params, returns), {})
  BY SteadyMade DEF Suits
<1>2. Adding(names, n, params, returns, {}, {})
  BY <1>1 DEF Adding
<1>3. QED
  BY <1>2, SortedStep

LEMMA FloatAdded ==
  ASSUME NEW table, Sorted(table, {}), NEW name \in Mixing, NEW n \in Nat
  PROVE  Sorted(table \o Overloads(<<name>>, Alike("float", n), "float"),
                {Made(name, Alike("int", n), "int")})
<1>. DEFINE more == {Made(name, Alike("int", n), "int")}
            names == <<name>>
<1>1. Len(names) = 1 /\ DOMAIN names = 1 .. 1 /\ \A i \in 1 .. 1 : names[i] = name
  OBVIOUS
<1>2. Suits(Made(name, Alike("float", n), "float"), more)
  BY MixingMade DEF Suits
<1>. HIDE DEF names, more
<1>3. Adding(names, 1, Alike("float", n), "float", {}, more)
  BY <1>1, <1>2 DEF Adding
<1>4. QED
  BY <1>3, SortedStep DEF names, more

LEMMA IntAdded ==
  ASSUME NEW table, NEW name \in Mixing, NEW n \in Nat, NEW due,
         due = {Made(name, Alike("int", n), "int")}, Sorted(table, due),
         NEW names, NEW m \in Nat, Len(names) = m, DOMAIN names = 1 .. m,
         \E i \in 1 .. m : names[i] = name, \A i \in 1 .. m : names[i] \in Mixing \cup Whole
  PROVE  Sorted(table \o Overloads(names, Alike("int", n), "int"), {})
<1>1. ASSUME NEW i \in 1 .. m PROVE Suits(Made(names[i], Alike("int", n), "int"), {})
  <2>1. CASE names[i] \in Mixing
    BY <2>1, MixingMade DEF Suits
  <2>2. CASE names[i] \in Whole
    BY <2>2, SteadyMade, Parameters DEF Suits
  <2>3. QED
    BY <2>1, <2>2
<1>2. \A g \in due : \E i \in 1 .. m : g = Made(names[i], Alike("int", n), "int")
  OBVIOUS
<1>3. Adding(names, m, Alike("int", n), "int", due, {})
  BY <1>1, <1>2 DEF Adding
<1>4. QED
  BY <1>3, SortedStep

LEMMA ChoiceAdded ==
  ASSUME NEW table, NEW kind \in {"float", "int", "bool"}, NEW due,
         due \subseteq {Made("?:", <<"bool", kind, kind>>, kind)}, Sorted(table, due), NEW more,
         HasLesser(Made("?:", <<"bool", kind, kind>>, kind)) =>
           Lesser(Made("?:", <<"bool", kind, kind>>, kind)) \in more
  PROVE  Sorted(table \o Overloads(<<"?:">>, <<"bool", kind, kind>>, kind), more)
<1>. DEFINE names == <<"?:">>
            params == <<"bool", kind, kind>>
<1>1. Len(names) = 1 /\ DOMAIN names = 1 .. 1 /\ \A i \in 1 .. 1 : names[i] = "?:"
  OBVIOUS
<1>2. Suits(Made("?:", params, kind), more)
  BY ChoiceMade DEF Suits
<1>3. \A g \in due : g = Made("?:", params, kind)
  OBVIOUS
<1>. HIDE DEF names, params
<1>4. Adding(names, 1, params, kind, due, more)
  BY <1>1, <1>2, <1>3 DEF Adding
<1>5. QED
  BY <1>4, SortedStep DEF names, params

LEMMA RealAdded ==
  ASSUME NEW table, Sorted(table, {})
  PROVE  Sorted(table \o Overloads(RealFunctions \o <<"abs">>, <<"float">>, "float"),
                {Made("abs", Alike("int", 1), "int")})
<1>. DEFINE names == RealFunctions \o <<"abs">>
            params == <<"float">>
            more == {Made("abs", Alike("int", 1), "int")}
<1>1. Len(names) = 16 /\ DOMAIN names = 1 .. 16
  BY DEF RealFunctions
<1>2. "abs" \in Mixing /\ \A i \in 1 .. 16 : names[i] \in Real \/ names[i] = "abs"
  BY DEF Mixing, Real, RealFunctions
<1>3. params = Alike("float", 1) /\ Lengthy(params)
  BY Parameters
<1>4. \A i \in 1 .. 16 : Suits(Made(names[i], params, "float"), more)
  <2>1. ASSUME NEW name, name \in Real \/ name = "abs" PROVE Suits(Made(name, params, "float"), more)
    BY <1>2, <1>3, <2>1, MixingMade, SteadyMade DEF Suits
  <2>. HIDE DEF names, params, more
  <2>2. QED
    BY <1>2, <2>1
<1>. HIDE DEF names, params, more
<1>5. Adding(names, 16, params, "float", {}, more)
  BY <1>1, <1>4 DEF Adding
<1>6. QED
  BY <1>5, SortedStep DEF names, params, more

(* The table of functions tries the overload that promotes least first.     *)
LEMMA DefaultsSorted == Sorted(DefaultFunctions, {})
<1>. DEFINE t1 == Overloads(<<"-">>, <<"float">>, "float")
            t2 == t1 \o Overloads(<<"-">>, <<"int">>, "int")
            t3 == t2 \o Overloads(<<"+">>, FF, "float")
            t4 == t3 \o Overloads(<<"+">>, II, "int")
            t5 == t4 \o Overloads(<<"-">>, FF, "float")
            t6 == t5 \o Overloads(<<"-">>, II, "int")
            t7 == t6 \o Overloads(<<"*">>, FF, "float")
            t8 == t7 \o Overloads(<<"*">>, II, "int")
            t9 == t8 \o Overloads(<<"/">>, FF, "float")
            t10 == t9 \o Overloads(<<"/", "%">>, II, "int")
            t11 == t10 \o Overloads(<<"**">>, FF, "float")
            t12 == t11 \o Overloads(Comparisons, FF, "bool")
            t13 == t12 \o Overloads(Comparisons, II, "bool")
            t14 == t13 \o Overloads(Comparisons, BB, "bool")
            t15 == t14 \o Overloads(<<"~">>, <<"int">>, "int")
            t16 == t15 \o Overloads(<<"&", "^", "|", "<<", ">>">>, II, "int")
            t17 == t16 \o Overloads(<<"!">>, <<"bool">>, "bool")
            t18 == t17 \o Overloads(<<"&&", "^^", "||">>, BB, "bool")
            t19 == t18 \o Overloads(<<"?:">>, <<"bool", "float", "float">>, "float")
            t20 == t19 \o Overloads(<<"?:">>, <<"bool", "int", "int">>, "int")
            t21 == t20 \o Overloads(<<"?:">>, <<"bool", "bool", "bool">>, "bool")
            t22 == t21 \o Overloads(RealFunctions \o <<"abs">>, <<"float">>, "float")
            t23 == t22 \o Overloads(<<"abs">>, <<"int">>, "int")
<1>1. Sorted(<<>>, {})
  BY DEF Sorted, IsList
<1>2. Sorted(t1, {Made("-", Alike("int", 1), "int")})
  <2>1. "-" \in Mixing /\ <<"float">> = Alike("float", 1)
    BY Parameters DEF Mixing
  <2>2. <<>> \o t1 = t1
    BY DEF Overloads
  <2>3. QED
    BY <1>1, <2>1, FloatAdded, <2>2
<1>3. Sorted(t2, {})
  <2>. DEFINE names == <<"-">>
  <2>1. /\ "-" \in Mixing /\ <<"int">> = Alike("int", 1)
        /\ Len(names) = 1 /\ DOMAIN names = 1 .. 1 /\ names[1] = "-"
        /\ \A i \in 1 .. 1 : names[i] \in Mixing \cup Whole
    BY Parameters DEF Mixing, Whole
  <2>. HIDE DEF names, t1
  <2>2. \E i \in 1 .. 1 : names[i] = "-"
    BY <2>1
  <2>3. QED
    BY <1>2, <2>1, <2>2, IntAdded DEF names
<1>4. Sorted(t3, {Made("+", Alike("int", 2), "int")})
  <2>1. "+" \in Mixing /\ FF = Alike("float", 2)
    BY Parameters DEF Mixing
  <2>. HIDE DEF t2
  <2>2. QED
    BY <1>3, <2>1, FloatAdded
<1>5. Sorted(t4, {})
  <2>. DEFINE names == <<"+">>
  <2>1. /\ "+" \in Mixing /\ II = Alike("int", 2)
        /\ Len(names) = 1 /\ DOMAIN names = 1 .. 1 /\ names[1] = "+"
        /\ \A i \in 1 .. 1 : names[i] \in Mixing \cup Whole
    BY Parameters DEF Mixing, Whole
  <2>. HIDE DEF names, t3
  <2>2. \E i \in 1 .. 1 : names[i] = "+"
    BY <2>1
  <2>3. QED
    BY <1>4, <2>1, <2>2, IntAdded DEF names
<1>6. Sorted(t5, {Made("-", Alike("int", 2), "int")})
  <2>1. "-" \in Mixing /\ FF = Alike("float", 2)
    BY Parameters DEF Mixing
  <2>. HIDE DEF t4
  <2>2. QED
    BY <1>5, <2>1, FloatAdded
<1>7. Sorted(t6, {})
  <2>. DEFINE names == <<"-">>
  <2>1. /\ "-" \in Mixing /\ II = Alike("int", 2)
        /\ Len(names) = 1 /\ DOMAIN names = 1 .. 1 /\ names[1] = "-"
        /\ \A i \in 1 .. 1 : names[i] \in Mixing \cup Whole
    BY Parameters DEF Mixing, Whole
  <2>. HIDE DEF names, t5
  <2>2. \E i \in 1 .. 1 : names[i] = "-"
    BY <2>1
  <2>3. QED
    BY <1>6, <2>1, <2>2, IntAdded DEF names
<1>8. Sorted(t7, {Made("*", Alike("int", 2), "int")})
  <2>1. "*" \in Mixing /\ FF = Alike("float", 2)
    BY Parameters DEF Mixing
  <2>. HIDE DEF t6
  <2>2. QED
    BY <1>7, <2>1, FloatAdded
<1>9. Sorted(t8, {})
  <2>. DEFINE names == <<"*">>
  <2>1. /\ "*" \in Mixing /\ II = Alike("int", 2)
        /\ Len(names) = 1 /\ DOMAIN names = 1 .. 1 /\ names[1] = "*"
        /\ \A i \in 1 .. 1 : names[i] \in Mixing \cup Whole
    BY Parameters DEF Mixing, Whole
  <2>. HIDE DEF names, t7
  <2>2. \E i \in 1 .. 1 : names[i] = "*"
    BY <2>1
  <2>3. QED
    BY <1>8, <2>1, <2>2, IntAdded DEF names
<1>10. Sorted(t9, {Made("/", Alike("int", 2), "int")})
  <2>1. "/" \in Mixing /\ FF = Alike("float", 2)
    BY Parameters DEF Mixing
  <2>. HIDE DEF t8
  <2>2. QED
    BY <1>9, <2>1, FloatAdded
<1>11. Sorted(t10, {})
  <2>. DEFINE names == <<"/", "%">>
  <2>1. /\ "/" \in Mixing /\ II = Alike("int", 2)
        /\ Len(names) = 2 /\ DOMAIN names = 1 .. 2 /\ names[1] = "/"
        /\ \A i \in 1 .. 2 : names[i] \in Mixing \cup Whole
    BY Parameters DEF Mixing, Whole
  <2>. HIDE DEF names, t9
  <2>2. \E i \in 1 .. 2 : names[i] = "/"
    BY <2>1
  <2>3. QED
    BY <1>10, <2>1, <2>2, IntAdded DEF names
<1>12. Sorted(t11, {})
  <2>1. Len(<<"**">>) = 1 /\ DOMAIN <<"**">> = 1 .. 1 /\ \A i \in 1 .. 1 : <<"**">>[i] \in Real
    BY DEF Real
  <2>. HIDE DEF t10
  <2>2. Lengthy(FF)
    BY Parameters
  <2>3. QED
    BY <1>11, <2>1, <2>2, SteadyAdded
<1>13. Sorted(t12, {})
  <2>1. Len(Comparisons) = 6 /\ DOMAIN Comparisons = 1 .. 6 /\ \A i \in 1 .. 6 : Comparisons[i] \in Deciding
    BY DEF Deciding, Comparisons
  <2>. HIDE DEF t11
  <2>2. Lengthy(FF)
    BY Parameters
  <2>3. QED
    BY <1>12, <2>1, <2>2, SteadyAdded
<1>14. Sorted(t13, {})
  <2>1. Len(Comparisons) = 6 /\ DOMAIN Comparisons = 1 .. 6 /\ \A i \in 1 .. 6 : Comparisons[i] \in Deciding
    BY DEF Deciding, Comparisons
  <2>. HIDE DEF t12
  <2>2. Lengthy(II)
    BY Parameters
  <2>3. QED
    BY <1>13, <2>1, <2>2, SteadyAdded
<1>15. Sorted(t14, {})
  <2>1. Len(Comparisons) = 6 /\ DOMAIN Comparisons = 1 .. 6 /\ \A i \in 1 .. 6 : Comparisons[i] \in Deciding
    BY DEF Deciding, Comparisons
  <2>. HIDE DEF t13
  <2>2. Lengthy(BB)
    BY Parameters
  <2>3. QED
    BY <1>14, <2>1, <2>2, SteadyAdded
<1>16. Sorted(t15, {})
  <2>1. Len(<<"~">>) = 1 /\ DOMAIN <<"~">> = 1 .. 1 /\ \A i \in 1 .. 1 : <<"~">>[i] \in Whole
    BY DEF Whole
  <2>. HIDE DEF t14
  <2>2. Lengthy(<<"int">>)
    BY Parameters
  <2>3. QED
    BY <1>15, <2>1, <2>2, SteadyAdded
<1>17. Sorted(t16, {})
  <2>1. Len(<<"&", "^", "|", "<<", ">>">>) = 5 /\ DOMAIN <<"&", "^", "|", "<<", ">>">> = 1 .. 5 /\ \A i \in 1 .. 5 : <<"&", "^", "|", "<<", ">>">>[i] \in Whole
    BY DEF Whole
  <2>. HIDE DEF t15
  <2>2. Lengthy(II)
    BY Parameters
  <2>3. QED
    BY <1>16, <2>1, <2>2, SteadyAdded
<1>18. Sorted(t17, {})
  <2>1. Len(<<"!">>) = 1 /\ DOMAIN <<"!">> = 1 .. 1 /\ \A i \in 1 .. 1 : <<"!">>[i] \in Deciding
    BY DEF Deciding
  <2>. HIDE DEF t16
  <2>2. Lengthy(<<"bool">>)
    BY Parameters
  <2>3. QED
    BY <1>17, <2>1, <2>2, SteadyAdded
<1>19. Sorted(t18, {})
  <2>1. Len(<<"&&", "^^", "||">>) = 3 /\ DOMAIN <<"&&", "^^", "||">> = 1 .. 3 /\ \A i \in 1 .. 3 : <<"&&", "^^", "||">>[i] \in Deciding
    BY DEF Deciding
  <2>. HIDE DEF t17
  <2>2. Lengthy(BB)
    BY Parameters
  <2>3. QED
    BY <1>18, <2>1, <2>2, SteadyAdded
<1>20. Sorted(t19, {Made("?:", <<"bool", "int", "int">>, "int")})
  <2>. HIDE DEF t18
  <2>1. QED
    BY <1>19, ChoiceMade, ChoiceAdded
<1>21. Sorted(t20, {Made("?:", <<"bool", "bool", "bool">>, "bool")})
  <2>. HIDE DEF t19
  <2>1. QED
    BY <1>20, ChoiceMade, ChoiceAdded
<1>22. Sorted(t21, {})
  <2>. HIDE DEF t20
  <2>1. QED
    BY <1>21, ChoiceMade, ChoiceAdded
<1>23. Sorted(t22, {Made("abs", Alike("int", 1), "int")})
  <2>. HIDE DEF t21
  <2>1. QED
    BY <1>22, RealAdded
<1>24. Sorted(t23, {})
  <2>. DEFINE names == <<"abs">>
  <2>1. /\ "abs" \in Mixing /\ <<"int">> = Alike("int", 1)
        /\ Len(names) = 1 /\ DOMAIN names = 1 .. 1 /\ names[1] = "abs"
        /\ \A i \in 1 .. 1 : names[i] \in Mixing \cup Whole
    BY Parameters DEF Mixing, Whole
  <2>. HIDE DEF names, t22
  <2>2. \E i \in 1 .. 1 : names[i] = "abs"
    BY <2>1
  <2>3. QED
    BY <1>23, <2>1, <2>2, IntAdded DEF names
<1>25. DefaultFunctions = t23
  BY DEF DefaultFunctions
<1>26. QED
  BY <1>24, <1>25

-----------------------------------------------------------------------------
(* An overload matches when it takes every argument.                        *)
Takes(args, params) ==
  /\ Len(args) = Len(params)
  /\ \A i \in DOMAIN args : ~IsVoid(args[i]) /\ Promotable(args[i], params[i])

LEMMA Matching ==
  ASSUME NEW args, NEW params
  PROVE  TryOverload(args, params) = "match" <=> Takes(args, params)
<1>. DEFINE bad == {i \in DOMAIN args : IsVoid(args[i]) \/ ~Promotable(args[i], params[i])}
            lengths == Len(args) # Len(params)
            void == IsVoid(args[Min(bad)])
<1>1. TryOverload(args, params) =
        IF lengths THEN "no_match"
        ELSE IF bad = {} THEN "match"
        ELSE IF void THEN "escape" ELSE "no_match"
  BY DEF TryOverload
<1>2. bad = {} <=> \A i \in DOMAIN args : ~IsVoid(args[i]) /\ Promotable(args[i], params[i])
  OBVIOUS
<1>3. Takes(args, params) <=> ~lengths /\ bad = {}
  BY <1>2 DEF Takes
<1>. HIDE DEF bad, lengths, void
<1>4. QED
  BY <1>1, <1>3

(* What is promoted to the kinds of the parameters.                         *)
LEMMA PromotedFrom ==
  /\ PromotesFrom["bool"] = {} /\ PromotesFrom["int"] = {"bool"}
  /\ PromotesFrom["float"] = {"bool", "int"}
BY DEF PromotesFrom, Kinds, ScalarKinds, ArrayKinds

LEMMA PromotableKinds ==
  ASSUME NEW v, v.node = "const"
  PROVE  /\ Promotable(v, "bool") <=> v.typ.kind = "bool"
         /\ Promotable(v, "int") <=> v.typ.kind \in {"bool", "int"}
         /\ Promotable(v, "float") <=> v.typ.kind \in {"bool", "int", "float"}
BY PromotedFrom DEF Promotable

(* The overload that is called promotes least.                              *)
LEMMA LesserFails ==
  ASSUME NEW name, NEW args, Candidates(DefaultFunctions, name, args) # {},
         NEW f, f = DefaultFunctions[Chosen(DefaultFunctions, name, args)], HasLesser(f)
  PROVE  ~Takes(args, Lesser(f).params)
<1>. DEFINE k == LastCandidate(DefaultFunctions, name, args)
<1>1. Sorted(DefaultFunctions, {})
  BY DefaultsSorted
<1>2. Listed(DefaultFunctions)
  BY <1>1 DEF Listed, Sorted, IsList
<1>3. /\ k \in DOMAIN DefaultFunctions /\ f = DefaultFunctions[k] /\ f.name = name
      /\ \A m \in Candidates(DefaultFunctions, name, args) : m <= k
  BY <1>2, LastChosen DEF Candidates, Chosen
<1>4. PICK m \in DOMAIN DefaultFunctions : m > k /\ DefaultFunctions[m] = Lesser(f)
  BY <1>1, <1>3 DEF Sorted
<1>5. Lesser(f).name = name
  BY <1>3 DEF Lesser
<1>6. m \in Nat /\ k \in Nat
  BY <1>2, <1>3, <1>4 DEF Listed
<1>7. m \notin Candidates(DefaultFunctions, name, args)
  BY <1>3, <1>4, <1>6
<1>8. TryOverload(args, Lesser(f).params) = "no_match"
  BY <1>4, <1>5, <1>7 DEF Candidates
<1>9. QED
  BY <1>8, Matching

LEMMA ResultWritten ==
  ASSUME NEW name, NEW args, NEW n \in Nat, DOMAIN args = 1 .. n, Len(args) = n,
         \A i \in 1 .. n : args[i].node = "const" /\ args[i].term.kind = args[i].typ.kind,
         Candidates(DefaultFunctions, name, args) # {},
         NEW f, f = DefaultFunctions[Chosen(DefaultFunctions, name, args)],
         Takes(args, f.params),
         NEW term, term.node = "const", term.of = name, term.kind = f.result,
         DOMAIN term.kids = 1 .. n, \A i \in 1 .. n : term.kids[i] = args[i].term
  PROVE  term.kind = KindWritten(term)
<1>. DEFINE K(i) == args[i].typ.kind
            kinds == {term.kids[i].kind : i \in DOMAIN term.kids} \cup {"int"}
            k == LastCandidate(DefaultFunctions, name, args)
<1>0. Listed(DefaultFunctions)
  BY DefaultsSorted DEF Listed, Sorted, IsList
<1>1. Proper(f) /\ f.name = name
  <2>1. k \in DOMAIN DefaultFunctions /\ f = DefaultFunctions[k] /\ f.name = name
    BY <1>0, LastChosen DEF Candidates, Chosen
  <2>2. QED
    BY <2>1, DefaultsSorted DEF Sorted
<1>2. /\ Len(f.params) = n /\ DOMAIN f.params = 1 .. n
      /\ \A i \in 1 .. n : ~IsVoid(args[i]) /\ Promotable(args[i], f.params[i])
  <2>1. PICK m \in Nat : DOMAIN f.params = 1 .. m /\ Len(f.params) = m
    BY <1>1 DEF Proper
  <2>2. QED
    BY <2>1 DEF Takes
<1>3. \A i \in 1 .. n : term.kids[i].kind = K(i) /\ args[i].node = "const"
  OBVIOUS
<1>4. /\ \A i \in 1 .. n : K(i) \in kinds
      /\ \A x \in kinds : x = "int" \/ \E i \in 1 .. n : x = K(i)
  BY <1>3
<1>5. CASE name \in Mixing
  <2>1. KindWritten(term) = Highest(kinds)
    BY <1>5, KindCases
  <2>2. f.result \in {"float", "int"} /\ \A i \in 1 .. n : f.params[i] = f.result
    BY <1>1, <1>2, <1>5 DEF Proper
  <2>. HIDE DEF kinds
  <2>3. CASE f.result = "int"
    <3>1. \A i \in 1 .. n : K(i) \in {"bool", "int"}
      BY <1>2, <1>3, <2>2, <2>3, PromotableKinds
    <3>2. "float" \notin kinds /\ "int" \in kinds
      BY <1>4, <3>1 DEF kinds
    <3>3. QED
      BY <2>1, <2>3, <3>2 DEF Highest
  <2>4. CASE f.result = "float"
    <3>1. \A i \in 1 .. n : K(i) \in {"bool", "int", "float"}
      BY <1>2, <1>3, <2>2, <2>4, PromotableKinds
    <3>2. CASE \E i \in 1 .. n : K(i) = "float"
      <4>1. "float" \in kinds
        BY <1>4, <3>2
      <4>2. QED
        BY <2>1, <2>4, <4>1 DEF Highest
    <3>3. CASE \A i \in 1 .. n : K(i) # "float"
      <4>1. HasLesser(f) /\ f.name # "?:"
        BY <1>1, <1>5, <2>4, NamesApart DEF HasLesser
      <4>2. Lesser(f).params = Alike("int", n)
        BY <1>2, <4>1 DEF Lesser, Alike
      <4>3. Len(Alike("int", n)) = n /\ \A i \in 1 .. n : Alike("int", n)[i] = "int"
        BY DEF Alike
      <4>4. \A i \in 1 .. n : Promotable(args[i], "int")
        BY <1>3, <3>1, <3>3, PromotableKinds
      <4>5. Takes(args, Lesser(f).params)
        BY <1>2, <4>2, <4>3, <4>4 DEF Takes
      <4>6. QED
        BY <4>1, <4>5, LesserFails
    <3>4. QED
      BY <3>2, <3>3
  <2>5. QED
    BY <2>2, <2>3, <2>4
<1>6. CASE name = "?:"
  <2>. DEFINE pair == {term.kids[2].kind, term.kids[3].kind}
  <2>1. KindWritten(term) = Highest(pair)
    BY <1>6, KindCases
  <2>2. /\ n = 3 /\ f.result \in {"float", "int", "bool"}
        /\ f.params[1] = "bool" /\ f.params[2] = f.result /\ f.params[3] = f.result
    BY <1>1, <1>2, <1>6 DEF Proper
  <2>3. pair = {K(2), K(3)}
    BY <1>3, <2>2
  <2>. HIDE DEF pair, kinds
  <2>4. /\ Promotable(args[1], "bool") /\ Promotable(args[2], f.result) /\ Promotable(args[3], f.result)
        /\ args[1].node = "const" /\ args[2].node = "const" /\ args[3].node = "const"
    BY <1>2, <2>2
  <2>5. ASSUME NEW kind, Promotable(args[2], kind), Promotable(args[3], kind),
               Lesser(f).params = <<"bool", kind, kind>>, HasLesser(f)
        PROVE  FALSE
    <3>1. Len(Lesser(f).params) = 3 /\ Lesser(f).params[1] = "bool" /\ Lesser(f).params[2] = kind
          /\ Lesser(f).params[3] = kind
      BY <2>5
    <3>2. \A i \in 1 .. 3 : i = 1 \/ i = 2 \/ i = 3
      OBVIOUS
    <3>3. \A i \in 1 .. n : ~IsVoid(args[i]) /\ Promotable(args[i], Lesser(f).params[i])
      BY <1>2, <2>2, <2>4, <2>5, <3>1, <3>2
    <3>4. Takes(args, Lesser(f).params)
      BY <2>2, <3>1, <3>3 DEF Takes
    <3>5. QED
      BY <2>5, <3>4, LesserFails
  <2>6. CASE f.result = "bool"
    <3>1. K(2) = "bool" /\ K(3) = "bool"
      BY <2>4, <2>6, PromotableKinds
    <3>2. QED
      BY <2>1, <2>3, <2>6, <3>1 DEF Highest
  <2>7. CASE f.result = "int"
    <3>1. K(2) \in {"bool", "int"} /\ K(3) \in {"bool", "int"}
      BY <2>4, <2>7, PromotableKinds
    <3>2. HasLesser(f) /\ Lesser(f).params = <<"bool", "bool", "bool">>
      BY <1>1, <1>6, <2>7 DEF HasLesser, Lesser
    <3>3. ~(K(2) = "bool" /\ K(3) = "bool")
      BY <2>4, <2>5, <3>2, PromotableKinds
    <3>4. QED
      BY <2>1, <2>3, <2>7, <3>1, <3>3 DEF Highest
  <2>8. CASE f.result = "float"
    <3>1. K(2) \in {"bool", "int", "float"} /\ K(3) \in {"bool", "int", "float"}
      BY <2>4, <2>8, PromotableKinds
    <3>2. HasLesser(f) /\ Lesser(f).params = <<"bool", "int", "int">>
      BY <1>1, <1>6, <2>8 DEF HasLesser, Lesser
    <3>3. ~(K(2) \in {"bool", "int"} /\ K(3) \in {"bool", "int"})
      BY <2>4, <2>5, <3>2, PromotableKinds
    <3>4. QED
      BY <2>1, <2>3, <2>8, <3>1, <3>3 DEF Highest
  <2>9. QED
    BY <2>2, <2>6, <2>7, <2>8
<1>7. CASE name \in Whole
  BY <1>1, <1>7, KindCases DEF Proper
<1>8. CASE name \in Deciding
  BY <1>1, <1>8, KindCases DEF Proper
<1>9. CASE name \in Real
  BY <1>1, <1>9, KindCases DEF Proper
<1>10. QED
  BY <1>1, <1>5, <1>6, <1>7, <1>8, <1>9 DEF Proper

-----------------------------------------------------------------------------
(* A value with a term of its kind, all of whose kinds are as written.      *)
Fit(v) == v.term.node = v.node /\ v.term.kind = v.typ.kind /\ Leveled(v.term)

Fitting(names) == \A name \in DOMAIN names : Fit(names[name])

LEMMA FitByParts ==
  ASSUME NEW v, NEW number, NEW of, NEW kids, \A i \in DOMAIN kids : Leveled(kids[i]),
         NEW w, w = WithTerm(v, number, of, kids), w.term.kind = KindWritten(w.term)
  PROVE  Fit(w)
<1>1. /\ w.term = Term(of, v, number, kids) /\ w.node = v.node /\ w.typ = v.typ /\ w.term.kids = kids
  BY AnyTerm
<1>2. w.term.node = v.node /\ w.term.kind = v.typ.kind
  BY <1>1 DEF Term
<1>3. QED
  BY <1>1, <1>2, LeveledByParts DEF Fit

Computing == Mixing \cup Whole \cup Deciding \cup Real \cup {"?:"}

LEMMA SimplyFit ==
  ASSUME NEW v, NEW number, NEW of, NEW kids, \A i \in DOMAIN kids : Leveled(kids[i]),
         of \notin Computing \/ v.node # "const"
  PROVE  Fit(WithTerm(v, number, of, kids))
<1>. DEFINE w == WithTerm(v, number, of, kids)
<1>1. w.term = Term(of, v, number, kids) /\ w.term.of = of
  BY AnyTerm
<1>2. w.term.node = v.node
  BY <1>1 DEF Term
<1>. HIDE DEF w
<1>3. w.term.kind = KindWritten(w.term)
  BY <1>1, <1>2, KindCases DEF Computing
<1>4. QED
  BY <1>3, FitByParts DEF w

LEMMA OtherNames == {"literal", "list", "index"} \cap Computing = {}
BY DEF Computing, Mixing, Whole, Deciding, Real

(* Calls.                                                                   *)
LEMMA CallFit ==
  ASSUME NEW name, NEW rs, NEW n \in Nat, DOMAIN rs = 1 .. n, NEW s, Listed(s.functions),
         \A i \in DOMAIN rs : rs[i].end = "value" => Fit(rs[i].value),
         Call(name, rs, s).end = "value"
  PROVE  Fit(Call(name, rs, s).value)
<1>. DEFINE args == ValuesOf(rs)
            f == s.functions[Chosen(s.functions, name, args)]
            d == DefaultFunctions[Chosen(DefaultFunctions, name, args)]
            terms == [i \in DOMAIN args |-> args[i].term]
            function == FunctionCall(f.id, f.returns, PromotedArgs(args, f.params))
            called == WithTerm(function, f.id, name, terms)
<1>1. Failing(rs) = {}
  BY FirstBadFails DEF Call
<1>2. \A i \in DOMAIN rs : rs[i].end = "value"
  BY <1>1 DEF Failing
<1>3. DOMAIN args = 1 .. n /\ \A i \in 1 .. n : args[i] = rs[i].value /\ Fit(args[i])
  BY <1>2 DEF ValuesOf
<1>4. Len(args) = n
  <2>1. args = [i \in 1 .. n |-> args[i]]
    BY DEF ValuesOf
  <2>2. \A i \in 1 .. n : args[i] \in {args[j] : j \in 1 .. n}
    OBVIOUS
  <2>. HIDE DEF args
  <2>3. args \in Seq({args[j] : j \in 1 .. n})
    BY <2>1, <2>2
  <2>4. QED
    BY <1>3, <2>3
<1>5. DOMAIN terms = 1 .. n /\ \A i \in 1 .. n : terms[i] = args[i].term /\ Leveled(terms[i])
  BY <1>3 DEF Fit
<1>6. Listed(DefaultFunctions)
  BY DefaultsSorted DEF Listed, Sorted, IsList
<1>7. \/ Call(name, rs, s) = Found(called)
      \/ /\ Call(name, rs, s) = Compute(name, args) /\ Computable(name, args)
         /\ Resolution(DefaultFunctions, name, args) # "escape"
  <2>1. Resolution(s.functions, name, args) \in {"escape", "error", "match"}
    BY Resolutions
  <2>2. Call(name, rs, s) \in {Broken, Error(NoPlace), Found(called)} \/
          /\ Call(name, rs, s) = Compute(name, args) /\ Computable(name, args)
          /\ Resolution(DefaultFunctions, name, args) # "escape"
    BY <1>1, <2>1 DEF Call, CallWith, Resolved, Called
  <2>. HIDE DEF called
  <2>3. QED
    BY <2>2, Ends
<1>8. CASE Call(name, rs, s) = Found(called)
  <2>1. function.node = "function_call"
    BY DEF FunctionCall
  <2>. HIDE DEF function, terms
  <2>2. Fit(called)
    BY <1>5, <2>1, SimplyFit
  <2>. HIDE DEF called
  <2>3. QED
    BY <1>8, <2>2, Ends
<1>9. CASE /\ Call(name, rs, s) = Compute(name, args) /\ Computable(name, args)
           /\ Resolution(DefaultFunctions, name, args) # "escape"
  <2>. DEFINE numbers == [i \in DOMAIN args |-> args[i].number]
              number == Computed(name, numbers)
              zero == number = 0
              const == Const(d.result, 1, zero)
              value == WithTerm(const, number, name, terms)
              divides == DividesByZero(name, d.params, numbers)
  <2>1. Compute(name, args) = IF divides THEN Broken ELSE Found(value)
    BY DEF Compute, Applied
  <2>2. const.node = "const" /\ const.typ.kind = d.result
    BY DEF Const
  <2>. HIDE DEF divides, const, number, zero, numbers, terms, d, args
  <2>3. /\ value.term = Term(name, const, number, terms) /\ value.term.of = name
        /\ value.term.kids = terms
    BY AnyTerm
  <2>4. value.term.node = "const" /\ value.term.kind = d.result
    BY <2>2, <2>3 DEF Term
  <2>5. Candidates(DefaultFunctions, name, args) # {} /\ \A i \in 1 .. n : args[i].node = "const"
    BY <1>3, <1>9 DEF Computable
  <2>6. Takes(args, d.params)
    <3>1. Resolution(DefaultFunctions, name, args) = "match"
      BY <1>6, <1>9, <2>5, Resolutions
    <3>2. Resolution(DefaultFunctions, name, args) = TryOverload(args, d.params)
      BY <2>5 DEF Resolution, d, Chosen
    <3>3. QED
      BY <3>1, <3>2, Matching
  <2>. HIDE DEF value
  <2>7. \A i \in 1 .. n : args[i].node = "const" /\ args[i].term.kind = args[i].typ.kind
    BY <1>3, <2>5 DEF Fit
  <2>8. value.term.kind = KindWritten(value.term)
    BY <1>3, <1>4, <1>5, <2>3, <2>4, <2>5, <2>6, <2>7, ResultWritten DEF d
  <2>9. Fit(value)
    BY <1>5, <2>8, FitByParts DEF value
  <2>10. QED
    BY <1>9, <2>1, <2>9, Ends
<1>10. QED
  BY <1>7, <1>8, <1>9

(* Lists and indices.                                                       *)
LEMMA ListFit ==
  ASSUME NEW rs, \A i \in DOMAIN rs : rs[i].end = "value" => Fit(rs[i].value),
         ListOutcome(rs).end = "value"
  PROVE  Fit(ListOutcome(rs).value)
<1>. DEFINE vs == ValuesOf(rs)
            ok(i) == rs[i].end = "value" /\ ListElement(rs[i].value)
            bad == {i \in DOMAIN rs : ~ok(i)}
            kind == HighestKind([i \in DOMAIN vs |-> vs[i].typ.kind])
            zero == \A i \in DOMAIN vs : vs[i].number = 0
            const == Const(ArrayOf[kind], Len(vs), zero)
            terms == [i \in DOMAIN vs |-> vs[i].term]
            value == WithTerm(const, 0, "list", terms)
<1>1. ListOutcome(rs) =
        IF rs = <<>> THEN Error(NoPlace)
        ELSE IF bad # {} THEN IF rs[Min(bad)].end = "value" THEN Error(NoPlace) ELSE rs[Min(bad)]
        ELSE Found(value)
  BY DEF ListOutcome
<1>2. terms = [i \in DOMAIN rs |-> rs[i].value.term]
  BY DEF ValuesOf
<1>3. \A i \in DOMAIN rs : i \notin bad => rs[i].end = "value"
  OBVIOUS
<1>4. (\A i \in DOMAIN terms : Leveled(terms[i])) => Fit(value)
  <2>. HIDE DEF const, terms
  <2>1. QED
    BY SimplyFit, OtherNames
<1>. HIDE DEF bad, value, terms
<1>5. bad = {} /\ ListOutcome(rs) = Found(value)
  BY <1>1, Ends
<1>6. \A i \in DOMAIN terms : Leveled(terms[i])
  BY <1>2, <1>3, <1>5 DEF Fit
<1>7. QED
  BY <1>4, <1>5, <1>6, Ends

LEMMA IndexTerm ==
  ASSUME NEW v, NEW number
  PROVE  Leveled(Term("index", v, number, <<>>))
<1>. DEFINE w == WithTerm(v, number, "index", <<>>)
<1>1. "index" \notin Computing
  BY OtherNames
<1>2. \A i \in DOMAIN <<>> : Leveled(<<>>[i])
  OBVIOUS
<1>3. Fit(w)
  BY <1>1, <1>2, SimplyFit
<1>4. w.term = Term("index", v, number, <<>>)
  BY AnyTerm
<1>5. QED
  BY <1>3, <1>4 DEF Fit

LEMMA IndexFit ==
  ASSUME NEW name, NEW entries, NEW s, DOMAIN entries \subseteq Nat,
         IndexEntries(name, entries, s).end = "value"
  PROVE  Fit(IndexEntries(name, entries, s).value)
<1>. DEFINE v == s.names[name]
            indices == FlattenSeq(ValuesOf(entries))
            unknown == name \notin DOMAIN s.names
            fixed == v.node # "variable_ref"
            other == v.typ.kind \notin {V, W}
            failing == Failing(entries) # {}
            outside == \E i \in DOMAIN indices : indices[i] \notin 0 .. v.typ.size - 1
            ref == IndexRef(CHOOSE id \in v.vars : TRUE, v.typ, indices)
            term(i) == Term("index", Const("int", 1, FALSE), indices[i], <<>>)
            terms == [i \in DOMAIN indices |-> term(i)]
            value == WithTerm(ref, 0, name, terms)
<1>1. IndexEntries(name, entries, s) =
        IF unknown THEN Error(NoPlace)
        ELSE IF fixed THEN Broken
        ELSE IF other THEN Error(NoPlace)
        ELSE IF failing THEN FirstBad(entries)
        ELSE IF outside THEN Error(NoPlace)
        ELSE Found(value)
  BY DEF IndexEntries
<1>2. failing => FirstBad(entries).end # "value"
  BY FirstBadFails
<1>3. \A i \in DOMAIN indices : Leveled(term(i))
  <2>. DEFINE const == Const("int", 1, FALSE)
  <2>. HIDE DEF const
  <2>1. \A i \in DOMAIN indices : Leveled(Term("index", const, indices[i], <<>>))
    BY IndexTerm
  <2>2. QED
    BY <2>1 DEF const
<1>4. Fit(value)
  <2>1. ref.node = "index_ref"
    BY DEF IndexRef
  <2>2. \A i \in DOMAIN terms : Leveled(terms[i])
    BY <1>3
  <2>. HIDE DEF ref, terms
  <2>3. QED
    BY <2>1, <2>2, SimplyFit
<1>. HIDE DEF value, unknown, fixed, other, failing, outside
<1>5. IndexEntries(name, entries, s) = Found(value)
  BY <1>1, <1>2, Ends
<1>6. QED
  BY <1>4, <1>5, Ends

-----------------------------------------------------------------------------
(* The value of an expression, if it has one, is fit.                       *)
Fits(t, n, s) == Visit(Ast(t)[n], s).end = "value" => Fit(Visit(Ast(t)[n], s).value)

LEMMA NameFits ==
  ASSUME NEW t, ProgramTree(t), NEW s, Fitting(s.names), NEW n \in Nodes(t),
         n.node.rule \in DOMAIN LiteralKind \cup {"identifier", "index"}
  PROVE  Fits(t, n, s)
<1>. DEFINE e == Ast(t)[n]
            rs == PartsVisited(e, s)
            r == Visit(e, s)
<1>1. ~Transparent(n.node) /\ n.node.rule \notin Operators \cup Lists
  BY LiteralNodes DEF Transparent, Operators, Lists
<1>2. /\ r = Evaluate(e, rs, s) /\ e.node = NodeName(n.node) /\ e.name = n.node.token
      /\ e.number = n.node.number /\ DOMAIN rs \subseteq Nat
  BY <1>1, ExpressionParts
<1>3. e.node = n.node.rule
  BY <1>1, <1>2 DEF NodeName, Lists
<1>4. SUFFICES ASSUME r.end = "value" PROVE Fit(r.value)
  BY DEF Fits
<1>. HIDE DEF e, rs, r
<1>6. CASE n.node.rule \in DOMAIN LiteralKind
  <2>. DEFINE zero == e.number = 0
              v == Const(LiteralKind[e.node], 1, zero)
              w == WithTerm(v, e.number, "literal", <<>>)
  <2>1. r = Found(w)
    BY <1>2, <1>3, <1>6, EvaluateKinds
  <2>. HIDE DEF v
  <2>2. Fit(w)
    BY SimplyFit, OtherNames
  <2>. HIDE DEF w
  <2>3. QED
    BY <2>1, <2>2, Ends
<1>7. CASE n.node.rule = "identifier"
  <2>1. r = IF e.name \in DOMAIN s.names THEN Found(s.names[e.name]) ELSE Error(NoPlace)
    BY <1>2, <1>3, <1>7, EvaluateKinds
  <2>2. QED
    BY <1>4, <2>1, Ends DEF Fitting
<1>8. CASE n.node.rule = "index"
  <2>1. r = Context(IndexEntries(e.name, rs, s), e.at)
    BY <1>2, <1>3, <1>8, EvaluateKinds
  <2>2. r = IndexEntries(e.name, rs, s)
    BY <1>4, <2>1, ContextKeeps
  <2>3. QED
    BY <1>2, <1>4, <2>2, IndexFit
<1>9. QED
  BY <1>6, <1>7, <1>8

LEMMA PartsFit ==
  ASSUME NEW t, ProgramTree(t), NEW s, Listed(s.functions), NEW n \in Nodes(t),
         n.node.rule \in Expressions \ (DOMAIN LiteralKind \cup {"identifier", "index"}),
         \A i \in DOMAIN n.node.kids : Fits(t, Under(n, i), s)
  PROVE  Fits(t, n, s)
<1>. DEFINE e == Ast(t)[n]
            rs == PartsVisited(e, s)
            r == Visit(e, s)
<1>1. CASE Transparent(n.node)
  <2>1. Readable(t) /\ 1 \in DOMAIN n.node.kids
    BY <1>1, ProgramReadable DEF Readable
  <2>2. e = Ast(t)[Under(n, 1)]
    BY <1>1, <2>1, AstSteps DEF AstFrom
  <2>5. QED
    BY <2>1, <2>2 DEF Fits
<1>2. CASE ~Transparent(n.node)
  <2>2. /\ r = Evaluate(e, rs, s) /\ e.node = NodeName(n.node) /\ e.name = n.node.token
        /\ DOMAIN e.kids = DOMAIN n.node.kids /\ DOMAIN e.kids \subseteq Nat
        /\ \A i \in DOMAIN n.node.kids : rs[i] = Visit(Ast(t)[Under(n, i)], s)
    BY <1>2, ExpressionParts
  <2>3. PICK m \in Nat : DOMAIN n.node.kids = 1 .. m
    BY KidsListed
  <2>4. \A i \in DOMAIN n.node.kids : rs[i].end = "value" => Fit(rs[i].value)
    BY <2>2 DEF Fits
  <2>. HIDE DEF e, rs, r
  <2>5. SUFFICES ASSUME r.end = "value" PROVE Fit(r.value)
    BY DEF Fits, r, e
  <2>6. ASSUME NEW name, r = Call(name, Placed(e.kids, rs), s) PROVE Fit(r.value)
    <3>. DEFINE ps == Placed(e.kids, rs)
    <3>1. DOMAIN ps = 1 .. m /\ DOMAIN ps \subseteq Nat /\ DOMAIN e.kids = DOMAIN ps
      BY <2>2, <2>3 DEF Placed
    <3>2. Failing(ps) = {}
      <4>. HIDE DEF ps
      <4>1. QED
        BY <2>5, <2>6, <3>1, FirstBadFails DEF ps, Call
    <3>3. \A i \in DOMAIN ps : ps[i] = rs[i]
      BY <2>2, <3>2, PlacedValues
    <3>4. \A i \in DOMAIN ps : ps[i].end = "value" => Fit(ps[i].value)
      BY <2>2, <2>4, <3>1, <3>3
    <3>. HIDE DEF ps
    <3>5. QED
      BY <2>5, <2>6, <3>1, <3>4, CallFit DEF ps
  <2>7. CASE n.node.rule \in Operators
    <3>0. n.node.rule \notin {"axisInitializationList", "initializationList"}
      BY <2>7 DEF Operators
    <3>1. e.node = NodeOf(n.node.rule, n.node.token)
      BY <2>2, <2>7, <3>0 DEF NodeName
    <3>2. e.node \notin SpecialNodes
      BY <2>7, <3>1, OperatorNodes
    <3>5. r = Call(OperatorOf(e.node), Placed(e.kids, rs), s)
      BY <2>2, <3>2, EvaluateKinds
    <3>6. QED
      BY <2>6, <3>5
  <2>8. CASE n.node.rule = "functionCall"
    <3>1. n.node.rule \notin Operators \cup Lists
      BY <2>8 DEF Operators, Lists
    <3>2. e.node = "functionCall"
      BY <2>2, <2>8, <3>1 DEF NodeName, Lists
    <3>3. r = Call(e.name, Placed(e.kids, rs), s)
      BY <2>2, <3>2, EvaluateKinds
    <3>4. QED
      BY <2>6, <3>3
  <2>9. CASE n.node.rule \in Lists
    <3>1. n.node.rule \notin Operators
      BY <2>9 DEF Operators, Lists
    <3>2. e.node = "InitializationList"
      BY <2>2, <2>9, <3>1 DEF NodeName, Lists
    <3>. DEFINE ps == Elements(e.kids, rs)
    <3>3. r = ListOutcome(ps)
      BY <2>2, <3>2, EvaluateKinds
    <3>4. DOMAIN ps = DOMAIN n.node.kids
      BY <2>2 DEF Elements
    <3>5. \A i \in DOMAIN ps : ps[i].end = "value" => Fit(ps[i].value)
      BY <2>2, <2>4, <3>4, ElementValues
    <3>. HIDE DEF ps
    <3>7. QED
      BY <2>5, <3>3, <3>5, ListFit
  <2>10. n.node.rule # "parensExpression"
    BY <1>2 DEF Transparent
  <2>11. QED
    BY <2>7, <2>8, <2>9, <2>10 DEF Expressions
<1>3. QED
  BY <1>1, <1>2

LEMMA ExpressionsFit ==
  ASSUME NEW t, ProgramTree(t), NEW s, Fitting(s.names), Listed(s.functions)
  PROVE  \A n \in Nodes(t) : n.node.rule \in Expressions => Fits(t, n, s)
<1>. DEFINE P(k) == \A n \in Nodes(t) : n.node.rule \in Expressions /\ Flat(n.node, k) => Fits(t, n, s)
            S == {k \in Nat : P(k)}
<1>0. Readable(t)
  BY ProgramReadable
<1>1. ASSUME NEW k \in Nat, NEW n \in Nodes(t), n.node.rule \in Expressions, Flat(n.node, k),
             k = 0 \/ P(k - 1)
      PROVE  Fits(t, n, s)
  <2>1. CASE n.node.rule \in DOMAIN LiteralKind \cup {"identifier", "index"}
    BY <2>1, NameFits
  <2>2. CASE n.node.rule \notin DOMAIN LiteralKind \cup {"identifier", "index"}
    <3>1. ASSUME NEW i \in DOMAIN n.node.kids PROVE Fits(t, Under(n, i), s)
      <4>1. k # 0 /\ Flat(n.node.kids[i], k - 1)
        BY <1>1, FlatKid
      <4>2. Under(n, i) \in Nodes(t) /\ Under(n, i).node = n.node.kids[i]
        BY <1>0, FlatClosed DEF Readable, Under, Standing
      <4>3. n.node.kids[i].rule \in Expressions
        BY <1>1, <2>2, PartsExpressions
      <4>4. QED
        BY <1>1, <4>1, <4>2, <4>3
    <3>2. QED
      BY <1>1, <2>2, <3>1, PartsFit
  <2>3. QED
    BY <2>1, <2>2
<1>2. 0 \in S
  BY <1>1
<1>3. ASSUME NEW k \in Nat, k \in S PROVE k + 1 \in S
  <2>1. k + 1 \in Nat /\ (k + 1) - 1 = k
    OBVIOUS
  <2>. HIDE DEF P
  <2>2. QED
    BY <1>1, <1>3, <2>1 DEF P
<1>4. \A k \in Nat : k \in S
  <2>. HIDE DEF S
  <2>1. QED
    BY <1>2, <1>3, Inductive
<1>5. \A n \in Nodes(t) : Flat(n.node, MaxDepth)
  BY <1>0, FlatInside DEF Readable
<1>6. QED
  BY <1>4, <1>5, Depth

(* The names in sight at the start.                                         *)
LEMMA GlobalsFit == Fitting(GlobalNames)
<1>1. DOMAIN DefaultMappings = {"x", "y", "z", "true", "false", "pi", "eu", "tau", "im"}
  BY DEF DefaultMappings
<1>2. \A name \in DOMAIN DefaultMappings : name \notin Computing
  BY <1>1 DEF Computing, Mixing, Whole, Deciding, Real
<1>3. ASSUME NEW name \in DOMAIN DefaultMappings PROVE Fit(ConstantOf(name))
  <2>. DEFINE m == DefaultMappings[name]
              zero == m.number = 0
              v == Const(m.kind, IF m.kind = "axis" THEN 3 ELSE 1, zero)
  <2>1. ConstantOf(name) = WithTerm(v, m.number, name, <<>>)
    BY DEF ConstantOf
  <2>. HIDE DEF v, m
  <2>2. QED
    BY <1>2, <2>1, SimplyFit
<1>4. QED
  BY <1>3 DEF GlobalNames, Fitting
=============================================================================
