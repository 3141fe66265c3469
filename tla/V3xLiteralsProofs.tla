--------------------------- MODULE V3xLiteralsProofs ---------------------------
(***************************************************************************)
(* Proofs about V3xLiterals: for all parse trees of any shape, the literals *)
(* that keep a program from being parsed are those outside the range of     *)
(* std::stoll, for integers, and of std::stod, for floats.                  *)
(***************************************************************************)
EXTENDS V3xLiterals, FrontendProofs, WellFoundedInduction

-----------------------------------------------------------------------------
(* A set of natural numbers has a least element.                           *)
LEMMA LeastIn ==
  ASSUME NEW S, S \subseteq Nat, S # {}
  PROVE  \E x \in S : \A y \in S : x <= y
<1>. DEFINE R == OpToRel(<, Nat)
<1>1. PICK x \in S : \A y \in S : ~(<<y, x>> \in R)
  <2>1. IsWellFoundedOn(R, Nat)
    BY NatLessThanWellFounded
  <2>. HIDE DEF R
  <2>. QED
    BY <2>1, WFMin
<1>2. R = {ss \in Nat \X Nat : ss[1] < ss[2]}
  BY DEF OpToRel
<1>. HIDE DEF R
<1>3. ASSUME NEW y \in S PROVE x <= y
  <2>1. <<y, x>> \notin R /\ x \in Nat /\ y \in Nat
    BY <1>1
  <2>2. ~(y < x)
    BY <1>2, <2>1
  <2>3. QED
    BY <2>1, <2>2
<1>4. QED
  BY <1>3

LEMMA Depth == MaxDepth \in Nat /\ MaxInt \in Int
BY TreesAssumption

-----------------------------------------------------------------------------
(* The levels of a tree exist, for every depth.                            *)
AreLevels(f, t, depth) ==
  f = [d \in 0 .. depth |->
         IF d = 0 THEN {Standing(<<>>, t)} ELSE UNION {Below(n) : n \in f[d - 1]}]

LEMMA LevelsExist ==
  ASSUME NEW t, NEW depth \in Nat
  PROVE  \E f : AreLevels(f, t, depth)
<1>. DEFINE first == {Standing(<<>>, t)}
            Next1(S) == UNION {Below(n) : n \in S}
            Is(f, m) == f = [d \in 0 .. m |-> IF d = 0 THEN first ELSE Next1(f[d - 1])]
            Bad == {m \in Nat : ~\E f : Is(f, m)}
<1>. HIDE DEF first, Next1
<1>1. ASSUME Bad # {} PROVE FALSE
  <2>1. PICK m \in Bad : \A y \in Bad : m <= y
    BY <1>1, LeastIn
  <2>2. CASE m = 0
    <3>. DEFINE f == [d \in 0 .. 0 |-> first]
    <3>1. f = [d \in 0 .. 0 |-> IF d = 0 THEN first ELSE Next1(f[d - 1])]
      OBVIOUS
    <3>. HIDE DEF f
    <3>2. Is(f, m)
      BY <2>2, <3>1
    <3>3. QED
      BY <2>1, <3>2
  <2>3. CASE m # 0
    <3>1. m - 1 \in Nat /\ ~(m <= m - 1)
      BY <2>1, <2>3
    <3>2. PICK f : Is(f, m - 1)
      BY <2>1, <3>1
    <3>. DEFINE g == [d \in 0 .. m |-> IF d = m THEN Next1(f[m - 1]) ELSE f[d]]
    <3>3. \A d \in 0 .. m : d \in Nat /\ (d # m => d \in 0 .. m - 1) /\ (d # 0 => d - 1 \in 0 .. m - 1)
      BY <2>1
    <3>4. \A d \in 0 .. m - 1 : g[d] = f[d] /\ f[d] = IF d = 0 THEN first ELSE Next1(f[d - 1])
      <4>1. \A d \in 0 .. m - 1 : d \in 0 .. m /\ d # m
        BY <2>1
      <4>2. QED
        BY <3>2, <4>1
    <3>5. ASSUME NEW d \in 0 .. m PROVE g[d] = IF d = 0 THEN first ELSE Next1(g[d - 1])
      <4>1. CASE d = m
        <5>1. g[d] = Next1(f[m - 1]) /\ d # 0 /\ d - 1 = m - 1
          BY <2>3, <4>1
        <5>2. g[d - 1] = f[d - 1]
          BY <3>3, <3>4, <5>1
        <5>. HIDE DEF g
        <5>3. QED
          BY <5>1, <5>2
      <4>2. CASE d # m
        <5>1. g[d] = f[d] /\ f[d] = IF d = 0 THEN first ELSE Next1(f[d - 1])
          BY <3>3, <3>4, <4>2
        <5>2. d # 0 => g[d - 1] = f[d - 1]
          BY <3>3, <3>4
        <5>. HIDE DEF g
        <5>3. QED
          BY <5>1, <5>2
      <4>3. QED
        BY <4>1, <4>2
    <3>6. g = [d \in 0 .. m |-> g[d]]
      OBVIOUS
    <3>. HIDE DEF g
    <3>7. Is(g, m)
      BY <3>5, <3>6
    <3>8. QED
      BY <2>1, <3>7
  <2>4. QED
    BY <2>2, <2>3
<1>2. \E f : Is(f, depth)
  BY <1>1
<1>3. QED
  BY <1>2 DEF AreLevels, Next1, first

LEMMA LevelSteps ==
  ASSUME NEW t
  PROVE  \A d \in 0 .. MaxDepth :
           LevelsOf(t)[d] =
             IF d = 0 THEN {Standing(<<>>, t)} ELSE UNION {Below(n) : n \in LevelsOf(t)[d - 1]}
<1>. DEFINE f == CHOOSE g : AreLevels(g, t, MaxDepth)
<1>0. LevelsOf(t) = f
  BY DEF LevelsOf, AreLevels
<1>1. AreLevels(f, t, MaxDepth)
  BY LevelsExist, Depth
<1>. HIDE DEF f
<1>2. \A d \in 0 .. MaxDepth :
        f[d] = IF d = 0 THEN {Standing(<<>>, t)} ELSE UNION {Below(n) : n \in f[d - 1]}
  BY <1>1 DEF AreLevels
<1>3. QED
  BY <1>0, <1>2

(* The root is on the first level, and the children of a node are on the   *)
(* level below its own.                                                    *)
LEMMA RootLevel ==
  ASSUME NEW t
  PROVE  LevelsOf(t)[0] = {Standing(<<>>, t)} /\ Standing(<<>>, t) \in Nodes(t)
<1>1. 0 \in 0 .. MaxDepth
  BY Depth
<1>2. LevelsOf(t)[0] = {Standing(<<>>, t)}
  BY <1>1, LevelSteps
<1>3. QED
  BY <1>1, <1>2 DEF Nodes

LEMMA ChildLevel ==
  ASSUME NEW t, NEW d \in 0 .. MaxDepth, NEW n \in LevelsOf(t)[d], NEW i \in DOMAIN n.node.kids,
         \A m \in LevelsOf(t)[MaxDepth] : m.node.kids = <<>>
  PROVE  d + 1 \in 0 .. MaxDepth /\ Under(n, i) \in LevelsOf(t)[d + 1]
<1>1. d # MaxDepth
  <2>1. SUFFICES ASSUME d = MaxDepth PROVE FALSE
    OBVIOUS
  <2>2. n.node.kids = <<>>
    BY <2>1
  <2>3. QED
    BY <2>2
<1>2. PICK e : e = d + 1
  OBVIOUS
<1>3. e \in 0 .. MaxDepth /\ e # 0 /\ e - 1 = d
  BY <1>1, <1>2, Depth
<1>4. LevelsOf(t)[e] = UNION {Below(m) : m \in LevelsOf(t)[e - 1]}
  BY <1>3, LevelSteps
<1>5. Under(n, i) \in Below(n)
  BY DEF Below
<1>6. Under(n, i) \in LevelsOf(t)[e]
  BY <1>3, <1>4, <1>5
<1>7. QED
  BY <1>2, <1>3, <1>6

LEMMA ChildNode ==
  ASSUME NEW t, NEW n \in Nodes(t), NEW i \in DOMAIN n.node.kids,
         \A m \in LevelsOf(t)[MaxDepth] : m.node.kids = <<>>
  PROVE  Under(n, i) \in Nodes(t)
<1>1. PICK d \in 0 .. MaxDepth : n \in LevelsOf(t)[d]
  BY DEF Nodes
<1>2. d + 1 \in 0 .. MaxDepth /\ Under(n, i) \in LevelsOf(t)[d + 1]
  BY <1>1, ChildLevel
<1>3. QED
  BY <1>2 DEF Nodes

-----------------------------------------------------------------------------
(* The faults of the nodes exist: those of the deepest level are known, and *)
(* those of a level follow from those of the next.                          *)
FaultsFrom(f, n) == FaultsAt(n, [i \in DOMAIN n.node.kids |-> f[Under(n, i)]])

AreFaults(f, t) == f = [n \in Nodes(t) |-> FaultsFrom(f, n)]

KnownFrom(f, t, k) ==
  \A d \in 0 .. MaxDepth : MaxDepth <= d + k =>
    \A n \in LevelsOf(t)[d] : f[n] = FaultsFrom(f, n)

LEMMA FaultsExist ==
  ASSUME NEW t, \A m \in LevelsOf(t)[MaxDepth] : m.node.kids = <<>>
  PROVE  \E f : AreFaults(f, t)
<1>. DEFINE Known(k) == \E f : DOMAIN f = Nodes(t) /\ f = [n \in Nodes(t) |-> f[n]] /\ KnownFrom(f, t, k)
            Bad == {k \in Nat : ~Known(k)}
<1>0. ASSUME NEW f, DOMAIN f = Nodes(t), NEW k \in Nat, k = 0 \/ KnownFrom(f, t, k - 1),
             NEW d \in 0 .. MaxDepth, MaxDepth <= d + k, NEW n \in LevelsOf(t)[d]
      PROVE  LET g == [m \in Nodes(t) |-> FaultsFrom(f, m)] IN g[n] = FaultsFrom(g, n)
  <2>. DEFINE g == [m \in Nodes(t) |-> FaultsFrom(f, m)]
  <2>1. n \in Nodes(t)
    BY DEF Nodes
  <2>2. ASSUME NEW i \in DOMAIN n.node.kids PROVE g[Under(n, i)] = f[Under(n, i)]
    <3>1. d + 1 \in 0 .. MaxDepth /\ Under(n, i) \in LevelsOf(t)[d + 1]
      BY ChildLevel
    <3>2. k # 0 /\ MaxDepth <= (d + 1) + (k - 1)
      BY <1>0, <3>1, Depth
    <3>3. f[Under(n, i)] = FaultsFrom(f, Under(n, i))
      BY <1>0, <3>1, <3>2 DEF KnownFrom
    <3>4. Under(n, i) \in Nodes(t)
      BY <3>1 DEF Nodes
    <3>5. QED
      BY <3>3, <3>4
  <2>. HIDE DEF g
  <2>3. [i \in DOMAIN n.node.kids |-> g[Under(n, i)]] = [i \in DOMAIN n.node.kids |-> f[Under(n, i)]]
    BY <2>2
  <2>4. FaultsFrom(g, n) = FaultsFrom(f, n)
    BY <2>3 DEF FaultsFrom
  <2>5. g[n] = FaultsFrom(f, n)
    BY <2>1 DEF g
  <2>6. QED
    BY <2>4, <2>5 DEF g
<1>1. ASSUME NEW f, DOMAIN f = Nodes(t), NEW k \in Nat, k = 0 \/ KnownFrom(f, t, k - 1)
      PROVE  Known(k)
  <2>. DEFINE g == [m \in Nodes(t) |-> FaultsFrom(f, m)]
  <2>1. \A d \in 0 .. MaxDepth : MaxDepth <= d + k => \A n \in LevelsOf(t)[d] : g[n] = FaultsFrom(g, n)
    BY <1>0, <1>1
  <2>2. DOMAIN g = Nodes(t) /\ g = [n \in Nodes(t) |-> g[n]]
    OBVIOUS
  <2>. HIDE DEF g
  <2>3. KnownFrom(g, t, k)
    BY <2>1 DEF KnownFrom
  <2>4. QED
    BY <2>2, <2>3
<1>2. ASSUME Bad # {} PROVE FALSE
  <2>1. PICK k \in Bad : \A y \in Bad : k <= y
    BY <1>2, LeastIn
  <2>2. CASE k = 0
    <3>. DEFINE f == [n \in Nodes(t) |-> {}]
    <3>1. DOMAIN f = Nodes(t)
      OBVIOUS
    <3>. HIDE DEF f
    <3>2. Known(k)
      BY <1>1, <2>1, <2>2, <3>1
    <3>3. QED
      BY <2>1, <3>2
  <2>3. CASE k # 0
    <3>1. k \in Nat /\ k - 1 \in Nat /\ ~(k <= k - 1)
      BY <2>1, <2>3
    <3>2. Known(k - 1)
      BY <2>1, <3>1
    <3>3. PICK f : DOMAIN f = Nodes(t) /\ KnownFrom(f, t, k - 1)
      BY <3>2
    <3>. HIDE DEF Known
    <3>4. Known(k)
      BY <1>1, <3>1, <3>3
    <3>5. QED
      BY <2>1, <3>4
  <2>4. QED
    BY <2>2, <2>3
<1>3. Known(MaxDepth)
  <2>. HIDE DEF Known
  <2>1. QED
    BY <1>2, Depth
<1>4. PICK f : DOMAIN f = Nodes(t) /\ f = [n \in Nodes(t) |-> f[n]] /\ KnownFrom(f, t, MaxDepth)
  BY <1>3
<1>5. ASSUME NEW n \in Nodes(t) PROVE f[n] = FaultsFrom(f, n)
  <2>1. PICK d \in 0 .. MaxDepth : n \in LevelsOf(t)[d]
    BY DEF Nodes
  <2>2. MaxDepth <= d + MaxDepth
    BY <2>1, Depth
  <2>3. QED
    BY <1>4, <2>1, <2>2 DEF KnownFrom
<1>6. f = [n \in Nodes(t) |-> FaultsFrom(f, n)]
  BY <1>4, <1>5
<1>7. QED
  BY <1>6 DEF AreFaults

(* What the visit of a tree finds, node by node.                            *)
FaultsOfNodes(t) == CHOOSE f : AreFaults(f, t)

LEMMA FaultSteps ==
  ASSUME NEW t, \A m \in LevelsOf(t)[MaxDepth] : m.node.kids = <<>>
  PROVE  /\ Faults(t) = FaultsOfNodes(t)[Standing(<<>>, t)]
         /\ \A n \in Nodes(t) : FaultsOfNodes(t)[n] = FaultsFrom(FaultsOfNodes(t), n)
<1>1. Faults(t) = FaultsOfNodes(t)[Standing(<<>>, t)]
  BY DEF Faults, FaultsOfNodes, AreFaults, FaultsFrom
<1>2. AreFaults(FaultsOfNodes(t), t)
  BY FaultsExist DEF FaultsOfNodes
<1>3. ASSUME NEW f, AreFaults(f, t), NEW n \in Nodes(t) PROVE f[n] = FaultsFrom(f, n)
  BY <1>3 DEF AreFaults
<1>4. QED
  BY <1>1, <1>2, <1>3

-----------------------------------------------------------------------------
(* The children of a node are numbered; one of those with faults is first.  *)
LEMMA FirstFaulty ==
  ASSUME NEW t, IsTree(t), NEW n \in Nodes(t), NEW S, S \subseteq DOMAIN n.node.kids, S # {}
  PROVE  Min(S) \in S
<1>1. IsList(n.node.kids)
  BY DEF IsTree
<1>2. PICK T : n.node.kids \in Seq(T)
  BY <1>1 DEF IsList
<1>3. S \subseteq Nat
  BY <1>2
<1>4. QED
  BY <1>3, LeastIn DEF Min

(* A visit finds nothing but what cannot be read ...                        *)
LEMMA OnlyUnreadable ==
  ASSUME NEW t, IsTree(t), NEW n \in Nodes(t),
         \A i \in DOMAIN n.node.kids : FaultsOfNodes(t)[Under(n, i)] \subseteq UnreadableIn(t)
  PROVE  FaultsOfNodes(t)[n] \subseteq UnreadableIn(t)
<1>. DEFINE f == FaultsOfNodes(t)
            inside == [i \in DOMAIN n.node.kids |-> f[Under(n, i)]]
            faulty == {i \in DOMAIN inside : inside[i] # {}}
<1>0. \A m \in LevelsOf(t)[MaxDepth] : m.node.kids = <<>>
  BY DEF IsTree
<1>1. f[n] = FaultsFrom(f, n)
  BY <1>0, FaultSteps
<1>2. \A i \in DOMAIN inside : inside[i] \subseteq UnreadableIn(t)
  OBVIOUS
<1>3. DOMAIN inside = DOMAIN n.node.kids
  OBVIOUS
<1>4. faulty # {} => Min(faulty) \in DOMAIN inside
  BY <1>3, FirstFaulty
<1>5. Unreadable(n.node) => Place(n.path, "literal") \in UnreadableIn(t)
  BY DEF UnreadableIn
<1>6. Checked(n.node) /\ Refused(n.node) => Unreadable(n.node)
  BY DEF Checked, Refused, Unreadable
<1>7. FaultsFrom(f, n) =
        IF Checked(n.node) THEN IF Refused(n.node) THEN {Place(n.path, "literal")} ELSE {}
        ELSE IF faulty = {} THEN {}
        ELSE IF Unsequenced(n.node) THEN UNION {inside[i] : i \in faulty}
        ELSE inside[Min(faulty)]
  BY DEF FaultsFrom, FaultsAt
<1>8. UNION {inside[i] : i \in faulty} \subseteq UnreadableIn(t)
  BY <1>2
<1>. HIDE DEF f, inside, faulty
<1>9. f[n] \subseteq UnreadableIn(t)
  BY <1>1, <1>2, <1>4, <1>5, <1>6, <1>7, <1>8
<1>10. QED
  BY <1>9 DEF f

(* ... and finds something wherever there is such a literal below.          *)
LEMMA FoundAbove ==
  ASSUME NEW t, IsTree(t), NEW n \in Nodes(t), NEW i \in DOMAIN n.node.kids,
         FaultsOfNodes(t)[Under(n, i)] # {}
  PROVE  FaultsOfNodes(t)[n] # {}
<1>. DEFINE f == FaultsOfNodes(t)
            inside == [k \in DOMAIN n.node.kids |-> f[Under(n, k)]]
            faulty == {k \in DOMAIN inside : inside[k] # {}}
<1>0. \A m \in LevelsOf(t)[MaxDepth] : m.node.kids = <<>>
  BY DEF IsTree
<1>1. f[n] = FaultsFrom(f, n)
  BY <1>0, FaultSteps
<1>2. ~Checked(n.node)
  <2>1. SUFFICES ASSUME Checked(n.node) PROVE FALSE
    OBVIOUS
  <2>2. n.node.kids = <<>>
    BY <2>1 DEF IsTree
  <2>3. QED
    BY <2>2
<1>3. i \in faulty /\ DOMAIN inside = DOMAIN n.node.kids
  OBVIOUS
<1>4. Min(faulty) \in faulty
  BY <1>3, FirstFaulty
<1>5. FaultsFrom(f, n) =
        IF Checked(n.node) THEN IF Refused(n.node) THEN {Place(n.path, "literal")} ELSE {}
        ELSE IF faulty = {} THEN {}
        ELSE IF Unsequenced(n.node) THEN UNION {inside[k] : k \in faulty}
        ELSE inside[Min(faulty)]
  BY DEF FaultsFrom, FaultsAt
<1>6. inside[i] # {} /\ inside[Min(faulty)] # {}
  BY <1>3, <1>4
<1>. HIDE DEF f, inside, faulty
<1>7. UNION {inside[k] : k \in faulty} # {}
  BY <1>3, <1>6
<1>8. f[n] # {}
  BY <1>1, <1>2, <1>3, <1>5, <1>6, <1>7
<1>9. QED
  BY <1>8 DEF f

LEMMA FoundAtLiteral ==
  ASSUME NEW t, IsTree(t), NEW n \in Nodes(t), Unreadable(n.node)
  PROVE  FaultsOfNodes(t)[n] # {}
<1>0. \A m \in LevelsOf(t)[MaxDepth] : m.node.kids = <<>>
  BY DEF IsTree
<1>1. FaultsOfNodes(t)[n] = FaultsFrom(FaultsOfNodes(t), n)
  BY <1>0, FaultSteps
<1>2. Checked(n.node) /\ Refused(n.node)
  BY DEF Unreadable, Checked, Refused
<1>3. QED
  BY <1>1, <1>2 DEF FaultsFrom, FaultsAt

(* The literals that end a visit cannot be read, and one that cannot be     *)
(* read, anywhere in the tree, ends it.                                     *)
LEMMA FaultsFound ==
  ASSUME NEW t, IsTree(t)
  PROVE  Faults(t) \subseteq UnreadableIn(t) /\ (UnreadableIn(t) # {} => Faults(t) # {})
<1>. DEFINE f == FaultsOfNodes(t)
            Beyond(k) == \A d \in 0 .. MaxDepth : MaxDepth <= d + k =>
                           \A n \in LevelsOf(t)[d] : f[n] \subseteq UnreadableIn(t)
            Bad == {k \in Nat : ~Beyond(k)}
            Reached(d) == \A n \in LevelsOf(t)[d] : f[n] # {} => f[Standing(<<>>, t)] # {}
            Lost == {d \in 0 .. MaxDepth : ~Reached(d)}
<1>0. \A m \in LevelsOf(t)[MaxDepth] : m.node.kids = <<>>
  BY DEF IsTree
<1>1. Faults(t) = f[Standing(<<>>, t)]
  BY <1>0, FaultSteps
<1>2. ASSUME NEW k \in Nat, k = 0 \/ Beyond(k - 1) PROVE Beyond(k)
  <2>1. SUFFICES ASSUME NEW d \in 0 .. MaxDepth, MaxDepth <= d + k, NEW n \in LevelsOf(t)[d]
                 PROVE  f[n] \subseteq UnreadableIn(t)
    OBVIOUS
  <2>2. n \in Nodes(t)
    BY DEF Nodes
  <2>3. ASSUME NEW i \in DOMAIN n.node.kids PROVE f[Under(n, i)] \subseteq UnreadableIn(t)
    <3>1. d + 1 \in 0 .. MaxDepth /\ Under(n, i) \in LevelsOf(t)[d + 1]
      BY <1>0, ChildLevel
    <3>2. k # 0 /\ MaxDepth <= (d + 1) + (k - 1)
      BY <2>1, <3>1, Depth
    <3>3. QED
      BY <1>2, <3>1, <3>2
  <2>4. QED
    BY <2>2, <2>3, OnlyUnreadable
<1>3. Beyond(MaxDepth)
  <2>. HIDE DEF Beyond
  <2>1. ASSUME Bad # {} PROVE FALSE
    <3>1. PICK k \in Bad : \A y \in Bad : k <= y
      BY <2>1, LeastIn
    <3>2. k # 0 => k - 1 \in Nat /\ ~(k <= k - 1)
      BY <3>1
    <3>3. k = 0 \/ Beyond(k - 1)
      BY <3>1, <3>2
    <3>4. QED
      BY <1>2, <3>1, <3>3
  <2>2. QED
    BY <2>1, Depth
<1>4. f[Standing(<<>>, t)] \subseteq UnreadableIn(t)
  <2>1. 0 \in 0 .. MaxDepth /\ MaxDepth <= 0 + MaxDepth
    BY Depth
  <2>. HIDE DEF f
  <2>2. QED
    BY <1>3, <2>1, RootLevel
<1>5. ASSUME NEW d \in 0 .. MaxDepth, d = 0 \/ Reached(d - 1) PROVE Reached(d)
  <2>1. SUFFICES ASSUME NEW n \in LevelsOf(t)[d], f[n] # {} PROVE f[Standing(<<>>, t)] # {}
    OBVIOUS
  <2>. HIDE DEF f
  <2>2. CASE d = 0
    BY <2>1, <2>2, RootLevel
  <2>3. CASE d # 0
    <3>1. LevelsOf(t)[d] = UNION {Below(m) : m \in LevelsOf(t)[d - 1]}
      BY <2>3, LevelSteps
    <3>2. PICK m \in LevelsOf(t)[d - 1] : n \in Below(m)
      BY <2>1, <3>1
    <3>3. PICK i \in DOMAIN m.node.kids : n = Under(m, i)
      BY <3>2 DEF Below
    <3>4. d - 1 \in 0 .. MaxDepth
      BY <2>3, Depth
    <3>5. m \in Nodes(t)
      BY <3>4 DEF Nodes
    <3>6. f[m] # {}
      BY <2>1, <3>3, <3>5, FoundAbove DEF f
    <3>7. QED
      BY <1>5, <2>3, <3>2, <3>6
  <2>4. QED
    BY <2>2, <2>3
<1>6. Lost = {}
  <2>. HIDE DEF Reached
  <2>1. ASSUME Lost # {} PROVE FALSE
    <3>1. Lost \subseteq Nat
      BY Depth
    <3>2. PICK d \in Lost : \A y \in Lost : d <= y
      BY <2>1, <3>1, LeastIn
    <3>3. d \in 0 .. MaxDepth /\ (d # 0 => d - 1 \in 0 .. MaxDepth /\ ~(d <= d - 1))
      BY <3>2, Depth
    <3>4. d = 0 \/ Reached(d - 1)
      BY <3>2, <3>3
    <3>5. QED
      BY <1>5, <3>2, <3>3, <3>4
  <2>2. QED
    BY <2>1
<1>7. ASSUME UnreadableIn(t) # {} PROVE f[Standing(<<>>, t)] # {}
  <2>1. PICK n \in Nodes(t) : Unreadable(n.node)
    BY <1>7 DEF UnreadableIn
  <2>2. PICK d \in 0 .. MaxDepth : n \in LevelsOf(t)[d]
    BY DEF Nodes
  <2>3. f[n] # {}
    BY <2>1, FoundAtLiteral
  <2>4. Reached(d)
    BY <1>6
  <2>5. QED
    BY <2>2, <2>3, <2>4
<1>8. QED
  BY <1>1, <1>4, <1>7

-----------------------------------------------------------------------------
(* What the parser of version 3 returns for a text.                         *)
LEMMA Parses ==
  ASSUME NEW text \in Texts, NEW r \in Parsed["v3x"][text]
  PROVE  /\ r.errors = <<>> => r.root = text /\ UnreadableIn(Trees[text]) = {}
         /\ Trees[text] # NoTree /\ UnreadableIn(Trees[text]) # {} =>
              Len(r.errors) = 1 /\ r.errors[1] \in UnreadableIn(Trees[text])
<1>. DEFINE faults == Faults(Trees[text])
<1>1. r \in IF Trees[text] = NoTree THEN {Result(<<Place(<<>>, "syntax")>>, Missing)}
            ELSE IF faults = {}     THEN {Result(<<>>, text)}
            ELSE                         {Result(<<at>>, Missing) : at \in faults}
  BY ParserAssumption DEF ParseResults
<1>2. Trees[text] # NoTree =>
        faults \subseteq UnreadableIn(Trees[text]) /\ (UnreadableIn(Trees[text]) # {} => faults # {})
  BY TreesAssumption, FaultsFound
<1>. HIDE DEF faults
<1>3. \A errors, root : Result(errors, root).errors = errors /\ Result(errors, root).root = root
  BY DEF Result, SemanticResult
<1>4. CASE Trees[text] = NoTree
  BY <1>1, <1>3, <1>4
<1>5. CASE Trees[text] # NoTree /\ faults = {}
  BY <1>1, <1>2, <1>3, <1>5
<1>6. CASE Trees[text] # NoTree /\ faults # {}
  <2>1. PICK at \in faults : r = Result(<<at>>, Missing)
    BY <1>1, <1>6
  <2>2. r.errors = <<at>>
    BY <1>3, <2>1
  <2>3. r.errors # <<>> /\ Len(r.errors) = 1 /\ r.errors[1] = at
    BY <2>2
  <2>4. at \in UnreadableIn(Trees[text])
    BY <1>2, <1>6
  <2>5. QED
    BY <2>3, <2>4
<1>7. QED
  BY <1>4, <1>5, <1>6

(* A string of version 3 that is parsed in order to be analyzed, with a     *)
(* literal that cannot be read.                                             *)
OutOfRange ==
  /\ call.dialect = "v3x" /\ call.source = "string"
  /\ Analyzing /\ Stated[call.data] # <<>> /\ Trees[call.data] # NoTree
  /\ UnreadableIn(Trees[call.data]) # {}

InRange(text) == UnreadableIn(Trees[text]) = {}

PointsAtLiteral(errors) == Len(errors) = 1 /\ errors[1] \in UnreadableIn(Trees[call.data])

(* The literals of what is at hand in each phase.                           *)
LiteralsInv ==
  /\ phase = "parse" /\ call.source = "string" => opened = call.data
  /\ phase = "analyze" /\ call.dialect = "v3x" => InRange(result.root)
  /\ phase = "reply" /\ call.dialect = "v3x" /\ result.errors = <<>> => InRange(result.root)
  /\ OutOfRange => phase # "analyze" /\ (phase = "reply" => PointsAtLiteral(result.errors))
  /\ LiteralsChecked

(* Between calls, and while one is served, the replies that matter.         *)
LEMMA NotReplied ==
  ASSUME phase # "idle" \/ reply.kind = "thrown"
  PROVE  LiteralsChecked
BY DEF LiteralsChecked, Replied

LEMMA LiteralsInit == Init => LiteralsInv
<1> SUFFICES ASSUME Init PROVE LiteralsInv
  OBVIOUS
<1>1. phase = "idle" /\ reply.kind = "thrown"
  BY ReplyKinds DEF Init, NoReply
<1>2. QED
  BY <1>1, NotReplied DEF LiteralsInv

(* Steps that change nothing of the call, its results and its reply.        *)
LEMMA ElsewhereLiterals ==
  ASSUME LiteralsInv, UNCHANGED <<call, phase, opened, result, reply>>
  PROVE  LiteralsInv'
BY DEF LiteralsInv, LiteralsChecked, Replied, OutOfRange, Analyzing, InRange, PointsAtLiteral

LEMMA BeginLiterals ==
  ASSUME NEW c, Begin(c)
  PROVE  LiteralsInv'
<1>1. phase' \in {"open", "version"}
  BY DEF Begin
<1>2. LiteralsChecked'
  BY <1>1 DEF LiteralsChecked, Replied
<1>3. QED
  BY <1>1, <1>2 DEF LiteralsInv

(* A string is there, and so is its version when one is stated.             *)
LEMMA StringText ==
  ASSUME IInv, call.source = "string"
  PROVE  TextOf(call) = call.data /\ call.data \in Texts /\ call.data # Missing
BY CallFields, Inputs DEF IInv, TypeOK, TextOf

LEMMA VersionUnreadableLiterals ==
  ASSUME IInv, LiteralsInv, VersionUnreadable
  PROVE  LiteralsInv'
<1>1. phase' = "reply" /\ result'.errors # <<>> /\ call' = call
  BY Refusals DEF VersionUnreadable
<1>2. ~OutOfRange'
  <2>1. call.source = "string" => Stated[call.data] = <<>>
    BY StringText DEF VersionUnreadable, VersionIn
  <2>2. QED
    BY <1>1, <2>1 DEF OutOfRange
<1>3. LiteralsChecked'
  BY <1>1 DEF LiteralsChecked, Replied
<1>4. QED
  BY <1>1, <1>2, <1>3 DEF LiteralsInv

LEMMA VersionReadLiterals ==
  ASSUME IInv, LiteralsInv, VersionRead
  PROVE  LiteralsInv'
<1>1. /\ phase' \in {"open", "reply"} /\ call' = call
      /\ phase' = "reply" => result'.errors # <<>> /\ Exceeds(VersionIn(TextOf(call)), call.api)
  BY Refusals DEF VersionRead
<1>2. phase' = "reply" => ~OutOfRange'
  <2>1. call.source = "string" => VersionIn(TextOf(call)) = Stated[call.data]
    BY StringText DEF VersionIn
  <2>2. QED
    BY <1>1, <2>1 DEF OutOfRange, Analyzing
<1>3. LiteralsChecked'
  BY <1>1 DEF LiteralsChecked, Replied
<1>4. QED
  BY <1>1, <1>2, <1>3 DEF LiteralsInv

LEMMA OpenMissingLiterals ==
  ASSUME IInv, LiteralsInv, OpenMissing
  PROVE  LiteralsInv'
<1>1. /\ phase' \in {"idle", "reply"} /\ call' = call
      /\ phase' = "idle" => reply'.kind = "thrown"
      /\ phase' = "reply" => result'.errors # <<>>
  BY Refusals, ReplyKinds DEF OpenMissing
<1>2. ~OutOfRange'
  <2>1. call.source # "string"
    BY StringText DEF OpenMissing
  <2>2. QED
    BY <1>1, <2>1 DEF OutOfRange
<1>3. LiteralsChecked'
  BY <1>1 DEF LiteralsChecked, Replied
<1>4. QED
  BY <1>1, <1>2, <1>3 DEF LiteralsInv

LEMMA OpenSourceLiterals ==
  ASSUME IInv, LiteralsInv, OpenSource
  PROVE  LiteralsInv'
<1>1. phase' = "parse" /\ call' = call /\ opened' = TextOf(call)
  BY DEF OpenSource
<1>2. call.source = "string" => opened' = call.data
  BY <1>1, StringText
<1>3. LiteralsChecked'
  BY <1>1 DEF LiteralsChecked, Replied
<1>4. QED
  BY <1>1, <1>2, <1>3 DEF LiteralsInv

LEMMA ParseSourceLiterals ==
  ASSUME IInv, LiteralsInv, ParseSource
  PROVE  LiteralsInv'
<1>1. /\ phase = "parse" /\ phase' \in {"reply", "analyze"} /\ call' = call
      /\ result' \in Parsed[call.dialect][ParserText]
      /\ phase' = "analyze" => result'.errors = <<>>
  BY DEF ParseSource
<1>2. ParserText \in Texts
  BY <1>1, Inputs DEF IInv, TypeOK, TextsKnown, ParserText
<1>3. call.dialect = "v3x" /\ result'.errors = <<>> => InRange(result'.root)
  BY <1>1, <1>2, Parses DEF InRange
<1>4. OutOfRange => PointsAtLiteral(result'.errors)
  <2>1. SUFFICES ASSUME OutOfRange PROVE PointsAtLiteral(result'.errors)
    OBVIOUS
  <2>2. ParserText = call.data
    BY <1>1, <2>1 DEF OutOfRange, LiteralsInv, ParserText, FromPath
  <2>3. QED
    BY <1>1, <1>2, <2>1, <2>2, Parses DEF OutOfRange, PointsAtLiteral
<1>5. OutOfRange' => OutOfRange
  BY <1>1 DEF OutOfRange, Analyzing
<1>6. OutOfRange' => phase' # "analyze" /\ PointsAtLiteral(result.errors)'
  BY <1>1, <1>4, <1>5 DEF PointsAtLiteral
<1>7. LiteralsChecked'
  BY <1>1 DEF LiteralsChecked, Replied
<1>8. (call.dialect = "v3x" /\ result.errors = <<>> => InRange(result.root))'
  BY <1>1, <1>3 DEF InRange
<1>9. QED
  BY <1>1, <1>6, <1>7, <1>8 DEF LiteralsInv

LEMMA AnalyzeTreeLiterals ==
  ASSUME IInv, LiteralsInv, AnalyzeTree
  PROVE  LiteralsInv'
<1>1. PICK a \in Analyzed[call.dialect][result.root] :
        ConcludeAnalysis(a, AnalysisErrors(a, call.api))
  BY DEF AnalyzeTree
<1>2. /\ phase = "analyze" /\ phase' \in {"idle", "reply"} /\ call' = call
      /\ phase' = "idle" => reply'.kind = "thrown"
      /\ result'.root = result.root
  BY <1>1, ReplyKinds DEF AnalyzeTree, ConcludeAnalysis, SemanticResult
<1>3. ~OutOfRange'
  BY <1>2 DEF LiteralsInv, OutOfRange, Analyzing
<1>4. LiteralsChecked'
  BY <1>2 DEF LiteralsChecked, Replied
<1>5. call'.dialect = "v3x" => InRange(result.root)'
  BY <1>2 DEF LiteralsInv, InRange
<1>6. QED
  BY <1>2, <1>3, <1>4, <1>5 DEF LiteralsInv

LEMMA AnswerLiterals ==
  ASSUME IInv, LiteralsInv, Answer
  PROVE  LiteralsInv'
<1>1. phase = "reply" /\ phase' = "idle" /\ call' = call /\ reply' = ReplyTo(call, result)
  BY DEF Answer
<1>2. /\ reply'.kind = "tree" => result.errors = <<>> /\ reply'.root = result.root
      /\ reply'.kind = "errors" => reply'.errors = result.errors
  BY <1>1 DEF ReplyTo, Tree, Errors, Thrown, Reply, Result, SemanticResult
<1>3. Replied("tree")' => UnreadableIn(Trees[reply'.root]) = {}
  BY <1>1, <1>2 DEF Replied, LiteralsInv, InRange
<1>4. OutOfRange /\ reply'.kind = "errors" => PointsAtLiteral(reply'.errors)
  BY <1>1, <1>2 DEF LiteralsInv
<1>5. LiteralsChecked'
  BY <1>1, <1>3, <1>4 DEF LiteralsChecked, Replied, OutOfRange, Analyzing, PointsAtLiteral
<1>6. QED
  BY <1>1, <1>5 DEF LiteralsInv

(* Every visit to the file system, and the work between two, keeps it.      *)
LEMMA LiteralsNext == IInv /\ LiteralsInv /\ [Next]_vars => LiteralsInv'
<1> SUFFICES ASSUME IInv, LiteralsInv, [Next]_vars PROVE LiteralsInv'
  OBVIOUS
<1>1. ASSUME NEW text \in FileTexts, Write(text) PROVE LiteralsInv'
  BY <1>1, ElsewhereLiterals DEF Write
<1>2. CASE RewindStream
  BY <1>2, ElsewhereLiterals DEF RewindStream
<1>3. ASSUME NEW c \in Calls, Begin(c) PROVE LiteralsInv'
  BY <1>3, BeginLiterals
<1>4. CASE VersionUnreadable
  BY <1>4, VersionUnreadableLiterals
<1>5. CASE VersionRead
  BY <1>5, VersionReadLiterals
<1>6. CASE OpenMissing
  BY <1>6, OpenMissingLiterals
<1>7. CASE OpenSource
  BY <1>7, OpenSourceLiterals
<1>8. CASE ParseSource
  BY <1>8, ParseSourceLiterals
<1>9. CASE AnalyzeTree
  BY <1>9, AnalyzeTreeLiterals
<1>10. CASE Answer
  BY <1>10, AnswerLiterals
<1>11. CASE UNCHANGED vars
  BY <1>11, ElsewhereLiterals DEF vars
<1>12. QED
  BY <1>1, <1>2, <1>3, <1>4, <1>5, <1>6, <1>7, <1>8, <1>9, <1>10, <1>11 DEF Next, Serve

(* A tree is returned only for a program whose integers and floats are all  *)
(* in range, and a string with one that is not is answered with one error,  *)
(* at such a literal, whatever the shape of the tree around it and however  *)
(* the operands in it are visited (get_int_value and get_float_value of the *)
(* AST builder).                                                            *)
THEOREM LiteralsCheckedHolds == Spec => []LiteralsChecked
<1>1. LiteralsInv => LiteralsChecked
  BY DEF LiteralsInv
<1>2. Spec => []LiteralsInv
  BY LiteralsInit, LiteralsNext, Invariant, PTL DEF Spec
<1>3. QED
  BY <1>1, <1>2, PTL
=============================================================================
