-------------------------- MODULE GreedyApproxProofs --------------------------
(****************************************************************************)
(* Theorems about GreedyApprox, for every number of nodes, every input graph *)
(* and every choice of bounds: it respects the bounds, no edge is used twice, *)
(* what has been chosen is a b-matching at every moment, the b-matching      *)
(* solve() ends with weighs at least half of the best one, and GreedyApprox  *)
(* implements ApproxSolver.                                                  *)
(*                                                                           *)
(* The argument for the half charges every visit of a walk to what it takes  *)
(* away: of an optimal b-matching of what remains at most one edge is lost,  *)
(* and that one weighs no more than the edge the walk leaves by.  Of the     *)
(* walk, at least half joins the matching.                                   *)
(****************************************************************************)
EXTENDS GreedyApprox, BMatchingProofs

-----------------------------------------------------------------------------
(****************************************************************************)
(* The choice solve() makes.                                                 *)
(****************************************************************************)
\* The neighbour the walk leaves for is one of those it can choose from, and
\* no edge to another of them is heavier.
LEMMA HeaviestIsNeighbour ==
  ASSUME NEW S \in SUBSET Node, S # {}, u \in Node,
         \A y \in S : Wmat(u, y) \in Nat
  PROVE  Heaviest(S) \in S /\ \A y \in S : Wmat(u, y) <= Wmat(u, Heaviest(S))
  <1> DEFINE Over(v, y) == \/ Wmat(u, v) > Wmat(u, y)
                           \/ Wmat(u, v) = Wmat(u, y) /\ v <= y
             R == {p \in S \X S : Over(p[1], p[2])}
  <1>1. \A x, y \in S : <<x, y>> \in R <=> Over(x, y)
    OBVIOUS
  <1>2. \A x \in S : x \in Int /\ Wmat(u, x) \in Nat
    BY NumNodeAssumption DEF Node
  <1>3. \E v \in S : \A y \in S : Over(v, y)
    <2> HIDE DEF R
    <2>1. \A x \in S : <<x, x>> \in R
      BY <1>1, <1>2
    <2>2. \A x, y \in S : <<x, y>> \in R \/ <<y, x>> \in R
      <3>1. \A x, y \in S : Over(x, y) \/ Over(y, x)
        BY <1>2
      <3> HIDE DEF Over
      <3>2. QED
        BY <1>1, <3>1, Zenon
    <2>3. \A x, y, z \in S : <<x, y>> \in R /\ <<y, z>> \in R => <<x, z>> \in R
      BY <1>1, <1>2
    <2>4. IsFiniteSet(S)
      BY NodeFinite
    <2>5. \E v \in S : \A y \in S : <<v, y>> \in R
      BY <2>1, <2>2, <2>3, <2>4, FiniteTop
    <2>6. QED
      BY <1>1, <2>5
  <1>4. Heaviest(S) \in S /\ \A y \in S : Over(Heaviest(S), y)
    BY <1>3 DEF Heaviest
  <1>5. QED
    BY <1>2, <1>4
-----------------------------------------------------------------------------
(****************************************************************************)
(* The remaining graph, its degrees and the capacities.                      *)
(****************************************************************************)
\* Only edges of the input remain, so every remaining edge has a weight.
RemainingInInput == \A x \in Node : \A y \in Amat[x] : EdgeOf(x, y) \in DOMAIN ijw

GraphInv == TypeOK /\ DegreesMatchGraph /\ EdgesNeedCapacity /\ RemainingInInput

\* The matrix of weights holds natural numbers.
LEMMA WeightIsNat ==
  ASSUME GraphInv, NEW x \in Node, NEW y \in Amat[x]
  PROVE  Wmat(x, y) \in Nat
  BY DEF GraphInv, TypeOK, RemainingInInput, Wmat

\* What a visit of u finds: the degree it computes is that of the neighbours
\* it leaves u with, and on the last unit of capacity u is not among them.
LEMMA AtVisit ==
  ASSUME GraphInv, pc = "walk"
  PROVE  /\ u \in Node
         /\ bcap_vec[u] \in Nat /\ bcap_vec[u] > 0
         /\ NbrsAtVisit \in SUBSET Amat[u]
         /\ NbrsAtVisit \in SUBSET Node
         /\ Exhausted => u \notin NbrsAtVisit
         /\ ~ Exhausted => NbrsAtVisit = Amat[u]
         /\ DegAtVisit \in Nat
         /\ DegAtVisit = Cardinality(NbrsAtVisit) + (IF u \in NbrsAtVisit THEN 1 ELSE 0)
         /\ DegAtVisit = 0 <=> NbrsAtVisit = {}
  <1>1. /\ u \in Node /\ Amat[u] \in SUBSET Node
        /\ bcap_vec[u] \in Nat /\ bcap_vec[u] > 0 /\ deg_vec[u] \in Nat
    BY DEF GraphInv, TypeOK, EdgesNeedCapacity
  <1>2. IsFiniteSet(Amat[u]) /\ Cardinality(Amat[u]) \in Nat
    BY <1>1, NodeFinite, FS_CardinalityType
  <1>3. deg_vec[u] = Cardinality(Amat[u]) + (IF u \in Amat[u] THEN 1 ELSE 0)
    BY <1>1 DEF GraphInv, DegreesMatchGraph
  <1>4. DegAtVisit = Cardinality(NbrsAtVisit) + (IF u \in NbrsAtVisit THEN 1 ELSE 0)
    <2>1. CASE LoopCut
      <3>1. /\ u \in Amat[u] /\ NbrsAtVisit = Amat[u] \ {u}
            /\ DegAtVisit = Max({0, deg_vec[u] - 2})
        BY <2>1 DEF LoopCut, NbrsAtVisit, DegAtVisit
      <3>2. Cardinality(Amat[u] \ {u}) = Cardinality(Amat[u]) - 1
        BY <1>2, <3>1, FS_RemoveElement
      <3>3. Cardinality(Amat[u] \ {u}) \in Nat
        BY <1>2, FS_RemoveElement, FS_CardinalityType
      <3>4. deg_vec[u] - 2 = Cardinality(Amat[u] \ {u})
        BY <1>2, <1>3, <3>1, <3>2
      <3>5. Max({0, deg_vec[u] - 2}) = deg_vec[u] - 2
        BY <3>3, <3>4 DEF Max
      <3>6. u \notin NbrsAtVisit
        BY <3>1
      <3>7. QED
        BY <3>1, <3>3, <3>4, <3>5, <3>6
    <2>2. CASE ~ LoopCut
      BY <1>3, <2>2 DEF NbrsAtVisit, DegAtVisit
    <2>3. QED
      BY <2>1, <2>2
  <1>5. /\ NbrsAtVisit \in SUBSET Amat[u]
        /\ Exhausted => u \notin NbrsAtVisit
        /\ ~ Exhausted => NbrsAtVisit = Amat[u]
    BY DEF NbrsAtVisit, LoopCut
  <1>6. IsFiniteSet(NbrsAtVisit) /\ Cardinality(NbrsAtVisit) \in Nat
    BY <1>2, <1>5, FS_Subset, FS_CardinalityType
  <1>7. Cardinality(NbrsAtVisit) = 0 <=> NbrsAtVisit = {}
    BY <1>6, FS_EmptySet
  <1>8. QED
    BY <1>1, <1>4, <1>5, <1>6, <1>7

\* At the call of init() the degrees counted over the edge list are those of
\* the two-directional adjacency built from it.
LEMMA InputDegreeMatches ==
  ASSUME NEW w, DOMAIN w \subseteq Edge, NEW x \in Node
  PROVE  LET nbrs == Neighbours(w)[x]
         IN  InputDegree(w)[x] = Cardinality(nbrs) + (IF x \in nbrs THEN 1 ELSE 0)
  <1> DEFINE E == DOMAIN w
             Out == {y \in Node : <<x, y>> \in E}
             In == {y \in Node : <<y, x>> \in E}
             From == {e \in E : e[1] = x}
             To == {e \in E : e[2] = x}
  <1>1. \A e \in E : e \in Node \X Node /\ e[1] <= e[2]
    BY DEF Edge
  <1>2. Cardinality(From) = Cardinality(Out) /\ IsFiniteSet(Out)
    <2>1. IsFiniteSet(Out)
      BY NodeFinite
    <2> DEFINE f == [y \in Out |-> <<x, y>>]
    <2>2. f \in [Out -> From]
      OBVIOUS
    <2>3. \A a, b \in Out : f[a] = f[b] => a = b
      OBVIOUS
    <2>4. \A t \in From : \E s \in Out : f[s] = t
      <3> SUFFICES ASSUME NEW t \in From PROVE \E s \in Out : f[s] = t
        OBVIOUS
      <3>1. t[2] \in Out /\ f[t[2]] = t
        BY <1>1
      <3>2. QED
        BY <3>1
    <2> HIDE DEF f, Out, From
    <2>5. QED
      BY <2>1, <2>2, <2>3, <2>4, SameCardinality
  <1>3. Cardinality(To) = Cardinality(In) /\ IsFiniteSet(In)
    <2>1. IsFiniteSet(In)
      BY NodeFinite
    <2> DEFINE f == [y \in In |-> <<y, x>>]
    <2>2. f \in [In -> To]
      OBVIOUS
    <2>3. \A a, b \in In : f[a] = f[b] => a = b
      OBVIOUS
    <2>4. \A t \in To : \E s \in In : f[s] = t
      <3> SUFFICES ASSUME NEW t \in To PROVE \E s \in In : f[s] = t
        OBVIOUS
      <3>1. t[1] \in In /\ f[t[1]] = t
        BY <1>1
      <3>2. QED
        BY <3>1
    <2> HIDE DEF f, In, To
    <2>5. QED
      BY <2>1, <2>2, <2>3, <2>4, SameCardinality
  <1>4. Neighbours(w)[x] = Out \cup In
    <2>1. \A y \in Node : x \in Int /\ y \in Int
      BY NumNodeAssumption DEF Node
    <2>2. \A y \in Node : EdgeOf(x, y) \in E <=> y \in Out \/ y \in In
      BY <1>1, <2>1 DEF EdgeOf
    <2>3. QED
      BY <2>2 DEF Neighbours
  <1>5. Out \cap In = IF x \in Out \cup In THEN {x} ELSE {}
    <2>1. \A y \in Node : y \in Out /\ y \in In => y = x
      BY <1>1, NumNodeAssumption DEF Node
    <2>2. x \in Out <=> x \in In
      OBVIOUS
    <2>3. QED
      BY <2>1, <2>2
  <1>6. Cardinality(Out \cap In) = IF x \in Out \cup In THEN 1 ELSE 0
    BY <1>5, FS_Singleton, FS_EmptySet
  <1>7. Cardinality(Out \cup In) = Cardinality(Out) + Cardinality(In) - Cardinality(Out \cap In)
    BY <1>2, <1>3, FS_Union
  <1>8. Cardinality(Out) \in Nat /\ Cardinality(In) \in Nat
    BY <1>2, <1>3, FS_CardinalityType
  <1>9. InputDegree(w)[x] = Cardinality(From) + Cardinality(To)
    BY DEF InputDegree, Degree
  <1>10. QED
    <2> HIDE DEF E, Out, In, From, To
    <2>1. InputDegree(w)[x] = Cardinality(Out) + Cardinality(In)
      BY <1>2, <1>3, <1>9
    <2>2. InputDegree(w)[x] = Cardinality(Out \cup In) + (IF x \in Out \cup In THEN 1 ELSE 0)
      BY <2>1, <1>6, <1>7, <1>8
    <2>3. QED
      BY <2>2, <1>4

\* init() makes a symmetric graph with its degrees.
LEMMA GraphInvInit == Init => GraphInv
  <1> SUFFICES ASSUME Init PROVE GraphInv
    OBVIOUS
  <1>1. PICK E \in EdgeSets : ijw \in [E -> Weights]
    BY DEF Init
  <1>2. DOMAIN ijw \subseteq Edge /\ ijw \in [DOMAIN ijw -> Nat \ {0}]
    BY <1>1, InputAssumption
  <1>3. deg_bdd \in [Node -> Nat] /\ bcap_vec = Capacity(deg_bdd)
    BY InputAssumption DEF Init
  <1>4. Amat = Neighbours(ijw) /\ Amat \in [Node -> SUBSET Node]
    BY DEF Init, Neighbours
  <1>5. DegreesMatchGraph
    <2>1. \A x \in Node : deg_vec[x] = Cardinality(Amat[x]) + (IF x \in Amat[x] THEN 1 ELSE 0)
      BY <1>2, <1>4, InputDegreeMatches DEF Init
    <2>2. \A x \in Node : \A y \in Amat[x] : x \in Amat[y]
      BY <1>4, EdgeOfSymmetric DEF Neighbours
    <2>3. QED
      BY <2>1, <2>2 DEF DegreesMatchGraph
  <1>6. bcap_vec \in [Node -> Nat] /\ \A x \in Node : deg_bdd[x] >= DegUnit => bcap_vec[x] > 0
    BY <1>3, InputAssumption DEF Capacity
  <1>7. EdgesNeedCapacity
    BY <1>4, <1>6 DEF Init, IsClamped, EdgesNeedCapacity
  <1>8. deg_vec \in [Node -> Nat]
    <2>1. \A x \in Node : Cardinality(Amat[x]) \in Nat
      BY <1>4, NodeFinite, FS_CardinalityType
    <2>2. \A x \in Node : deg_vec[x] \in Nat
      BY <1>5, <2>1 DEF DegreesMatchGraph
    <2>3. DOMAIN deg_vec = Node /\ deg_vec = [x \in Node |-> deg_vec[x]]
      BY DEF Init, InputDegree
    <2>4. QED
      BY <2>2, <2>3
  <1>9. RemainingInInput
    BY <1>4 DEF RemainingInInput, Neighbours
  <1>10. TypeOK
    BY <1>2, <1>3, <1>4, <1>6, <1>8, NumNodeAssumption DEF Init, TypeOK
  <1>11. QED
    BY <1>5, <1>7, <1>9, <1>10 DEF GraphInv

\* Leaving u for v keeps the degrees in step with the graph: u and everything
\* it is cut off from lose one edge each, a self-loop costs u two.
LEMMA WalkStepDegrees ==
  ASSUME GraphInv, WalkStep
  PROVE  DegreesMatchGraph' /\ Amat' \in [Node -> SUBSET Node] /\ deg_vec' \in [Node -> Nat]
  <1> DEFINE v == Heaviest(NbrsAtVisit)
  <1>0. pc = "walk"
    BY DEF WalkStep
  <1>1. v \in NbrsAtVisit
    <2>1. NbrsAtVisit # {} /\ NbrsAtVisit \in SUBSET Node /\ u \in Node
      BY <1>0, AtVisit DEF WalkStep
    <2>2. \A y \in NbrsAtVisit : Wmat(u, y) \in Nat
      BY <1>0, <2>1, AtVisit, WeightIsNat
    <2>3. QED
      BY <2>1, <2>2, HeaviestIsNeighbour
  <1>2. Amat \in [Node -> SUBSET Node] /\ deg_vec \in [Node -> Nat]
    BY DEF GraphInv, TypeOK
  <1>3. /\ u \in Node /\ NbrsAtVisit \in SUBSET Amat[u] /\ NbrsAtVisit \in SUBSET Node
        /\ Exhausted => u \notin NbrsAtVisit
        /\ ~ Exhausted => NbrsAtVisit = Amat[u]
        /\ DegAtVisit \in Nat
        /\ DegAtVisit = Cardinality(NbrsAtVisit) + (IF u \in NbrsAtVisit THEN 1 ELSE 0)
    BY <1>0, AtVisit
  <1>4. Dropped(v) = IF Exhausted THEN NbrsAtVisit ELSE {v}
    BY DEF Dropped
  <1>5. Amat' = [x \in Node |-> IF x = u THEN NbrsAtVisit \ Dropped(v)
                                 ELSE IF x \in Dropped(v) THEN Amat[x] \ {u}
                                 ELSE Amat[x]]
    BY DEF WalkStep
  <1>6. deg_vec' = [x \in Node |-> IF x = u THEN DegLeft(v)
                                    ELSE IF x \in Dropped(v) THEN deg_vec[x] - 1
                                    ELSE deg_vec[x]]
    BY DEF WalkStep
  <1> HIDE DEF v
  <1>7. \A x \in Node : IsFiniteSet(Amat[x]) /\ Cardinality(Amat[x]) \in Nat
    BY <1>2, NodeFinite, FS_CardinalityType
  <1>8. \A x \in Node : /\ deg_vec[x] = Cardinality(Amat[x]) + (IF x \in Amat[x] THEN 1 ELSE 0)
                        /\ \A y \in Amat[x] : x \in Amat[y]
    BY DEF GraphInv, DegreesMatchGraph
  <1>9. Dropped(v) \in SUBSET NbrsAtVisit
    BY <1>1, <1>4
  <1>10. Amat' \in [Node -> SUBSET Node]
    BY <1>2, <1>3, <1>5
  <1>11. ASSUME NEW x \in Node, x = u
         PROVE  /\ deg_vec'[x] \in Nat
                /\ deg_vec'[x] = Cardinality(Amat'[x]) + (IF x \in Amat'[x] THEN 1 ELSE 0)
    <2>1. Amat'[x] = NbrsAtVisit \ Dropped(v) /\ deg_vec'[x] = DegLeft(v)
      BY <1>5, <1>6, <1>11
    <2>2. CASE Exhausted
      <3>1. Amat'[x] = {} /\ deg_vec'[x] = 0
        BY <1>4, <2>1, <2>2 DEF DegLeft
      <3>2. QED
        BY <3>1, FS_EmptySet
    <2>3. CASE ~ Exhausted
      <3>1. Amat'[x] = Amat[u] \ {v} /\ deg_vec'[x] = DegAtVisit - (IF v = u THEN 2 ELSE 1)
        BY <1>3, <1>4, <2>1, <2>3 DEF DegLeft
      <3>2. v \in Amat[u] /\ DegAtVisit = Cardinality(Amat[u]) + (IF u \in Amat[u] THEN 1 ELSE 0)
        BY <1>1, <1>3, <2>3
      <3>3. Cardinality(Amat'[x]) = Cardinality(Amat[u]) - 1 /\ Cardinality(Amat'[x]) \in Nat
        BY <1>3, <1>7, <3>1, <3>2, FS_RemoveElement, FS_CardinalityType
      <3>4. u \in Amat'[x] <=> u \in Amat[u] /\ v # u
        BY <3>1
      <3>5. QED
        BY <1>3, <1>7, <1>11, <3>1, <3>2, <3>3, <3>4
    <2>4. QED
      BY <2>2, <2>3
  <1>12. ASSUME NEW x \in Node, x # u
         PROVE  /\ deg_vec'[x] \in Nat
                /\ deg_vec'[x] = Cardinality(Amat'[x]) + (IF x \in Amat'[x] THEN 1 ELSE 0)
    <2>1. CASE x \in Dropped(v)
      <3>1. Amat'[x] = Amat[x] \ {u} /\ deg_vec'[x] = deg_vec[x] - 1
        BY <1>5, <1>6, <1>12, <2>1
      <3>2. u \in Amat[x]
        BY <1>3, <1>8, <1>9, <2>1
      <3>3. Cardinality(Amat'[x]) = Cardinality(Amat[x]) - 1 /\ Cardinality(Amat'[x]) \in Nat
        BY <1>7, <3>1, <3>2, FS_RemoveElement, FS_CardinalityType
      <3>4. x \in Amat'[x] <=> x \in Amat[x]
        BY <1>12, <3>1
      <3>5. QED
        BY <1>7, <1>8, <3>1, <3>3, <3>4
    <2>2. CASE x \notin Dropped(v)
      <3>1. Amat'[x] = Amat[x] /\ deg_vec'[x] = deg_vec[x]
        BY <1>5, <1>6, <1>12, <2>2
      <3>2. QED
        BY <1>2, <1>8, <3>1
    <2>3. QED
      BY <2>1, <2>2
  <1>13. ASSUME NEW x \in Node, NEW y \in Amat'[x]
         PROVE  x \in Amat'[y]
    <2>1. y \in Node /\ y \in Amat[x] /\ x \in Amat[y]
      BY <1>2, <1>3, <1>5, <1>8, <1>10, <1>13
    <2>2. CASE x = u
      <3>1. y \in NbrsAtVisit /\ y \notin Dropped(v)
        BY <1>5, <1>13, <2>2
      <3>2. QED
        BY <1>5, <2>1, <2>2, <3>1
    <2>3. CASE x # u /\ y = u
      <3>1. x \notin Dropped(v)
        BY <1>5, <1>13, <2>3
      <3>2. ~ Exhausted
        BY <1>3, <1>4, <1>5, <2>1, <2>3, <3>1 DEF NbrsAtVisit, LoopCut
      <3>3. x \in NbrsAtVisit
        BY <1>3, <2>1, <2>3, <3>2
      <3>4. QED
        BY <1>5, <2>1, <2>3, <3>1, <3>3
    <2>4. CASE x # u /\ y # u
      BY <1>5, <2>1, <2>4
    <2>5. QED
      BY <2>2, <2>3, <2>4
  <1>14. deg_vec' \in [Node -> Nat]
    BY <1>6, <1>11, <1>12
  <1>15. QED
    BY <1>10, <1>11, <1>12, <1>13, <1>14 DEF DegreesMatchGraph

\* The edge a walk takes is still in the graph.
LEMMA HeaviestIsRemaining ==
  ASSUME GraphInv, WalkStep
  PROVE  /\ Heaviest(NbrsAtVisit) \in NbrsAtVisit
         /\ Heaviest(NbrsAtVisit) \in Amat[u]
         /\ u \in Node /\ Heaviest(NbrsAtVisit) \in Node
         /\ EdgeOf(u, Heaviest(NbrsAtVisit)) \in Edge
         /\ EdgeOf(u, Heaviest(NbrsAtVisit)) \in DOMAIN ijw
         /\ \A y \in NbrsAtVisit : Wmat(u, y) <= Wmat(u, Heaviest(NbrsAtVisit))
  <1>1. /\ NbrsAtVisit # {} /\ NbrsAtVisit \in SUBSET Node /\ u \in Node
        /\ NbrsAtVisit \in SUBSET Amat[u]
    BY AtVisit DEF WalkStep
  <1>2. \A y \in NbrsAtVisit : Wmat(u, y) \in Nat
    BY <1>1, WeightIsNat
  <1>3. /\ Heaviest(NbrsAtVisit) \in NbrsAtVisit
        /\ \A y \in NbrsAtVisit : Wmat(u, y) <= Wmat(u, Heaviest(NbrsAtVisit))
    BY <1>1, <1>2, HeaviestIsNeighbour
  <1>4. QED
    BY <1>1, <1>3, EdgeOfIsEdge DEF GraphInv, RemainingInInput

\* The heavier half of a walk is one of its two halves, a list of its edges.
LEMMA HalfType ==
  ASSUME NEW s \in Seq(Edge), NEW h \in 1 .. 2
  PROVE  /\ Half(s, h) \in Seq(Edge)
         /\ Len(Half(s, h)) = (Len(s) + 2 - h) \div 2
         /\ \A k \in 1 .. Len(Half(s, h)) :
              2 * k - 2 + h \in 1 .. Len(s) /\ Half(s, h)[k] = s[2 * k - 2 + h]
  <1>1. Len(s) \in Nat
    BY LenProperties
  <1>2. (Len(s) + 2 - h) \div 2 \in Nat
    BY <1>1
  <1>3. \A k \in 1 .. (Len(s) + 2 - h) \div 2 : 2 * k - 2 + h \in 1 .. Len(s)
    BY <1>1
  <1>4. \A k \in 1 .. (Len(s) + 2 - h) \div 2 : s[2 * k - 2 + h] \in Edge
    BY <1>3, ElementOfSeq
  <1>5. QED
    BY <1>2, <1>3, <1>4 DEF Half

\* The heavier half of a list of edges is one.
LEMMA HeavyHalfType ==
  ASSUME NEW s \in Seq(Edge)
  PROVE  \E h \in 1 .. 2 : HeavyHalf(s) = Half(s, h) /\ Half(s, h) \in Seq(Edge)
  BY HalfType DEF HeavyHalf

\* No step disturbs the bookkeeping of the graph.
LEMMA GraphInvStep ==
  ASSUME GraphInv, [Next]_vars
  PROVE  GraphInv'
  <1> USE DEF GraphInv
  <1>1. CASE PickNode
    <2>1. u' \in Node
      <3>1. Startable \in SUBSET Node /\ Startable # {}
        BY <1>1 DEF PickNode, Startable
      <3>2. Startable \in SUBSET Int /\ IsFiniteSet(Startable)
        BY <3>1, NodeFinite, NumNodeAssumption DEF Node
      <3>3. QED
        BY <1>1, <3>1, <3>2, MinIsLeast DEF PickNode
    <2>2. bcap_vec[u'] > 0
      <3>1. Startable \in SUBSET Int /\ IsFiniteSet(Startable) /\ Startable # {}
        BY <1>1, NodeFinite, NumNodeAssumption DEF PickNode, Startable, Node
      <3>2. u' \in Startable
        BY <1>1, <3>1, MinIsLeast DEF PickNode
      <3>3. QED
        BY <3>2 DEF Startable
    <2>3. TypeOK'
      BY <1>1, <2>1, NumNodeAssumption DEF PickNode, TypeOK, graph, Node
    <2>4. QED
      BY <1>1, <2>2, <2>3
      DEF PickNode, graph, DegreesMatchGraph, EdgesNeedCapacity, RemainingInInput
  <1>2. CASE Finish
    BY <1>2, NumNodeAssumption
    DEF Finish, graph, TypeOK, DegreesMatchGraph, EdgesNeedCapacity, RemainingInInput
  <1>3. CASE WalkStop
    <2>1. /\ u \in Node /\ bcap_vec[u] \in Nat /\ bcap_vec[u] > 0
          /\ NbrsAtVisit = {} /\ DegAtVisit = 0
          /\ ~ Exhausted => NbrsAtVisit = Amat[u]
      BY <1>3, AtVisit DEF WalkStop
    <2>2. Amat \in [Node -> SUBSET Node] /\ deg_vec \in [Node -> Nat] /\ bcap_vec \in [Node -> Nat]
      BY DEF TypeOK
    <2>3. /\ Amat' = [Amat EXCEPT ![u] = {}]
          /\ deg_vec' = [deg_vec EXCEPT ![u] = 0]
          /\ bcap_vec' = [bcap_vec EXCEPT ![u] = bcap_vec[u] - 1]
          /\ pc' = "append"
      BY <1>3, <2>1 DEF WalkStop
    <2>4. TypeOK'
      BY <1>3, <2>1, <2>2, <2>3 DEF WalkStop, TypeOK, graph
    <2>5. Amat[u] \in SUBSET {u}
      BY <2>1 DEF NbrsAtVisit, LoopCut
    <2>6. DegreesMatchGraph'
      <3>1. \A x \in Node : \A y \in Amat'[x] : x \in Amat'[y]
        BY <2>1, <2>2, <2>3, <2>5 DEF DegreesMatchGraph
      <3>2. deg_vec'[u] = Cardinality(Amat'[u]) + (IF u \in Amat'[u] THEN 1 ELSE 0)
        BY <2>1, <2>2, <2>3, FS_EmptySet
      <3>3. \A x \in Node \ {u} : /\ Amat'[x] = Amat[x] /\ deg_vec'[x] = deg_vec[x]
                                 /\ deg_vec[x] = Cardinality(Amat[x]) + (IF x \in Amat[x] THEN 1 ELSE 0)
        BY <2>2, <2>3 DEF DegreesMatchGraph
      <3>4. QED
        BY <3>1, <3>2, <3>3 DEF DegreesMatchGraph
    <2>7. EdgesNeedCapacity'
      BY <2>1, <2>2, <2>3 DEF EdgesNeedCapacity
    <2>8. RemainingInInput'
      BY <1>3, <2>1, <2>2, <2>3 DEF WalkStop, graph, RemainingInInput
    <2>9. QED
      BY <2>4, <2>6, <2>7, <2>8
  <1>4. CASE WalkStep
    <2> DEFINE v == Heaviest(NbrsAtVisit)
    <2>1. /\ v \in NbrsAtVisit /\ v \in Amat[u] /\ u \in Node /\ v \in Node /\ EdgeOf(u, v) \in Edge
      BY <1>4, HeaviestIsRemaining
    <2>2. /\ bcap_vec[u] \in Nat /\ bcap_vec[u] > 0 /\ NbrsAtVisit \in SUBSET Amat[u]
          /\ Exhausted => u \notin NbrsAtVisit
      BY <1>4, AtVisit DEF WalkStep
    <2>3. DegreesMatchGraph' /\ Amat' \in [Node -> SUBSET Node] /\ deg_vec' \in [Node -> Nat]
      BY <1>4, WalkStepDegrees
    <2>4. /\ bcap_vec' = [bcap_vec EXCEPT ![u] = bcap_vec[u] - 1]
          /\ bcap_vec' \in [Node -> Nat]
          /\ M_walk' = Append(M_walk, EdgeOf(u, v)) /\ u' = v
          /\ UNCHANGED <<ijw, deg_bdd, B_match, pc>>
      BY <1>4, <2>1, <2>2 DEF WalkStep, graph, TypeOK
    <2>5. Amat' = [x \in Node |-> IF x = u THEN NbrsAtVisit \ Dropped(v)
                                   ELSE IF x \in Dropped(v) THEN Amat[x] \ {u}
                                   ELSE Amat[x]]
      BY <1>4 DEF WalkStep
    <2> HIDE DEF v
    <2>6. M_walk' \in Seq(Edge)
      BY <2>1, <2>4, AppendProperties DEF TypeOK
    <2>7. TypeOK'
      BY SMTT(30), <2>1, <2>3, <2>4, <2>6, NumNodeAssumption DEF TypeOK, Node
    <2>8. \A x \in Node : Amat'[x] \in SUBSET Amat[x]
      BY <2>2, <2>5
    <2>9. EdgesNeedCapacity'
      <3>1. ASSUME NEW x \in Node, Amat'[x] # {} PROVE bcap_vec'[x] > 0
        <4>1. CASE x = u
          <5>1. ~ Exhausted
            BY <2>5, <3>1, <4>1 DEF Dropped
          <5>2. QED
            BY <2>1, <2>2, <2>4, <4>1, <5>1 DEF Exhausted, TypeOK
        <4>2. CASE x # u
          BY <2>4, <2>8, <3>1, <4>2 DEF EdgesNeedCapacity, TypeOK
        <4>3. QED
          BY <4>1, <4>2
      <3>2. bcap_vec'[v] > 0
        <4>1. CASE v = u
          <5>1. ~ Exhausted
            BY <2>1, <2>2, <4>1
          <5>2. QED
            BY <2>1, <2>2, <2>4, <4>1, <5>1 DEF Exhausted, TypeOK
        <4>2. CASE v # u
          <5>1. Amat[v] # {}
            BY <2>1 DEF DegreesMatchGraph
          <5>2. QED
            BY <2>1, <2>4, <4>2, <5>1 DEF EdgesNeedCapacity, TypeOK
        <4>3. QED
          BY <4>1, <4>2
      <3>3. QED
        BY <2>4, <3>1, <3>2 DEF EdgesNeedCapacity
    <2>10. RemainingInInput'
      BY <2>4, <2>8 DEF RemainingInInput
    <2>11. QED
      BY <2>3, <2>7, <2>9, <2>10
  <1>5. CASE AppendHalf
    <2>1. B_match' \in Seq(Edge)
      BY <1>5, HeavyHalfType, ConcatProperties DEF AppendHalf, TypeOK
    <2>2. QED
      BY <1>5, <2>1
      DEF AppendHalf, graph, TypeOK, DegreesMatchGraph, EdgesNeedCapacity, RemainingInInput
  <1>6. CASE UNCHANGED vars
    BY <1>6 DEF vars, TypeOK, DegreesMatchGraph, EdgesNeedCapacity, RemainingInInput
  <1>7. QED
    BY <1>1, <1>2, <1>3, <1>4, <1>5, <1>6 DEF Next, Solve, Walk, Terminated

\* The types, the program's own -XXX- self-check at every loop head and for
\* every node, and that no visit overdraws a node's capacity.
LEMMA GraphInvHolds == Spec => []GraphInv
  <1>1. Init => GraphInv
    BY GraphInvInit
  <1>2. GraphInv /\ [Next]_vars => GraphInv'
    BY GraphInvStep
  <1>3. QED
    BY <1>1, <1>2, PTL DEF Spec

\* Every variable stays within its type: bcap_vec and deg_vec never turn
\* negative although solve() decrements them unguarded.
THEOREM TypeCorrect == Spec => []TypeOK
  <1>1. GraphInv => TypeOK
    BY DEF GraphInv
  <1>2. QED
    BY <1>1, GraphInvHolds, PTL

\* The self-check of solve() never fires: the degrees kept by decrementing are
\* those of the remaining graph, at every node and not only at the node tested.
THEOREM SelfCheckHolds == Spec => []DegreesMatchGraph
  <1>1. GraphInv => DegreesMatchGraph
    BY DEF GraphInv
  <1>2. QED
    BY <1>1, GraphInvHolds, PTL

\* The walk only arrives at nodes with capacity to pay for the visit.
THEOREM VisitsHaveCapacity == Spec => []EdgesNeedCapacity
  <1>1. GraphInv => EdgesNeedCapacity
    BY DEF GraphInv
  <1>2. QED
    BY <1>1, GraphInvHolds, PTL
-----------------------------------------------------------------------------
(****************************************************************************)
(* The two halves of a walk.                                                 *)
(****************************************************************************)
LEMMA HalfEmpty == \A h \in 1 .. 2 : Half(<<>>, h) = <<>>
  <1> SUFFICES ASSUME NEW h \in 1 .. 2 PROVE Half(<<>>, h) = <<>>
    OBVIOUS
  <1>1. <<>> \in Seq(Edge) /\ Len(<<>>) = 0
    OBVIOUS
  <1>2. (0 + 2 - h) \div 2 = 0
    OBVIOUS
  <1>3. Half(<<>>, h) \in Seq(Edge) /\ Len(Half(<<>>, h)) = 0
    BY <1>1, <1>2, HalfType
  <1> HIDE DEF Half
  <1>4. QED
    BY <1>3, EmptySeq

\* An edge appended to a walk joins the half of its own parity; the other half
\* stays as it is.
LEMMA HalfAppend ==
  ASSUME NEW s \in Seq(Edge), NEW e \in Edge, NEW h \in 1 .. 2
  PROVE  Half(Append(s, e), h) = IF (Len(s) + 1) % 2 = h % 2 THEN Append(Half(s, h), e)
                                 ELSE Half(s, h)
  <1> DEFINE t == Append(s, e)
             n == Len(s)
             m == (n + 2 - h) \div 2
             M == (n + 3 - h) \div 2
  <1>1. /\ n \in Nat /\ t \in Seq(Edge) /\ Len(t) = n + 1
        /\ t[n + 1] = e /\ \A k \in 1 .. n : t[k] = s[k]
    BY AppendProperties, LenProperties
  <1>2. /\ Half(s, h) \in Seq(Edge) /\ Len(Half(s, h)) = m
        /\ \A k \in 1 .. m : 2 * k - 2 + h \in 1 .. n /\ Half(s, h)[k] = s[2 * k - 2 + h]
    BY ZenonT(40), HalfType
  <1> HIDE DEF t
  <1>3. n + 1 + 2 - h = n + 3 - h
    BY <1>1
  <1>4. /\ Half(t, h) \in Seq(Edge) /\ Len(Half(t, h)) = M
        /\ \A k \in 1 .. M : Half(t, h)[k] = t[2 * k - 2 + h]
    <2>1. /\ Half(t, h) \in Seq(Edge) /\ Len(Half(t, h)) = (Len(t) + 2 - h) \div 2
          /\ \A k \in 1 .. Len(Half(t, h)) : Half(t, h)[k] = t[2 * k - 2 + h]
      BY <1>1, HalfType
    <2>2. (Len(t) + 2 - h) \div 2 = M
      BY <1>1, <1>3
    <2>3. QED
      BY <2>1, <2>2
  <1>5. \A k \in 1 .. m : t[2 * k - 2 + h] = Half(s, h)[k]
    BY <1>1, <1>2
  <1> HIDE DEF n
  <1>6. CASE (n + 1) % 2 = h % 2
    <2>1. M = m + 1 /\ m \in Nat /\ 2 * (m + 1) - 2 + h = n + 1
      BY <1>1, <1>6
    <2> HIDE DEF m, M
    <2> DEFINE a == Append(Half(s, h), e)
    <2>2. /\ a \in Seq(Edge) /\ Len(a) = m + 1
          /\ \A k \in 1 .. m : a[k] = Half(s, h)[k]
          /\ a[m + 1] = e
      BY <1>2, <2>1, AppendProperties
    <2> HIDE DEF a
    <2>3. \A k \in 1 .. m + 1 : Half(t, h)[k] = a[k]
      BY <1>1, <1>4, <1>5, <2>1, <2>2
    <2>4. Half(t, h) = a
      BY <1>4, <2>1, <2>2, <2>3, SeqEqual
    <2>5. QED
      BY <1>6, <2>4 DEF a, t, n
  <1>7. CASE (n + 1) % 2 # h % 2
    <2>1. M = m
      BY <1>1, <1>7
    <2> HIDE DEF m, M
    <2>2. \A k \in 1 .. m : Half(t, h)[k] = Half(s, h)[k]
      BY <1>4, <1>5, <2>1
    <2>3. Half(t, h) = Half(s, h)
      BY <1>2, <1>4, <2>1, <2>2, SeqEqual
    <2>4. QED
      BY <1>7, <2>3 DEF t, n
  <1>8. QED
    BY <1>6, <1>7

-----------------------------------------------------------------------------
(****************************************************************************)
(* The degree bound.                                                         *)
(****************************************************************************)
\* What x has used up pays for its edges in the matching and either half.
Used(x) == Capacity(deg_bdd)[x] - bcap_vec[x]
Arrival(x, h) == IF pc = "walk" /\ x = u /\ WalkHeadInHalf(h) THEN 1 ELSE 0
Pays(x, h) == ListDegree(B_match, x) + ListDegree(Half(M_walk, h), x) <= Used(x) + Arrival(x, h)

DegreeInv == GraphInv /\ VisitsPayForEdges

\* The capacities are natural numbers.
LEMMA CapacityType ==
  ASSUME TypeOK, NEW x \in Node
  PROVE  Capacity(deg_bdd)[x] \in Nat /\ bcap_vec[x] \in Nat /\ Used(x) \in Int
  <1>1. deg_bdd \in [Node -> Nat] /\ bcap_vec[x] \in Nat
    BY DEF TypeOK
  <1>2. Capacity(deg_bdd) \in [Node -> Nat]
    BY <1>1, InputAssumption DEF Capacity
  <1>3. QED
    BY <1>1, <1>2 DEF Used

\* VisitsPayForEdges, node by node.
LEMMA VisitsPayIsPays ==
  VisitsPayForEdges <=>
    \A x \in Node : /\ ListDegree(B_match, x) <= Used(x)
                    /\ pc \in {"walk", "append"} => \A h \in 1 .. 2 : Pays(x, h)
  BY DEF VisitsPayForEdges, Used, Pays, Arrival

\* The degrees of matching and walk are natural numbers.
LEMMA DegreesAreNat ==
  ASSUME TypeOK, NEW x, NEW h \in 1 .. 2
  PROVE  ListDegree(B_match, x) \in Nat /\ ListDegree(Half(M_walk, h), x) \in Nat
  BY ListDegreeIsEnds, HalfType DEF TypeOK

\* Leaving u for v: u pays for the edge into the half of its parity, v owes
\* for its visit, and the other half has the unit u already owed for.
LEMMA WalkStepPays ==
  ASSUME DegreeInv, WalkStep, NEW x \in Node
  PROVE  /\ ListDegree(B_match, x)' <= Used(x)'
         /\ \A h \in 1 .. 2 : Pays(x, h)'
  <1> DEFINE v == Heaviest(NbrsAtVisit)
             n == Len(M_walk)
  <1>1. TypeOK /\ pc = "walk"
    BY DEF DegreeInv, GraphInv, WalkStep
  <1>2. u \in Node /\ v \in Node /\ EdgeOf(u, v) \in Edge
    BY HeaviestIsRemaining DEF DegreeInv
  <1>3. /\ bcap_vec' = [bcap_vec EXCEPT ![u] = @ - 1]
        /\ M_walk' = Append(M_walk, EdgeOf(u, v)) /\ u' = v
        /\ UNCHANGED <<ijw, deg_bdd, B_match, pc>>
    BY DEF WalkStep, graph
  <1>4. M_walk \in Seq(Edge) /\ n \in Nat /\ Len(M_walk') = n + 1
    BY <1>1, <1>2, <1>3, AppendProperties, LenProperties DEF TypeOK
  <1> HIDE DEF v
  <1>5. Used(x)' = Used(x) + (IF u = x THEN 1 ELSE 0)
    <2>1. Capacity(deg_bdd)' = Capacity(deg_bdd)
      BY <1>3 DEF Capacity
    <2>2. Capacity(deg_bdd)[x] \in Nat /\ bcap_vec[x] \in Nat
      BY <1>1, CapacityType
    <2>3. bcap_vec'[x] = bcap_vec[x] - (IF u = x THEN 1 ELSE 0)
      BY <1>1, <1>2, <1>3, <2>2 DEF TypeOK
    <2>4. QED
      BY <2>1, <2>2, <2>3 DEF Used
  <1>6. Used(x) \in Int
    BY <1>1, CapacityType
  <1>7. ListDegree(B_match, x) <= Used(x) /\ \A h \in 1 .. 2 : Pays(x, h)
    BY <1>1, VisitsPayIsPays DEF DegreeInv
  <1>8. ListDegree(B_match, x)' = ListDegree(B_match, x)
    BY <1>3 DEF ListDegree
  <1>9. ASSUME NEW h \in 1 .. 2
        PROVE  Pays(x, h)'
    <2>1. ListDegree(B_match, x) \in Nat /\ ListDegree(Half(M_walk, h), x) \in Nat
      BY <1>1, DegreesAreNat
    <2>2. ListDegree(B_match, x) + ListDegree(Half(M_walk, h), x)
            <= Used(x) + (IF x = u /\ n > 0 /\ n % 2 = h % 2 THEN 1 ELSE 0)
      BY <1>1, <1>7 DEF Pays, Arrival, WalkHeadInHalf
    <2>3. Half(M_walk', h) = IF (n + 1) % 2 = h % 2 THEN Append(Half(M_walk, h), EdgeOf(u, v))
                             ELSE Half(M_walk, h)
      BY <1>2, <1>3, <1>4, HalfAppend
    <2>4. Half(M_walk, h)' = Half(M_walk', h)
      BY DEF Half
    <2>5. Arrival(x, h)' = IF x = v /\ (n + 1) % 2 = h % 2 THEN 1 ELSE 0
      BY <1>1, <1>3, <1>4 DEF Arrival, WalkHeadInHalf
    <2>6. ListDegree(Half(M_walk, h), x)'
            = ListDegree(Half(M_walk, h), x)
              + (IF (n + 1) % 2 = h % 2
                 THEN (IF u = x THEN 1 ELSE 0) + (IF v = x THEN 1 ELSE 0) ELSE 0)
      <3>1. ListDegree(Half(M_walk, h), x)' = ListDegree(Half(M_walk', h), x)
        BY DEF ListDegree, Half
      <3>2. CASE (n + 1) % 2 = h % 2
        <4>1. Half(M_walk, h) \in Seq(Edge)
          BY <1>4, HalfType
        <4>2. ListDegree(Append(Half(M_walk, h), EdgeOf(u, v)), x)
                = ListDegree(Half(M_walk, h), x) + (IF EdgeOf(u, v)[1] = x THEN 1 ELSE 0)
                                                 + (IF EdgeOf(u, v)[2] = x THEN 1 ELSE 0)
          BY <1>2, <4>1, ListDegreeAppend
        <4>3. (IF EdgeOf(u, v)[1] = x THEN 1 ELSE 0) + (IF EdgeOf(u, v)[2] = x THEN 1 ELSE 0)
                = (IF u = x THEN 1 ELSE 0) + (IF v = x THEN 1 ELSE 0)
          BY DEF EdgeOf
        <4>4. QED
          BY <2>1, <2>3, <3>1, <3>2, <4>2, <4>3
      <3>3. CASE (n + 1) % 2 # h % 2
        BY <2>1, <2>3, <3>1, <3>3
      <3>4. QED
        BY <3>2, <3>3
    <2>7. CASE (n + 1) % 2 = h % 2
      <3>1. n % 2 # h % 2
        BY <1>4, <2>7
      <3>2. QED
        BY <1>5, <1>6, <1>8, <2>1, <2>2, <2>5, <2>6, <2>7, <3>1 DEF Pays
    <2>8. CASE (n + 1) % 2 # h % 2
      BY <1>5, <1>6, <1>8, <2>1, <2>2, <2>5, <2>6, <2>8 DEF Pays
    <2>9. QED
      BY <2>7, <2>8
  <1>10. ListDegree(B_match, x) \in Nat
    BY <1>1, DegreesAreNat
  <1>11. QED
    BY <1>5, <1>6, <1>7, <1>8, <1>9, <1>10

\* At the start nothing is chosen and nothing is paid.
LEMMA DegreeInvInit == Init => DegreeInv
  <1> SUFFICES ASSUME Init PROVE DegreeInv
    OBVIOUS
  <1>1. GraphInv /\ TypeOK
    BY GraphInvInit DEF GraphInv
  <1>2. ASSUME NEW x \in Node
        PROVE  ListDegree(B_match, x) <= Used(x) /\ pc \notin {"walk", "append"}
    <2>1. ListDegree(B_match, x) = 0
      BY ListDegreeEmpty DEF Init
    <2>2. Capacity(deg_bdd)[x] \in Nat /\ bcap_vec[x] = Capacity(deg_bdd)[x]
      BY <1>1, CapacityType DEF Init
    <2>3. QED
      BY <2>1, <2>2 DEF Init, Used
  <1>3. QED
    BY <1>1, <1>2, VisitsPayIsPays DEF DegreeInv

\* Every step pays for the edges it takes.
LEMMA DegreeInvStep ==
  ASSUME DegreeInv, [Next]_vars
  PROVE  DegreeInv'
  <1>1. GraphInv /\ TypeOK /\ GraphInv'
    BY GraphInvStep DEF DegreeInv, GraphInv
  <1>2. \A x \in Node : /\ ListDegree(B_match, x) <= Used(x)
                        /\ pc \in {"walk", "append"} => \A h \in 1 .. 2 : Pays(x, h)
    BY VisitsPayIsPays DEF DegreeInv
  <1> DEFINE Goal(x) == /\ (ListDegree(B_match, x) <= Used(x))'
                        /\ pc' \in {"walk", "append"} => \A h \in 1 .. 2 : Pays(x, h)'
  <1>3. SUFFICES ASSUME NEW x \in Node PROVE Goal(x)
    <2>1. VisitsPayForEdges' <=> \A x \in Node : Goal(x)
      BY DEF VisitsPayForEdges, Used, Pays, Arrival
    <2>2. QED
      BY <1>1, <1>3, <2>1 DEF DegreeInv
  <1>4. Used(x) \in Int /\ Capacity(deg_bdd)[x] \in Nat /\ bcap_vec[x] \in Nat
    BY <1>1, CapacityType
  <1>5. /\ ListDegree(B_match, x) \in Nat
        /\ \A h \in 1 .. 2 : ListDegree(Half(M_walk, h), x) \in Nat
    BY <1>1, DegreesAreNat, 1 \in 1 .. 2
  <1>6. CASE PickNode
    <2>1. /\ M_walk' = <<>> /\ pc' = "walk"
          /\ ListDegree(B_match, x)' = ListDegree(B_match, x) /\ Used(x)' = Used(x)
      BY <1>6 DEF PickNode, graph, Used, ListDegree, Capacity
    <2>2. ASSUME NEW h \in 1 .. 2
          PROVE  ListDegree(Half(M_walk, h), x)' = 0 /\ Arrival(x, h)' = 0
      <3>1. Half(M_walk', h) = <<>>
        BY <2>1, HalfEmpty
      <3>2. ListDegree(Half(M_walk', h), x) = 0
        BY <3>1, ListDegreeEmpty
      <3>3. ListDegree(Half(M_walk, h), x)' = ListDegree(Half(M_walk', h), x)
        BY DEF ListDegree, Half
      <3>4. ~ (Len(M_walk') > 0)
        BY <2>1
      <3>5. Arrival(x, h)' = 0
        BY <3>4 DEF Arrival, WalkHeadInHalf
      <3>6. QED
        BY <3>2, <3>3, <3>5
    <2>3. QED
      BY <1>2, <1>4, <1>5, <2>1, <2>2 DEF Pays
  <1>7. CASE Finish
    BY <1>2, <1>7 DEF Finish, graph, Used, ListDegree, Capacity
  <1>8. CASE WalkStop
    <2>1. /\ pc = "walk" /\ pc' = "append" /\ u \in Node
          /\ bcap_vec' = [bcap_vec EXCEPT ![u] = @ - 1]
          /\ UNCHANGED <<ijw, deg_bdd, M_walk, B_match, u>>
      BY <1>1, <1>8 DEF WalkStop, graph, TypeOK
    <2>2. Used(x)' = Used(x) + (IF u = x THEN 1 ELSE 0)
      <3>1. bcap_vec'[x] = bcap_vec[x] - (IF u = x THEN 1 ELSE 0)
        BY <1>1, <1>4, <2>1 DEF TypeOK
      <3>2. Capacity(deg_bdd)' = Capacity(deg_bdd)
        BY <2>1 DEF Capacity
      <3>3. QED
        BY <1>4, <3>1, <3>2 DEF Used
    <2>3. ListDegree(B_match, x)' = ListDegree(B_match, x)
      BY <2>1 DEF ListDegree
    <2>4. ASSUME NEW h \in 1 .. 2
          PROVE  Pays(x, h)'
      <3>1. /\ ListDegree(Half(M_walk, h), x)' = ListDegree(Half(M_walk, h), x)
            /\ Arrival(x, h)' = 0
        BY <2>1 DEF ListDegree, Half, Arrival
      <3>2. Arrival(x, h) \in 0 .. (IF u = x THEN 1 ELSE 0)
        BY DEF Arrival
      <3>3. Pays(x, h)
        BY <1>2, <2>1
      <3>4. QED
        BY <1>4, <1>5, <2>2, <2>3, <3>1, <3>2, <3>3 DEF Pays
    <2>5. QED
      BY <1>2, <1>4, <1>5, <2>2, <2>3, <2>4
  <1>9. CASE WalkStep
    BY <1>9, WalkStepPays DEF DegreeInv
  <1>10. CASE AppendHalf
    <2>1. /\ pc = "append" /\ pc' = "pick" /\ Used(x)' = Used(x)
          /\ B_match' = IF Len(M_walk) > 0 THEN B_match \o HeavyHalf(M_walk) ELSE B_match
      BY <1>10 DEF AppendHalf, graph, Used, Capacity
    <2>2. M_walk \in Seq(Edge) /\ B_match \in Seq(Edge)
      BY <1>1 DEF TypeOK
    <2>3. PICK h \in 1 .. 2 : HeavyHalf(M_walk) = Half(M_walk, h) /\ Half(M_walk, h) \in Seq(Edge)
      BY <2>2, HeavyHalfType
    <2>4. ListDegree(B_match \o Half(M_walk, h), x)
            = ListDegree(B_match, x) + ListDegree(Half(M_walk, h), x)
      BY <2>2, <2>3, ListDegreeConcat
    <2>5. ListDegree(B_match, x)' = ListDegree(B_match', x)
      BY DEF ListDegree
    <2>6. Pays(x, h) /\ Arrival(x, h) = 0
      BY <1>2, <2>1 DEF Arrival
    <2>7. ListDegree(B_match', x) <= Used(x)
      BY <1>2, <1>4, <1>5, <2>1, <2>3, <2>4, <2>6 DEF Pays
    <2>8. QED
      BY <2>1, <2>5, <2>7
  <1>11. CASE UNCHANGED vars
    BY <1>2, <1>11 DEF vars, Used, ListDegree, Capacity, Pays, Arrival, Half, WalkHeadInHalf
  <1>12. QED
    BY <1>6, <1>7, <1>8, <1>9, <1>10, <1>11 DEF Next, Solve, Walk, Terminated

\* Every visit pays for the edges it leaves in the matching and in either half
\* of the walk: why the parity split of a walk cannot break a bound.
THEOREM VisitsPay == Spec => []VisitsPayForEdges
  <1>1. Init => DegreeInv
    BY DegreeInvInit
  <1>2. DegreeInv /\ [Next]_vars => DegreeInv'
    BY DegreeInvStep
  <1>3. DegreeInv => VisitsPayForEdges
    BY DEF DegreeInv
  <1>4. QED
    BY <1>1, <1>2, <1>3, PTL DEF Spec

\* The degree bound follows from what has been paid.
LEMMA BoundsFollow ==
  ASSUME VisitsPayForEdges, TypeOK
  PROVE  DegreeBound
  <1> SUFFICES ASSUME NEW x \in Node PROVE ListDegree(B_match, x) <= Capacity(deg_bdd)[x]
    BY DEF DegreeBound
  <1>1. ListDegree(B_match, x) <= Used(x)
    BY VisitsPayIsPays
  <1>2. ListDegree(B_match, x) \in Nat
    BY DegreesAreNat, 1 \in 1 .. 2
  <1>3. QED
    BY <1>1, <1>2, CapacityType DEF Used

\* The b-matching of greedyapprox respects the upper bounds handed to init(),
\* at every moment, on every graph with self-loops or without.
THEOREM BoundsRespected == Spec => []DegreeBound
  <1>1. VisitsPayForEdges /\ TypeOK => DegreeBound
    BY BoundsFollow
  <1>2. QED
    BY <1>1, VisitsPay, TypeCorrect, PTL
-----------------------------------------------------------------------------
(****************************************************************************)
(* What is used up stays used up.                                            *)
(****************************************************************************)
LEMMA PrefixOfConcat ==
  ASSUME NEW s \in Seq(Edge), NEW t \in Seq(Edge)
  PROVE  IsPrefix(s, s) /\ IsPrefix(s, s \o t)
  <1>1. Len(s) \in Nat /\ Len(t) \in Nat
    BY LenProperties
  <1>2. /\ s \o t \in Seq(Edge) /\ Len(s \o t) = Len(s) + Len(t)
        /\ \A k \in 1 .. Len(s) : (s \o t)[k] = s[k]
    BY <1>1, ConcatProperties
  <1>3. SubSeq(s \o t, 1, Len(s)) = SubSeq(s, 1, Len(s))
    BY <1>1, <1>2
  <1>4. QED
    BY <1>1, <1>2, <1>3 DEF IsPrefix

\* An edge that has left the graph never comes back, capacity is never given
\* back, and the matching only grows.
THEOREM OnlyConsumesHolds == Spec => OnlyConsumes
  <1> DEFINE Step == /\ \A x \in Node : Amat'[x] \subseteq Amat[x] /\ bcap_vec'[x] <= bcap_vec[x]
                     /\ IsPrefix(B_match, B_match')
  <1>1. GraphInv /\ [Next]_vars => [Step]_vars
    <2> SUFFICES ASSUME GraphInv, Next PROVE Step
      OBVIOUS
    <2>1. /\ Amat \in [Node -> SUBSET Node] /\ bcap_vec \in [Node -> Nat]
          /\ M_walk \in Seq(Edge) /\ B_match \in Seq(Edge)
      BY DEF GraphInv, TypeOK
    <2>2. IsPrefix(B_match, B_match)
      BY <2>1, PrefixOfConcat
    <2>3. CASE UNCHANGED <<Amat, bcap_vec, B_match>>
      BY <2>1, <2>2, <2>3
    <2>4. CASE WalkStop
      <3>1. u \in Node /\ NbrsAtVisit \in SUBSET Amat[u]
        BY <2>4, AtVisit DEF WalkStop
      <3>2. QED
        BY <2>1, <2>2, <2>4, <3>1 DEF WalkStop
    <2>5. CASE WalkStep
      <3>1. u \in Node /\ NbrsAtVisit \in SUBSET Amat[u]
        BY <2>5, AtVisit DEF WalkStep
      <3>2. bcap_vec' = [bcap_vec EXCEPT ![u] = @ - 1] /\ B_match' = B_match
        BY <2>5 DEF WalkStep
      <3>3. \A x \in Node : Amat'[x] \subseteq Amat[x]
        BY <2>5, <3>1 DEF WalkStep
      <3>4. QED
        BY <2>1, <2>2, <3>1, <3>2, <3>3
    <2>6. CASE AppendHalf
      <3>1. PICK h \in 1 .. 2 : HeavyHalf(M_walk) = Half(M_walk, h) /\ Half(M_walk, h) \in Seq(Edge)
        BY <2>1, HeavyHalfType
      <3>2. IsPrefix(B_match, B_match \o Half(M_walk, h))
        BY <2>1, <3>1, PrefixOfConcat
      <3>3. QED
        BY <2>1, <2>2, <2>6, <3>1, <3>2 DEF AppendHalf
    <2>7. QED
      BY <2>3, <2>4, <2>5, <2>6 DEF Next, Solve, Walk, Terminated, PickNode, Finish, vars
  <1>2. QED
    BY <1>1, GraphInvHolds, PTL DEF Spec, OnlyConsumes
-----------------------------------------------------------------------------
(****************************************************************************)
(* The halves of a walk repeat nothing.                                      *)
(****************************************************************************)
LEMMA OnceHalf ==
  ASSUME NEW s \in Seq(Edge), NEW h \in 1 .. 2
  PROVE  /\ ToSet(Half(s, h)) \subseteq ToSet(s)
         /\ NoDuplicate(s) => NoDuplicate(Half(s, h))
  <1> DEFINE t == Half(s, h)
  <1>1. /\ DOMAIN s = 1 .. Len(s) /\ t \in Seq(Edge)
        /\ \A k \in 1 .. Len(t) : 2 * k - 2 + h \in DOMAIN s /\ t[k] = s[2 * k - 2 + h]
    BY HalfType, LenProperties
  <1> HIDE DEF t
  <1>2. DOMAIN t = 1 .. Len(t) /\ Len(t) \in Nat
    BY <1>1, LenProperties
  <1>3. ToSet(t) \subseteq ToSet(s)
    BY <1>1, <1>2 DEF ToSet
  <1>4. ASSUME NoDuplicate(s), NEW k \in DOMAIN t, NEW l \in DOMAIN t, t[k] = t[l]
        PROVE  k = l
    <2>1. 2 * k - 2 + h = 2 * l - 2 + h
      BY <1>1, <1>2, <1>4 DEF NoDuplicate
    <2>2. k \in Int /\ l \in Int /\ h \in Int
      BY <1>2
    <2>3. QED
      BY <2>1, <2>2
  <1>5. QED
    BY <1>3, <1>4 DEF NoDuplicate, t

-----------------------------------------------------------------------------
(****************************************************************************)
(* No edge is used twice.                                                    *)
(****************************************************************************)
UsedInInput == ToSet(B_match) \cup ToSet(M_walk) \subseteq DOMAIN ijw

OnceInv == GraphInv /\ EdgesUsedOnce /\ UsedInInput

\* At the start nothing is used.
LEMMA OnceInvInit == Init => OnceInv
  <1> SUFFICES ASSUME Init PROVE OnceInv
    OBVIOUS
  <1>1. B_match = <<>> /\ M_walk = <<>> /\ DOMAIN <<>> = {}
    BY DEF Init
  <1>2. ToSet(B_match) = {} /\ ToSet(M_walk) = {}
    BY <1>1 DEF ToSet
  <1>3. NoDuplicate(B_match) /\ NoDuplicate(M_walk)
    BY <1>1 DEF NoDuplicate
  <1>4. QED
    BY <1>2, <1>3, GraphInvInit DEF OnceInv, EdgesUsedOnce, UsedInInput

\* A step of the walk takes its edge out of the graph, and takes it from there.
LEMMA WalkStepTakesEdge ==
  ASSUME GraphInv, WalkStep
  PROVE  \E e \in DOMAIN ijw :
           /\ e \in Edge /\ M_walk' = Append(M_walk, e)
           /\ e[2] \in Amat[e[1]] /\ e[2] \notin Amat'[e[1]]
           /\ \A x \in Node : Amat'[x] \subseteq Amat[x]
  <1> DEFINE v == Heaviest(NbrsAtVisit)
             e == EdgeOf(u, v)
  <1>1. /\ v \in NbrsAtVisit /\ v \in Amat[u] /\ u \in Node /\ v \in Node
        /\ e \in Edge /\ e \in DOMAIN ijw
    BY HeaviestIsRemaining
  <1>2. NbrsAtVisit \in SUBSET Amat[u]
    BY AtVisit DEF WalkStep
  <1>3. /\ Amat' = [x \in Node |-> IF x = u THEN NbrsAtVisit \ Dropped(v)
                                   ELSE IF x \in Dropped(v) THEN Amat[x] \ {u}
                                   ELSE Amat[x]]
        /\ M_walk' = Append(M_walk, e)
    BY DEF WalkStep
  <1>4. v \in Dropped(v)
    BY <1>1 DEF Dropped
  <1>5. u \in Amat[v]
    BY <1>1 DEF GraphInv, DegreesMatchGraph
  <1>6. (e[1] = u /\ e[2] = v) \/ (e[1] = v /\ e[2] = u)
    BY DEF EdgeOf
  <1> HIDE DEF v, e
  <1>7. v \notin Amat'[u] /\ u \notin Amat'[v]
    BY <1>1, <1>3, <1>4
  <1>8. \A x \in Node : Amat'[x] \subseteq Amat[x]
    BY <1>1, <1>2, <1>3
  <1>9. e[2] \in Amat[e[1]] /\ e[2] \notin Amat'[e[1]]
    BY <1>1, <1>5, <1>6, <1>7
  <1>10. QED
    BY <1>1, <1>3, <1>8, <1>9

\* No step uses an edge again.
LEMMA OnceInvStep ==
  ASSUME OnceInv, [Next]_vars
  PROVE  OnceInv'
  <1>1. GraphInv /\ GraphInv'
    BY GraphInvStep DEF OnceInv
  <1>2. /\ NoDuplicate(B_match) /\ NoDuplicate(M_walk)
        /\ pc \in {"walk", "append"} => ToSet(B_match) \cap ToSet(M_walk) = {}
        /\ \A e \in ToSet(B_match) \cup ToSet(M_walk) : e[2] \notin Amat[e[1]]
        /\ ToSet(B_match) \cup ToSet(M_walk) \subseteq DOMAIN ijw
    BY DEF OnceInv, EdgesUsedOnce, UsedInInput
  <1>3. /\ M_walk \in Seq(Edge) /\ B_match \in Seq(Edge) /\ DOMAIN ijw \subseteq Edge
        /\ \A e \in Edge : e[1] \in Node
    BY <1>1 DEF GraphInv, TypeOK, Edge
  <1> DEFINE Goal ==
               /\ NoDuplicate(B_match') /\ NoDuplicate(M_walk')
               /\ pc' \in {"walk", "append"} => ToSet(B_match') \cap ToSet(M_walk') = {}
               /\ \A e \in ToSet(B_match') \cup ToSet(M_walk') : e[2] \notin Amat'[e[1]]
               /\ ToSet(B_match') \cup ToSet(M_walk') \subseteq DOMAIN ijw'
  <1>4. SUFFICES Goal
    BY <1>1 DEF OnceInv, EdgesUsedOnce, UsedInInput, NoDuplicate, ToSet
  <1>5. CASE PickNode
    <2>1. M_walk' = <<>> /\ UNCHANGED <<B_match, Amat, ijw>>
      BY <1>5 DEF PickNode, graph
    <2>2. DOMAIN <<>> = {}
      OBVIOUS
    <2>3. ToSet(M_walk') = {} /\ NoDuplicate(M_walk')
      BY <2>1, <2>2 DEF ToSet, NoDuplicate
    <2>4. QED
      BY <1>2, <2>1, <2>3
  <1>6. CASE Finish
    BY <1>2, <1>6 DEF Finish, graph
  <1>7. CASE WalkStop
    <2>1. /\ UNCHANGED <<B_match, M_walk, ijw>> /\ pc = "walk"
          /\ Amat' = [Amat EXCEPT ![u] = NbrsAtVisit]
      BY <1>7 DEF WalkStop, graph
    <2>2. u \in Node /\ NbrsAtVisit \in SUBSET Amat[u]
      BY <1>1, <1>7, AtVisit DEF WalkStop
    <2>3. \A x \in Node : Amat'[x] \subseteq Amat[x]
      BY <1>1, <2>1, <2>2 DEF GraphInv, TypeOK
    <2>4. \A e \in ToSet(B_match) \cup ToSet(M_walk) : e[2] \notin Amat'[e[1]]
      BY <1>2, <1>3, <2>3
    <2>5. QED
      BY <1>2, <2>1, <2>4
  <1>8. CASE WalkStep
    <2>1. /\ UNCHANGED <<B_match, ijw, pc>> /\ pc = "walk"
      BY <1>8 DEF WalkStep, graph
    <2>2. PICK e \in DOMAIN ijw :
            /\ e \in Edge /\ M_walk' = Append(M_walk, e)
            /\ e[2] \in Amat[e[1]] /\ e[2] \notin Amat'[e[1]]
            /\ \A x \in Node : Amat'[x] \subseteq Amat[x]
      BY <1>1, <1>8, WalkStepTakesEdge
    <2>3. e \notin ToSet(B_match) /\ e \notin ToSet(M_walk)
      BY <1>2, <2>2
    <2>4. ToSet(M_walk') = ToSet(M_walk) \cup {e} /\ NoDuplicate(M_walk')
      BY <1>2, <1>3, <2>2, <2>3, OnceAppend
    <2>5. \A d \in ToSet(B_match) \cup ToSet(M_walk) : d[2] \notin Amat'[d[1]]
      BY <1>2, <1>3, <2>2
    <2>6. QED
      BY <1>2, <2>1, <2>2, <2>3, <2>4, <2>5
  <1>9. CASE AppendHalf
    <2>1. /\ UNCHANGED <<M_walk, Amat, ijw>> /\ pc = "append" /\ pc' = "pick"
          /\ B_match' = IF Len(M_walk) > 0 THEN B_match \o HeavyHalf(M_walk) ELSE B_match
      BY <1>9 DEF AppendHalf, graph
    <2>2. PICK h \in 1 .. 2 : HeavyHalf(M_walk) = Half(M_walk, h) /\ Half(M_walk, h) \in Seq(Edge)
      BY <1>3, HeavyHalfType
    <2>3. ToSet(Half(M_walk, h)) \subseteq ToSet(M_walk) /\ NoDuplicate(Half(M_walk, h))
      BY <1>2, <1>3, OnceHalf
    <2>4. /\ ToSet(B_match \o Half(M_walk, h)) = ToSet(B_match) \cup ToSet(Half(M_walk, h))
          /\ NoDuplicate(B_match \o Half(M_walk, h))
      BY <1>2, <1>3, <2>1, <2>2, <2>3, OnceConcat
    <2>5. NoDuplicate(B_match') /\ ToSet(B_match') \subseteq ToSet(B_match) \cup ToSet(M_walk)
      BY <1>2, <2>1, <2>2, <2>3, <2>4
    <2>6. QED
      BY <1>2, <2>1, <2>5
  <1>10. CASE UNCHANGED vars
    BY <1>2, <1>10 DEF vars
  <1>11. QED
    BY <1>5, <1>6, <1>7, <1>8, <1>9, <1>10 DEF Next, Solve, Walk, Terminated

\* So nothing is ever used twice.
LEMMA OnceInvHolds == Spec => []OnceInv
  <1>1. Init => OnceInv
    BY OnceInvInit
  <1>2. OnceInv /\ [Next]_vars => OnceInv'
    BY OnceInvStep
  <1>3. QED
    BY <1>1, <1>2, PTL DEF Spec

\* An edge leaves both rows of Amat when a walk takes it, so neither the walk
\* nor the matching of solve() ever holds an edge twice or one still available.
THEOREM EdgesAreUsedOnce == Spec => []EdgesUsedOnce
  <1>1. OnceInv => EdgesUsedOnce
    BY DEF OnceInv
  <1>2. QED
    BY <1>1, OnceInvHolds, PTL
-----------------------------------------------------------------------------
(****************************************************************************)
(* What has been chosen is a b-matching.                                     *)
(****************************************************************************)
\* The abstract solver's b-matchings are those of this graph and its bounds.
LEMMA MatchingWithinBounds ==
  ASSUME OnceInv, DegreeBound
  PROVE  /\ IsBMatching(ToSet(B_match), DOMAIN ijw, Capacity(deg_bdd))
         /\ Abstract!IsBMatching(ToSet(B_match), DOMAIN ijw, Capacity(deg_bdd))
  <1>1. /\ B_match \in Seq(Edge) /\ NoDuplicate(B_match)
        /\ ToSet(B_match) \subseteq DOMAIN ijw
    BY DEF OnceInv, GraphInv, TypeOK, EdgesUsedOnce, UsedInInput
  <1>2. \A x \in Node : Degree(ToSet(B_match), x) <= Capacity(deg_bdd)[x]
    BY <1>1, OnceDegree DEF DegreeBound
  <1>3. \A S : Abstract!Cardinality(S) = Cardinality(S)
    BY Zenon DEF Abstract!Cardinality, Cardinality
  <1>4. QED
    BY <1>1, <1>2, <1>3
      DEF IsBMatching, Abstract!IsBMatching, Abstract!Degree, Abstract!Node, Degree, Node

\* At every moment, and so in its answer, the edges solve() has chosen are a
\* b-matching of the input graph within the capacities it was given.
THEOREM ChosenIsBMatching ==
  Spec => []Abstract!IsBMatching(ToSet(B_match), DOMAIN ijw, Capacity(deg_bdd))
  <1>1. OnceInv /\ DegreeBound
          => Abstract!IsBMatching(ToSet(B_match), DOMAIN ijw, Capacity(deg_bdd))
    BY MatchingWithinBounds
  <1>2. QED
    BY <1>1, OnceInvHolds, BoundsRespected, PTL
-----------------------------------------------------------------------------
(****************************************************************************)
(* What the halves of a walk weigh.                                          *)
(****************************************************************************)
\* The two halves of a walk share out its weight.
LEMMA HalfWeighed ==
  ASSUME NEW s, NEW w, Weighed(s, w), NEW h \in 1 .. 2
  PROVE  Weighed(Half(s, h), w)
  <1>1. /\ Half(s, h) \in Seq(Edge)
        /\ \A k \in 1 .. Len(Half(s, h)) :
             2 * k - 2 + h \in DOMAIN s /\ Half(s, h)[k] = s[2 * k - 2 + h]
    BY HalfType, WeighedList DEF Weighed
  <1>2. DOMAIN Half(s, h) = 1 .. Len(Half(s, h))
    BY <1>1, LenProperties
  <1>3. QED
    BY <1>1, <1>2 DEF Weighed

\* The weight of a half is the sum over every other position.
LEMMA HalfSum ==
  ASSUME NEW s, NEW w, Weighed(s, w), NEW h \in 1 .. 2
  PROVE  LET Part == {k \in DOMAIN s : k % 2 = h % 2}
         IN  ListWeight(Half(s, h), w) = SumFunctionOnSet(WeightsAt(s, w), Part)
  <1> DEFINE Part == {k \in DOMAIN s : k % 2 = h % 2}
             n == Len(s)
             t == Half(s, h)
             f == [k \in DOMAIN t |-> 2 * k - 2 + h]
  <1>1. Weighed(t, w) /\ s \in Seq(Edge)
    BY HalfWeighed DEF Weighed
  <1>2. /\ DOMAIN s = 1 .. n /\ n \in Nat
        /\ t \in Seq(Edge) /\ Len(t) = (n + 2 - h) \div 2
        /\ \A k \in 1 .. Len(t) : 2 * k - 2 + h \in 1 .. n /\ t[k] = s[2 * k - 2 + h]
    BY <1>1, WeighedList, HalfType
  <1> HIDE DEF t, n
  <1>3. DOMAIN t = 1 .. (n + 2 - h) \div 2 /\ IsFiniteSet(DOMAIN t)
    BY <1>1, <1>2, WeighedList
  <1>4. f \in [DOMAIN t -> Part]
    <2>1. \A k \in Int : (2 * k - 2 + h) % 2 = h % 2
      <3>1. CASE h = 1
        BY <3>1
      <3>2. CASE h = 2
        BY <3>2
      <3>3. QED
        BY <3>1, <3>2
    <2>2. \A k \in DOMAIN t : k \in Int /\ 2 * k - 2 + h \in DOMAIN s
      BY <1>2, <1>3
    <2>3. QED
      BY <2>1, <2>2
  <1>5. \A k, l \in DOMAIN t : f[k] = f[l] => k = l
    BY <1>3
  <1>6. ASSUME NEW y \in Part
        PROVE  \E k \in DOMAIN t : f[k] = y
    <2>1. y \in 1 .. n /\ y % 2 = h % 2
      BY <1>2
    <2>2. (y + 2 - h) \div 2 \in 1 .. (n + 2 - h) \div 2 /\ 2 * ((y + 2 - h) \div 2) - 2 + h = y
      BY <1>2, <2>1
    <2>3. QED
      BY <1>3, <2>2
  <1>7. ASSUME NEW k \in DOMAIN t
        PROVE  WeightsAt(t, w)[k] \in Int /\ WeightsAt(s, w)[f[k]] = WeightsAt(t, w)[k]
    <2>1. WeightsAt(t, w)[k] = w[t[k]] /\ WeightsAt(t, w)[k] \in Int
      BY <1>1, WeighedList
    <2>2. f[k] \in DOMAIN s /\ t[k] = s[f[k]]
      BY <1>2, <1>3
    <2>3. WeightsAt(s, w)[f[k]] = w[s[f[k]]]
      BY <2>2, WeighedList
    <2>4. QED
      BY <2>1, <2>2, <2>3
  <1> DEFINE g == WeightsAt(t, w)
             a == WeightsAt(s, w)
             K == DOMAIN t
  <1>8. /\ IsFiniteSet(K) /\ f \in [K -> Part]
        /\ \A k, l \in K : f[k] = f[l] => k = l
        /\ \A y \in Part : \E k \in K : f[k] = y
        /\ \A k \in K : g[k] \in Int /\ a[f[k]] = g[k]
    BY <1>3, <1>4, <1>5, <1>6, <1>7
  <1> HIDE DEF f, g, a, K, Part
  <1>9. SumFunctionOnSet(a, Part) = SumFunctionOnSet(g, K)
    BY <1>8, SumImage
  <1>10. ListWeight(t, w) = SumFunctionOnSet(WeightsAt(t, w), DOMAIN t)
    BY <1>1, WeighedList
  <1>11. QED
    BY <1>9, <1>10 DEF t, g, a, K, Part

\* The two halves weigh what the list weighs.
LEMMA HalvesWeigh ==
  ASSUME NEW s, NEW w, Weighed(s, w)
  PROVE  /\ ListWeight(Half(s, 1), w) + ListWeight(Half(s, 2), w) = ListWeight(s, w)
         /\ ListWeight(Half(s, 1), w) \in Nat /\ ListWeight(Half(s, 2), w) \in Nat
  <1> DEFINE Odd == {k \in DOMAIN s : k % 2 = 1}
             Even == {k \in DOMAIN s : k % 2 = 0}
             a == WeightsAt(s, w)
  <1>1. /\ DOMAIN s = 1 .. Len(s) /\ Len(s) \in Nat /\ IsFiniteSet(DOMAIN s)
        /\ \A k \in DOMAIN s : a[k] \in Int
        /\ ListWeight(s, w) = SumFunctionOnSet(a, DOMAIN s)
    BY WeighedList
  <1>2. ListWeight(Half(s, 1), w) = SumFunctionOnSet(a, Odd) /\ ListWeight(Half(s, 2), w) = SumFunctionOnSet(a, Even)
    <2>1. 1 % 2 = 1 /\ 2 % 2 = 0 /\ 1 \in 1 .. 2 /\ 2 \in 1 .. 2
      OBVIOUS
    <2>2. \A h \in 1 .. 2 :
            ListWeight(Half(s, h), w) = SumFunctionOnSet(a, {k \in DOMAIN s : k % 2 = h % 2})
      BY HalfSum
    <2>3. {k \in DOMAIN s : k % 2 = 1 % 2} = Odd /\ {k \in DOMAIN s : k % 2 = 2 % 2} = Even
      BY <2>1
    <2> HIDE DEF Odd, Even, a
    <2>4. QED
      BY <2>1, <2>2, <2>3
  <1>3. DOMAIN s = Odd \cup Even /\ Odd \cap Even = {}
    BY <1>1
  <1>4. IsFiniteSet(Odd) /\ IsFiniteSet(Even) /\ \A k \in Odd \cup Even : a[k] \in Int
    BY <1>1, FS_Subset
  <1> HIDE DEF Odd, Even, a
  <1>5. SumFunctionOnSet(a, Odd \cup Even) = SumFunctionOnSet(a, Odd) + SumFunctionOnSet(a, Even)
    BY <1>3, <1>4, SumUnion
  <1>6. \A h \in 1 .. 2 : ListWeight(Half(s, h), w) \in Nat
    BY HalfWeighed, WeighedList
  <1>7. ListWeight(Half(s, 1), w) \in Nat /\ ListWeight(Half(s, 2), w) \in Nat
    BY <1>6, 1 \in 1 .. 2, 2 \in 1 .. 2
  <1>8. QED
    BY <1>1, <1>2, <1>3, <1>5, <1>7

\* The half that joins the matching weighs at least half of the walk.
LEMMA HeavyHalfWeighs ==
  ASSUME NEW s, Weighed(s, ijw)
  PROVE  /\ Weighed(HeavyHalf(s), ijw)
         /\ 2 * ListWeight(HeavyHalf(s), ijw) >= ListWeight(s, ijw)
  <1>1. /\ ListWeight(Half(s, 1), ijw) + ListWeight(Half(s, 2), ijw) = ListWeight(s, ijw)
        /\ ListWeight(Half(s, 1), ijw) \in Nat /\ ListWeight(Half(s, 2), ijw) \in Nat
    BY HalvesWeigh
  <1>2. Weighed(Half(s, 1), ijw) /\ Weighed(Half(s, 2), ijw)
    BY HalfWeighed, 1 \in 1 .. 2, 2 \in 1 .. 2
  <1>3. CASE ListWeight(Half(s, 1), ijw) >= ListWeight(Half(s, 2), ijw)
    BY <1>1, <1>2, <1>3 DEF HeavyHalf
  <1>4. CASE ~ (ListWeight(Half(s, 1), ijw) >= ListWeight(Half(s, 2), ijw))
    <2>1. HeavyHalf(s) = Half(s, 2)
      BY <1>4 DEF HeavyHalf
    <2>2. QED
      BY <1>1, <1>2, <1>4, <2>1
  <1>5. QED
    BY <1>3, <1>4

-----------------------------------------------------------------------------
(****************************************************************************)
(* What a visit takes away from what remains.                                *)
(****************************************************************************)
LEMMA RemainingFacts ==
  ASSUME GraphInv
  PROVE  /\ Remaining \in SUBSET Edge
         /\ \A e \in Remaining : e \in DOMAIN ijw /\ ijw[e] \in Nat
         /\ \A e \in Remaining : /\ e[1] \in Node /\ e[2] \in Node
                                 /\ e[2] \in Amat[e[1]] /\ e[1] \in Amat[e[2]]
                                 /\ e = EdgeOf(e[1], e[2]) /\ e = EdgeOf(e[2], e[1])
         /\ bcap_vec \in [Node -> Nat]
  <1>1. /\ DOMAIN ijw \subseteq Edge /\ ijw \in [DOMAIN ijw -> Nat \ {0}]
        /\ bcap_vec \in [Node -> Nat]
    BY DEF GraphInv, TypeOK
  <1>2. \A e \in Remaining : e \in Edge /\ e \in DOMAIN ijw /\ e[2] \in Amat[e[1]]
    BY <1>1 DEF Remaining
  <1>3. \A e \in Edge : /\ e \in Node \X Node /\ e[1] \in Node /\ e[2] \in Node
                        /\ e = <<e[1], e[2]>> /\ e[1] <= e[2]
    BY DEF Edge
  <1>4. \A e \in Edge : e = EdgeOf(e[1], e[2]) /\ e = EdgeOf(e[2], e[1])
    <2> SUFFICES ASSUME NEW e \in Edge PROVE e = EdgeOf(e[1], e[2]) /\ e = EdgeOf(e[2], e[1])
      OBVIOUS
    <2>1. e = EdgeOf(e[1], e[2])
      BY <1>3 DEF EdgeOf
    <2>2. QED
      BY <1>3, <2>1, EdgeOfSymmetric
  <1>5. \A e \in Remaining : e[1] \in Amat[e[2]]
    BY <1>2, <1>3 DEF GraphInv, DegreesMatchGraph
  <1>6. QED
    BY <1>1, <1>2, <1>3, <1>4, <1>5

\* Leaving u for v takes the edge between them out of the graph, and on u's
\* last unit every edge at u; that edge is the heaviest u could spend a unit on.
LEMMA WalkStepRemaining ==
  ASSUME GraphInv, WalkStep, NEW e, e = EdgeOf(u, Heaviest(NbrsAtVisit))
  PROVE  /\ e \in Edge /\ e \in DOMAIN ijw /\ ijw[e] \in Nat
         /\ \A d \in Remaining : d # e /\ (Exhausted => ~ IncidentTo(d, u)) => d \in Remaining'
         /\ \A d \in Remaining : /\ IncidentTo(d, u)
                                 /\ Exhausted => ~ (d[1] = u /\ d[2] = u)
                                 => ijw[d] <= ijw[e]
  <1> DEFINE v == Heaviest(NbrsAtVisit)
  <1>1. /\ v \in NbrsAtVisit /\ v \in Amat[u] /\ u \in Node /\ v \in Node
        /\ e \in Edge /\ e \in DOMAIN ijw
        /\ \A y \in NbrsAtVisit : Wmat(u, y) <= Wmat(u, v)
    BY HeaviestIsRemaining
  <1>2. /\ NbrsAtVisit \in SUBSET Amat[u]
        /\ ~ Exhausted => NbrsAtVisit = Amat[u]
        /\ Exhausted => Amat[u] \ {u} \subseteq NbrsAtVisit
    <2>1. NbrsAtVisit \in SUBSET Amat[u] /\ (~ Exhausted => NbrsAtVisit = Amat[u])
      BY AtVisit DEF WalkStep
    <2>2. Amat[u] \ {u} \subseteq NbrsAtVisit
      BY DEF NbrsAtVisit
    <2>3. QED
      BY <2>1, <2>2
  <1>3. Amat' = [x \in Node |-> IF x = u THEN NbrsAtVisit \ Dropped(v)
                                 ELSE IF x \in Dropped(v) THEN Amat[x] \ {u}
                                 ELSE Amat[x]]
    BY DEF WalkStep
  <1>4. Remaining' = {d \in DOMAIN ijw : d[2] \in Amat'[d[1]]}
    BY DEF WalkStep, graph, Remaining
  <1>5. Dropped(v) = IF Exhausted THEN NbrsAtVisit ELSE {v}
    BY DEF Dropped
  <1>6. e = EdgeOf(u, v)
    OBVIOUS
  <1>7. ijw[e] \in Nat
    BY <1>1 DEF GraphInv, TypeOK
  <1> HIDE DEF v
  <1>8. ASSUME NEW d \in Remaining, d # e, Exhausted => ~ IncidentTo(d, u)
        PROVE  d \in Remaining'
    <2>1. /\ d \in DOMAIN ijw /\ d[1] \in Node /\ d[2] \in Node /\ d[2] \in Amat[d[1]]
          /\ d = EdgeOf(d[1], d[2]) /\ d = EdgeOf(d[2], d[1])
      BY RemainingFacts
    <2>2. CASE Exhausted
      <3>1. d[1] # u /\ d[2] # u
        BY <1>8, <2>2 DEF IncidentTo
      <3>2. d[2] \in Amat'[d[1]]
        BY <1>3, <2>1, <3>1
      <3>3. QED
        BY <1>4, <2>1, <3>2
    <2>3. CASE ~ Exhausted
      <3>1. Dropped(v) = {v} /\ NbrsAtVisit = Amat[u]
        BY <1>2, <1>5, <2>3
      <3>2. ~ (d[1] = u /\ d[2] = v) /\ ~ (d[1] = v /\ d[2] = u)
        BY <1>6, <1>8, <2>1
      <3>3. d[2] \in Amat'[d[1]]
        BY <1>3, <2>1, <3>1, <3>2
      <3>4. QED
        BY <1>4, <2>1, <3>3
    <2>4. QED
      BY <2>2, <2>3
  <1>9. ASSUME NEW d \in Remaining, IncidentTo(d, u), Exhausted => ~ (d[1] = u /\ d[2] = u)
        PROVE  ijw[d] <= ijw[e]
    <2>1. PICK y \in Amat[u] : d = EdgeOf(u, y) /\ (Exhausted => y # u)
      BY <1>9, RemainingFacts DEF IncidentTo
    <2>2. y \in NbrsAtVisit
      BY <1>2, <2>1
    <2>3. QED
      BY <1>1, <1>6, <2>1, <2>2 DEF Wmat
  <1>10. QED
    BY <1>1, <1>7, <1>8, <1>9

\* An optimal b-matching of what remains, less one edge at u, fits into what
\* remains after the step, and the edge weighs no more than the walk gains.
LEMMA WalkStepLoses ==
  ASSUME GraphInv, GraphInv', WalkStep, NEW e, e = EdgeOf(u, Heaviest(NbrsAtVisit))
  PROVE  BestWeight(Remaining, ijw, bcap_vec)
           <= BestWeight(Remaining', ijw, bcap_vec') + ijw[e]
  <1>1. /\ e \in Edge /\ ijw[e] \in Nat
        /\ \A d \in Remaining : d # e /\ (Exhausted => ~ IncidentTo(d, u)) => d \in Remaining'
        /\ \A d \in Remaining : /\ IncidentTo(d, u)
                                /\ Exhausted => ~ (d[1] = u /\ d[2] = u)
                                => ijw[d] <= ijw[e]
    BY WalkStepRemaining
  <1>2. IncidentTo(e, u)
    BY DEF IncidentTo, EdgeOf
  <1>3. /\ u \in Node /\ bcap_vec[u] \in Nat /\ bcap_vec[u] > 0
        /\ Exhausted <=> bcap_vec[u] = 1
    BY AtVisit DEF WalkStep, Exhausted
  <1>4. /\ bcap_vec \in [Node -> Nat] /\ bcap_vec' \in [Node -> Nat]
        /\ bcap_vec'[u] = bcap_vec[u] - 1
        /\ \A x \in Node : x # u => bcap_vec'[x] = bcap_vec[x]
        /\ ijw' = ijw
    BY <1>3 DEF WalkStep, GraphInv, TypeOK, graph
  <1>5. /\ Remaining \in SUBSET Edge /\ \A d \in Remaining : ijw[d] \in Nat
        /\ Remaining' \in SUBSET Edge /\ \A d \in Remaining' : ijw[d] \in Nat
    <2>1. Remaining \in SUBSET Edge /\ \A d \in Remaining : ijw[d] \in Nat
      BY RemainingFacts
    <2>2. Remaining' \in SUBSET DOMAIN ijw
      BY <1>4 DEF Remaining
    <2>3. QED
      BY <2>1, <2>2 DEF GraphInv, TypeOK
  <1> DEFINE R == Remaining
             Rp == Remaining'
             cp == bcap_vec'
  <1>6. PICK B \in SUBSET R : /\ IsBMatching(B, R, bcap_vec)
                              /\ Weight(B, ijw) = BestWeight(R, ijw, bcap_vec)
    BY <1>4, <1>5, BestIsBest
  <1>7. /\ BestWeight(Rp, ijw, cp) \in Nat
        /\ \A A \in SUBSET Rp : IsBMatching(A, Rp, cp) => Weight(A, ijw) <= BestWeight(Rp, ijw, cp)
    <2> HIDE DEF Rp, cp
    <2>1. QED
      BY <1>4, <1>5, BestIsBest DEF Rp, cp
  <1>8. B \in SUBSET Edge /\ IsFiniteSet(B) /\ \A d \in B : ijw[d] \in Int
    BY <1>5, EdgesFinite
  <1>9. \A x \in Node : /\ Degree(B, x) \in Nat /\ Degree(B, x) <= bcap_vec[x]
                        /\ \A A \in SUBSET B : Degree(A, x) \in Nat /\ Degree(A, x) <= Degree(B, x)
    <2>1. \A A \in SUBSET B : A \in SUBSET Edge
      BY <1>8
    <2>2. QED
      BY <1>6, <1>8, <2>1, DegreeFacts DEF IsBMatching
  \* Any part of B with a unit to spare at u, and without e, is left.
  <1>10. ASSUME NEW A \in SUBSET B, Degree(A, u) <= bcap_vec[u] - 1, e \notin A
         PROVE  Weight(A, ijw) <= BestWeight(Rp, ijw, cp)
    <2>1. \A x \in Node : Degree(A, x) <= cp[x]
      BY <1>3, <1>4, <1>9, <1>10
    <2>2. Exhausted => \A d \in A : ~ IncidentTo(d, u)
      <3>1. A \in SUBSET Edge
        BY <1>8
      <3>2. Exhausted => Degree(A, u) = 0
        BY <1>3, <1>9, <1>10
      <3>3. QED
        BY <3>1, <3>2, DegreeFacts
    <2>3. A \in SUBSET Rp
      BY <1>1, <1>6, <1>10, <2>2
    <2>4. IsBMatching(A, Rp, cp)
      BY <2>1, <2>3 DEF IsBMatching
    <2> HIDE DEF Rp, cp
    <2>5. QED
      BY <1>7, <2>3, <2>4
  <1>11. CASE \A d \in B : ~ IncidentTo(d, u)
    <2>1. Degree(B, u) = 0 /\ e \notin B
      BY <1>2, <1>8, <1>11, DegreeFacts
    <2>2. Weight(B, ijw) <= BestWeight(Rp, ijw, cp)
      BY <1>3, <1>10, <2>1
    <2>3. Weight(B, ijw) \in Nat
      <3>1. \A d \in B : ijw[d] \in Nat
        BY <1>5
      <3>2. QED
        BY <1>8, <3>1, SumNat, WeightIsSum
    <2> HIDE DEF R, Rp, cp
    <2>4. QED
      BY <1>1, <1>6, <1>7, <2>2, <2>3 DEF R, Rp, cp
  <1>12. CASE \E d \in B : IncidentTo(d, u)
    <2>1. PICK d \in B : IncidentTo(d, u) /\ (e \in B => d = e)
      BY <1>2, <1>12
    <2>2. Degree(B \ {d}, u) <= Degree(B, u) - 1
      BY <1>8, <2>1, DegreeFacts
    <2>3. Weight(B \ {d}, ijw) <= BestWeight(Rp, ijw, cp)
      <3>1. B \ {d} \in SUBSET B /\ e \notin B \ {d}
        BY <2>1
      <3>2. Degree(B \ {d}, u) <= bcap_vec[u] - 1
        BY <1>3, <1>9, <2>2, <3>1
      <3>3. QED
        BY <1>10, <3>1, <3>2
    <2>4. ijw[d] <= ijw[e]
      <3>1. d \in R /\ (d[1] = u /\ d[2] = u => Degree(B, u) >= 2)
        BY <1>6, <1>8, DegreeFacts
      <3>2. Exhausted => ~ (d[1] = u /\ d[2] = u)
        BY <1>3, <1>9, <3>1
      <3>3. QED
        BY <1>1, <2>1, <3>1, <3>2
    <2>5. Weight(B, ijw) = ijw[d] + Weight(B \ {d}, ijw)
      BY <1>8, SumRemove, WeightIsSum
    <2>6. ijw[d] \in Nat /\ Weight(B \ {d}, ijw) \in Nat
      <3>1. IsFiniteSet(B \ {d}) /\ \A c \in B : ijw[c] \in Nat
        BY <1>5, <1>8, FS_Subset
      <3>2. QED
        BY <3>1, SumNat, WeightIsSum
    <2> HIDE DEF R, Rp, cp
    <2>7. QED
      BY <1>1, <1>6, <1>7, <2>3, <2>4, <2>5, <2>6 DEF R, Rp, cp
  <1>13. QED
    BY <1>11, <1>12

\* A visit that leads nowhere takes away nothing an optimal b-matching uses:
\* at most a self-loop at a node that has a single unit of capacity left.
LEMMA WalkStopLoses ==
  ASSUME GraphInv, GraphInv', WalkStop
  PROVE  BestWeight(Remaining, ijw, bcap_vec) <= BestWeight(Remaining', ijw, bcap_vec')
  <1>1. /\ u \in Node /\ bcap_vec[u] \in Nat /\ bcap_vec[u] > 0
        /\ Exhausted <=> bcap_vec[u] = 1
        /\ NbrsAtVisit = {}
    BY AtVisit DEF WalkStop, Exhausted
  <1>2. \A y \in Amat[u] : y = u /\ bcap_vec[u] = 1
    BY <1>1 DEF NbrsAtVisit, LoopCut
  <1>3. /\ bcap_vec \in [Node -> Nat] /\ bcap_vec' \in [Node -> Nat]
        /\ bcap_vec'[u] = bcap_vec[u] - 1
        /\ \A x \in Node : x # u => bcap_vec'[x] = bcap_vec[x]
        /\ \A x \in Node : x # u => Amat'[x] = Amat[x]
        /\ ijw' = ijw
    BY <1>1 DEF WalkStop, GraphInv, TypeOK, graph
  <1>4. /\ Remaining \in SUBSET Edge /\ \A d \in Remaining : ijw[d] \in Nat
        /\ Remaining' \in SUBSET Edge /\ \A d \in Remaining' : ijw[d] \in Nat
    <2>1. Remaining \in SUBSET Edge /\ \A d \in Remaining : ijw[d] \in Nat
      BY RemainingFacts
    <2>2. Remaining' \in SUBSET DOMAIN ijw
      BY <1>3 DEF Remaining
    <2>3. QED
      BY <2>1, <2>2 DEF GraphInv, TypeOK
  <1> DEFINE R == Remaining
             Rp == Remaining'
             cp == bcap_vec'
  <1>5. PICK B \in SUBSET R : /\ IsBMatching(B, R, bcap_vec)
                              /\ Weight(B, ijw) = BestWeight(R, ijw, bcap_vec)
    BY <1>3, <1>4, BestIsBest
  <1>6. \A A \in SUBSET Rp : IsBMatching(A, Rp, cp) => Weight(A, ijw) <= BestWeight(Rp, ijw, cp)
    <2> HIDE DEF Rp, cp
    <2>1. QED
      BY <1>3, <1>4, BestIsBest DEF Rp, cp
  <1>7. B \in SUBSET Edge /\ \A x \in Node : Degree(B, x) \in Nat /\ Degree(B, x) <= bcap_vec[x]
    BY <1>4, <1>5, DegreeFacts DEF IsBMatching
  <1>8. ASSUME NEW d \in B
        PROVE  ~ IncidentTo(d, u)
    <2> SUFFICES ASSUME IncidentTo(d, u) PROVE FALSE
      OBVIOUS
    <2>1. d[1] = u /\ d[2] = u /\ bcap_vec[u] = 1
      BY <1>2, <1>5, RemainingFacts DEF IncidentTo
    <2>2. Degree(B, u) >= 2
      BY <1>7, <2>1, DegreeFacts
    <2>3. QED
      BY <1>1, <1>7, <2>1, <2>2
  <1>9. Degree(B, u) = 0
    BY <1>7, <1>8, DegreeFacts
  <1>10. B \in SUBSET Rp
    <2>1. \A d \in B : d[1] # u /\ d[1] \in Node /\ d[2] \in Amat[d[1]] /\ d \in DOMAIN ijw
      BY <1>5, <1>8, RemainingFacts DEF IncidentTo
    <2>2. \A d \in B : d[2] \in Amat'[d[1]]
      BY <1>3, <2>1
    <2>3. QED
      BY <1>3, <2>1, <2>2 DEF Remaining
  <1>11. IsBMatching(B, Rp, cp)
    BY <1>1, <1>3, <1>7, <1>9, <1>10 DEF IsBMatching
  <1> HIDE DEF R, Rp, cp
  <1>12. QED
    BY <1>5, <1>6, <1>10, <1>11 DEF R, Rp, cp
-----------------------------------------------------------------------------
(****************************************************************************)
(* Half of the best weight.                                                  *)
(****************************************************************************)
Unstartable == pc = "done" => Startable = {}

HalfInv == OnceInv /\ ChargedToWalk /\ Unstartable

\* Every edge of the walk and of the matching has its weight.
LEMMA UsedWeighed ==
  ASSUME OnceInv
  PROVE  /\ Weighed(M_walk, ijw) /\ Weighed(B_match, ijw)
         /\ ListWeight(M_walk, ijw) \in Nat /\ ListWeight(B_match, ijw) \in Nat
         /\ WalkWeight \in Nat
  <1>1. /\ M_walk \in Seq(Edge) /\ B_match \in Seq(Edge) /\ ijw \in [DOMAIN ijw -> Nat \ {0}]
        /\ ToSet(B_match) \cup ToSet(M_walk) \subseteq DOMAIN ijw
    BY DEF OnceInv, GraphInv, TypeOK, UsedInInput
  <1>2. /\ \A k \in DOMAIN M_walk : M_walk[k] \in DOMAIN ijw
        /\ \A k \in DOMAIN B_match : B_match[k] \in DOMAIN ijw
    BY <1>1 DEF ToSet
  <1>3. Weighed(M_walk, ijw) /\ Weighed(B_match, ijw)
    BY <1>1, <1>2 DEF Weighed
  <1>4. ListWeight(M_walk, ijw) \in Nat /\ ListWeight(B_match, ijw) \in Nat
    BY <1>3, WeighedList
  <1>5. QED
    BY <1>3, <1>4 DEF WalkWeight

\* The best weights are natural numbers.
LEMMA BestIsNat ==
  ASSUME GraphInv
  PROVE  BestPossible \in Nat /\ BestWeight(Remaining, ijw, bcap_vec) \in Nat
  <1>1. /\ DOMAIN ijw \in SUBSET Edge /\ \A e \in DOMAIN ijw : ijw[e] \in Nat
        /\ Capacity(deg_bdd) \in [Node -> Nat]
    <2>1. \A x \in Node : Capacity(deg_bdd)[x] \in Nat
      BY CapacityType DEF GraphInv
    <2>2. Capacity(deg_bdd) \in [Node -> Nat]
      BY <2>1 DEF Capacity
    <2>3. QED
      BY <2>2 DEF GraphInv, TypeOK
  <1>2. BestPossible \in Nat
    BY <1>1, BestIsBest DEF BestPossible
  <1>3. QED
    BY <1>2, RemainingFacts, BestIsBest

\* At the start everything is still possible.
LEMMA HalfInvInit == Init => HalfInv
  <1> SUFFICES ASSUME Init PROVE HalfInv
    OBVIOUS
  <1>1. OnceInv /\ GraphInv
    BY OnceInvInit DEF OnceInv
  <1>2. pc = "pick" /\ B_match = <<>> /\ bcap_vec = Capacity(deg_bdd)
    BY DEF Init
  <1>3. ListWeight(B_match, ijw) = 0 /\ WalkWeight = 0
    BY <1>2, ListWeightEmpty DEF WalkWeight
  <1>4. Remaining = DOMAIN ijw
    <2>1. \A e \in DOMAIN ijw : e[1] \in Node /\ e[2] \in Node /\ e = EdgeOf(e[1], e[2])
      BY <1>1 DEF GraphInv, TypeOK, Edge, EdgeOf
    <2>2. QED
      BY <2>1 DEF Init, Neighbours, Remaining
  <1>5. ChargedToWalk
    BY <1>1, <1>2, <1>3, <1>4, BestIsNat DEF ChargedToWalk, BestPossible
  <1>6. QED
    BY <1>1, <1>2, <1>5 DEF HalfInv, Unstartable

\* No step loses more than its walk gains.
LEMMA HalfInvStep ==
  ASSUME HalfInv, [Next]_vars
  PROVE  HalfInv'
  <1>1. OnceInv /\ OnceInv' /\ GraphInv /\ GraphInv'
    BY OnceInvStep DEF HalfInv, OnceInv
  <1> DEFINE Best == BestWeight(DOMAIN ijw, ijw, Capacity(deg_bdd))
             Rest == BestWeight(Remaining, ijw, bcap_vec)
             Rest2 == BestWeight(Remaining', ijw', bcap_vec')
  <1>2. /\ Best \in Nat /\ Rest \in Nat /\ Rest2 \in Nat
        /\ BestPossible' = BestWeight(DOMAIN ijw', ijw', Capacity(deg_bdd'))
    <2>1. Rest2 \in Nat
      <3>1. (BestWeight(Remaining, ijw, bcap_vec) \in Nat)'
        BY <1>1, BestIsNat, PTL
      <3>2. QED
        BY <3>1
    <2>2. QED
      BY <1>1, <2>1, BestIsNat DEF BestPossible, Capacity
  <1>3. /\ ListWeight(M_walk, ijw) \in Nat /\ ListWeight(B_match, ijw) \in Nat
        /\ Weighed(M_walk, ijw) /\ Weighed(B_match, ijw)
        /\ WalkWeight \in Nat
    BY <1>1, UsedWeighed
  <1>4. Best <= 2 * ListWeight(B_match, ijw) + WalkWeight + Rest
    BY DEF HalfInv, ChargedToWalk, BestPossible
  <1>5. UNCHANGED <<ijw, deg_bdd>> => BestPossible' = Best
    BY <1>2
  <1> DEFINE Goal == Best <= 2 * ListWeight(B_match', ijw) + WalkWeight' + Rest2
  <1>6. ASSUME UNCHANGED <<ijw, deg_bdd>>, Goal
        PROVE  ChargedToWalk'
    BY <1>5, <1>6 DEF ChargedToWalk
  <1> HIDE DEF Best
  <1>7. CASE PickNode
    <2>1. /\ pc = "pick" /\ pc' = "walk" /\ M_walk' = <<>>
          /\ UNCHANGED <<ijw, deg_bdd, B_match, Amat, bcap_vec>>
      BY <1>7 DEF PickNode, graph
    <2>2. WalkWeight = 0 /\ WalkWeight' = 0
      BY <2>1, ListWeightEmpty DEF WalkWeight
    <2>3. Remaining' = Remaining
      BY <2>1 DEF Remaining
    <2>4. Goal
      BY <1>4, <2>1, <2>2, <2>3
    <2>5. QED
      BY <1>1, <1>6, <2>1, <2>4 DEF HalfInv, Unstartable
  <1>8. CASE Finish
    <2>1. /\ Startable = {} /\ pc = "pick" /\ pc' = "done"
          /\ UNCHANGED <<ijw, deg_bdd, B_match, Amat, deg_vec, bcap_vec>>
      BY <1>8 DEF Finish, graph
    <2>2. WalkWeight = 0 /\ WalkWeight' = 0 /\ Remaining' = Remaining /\ Startable' = {}
      BY <2>1 DEF WalkWeight, Remaining, Startable
    <2>3. Goal
      BY <1>4, <2>1, <2>2
    <2>4. QED
      BY <1>1, <1>6, <2>1, <2>2, <2>3 DEF HalfInv, Unstartable
  <1>9. CASE WalkStop
    <2>1. /\ pc = "walk" /\ pc' = "append"
          /\ UNCHANGED <<ijw, deg_bdd, B_match, M_walk>>
      BY <1>9 DEF WalkStop, graph
    <2>2. WalkWeight' = WalkWeight
      BY <2>1 DEF WalkWeight
    <2>3. Rest <= Rest2
      BY <1>1, <1>9, <2>1, WalkStopLoses
    <2> HIDE DEF Rest, Rest2
    <2>4. Best <= 2 * ListWeight(B_match', ijw) + WalkWeight' + Rest2
      BY <1>2, <1>3, <1>4, <2>1, <2>2, <2>3
    <2>5. QED
      BY <1>1, <1>6, <2>1, <2>4 DEF HalfInv, Unstartable
  <1>10. CASE WalkStep
    <2> DEFINE e == EdgeOf(u, Heaviest(NbrsAtVisit))
    <2>1. /\ pc = "walk" /\ pc' = "walk" /\ M_walk' = Append(M_walk, e)
          /\ UNCHANGED <<ijw, deg_bdd, B_match>>
      BY <1>10 DEF WalkStep, graph
    <2>2. e \in Edge /\ ijw[e] \in Nat
      BY <1>1, <1>10, WalkStepRemaining
    <2>3. Rest <= Rest2 + ijw[e]
      BY <1>1, <1>10, <2>1, WalkStepLoses
    <2> HIDE DEF e
    <2>4. WalkWeight' = WalkWeight + ijw[e]
      BY <1>3, <2>1, <2>2, ListWeightAppend DEF WalkWeight
    <2> DEFINE a == ListWeight(B_match', ijw)
               g == ijw[e]
    <2> HIDE DEF Rest, Rest2
    <2>5. Best <= 2 * a + WalkWeight' + Rest2
      <3>1. a \in Nat /\ g \in Nat /\ WalkWeight \in Nat /\ WalkWeight' = WalkWeight + g
        BY <1>3, <2>1, <2>2, <2>4 DEF e
      <3>2. Best <= 2 * a + WalkWeight + Rest /\ Rest <= Rest2 + g
        BY <1>4, <2>1, <2>3 DEF e
      <3> HIDE DEF a, g
      <3>3. QED
        BY <1>2, <3>1, <3>2
    <2>6. QED
      BY <1>1, <1>6, <2>1, <2>5 DEF HalfInv, Unstartable
  <1>11. CASE AppendHalf
    <2>1. /\ pc = "append" /\ pc' = "pick"
          /\ UNCHANGED <<ijw, deg_bdd, Amat, bcap_vec, M_walk>>
          /\ B_match' = IF Len(M_walk) > 0 THEN B_match \o HeavyHalf(M_walk) ELSE B_match
      BY <1>11 DEF AppendHalf, graph
    <2>2. WalkWeight = ListWeight(M_walk, ijw) /\ WalkWeight' = 0 /\ Remaining' = Remaining
      BY <2>1 DEF WalkWeight, Remaining
    <2>3. /\ ListWeight(B_match', ijw) \in Nat
          /\ 2 * ListWeight(B_match', ijw) >= 2 * ListWeight(B_match, ijw) + WalkWeight
      <3>1. CASE Len(M_walk) > 0
        <4>1. /\ Weighed(HeavyHalf(M_walk), ijw)
              /\ 2 * ListWeight(HeavyHalf(M_walk), ijw) >= ListWeight(M_walk, ijw)
          BY <1>3, HeavyHalfWeighs
        <4>2. ListWeight(B_match', ijw)
                = ListWeight(B_match, ijw) + ListWeight(HeavyHalf(M_walk), ijw)
          BY <1>3, <2>1, <3>1, <4>1, ListWeightConcat
        <4>3. ListWeight(HeavyHalf(M_walk), ijw) \in Nat
          BY <4>1, WeighedList
        <4>4. QED
          BY <1>3, <2>2, <4>1, <4>2, <4>3
      <3>2. CASE ~ (Len(M_walk) > 0)
        <4>1. M_walk = <<>>
          BY <1>3, <3>2, EmptySeq, LenProperties DEF Weighed
        <4>2. WalkWeight = 0
          BY <2>2, <4>1, ListWeightEmpty
        <4>3. QED
          BY <1>3, <2>1, <3>2, <4>2
      <3>3. QED
        BY <3>1, <3>2
    <2>4. Rest2 = Rest
      BY <2>1, <2>2
    <2> DEFINE b == ListWeight(B_match', ijw)
               a == ListWeight(B_match, ijw)
    <2> HIDE DEF Rest, Rest2
    <2>5. Best <= 2 * b + WalkWeight' + Rest2
      <3>1. a \in Nat /\ b \in Nat /\ 2 * b >= 2 * a + WalkWeight /\ WalkWeight \in Nat
        BY <1>3, <2>3
      <3>2. Best <= 2 * a + WalkWeight + Rest
        BY <1>4
      <3> HIDE DEF a, b
      <3>3. Best <= 2 * b + Rest
        BY <1>2, <3>1, <3>2
      <3>4. QED
        BY <1>2, <2>2, <2>4, <3>1, <3>3
    <2>6. QED
      BY <1>1, <1>6, <2>1, <2>5 DEF HalfInv, Unstartable
  <1>12. CASE UNCHANGED vars
    <2>1. ChargedToWalk'
      BY <1>12 DEF HalfInv, vars, ChargedToWalk, BestPossible, WalkWeight, Remaining, Capacity
    <2>2. Unstartable'
      BY <1>12 DEF HalfInv, vars, Unstartable, Startable
    <2>3. QED
      BY <1>1, <2>1, <2>2 DEF HalfInv
  <1>13. QED
    BY <1>7, <1>8, <1>9, <1>10, <1>11, <1>12 DEF Next, Solve, Walk, Terminated

\* So the charge is kept in every state.
LEMMA HalfInvHolds == Spec => []HalfInv
  <1>1. Init => HalfInv
    BY HalfInvInit
  <1>2. HalfInv /\ [Next]_vars => HalfInv'
    BY HalfInvStep
  <1>3. QED
    BY <1>1, <1>2, PTL DEF Spec

\* Whatever the walks do, the best b-matching of the whole graph never weighs
\* more than twice the matching, the current walk and the best b-matching of
\* what remains.
THEOREM WalkIsCharged == Spec => []ChargedToWalk
  <1>1. HalfInv => ChargedToWalk
    BY DEF HalfInv
  <1>2. QED
    BY <1>1, HalfInvHolds, PTL

\* When no walk can start nothing remains, so the matching pays for it all.
LEMMA HalfAtEnd ==
  ASSUME HalfInv, pc = "done"
  PROVE  BestWeight(DOMAIN ijw, ijw, Capacity(deg_bdd)) <= 2 * Weight(ToSet(B_match), ijw)
  <1>1. OnceInv /\ GraphInv /\ TypeOK
    BY DEF HalfInv, OnceInv, GraphInv
  <1>2. \A x \in Node : Amat[x] = {}
    <2> SUFFICES ASSUME NEW x \in Node, Amat[x] # {} PROVE FALSE
      OBVIOUS
    <2>1. bcap_vec[x] > 0
      BY <1>1 DEF GraphInv, EdgesNeedCapacity
    <2>2. IsFiniteSet(Amat[x]) /\ Cardinality(Amat[x]) \in Nat
      BY <1>1, NodeFinite, FS_CardinalityType DEF TypeOK
    <2>3. deg_vec[x] > 0
      <3>1. Cardinality(Amat[x]) > 0
        BY <2>2, FS_EmptySet
      <3>2. deg_vec[x] = Cardinality(Amat[x]) + (IF x \in Amat[x] THEN 1 ELSE 0)
        BY <1>1 DEF GraphInv, DegreesMatchGraph
      <3>3. QED
        BY <2>2, <3>1, <3>2
    <2>4. QED
      BY <2>1, <2>3 DEF HalfInv, Unstartable, Startable
  <1>3. Remaining = {}
    BY <1>1, <1>2, RemainingFacts
  <1>4. BestWeight(Remaining, ijw, bcap_vec) = 0
    <2>1. PICK B \in SUBSET {} : Weight(B, ijw) = BestWeight(Remaining, ijw, bcap_vec)
      BY <1>1, <1>3, RemainingFacts, BestIsBest
    <2>2. B = {}
      OBVIOUS
    <2>3. QED
      BY <2>1, <2>2, WeightIsSum, SumEmpty
  <1>5. WalkWeight = 0
    BY DEF WalkWeight
  <1>6. Weight(ToSet(B_match), ijw) = ListWeight(B_match, ijw) /\ ListWeight(B_match, ijw) \in Nat
    BY <1>1, UsedWeighed, OnceWeight DEF OnceInv, EdgesUsedOnce
  <1>7. QED
    BY <1>4, <1>5, <1>6 DEF HalfInv, ChargedToWalk, BestPossible

\* What a call of the solver gets when solve() is through.
LEMMA SolverAnswer ==
  ASSUME HalfInv, DegreeInv, pc = "done"
  PROVE  /\ DOMAIN ijw \in SUBSET Edge /\ \A e \in DOMAIN ijw : ijw[e] \in Nat
         /\ B_match \in Seq(Edge) /\ NoDuplicate(B_match)
         /\ IsBMatching(ToSet(B_match), DOMAIN ijw, Capacity(deg_bdd))
         /\ BestWeight(DOMAIN ijw, ijw, Capacity(deg_bdd)) <= 2 * Weight(ToSet(B_match), ijw)
  <1>1. TypeOK /\ OnceInv /\ VisitsPayForEdges /\ EdgesUsedOnce
    BY DEF HalfInv, OnceInv, DegreeInv, GraphInv
  <1>2. DegreeBound
    BY <1>1, BoundsFollow
  <1>3. IsBMatching(ToSet(B_match), DOMAIN ijw, Capacity(deg_bdd))
    BY <1>1, <1>2, MatchingWithinBounds
  <1>4. DOMAIN ijw \in SUBSET Edge /\ \A e \in DOMAIN ijw : ijw[e] \in Nat
    BY <1>1 DEF TypeOK
  <1>5. B_match \in Seq(Edge) /\ NoDuplicate(B_match)
    BY <1>1 DEF TypeOK, EdgesUsedOnce
  <1>6. BestWeight(DOMAIN ijw, ijw, Capacity(deg_bdd)) <= 2 * Weight(ToSet(B_match), ijw)
    BY HalfAtEnd
  <1>7. QED
    BY <1>3, <1>4, <1>5, <1>6

\* The abstract solver weighs as the greedy one does.
LEMMA AbstractWeights ==
  /\ \A B, w : Abstract!Weight(B, w) = Weight(B, w)
  /\ \A E, w, b : Abstract!BestWeight(E, w, b) = BestWeight(E, w, b)
  <1>1. \A B, w : Abstract!Weight(B, w) = Weight(B, w)
    BY DEF Abstract!Weight, Weight, Abstract!SumFunctionOnSet, SumFunctionOnSet,
           Abstract!FoldFunctionOnSet, FoldFunctionOnSet, Abstract!MapThenFoldSet, MapThenFoldSet
  <1>2. \A S : Abstract!Cardinality(S) = Cardinality(S)
    BY Zenon DEF Abstract!Cardinality, Cardinality
  <1>3. \A B, E, b : Abstract!IsBMatching(B, E, b) <=> IsBMatching(B, E, b)
    BY <1>2 DEF Abstract!IsBMatching, IsBMatching, Abstract!Degree, Degree, Abstract!Node, Node
  <1>4. \A S : Abstract!Max(S) = Max(S)
    BY DEF Abstract!Max, Max
  <1>5. QED
    BY <1>1, <1>3, <1>4 DEF Abstract!BestWeight, BestWeight

\* "greedy 1/2 approximation to maxwgt solution": what solve() ends with weighs
\* at least half of the heaviest b-matching, on every graph, with self-loops or
\* without, and for every choice of bounds.
THEOREM HalfReached == Spec => []HalfApproximation
  <1>1. HalfInv => HalfApproximation
    <2> SUFFICES ASSUME HalfInv, pc = "done" PROVE Abstract!HalfOfBest
      BY DEF HalfApproximation
    <2>1. BestWeight(DOMAIN ijw, ijw, Capacity(deg_bdd)) <= 2 * Weight(ToSet(B_match), ijw)
      BY HalfAtEnd
    <2>2. BestWeight(DOMAIN ijw, ijw, Capacity(deg_bdd)) \in Nat
      BY BestIsNat DEF HalfInv, OnceInv, BestPossible
    <2>3. Weight(ToSet(B_match), ijw) \in Nat
      BY UsedWeighed, OnceWeight DEF HalfInv, OnceInv, EdgesUsedOnce
    <2>4. QED
      BY <2>1, <2>2, <2>3, AbstractWeights DEF Abstract!HalfOfBest
  <1>2. QED
    BY <1>1, HalfInvHolds, PTL
-----------------------------------------------------------------------------
\* Every step of solve() is a step of the abstract solver or changes nothing
\* it knows of: edges join the matching within the bounds, nothing else happens
\* to it, and it stops only with half of the best weight.
THEOREM GreedyRefines == Spec => ImplementsApproxSolver
  <1>1. Init => Abstract!Init
    <2>1. DOMAIN <<>> = {}
      OBVIOUS
    <2>2. Init => ToSet(B_match) = {} /\ DOMAIN ijw \subseteq Edge /\ (pc = "done") = FALSE
      BY <2>1, GraphInvInit DEF Init, ToSet, GraphInv, TypeOK
    <2>3. QED
      BY <2>2 DEF Abstract!Init, Abstract!Edge, Abstract!Node, Edge, Node
  <1>2. ASSUME OnceInv, OnceInv', DegreeBound', HalfApproximation', [Next]_vars
        PROVE  [Abstract!Next]_(Abstract!vars)
    <2>1. CASE AppendHalf
      <3>1. /\ UNCHANGED <<ijw, deg_bdd>> /\ pc = "append" /\ pc' = "pick"
            /\ B_match' = IF Len(M_walk) > 0 THEN B_match \o HeavyHalf(M_walk) ELSE B_match
        BY <2>1 DEF AppendHalf, graph
      <3>2. B_match \in Seq(Edge) /\ M_walk \in Seq(Edge)
        BY <1>2 DEF OnceInv, GraphInv, TypeOK
      <3>3. ToSet(B_match) \subseteq ToSet(B_match')
        BY <3>1, <3>2, HeavyHalfType, OnceConcat
      <3>4. Abstract!IsBMatching(ToSet(B_match), DOMAIN ijw, Capacity(deg_bdd))'
        BY <1>2, MatchingWithinBounds, PTL
      <3>5. QED
        BY <3>1, <3>3, <3>4 DEF Abstract!Next, Abstract!Grow, Capacity
    <2>2. CASE Finish
      BY <1>2, <2>2 DEF Finish, graph, HalfApproximation, Abstract!Next, Abstract!Stop, Abstract!HalfOfBest, Capacity
    <2>3. CASE UNCHANGED <<ijw, deg_bdd, B_match>> /\ (pc = "done") = (pc' = "done")
      BY <2>3 DEF Abstract!vars, ToSet, Capacity
    <2>4. QED
      BY <1>2, <2>1, <2>2, <2>3
      DEF Next, Solve, Walk, Terminated, PickNode, WalkStop, WalkStep, graph, vars
  <1>3. QED
    BY <1>1, <1>2, OnceInvHolds, BoundsRespected, HalfReached, PTL DEF Spec, Abstract!Spec, ImplementsApproxSolver
=============================================================================
