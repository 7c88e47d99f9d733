--------------------------- MODULE GoblinExactProofs ---------------------------
(****************************************************************************)
(* Theorems about the exact solvers: for every number of nodes, every edge   *)
(* list, all integral bounds and whatever the library selects.               *)
(****************************************************************************)
EXTENDS GoblinExact, BmatchSolverProofs

-----------------------------------------------------------------------------
(****************************************************************************)
(* The invariant of a call of either method.                                 *)
(****************************************************************************)
\* The edges the caller's call may use, and those the library gets.
Asked == Usable(asked_ijw, asked_ub)
Posed == Usable(x_ijw, x_ub)

Low == Clamp(x_lb, Posed)
Upp == Clamp(x_ub, Posed)

\* What the library may choose from.
Feasible == Perfect(Posed, Low, Upp)

ExactTypes ==
  /\ method \in {1, 2}
  /\ asked_ijw \in Seq(Entry) /\ asked_lb \in [Node -> Int] /\ asked_ub \in [Node -> Nat]
  /\ phase \in {"called", "goblin", "solver", "complement", "finished"}
  /\ stage \in {"idle", "called", "pruned", "solving", "solved", "returned"}
  /\ success \in {0, 1}
  /\ bmatch_edge_vec \in Seq(Edge) /\ bmatch_wgt \in Int
  /\ Sub \in SUBSET Edge /\ AAmat \in SUBSET Edge
  /\ num_bmatch_edge \in -1 .. Cardinality(Edge)

\* GoblinExactBmatch is called with the caller's problem, or with the
\* complementary one: the same edges, and for each node what may be left out.
PosedKnown ==
  /\ x_ijw \in Seq(Entry) /\ x_lb \in [Node -> Int] /\ x_ub \in [Node -> Nat]
  /\ method = 2 => x_ijw = asked_ijw /\ x_lb = asked_lb /\ x_ub = asked_ub
  /\ method = 1 =>
       /\ AAmat = Asked
       /\ \A e \in Edge : Total(x_ijw, e) = IF e \in Asked THEN Total(asked_ijw, e) ELSE 0
       /\ HasNegativeWeight(x_ijw) => HasNegativeWeight(asked_ijw)
       /\ \A x \in Node : /\ x_lb[x] = Degree(Asked, x) - KeptUpper(Asked)[x]
                          /\ x_ub[x] = Degree(Asked, x) - KeptLower(Asked)[x]

\* Weights that sum up to less than nothing change their signs.
ScaledKnown ==
  /\ in_ijw \in Seq(Entry) /\ in_lb = x_lb /\ in_ub = x_ub
  /\ total \in Nat
  /\ \A e \in Edge : IF e \in Posed THEN Total(in_ijw, e) # 0 ELSE Total(in_ijw, e) = 0
  /\ HasNegativeWeight(in_ijw) => HasNegativeWeight(x_ijw)
  /\ ~ HasNegativeWeight(x_ijw) =>
       \A e \in Posed : Total(in_ijw, e) = Total(x_ijw, e) /\ Total(in_ijw, e) <= total

\* The library has not been called.
Untouched == LB_TCap_vec = <<>> /\ Sub = {}

GraphKnown == ~ HasNegativeWeight(in_ijw) /\ ijw = UsableGraph(in_ijw, in_ub)

LibraryKnown ==
  /\ GraphKnown
  /\ LB_TCap_vec = Low /\ UB_TCap_vec = Upp
  /\ DOMAIN cost = Posed /\ \A e \in Posed : cost[e] \in Costs(ijw[e])
  /\ Sub \subseteq Posed

Cheapest == Sub \in Feasible /\ \A C \in Feasible : Weight(Sub, cost) <= Weight(C, cost)

\* How the inner call ends: without the library, or with what it selected.
CallOver ==
  \/ /\ success = 0 /\ Untouched
     /\ HasNegativeWeight(in_ijw) \/ (method = 2 /\ Crossed(x_lb, x_ub))
  \/ LibraryKnown /\ (IF success = 1 THEN Cheapest ELSE Feasible = {})

CallKnown ==
  /\ stage \in {"called", "pruned", "solving", "solved", "returned"}
  /\ stage \in {"called", "pruned"} => Untouched
  /\ stage \in {"called", "pruned", "solving", "solved"} => bmatch_edge_vec = <<>>
  /\ stage = "pruned" => GraphKnown
  /\ stage = "solving" => LibraryKnown
  /\ stage = "solved" => LibraryKnown /\ (IF num_bmatch_edge < 0 THEN Feasible = {} ELSE Cheapest)
  /\ stage = "returned" => CallOver

\* The list holds these edges, each once.
Lists(B) == NoDuplicate(bmatch_edge_vec) /\ ToSet(bmatch_edge_vec) = B

ExactInv ==
  /\ ExactTypes
  /\ phase \in {"called", "goblin"} => stage = "idle" /\ Untouched /\ bmatch_edge_vec = <<>>
  /\ phase = "called" => method = 1
  /\ phase # "called" => PosedKnown
  /\ phase \in {"solver", "complement", "finished"} => ScaledKnown
  /\ phase = "solver" => CallKnown /\ (stage = "returned" => Lists(Sub))
  /\ phase = "complement" => method = 1 /\ CallOver /\ Lists(Sub)
  /\ phase = "finished" =>
       /\ CallOver
       /\ Lists(IF method = 1 THEN Asked \ Sub ELSE Sub)
       /\ bmatch_wgt = WeightIn(asked_ijw, Answer)
-----------------------------------------------------------------------------
(****************************************************************************)
(* Edges and weights on their way through the calls.                         *)
(****************************************************************************)
\* What is copied from the library object: every edge of the set once.
LEMMA EdgeVecLists ==
  ASSUME NEW B \in SUBSET Edge
  PROVE  EdgeVec(B) \in Seq(Edge) /\ NoDuplicate(EdgeVec(B)) /\ ToSet(EdgeVec(B)) = B
  BY EdgesListed DEF EdgeVec, EdgesOf

LEMMA EmptyLists == <<>> \in Seq(Edge) /\ NoDuplicate(<<>>) /\ ToSet(<<>>) = {}
  BY DEF NoDuplicate, ToSet

\* The upper triangle without the nodes of no bound is the usable graph.
LEMMA PositiveIsUsable == \A s, ub : PositiveEdges(s, ub) = UsableGraph(s, ub)
  BY DEF PositiveEdges, UsableGraph, Usable

\* The weight of a set is the sum of the totals of its edges.
LEMMA WeightInIs ==
  ASSUME NEW s \in Seq(Entry), NEW B \in SUBSET Edge
  PROVE  /\ WeightIn(s, B) \in Int
         /\ \A w : (\A e \in B : w[e] = Total(s, e)) => Weight(B, w) = WeightIn(s, B)
  <1> DEFINE g == [e \in B |-> Total(s, e)]
  <1>1. IsFiniteSet(B)
    BY EdgesFinite
  <1>2. \A e \in B : g[e] = Total(s, e) /\ g[e] \in Int
    BY TotalFacts
  <1>3. WeightIn(s, B) = SumFunctionOnSet(g, B)
    BY DEF WeightIn, SumFunction
  <1> HIDE DEF g
  <1>4. ASSUME NEW w, \A e \in B : w[e] = Total(s, e)
        PROVE  Weight(B, w) = WeightIn(s, B)
    <2>1. \A e \in B : w[e] = g[e]
      BY <1>2, <1>4
    <2>2. QED
      BY <1>1, <1>3, <2>1, SumSame, WeightIsSum
  <1>5. QED
    BY <1>1, <1>2, <1>3, <1>4, SumType

\* An entry's total is at most the sum of all weights, unless some are
\* negative; a negative sum has a negative weight.
LEMMA TotalWithinSum ==
  ASSUME NEW s \in Seq(Entry)
  PROVE  /\ SumFunction(Listed(s)) \in Int
         /\ ~ HasNegativeWeight(s) =>
              /\ SumFunction(Listed(s)) \in Nat
              /\ \A p : Total(s, p) <= SumFunction(Listed(s))
  <1> DEFINE g == Listed(s)
             K == DOMAIN s
  <1>1. /\ IsFiniteSet(K) /\ DOMAIN g = K
        /\ \A k \in K : g[k] = s[k][3] /\ g[k] \in Int
    <2>1. Len(s) \in Nat /\ K = 1 .. Len(s) /\ \A k \in K : s[k] \in Entry
      BY LenProperties, ElementOfSeq
    <2>2. \A k \in K : s[k][3] \in Int
      BY <2>1 DEF Entry
    <2>3. IsFiniteSet(K)
      BY <2>1, FS_Interval, 1 \in Int
    <2>4. QED
      BY <2>2, <2>3 DEF Listed
  <1>2. SumFunction(Listed(s)) = SumFunctionOnSet(g, K)
    BY <1>1 DEF SumFunction
  <1>3. ASSUME ~ HasNegativeWeight(s), NEW p
        PROVE  SumFunctionOnSet(g, K) \in Nat /\ Total(s, p) <= SumFunctionOnSet(g, K)
    <2> DEFINE L == EntriesAt(s, p)
               M == K \ L
    <2>1. \A k \in K : g[k] \in Nat
      BY <1>1, <1>3 DEF HasNegativeWeight
    <2>2. /\ L \in SUBSET K /\ IsFiniteSet(L) /\ IsFiniteSet(M)
          /\ K = L \cup M /\ L \cap M = {}
      BY <1>1, FS_Subset DEF EntriesAt
    <2>3. Total(s, p) = SumFunctionOnSet(g, L)
      BY TotalFacts
    <2> HIDE DEF g, K, L, M
    <2>4. SumFunctionOnSet(g, K) = SumFunctionOnSet(g, L) + SumFunctionOnSet(g, M)
      <3>1. \A k \in L \cup M : g[k] \in Int
        BY <2>1, <2>2
      <3>2. SumFunctionOnSet(g, L \cup M) = SumFunctionOnSet(g, L) + SumFunctionOnSet(g, M)
        BY <2>2, <3>1, SumUnion
      <3>3. QED
        BY <2>2, <3>2
    <2>5. /\ SumFunctionOnSet(g, K) \in Nat /\ SumFunctionOnSet(g, L) \in Nat
          /\ SumFunctionOnSet(g, M) \in Nat
      BY <1>1, <2>1, <2>2, SumNat
    <2>6. QED
      BY <2>3, <2>4, <2>5
  <1>4. SumFunctionOnSet(g, K) \in Int
    BY <1>1, SumType
  <1>5. QED
    BY <1>2, <1>3, <1>4

\* Changing the sign of every weight changes the sign of every total.
LEMMA TotalNegated ==
  ASSUME NEW s \in Seq(Entry), NEW t, t = [k \in DOMAIN s |-> <<s[k][1], s[k][2], -s[k][3]>>]
  PROVE  t \in Seq(Entry) /\ \A p : Total(t, p) = -Total(s, p)
  <1>1. /\ Len(s) \in Nat /\ DOMAIN s = 1 .. Len(s)
        /\ \A k \in DOMAIN s : /\ s[k][1] \in Node /\ s[k][2] \in Node
                               /\ s[k][3] \in Int /\ -s[k][3] \in Int
    <2>1. Len(s) \in Nat /\ DOMAIN s = 1 .. Len(s) /\ \A k \in DOMAIN s : s[k] \in Entry
      BY LenProperties, ElementOfSeq
    <2>2. QED
      BY <2>1 DEF Entry
  <1>2. DOMAIN t = DOMAIN s /\ \A k \in DOMAIN s : t[k] = <<s[k][1], s[k][2], -s[k][3]>>
    OBVIOUS
  <1>3. t \in Seq(Entry)
    <2>1. \A k \in 1 .. Len(s) : <<s[k][1], s[k][2], -s[k][3]>> \in Entry
      BY <1>1 DEF Entry
    <2>2. \A k \in 1 .. Len(s) : t[k] \in Entry
      BY <1>1, <1>2, <2>1
    <2>3. t = [k \in 1 .. Len(s) |-> t[k]]
      BY <1>1
    <2>4. QED
      BY <1>1, <2>2, <2>3, IsASeq
  <1>4. ASSUME NEW p
        PROVE  Total(t, p) = -Total(s, p)
    <2> DEFINE K == EntriesAt(s, p)
               g == Listed(t)
               h == Listed(s)
    <2>1. EntriesAt(t, p) = K
      BY <1>2 DEF EntriesAt
    <2>2. /\ IsFiniteSet(K)
          /\ Total(s, p) = SumFunctionOnSet(h, K) /\ Total(s, p) \in Int
          /\ Total(t, p) = SumFunctionOnSet(g, K) /\ Total(t, p) \in Int
      BY <1>3, <2>1, TotalFacts
    <2>3. \A k \in K : g[k] = -s[k][3] /\ h[k] = s[k][3] /\ s[k][3] \in Int
      BY <1>1, <1>2 DEF EntriesAt, Listed
    <2> HIDE DEF K, g, h
    <2>4. \A k \in K : /\ g[k] \in Int /\ h[k] \in Int
                       /\ -0 <= 1 * g[k] - (-1) * h[k] /\ 1 * g[k] - (-1) * h[k] <= 0
      BY <2>3
    <2> DEFINE apart == 1 * SumFunctionOnSet(g, K) - (-1) * SumFunctionOnSet(h, K)
    <2>5. -(0 * Cardinality(K)) <= apart /\ apart <= 0 * Cardinality(K)
      BY <2>2, <2>4, SumsApart, 0 \in Int, 1 \in Int, -1 \in Int
    <2>6. Cardinality(K) \in Nat
      BY <2>2, FS_CardinalityType
    <2>7. 0 * Cardinality(K) = 0
      BY <2>6
    <2>8. -0 <= apart /\ apart <= 0
      BY <2>5, <2>7
    <2>9. apart = Total(t, p) + Total(s, p)
      BY <2>2
    <2> HIDE DEF apart
    <2>10. QED
      BY <2>2, <2>8, <2>9
  <1>5. QED
    BY <1>3, <1>4
-----------------------------------------------------------------------------
(****************************************************************************)
(* The complementary problem, and the problem that reaches the library.      *)
(****************************************************************************)
\* What may be kept at a node, and what must and may be left out.
LEMMA KeptBounds ==
  ASSUME DegUnit = 1, asked_lb \in [Node -> Int], asked_ub \in [Node -> Nat],
         NEW E \in SUBSET Edge, NEW x \in Node
  PROVE  /\ Degree(E, x) \in Nat
         /\ KeptUpper(E)[x] \in Nat
         /\ KeptUpper(E)[x] = IF asked_ub[x] <= Degree(E, x) THEN asked_ub[x] ELSE Degree(E, x)
         /\ KeptLower(E)[x] \in Nat
         /\ KeptLower(E)[x] = IF asked_lb[x] < 0 THEN 0
                              ELSE IF asked_lb[x] <= KeptUpper(E)[x] THEN asked_lb[x]
                              ELSE KeptUpper(E)[x]
         /\ KeptLower(E)[x] <= KeptUpper(E)[x] /\ KeptUpper(E)[x] <= Degree(E, x)
  <1>1. asked_ub \in [Node -> Int] /\ asked_ub[x] \in Nat /\ asked_lb[x] \in Int
    OBVIOUS
  <1>2. /\ Degree(E, x) \in Nat /\ KeptUpper(E)[x] \in Nat
        /\ KeptUpper(E)[x] = IF asked_ub[x] < 0 THEN 0
                             ELSE IF asked_ub[x] <= Degree(E, x) THEN asked_ub[x] ELSE Degree(E, x)
    BY <1>1, ClampIs DEF KeptUpper
  <1> DEFINE k == KeptUpper(E)[x]
             a == asked_lb[x]
             c == Min({a, k})
  <1>3. KeptLower(E)[x] = Max({0, c})
    BY DEF KeptLower
  <1>4. k \in Int /\ a \in Int
    BY <1>1, <1>2
  <1> HIDE DEF k, a
  <1>5. c \in Int /\ c = IF a <= k THEN a ELSE k
    BY <1>4, MaxMinOfTwo
  <1> HIDE DEF c
  <1>6. Max({0, c}) = IF 0 <= c THEN c ELSE 0
    BY <1>5, MaxMinOfTwo, 0 \in Int
  <1>7. /\ k \in Nat /\ Degree(E, x) \in Nat
        /\ k = IF asked_ub[x] <= Degree(E, x) THEN asked_ub[x] ELSE Degree(E, x)
    BY <1>1, <1>2 DEF k
  <1> DEFINE m == KeptLower(E)[x]
  <1>8. m = IF a < 0 THEN 0 ELSE IF a <= k THEN a ELSE k
    BY <1>3, <1>4, <1>5, <1>6, <1>7
  <1> HIDE DEF m
  <1>9. m \in Nat /\ m <= k /\ k <= Degree(E, x)
    BY <1>1, <1>4, <1>7, <1>8
  <1>10. QED
    BY <1>7, <1>8, <1>9 DEF k, a, m

\* The caller's usable edges.
LEMMA AskedFacts ==
  ASSUME asked_ijw \in Seq(Entry)
  PROVE  Asked \in SUBSET Edge /\ \A e \in Asked : Total(asked_ijw, e) \in Int
  BY UsableFacts, TotalFacts DEF Asked

\* The complementary bounds are in order.
LEMMA ComplementInOrder ==
  ASSUME DegUnit = 1, ExactTypes, PosedKnown, method = 1, NEW x \in Node
  PROVE  x_lb[x] <= x_ub[x]
  <1>1. Asked \in SUBSET Edge
    BY AskedFacts DEF ExactTypes
  <1>2. /\ Degree(Asked, x) \in Nat /\ KeptUpper(Asked)[x] \in Nat /\ KeptLower(Asked)[x] \in Nat
        /\ KeptLower(Asked)[x] <= KeptUpper(Asked)[x]
    BY <1>1, KeptBounds DEF ExactTypes
  <1>3. /\ x_lb[x] = Degree(Asked, x) - KeptUpper(Asked)[x]
        /\ x_ub[x] = Degree(Asked, x) - KeptLower(Asked)[x]
    BY DEF PosedKnown
  <1>4. QED
    BY <1>2, <1>3

\* The edges of the inner call.
LEMMA PosedFacts ==
  ASSUME PosedKnown
  PROVE  Posed \in SUBSET Edge /\ IsFiniteSet(Posed)
  BY UsableFacts, EdgesFinite DEF PosedKnown, Posed

\* The scaled list has the same edges.
LEMMA ScaledUsable ==
  ASSUME PosedKnown, ScaledKnown
  PROVE  Usable(in_ijw, in_ub) = Posed
  BY DEF PosedKnown, ScaledKnown, Usable, Posed

\* The bounds and the edges the library gets.
LEMMA PosedBounds ==
  ASSUME DegUnit = 1, PosedKnown
  PROVE  /\ \A x \in Node : Low[x] \in Nat /\ Upp[x] \in Nat
         /\ Low = [x \in Node |-> Low[x] \div DegUnit]
         /\ Upp = [x \in Node |-> Upp[x] \div DegUnit]
  <1>1. x_lb \in [Node -> Int] /\ x_ub \in [Node -> Int] /\ Posed \in SUBSET Edge
    BY PosedFacts DEF PosedKnown
  <1>2. \A x \in Node : Low[x] \in Nat /\ Upp[x] \in Nat
    BY <1>1, ClampIs DEF Low, Upp
  <1>3. Low = [x \in Node |-> Low[x]] /\ Upp = [x \in Node |-> Upp[x]]
    BY DEF Low, Upp, Clamp
  <1>4. \A n \in Nat : n \div 1 = n
    OBVIOUS
  <1>5. \A x \in Node : Low[x] \div DegUnit = Low[x] /\ Upp[x] \div DegUnit = Upp[x]
    BY <1>2, <1>4
  <1>6. QED
    BY <1>2, <1>3, <1>5

-----------------------------------------------------------------------------
(****************************************************************************)
(* The parts of the invariant that a step leaves alone.                      *)
(****************************************************************************)
\* The problem does not change once it is posed,
LEMMA PosedRests ==
  ASSUME UNCHANGED <<asked, xargs, AAmat>>
  PROVE  /\ PosedKnown' <=> PosedKnown
         /\ Asked' = Asked /\ Posed' = Posed /\ Low' = Low /\ Upp' = Upp
  BY DEF PosedKnown, Asked, Posed, Low, Upp, asked, xargs, KeptUpper, KeptLower

\* nor do the scaled weights,
LEMMA ScaledRests ==
  ASSUME UNCHANGED <<asked, xargs, AAmat, total, args>>
  PROVE  ScaledKnown' <=> ScaledKnown
  BY PosedRests DEF ScaledKnown, xargs, args

\* nor what the library was given.
LEMMA LibraryRests ==
  ASSUME UNCHANGED <<asked, xargs, AAmat, total, args, ijw, LB_TCap_vec, UB_TCap_vec, cost, Sub>>
  PROVE  /\ LibraryKnown' <=> LibraryKnown
         /\ Cheapest' <=> Cheapest
         /\ Feasible' = Feasible
  <1>1. Posed' = Posed /\ Low' = Low /\ Upp' = Upp
    BY PosedRests
  <1>2. Feasible' = Feasible
    BY <1>1 DEF Feasible
  <1>3. GraphKnown' <=> GraphKnown
    BY DEF GraphKnown, args
  <1>4. LibraryKnown' <=> LibraryKnown
    BY <1>1, <1>3 DEF LibraryKnown, Costs
  <1>5. Cheapest' <=> Cheapest
    BY <1>2 DEF Cheapest
  <1>6. QED
    BY <1>2, <1>4, <1>5

\* How the inner call has ended stays known.
LEMMA OverRests ==
  ASSUME UNCHANGED <<asked, xargs, AAmat, total, args, ijw, LB_TCap_vec, UB_TCap_vec, cost, Sub, success>>
  PROVE  CallOver' <=> CallOver
  BY LibraryRests DEF CallOver, Untouched, args, xargs, asked
-----------------------------------------------------------------------------
(****************************************************************************)
(* The steps.                                                                *)
(****************************************************************************)
LEMMA EdgeCount ==
  /\ Cardinality(Edge) \in Nat /\ 0 \in -1 .. Cardinality(Edge) /\ -1 \in -1 .. Cardinality(Edge)
  /\ \A B \in SUBSET Edge : Cardinality(B) \in Nat /\ Cardinality(B) \in -1 .. Cardinality(Edge)
  <1>1. IsFiniteSet(Edge)
    BY EdgesFinite
  <1>2. Cardinality(Edge) \in Nat
    BY <1>1, FS_CardinalityType
  <1>3. \A B \in SUBSET Edge : Cardinality(B) \in Nat /\ Cardinality(B) <= Cardinality(Edge)
    BY <1>1, FS_Subset, FS_CardinalityType
  <1>4. QED
    BY <1>2, <1>3

\* A call starts in the invariant.
LEMMA ExactInvInit ==
  ASSUME IntegralBounds, XInit
  PROVE  ExactInv
  <1>1. /\ method \in {1, 2}
        /\ asked_ijw \in Seq(Entry) /\ asked_lb \in [Node -> Int] /\ asked_ub \in [Node -> Nat]
    BY CallAssumption, NumberAssumption DEF IntegralBounds, XInit, Entry
  <1>2. ExactTypes
    BY <1>1, EdgeCount, EmptyLists DEF XInit, ExactTypes, Unset
  <1>3. phase # "called" => PosedKnown
    BY <1>1 DEF XInit, PosedKnown
  <1>4. QED
    BY <1>1, <1>2, <1>3 DEF XInit, ExactInv, Untouched

\* Method 1 poses the complementary problem.
LEMMA ComplementBoundsStep ==
  ASSUME DegUnit = 1, ExactInv, ComplementBounds
  PROVE  ExactInv'
  <1> DEFINE E == Usable(asked_ijw, asked_ub)
             w == UsableGraph(asked_ijw, asked_ub)
             s == svecvec_2_ijw(w)
  <1>1. /\ ExactTypes /\ method = 1 /\ stage = "idle" /\ Untouched /\ bmatch_edge_vec = <<>>
        /\ asked_ijw \in Seq(Entry) /\ asked_lb \in [Node -> Int] /\ asked_ub \in [Node -> Nat]
    BY DEF ExactInv, ExactTypes, ComplementBounds
  <1>2. /\ E \in SUBSET Edge /\ DOMAIN w = E
        /\ \A e \in E : w[e] = Total(asked_ijw, e) /\ w[e] \in Int /\ w[e] # 0
    BY <1>1, UsableFacts, TotalFacts
  <1>3. w = [e \in E |-> w[e]]
    BY DEF UsableGraph
  <1>4. /\ s \in Seq(Entry)
        /\ \A e \in Edge : Total(s, e) = IF e \in E THEN w[e] ELSE 0
        /\ HasNegativeWeight(s) => \E e \in E : w[e] < 0
    <2> HIDE DEF w, E
    <2>1. w \in [E -> Int]
      BY <1>2, <1>3
    <2>2. QED
      BY <1>2, <2>1, ListOfGraph
  <1>5. HasNegativeWeight(s) => HasNegativeWeight(asked_ijw)
    <2>1. ASSUME NEW e \in E, w[e] < 0, ~ HasNegativeWeight(asked_ijw)
          PROVE  FALSE
      <3>1. Total(asked_ijw, e) \in Nat
        BY <1>1, <2>1, TotalFacts
      <3> HIDE DEF w
      <3>2. QED
        BY <1>2, <2>1, <3>1
    <2>2. QED
      BY <1>4, <2>1
  <1>6. /\ AAmat' = E /\ x_ijw' = s
        /\ x_lb' = [x \in Node |-> DegUnit * Degree(E, x) - KeptUpper(E)[x]]
        /\ x_ub' = [x \in Node |-> DegUnit * Degree(E, x) - KeptLower(E)[x]]
    BY <1>2, PositiveIsUsable DEF ComplementBounds
  <1> HIDE DEF s, w
  <1>7. /\ UNCHANGED svars /\ UNCHANGED asked /\ UNCHANGED total /\ UNCHANGED gptr
        /\ phase' = "goblin"
    BY DEF ComplementBounds
  <1>8. Asked' = E
    BY <1>7 DEF Asked, asked
  <1> HIDE DEF E
  <1>9. ASSUME NEW x \in Node
        PROVE  /\ x_lb'[x] = Degree(E, x) - KeptUpper(E)[x] /\ x_lb'[x] \in Int
               /\ x_ub'[x] = Degree(E, x) - KeptLower(E)[x] /\ x_ub'[x] \in Nat
    <2>1. /\ Degree(E, x) \in Nat /\ KeptUpper(E)[x] \in Nat /\ KeptLower(E)[x] \in Nat
          /\ KeptLower(E)[x] <= KeptUpper(E)[x] /\ KeptUpper(E)[x] <= Degree(E, x)
      BY <1>1, <1>2, KeptBounds
    <2>2. /\ x_lb'[x] = DegUnit * Degree(E, x) - KeptUpper(E)[x]
          /\ x_ub'[x] = DegUnit * Degree(E, x) - KeptLower(E)[x]
      BY <1>6
    <2>3. QED
      BY <2>1, <2>2
  <1>10. x_lb' \in [Node -> Int] /\ x_ub' \in [Node -> Nat]
    <2>1. x_lb' = [x \in Node |-> x_lb'[x]] /\ x_ub' = [x \in Node |-> x_ub'[x]]
      BY <1>6
    <2>2. QED
      BY <1>9, <2>1
  <1>11. /\ asked_ijw' = asked_ijw /\ method' = 1
    BY <1>1, <1>7 DEF asked
  <1>12. \A e \in Edge : Total(s, e) = IF e \in E THEN Total(asked_ijw, e) ELSE 0
    BY <1>2, <1>4
  <1>13. PosedKnown'
    <2>1. \A x \in Node : /\ x_lb'[x] = Degree(Asked', x) - (KeptUpper(Asked)')[x]
                          /\ x_ub'[x] = Degree(Asked', x) - (KeptLower(Asked)')[x]
      <3>1. KeptUpper(Asked)' = KeptUpper(E) /\ KeptLower(Asked)' = KeptLower(E)
        BY <1>7, <1>8 DEF KeptUpper, KeptLower, asked
      <3>2. QED
        BY <1>8, <1>9, <3>1
    <2>2. QED
      BY <1>4, <1>5, <1>6, <1>8, <1>10, <1>11, <1>12, <2>1 DEF PosedKnown
  <1>14. ExactTypes'
    BY <1>1, <1>2, <1>6, <1>7 DEF ExactTypes, asked, svars, outputs, args, gptr
  <1>15. QED
    BY <1>1, <1>7, <1>13, <1>14 DEF ExactInv, Untouched, svars, outputs, args, gptr

\* Scaling changes no weight's place and only all signs together.
LEMMA ScaleWeightsStep ==
  ASSUME DegUnit = 1, ExactInv, ScaleWeights
  PROVE  ExactInv'
  <1> DEFINE E == Posed
             w == UsableGraph(x_ijw, x_ub)
             s == svecvec_2_ijw(w)
             sum0 == SumFunction(Listed(s))
             t == [k \in DOMAIN s |-> <<s[k][1], s[k][2], IF sum0 < 0 THEN -s[k][3] ELSE s[k][3]>>]
  <1>1. /\ ExactTypes /\ PosedKnown /\ stage = "idle" /\ Untouched /\ bmatch_edge_vec = <<>>
        /\ x_ijw \in Seq(Entry)
    BY DEF ExactInv, PosedKnown, ScaleWeights
  <1>2. /\ E \in SUBSET Edge /\ DOMAIN w = E
        /\ \A e \in E : w[e] = Total(x_ijw, e) /\ w[e] \in Int /\ w[e] # 0
    BY <1>1, UsableFacts, TotalFacts DEF Posed
  <1>3. w = [e \in E |-> w[e]]
    BY DEF UsableGraph, Posed
  <1>4. /\ s \in Seq(Entry)
        /\ \A e \in Edge : Total(s, e) = IF e \in E THEN w[e] ELSE 0
        /\ HasNegativeWeight(s) => \E e \in E : w[e] < 0
    <2> HIDE DEF w, E
    <2>1. w \in [E -> Int]
      BY <1>2, <1>3
    <2>2. QED
      BY <1>2, <2>1, ListOfGraph
  <1>5. in_ijw' = t /\ total' = IF sum0 < 0 THEN -sum0 ELSE sum0
    BY PositiveIsUsable DEF ScaleWeights
  <1> HIDE DEF s, w, E
  <1>6. HasNegativeWeight(s) => HasNegativeWeight(x_ijw)
    <2>1. ASSUME NEW e \in E, w[e] < 0, ~ HasNegativeWeight(x_ijw)
          PROVE  FALSE
      <3>1. Total(x_ijw, e) \in Nat
        BY <1>1, TotalFacts, <2>1
      <3>2. QED
        BY <1>2, <2>1, <3>1
    <2>2. QED
      BY <1>4, <2>1
  <1>7. sum0 \in Int /\ (sum0 < 0 => HasNegativeWeight(s))
    <2>1. SumFunction(Listed(s)) \in Int /\ (~ HasNegativeWeight(s) => SumFunction(Listed(s)) \in Nat)
      BY <1>4, TotalWithinSum
    <2>2. QED
      BY <2>1
  <1>8. /\ in_ijw' \in Seq(Entry) /\ total' \in Nat
        /\ \A e \in Edge : IF e \in E THEN Total(in_ijw', e) # 0 ELSE Total(in_ijw', e) = 0
        /\ HasNegativeWeight(in_ijw') => HasNegativeWeight(x_ijw)
        /\ ~ HasNegativeWeight(x_ijw) =>
             \A e \in E : Total(in_ijw', e) = Total(x_ijw, e) /\ Total(in_ijw', e) <= total'
    <2>1. CASE sum0 < 0
      <3>1. t = [k \in DOMAIN s |-> <<s[k][1], s[k][2], -s[k][3]>>]
        BY <2>1
      <3>2. HasNegativeWeight(x_ijw)
        BY <1>6, <1>7, <2>1
      <3> HIDE DEF t
      <3>3. t \in Seq(Entry) /\ \A p : Total(t, p) = -Total(s, p)
        BY <1>4, <3>1, TotalNegated
      <3>4. \A e \in Edge : IF e \in E THEN Total(t, e) # 0 ELSE Total(t, e) = 0
        BY <1>2, <1>4, <3>3
      <3> HIDE DEF sum0
      <3>5. total' \in Nat
        BY <1>5, <1>7, <2>1
      <3>6. QED
        BY <1>5, <3>2, <3>3, <3>4, <3>5
    <2>2. CASE ~ (sum0 < 0)
      <3>1. t = s
        <4>1. /\ Len(s) \in Nat /\ DOMAIN s = 1 .. Len(s) /\ s = [k \in 1 .. Len(s) |-> s[k]]
              /\ \A k \in DOMAIN s : s[k] \in Entry
          BY <1>4, LenProperties, ElementOfSeq
        <4>2. \A k \in DOMAIN s : s[k] = <<s[k][1], s[k][2], s[k][3]>>
          BY <4>1 DEF Entry
        <4>3. t = [k \in DOMAIN s |-> <<s[k][1], s[k][2], s[k][3]>>]
          BY <2>2
        <4>4. QED
          BY <4>1, <4>2, <4>3
      <3>2. /\ ~ HasNegativeWeight(x_ijw) => ~ HasNegativeWeight(s)
            /\ ~ HasNegativeWeight(s) => \A p : Total(s, p) <= sum0
        BY <1>4, <1>6, TotalWithinSum
      <3> HIDE DEF t, sum0
      <3>3. \A e \in Edge : IF e \in E THEN Total(t, e) # 0 ELSE Total(t, e) = 0
        BY <1>2, <1>4, <3>1
      <3>4. total' = sum0 /\ sum0 \in Nat
        BY <1>5, <1>7, <2>2
      <3>5. \A e \in E : Total(t, e) = Total(x_ijw, e)
        BY <1>2, <1>4, <3>1
      <3>6. QED
        BY <1>4, <1>5, <1>6, <3>1, <3>2, <3>3, <3>4, <3>5
    <2>3. QED
      BY <2>1, <2>2
  <1>9. /\ in_lb' = x_lb /\ in_ub' = x_ub /\ stage' = "called" /\ phase' = "solver"
         /\ UNCHANGED outputs /\ UNCHANGED asked /\ UNCHANGED xargs /\ UNCHANGED AAmat /\ UNCHANGED gptr
    BY DEF ScaleWeights
  <1>10. PosedKnown' /\ Posed' = E
    BY <1>1, <1>9, PosedRests DEF E
  <1>11. ScaledKnown'
    BY <1>8, <1>9, <1>10 DEF ScaledKnown, xargs
  <1>12. ExactTypes'
    BY <1>1, <1>9 DEF ExactTypes, asked, outputs, gptr
  <1>13. CallKnown'
    BY <1>1, <1>9 DEF CallKnown, Untouched, outputs, gptr
  <1>14. QED
    BY <1>9, <1>10, <1>11, <1>12, <1>13 DEF ExactInv

\* What a step of the inner call leaves alone.
OuterRests == UNCHANGED <<asked, xargs, AAmat, total, phase>>

\* During the inner call.
LEMMA DuringCall ==
  ASSUME ExactInv, phase = "solver"
  PROVE  /\ ExactTypes /\ PosedKnown /\ ScaledKnown /\ CallKnown
         /\ Posed \in SUBSET Edge /\ Usable(in_ijw, in_ub) = Posed
         /\ in_ijw \in Seq(Entry) /\ in_lb = x_lb /\ in_ub = x_ub
         /\ x_lb \in [Node -> Int] /\ x_ub \in [Node -> Nat] /\ x_ub \in [Node -> Int]
  <1>1. ExactTypes /\ PosedKnown /\ ScaledKnown /\ CallKnown
    BY DEF ExactInv
  <1>2. Posed \in SUBSET Edge /\ Usable(in_ijw, in_ub) = Posed
    BY <1>1, PosedFacts, ScaledUsable
  <1>3. QED
    BY <1>1, <1>2 DEF ScaledKnown, PosedKnown

\* A step of the inner call that does not end it keeps the invariant if it
\* keeps what is known of the call.
LEMMA InnerStep ==
  ASSUME ExactInv, phase = "solver", OuterRests, UNCHANGED args,
         CallKnown', stage' = "returned" => Lists(Sub)',
         stage' \in {"idle", "called", "pruned", "solving", "solved", "returned"},
         success' \in {0, 1}, bmatch_edge_vec' \in Seq(Edge), bmatch_wgt' \in Int,
         Sub' \in SUBSET Edge, num_bmatch_edge' \in -1 .. Cardinality(Edge)
  PROVE  ExactInv'
  <1>1. PosedKnown' /\ ScaledKnown'
    BY DuringCall, PosedRests, ScaledRests DEF OuterRests
  <1>2. ExactTypes'
    BY DuringCall DEF ExactTypes, OuterRests, asked
  <1>3. QED
    BY <1>1, <1>2 DEF ExactInv, OuterRests

\* A rejected call has not come to the library.
LEMMA RejectedStep ==
  ASSUME ExactInv, phase = "solver", OuterRests, stage \in {"called", "pruned"}, Reject, Reset,
         HasNegativeWeight(in_ijw) \/ (method = 2 /\ Crossed(x_lb, x_ub))
  PROVE  ExactInv'
  <1>1. ExactTypes /\ Untouched
    BY DuringCall DEF CallKnown
  <1>2. /\ stage' = "returned" /\ success' = 0 /\ bmatch_edge_vec' = <<>>
        /\ bmatch_wgt' = bmatch_wgt /\ UNCHANGED args /\ num_bmatch_edge' = 0
        /\ LB_TCap_vec' = LB_TCap_vec /\ Sub' = Sub
    BY DEF Reject, Reset
  <1>3. Untouched' /\ Sub' = {}
    BY <1>1, <1>2 DEF Untouched
  <1>4. (HasNegativeWeight(in_ijw) \/ (method = 2 /\ Crossed(x_lb, x_ub)))'
    BY <1>2 DEF OuterRests, asked, xargs, args, HasNegativeWeight, Crossed
  <1>5. CallOver'
    BY <1>2, <1>3, <1>4 DEF CallOver
  <1>6. CallKnown' /\ Lists(Sub)'
    BY <1>2, <1>3, <1>5, EmptyLists DEF CallKnown, Lists
  <1>7. QED
    BY <1>1, <1>2, <1>3, <1>6, EdgeCount, EmptyLists, InnerStep DEF ExactTypes

\* The graph of the inner call is the one that was posed.
LEMMA RemoveEdgesCall ==
  ASSUME DegUnit = 1, ExactInv, phase = "solver", OuterRests, RemoveEdges, Reset
  PROVE  ExactInv'
  <1>1. ExactTypes /\ Untouched /\ ~ HasNegativeWeight(in_ijw)
    BY DuringCall DEF CallKnown, RemoveEdges
  <1>2. ijw' = UsableGraph(in_ijw, in_ub)
    BY DuringCall, ProblemIsUsable DEF RemoveEdges
  <1>3. /\ stage' = "pruned" /\ success' = success /\ bmatch_edge_vec' = <<>>
        /\ bmatch_wgt' = bmatch_wgt /\ UNCHANGED args /\ num_bmatch_edge' = 0
        /\ LB_TCap_vec' = LB_TCap_vec /\ Sub' = Sub
    BY DEF RemoveEdges, Reset
  <1>4. Untouched' /\ GraphKnown'
    BY <1>1, <1>2, <1>3 DEF Untouched, GraphKnown, args, HasNegativeWeight
  <1>5. CallKnown'
    BY <1>3, <1>4 DEF CallKnown
  <1>6. QED
    BY <1>1, <1>3, <1>5, EdgeCount, EmptyLists, InnerStep DEF ExactTypes

\* What the graph of the inner call is.
LEMMA GraphIs ==
  ASSUME ExactInv, phase = "solver", GraphKnown
  PROVE  /\ DOMAIN ijw = Posed
         /\ ClampedLower = Low /\ ClampedUpper = Upp
         /\ \A e \in Posed : ijw[e] = Total(in_ijw, e) /\ ijw[e] \in Int
  <1>1. DOMAIN ijw = Posed /\ \A e \in Posed : ijw[e] = Total(in_ijw, e)
    BY DuringCall DEF GraphKnown, UsableGraph
  <1>2. \A e \in Posed : ijw[e] \in Int
    BY <1>1, DuringCall, TotalFacts
  <1>3. ClampedLower = Low /\ ClampedUpper = Upp
    BY <1>1, DuringCall DEF ClampedLower, ClampedUpper, Low, Upp
  <1>4. QED
    BY <1>1, <1>2, <1>3

\* Clamped bounds that cross do so because method 2 was called with such.
LEMMA CrossedCall ==
  ASSUME DegUnit = 1, ExactInv, phase = "solver", GraphKnown, BoundsCross
  PROVE  method = 2 /\ Crossed(x_lb, x_ub)
  <1>1. \E x \in Node : Clamp(x_lb, Posed)[x] > Clamp(x_ub, Posed)[x]
    BY GraphIs DEF BoundsCross, Low, Upp
  <1>2. Crossed(x_lb, x_ub)
    BY <1>1, DuringCall, CrossedBefore
  <1>3. method # 1
    <2> SUFFICES ASSUME method = 1 PROVE FALSE
      OBVIOUS
    <2>1. PICK x \in Node : x_lb[x] > x_ub[x]
      BY <1>2 DEF Crossed
    <2>2. x_lb[x] <= x_ub[x]
      BY DuringCall, ComplementInOrder
    <2>3. x_lb[x] \in Int /\ x_ub[x] \in Int
      BY DuringCall
    <2>4. QED
      BY <2>1, <2>2, <2>3
  <1>4. QED
    BY <1>2, <1>3, DuringCall DEF ExactTypes

\* The library gets the clamped bounds and the costs of the posed edges.
LEMMA InitGoblinCall ==
  ASSUME DegUnit = 1, ExactInv, phase = "solver", OuterRests, InitGoblin
  PROVE  ExactInv'
  <1>1. ExactTypes /\ PosedKnown /\ GraphKnown /\ Untouched /\ bmatch_edge_vec = <<>>
    BY DuringCall DEF CallKnown, InitGoblin
  <1>2. /\ stage' = "solving" /\ Sub' = {} /\ num_bmatch_edge' = num_bmatch_edge
        /\ UNCHANGED args /\ UNCHANGED outputs /\ UNCHANGED solver
    BY DEF InitGoblin
  <1>3. LB_TCap_vec' = Low /\ UB_TCap_vec' = Upp
    <2>1. /\ LB_TCap_vec' = [x \in Node |-> Low[x] \div DegUnit]
          /\ UB_TCap_vec' = [x \in Node |-> Upp[x] \div DegUnit]
      BY <1>1, GraphIs DEF InitGoblin
    <2>2. QED
      BY <1>1, <2>1, PosedBounds
  <1>4. DOMAIN cost' = Posed /\ \A e \in Posed : cost'[e] \in Costs(ijw[e])
    <2>1. DOMAIN ijw = Posed
      BY <1>1, GraphIs
    <2>2. QED
      BY <2>1 DEF InitGoblin
  <1>5. Posed' = Posed /\ Low' = Low /\ Upp' = Upp
    BY PosedRests DEF OuterRests
  <1>6. ijw' = ijw /\ total' = total
    BY <1>2 DEF solver, OuterRests
  <1>7. GraphKnown'
    BY <1>1, <1>2, <1>6 DEF GraphKnown, args, HasNegativeWeight
  <1>8. \A e \in Posed' : cost'[e] \in Costs(ijw[e])'
    BY <1>4, <1>5, <1>6 DEF Costs
  <1>9. LibraryKnown'
    BY <1>2, <1>3, <1>4, <1>5, <1>7, <1>8 DEF LibraryKnown
  <1>10. CallKnown'
    BY <1>1, <1>2, <1>9 DEF CallKnown, outputs
  <1>11. QED
    BY <1>1, <1>2, <1>10, InnerStep DEF ExactTypes, outputs

\* What the library chooses from is what meets the clamped bounds.
LEMMA LibraryChoice ==
  ASSUME ExactInv, phase = "solver", LibraryKnown
  PROVE  /\ Perfect(DOMAIN ijw, LB_TCap_vec, UB_TCap_vec) = Feasible
         /\ DOMAIN ijw = Posed /\ Feasible \subseteq SUBSET Posed
  <1>1. DOMAIN ijw = Posed /\ LB_TCap_vec = Low /\ UB_TCap_vec = Upp
    BY GraphIs DEF LibraryKnown
  <1>2. QED
    BY <1>1 DEF Feasible, Perfect

LEMMA FoundCall ==
  ASSUME ExactInv, phase = "solver", OuterRests, MinCMatchingFound
  PROVE  ExactInv'
  <1>1. ExactTypes /\ LibraryKnown /\ bmatch_edge_vec = <<>> /\ Posed \in SUBSET Edge
    BY DuringCall DEF CallKnown, MinCMatchingFound
  <1>2. /\ stage' = "solved" /\ num_bmatch_edge' = Cardinality(Sub')
        /\ UNCHANGED args /\ UNCHANGED outputs /\ UNCHANGED solver
        /\ UNCHANGED <<LB_TCap_vec, UB_TCap_vec, cost>>
    BY DEF MinCMatchingFound
  <1>3. /\ Sub' \in Feasible /\ Sub' \in SUBSET Posed
        /\ \A C \in Feasible : Weight(Sub', cost) <= Weight(C, cost)
    BY <1>1, LibraryChoice DEF MinCMatchingFound
  <1>4. /\ Posed' = Posed /\ Low' = Low /\ Upp' = Upp
        /\ ijw' = ijw /\ total' = total /\ cost' = cost
    BY <1>2, PosedRests DEF OuterRests, solver
  <1>5. Feasible' = Feasible
    BY <1>4 DEF Feasible
  <1>6. GraphKnown'
    BY <1>1, <1>2, <1>4 DEF LibraryKnown, GraphKnown, args, HasNegativeWeight
  <1>7. LibraryKnown'
    BY <1>1, <1>2, <1>3, <1>4, <1>6 DEF LibraryKnown, Costs
  <1>8. Cheapest'
    BY <1>3, <1>4, <1>5 DEF Cheapest
  <1>9. Sub' \in SUBSET Edge /\ Cardinality(Sub') \in Nat /\ Cardinality(Sub') \in -1 .. Cardinality(Edge)
    BY <1>1, <1>3, EdgeCount
  <1>10. CallKnown'
    <2>1. ~ (num_bmatch_edge' < 0)
      BY <1>2, <1>9
    <2>2. QED
      BY <1>1, <1>2, <1>7, <1>8, <2>1 DEF CallKnown, outputs
  <1>11. QED
    BY <1>1, <1>2, <1>9, <1>10, InnerStep DEF ExactTypes, outputs

LEMMA FailedCall ==
  ASSUME ExactInv, phase = "solver", OuterRests, MinCMatchingFailed
  PROVE  ExactInv'
  <1>1. ExactTypes /\ LibraryKnown /\ bmatch_edge_vec = <<>> /\ Posed \in SUBSET Edge
    BY DuringCall DEF CallKnown, MinCMatchingFailed
  <1>2. /\ stage' = "solved" /\ num_bmatch_edge' = -1
        /\ UNCHANGED args /\ UNCHANGED outputs /\ UNCHANGED solver
        /\ UNCHANGED <<LB_TCap_vec, UB_TCap_vec, cost>>
    BY DEF MinCMatchingFailed
  <1>3. Sub' \in SUBSET Posed /\ Feasible = {}
    BY <1>1, LibraryChoice DEF MinCMatchingFailed
  <1>4. /\ Posed' = Posed /\ Low' = Low /\ Upp' = Upp
        /\ ijw' = ijw /\ total' = total /\ cost' = cost
    BY <1>2, PosedRests DEF OuterRests, solver
  <1>5. Feasible' = {}
    BY <1>3, <1>4 DEF Feasible
  <1>6. GraphKnown'
    BY <1>1, <1>2, <1>4 DEF LibraryKnown, GraphKnown, args, HasNegativeWeight
  <1>7. LibraryKnown'
    BY <1>1, <1>2, <1>3, <1>4, <1>6 DEF LibraryKnown, Costs
  <1>8. Sub' \in SUBSET Edge
    BY <1>1, <1>3
  <1>9. CallKnown'
    BY <1>1, <1>2, <1>5, <1>7 DEF CallKnown, outputs
  <1>10. QED
    BY <1>1, <1>2, <1>8, <1>9, EdgeCount, InnerStep DEF ExactTypes, outputs

\* The selected edges are copied and weighed.
LEMMA ReturnCall ==
  ASSUME ExactInv, phase = "solver", OuterRests, ReturnGoblin
  PROVE  ExactInv'
  <1>1. /\ ExactTypes /\ LibraryKnown /\ Posed \in SUBSET Edge
        /\ IF num_bmatch_edge < 0 THEN Feasible = {} ELSE Cheapest
    BY DuringCall DEF CallKnown, ReturnGoblin
  <1>2. /\ stage' = "returned"
        /\ success' = (IF num_bmatch_edge < 0 THEN 0 ELSE 1)
        /\ bmatch_edge_vec' = EdgeVec(Sub) /\ num_bmatch_edge' = Cardinality(Sub)
        /\ bmatch_wgt' = Weight(Sub, ijw)
        /\ UNCHANGED args /\ UNCHANGED solver
        /\ UNCHANGED <<LB_TCap_vec, UB_TCap_vec, cost, Sub>>
    BY DEF ReturnGoblin
  <1>3. Sub \in SUBSET Edge /\ Sub \subseteq Posed
    BY <1>1 DEF LibraryKnown
  <1>4. LibraryKnown' /\ (Cheapest' <=> Cheapest) /\ Feasible' = Feasible
    BY <1>1, <1>2, LibraryRests DEF OuterRests, solver
  <1>5. CallOver'
    BY <1>1, <1>2, <1>4 DEF CallOver
  <1>6. Lists(Sub)' /\ bmatch_edge_vec' \in Seq(Edge)
    BY <1>2, <1>3, EdgeVecLists DEF Lists
  <1>7. bmatch_wgt' \in Int
    <2>1. \A e \in Sub : ijw[e] \in Int
      BY <1>1, <1>3, GraphIs DEF LibraryKnown
    <2>2. QED
      BY <1>2, <1>3, <2>1, EdgesFinite, SumType, WeightIsSum
  <1>8. CallKnown'
    BY <1>2, <1>5 DEF CallKnown
  <1>9. QED
    BY <1>2, <1>3, <1>6, <1>7, <1>8, EdgeCount, InnerStep

\* The answer of the inner call is weighed in its list ...
LEMMA ReweighStep ==
  ASSUME ExactInv, Reweigh
  PROVE  ExactInv'
  <1>1. /\ ExactTypes /\ PosedKnown /\ ScaledKnown /\ CallOver /\ Lists(Sub) /\ stage = "returned"
    BY DuringCall DEF ExactInv, CallKnown, Reweigh
  <1>2. /\ bmatch_wgt' = WeightIn(x_ijw, Sub)
        /\ phase' = IF method = 1 THEN "complement" ELSE "finished"
        /\ UNCHANGED <<args, stage, success, bmatch_edge_vec, solver, asked, xargs, AAmat, total, gptr>>
    BY <1>1 DEF Reweigh, Lists
  <1>3. PosedKnown' /\ ScaledKnown'
    BY <1>1, <1>2, PosedRests, ScaledRests
  <1>4. CallOver'
    BY <1>1, <1>2, OverRests DEF gptr, solver
  <1>5. Lists(Sub)'
    BY <1>1, <1>2 DEF Lists, gptr
  <1>6. bmatch_wgt' \in Int
    BY <1>1, <1>2, WeightInIs DEF PosedKnown, ExactTypes
  <1>7. ExactTypes'
    BY <1>1, <1>2, <1>6 DEF ExactTypes, asked, gptr
  <1>8. method = 2 => x_ijw = asked_ijw
    BY <1>1 DEF PosedKnown
  <1>9. phase' = "finished" => method' # 1 /\ bmatch_wgt' = WeightIn(asked_ijw, Answer)'
    BY <1>1, <1>2, <1>8 DEF asked, ExactTypes, Lists, Answer, WeightIn
  <1>10. QED
    BY <1>2, <1>3, <1>4, <1>5, <1>7, <1>9 DEF ExactInv, asked

\* ... and method 1 answers the edges that are not left out.
LEMMA ComplementStep ==
  ASSUME ExactInv, Complement
  PROVE  ExactInv'
  <1> DEFINE kept == AAmat \ ToSet(bmatch_edge_vec)
  <1>1. /\ ExactTypes /\ PosedKnown /\ ScaledKnown /\ CallOver /\ Lists(Sub) /\ method = 1
        /\ AAmat = Asked
    BY DEF ExactInv, Complement, PosedKnown
  <1>2. /\ bmatch_edge_vec' = EdgeVec(kept) /\ num_bmatch_edge' = Cardinality(kept)
        /\ bmatch_wgt' = WeightIn(asked_ijw, kept) /\ phase' = "finished"
        /\ UNCHANGED <<args, stage, success, solver, asked, xargs, AAmat, total,
                       LB_TCap_vec, UB_TCap_vec, cost, Sub>>
    BY DEF Complement
  <1>3. kept = Asked \ Sub /\ kept \in SUBSET Edge
    BY <1>1 DEF Lists, ExactTypes
  <1> HIDE DEF kept
  <1>4. EdgeVec(kept) \in Seq(Edge) /\ NoDuplicate(EdgeVec(kept)) /\ ToSet(EdgeVec(kept)) = kept
    BY <1>3, EdgeVecLists
  <1>5. PosedKnown' /\ ScaledKnown' /\ Asked' = Asked
    BY <1>1, <1>2, PosedRests, ScaledRests
  <1>6. CallOver'
    BY <1>1, <1>2, OverRests DEF solver
  <1>7. Lists(Asked \ Sub)'
    BY <1>2, <1>3, <1>4, <1>5 DEF Lists
  <1>8. bmatch_wgt' \in Int
    BY <1>1, <1>2, <1>3, WeightInIs DEF ExactTypes
  <1>9. bmatch_wgt' = WeightIn(asked_ijw, Answer)'
    BY <1>2, <1>4 DEF Answer, WeightIn, asked
  <1>10. ExactTypes'
    BY <1>1, <1>2, <1>3, <1>4, <1>8, EdgeCount DEF ExactTypes, asked
  <1>11. QED
    BY <1>1, <1>2, <1>5, <1>6, <1>7, <1>9, <1>10 DEF ExactInv, asked

\* A step that changes nothing.
LEMMA ExactRests ==
  ASSUME ExactInv, UNCHANGED allvars
  PROVE  ExactInv'
  <1>1. /\ UNCHANGED <<asked, xargs, AAmat, total, args, ijw, LB_TCap_vec, UB_TCap_vec, cost, Sub>>
        /\ UNCHANGED <<method, asked_ijw, asked_lb, asked_ub, success, stage, phase,
                       bmatch_edge_vec, bmatch_wgt, num_bmatch_edge>>
    BY DEF allvars, svars, xvars, gptr, solver, outputs, asked
  <1>2. /\ PosedKnown' <=> PosedKnown
        /\ ScaledKnown' <=> ScaledKnown
        /\ LibraryKnown' <=> LibraryKnown
        /\ Cheapest' <=> Cheapest
        /\ Feasible' = Feasible /\ Asked' = Asked
    BY <1>1, PosedRests, ScaledRests, LibraryRests
  <1>3. GraphKnown' <=> GraphKnown
    BY <1>1 DEF GraphKnown, args, HasNegativeWeight
  <1>4. CallOver' <=> CallOver
    BY <1>1, OverRests
  <1>5. CallKnown' <=> CallKnown
    BY <1>1, <1>2, <1>3, <1>4 DEF CallKnown, Untouched
  <1>6. /\ Lists(Sub)' <=> Lists(Sub)
        /\ Lists(IF method = 1 THEN Asked \ Sub ELSE Sub)' <=> Lists(IF method = 1 THEN Asked \ Sub ELSE Sub)
        /\ WeightIn(asked_ijw, Answer)' = WeightIn(asked_ijw, Answer)
    BY <1>1, <1>2 DEF Lists, Answer, WeightIn
  <1>7. ExactTypes' <=> ExactTypes
    BY <1>1 DEF ExactTypes
  <1>8. QED
    BY <1>1, <1>2, <1>4, <1>5, <1>6, <1>7 DEF ExactInv, Untouched

\* Every step of the inner call preserves the invariant,
LEMMA SolverCallStep ==
  ASSUME DegUnit = 1, ExactInv, SolverCall
  PROVE  ExactInv'
  <1>1. phase = "solver" /\ OuterRests
    BY DEF SolverCall, OuterRests
  <1>2. CASE RejectWeights /\ Reset
    BY <1>1, <1>2, RejectedStep DEF RejectWeights
  <1>3. CASE RemoveEdges /\ Reset
    BY <1>1, <1>3, RemoveEdgesCall
  <1>4. CASE RejectBounds /\ Reset
    <2>1. stage = "pruned" /\ BoundsCross /\ Reject /\ Reset
      BY <1>4 DEF RejectBounds
    <2>2. GraphKnown
      BY <1>1, <2>1, DuringCall DEF CallKnown
    <2>3. method = 2 /\ Crossed(x_lb, x_ub)
      BY <1>1, <2>1, <2>2, CrossedCall
    <2>4. QED
      BY <1>1, <2>1, <2>3, RejectedStep
  <1>5. CASE InitGoblin
    BY <1>1, <1>5, InitGoblinCall
  <1>6. CASE MinCMatchingFound
    BY <1>1, <1>6, FoundCall
  <1>7. CASE MinCMatchingFailed
    BY <1>1, <1>7, FailedCall
  <1>8. CASE ReturnGoblin
    BY <1>1, <1>8, ReturnCall
  <1>9. QED
    BY <1>2, <1>3, <1>4, <1>5, <1>6, <1>7, <1>8 DEF SolverCall

\* as does every step of either method,
LEMMA ExactInvStep ==
  ASSUME DegUnit = 1, ExactInv, [XNext]_allvars
  PROVE  ExactInv'
  <1>1. CASE ComplementBounds
    BY <1>1, ComplementBoundsStep
  <1>2. CASE ScaleWeights
    BY <1>2, ScaleWeightsStep
  <1>3. CASE SolverCall
    BY <1>3, SolverCallStep
  <1>4. CASE Reweigh
    BY <1>4, ReweighStep
  <1>5. CASE Complement
    BY <1>5, ComplementStep
  <1>6. CASE UNCHANGED allvars
    BY <1>6, ExactRests
  <1>7. QED
    BY <1>1, <1>2, <1>3, <1>4, <1>5, <1>6 DEF XNext, Exact, Finished

\* and so it holds throughout.
LEMMA ExactInvHolds ==
  ASSUME IntegralBounds
  PROVE  XSpec => []ExactInv
  <1>1. DegUnit = 1
    BY DEF IntegralBounds
  <1>2. XInit => ExactInv
    BY ExactInvInit
  <1>3. ExactInv /\ [XNext]_allvars => ExactInv'
    BY <1>1, ExactInvStep
  <1>4. QED
    BY <1>2, <1>3, PTL DEF XSpec

-----------------------------------------------------------------------------
(****************************************************************************)
(* What the caller gets.                                                     *)
(****************************************************************************)
\* Type correctness of both methods' calls.
THEOREM ExactTypeCorrect ==
  ASSUME IntegralBounds
  PROVE  XSpec => []XTypeOK
  <1> USE DEF IntegralBounds
  <1>1. ExactInv => XTypeOK
    BY DEF ExactInv, ExactTypes, XTypeOK
  <1>2. QED
    BY <1>1, ExactInvHolds, PTL

\* A maximum-weight problem is never rejected for its bounds: the two
\* complements and the two clampings keep the bounds of every node in order.
THEOREM ComplementsNeverCross ==
  ASSUME IntegralBounds
  PROVE  XSpec => []ComplementNeverCrosses
  <1> USE DEF IntegralBounds
  <1>1. ExactInv => ComplementNeverCrosses
    <2> SUFFICES ASSUME ExactInv, phase = "solver", method = 1, stage = "pruned", BoundsCross
                 PROVE  FALSE
      BY DEF ComplementNeverCrosses
    <2>1. GraphKnown
      BY DuringCall DEF CallKnown
    <2>2. method = 2
      BY <2>1, CrossedCall
    <2>3. QED
      BY <2>2
  <1>2. QED
    BY <1>1, ExactInvHolds, PTL

\* The bounds of the library object.
LEMMA LowIsMade == Low # <<>>
  <1>1. DOMAIN Low = Node /\ 0 \in Node
    BY NumNodeAssumption DEF Low, Clamp, Node
  <1>2. QED
    BY <1>1

\* A negative weight that stops the call was the caller's.
LEMMA NegativeWasAsked ==
  ASSUME ExactTypes, PosedKnown, ScaledKnown, HasNegativeWeight(in_ijw)
  PROVE  HasNegativeWeight(asked_ijw)
  BY DEF ExactTypes, PosedKnown, ScaledKnown

\* Both methods keep the contract: the edges are usable ones, weighed as the
\* caller lists them, also beside a failure; method 2 never succeeds with an
\* upper bound broken, and a call without a library object was rejected for a
\* reason the caller can see.
THEOREM ExactContractIsKept ==
  ASSUME IntegralBounds
  PROVE  XSpec => []ExactKeepsContract
  <1> USE DEF IntegralBounds
  <1>1. ExactInv => ExactKeepsContract
    <2> DEFINE r == [success |-> success, edges |-> Answer, wgt |-> bmatch_wgt,
                     gptr |-> IF LB_TCap_vec = <<>> THEN "unset" ELSE "made"]
               E == Usable(asked_ijw, asked_ub)
    <2> SUFFICES ASSUME ExactInv, phase = "finished"
                 PROVE  Contract(method, NumNode, asked_ijw, asked_lb, asked_ub, r)
      BY DEF ExactKeepsContract
    <2>1. /\ ExactTypes /\ PosedKnown /\ ScaledKnown /\ CallOver
          /\ Answer = (IF method = 1 THEN Asked \ Sub ELSE Sub)
          /\ bmatch_wgt = WeightIn(asked_ijw, Answer)
      BY DEF ExactInv, Lists, Answer
    <2>2. Asked = E /\ (method = 2 => Posed = E)
      BY <2>1 DEF Asked, Posed, PosedKnown
    <2>3. r.success = success /\ r.edges = Answer /\ r.wgt = bmatch_wgt
          /\ r.gptr = IF LB_TCap_vec = <<>> THEN "unset" ELSE "made"
      OBVIOUS
    <2> HIDE DEF r, E
    <2>4. CASE /\ success = 0 /\ Untouched
               /\ HasNegativeWeight(in_ijw) \/ (method = 2 /\ Crossed(x_lb, x_ub))
      <3>1. HasNegativeWeight(asked_ijw) \/ (method = 2 /\ Crossed(asked_lb, asked_ub))
        BY <2>1, <2>4, NegativeWasAsked DEF PosedKnown
      <3>2. Sub = {} /\ LB_TCap_vec = <<>>
        BY <2>4 DEF Untouched
      <3>3. Answer = IF method = 1 THEN E ELSE {}
        BY <2>1, <2>2, <3>2
      <3>4. ExactContract(method, asked_ijw, asked_lb, asked_ub, r)
        BY <2>1, <2>3, <2>4, <3>1, <3>2, <3>3 DEF ExactContract, E
      <3>5. QED
        BY <2>1, <3>4 DEF Contract, ExactTypes
    <2>5. CASE LibraryKnown /\ (IF success = 1 THEN Cheapest ELSE Feasible = {})
      <3>1. r.gptr = "made"
        BY <2>3, <2>5, LowIsMade DEF LibraryKnown
      <3>2. Answer \subseteq E
        BY <2>1, <2>2, <2>5 DEF LibraryKnown, ExactTypes
      <3>3. ASSUME method = 2, success = 1
            PROVE  IsBMatching(Answer, E, asked_ub)
        <4>1. Answer = Sub /\ Sub \in Feasible
          BY <2>1, <2>5, <3>3 DEF Cheapest
        <4>2. ASSUME NEW x \in Node
              PROVE  Degree(Sub, x) <= asked_ub[x]
          <5>1. Degree(Sub, x) \in Low[x] .. Upp[x]
            BY <4>1 DEF Feasible, Perfect, WithinBounds
          <5>2. /\ x_ub[x] \in Nat /\ x_ub \in [Node -> Int] /\ x_ub[x] = asked_ub[x]
                /\ Posed \in SUBSET Edge
            BY <2>1, <3>3, PosedFacts DEF PosedKnown
          <5>3. /\ Degree(Posed, x) \in Nat /\ Upp[x] \in Nat
                /\ Upp[x] = IF x_ub[x] < 0 THEN 0
                            ELSE IF x_ub[x] <= Degree(Posed, x) THEN x_ub[x] ELSE Degree(Posed, x)
            BY <5>2, ClampIs DEF Upp
          <5>4. Low[x] \in Nat
            BY <2>1, PosedBounds
          <5>5. Degree(Sub, x) \in Int /\ Degree(Sub, x) <= Upp[x]
            BY <5>1, <5>3, <5>4
          <5>6. QED
            BY <5>2, <5>3, <5>5
        <4>3. QED
          BY <3>2, <4>1, <4>2 DEF IsBMatching
      <3>4. ExactContract(method, asked_ijw, asked_lb, asked_ub, r)
        BY <2>1, <2>3, <3>1, <3>2, <3>3 DEF ExactContract, E
      <3>5. QED
        BY <2>1, <3>4 DEF Contract, ExactTypes
    <2>6. QED
      BY <2>1, <2>4, <2>5 DEF CallOver
  <1>2. QED
    BY <1>1, ExactInvHolds, PTL

-----------------------------------------------------------------------------
(****************************************************************************)
(* How far a cost is from the weight it stands for.                          *)
(****************************************************************************)
LEMMA PowerIsPositive == \A k \in Nat : 2 ^ k \in Nat /\ 2 ^ k > 0
  <1> TAKE k \in Nat
  <1>1. IsFiniteSet(1 .. k) /\ Cardinality(1 .. k) = k
    BY FS_Interval, 1 \in Int
  <1>2. IsFiniteSet(SUBSET (1 .. k)) /\ Cardinality(SUBSET (1 .. k)) = 2 ^ k
    BY <1>1, FS_SUBSET
  <1>3. SUBSET (1 .. k) # {}
    OBVIOUS
  <1>4. Cardinality(SUBSET (1 .. k)) \in Nat /\ Cardinality(SUBSET (1 .. k)) # 0
    BY <1>2, <1>3, FS_CardinalityType, FS_EmptySet
  <1>5. QED
    BY <1>2, <1>4

\* The largest unit in the last place of a float below 2^IntBits.
LastPlace == 2 ^ (IntBits - MantissaBits)

LEMMA NumberFacts ==
  /\ IntMax \in Nat /\ IntMax + 1 = 2 ^ IntBits
  /\ LastPlace \in Nat /\ LastPlace > 0
  /\ CostError = 2 + LastPlace /\ CostError \in Nat
  <1>1. IntBits \in Nat /\ IntBits - MantissaBits \in Nat
    BY NumberAssumption
  <1>2. 2 ^ IntBits \in Nat /\ 2 ^ IntBits > 0 /\ LastPlace \in Nat /\ LastPlace > 0
    BY <1>1, PowerIsPositive DEF LastPlace
  <1>3. IntMax = 2 ^ IntBits - 1 /\ CostError = 2 + LastPlace
    BY DEF IntMax, CostError, LastPlace
  <1>4. QED
    BY <1>2, <1>3

\* The unit in the last place.
LEMMA UlpIs ==
  ASSUME NEW n \in Nat, n < 2 ^ IntBits
  PROVE  Ulp(n) \in Nat /\ Ulp(n) > 0 /\ Ulp(n) <= LastPlace
  <1> DEFINE J == {j \in 0 .. IntBits : n < 2 ^ (j + MantissaBits)}
             S == {2 ^ k : k \in J}
             i == IntBits - MantissaBits
  <1>1. IntBits \in Nat /\ i \in 0 .. IntBits /\ i + MantissaBits = IntBits
    BY NumberAssumption
  <1>2. i \in J
    BY <1>1
  <1>3. IsFiniteSet(J)
    <2>1. IsFiniteSet(0 .. IntBits) /\ J \in SUBSET (0 .. IntBits)
      BY <1>1, FS_Interval, 0 \in Int
    <2> HIDE DEF J
    <2>2. QED
      BY <2>1, FS_Subset
  <1>4. Ulp(n) = Min(S) /\ LastPlace = 2 ^ i
    BY DEF Ulp, LastPlace
  <1>5. \A k \in J : k \in Nat
    BY <1>1
  <1> HIDE DEF J, i
  <1>6. IsFiniteSet(S)
    <2> DEFINE power == [k \in J |-> 2 ^ k]
    <2>1. S = {power[k] : k \in J}
      OBVIOUS
    <2> HIDE DEF power, S
    <2>2. QED
      BY <1>3, <2>1, ImageFinite
  <1>7. \A y \in S : y \in Nat /\ y > 0
    BY <1>5, PowerIsPositive
  <1>8. 2 ^ i \in S
    BY <1>2
  <1> HIDE DEF S
  <1>9. S \in SUBSET Int /\ S # {}
    BY <1>7, <1>8
  <1>10. Min(S) \in S /\ \A y \in S : Min(S) <= y
    BY <1>6, <1>9, MinIsLeast
  <1>11. QED
    BY <1>4, <1>7, <1>8, <1>10

\* A quotient and its rest.
LEMMA QuotientIs ==
  ASSUME NEW n \in Nat, NEW q \in Nat, q > 0
  PROVE  n \div q \in Nat /\ q * (n \div q) <= n /\ n < q * (n \div q) + q
  OBVIOUS

\* A number moves by at most half a unit when it is rounded.
LEMMA RoundingIs ==
  ASSUME NEW n \in Nat, n < 2 ^ IntBits
  PROVE  /\ RoundToFloat(n) \in Int
         /\ -LastPlace <= 2 * RoundToFloat(n) - 2 * n /\ 2 * RoundToFloat(n) - 2 * n <= LastPlace
  <1> DEFINE q == Ulp(n)
             lo == n \div q
             p == q * lo
             f == RoundToFloat(n)
  <1>1. q \in Nat /\ q > 0 /\ q <= LastPlace /\ LastPlace \in Nat
    BY UlpIs, NumberFacts
  <1>2. f = IF 2 * (n - p) < q \/ (2 * (n - p) = q /\ lo % 2 = 0) THEN p ELSE q * (lo + 1)
    BY DEF RoundToFloat
  <1> HIDE DEF q, f
  <1>3. lo \in Nat /\ p <= n /\ n < p + q
    BY <1>1, QuotientIs
  <1>4. p \in Int /\ q * (lo + 1) = p + q
    BY <1>1, <1>3
  <1> HIDE DEF lo, p
  <1>5. \/ f = p /\ 2 * (n - p) <= q
        \/ f = p + q /\ 2 * (n - p) >= q
    BY <1>1, <1>2, <1>3, <1>4
  <1>6. QED
    BY <1>1, <1>3, <1>4, <1>5 DEF f

\* Products keep the order.
LEMMA TimesKeepsOrder ==
  ASSUME NEW t \in Nat, NEW a \in Int, NEW b \in Int, a <= b
  PROVE  t * a <= t * b
  OBVIOUS

\* A cost in the range of an int is the scaled weight up to the floor and the
\* rounding.
LEMMA CostIsClose ==
  ASSUME NEW w \in Nat, total \in Nat, total > 0, w <= total,
         NEW f \in Costs(w), f \in 0 .. IntMax - 1
  PROVE  LET apart == 2 * IntMax * w - 2 * total * f
         IN  -(total * CostError) <= apart /\ apart <= total * CostError
  <1> DEFINE m == IntMax
             t == total
             p == w * m
             n == p \div t
             g == RoundToFloat(n)
             h == LastPlace
  <1>1. /\ m \in Nat /\ m + 1 = 2 ^ IntBits /\ h \in Nat
        /\ CostError = 2 + h /\ t \in Nat /\ t > 0 /\ w <= t
    BY NumberFacts
  <1>2. f \in IF g > m THEN {-(m + 1), m} ELSE {g}
    BY DEF Costs
  <1>3. f \in Int /\ 0 <= f /\ f < m
    BY <1>1
  <1> HIDE DEF m, t, h
  <1>4. p \in Nat /\ p <= t * m
    BY <1>1
  <1> HIDE DEF p
  <1>5. n \in Nat /\ t * n <= p /\ p < t * n + t
    BY <1>1, <1>4, QuotientIs
  <1> HIDE DEF n
  <1>6. n <= m
    <2> SUFFICES ASSUME n >= m + 1 PROVE FALSE
      BY <1>1, <1>5
    <2>1. t * (m + 1) <= t * n
      BY <1>1, <1>5, TimesKeepsOrder
    <2>2. t * (m + 1) = t * m + t /\ t * m \in Int /\ t * n \in Int
      BY <1>1, <1>5
    <2>3. QED
      BY <1>1, <1>4, <1>5, <2>1, <2>2
  <1>7. g \in Int /\ -h <= 2 * g - 2 * n /\ 2 * g - 2 * n <= h
    <2>1. n < 2 ^ IntBits
      BY <1>1, <1>5, <1>6
    <2>2. QED
      BY <1>5, <2>1, RoundingIs DEF h
  <1> HIDE DEF g
  <1>8. f = g
    BY <1>1, <1>2, <1>3, <1>7
  <1> DEFINE z == 2 * f - 2 * n
  <1>9. z \in Int /\ -h <= z /\ z <= h
    BY <1>1, <1>5, <1>7, <1>8
  <1>10. t * z <= t * h /\ t * (-h) <= t * z
    <2> HIDE DEF z
    <2>1. -h \in Int /\ h \in Int
      BY <1>1
    <2>2. QED
      BY <1>1, <1>9, <2>1, TimesKeepsOrder
  <1>11. /\ t * (-h) = -(t * h) /\ t * h \in Int /\ t * n \in Int /\ t * f \in Int
         /\ t * z = 2 * (t * f) - 2 * (t * n)
         /\ t * (2 + h) = 2 * t + t * h
    BY <1>1, <1>3, <1>5
  <1>12. 2 * m * w = 2 * p /\ 2 * t * f = 2 * (t * f)
    BY <1>1, <1>3 DEF p
  <1> HIDE DEF z
  <1>13. /\ -(t * (2 + h)) <= 2 * p - 2 * (t * f)
         /\ 2 * p - 2 * (t * f) <= t * (2 + h)
    <2> DEFINE th == t * h
               tn == t * n
               tf == t * f
               tz == t * z
    <2>1. /\ tz <= th /\ -th <= tz /\ th \in Int /\ tn \in Int /\ tf \in Int
          /\ tz = 2 * tf - 2 * tn /\ t * (2 + h) = 2 * t + th
      BY <1>10, <1>11
    <2>2. tn <= p /\ p < tn + t
      BY <1>5
    <2> HIDE DEF th, tn, tf, tz
    <2>3. QED
      BY <1>1, <1>4, <2>1, <2>2 DEF tf
  <1>14. QED
    BY <1>1, <1>12, <1>13 DEF m, t

\* If values are close to costs, edge by edge, a set that costs no more than
\* another exceeds its value by little.
LEMMA CheapIsClose ==
  ASSUME NEW S \in SUBSET Edge, NEW T \in SUBSET Edge, NEW v, NEW c,
         NEW a \in Int, NEW t \in Nat, NEW d \in Int,
         \A e \in S \cup T : v[e] \in Int /\ c[e] \in Int,
         \A e \in S \cup T : -d <= a * v[e] - t * c[e] /\ a * v[e] - t * c[e] <= d,
         Weight(S, c) <= Weight(T, c)
  PROVE  a * (Weight(S, v) - Weight(T, v)) <= d * Cardinality(DifferIn(S, T))
  <1> DEFINE P == S \ T
             Q == T \ S
             R == S \cap T
             sum(g, K) == SumFunctionOnSet(g, K)
  <1>1. /\ IsFiniteSet(P) /\ IsFiniteSet(Q) /\ IsFiniteSet(R)
        /\ S = P \cup R /\ T = Q \cup R /\ P \cap R = {} /\ Q \cap R = {} /\ P \cap Q = {}
        /\ P \subseteq S /\ Q \subseteq T
    BY EdgesFinite
  <1>2. DifferIn(S, T) = P \cup Q
    BY DEF DifferIn
  <1>3. Cardinality(P) \in Nat /\ Cardinality(Q) \in Nat
        /\ Cardinality(DifferIn(S, T)) = Cardinality(P) + Cardinality(Q)
    <2>1. Cardinality(P \cup Q) = Cardinality(P) + Cardinality(Q) - Cardinality(P \cap Q)
      BY <1>1, FS_Union
    <2>2. Cardinality(P \cap Q) = 0
      BY <1>1, FS_EmptySet
    <2>3. Cardinality(P) \in Nat /\ Cardinality(Q) \in Nat
      BY <1>1, FS_CardinalityType
    <2> HIDE DEF P, Q
    <2>4. QED
      BY <1>2, <2>1, <2>2, <2>3
  <1>4. ASSUME NEW g, \A e \in S \cup T : g[e] \in Int
        PROVE  /\ sum(g, P) \in Int /\ sum(g, Q) \in Int /\ sum(g, R) \in Int
               /\ Weight(S, g) = sum(g, P) + sum(g, R)
               /\ Weight(T, g) = sum(g, Q) + sum(g, R)
    <2>1. /\ \A e \in P \cup R : g[e] \in Int
          /\ \A e \in Q \cup R : g[e] \in Int
      BY <1>1, <1>4
    <2>2. Weight(S, g) = sum(g, P \cup R) /\ Weight(T, g) = sum(g, Q \cup R)
      BY <1>1, WeightIsSum
    <2> HIDE DEF P, Q, R
    <2>3. sum(g, P) \in Int /\ sum(g, Q) \in Int /\ sum(g, R) \in Int
      BY <1>1, <2>1, SumType
    <2>4. sum(g, P \cup R) = sum(g, P) + sum(g, R)
      BY <1>1, <2>1, SumUnion
    <2>5. sum(g, Q \cup R) = sum(g, Q) + sum(g, R)
      BY <1>1, <2>1, SumUnion
    <2>6. QED
      BY <2>2, <2>3, <2>4, <2>5
  <1>5. ASSUME NEW K, IsFiniteSet(K), K \subseteq S \cup T
        PROVE  /\ -(d * Cardinality(K)) <= a * sum(v, K) - t * sum(c, K)
               /\ a * sum(v, K) - t * sum(c, K) <= d * Cardinality(K)
    <2>1. \A e \in K : v[e] \in Int /\ c[e] \in Int
      BY <1>5
    <2>2. \A e \in K : -d <= a * v[e] - t * c[e] /\ a * v[e] - t * c[e] <= d
      BY <1>5
    <2>3. t \in Int
      OBVIOUS
    <2>4. QED
      BY <1>5, <2>1, <2>2, <2>3, SumsApart
  <1> DEFINE vP == sum(v, P)
             vQ == sum(v, Q)
             vR == sum(v, R)
             cP == sum(c, P)
             cQ == sum(c, Q)
             cR == sum(c, R)
             nP == Cardinality(P)
             nQ == Cardinality(Q)
  <1>6. /\ vP \in Int /\ vQ \in Int /\ vR \in Int /\ cP \in Int /\ cQ \in Int /\ cR \in Int
        /\ Weight(S, v) = vP + vR /\ Weight(T, v) = vQ + vR
        /\ Weight(S, c) = cP + cR /\ Weight(T, c) = cQ + cR
    BY <1>4
  <1>7. a * vP - t * cP <= d * nP /\ -(d * nQ) <= a * vQ - t * cQ
    BY <1>1, <1>5
  <1> HIDE DEF vP, vQ, vR, cP, cQ, cR, nP, nQ, sum, P, Q, R
  <1>8. cP <= cQ /\ Weight(S, v) - Weight(T, v) = vP - vQ
    BY <1>6
  <1>9. t * cP <= t * cQ
    BY <1>6, <1>8, TimesKeepsOrder
  <1>10. /\ nP \in Nat /\ nQ \in Nat /\ Cardinality(DifferIn(S, T)) = nP + nQ
    BY <1>3 DEF nP, nQ
  <1>11. /\ a * (vP - vQ) = a * vP - a * vQ /\ a * vP \in Int /\ a * vQ \in Int
         /\ d * (nP + nQ) = d * nP + d * nQ /\ d * nP \in Int /\ d * nQ \in Int
         /\ t * cP \in Int /\ t * cQ \in Int
    BY <1>6, <1>10
  <1>12. a * vP - a * vQ <= d * nP + d * nQ
    BY <1>7, <1>9, <1>11
  <1>13. QED
    BY <1>8, <1>10, <1>11, <1>12

-----------------------------------------------------------------------------
(****************************************************************************)
(* What the library may choose from are the solutions, or what they leave.   *)
(****************************************************************************)
\* The caller's problem, in the terms of the invariant.
LEMMA CallersProblem ==
  ASSUME ExactTypes
  PROVE  /\ XAskedEdges \in SUBSET Edge /\ Asked \in SUBSET XAskedEdges
         /\ \A e \in XAskedEdges : XAskedWgt[e] = Total(asked_ijw, e) /\ Total(asked_ijw, e) # 0
         /\ NoWeightNegative => ~ HasNegativeWeight(asked_ijw)
  <1>1. \A e \in Edge : XAskedWeight(e) = Total(asked_ijw, e)
    <2> TAKE e \in Edge
    <2>1. e = <<e[1], e[2]>>
      BY DEF Edge
    <2>2. {k \in DOMAIN asked_ijw : <<asked_ijw[k][1], asked_ijw[k][2]>> = e}
            = {k \in DOMAIN asked_ijw : asked_ijw[k][1] = e[1] /\ asked_ijw[k][2] = e[2]}
      BY <2>1
    <2>3. QED
      BY <2>2 DEF XAskedWeight, Total, Listed
  <1>2. ~ HasNegativeWeight(asked_ijw) \/ ~ NoWeightNegative
    <2> SUFFICES ASSUME NoWeightNegative, NEW k \in DOMAIN asked_ijw, asked_ijw[k][3] < 0
                 PROVE  FALSE
      BY DEF HasNegativeWeight
    <2>1. asked_ijw[k] \in Entry /\ asked_ijw[k][3] >= 0
      BY LenProperties, ElementOfSeq DEF ExactTypes, NoWeightNegative
    <2>2. asked_ijw[k][3] \in Int
      BY <2>1 DEF Entry
    <2>3. QED
      BY <2>1, <2>2
  <1>3. QED
    BY <1>1, <1>2 DEF XAskedEdges, XAskedWgt, Asked, Usable

\* A solution uses no edge that the bounds exclude.
LEMMA SolutionIs ==
  ASSUME DegUnit = 1, ExactTypes, NEW C \in Solutions
  PROVE  /\ C \in SUBSET Asked
         /\ \A x \in Node : /\ Degree(C, x) \in Nat /\ asked_lb[x] \in Int /\ asked_ub[x] \in Nat
                            /\ Degree(Asked, x) \in Nat /\ Degree(C, x) <= Degree(Asked, x)
                            /\ asked_lb[x] <= Degree(C, x) /\ Degree(C, x) <= asked_ub[x]
  <1>1. C \in SUBSET XAskedEdges /\ MeetsBounds(C)
    BY DEF Solutions
  <1>2. C \in SUBSET Edge /\ Asked \in SUBSET Edge /\ \A e \in C : Total(asked_ijw, e) # 0
    BY <1>1, CallersProblem
  <1>3. ASSUME NEW x \in Node
        PROVE  /\ Degree(C, x) \in Nat /\ asked_lb[x] \in Int /\ asked_ub[x] \in Nat
               /\ Degree(Asked, x) \in Nat
               /\ asked_lb[x] <= Degree(C, x) /\ Degree(C, x) <= asked_ub[x]
    <2>1. Degree(C, x) \in Nat /\ Degree(Asked, x) \in Nat
      BY <1>2, DegreeFacts
    <2>2. asked_lb[x] <= DegUnit * Degree(C, x) /\ DegUnit * Degree(C, x) <= asked_ub[x]
      BY <1>1 DEF MeetsBounds
    <2>3. DegUnit * Degree(C, x) = Degree(C, x)
      BY <2>1
    <2>4. QED
      BY <2>1, <2>2, <2>3 DEF ExactTypes
  <1>4. IsBMatching(C, Asked, Clamp(asked_ub, Asked))
    BY <1>2, <1>3, NothingIsLost DEF ExactTypes, Asked
  <1>5. C \in SUBSET Asked
    BY <1>4 DEF IsBMatching
  <1>6. \A x \in Node : Degree(C, x) <= Degree(Asked, x)
    BY <1>2, <1>5, DegreeFacts
  <1>7. QED
    BY <1>3, <1>5, <1>6

\* Usable edges that meet the bounds are a solution.
LEMMA SolutionIf ==
  ASSUME DegUnit = 1, ExactTypes, NEW C \in SUBSET Asked,
         \A x \in Node : asked_lb[x] <= Degree(C, x) /\ Degree(C, x) <= asked_ub[x]
  PROVE  C \in Solutions
  <1>1. C \in SUBSET XAskedEdges /\ C \in SUBSET Edge
    BY CallersProblem
  <1>2. \A x \in Node : DegUnit * Degree(C, x) = Degree(C, x)
    <2> TAKE x \in Node
    <2>1. Degree(C, x) \in Nat
      BY <1>1, DegreeFacts
    <2>2. QED
      BY <2>1
  <1>3. QED
    BY <1>1, <1>2 DEF Solutions, MeetsBounds

\* What is left of the usable edges.
LEMMA LeftOver ==
  ASSUME ExactTypes, NEW D \in SUBSET Asked, NEW x \in Node
  PROVE  /\ Degree(D, x) \in Nat /\ Degree(Asked \ D, x) \in Nat /\ Degree(Asked, x) \in Nat
         /\ Degree(Asked, x) = Degree(D, x) + Degree(Asked \ D, x)
  <1> DEFINE R == Asked \ D
  <1>1. D \in SUBSET Edge /\ R \in SUBSET Edge /\ Asked \in SUBSET Edge
        /\ D \cap R = {} /\ Asked = D \cup R
    BY CallersProblem
  <1>2. Degree(D, x) \in Nat /\ Degree(R, x) \in Nat /\ Degree(Asked, x) \in Nat
    BY <1>1, DegreeFacts
  <1> HIDE DEF R
  <1>3. Degree(D \cup R, x) = Degree(D, x) + Degree(R, x)
    BY <1>1, DegreeUnion
  <1>4. QED
    BY <1>1, <1>2, <1>3 DEF R

\* A set that meets the bounds of the inner call is feasible: clamping to the
\* degree is no loss.
LEMMA FeasibleIf ==
  ASSUME DegUnit = 1, PosedKnown, NEW D \in SUBSET Posed,
         \A x \in Node : x_lb[x] <= Degree(D, x) /\ Degree(D, x) <= x_ub[x]
  PROVE  D \in Feasible
  <1>1. Posed \in SUBSET Edge /\ D \in SUBSET Edge
        /\ x_lb \in [Node -> Int] /\ x_ub \in [Node -> Int] /\ x_ub \in [Node -> Nat]
    BY PosedFacts DEF PosedKnown
  <1>2. ASSUME NEW x \in Node
        PROVE  Degree(D, x) \in Low[x] .. Upp[x]
    <2>1. /\ Degree(Posed, x) \in Nat /\ x_lb[x] \in Int /\ x_ub[x] \in Nat
          /\ Low[x] \in Nat /\ Upp[x] \in Nat
          /\ Low[x] = IF x_lb[x] < 0 THEN 0
                      ELSE IF x_lb[x] <= Degree(Posed, x) THEN x_lb[x] ELSE Degree(Posed, x)
          /\ Upp[x] = IF x_ub[x] < 0 THEN 0
                      ELSE IF x_ub[x] <= Degree(Posed, x) THEN x_ub[x] ELSE Degree(Posed, x)
      BY <1>1, ClampIs DEF Low, Upp
    <2>2. Degree(D, x) \in Nat /\ Degree(D, x) <= Degree(Posed, x)
      BY <1>1, DegreeFacts
    <2>3. x_lb[x] <= Degree(D, x) /\ Degree(D, x) <= x_ub[x]
      OBVIOUS
    <2>4. QED
      BY <2>1, <2>2, <2>3
  <1>3. QED
    BY <1>2 DEF Feasible, Perfect, WithinBounds

\* If the lower bounds can be met at all, what is feasible meets the bounds.
LEMMA FeasibleIs ==
  ASSUME DegUnit = 1, PosedKnown, NEW D \in Feasible,
         \A x \in Node : x_lb[x] <= Degree(Posed, x)
  PROVE  D \in SUBSET Posed /\ \A x \in Node : x_lb[x] <= Degree(D, x) /\ Degree(D, x) <= x_ub[x]
  <1>1. Posed \in SUBSET Edge
        /\ x_lb \in [Node -> Int] /\ x_ub \in [Node -> Int] /\ x_ub \in [Node -> Nat]
    BY PosedFacts DEF PosedKnown
  <1>2. D \in SUBSET Posed /\ \A x \in Node : Degree(D, x) \in Low[x] .. Upp[x]
    BY DEF Feasible, Perfect, WithinBounds
  <1>3. ASSUME NEW x \in Node
        PROVE  x_lb[x] <= Degree(D, x) /\ Degree(D, x) <= x_ub[x]
    <2>1. /\ Degree(Posed, x) \in Nat /\ x_lb[x] \in Int /\ x_ub[x] \in Nat
          /\ Low[x] \in Nat /\ Upp[x] \in Nat
          /\ Low[x] = IF x_lb[x] < 0 THEN 0
                      ELSE IF x_lb[x] <= Degree(Posed, x) THEN x_lb[x] ELSE Degree(Posed, x)
          /\ Upp[x] = IF x_ub[x] < 0 THEN 0
                      ELSE IF x_ub[x] <= Degree(Posed, x) THEN x_ub[x] ELSE Degree(Posed, x)
      BY <1>1, ClampIs DEF Low, Upp
    <2>2. x_lb[x] <= Degree(Posed, x)
      OBVIOUS
    <2>3. Degree(D, x) \in Low[x] .. Upp[x]
      BY <1>2
    <2>4. QED
      BY <2>1, <2>2, <2>3
  <1>4. QED
    BY <1>2, <1>3

\* The edges of a set, or the usable edges it leaves.
Kept(D) == IF method = 1 THEN Asked \ D ELSE D

\* What a solution keeps, or leaves, is feasible ...
LEMMA SolutionIsFeasible ==
  ASSUME DegUnit = 1, ExactTypes, PosedKnown, NEW C \in Solutions
  PROVE  Kept(C) \in Feasible /\ Kept(C) \in SUBSET Posed
         /\ \A x \in Node : x_lb[x] <= Degree(Posed, x)
  <1> DEFINE D == Kept(C)
  <1>1. /\ C \in SUBSET Asked
        /\ \A x \in Node : /\ Degree(C, x) \in Nat /\ asked_lb[x] \in Int /\ asked_ub[x] \in Nat
                           /\ Degree(Asked, x) \in Nat /\ Degree(C, x) <= Degree(Asked, x)
                           /\ asked_lb[x] <= Degree(C, x) /\ Degree(C, x) <= asked_ub[x]
    BY SolutionIs
  <1>2. /\ Posed \in SUBSET Edge /\ Asked \in SUBSET Edge
    BY PosedFacts, CallersProblem
  <1>3. /\ D \in SUBSET Posed
        /\ \A x \in Node : x_lb[x] <= Degree(D, x) /\ Degree(D, x) <= x_ub[x]
    <2>1. CASE method = 2
      <3>1. D = C /\ Posed = Asked /\ x_lb = asked_lb /\ x_ub = asked_ub
        BY <2>1 DEF Kept, PosedKnown, Posed, Asked
      <3>2. QED
        BY <1>1, <3>1
    <2>2. CASE method = 1
      <3>1. D = Asked \ C /\ D \in SUBSET Asked
        BY <2>2 DEF Kept
      <3> HIDE DEF D
      <3>2. ASSUME NEW x \in Node
            PROVE  /\ x_lb[x] <= Degree(D, x) /\ Degree(D, x) <= x_ub[x]
                   /\ Degree(D, x) \in Nat /\ x_ub[x] \in Nat
        <4>1. /\ Degree(D, x) \in Nat /\ Degree(C, x) \in Nat
              /\ Degree(Asked, x) = Degree(C, x) + Degree(D, x)
          BY <1>1, <3>1, LeftOver
        <4>2. /\ Degree(Asked, x) \in Nat
              /\ KeptUpper(Asked)[x] \in Nat
              /\ KeptUpper(Asked)[x] = IF asked_ub[x] <= Degree(Asked, x) THEN asked_ub[x] ELSE Degree(Asked, x)
              /\ KeptLower(Asked)[x] \in Nat
              /\ KeptLower(Asked)[x] = IF asked_lb[x] < 0 THEN 0
                                       ELSE IF asked_lb[x] <= KeptUpper(Asked)[x] THEN asked_lb[x]
                                       ELSE KeptUpper(Asked)[x]
          BY <1>2, KeptBounds DEF ExactTypes
        <4>3. /\ x_lb[x] = Degree(Asked, x) - KeptUpper(Asked)[x]
              /\ x_ub[x] = Degree(Asked, x) - KeptLower(Asked)[x]
              /\ x_ub[x] \in Nat
          BY <2>2 DEF PosedKnown
        <4>4. /\ asked_lb[x] <= Degree(C, x) /\ Degree(C, x) <= asked_ub[x]
              /\ asked_lb[x] \in Int /\ asked_ub[x] \in Nat
          BY <1>1
        <4>5. Degree(C, x) <= KeptUpper(Asked)[x] /\ KeptLower(Asked)[x] <= Degree(C, x)
          BY <4>1, <4>2, <4>4
        <4>6. QED
          BY <4>1, <4>2, <4>3, <4>5
      <3>3. ASSUME NEW e \in D
            PROVE  e \in Posed
        <4>1. e \in Asked /\ e \in Edge /\ e[1] \in Node /\ e[2] \in Node /\ D \in SUBSET Edge
          BY <1>2, <3>1 DEF Edge
        <4>2. IncidentTo(e, e[1]) /\ IncidentTo(e, e[2])
          BY DEF IncidentTo
        <4>3. Degree(D, e[1]) # 0 /\ Degree(D, e[2]) # 0
          BY <4>1, <4>2, DegreeFacts
        <4>4. x_ub[e[1]] > 0 /\ x_ub[e[2]] > 0
          BY <3>2, <4>1, <4>3
        <4>5. Total(x_ijw, e) # 0
          BY <2>2, <4>1, CallersProblem DEF PosedKnown
        <4>6. QED
          BY <4>1, <4>4, <4>5 DEF Posed, Usable
      <3>4. QED
        BY <3>2, <3>3
    <2>3. QED
      BY <2>1, <2>2 DEF ExactTypes
  <1> HIDE DEF D
  <1>4. D \in Feasible
    BY <1>3, FeasibleIf
  <1>5. ASSUME NEW x \in Node
        PROVE  x_lb[x] <= Degree(Posed, x)
    <2>1. Degree(D, x) \in Nat /\ Degree(D, x) <= Degree(Posed, x) /\ Degree(Posed, x) \in Nat
      BY <1>2, <1>3, DegreeFacts
    <2>2. x_lb[x] \in Int
      BY DEF PosedKnown
    <2>3. QED
      BY <1>3, <2>1, <2>2
  <1>6. QED
    BY <1>3, <1>4, <1>5 DEF D

\* ... and, if there is a solution, what is feasible is a solution or leaves one.
LEMMA FeasibleIsSolution ==
  ASSUME DegUnit = 1, ExactTypes, PosedKnown, Solutions # {}, NEW D \in Feasible
  PROVE  Kept(D) \in Solutions /\ D \in SUBSET Posed /\ Posed \subseteq Asked
  <1>1. PICK C \in Solutions : TRUE
    OBVIOUS
  <1>2. \A x \in Node : x_lb[x] <= Degree(Posed, x)
    BY SolutionIsFeasible
  <1>3. D \in SUBSET Posed /\ \A x \in Node : x_lb[x] <= Degree(D, x) /\ Degree(D, x) <= x_ub[x]
    BY <1>2, FeasibleIs
  <1>4. Posed \subseteq Asked /\ Asked \in SUBSET Edge
    <2>1. CASE method = 2
      BY <2>1, CallersProblem DEF PosedKnown, Posed, Asked
    <2>2. CASE method = 1
      BY <2>2, CallersProblem DEF PosedKnown, Posed, Usable
    <2>3. QED
      BY <2>1, <2>2 DEF ExactTypes
  <1>5. CASE method = 2
    <2>1. Kept(D) = D /\ x_lb = asked_lb /\ x_ub = asked_ub
      BY <1>5 DEF Kept, PosedKnown
    <2>2. QED
      BY <1>3, <1>4, <2>1, SolutionIf
  <1>6. CASE method = 1
    <2> DEFINE B == Asked \ D
    <2>1. Kept(D) = B /\ B \in SUBSET Asked /\ D \in SUBSET Asked
      BY <1>3, <1>4, <1>6 DEF Kept
    <2>2. ASSUME NEW x \in Node
          PROVE  asked_lb[x] <= Degree(B, x) /\ Degree(B, x) <= asked_ub[x]
      <3>1. /\ Degree(D, x) \in Nat /\ Degree(B, x) \in Nat /\ Degree(Asked, x) \in Nat
            /\ Degree(Asked, x) = Degree(D, x) + Degree(B, x)
        BY <2>1, LeftOver
      <3>2. /\ KeptUpper(Asked)[x] \in Nat
            /\ KeptUpper(Asked)[x] = IF asked_ub[x] <= Degree(Asked, x) THEN asked_ub[x] ELSE Degree(Asked, x)
            /\ KeptLower(Asked)[x] \in Nat
            /\ KeptLower(Asked)[x] = IF asked_lb[x] < 0 THEN 0
                                     ELSE IF asked_lb[x] <= KeptUpper(Asked)[x] THEN asked_lb[x]
                                     ELSE KeptUpper(Asked)[x]
        BY <1>4, KeptBounds DEF ExactTypes
      <3>3. /\ x_lb[x] = Degree(Asked, x) - KeptUpper(Asked)[x]
            /\ x_ub[x] = Degree(Asked, x) - KeptLower(Asked)[x]
        BY <1>6 DEF PosedKnown
      <3>4. x_lb[x] <= Degree(D, x) /\ Degree(D, x) <= x_ub[x]
        BY <1>3
      <3>5. /\ Degree(C, x) \in Nat /\ asked_lb[x] \in Int /\ asked_ub[x] \in Nat
            /\ Degree(C, x) <= Degree(Asked, x)
            /\ asked_lb[x] <= Degree(C, x) /\ Degree(C, x) <= asked_ub[x]
        BY SolutionIs
      <3> HIDE DEF B
      <3>6. asked_lb[x] <= KeptUpper(Asked)[x]
        BY <3>1, <3>2, <3>5
      <3>7. asked_lb[x] <= KeptLower(Asked)[x] /\ KeptUpper(Asked)[x] <= asked_ub[x]
        BY <3>1, <3>2, <3>5, <3>6
      <3>8. KeptLower(Asked)[x] <= Degree(B, x) /\ Degree(B, x) <= KeptUpper(Asked)[x]
        BY <3>1, <3>2, <3>3, <3>4
      <3>9. QED
        BY <3>1, <3>2, <3>5, <3>7, <3>8
    <2>3. B \in Solutions
      BY <2>1, <2>2, SolutionIf
    <2>4. QED
      BY <1>3, <1>4, <2>1, <2>3
  <1>7. QED
    BY <1>3, <1>4, <1>5, <1>6 DEF ExactTypes

-----------------------------------------------------------------------------
(****************************************************************************)
(* Optimality up to the rounding of the costs.                               *)
(****************************************************************************)
\* A call without negative weights that has a solution ends with a cheapest
\* choice of the library.
LEMMA SolvableSucceeds ==
  ASSUME DegUnit = 1, ExactTypes, PosedKnown, ScaledKnown, CallOver, NoWeightNegative, Solutions # {}
  PROVE  success = 1 /\ LibraryKnown /\ Cheapest
  <1>1. PICK C \in Solutions : TRUE
    OBVIOUS
  <1>2. ~ HasNegativeWeight(in_ijw)
    BY CallersProblem, NegativeWasAsked
  <1>3. ~ (method = 2 /\ Crossed(x_lb, x_ub))
    <2> SUFFICES ASSUME method = 2, NEW x \in Node, x_lb[x] > x_ub[x] PROVE FALSE
      BY DEF Crossed
    <2>1. asked_lb[x] > asked_ub[x]
      BY DEF PosedKnown
    <2>2. /\ Degree(C, x) \in Nat /\ asked_lb[x] \in Int /\ asked_ub[x] \in Nat
          /\ asked_lb[x] <= Degree(C, x) /\ Degree(C, x) <= asked_ub[x]
      BY SolutionIs
    <2>3. QED
      BY <2>1, <2>2
  <1>4. Feasible # {}
    BY SolutionIsFeasible
  <1>5. QED
    BY <1>2, <1>3, <1>4 DEF CallOver, ExactTypes

\* The cost of an edge is close to its weight.
LEMMA EdgeCostIsClose ==
  ASSUME DegUnit = 1, ExactTypes, PosedKnown, ScaledKnown, LibraryKnown, NoWeightNegative, CostsFit,
         NEW e \in Posed
  PROVE  LET w == Total(asked_ijw, e)
             apart == 2 * IntMax * w - 2 * total * cost[e]
         IN  /\ w \in Int /\ cost[e] \in Int
             /\ -(total * CostError) <= apart /\ apart <= total * CostError
  <1> DEFINE w == Total(asked_ijw, e)
  <1>1. ~ HasNegativeWeight(asked_ijw) /\ ~ HasNegativeWeight(x_ijw)
    BY CallersProblem DEF PosedKnown, ExactTypes
  <1>2. e \in Edge
    BY PosedFacts
  <1>3. Total(x_ijw, e) = w /\ Total(x_ijw, e) # 0 /\ w \in Nat
    <2>1. Total(x_ijw, e) # 0
      BY DEF Posed, Usable
    <2>2. Total(x_ijw, e) = w
      BY <1>2, <2>1 DEF PosedKnown, ExactTypes
    <2>3. w \in Nat
      BY <1>1, TotalFacts DEF ExactTypes
    <2>4. QED
      BY <2>1, <2>2, <2>3
  <1>4. Total(in_ijw, e) = w /\ w <= total /\ total \in Nat
    BY <1>1, <1>3 DEF ScaledKnown
  <1>5. ijw[e] = Total(in_ijw, e)
    BY <1>2, ScaledUsable DEF LibraryKnown, GraphKnown, UsableGraph
  <1> HIDE DEF w
  <1>6. cost[e] \in Costs(w) /\ cost[e] \in 0 .. IntMax - 1
    BY <1>4, <1>5 DEF LibraryKnown, CostsFit
  <1>7. total > 0
    BY <1>3, <1>4
  <1>8. LET apart == 2 * IntMax * w - 2 * total * cost[e]
        IN  -(total * CostError) <= apart /\ apart <= total * CostError
    BY <1>3, <1>4, <1>6, <1>7, CostIsClose
  <1>9. w \in Int /\ cost[e] \in Int
    BY <1>3, <1>6, NumberFacts
  <1>10. QED
    BY <1>8, <1>9 DEF w

\* What the answer loses to a solution is what the library's choice costs
\* more than the choice that leads to it, in weights.
LEMMA LossIs ==
  ASSUME DegUnit = 1, ExactTypes, PosedKnown, NEW C \in Solutions, NEW S \in SUBSET Asked
  PROVE  /\ Loss(Kept(S), C) = Weight(S, XAskedWgt) - Weight(Kept(C), XAskedWgt)
         /\ DifferIn(Kept(S), C) = DifferIn(S, Kept(C))
  <1> DEFINE v == XAskedWgt
             wgt(K) == Weight(K, v)
  <1>1. C \in SUBSET Asked /\ Asked \in SUBSET Edge
    BY SolutionIs, CallersProblem
  <1>2. \A e \in Asked : v[e] \in Int
    BY CallersProblem, TotalFacts DEF ExactTypes
  <1> HIDE DEF v
  <1>3. ASSUME NEW K \in SUBSET Asked
        PROVE  /\ wgt(K) \in Int /\ wgt(Asked \ K) \in Int /\ wgt(Asked) \in Int
               /\ wgt(Asked) = wgt(K) + wgt(Asked \ K)
    <2> DEFINE R == Asked \ K
    <2>1. /\ IsFiniteSet(K) /\ IsFiniteSet(R) /\ K \cap R = {} /\ Asked = K \cup R
          /\ K \in SUBSET Edge /\ R \in SUBSET Edge
      BY <1>1, EdgesFinite
    <2>2. \A e \in K \cup R : v[e] \in Int
      BY <1>2, <2>1
    <2> HIDE DEF R
    <2>3. SumFunctionOnSet(v, K \cup R) = SumFunctionOnSet(v, K) + SumFunctionOnSet(v, R)
      BY <2>1, <2>2, SumUnion
    <2>4. SumFunctionOnSet(v, K) \in Int /\ SumFunctionOnSet(v, R) \in Int
      BY <2>1, <2>2, SumType
    <2>5. wgt(K) = SumFunctionOnSet(v, K) /\ wgt(R) = SumFunctionOnSet(v, R)
          /\ wgt(Asked) = SumFunctionOnSet(v, K \cup R)
      BY <2>1, WeightIsSum
    <2> HIDE DEF wgt
    <2>6. QED
      BY <2>3, <2>4, <2>5 DEF R
  <1>4. CASE method = 1
    <2>1. Kept(S) = Asked \ S /\ Kept(C) = Asked \ C
      BY <1>4 DEF Kept
    <2>2. DifferIn(Asked \ S, C) = DifferIn(S, Asked \ C)
      BY <1>1 DEF DifferIn
    <2>3. Loss(Asked \ S, C) = wgt(C) - wgt(Asked \ S)
      BY <1>4 DEF Loss, v
    <2>4. /\ wgt(Asked) = wgt(S) + wgt(Asked \ S) /\ wgt(Asked) = wgt(C) + wgt(Asked \ C)
          /\ wgt(S) \in Int /\ wgt(C) \in Int /\ wgt(Asked \ S) \in Int /\ wgt(Asked \ C) \in Int
      BY <1>1, <1>3
    <2> HIDE DEF wgt
    <2>5. wgt(C) - wgt(Asked \ S) = wgt(S) - wgt(Asked \ C)
      BY <2>4
    <2>6. QED
      BY <2>1, <2>2, <2>3, <2>5 DEF wgt, v
  <1>5. CASE method = 2
    BY <1>5 DEF Kept, Loss
  <1>6. QED
    BY <1>4, <1>5 DEF ExactTypes

\* "exact maxwgt solution", "exact mincost solution": where a call has a
\* solution and the costs stay within an int, it succeeds, its answer meets
\* the bounds, and it loses to no solution more than the floor and the rounding
\* to float account for.
THEOREM OptimumUpToRounding ==
  ASSUME IntegralBounds
  PROVE  XSpec => []OptimalUpToRounding
  <1> USE DEF IntegralBounds
  <1>1. ExactInv => OptimalUpToRounding
    <2> SUFFICES ASSUME ExactInv, phase = "finished", NoWeightNegative, Solutions # {}, CostsFit
                 PROVE  /\ success = 1
                        /\ NoDuplicate(bmatch_edge_vec)
                        /\ Answer \in Solutions
                        /\ bmatch_wgt = Weight(Answer, XAskedWgt)
                        /\ \A C \in Solutions :
                              2 * IntMax * Loss(Answer, C)
                                <= total * CostError * Cardinality(DifferIn(Answer, C))
      BY DEF OptimalUpToRounding
    <2>1. /\ ExactTypes /\ PosedKnown /\ ScaledKnown /\ CallOver
          /\ NoDuplicate(bmatch_edge_vec)
          /\ Answer = Kept(Sub)
          /\ bmatch_wgt = WeightIn(asked_ijw, Answer)
      BY DEF ExactInv, Lists, Answer, Kept
    <2>2. success = 1 /\ LibraryKnown /\ Cheapest
      BY <2>1, SolvableSucceeds
    <2>3. /\ Sub \in Feasible /\ \A D \in Feasible : Weight(Sub, cost) <= Weight(D, cost)
      BY <2>2 DEF Cheapest
    <2>4. Answer \in Solutions /\ Sub \in SUBSET Posed /\ Posed \subseteq Asked
      BY <2>1, <2>3, FeasibleIsSolution
    <2>5. bmatch_wgt = Weight(Answer, XAskedWgt)
      <3>1. Answer \in SUBSET XAskedEdges /\ Answer \in SUBSET Edge
        BY <2>1, <2>4, CallersProblem DEF Solutions
      <3>2. \A e \in Answer : XAskedWgt[e] = Total(asked_ijw, e)
        BY <2>1, <3>1, CallersProblem
      <3>3. QED
        BY <2>1, <3>1, <3>2, WeightInIs DEF ExactTypes
    <2>6. ASSUME NEW C \in Solutions
          PROVE  2 * IntMax * Loss(Answer, C) <= total * CostError * Cardinality(DifferIn(Answer, C))
      <3> DEFINE D == Kept(C)
                 v == XAskedWgt
                 a == 2 * IntMax
                 t == 2 * total
                 d == total * CostError
      <3>1. D \in Feasible /\ D \in SUBSET Posed
        BY <2>1, SolutionIsFeasible
      <3>2. Loss(Answer, C) = Weight(Sub, v) - Weight(D, v) /\ DifferIn(Answer, C) = DifferIn(Sub, D)
        BY <2>1, <2>4, LossIs
      <3>3. a \in Int /\ t \in Nat /\ d \in Int
        BY <2>1, NumberFacts DEF ScaledKnown
      <3>4. \A e \in Posed : /\ v[e] \in Int /\ cost[e] \in Int
                             /\ -d <= a * v[e] - t * cost[e] /\ a * v[e] - t * cost[e] <= d
        <4> TAKE e \in Posed
        <4>1. v[e] = Total(asked_ijw, e)
          BY <2>1, <2>4, CallersProblem
        <4>2. QED
          BY <2>1, <2>2, <4>1, EdgeCostIsClose
      <3>5. Weight(Sub, cost) <= Weight(D, cost)
        BY <2>3, <3>1
      <3>6. Sub \in SUBSET Edge /\ D \in SUBSET Edge /\ Sub \cup D \subseteq Posed
        BY <2>1, <2>4, <3>1, PosedFacts
      <3> HIDE DEF D, v, a, t, d
      <3>7. a * (Weight(Sub, v) - Weight(D, v)) <= d * Cardinality(DifferIn(Sub, D))
        <4>1. \A e \in Sub \cup D : v[e] \in Int /\ cost[e] \in Int
          BY <3>4, <3>6
        <4>2. \A e \in Sub \cup D : -d <= a * v[e] - t * cost[e] /\ a * v[e] - t * cost[e] <= d
          BY <3>4, <3>6
        <4>3. QED
          BY <3>3, <3>5, <3>6, <4>1, <4>2, CheapIsClose
      <3>8. QED
        BY <3>2, <3>7 DEF a, d
    <2>7. QED
      BY <2>1, <2>2, <2>4, <2>5, <2>6
  <1>2. QED
    BY <1>1, ExactInvHolds, PTL
=============================================================================
