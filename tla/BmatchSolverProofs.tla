-------------------------- MODULE BmatchSolverProofs --------------------------
(****************************************************************************)
(* Theorems about a whole call of BmatchSolver::solve_bmatching_problem with *)
(* the greedy solver inside it: for every number of nodes, every edge list   *)
(* and all integral bounds.                                                  *)
(****************************************************************************)
EXTENDS BmatchSolver, IjwProofs

-----------------------------------------------------------------------------
(****************************************************************************)
(* The theorems about the solver are taken from an instance of their module. *)
(* Its definitions are those of the solver inside BmatchSolver, under another *)
(* name: the lemmas Same... say so, one definition at a time.                *)
(****************************************************************************)
GP == INSTANCE GreedyApproxProofs WITH
    EdgeSets <- SUBSET Edge, Weights <- Nat \ {0}, Bounds <- Nat

LEMMA SameCard == \A S : Greedy!Cardinality(S) = GP!Cardinality(S)
  BY Zenon DEF GP!Cardinality, Greedy!Cardinality
LEMMA SameNode == Greedy!Node = GP!Node
  BY Zenon DEF Greedy!Node, GP!Node
LEMMA SameEdgeOf == \A x, y : Greedy!EdgeOf(x, y) = GP!EdgeOf(x, y)
  BY Zenon DEF Greedy!EdgeOf, GP!EdgeOf
LEMMA SameEdge == Greedy!Edge = GP!Edge
  BY Zenon, SameNode DEF Greedy!Edge, GP!Edge
LEMMA SameStartable == Greedy!Startable = GP!Startable
  BY Zenon, SameNode DEF Greedy!Startable, GP!Startable
LEMMA SameWmat == \A x, y : Greedy!Wmat(x, y) = GP!Wmat(x, y)
  BY Zenon, SameEdgeOf DEF Greedy!Wmat, GP!Wmat
LEMMA SameHeaviest == \A S : Greedy!Heaviest(S) = GP!Heaviest(S)
  BY Zenon, SameWmat DEF Greedy!Heaviest, GP!Heaviest
LEMMA SameSumFunctionOnSet == \A f,S : Greedy!SumFunctionOnSet(f,S) = GP!SumFunctionOnSet(f,S)
  BY Zenon DEF Greedy!SumFunctionOnSet, GP!SumFunctionOnSet,
     Greedy!FoldFunctionOnSet, GP!FoldFunctionOnSet, Greedy!MapThenFoldSet, GP!MapThenFoldSet
LEMMA SameSumFunction == \A f : Greedy!SumFunction(f) = GP!SumFunction(f)
  BY Zenon, SameSumFunctionOnSet DEF Greedy!SumFunction, GP!SumFunction
LEMMA SameMin == \A S : Greedy!Min(S) = GP!Min(S)
  BY Zenon DEF Greedy!Min, GP!Min
LEMMA SameMax == \A S : Greedy!Max(S) = GP!Max(S)
  BY Zenon DEF Greedy!Max, GP!Max
LEMMA SameListWeight == \A s, w : Greedy!ListWeight(s, w) = GP!ListWeight(s, w)
  BY Zenon, SameSumFunction DEF Greedy!ListWeight, GP!ListWeight
LEMMA SameHalf == \A s, h : Greedy!Half(s, h) = GP!Half(s, h)
  BY Zenon DEF Greedy!Half, GP!Half
LEMMA SameHeavyHalf == \A s : Greedy!HeavyHalf(s) = GP!HeavyHalf(s)
  BY Zenon, SameHalf, SameListWeight DEF Greedy!HeavyHalf, GP!HeavyHalf
LEMMA Samegraph == Greedy!graph = GP!graph
  BY Zenon DEF Greedy!graph, GP!graph
LEMMA SameNeighbours == \A w : Greedy!Neighbours(w) = GP!Neighbours(w)
  BY Zenon, SameNode, SameEdgeOf DEF Greedy!Neighbours, GP!Neighbours
LEMMA SameDegree == \A B, x : Greedy!Degree(B, x) = GP!Degree(B, x)
  BY Zenon, SameCard DEF Greedy!Degree, GP!Degree
LEMMA SameInputDegree == \A w : Greedy!InputDegree(w) = GP!InputDegree(w)
  BY Zenon, SameNode, SameDegree DEF Greedy!InputDegree, GP!InputDegree
LEMMA SameCapacity == \A b : Greedy!Capacity(b) = GP!Capacity(b)
  BY Zenon, SameNode DEF Greedy!Capacity, GP!Capacity
LEMMA SameIsClamped == \A w, b : Greedy!IsClamped(w, b) = GP!IsClamped(w, b)
  BY Zenon, SameNode, SameInputDegree, SameNeighbours DEF Greedy!IsClamped, GP!IsClamped
LEMMA SameActions ==
  /\ Greedy!PickNode => GP!PickNode
  /\ Greedy!Finish => GP!Finish
  /\ Greedy!WalkStop => GP!WalkStop
  /\ Greedy!WalkStep => GP!WalkStep
  /\ Greedy!AppendHalf => GP!AppendHalf
  <1>0. /\ Greedy!LoopCut <=> GP!LoopCut
        /\ Greedy!Exhausted <=> GP!Exhausted
    BY Zenon DEF Greedy!LoopCut, GP!LoopCut, Greedy!Exhausted, GP!Exhausted
  <1>1. /\ Greedy!NbrsAtVisit = GP!NbrsAtVisit
        /\ Greedy!DegAtVisit = GP!DegAtVisit
    BY Zenon, <1>0, SameMax DEF Greedy!NbrsAtVisit, GP!NbrsAtVisit, Greedy!DegAtVisit, GP!DegAtVisit
  <1>2. /\ \A v : Greedy!Dropped(v) = GP!Dropped(v)
        /\ \A v : Greedy!DegLeft(v) = GP!DegLeft(v)
    BY Zenon, <1>0, <1>1 DEF Greedy!Dropped, GP!Dropped, Greedy!DegLeft, GP!DegLeft
  <1>3. Greedy!PickNode => GP!PickNode
    BY Zenon, SameStartable, SameMin DEF Greedy!PickNode, GP!PickNode, Greedy!graph, GP!graph
  <1>4. Greedy!Finish => GP!Finish
    BY Zenon, SameStartable DEF Greedy!Finish, GP!Finish, Greedy!graph, GP!graph
  <1>5. Greedy!WalkStop => GP!WalkStop
    BY Zenon, <1>1 DEF Greedy!WalkStop, GP!WalkStop, Greedy!graph, GP!graph
  <1>6. Greedy!WalkStep => GP!WalkStep
    BY Zenon, <1>1, <1>2, SameHeaviest, SameNode, SameEdgeOf DEF Greedy!WalkStep, GP!WalkStep, Greedy!graph, GP!graph
  <1>7. Greedy!AppendHalf => GP!AppendHalf
    BY Zenon, SameHeavyHalf DEF Greedy!AppendHalf, GP!AppendHalf, Greedy!graph, GP!graph
  <1>8. QED
    BY <1>3, <1>4, <1>5, <1>6, <1>7

\* A step of the solver is a step of the instance the proofs are about.
LEMMA SolverSteps ==
  ASSUME GP!HalfInv, GP!DegreeInv, Greedy!Solve
  PROVE  GP!HalfInv' /\ GP!DegreeInv'
  <1>1. GP!Next
    BY SameActions DEF Greedy!Solve, Greedy!Walk, GP!Next, GP!Solve, GP!Walk
  <1>2. [GP!Next]_(GP!vars)
    BY <1>1
  <1>3. QED
    BY <1>2, GP!HalfInvStep, GP!DegreeInvStep, NumNodeAssumption, CallAssumption
       DEF GP!Edge, Edge, GP!Node, Node

\* A step that leaves the solver alone keeps what is known of it.
LEMMA SolverRests ==
  ASSUME GP!HalfInv, GP!DegreeInv, UNCHANGED solver
  PROVE  GP!HalfInv' /\ GP!DegreeInv'
  <1>1. [GP!Next]_(GP!vars)
    BY DEF GP!vars, solver
  <1>2. QED
    BY <1>1, GP!HalfInvStep, GP!DegreeInvStep, NumNodeAssumption, CallAssumption
       DEF GP!Edge, Edge, GP!Node, Node

\* What init() establishes, as a fact about a state ...
LEMMA InitialSolver == GP!Init => GP!HalfInv /\ GP!DegreeInv
  BY GP!HalfInvInit, GP!DegreeInvInit, NumNodeAssumption, CallAssumption
     DEF GP!Edge, Edge, GP!Node, Node

\* ... and about the state after the step that calls it.
LEMMA SolverStarts ==
  ASSUME GP!Init'
  PROVE  GP!HalfInv' /\ GP!DegreeInv'
  BY InitialSolver, PTL

\* The problem itself means the same in the instance of the proofs and here.
LEMMA PlainTerms ==
  /\ GP!Node = Node /\ GP!Edge = Edge
  /\ \A s : GP!ToSet(s) = ToSet(s)
  /\ \A s : GP!NoDuplicate(s) = NoDuplicate(s)
  /\ \A x, y : GP!EdgeOf(x, y) = EdgeOf(x, y)
  /\ \A B, x : GP!Degree(B, x) = Degree(B, x)
  /\ \A B, E, b : GP!IsBMatching(B, E, b) <=> IsBMatching(B, E, b)
  /\ \A B, w : GP!Weight(B, w) = Weight(B, w)
  /\ \A E, w, b : GP!BestWeight(E, w, b) = BestWeight(E, w, b)
  <1>1. GP!Node = Node
    BY DEF GP!Node, Node
  <1>2. GP!Edge = Edge
    BY <1>1 DEF GP!Edge, Edge
  <1>3. \A s : GP!ToSet(s) = ToSet(s)
    BY Zenon DEF GP!ToSet, ToSet
  <1>4. \A s : GP!NoDuplicate(s) = NoDuplicate(s)
    BY Zenon DEF GP!NoDuplicate, NoDuplicate
  <1>5. \A x, y : GP!EdgeOf(x, y) = EdgeOf(x, y)
    BY DEF GP!EdgeOf, EdgeOf
  <1>6. \A S : GP!Cardinality(S) = Cardinality(S)
    BY Zenon DEF GP!Cardinality, Cardinality
  <1>7. \A B, x : GP!Degree(B, x) = Degree(B, x)
    BY Zenon, <1>6 DEF GP!Degree, Degree
  <1>8. \A B, E, b : GP!IsBMatching(B, E, b) <=> IsBMatching(B, E, b)
    BY Zenon, <1>1, <1>7 DEF GP!IsBMatching, IsBMatching
  <1>9. \A B, w : GP!Weight(B, w) = Weight(B, w)
    BY DEF GP!Weight, Weight, GP!SumFunctionOnSet, SumFunctionOnSet,
           GP!FoldFunctionOnSet, FoldFunctionOnSet, GP!MapThenFoldSet, MapThenFoldSet
  <1>10. \A S : GP!Max(S) = Max(S)
    BY DEF GP!Max, Max
  <1>11. \A E, w, b : GP!BestWeight(E, w, b) = BestWeight(E, w, b)
    BY <1>8, <1>9, <1>10 DEF GP!BestWeight, BestWeight
  <1>12. QED
    BY <1>1, <1>2, <1>3, <1>4, <1>5, <1>7, <1>8, <1>9, <1>11

\* What solve() has found when it is done, in the terms of this module.
LEMMA SolverAnswers ==
  ASSUME GP!HalfInv, GP!DegreeInv, pc = "done"
  PROVE  /\ B_match \in Seq(Edge) /\ NoDuplicate(B_match)
         /\ IsBMatching(ToSet(B_match), DOMAIN ijw, Greedy!Capacity(deg_bdd))
         /\ BestWeight(DOMAIN ijw, ijw, Greedy!Capacity(deg_bdd)) <= 2 * Weight(ToSet(B_match), ijw)
  <1>1. /\ B_match \in Seq(GP!Edge) /\ GP!NoDuplicate(B_match)
        /\ GP!IsBMatching(GP!ToSet(B_match), DOMAIN ijw, GP!Capacity(deg_bdd))
        /\ GP!BestWeight(DOMAIN ijw, ijw, GP!Capacity(deg_bdd)) <= 2 * GP!Weight(GP!ToSet(B_match), ijw)
    BY GP!SolverAnswer, NumNodeAssumption, CallAssumption DEF GP!Edge, Edge, GP!Node, Node
  <1>2. QED
    BY <1>1, PlainTerms, SameCapacity
-----------------------------------------------------------------------------
(****************************************************************************)
(* The problem that is handed to the solver is the one that was asked.       *)
(****************************************************************************)
\* The graph of a call, without the edges at nodes whose upper bound is zero.
UsableGraph(s, ub) == [e \in Usable(s, ub) |-> Total(s, e)]

\* The graph the solver gets is the usable part of what was asked, with the
\* total weight of the entries of every edge.
LEMMA ProblemIsUsable ==
  ASSUME NEW s \in Seq(Entry), NEW ub \in [Node -> Nat]
  PROVE  Problem(ijw_2_svecvec_symm(s), ub) = UsableGraph(s, ub)
  <1> DEFINE t == ijw_add_upper_tri_transpose(s, TRUE)
             m == ijw_2_svecvec_symm(s)
             w == WithoutZeroBound(m, ub)
  <1>1. t \in Seq(Entry) /\ \A e \in Edge : Total(t, e) = Total(s, e)
    BY SymmUpper
  <1>2. m = [p \in Positions(t) |-> Total(t, p)]
    BY DEF ijw_2_svecvec_symm, ijw_2_svecvec
  <1> HIDE DEF t, m
  <1>3. Positions(t) \subseteq Node \X Node
    <2>1. \A k \in DOMAIN t : t[k] \in Entry
      BY <1>1, LenProperties, ElementOfSeq
    <2>2. ToSet(t) \subseteq Entry
      BY <2>1 DEF ToSet
    <2>3. QED
      BY <2>2 DEF Positions, Entry
  <1>4. \A e \in Edge : e = <<e[1], e[2]>> /\ e[1] \in Node /\ e[2] \in Node /\ e[1] <= e[2]
    BY DEF Edge
  <1>5. \A e \in Edge : e \notin Positions(t) => Total(s, e) = 0
    BY <1>1, <1>4, TotalFacts
  <1>6. \A x \in Node : ub[x] # 0 <=> ub[x] > 0
    OBVIOUS
  <1>7. /\ DOMAIN w = {p \in Positions(t) : ub[p[1]] # 0 /\ ub[p[2]] # 0}
        /\ \A p \in DOMAIN w : w[p] = Total(t, p)
    BY <1>2 DEF WithoutZeroBound
  <1>8. {p \in DOMAIN w : p[1] <= p[2] /\ w[p] # 0} = Usable(s, ub)
    <2>1. ASSUME NEW p \in DOMAIN w, p[1] <= p[2], w[p] # 0
          PROVE  p \in Usable(s, ub)
      <3>1. p \in Node \X Node /\ ub[p[1]] # 0 /\ ub[p[2]] # 0 /\ Total(t, p) # 0
        BY <1>3, <1>7, <2>1
      <3>2. p \in Edge /\ p[1] \in Node /\ p[2] \in Node
        BY <2>1, <3>1 DEF Edge
      <3>3. QED
        BY <1>1, <1>6, <3>1, <3>2 DEF Usable
    <2>2. ASSUME NEW e \in Usable(s, ub)
          PROVE  e \in DOMAIN w /\ e[1] <= e[2] /\ w[e] # 0
      <3>1. e \in Edge /\ Total(s, e) # 0 /\ ub[e[1]] > 0 /\ ub[e[2]] > 0
        BY DEF Usable
      <3>2. e \in Positions(t) /\ Total(t, e) # 0 /\ e[1] <= e[2] /\ ub[e[1]] # 0 /\ ub[e[2]] # 0
        BY <1>1, <1>4, <1>5, <1>6, <3>1
      <3>3. QED
        BY <1>7, <3>2
    <2>3. QED
      BY <2>1, <2>2
  <1>9. \A e \in Usable(s, ub) : w[e] = Total(s, e)
    BY <1>1, <1>7, <1>8 DEF Usable
  <1>10. Problem(m, ub) = [e \in {p \in DOMAIN w : p[1] <= p[2] /\ w[p] # 0} |-> w[e]]
    BY DEF Problem, UpperEdges
  <1> HIDE DEF w
  <1>11. QED
    BY <1>8, <1>9, <1>10 DEF UsableGraph, m

\* Its edges: between nodes with a bound, of positive weight.
LEMMA UsableFacts ==
  ASSUME NEW s \in Seq(Entry), NEW ub
  PROVE  /\ Usable(s, ub) \in SUBSET Edge
         /\ DOMAIN UsableGraph(s, ub) = Usable(s, ub)
         /\ \A e \in Usable(s, ub) : /\ e[1] \in Node /\ e[2] \in Node
                                     /\ e = EdgeOf(e[1], e[2]) /\ e = EdgeOf(e[2], e[1])
                                     /\ UsableGraph(s, ub)[e] = Total(s, e)
                                     /\ Total(s, e) # 0 /\ ub[e[1]] > 0 /\ ub[e[2]] > 0
         /\ ~ HasNegativeWeight(s) =>
              \A e \in Usable(s, ub) : Total(s, e) \in Nat /\ Total(s, e) > 0
  <1>1. \A e \in Edge : e[1] \in Node /\ e[2] \in Node /\ e = EdgeOf(e[1], e[2]) /\ e = EdgeOf(e[2], e[1])
    <2> TAKE e \in Edge
    <2>1. e = <<e[1], e[2]>> /\ e[1] \in Node /\ e[2] \in Node /\ e[1] <= e[2]
      BY DEF Edge
    <2>2. e = EdgeOf(e[1], e[2])
      BY <2>1 DEF EdgeOf
    <2>3. QED
      BY <2>1, <2>2, EdgeOfSymmetric
  <1>2. ~ HasNegativeWeight(s) => \A e \in Usable(s, ub) : Total(s, e) \in Nat /\ Total(s, e) > 0
    <2> SUFFICES ASSUME ~ HasNegativeWeight(s), NEW e \in Usable(s, ub)
                 PROVE  Total(s, e) \in Nat /\ Total(s, e) > 0
      OBVIOUS
    <2>1. Total(s, e) \in Nat /\ Total(s, e) # 0
      BY TotalFacts DEF Usable
    <2>2. QED
      BY <2>1
  <1>3. QED
    BY <1>1, <1>2 DEF Usable, UsableGraph

\* Max and Min of two integers, as a case distinction.
LEMMA MaxMinOfTwo ==
  ASSUME NEW a \in Int, NEW b \in Int
  PROVE  Max({a, b}) = (IF a <= b THEN b ELSE a) /\ Min({a, b}) = (IF a <= b THEN a ELSE b)
  <1>1. {a, b} \in SUBSET Int /\ {a, b} # {}
    OBVIOUS
  <1>2. IsFiniteSet({a, b})
    <2>1. IsFiniteSet({a}) /\ {a, b} = {a} \cup {b}
      BY FS_Singleton
    <2>2. QED
      BY <2>1, FS_AddElement
  <1> DEFINE S == {a, b}
  <1>3. Max(S) \in S /\ \A y \in S : Max(S) >= y
    <2> HIDE DEF S
    <2>1. S \in SUBSET Int /\ IsFiniteSet(S) /\ S # {}
      BY <1>1, <1>2 DEF S
    <2>2. QED
      BY <2>1, MaxIsGreatest
  <1>4. Min(S) \in S /\ \A y \in S : Min(S) <= y
    <2> HIDE DEF S
    <2>1. S \in SUBSET Int /\ IsFiniteSet(S) /\ S # {}
      BY <1>1, <1>2 DEF S
    <2>2. QED
      BY <2>1, MinIsLeast
  <1>5. QED
    BY <1>3, <1>4

\* Degree bounds are whole and not negative.
IntegralBounds == DegUnit = 1 /\ UpperBounds \subseteq Nat

\* Clamping a bound to 0 .. degree, as a case distinction.
LEMMA ClampIs ==
  ASSUME DegUnit = 1, NEW b \in [Node -> Int], NEW E \in SUBSET Edge, NEW x \in Node
  PROVE  /\ Degree(E, x) \in Nat
         /\ Clamp(b, E)[x] \in Nat
         /\ Clamp(b, E)[x] = IF b[x] < 0 THEN 0 ELSE IF b[x] <= Degree(E, x) THEN b[x] ELSE Degree(E, x)
         /\ Clamp(b, E) = [y \in Node |-> Clamp(b, E)[y]]
  <1>1. Degree(E, x) \in Nat /\ b[x] \in Int /\ DegUnit * Degree(E, x) = Degree(E, x)
    BY DegreeFacts
  <1> DEFINE d == Degree(E, x)
             a == b[x]
             c == Min({a, d})
  <1>2. Clamp(b, E)[x] = Max({0, c}) /\ Clamp(b, E) = [y \in Node |-> Clamp(b, E)[y]]
    BY <1>1 DEF Clamp
  <1> HIDE DEF a, d
  <1>3. c \in Int /\ c = IF a <= d THEN a ELSE d
    <2>1. a \in Int /\ d \in Int
      BY <1>1 DEF a, d
    <2>2. QED
      BY <2>1, MaxMinOfTwo
  <1> HIDE DEF c
  <1>4. Max({0, c}) = IF 0 <= c THEN c ELSE 0
    BY <1>3, MaxMinOfTwo, 0 \in Int
  <1>5. QED
    BY <1>1, <1>2, <1>3, <1>4 DEF a, d

\* The bounds that are clamped to the degrees of the usable graph are what
\* the solver assumes of them.
LEMMA ClampedInput ==
  ASSUME DegUnit = 1, NEW s \in Seq(Entry), NEW ub \in [Node -> Nat]
  PROVE  GP!IsClamped(UsableGraph(s, ub), Clamp(ub, Usable(s, ub)))
  <1> DEFINE E == Usable(s, ub)
             w == UsableGraph(s, ub)
             c == Clamp(ub, E)
  <1>1. /\ E \in SUBSET Edge /\ DOMAIN w = E
        /\ \A e \in E : /\ e[1] \in Node /\ e[2] \in Node
                        /\ e = EdgeOf(e[1], e[2]) /\ e = EdgeOf(e[2], e[1])
                        /\ ub[e[1]] > 0 /\ ub[e[2]] > 0
    BY UsableFacts
  <1> HIDE DEF E, w
  <1>2. ub \in [Node -> Int]
    OBVIOUS
  <1>3. ASSUME NEW x \in Node
        PROVE  /\ Degree(E, x) \in Nat
               /\ c[x] \in Nat
               /\ c[x] = IF ub[x] <= Degree(E, x) THEN ub[x] ELSE Degree(E, x)
    <2>1. /\ Degree(E, x) \in Nat /\ Clamp(ub, E)[x] \in Nat
          /\ Clamp(ub, E)[x]
               = IF ub[x] < 0 THEN 0 ELSE IF ub[x] <= Degree(E, x) THEN ub[x] ELSE Degree(E, x)
      BY <1>1, <1>2, ClampIs
    <2>2. ub[x] \in Nat
      OBVIOUS
    <2>3. QED
      BY <2>1, <2>2
  <1> HIDE DEF c
  <1>4. ASSUME NEW x \in Node
        PROVE  /\ GP!InputDegree(w)[x] = Degree(E, x)
               /\ GP!Neighbours(w)[x] = {y \in Node : EdgeOf(x, y) \in E}
    BY <1>1, PlainTerms DEF GP!InputDegree, GP!Neighbours
  <1>5. ASSUME NEW x \in Node, NEW y \in Node, EdgeOf(x, y) \in E
        PROVE  c[x] >= 1
    <2> DEFINE e == EdgeOf(x, y)
    <2>1. x = e[1] \/ x = e[2]
      BY DEF EdgeOf
    <2>2. IncidentTo(e, x) /\ ub[x] > 0
      BY <1>1, <1>5, <2>1 DEF IncidentTo
    <2>3. Degree(E, x) # 0
      BY <1>1, <1>5, <2>2, DegreeFacts
    <2>4. ub[x] \in Nat
      OBVIOUS
    <2>5. QED
      BY <1>3, <2>2, <2>3, <2>4
  <1>6. ASSUME NEW x \in Node
        PROVE  /\ c[x] <= DegUnit * GP!InputDegree(w)[x]
               /\ GP!Neighbours(w)[x] # {} => c[x] >= DegUnit
    <2>1. ub[x] \in Nat
      OBVIOUS
    <2>2. DegUnit * Degree(E, x) = Degree(E, x) /\ c[x] <= Degree(E, x)
      BY <1>3, <2>1
    <2>3. QED
      BY <1>4, <1>5, <2>2
  <1>7. GP!IsClamped(w, c)
    BY <1>6, PlainTerms DEF GP!IsClamped
  <1>8. QED
    BY <1>7 DEF w, c, E

\* Clamping crosses no bounds that were not crossed before.
LEMMA CrossedBefore ==
  ASSUME DegUnit = 1, NEW lb \in [Node -> Int], NEW ub \in [Node -> Int], NEW E \in SUBSET Edge,
         \E x \in Node : Clamp(lb, E)[x] > Clamp(ub, E)[x]
  PROVE  Crossed(lb, ub)
  <1>1. PICK x \in Node : Clamp(lb, E)[x] > Clamp(ub, E)[x]
    OBVIOUS
  <1>2. /\ lb[x] \in Int /\ ub[x] \in Int /\ Degree(E, x) \in Nat
        /\ Clamp(lb, E)[x] = IF lb[x] < 0 THEN 0
                             ELSE IF lb[x] <= Degree(E, x) THEN lb[x] ELSE Degree(E, x)
        /\ Clamp(ub, E)[x] = IF ub[x] < 0 THEN 0
                             ELSE IF ub[x] <= Degree(E, x) THEN ub[x] ELSE Degree(E, x)
    BY ClampIs
  <1>3. lb[x] > ub[x]
    BY <1>1, <1>2
  <1>4. QED
    BY <1>3 DEF Crossed
-----------------------------------------------------------------------------
(****************************************************************************)
(* The call.                                                                 *)
(****************************************************************************)
Rejection ==
  /\ success = 0 /\ bmatch_edge_vec = <<>> /\ bmatch_wgt = Unset
  /\ HasNegativeWeight(in_ijw) \/ Crossed(in_lb, in_ub)

\* The bounds of no node cross once they are clamped.
InOrder ==
  LET E == Usable(in_ijw, in_ub)
  IN  \A x \in Node : Clamp(in_lb, E)[x] <= Clamp(in_ub, E)[x]

\* A b-matching of the usable graph, its weight, and how good it is.
CallAnswer ==
  /\ success = 1
  /\ ~ HasNegativeWeight(in_ijw)
  /\ InOrder
  /\ bmatch_edge_vec \in Seq(Edge) /\ NoDuplicate(bmatch_edge_vec)
  /\ IsBMatching(ToSet(bmatch_edge_vec), Usable(in_ijw, in_ub), in_ub)
  /\ bmatch_wgt = ListWeight(bmatch_edge_vec, UsableGraph(in_ijw, in_ub))
  /\ BestWeight(Usable(in_ijw, in_ub), UsableGraph(in_ijw, in_ub),
                Clamp(in_ub, Usable(in_ijw, in_ub)))
       <= 2 * bmatch_wgt

CallInv ==
  /\ in_ijw \in Seq(Entry) /\ in_lb \in [Node -> Int] /\ in_ub \in [Node -> Nat]
  /\ stage \in {"called", "pruned", "solving", "returned"}
  /\ stage # "returned" => success \in {0, 1} /\ bmatch_edge_vec = <<>> /\ bmatch_wgt = Unset
  /\ stage \in {"pruned", "solving"} =>
       ~ HasNegativeWeight(in_ijw) /\ ijw = UsableGraph(in_ijw, in_ub)
  /\ stage = "solving" => /\ deg_bdd = Clamp(in_ub, Usable(in_ijw, in_ub))
                          /\ InOrder
                          /\ GP!HalfInv /\ GP!DegreeInv
  /\ stage = "returned" => Rejection \/ CallAnswer

\* The call starts in its invariant.
LEMMA CallInvInit ==
  ASSUME IntegralBounds, Init
  PROVE  CallInv
  BY CallAssumption DEF IntegralBounds, Init, CallInv, Entry

\* The call has the arguments it was given.
LEMMA Arguments ==
  ASSUME DegUnit = 1, CallInv
  PROVE  /\ DegUnit = 1
         /\ in_ijw \in Seq(Entry)
         /\ in_lb \in [Node -> Int]
         /\ in_ub \in [Node -> Nat] /\ in_ub \in [Node -> Int]
  BY DEF CallInv

\* Negative weights are a reason to reject.
LEMMA RejectWeightsStep ==
  ASSUME DegUnit = 1, CallInv, RejectWeights
  PROVE  CallInv'
  BY DEF CallInv, RejectWeights, Reject, args, Rejection

\* What is left after the removal of edges is the usable graph.
LEMMA RemoveEdgesStep ==
  ASSUME DegUnit = 1, CallInv, RemoveEdges
  PROVE  CallInv'
  <1>1. ijw' = UsableGraph(in_ijw, in_ub)
    BY Arguments, ProblemIsUsable DEF RemoveEdges
  <1>2. QED
    BY <1>1 DEF CallInv, RemoveEdges, args

\* Clamped bounds that cross do so because the given ones do.
LEMMA RejectBoundsStep ==
  ASSUME DegUnit = 1, CallInv, RejectBounds
  PROVE  CallInv'
  <1>1. ijw = UsableGraph(in_ijw, in_ub)
    BY DEF CallInv, RejectBounds
  <1>2. DOMAIN ijw \in SUBSET Edge
    BY <1>1, Arguments, UsableFacts
  <1>3. \E x \in Node : Clamp(in_lb, DOMAIN ijw)[x] > Clamp(in_ub, DOMAIN ijw)[x]
    BY DEF RejectBounds, BoundsCross, ClampedLower, ClampedUpper
  <1>4. Crossed(in_lb, in_ub)
    BY <1>2, <1>3, Arguments, CrossedBefore
  <1>5. QED
    BY <1>4 DEF CallInv, RejectBounds, Reject, args, Rejection

\* The solver starts on the usable graph with the clamped bounds.
LEMMA InitSolverStep ==
  ASSUME DegUnit = 1, CallInv, InitSolver
  PROVE  CallInv'
  <1> DEFINE E == Usable(in_ijw, in_ub)
             w == UsableGraph(in_ijw, in_ub)
             c == Clamp(in_ub, E)
  <1>1. ijw = w /\ ~ HasNegativeWeight(in_ijw)
    BY DEF CallInv, InitSolver
  <1>2. /\ E \in SUBSET Edge /\ DOMAIN w = E
        /\ \A e \in E : w[e] \in Nat \ {0}
        /\ w = [e \in E |-> w[e]]
    <2>1. \A e \in E : w[e] = Total(in_ijw, e) /\ Total(in_ijw, e) \in Nat /\ Total(in_ijw, e) > 0
      BY <1>1, Arguments, UsableFacts
    <2>2. E \in SUBSET Edge /\ DOMAIN w = E
      BY Arguments, UsableFacts
    <2>3. w = [e \in E |-> w[e]]
      BY DEF UsableGraph
    <2>4. QED
      BY <2>1, <2>2, <2>3
  <1>3. GP!IsClamped(w, c)
    BY Arguments, ClampedInput
  <1>4. c \in [Node -> Nat]
    <2>1. \A x \in Node : c[x] \in Nat
      BY <1>2, Arguments, ClampIs
    <2>2. c = [x \in Node |-> c[x]]
      BY DEF Clamp
    <2>3. QED
      BY <2>1, <2>2
  <1>5. deg_bdd' = c /\ ijw' = w
    BY <1>1, <1>2 DEF InitSolver, ClampedUpper
  <1>6. w \in UNION {[D -> Nat \ {0}] : D \in SUBSET Edge}
    <2> HIDE DEF w, E
    <2>1. w \in [E -> Nat \ {0}]
      BY <1>2
    <2>2. QED
      BY <1>2, <2>1
  <1> HIDE DEF w, c, E
  <1>7. /\ Amat' = GP!Neighbours(ijw') /\ deg_vec' = GP!InputDegree(ijw')
        /\ bcap_vec' = GP!Capacity(deg_bdd')
        /\ M_walk' = <<>> /\ B_match' = <<>> /\ u' = NumNode /\ pc' = "pick"
    BY SameNeighbours, SameInputDegree, SameCapacity DEF InitSolver
  <1>8. GP!Init'
    BY <1>3, <1>4, <1>5, <1>6, <1>7, PlainTerms DEF GP!Init
  <1>9. GP!HalfInv' /\ GP!DegreeInv'
    BY <1>8, SolverStarts
  <1>10. ~ HasNegativeWeight(in_ijw)' /\ ijw' = UsableGraph(in_ijw, in_ub)'
    BY <1>1, <1>5 DEF InitSolver, args, w
  <1>11. deg_bdd' = Clamp(in_ub, Usable(in_ijw, in_ub))'
    BY <1>5 DEF InitSolver, args, c, E
  <1>12. InOrder'
    <2>1. DOMAIN ijw = E /\ ~ BoundsCross
      BY <1>1, <1>2 DEF InitSolver
    <2>2. \A x \in Node : ~ (Clamp(in_lb, E)[x] > Clamp(in_ub, E)[x])
      BY <2>1 DEF BoundsCross, ClampedLower, ClampedUpper
    <2>3. \A x \in Node : Clamp(in_lb, E)[x] \in Nat /\ Clamp(in_ub, E)[x] \in Nat
      <3>1. E \in SUBSET Edge
        BY Arguments, UsableFacts DEF E
      <3>2. QED
        BY <3>1, Arguments, ClampIs
    <2>4. InOrder
      BY <2>2, <2>3 DEF InOrder, E
    <2>5. QED
      BY <2>4 DEF InOrder, InitSolver, args
  <1>13. QED
    BY <1>9, <1>10, <1>11, <1>12 DEF CallInv, InitSolver, args, outputs

\* A step of the solver keeps its invariants and touches nothing else.
LEMMA SolveStep ==
  ASSUME DegUnit = 1, CallInv, Solve
  PROVE  CallInv'
  <1>1. GP!HalfInv' /\ GP!DegreeInv'
    BY SolverSteps DEF CallInv, Solve
  <1>2. ijw' = ijw /\ deg_bdd' = deg_bdd
    BY DEF Solve, Greedy!Solve, Greedy!PickNode, Greedy!Finish, Greedy!Walk, Greedy!WalkStop,
           Greedy!WalkStep, Greedy!AppendHalf, Greedy!graph
  <1>3. QED
    BY <1>1, <1>2 DEF CallInv, Solve, args, outputs, InOrder

\* solution() keeps every edge of the b-matching, in its order.
LEMMA CopiedIs ==
  ASSUME B_match \in Seq(Edge)
  PROVE  /\ EdgesOf(Copied) = B_match
         /\ [k \in DOMAIN Copied |-> ijw[EdgeOf(Copied[k][1], Copied[k][2])]]
              = [k \in DOMAIN B_match |-> ijw[B_match[k]]]
  <1> DEFINE s == Solution
             U == ijw_upper_tri(s, FALSE)
             n == Len(B_match)
  <1>1. /\ DOMAIN B_match = 1 .. n /\ n \in Nat
        /\ B_match = [k \in 1 .. n |-> B_match[k]]
        /\ \A k \in 1 .. n : B_match[k] \in Edge
    BY LenProperties, ElementOfSeq
  <1>2. \A k \in 1 .. n : /\ B_match[k] = <<B_match[k][1], B_match[k][2]>>
                          /\ B_match[k][1] \in Node /\ B_match[k][2] \in Node
                          /\ B_match[k][1] <= B_match[k][2]
    BY <1>1 DEF Edge
  <1>3. s = [k \in 1 .. n |-> <<B_match[k][1], B_match[k][2], 1>>]
    BY <1>1 DEF Solution
  <1>4. s \in Seq(Entry)
    <2> HIDE DEF s, n
    <2>1. \A k \in 1 .. n : <<B_match[k][1], B_match[k][2], 1>> \in Entry
      BY <1>2 DEF Entry
    <2>2. \A k \in 1 .. n : s[k] \in Entry
      BY <1>3, <2>1
    <2>3. QED
      BY <1>1, <1>3, <2>2, IsASeq
  <1>5. DOMAIN s = 1 .. n
    BY <1>3
  <1>6. U = s
    <2> DEFINE K == {k \in DOMAIN s : s[k][1] < s[k][2] \/ (s[k][1] = s[k][2] /\ ~ FALSE)}
    <2>1. IsSelection(U, s, K)
      BY <1>4, UpperTriSelects
    <2>2. DOMAIN s \subseteq K
      <3> SUFFICES ASSUME NEW k \in DOMAIN s PROVE k \in K
        OBVIOUS
      <3> HIDE DEF n
      <3>1. \A x \in Node : x \in Int
        BY NumNodeAssumption DEF Node
      <3>2. k \in 1 .. n /\ s[k][1] = B_match[k][1] /\ s[k][2] = B_match[k][2]
        BY <1>3, <1>5
      <3>3. s[k][1] \in Int /\ s[k][2] \in Int /\ s[k][1] <= s[k][2]
        BY <1>2, <3>1, <3>2
      <3>4. QED
        BY <3>3
    <2> HIDE DEF K, U, s
    <2>3. QED
      BY <1>4, <2>1, <2>2, SelectionEntries
  <1>7. Copied = s
    <2> DEFINE K == {k \in DOMAIN s : s[k][3] # 0}
    <2>1. Copied = ijw_nnz(s)
      BY <1>6 DEF Copied
    <2>2. IsSelection(Copied, s, K)
      BY <1>4, <2>1, NnzSelects
    <2>3. DOMAIN s \subseteq K
      <3> HIDE DEF n
      <3>1. \A k \in 1 .. n : s[k][3] = 1
        BY <1>3
      <3>2. QED
        BY <1>5, <3>1
    <2> HIDE DEF K, s
    <2>4. QED
      BY <1>4, <2>2, <2>3, SelectionEntries
  <1> HIDE DEF s, U, n
  <1>8. \A k \in 1 .. n : /\ <<s[k][1], s[k][2]>> = B_match[k]
                          /\ EdgeOf(s[k][1], s[k][2]) = B_match[k]
    BY <1>2, <1>3 DEF EdgeOf
  <1>9. EdgesOf(s) = B_match
    BY <1>1, <1>5, <1>8 DEF EdgesOf
  <1>10. QED
    BY <1>1, <1>5, <1>7, <1>8, <1>9

\* The answer is the list of edges the solver has chosen, and its weight.
LEMMA ReturnStep ==
  ASSUME DegUnit = 1, CallInv, Return
  PROVE  CallInv'
  <1> DEFINE E == Usable(in_ijw, in_ub)
             w == UsableGraph(in_ijw, in_ub)
             c == Clamp(in_ub, E)
  <1>1. /\ ~ HasNegativeWeight(in_ijw) /\ ijw = w /\ deg_bdd = c /\ InOrder
        /\ GP!HalfInv /\ GP!DegreeInv /\ pc = "done"
    BY DEF CallInv, Return
  <1>2. /\ E \in SUBSET Edge /\ DOMAIN w = E
        /\ \A e \in E : w[e] \in Nat
    BY <1>1, Arguments, UsableFacts
  <1>3. \A x \in Node : /\ c[x] \in Nat
                        /\ c[x] <= in_ub[x]
    <2> TAKE x \in Node
    <2>1. c[x] \in Nat /\ Degree(E, x) \in Nat /\ in_ub[x] \in Nat
          /\ c[x] = IF in_ub[x] < 0 THEN 0
                    ELSE IF in_ub[x] <= Degree(E, x) THEN in_ub[x] ELSE Degree(E, x)
      BY <1>2, Arguments, ClampIs
    <2>2. QED
      BY <2>1
  <1>4. Greedy!Capacity(c) = c
    <2>1. Greedy!Capacity(c) = [x \in Node |-> c[x] \div 1]
      BY Arguments DEF Greedy!Capacity, Greedy!Node, Node
    <2>2. c = [x \in Node |-> c[x]]
      BY DEF Clamp
    <2>3. \A x \in Node : c[x] \div 1 = c[x]
      BY <1>3
    <2> HIDE DEF c
    <2>4. QED
      BY <2>1, <2>2, <2>3
  <1> HIDE DEF E, w, c
  <1>5. /\ B_match \in Seq(Edge) /\ NoDuplicate(B_match)
        /\ IsBMatching(ToSet(B_match), E, c)
        /\ BestWeight(E, w, c) <= 2 * Weight(ToSet(B_match), w)
    <2>1. /\ B_match \in Seq(Edge) /\ NoDuplicate(B_match)
          /\ IsBMatching(ToSet(B_match), DOMAIN ijw, Greedy!Capacity(deg_bdd))
          /\ BestWeight(DOMAIN ijw, ijw, Greedy!Capacity(deg_bdd)) <= 2 * Weight(ToSet(B_match), ijw)
      BY <1>1, SolverAnswers
    <2>2. QED
      BY <1>1, <1>2, <1>4, <2>1
  <1>6. IsBMatching(ToSet(B_match), E, in_ub)
    <2> SUFFICES ASSUME NEW x \in Node PROVE Degree(ToSet(B_match), x) <= in_ub[x]
      BY <1>5 DEF IsBMatching
    <2>1. ToSet(B_match) \in SUBSET Edge /\ Degree(ToSet(B_match), x) <= c[x]
      BY <1>2, <1>5 DEF IsBMatching
    <2>2. Degree(ToSet(B_match), x) \in Nat /\ in_ub[x] \in Nat
      BY <2>1, DegreeFacts, Arguments
    <2>3. QED
      BY <1>3, <2>1, <2>2
  <1>7. bmatch_edge_vec' = B_match /\ bmatch_wgt' = ListWeight(B_match, w)
    <2>1. /\ bmatch_edge_vec' = EdgesOf(Copied)
          /\ bmatch_wgt' = SumFunction([k \in DOMAIN Copied |-> ijw[EdgeOf(Copied[k][1], Copied[k][2])]])
      BY DEF Return
    <2>2. QED
      BY <1>1, <1>5, <2>1, CopiedIs DEF ListWeight
  <1>8. Weight(ToSet(B_match), w) = ListWeight(B_match, w)
    <2>1. \A k \in DOMAIN B_match : B_match[k] \in E
      BY <1>5 DEF IsBMatching, ToSet
    <2>2. Weighed(B_match, w)
      BY <1>2, <1>5, <2>1 DEF Weighed
    <2>3. QED
      BY <1>5, <2>2, OnceWeight
  <1>9. in_ijw' = in_ijw /\ in_ub' = in_ub /\ in_lb' = in_lb /\ success' = 1 /\ stage' = "returned"
    BY DEF Return, args
  <1>10. CallAnswer'
    BY <1>1, <1>5, <1>6, <1>7, <1>8, <1>9 DEF CallAnswer, InOrder, E, w, c
  <1>11. QED
    BY <1>9, <1>10 DEF CallInv

\* Every step of the call preserves the invariant,
LEMMA CallInvStep ==
  ASSUME DegUnit = 1, CallInv, [Next]_svars
  PROVE  CallInv'
  <1>1. CASE RejectWeights
    BY <1>1, RejectWeightsStep
  <1>2. CASE RemoveEdges
    BY <1>2, RemoveEdgesStep
  <1>3. CASE RejectBounds
    BY <1>3, RejectBoundsStep
  <1>4. CASE InitSolver
    BY <1>4, InitSolverStep
  <1>5. CASE Solve
    BY <1>5, SolveStep
  <1>6. CASE Return
    BY <1>6, ReturnStep
  <1>7. CASE UNCHANGED svars
    <2>1. UNCHANGED solver
      BY <1>7 DEF svars
    <2>2. GP!HalfInv /\ GP!DegreeInv => GP!HalfInv' /\ GP!DegreeInv'
      BY <2>1, SolverRests
    <2>3. QED
      BY <1>7, <2>2 DEF CallInv, Rejection, CallAnswer, InOrder, svars, args, outputs, solver
  <1>8. QED
    BY <1>1, <1>2, <1>3, <1>4, <1>5, <1>6, <1>7 DEF Next, Call, Returned

\* which therefore holds throughout.
LEMMA CallInvHolds ==
  ASSUME IntegralBounds
  PROVE  Spec => []CallInv
  <1>1. DegUnit = 1
    BY DEF IntegralBounds
  <1>2. Init => CallInv
    BY CallInvInit
  <1>3. CallInv /\ [Next]_svars => CallInv'
    BY <1>1, CallInvStep
  <1>4. QED
    BY <1>2, <1>3, PTL DEF Spec
-----------------------------------------------------------------------------
(****************************************************************************)
(* What the caller gets.                                                     *)
(****************************************************************************)
\* A rejected call answers with no edges, which is a b-matching too.
LEMMA AnswerShape ==
  ASSUME DegUnit = 1, CallInv, stage = "returned"
  PROVE  /\ success \in {0, 1}
         /\ success = 0 => Rejection
         /\ success = 1 => CallAnswer
         /\ bmatch_edge_vec \in Seq(Edge) /\ NoDuplicate(bmatch_edge_vec)
         /\ IsBMatching(ToSet(bmatch_edge_vec), Usable(in_ijw, in_ub), in_ub)
         /\ bmatch_wgt \in Nat \cup {Unset}
  <1>1. CASE Rejection
    <2>1. bmatch_edge_vec = <<>> /\ success = 0 /\ bmatch_wgt = Unset
      BY <1>1 DEF Rejection
    <2>2. ToSet(<<>>) = {} /\ NoDuplicate(<<>>) /\ <<>> \in Seq(Edge)
      BY DEF ToSet, NoDuplicate
    <2>3. \A x \in Node : Degree({}, x) <= in_ub[x]
      <3> TAKE x \in Node
      <3>1. Degree({}, x) = 0
        BY DegreeFacts
      <3>2. in_ub[x] \in Nat
        BY Arguments
      <3>3. QED
        BY <3>1, <3>2
    <2>4. IsBMatching({}, Usable(in_ijw, in_ub), in_ub)
      BY <2>3 DEF IsBMatching
    <2>5. Unset \in Nat \cup {Unset} /\ 0 \in {0, 1} /\ 0 # 1
      OBVIOUS
    <2>6. QED
      BY <1>1, <2>1, <2>2, <2>4, <2>5
  <1>2. CASE CallAnswer
    <2> DEFINE w == UsableGraph(in_ijw, in_ub)
               s == bmatch_edge_vec
    <2>1. /\ success = 1 /\ ~ HasNegativeWeight(in_ijw)
          /\ s \in Seq(Edge) /\ NoDuplicate(s)
          /\ IsBMatching(ToSet(s), Usable(in_ijw, in_ub), in_ub)
          /\ bmatch_wgt = ListWeight(s, w)
      BY <1>2 DEF CallAnswer
    <2>2. \A k \in DOMAIN s : s[k] \in Usable(in_ijw, in_ub)
      BY <2>1 DEF IsBMatching, ToSet
    <2>3. \A e \in Usable(in_ijw, in_ub) : w[e] \in Nat
      BY <2>1, Arguments, UsableFacts
    <2> HIDE DEF w, s
    <2>4. Weighed(s, w)
      BY <2>1, <2>2, <2>3 DEF Weighed
    <2>5. bmatch_wgt \in Nat
      BY <2>1, <2>4, WeighedList
    <2>6. bmatch_wgt \in Nat \cup {Unset} /\ success \in {0, 1} /\ success # 0
      BY <2>1, <2>5
    <2>7. QED
      BY <1>2, <2>1, <2>6 DEF s
  <1>3. QED
    BY <1>1, <1>2 DEF CallInv

\* No step changes the local copies of the bounds.
GivenBounds == in_lb \in [Node -> LowerBounds] /\ in_ub \in [Node -> UpperBounds]
LEMMA BoundsAreKept == Spec => []GivenBounds
  <1>1. Init => GivenBounds
    BY DEF Init, GivenBounds
  <1>2. GivenBounds /\ [Next]_svars => GivenBounds'
    BY DEF GivenBounds, Next, Call, Returned, RejectWeights, RemoveEdges, RejectBounds, Reject,
           InitSolver, Solve, Return, svars, args
  <1>3. QED
    BY <1>1, <1>2, PTL DEF Spec

\* The call and its solver keep to their types.
THEOREM CallTypeCorrect ==
  ASSUME IntegralBounds
  PROVE  Spec => []TypeOK
  <1> USE DEF IntegralBounds
  <1>1. CallInv /\ GivenBounds => TypeOK
    <2> SUFFICES ASSUME CallInv, GivenBounds PROVE TypeOK
      OBVIOUS
    <2>1. /\ in_ijw \in Seq(Node \X Node \X Int)
          /\ in_lb \in [Node -> LowerBounds] /\ in_ub \in [Node -> UpperBounds]
          /\ stage \in {"called", "pruned", "solving", "returned"}
      BY DEF CallInv, GivenBounds, Entry
    <2>2. /\ success \in {0, 1} /\ bmatch_edge_vec \in Seq(Edge)
          /\ bmatch_wgt \in Nat \cup {Unset}
      <3>1. CASE stage = "returned"
        BY <3>1, AnswerShape
      <3>2. CASE stage # "returned"
        BY <3>2 DEF CallInv
      <3>3. QED
        BY <3>1, <3>2
    <2>3. ASSUME stage = "solving"
          PROVE  pc \in {"pick", "walk", "append", "done"} /\ DOMAIN ijw \subseteq Edge
      BY <2>3, Arguments, UsableFacts
         DEF CallInv, GP!HalfInv, GP!OnceInv, GP!GraphInv, GP!TypeOK
    <2>4. QED
      BY <2>1, <2>2, <2>3 DEF TypeOK
  <1>2. QED
    BY <1>1, CallInvHolds, BoundsAreKept, PTL

\* Whatever the caller lists and bounds, init() gets what it relies on:
\* positive weights, bounds of at most the degree, capacity wherever an edge is.
THEOREM InputIsClean ==
  ASSUME IntegralBounds
  PROVE  Spec => []SolverGetsCleanInput
  <1> USE DEF IntegralBounds
  <1>1. CallInv => SolverGetsCleanInput
    <2> SUFFICES ASSUME CallInv, stage = "solving"
                 PROVE  (\A e \in DOMAIN ijw : ijw[e] > 0) /\ Greedy!IsClamped(ijw, deg_bdd)
      BY DEF SolverGetsCleanInput
    <2>1. /\ ~ HasNegativeWeight(in_ijw) /\ ijw = UsableGraph(in_ijw, in_ub)
          /\ deg_bdd = Clamp(in_ub, Usable(in_ijw, in_ub))
      BY DEF CallInv
    <2>2. \A e \in DOMAIN ijw : ijw[e] > 0
      BY <2>1, Arguments, UsableFacts
    <2>3. Greedy!IsClamped(ijw, deg_bdd)
      BY <2>1, Arguments, ClampedInput, SameIsClamped
    <2>4. QED
      BY <2>2, <2>3
  <1>2. QED
    BY <1>1, CallInvHolds, PTL

\* The problem of the properties is read off the arguments.
LEMMA AskedIsTotal ==
  \A e \in Edge : AskedWeight(e) = Total(in_ijw, e)
  <1> TAKE e \in Edge
  <1>1. e = <<e[1], e[2]>>
    BY DEF Edge
  <1>2. {k \in DOMAIN in_ijw : <<in_ijw[k][1], in_ijw[k][2]>> = e}
          = {k \in DOMAIN in_ijw : in_ijw[k][1] = e[1] /\ in_ijw[k][2] = e[2]}
    BY <1>1
  <1>3. QED
    BY <1>2 DEF AskedWeight, Total, Listed

\* The usable edges are those of the problem the caller asked, without the
\* ones at nodes with bound zero.
LEMMA UsableIsAsked ==
  ASSUME DegUnit = 1, CallInv
  PROVE  /\ AskedEdges \in SUBSET Edge
         /\ \A e \in AskedEdges : AskedWeights[e] \in Nat /\ AskedWeights[e] = Total(in_ijw, e)
         /\ \A x \in Node : AskedBounds[x] = in_ub[x]
         /\ AskedBounds \in [Node -> Nat]
         /\ ~ HasNegativeWeight(in_ijw) =>
              Usable(in_ijw, in_ub) = {e \in AskedEdges : in_ub[e[1]] > 0 /\ in_ub[e[2]] > 0}
  <1>1. \A e \in AskedEdges : AskedWeights[e] \in Nat /\ AskedWeights[e] = Total(in_ijw, e)
    <2> TAKE e \in AskedEdges
    <2>1. e \in Edge /\ Total(in_ijw, e) > 0 /\ AskedWeights[e] = Total(in_ijw, e)
      BY AskedIsTotal DEF AskedEdges, AskedWeights
    <2>2. Total(in_ijw, e) \in Int
      BY Arguments, TotalFacts
    <2>3. QED
      BY <2>1, <2>2
  <1>2. \A x \in Node : AskedBounds[x] = in_ub[x]
    <2> TAKE x \in Node
    <2>1. in_ub[x] \in Nat /\ DegUnit = 1
      BY Arguments
    <2>2. QED
      BY <2>1 DEF AskedBounds
  <1>3. AskedBounds \in [Node -> Nat]
    <2>1. \A x \in Node : AskedBounds[x] \in Nat
      BY <1>2, Arguments
    <2>2. AskedBounds = [x \in Node |-> AskedBounds[x]]
      BY DEF AskedBounds
    <2>3. QED
      BY <2>1, <2>2
  <1>4. ASSUME ~ HasNegativeWeight(in_ijw)
        PROVE  Usable(in_ijw, in_ub) = {e \in AskedEdges : in_ub[e[1]] > 0 /\ in_ub[e[2]] > 0}
    <2>1. \A e \in Edge : Total(in_ijw, e) # 0 <=> Total(in_ijw, e) > 0
      <3> TAKE e \in Edge
      <3>1. Total(in_ijw, e) \in Nat
        BY <1>4, Arguments, TotalFacts
      <3>2. QED
        BY <3>1
    <2>2. QED
      BY <2>1, AskedIsTotal DEF Usable, AskedEdges
  <1>5. QED
    BY <1>1, <1>2, <1>3, <1>4 DEF AskedEdges

\* The answer is a b-matching of what was asked.
LEMMA AnswerWithin ==
  ASSUME DegUnit = 1, CallInv, stage = "returned"
  PROVE  IsBMatching(ToSet(bmatch_edge_vec), AskedEdges, AskedBounds)
  <1>1. /\ IsBMatching(ToSet(bmatch_edge_vec), Usable(in_ijw, in_ub), in_ub)
        /\ success = 0 => Rejection
        /\ success = 1 => CallAnswer
        /\ success \in {0, 1}
    BY AnswerShape
  <1>2. \A x \in Node : Degree(ToSet(bmatch_edge_vec), x) <= AskedBounds[x]
    BY <1>1, UsableIsAsked DEF IsBMatching
  <1>3. ToSet(bmatch_edge_vec) \subseteq AskedEdges
    <2>1. CASE success = 0
      BY <1>1, <2>1 DEF Rejection, ToSet
    <2>2. CASE success = 1
      <3>1. ToSet(bmatch_edge_vec) \subseteq Usable(in_ijw, in_ub) /\ ~ HasNegativeWeight(in_ijw)
        BY <1>1, <2>2 DEF IsBMatching, CallAnswer
      <3>2. QED
        BY <3>1, UsableIsAsked
    <2>3. QED
      BY <1>1, <2>1, <2>2
  <1>4. QED
    BY <1>2, <1>3 DEF IsBMatching

\* What the call answers is a b-matching of the caller's graph within the
\* caller's bounds, whatever was dropped, added up and clamped on the way.
THEOREM AnswersAreBMatchings ==
  ASSUME IntegralBounds
  PROVE  Spec => []AnswerIsBMatching
  <1> USE DEF IntegralBounds
  <1>1. CallInv => AnswerIsBMatching
    BY AnswerShape, AnswerWithin DEF AnswerIsBMatching
  <1>2. QED
    BY <1>1, CallInvHolds, PTL

\* The degree of a node in the answer, edge by edge of the list, is within the
\* bound the caller gave; this is what half-integral bounds break.
THEOREM AnswersWithinBounds ==
  ASSUME IntegralBounds
  PROVE  Spec => []AnswerWithinBounds
  <1> USE DEF IntegralBounds
  <1>1. CallInv => AnswerWithinBounds
    <2> SUFFICES ASSUME CallInv, stage = "returned", NEW x \in Node
                 PROVE  DegUnit * ListDegree(bmatch_edge_vec, x) <= in_ub[x]
      BY DEF AnswerWithinBounds
    <2>1. /\ bmatch_edge_vec \in Seq(Edge) /\ NoDuplicate(bmatch_edge_vec)
          /\ Degree(ToSet(bmatch_edge_vec), x) <= in_ub[x]
      BY AnswerShape DEF IsBMatching
    <2>2. /\ ListDegree(bmatch_edge_vec, x) \in Nat
          /\ Degree(ToSet(bmatch_edge_vec), x) = ListDegree(bmatch_edge_vec, x)
      BY <2>1, OnceDegree, ListDegreeIsEnds
    <2>3. DegUnit * ListDegree(bmatch_edge_vec, x) = ListDegree(bmatch_edge_vec, x)
      BY <2>2, Arguments
    <2>4. QED
      BY <2>1, <2>2, <2>3
  <1>2. QED
    BY <1>1, CallInvHolds, PTL

\* The weight that comes with the answer is the sum of the caller's weights
\* over the answered edges.
THEOREM WeightIsReported ==
  ASSUME IntegralBounds
  PROVE  Spec => []WeightIsThatOfAnswer
  <1> USE DEF IntegralBounds
  <1>1. CallInv => WeightIsThatOfAnswer
    <2> SUFFICES ASSUME CallInv, stage = "returned", success = 1
                 PROVE  bmatch_wgt = SumFunction([k \in DOMAIN bmatch_edge_vec |->
                                                    AskedWeight(bmatch_edge_vec[k])])
      BY DEF WeightIsThatOfAnswer
    <2> DEFINE w == UsableGraph(in_ijw, in_ub)
               s == bmatch_edge_vec
    <2>1. bmatch_wgt = ListWeight(s, w) /\ ToSet(s) \subseteq Usable(in_ijw, in_ub)
      BY AnswerShape DEF CallAnswer, IsBMatching
    <2>2. \A k \in DOMAIN s : s[k] \in Usable(in_ijw, in_ub)
      BY <2>1 DEF ToSet
    <2>3. \A e \in Usable(in_ijw, in_ub) : w[e] = AskedWeight(e)
      BY Arguments, UsableFacts, AskedIsTotal
    <2> HIDE DEF w, s
    <2>4. [k \in DOMAIN s |-> w[s[k]]] = [k \in DOMAIN s |-> AskedWeight(s[k])]
      BY <2>2, <2>3
    <2>5. bmatch_wgt = SumFunction([k \in DOMAIN s |-> w[s[k]]])
      BY <2>1 DEF ListWeight
    <2>6. QED
      BY <2>4, <2>5 DEF s
  <1>2. QED
    BY <1>1, CallInvHolds, PTL

\* Weight of the answer as the sum over the set of its edges.
LEMMA AnswerWeighs ==
  ASSUME DegUnit = 1, CallInv, stage = "returned", success = 1
  PROVE  /\ bmatch_wgt = Weight(ToSet(bmatch_edge_vec), UsableGraph(in_ijw, in_ub))
         /\ bmatch_wgt = WeightIn(in_ijw, ToSet(bmatch_edge_vec))
         /\ bmatch_wgt \in Nat
  <1> DEFINE w == UsableGraph(in_ijw, in_ub)
             s == bmatch_edge_vec
             B == ToSet(s)
             g == [e \in B |-> Total(in_ijw, e)]
  <1>1. /\ bmatch_wgt = ListWeight(s, w) /\ B \subseteq Usable(in_ijw, in_ub)
        /\ s \in Seq(Edge) /\ NoDuplicate(s) /\ ~ HasNegativeWeight(in_ijw)
    BY AnswerShape DEF CallAnswer, IsBMatching
  <1>2. \A k \in DOMAIN s : s[k] \in Usable(in_ijw, in_ub)
    BY <1>1 DEF ToSet
  <1>3. \A e \in Usable(in_ijw, in_ub) : w[e] = Total(in_ijw, e) /\ w[e] \in Nat
    BY <1>1, Arguments, UsableFacts
  <1>4. Usable(in_ijw, in_ub) \in SUBSET Edge
    BY Arguments, UsableFacts
  <1> HIDE DEF w, s
  <1>5. Weighed(s, w)
    BY <1>1, <1>2, <1>3 DEF Weighed
  <1>6. bmatch_wgt = Weight(B, w) /\ bmatch_wgt \in Nat
    BY <1>1, <1>5, OnceWeight, WeighedList
  <1>7. WeightIn(in_ijw, B) = SumFunctionOnSet(g, B)
    BY DEF WeightIn, SumFunction
  <1>8. \A e \in B : g[e] = w[e]
    BY <1>1, <1>3
  <1>9. IsFiniteSet(B)
    BY <1>1, <1>4, EdgesFinite
  <1> HIDE DEF B, g
  <1>10. SumFunctionOnSet(g, B) = SumFunctionOnSet(w, B)
    BY <1>8, <1>9, SumSame
  <1>11. QED
    BY <1>6, <1>7, <1>10, WeightIsSum DEF B, w, s

\* A b-matching of the problem a caller has survives the normalisation: it has
\* no edge at a node without capacity, and no degree above that of the graph.
LEMMA NothingIsLost ==
  ASSUME DegUnit = 1, NEW s \in Seq(Entry), NEW ub \in [Node -> Nat],
         NEW B \in SUBSET Edge, \A e \in B : Total(s, e) # 0,
         \A x \in Node : Degree(B, x) <= ub[x]
  PROVE  IsBMatching(B, Usable(s, ub), Clamp(ub, Usable(s, ub)))
  <1> DEFINE E == Usable(s, ub)
  <1>1. /\ E \in SUBSET Edge
        /\ \A x \in Node : Degree(B, x) <= ub[x] /\ Degree(B, x) \in Nat /\ ub[x] \in Nat
    BY DegreeFacts, UsableFacts
  <1>2. \A e \in B : ub[e[1]] > 0 /\ ub[e[2]] > 0
    <2> TAKE e \in B
    <2>1. e[1] \in Node /\ e[2] \in Node
      BY DEF Edge
    <2>2. IncidentTo(e, e[1]) /\ IncidentTo(e, e[2])
      BY DEF IncidentTo
    <2>3. Degree(B, e[1]) # 0 /\ Degree(B, e[2]) # 0
      BY <2>2, DegreeFacts
    <2> DEFINE x == e[1]
               y == e[2]
    <2>4. /\ Degree(B, x) <= ub[x] /\ Degree(B, x) \in Nat /\ ub[x] \in Nat
          /\ Degree(B, y) <= ub[y] /\ Degree(B, y) \in Nat /\ ub[y] \in Nat
      BY <1>1, <2>1
    <2>5. QED
      BY <2>3, <2>4
  <1>3. B \in SUBSET E
    BY <1>2 DEF Usable
  <1>4. ASSUME NEW x \in Node
        PROVE  Degree(B, x) <= Clamp(ub, E)[x]
    <2>1. Degree(B, x) <= Degree(E, x) /\ Degree(E, x) \in Nat
      BY <1>1, <1>3, DegreeFacts
    <2>2. Clamp(ub, E)[x] = IF ub[x] < 0 THEN 0
                            ELSE IF ub[x] <= Degree(E, x) THEN ub[x] ELSE Degree(E, x)
      <3>1. ub \in [Node -> Int]
        OBVIOUS
      <3>2. QED
        BY <1>1, <3>1, ClampIs
    <2>3. QED
      BY <1>1, <2>1, <2>2
  <1>5. QED
    BY <1>3, <1>4 DEF IsBMatching

\* So the best that can be done in the usable graph is the best there is.
LEMMA BestIsUsable ==
  ASSUME DegUnit = 1, NEW s \in Seq(Entry), NEW ub \in [Node -> Nat],
         \A e \in Usable(s, ub) : Total(s, e) > 0,
         NEW A \in SUBSET Edge, NEW v, \A e \in A : Total(s, e) > 0 /\ v[e] = Total(s, e),
         NEW c, \A x \in Node : c[x] = ub[x], c \in [Node -> Nat]
  PROVE  LET E == Usable(s, ub)
         IN  /\ BestWeight(A, v, c) <= BestWeight(E, UsableGraph(s, ub), Clamp(ub, E))
             /\ BestWeight(A, v, c) \in Nat
             /\ BestWeight(E, UsableGraph(s, ub), Clamp(ub, E)) \in Nat
  <1> DEFINE E == Usable(s, ub)
             w == UsableGraph(s, ub)
             b == Clamp(ub, E)
  <1>1. \A e \in Edge : Total(s, e) > 0 => Total(s, e) \in Nat
    <2>1. \A e \in Edge : Total(s, e) \in Int
      BY TotalFacts
    <2>2. QED
      BY <2>1
  <1>2. E \in SUBSET Edge /\ \A e \in E : w[e] \in Nat /\ w[e] = Total(s, e)
    BY <1>1, UsableFacts
  <1>3. b \in [Node -> Nat]
    <2>1. ub \in [Node -> Int]
      OBVIOUS
    <2>2. \A x \in Node : b[x] \in Nat
      BY <1>2, <2>1, ClampIs
    <2>3. b = [x \in Node |-> b[x]]
      BY DEF Clamp
    <2>4. QED
      BY <2>2, <2>3
  <1>4. \A e \in A : v[e] \in Nat
    BY <1>1
  <1>5. PICK B \in SUBSET A : IsBMatching(B, A, c) /\ Weight(B, v) = BestWeight(A, v, c)
    BY <1>4, BestIsBest
  <1>6. IsBMatching(B, E, b)
    <2>1. \A e \in B : Total(s, e) # 0
      BY <1>1
    <2>2. \A x \in Node : Degree(B, x) <= ub[x]
      BY <1>5 DEF IsBMatching
    <2>3. B \in SUBSET Edge
      OBVIOUS
    <2>4. QED
      BY <2>1, <2>2, <2>3, NothingIsLost
  <1>7. B \in SUBSET E /\ IsFiniteSet(B)
    <2>1. B \in SUBSET E
      BY <1>6 DEF IsBMatching
    <2>2. QED
      BY <1>2, <2>1, EdgesFinite
  <1> HIDE DEF E, w, b
  <1>8. Weight(B, w) <= BestWeight(E, w, b) /\ BestWeight(E, w, b) \in Nat
    BY <1>2, <1>3, <1>6, <1>7, BestIsBest
  <1>9. Weight(B, w) = Weight(B, v)
    <2>1. \A e \in B : w[e] = v[e]
      BY <1>2, <1>7
    <2>2. QED
      BY <1>7, <2>1, SumSame, WeightIsSum
  <1>10. BestWeight(A, v, c) \in Nat
    BY <1>4, BestIsBest
  <1>11. QED
    BY <1>5, <1>8, <1>9, <1>10 DEF E, w, b

\* The answer weighs at least half of the best b-matching of the problem as
\* the caller put it.
THEOREM HalfOfAsked ==
  ASSUME IntegralBounds
  PROVE  Spec => []HalfOfWhatWasAsked
  <1> USE DEF IntegralBounds
  <1>1. CallInv => HalfOfWhatWasAsked
    <2> SUFFICES ASSUME CallInv, stage = "returned", success = 1
                 PROVE  2 * bmatch_wgt >= BestWeight(AskedEdges, AskedWeights, AskedBounds)
      BY DEF HalfOfWhatWasAsked
    <2> DEFINE E == Usable(in_ijw, in_ub)
               w == UsableGraph(in_ijw, in_ub)
               c == Clamp(in_ub, E)
    <2>1. ~ HasNegativeWeight(in_ijw) /\ BestWeight(E, w, c) <= 2 * bmatch_wgt
      BY AnswerShape DEF CallAnswer
    <2>2. \A e \in E : Total(in_ijw, e) > 0
      BY <2>1, Arguments, UsableFacts
    <2>3. /\ AskedEdges \in SUBSET Edge /\ AskedBounds \in [Node -> Nat]
          /\ \A e \in AskedEdges : Total(in_ijw, e) > 0 /\ AskedWeights[e] = Total(in_ijw, e)
          /\ \A x \in Node : AskedBounds[x] = in_ub[x]
      BY UsableIsAsked, AskedIsTotal DEF AskedEdges
    <2>4. /\ BestWeight(AskedEdges, AskedWeights, AskedBounds) <= BestWeight(E, w, c)
          /\ BestWeight(AskedEdges, AskedWeights, AskedBounds) \in Nat
          /\ BestWeight(E, w, c) \in Nat
      BY <2>2, <2>3, Arguments, BestIsUsable
    <2>5. bmatch_wgt \in Nat
      BY AnswerWeighs
    <2> HIDE DEF E, w, c
    <2>6. QED
      BY <2>1, <2>4, <2>5
  <1>2. QED
    BY <1>1, CallInvHolds, PTL

\* The call keeps the contract the front ends rely on: it rejects only what
\* has a negative entry or a crossed pair of bounds, and leaves nothing behind
\* when it does; any other call is answered by a b-matching and its weight.
THEOREM ContractIsKept ==
  ASSUME IntegralBounds
  PROVE  Spec => []GreedyKeepsContract
  <1> USE DEF IntegralBounds
  <1>1. CallInv => GreedyKeepsContract
    <2> DEFINE r == [success |-> success, edges |-> ToSet(bmatch_edge_vec),
                     wgt |-> bmatch_wgt, gptr |-> "none"]
    <2> SUFFICES ASSUME CallInv, stage = "returned"
                 PROVE  Contract(3, NumNode, in_ijw, in_lb, in_ub, r)
      BY DEF GreedyKeepsContract
    <2>1. /\ r.success = success /\ r.edges = ToSet(bmatch_edge_vec)
          /\ r.wgt = bmatch_wgt /\ r.gptr = "none"
      OBVIOUS
    <2> HIDE DEF r
    <2>2. CASE success = 0
      <3>1. Rejection
        BY <2>2, AnswerShape
      <3>2. r.edges = {} /\ r.success = 0 /\ r.wgt = Unset
        BY <2>1, <3>1 DEF Rejection, ToSet
      <3>3. GreedyContract(3, in_ijw, in_lb, in_ub, r)
        BY <2>1, <3>1, <3>2 DEF GreedyContract, Rejected, Rejection
      <3>4. QED
        BY <3>3 DEF Contract
    <2>3. CASE success = 1
      <3>1. ~ HasNegativeWeight(in_ijw)
        BY <2>3, AnswerShape DEF CallAnswer
      <3>2. IsBMatching(r.edges, Usable(in_ijw, in_ub), in_ub)
        BY <2>1, AnswerShape
      <3>3. r.wgt = WeightIn(in_ijw, r.edges)
        BY <2>1, <2>3, AnswerWeighs
      <3>4. \A e \in Usable(in_ijw, in_ub) : Total(in_ijw, e) > 0
        BY <3>1, Arguments, UsableFacts
      <3>5. GreedyContract(3, in_ijw, in_lb, in_ub, r)
        BY <2>1, <2>3, <3>1, <3>2, <3>3, <3>4 DEF GreedyContract
      <3>6. QED
        BY <3>5 DEF Contract
    <2>4. success = 0 \/ success = 1
      BY AnswerShape
    <2>5. QED
      BY <2>2, <2>3, <2>4
  <1>2. QED
    BY <1>1, CallInvHolds, PTL

\* Normalising a list that is normalised already changes nothing, and its
\* matrix is symmetric: svecvec_2_ijw and ijw_upper_tri are applied again by
\* every nested call.  This asks nothing of the bounds.
THEOREM NormalisingIsStable == Spec => []NormalFormIsStable
  <1>1. Init => in_ijw \in Seq(Entry)
    BY CallAssumption DEF Init, Entry
  <1>2. in_ijw \in Seq(Entry) /\ [Next]_svars => (in_ijw \in Seq(Entry))'
    BY DEF Next, Call, Returned, RejectWeights, RemoveEdges, RejectBounds, Reject,
           InitSolver, Solve, Return, svars, args
  <1>3. in_ijw \in Seq(Entry) => NormalFormIsStable
    <2> SUFFICES ASSUME in_ijw \in Seq(Entry) PROVE NormalFormIsStable
      OBVIOUS
    <2> DEFINE t == Normalised(in_ijw)
               m == ijw_2_svecvec_symm(t)
    <2>1. InNormalForm(t)
      BY NormalisedForm DEF Normalised
    <2>2. \A k, l \in DOMAIN t : k < l => Before(t[k], t[l])
      BY <2>1 DEF InNormalForm, Sorted
    <2>3. Normalised(t) = t /\ \A p \in DOMAIN m : At(m, <<p[2], p[1]>>) = m[p]
      <3> HIDE DEF t
      <3>1. QED
        BY <2>1, NormalFormStays DEF Normalised
    <2>4. QED
      BY <2>2, <2>3 DEF NormalFormIsStable
  <1>4. QED
    BY <1>1, <1>2, <1>3, PTL DEF Spec
=============================================================================
