---------------------------- MODULE GreedyApprox ----------------------------
(****************************************************************************)
(* class GreedyApproxBmatch (greedyapprox.cpp): a path-growing greedy        *)
(* b-matching.  Starting from the first node with capacity and edges left,   *)
(* a walk repeatedly leaves the current node by its heaviest remaining edge; *)
(* each visit of a node costs it one unit of capacity, and a node without    *)
(* capacity loses its remaining edges.  The finished walk is split into its  *)
(* odd and even edges, and the heavier half joins the matching.              *)
(*                                                                           *)
(* One action is one pass through the code between two loop heads of solve().*)
(****************************************************************************)
EXTENDS BMatching, SequencesExt

CONSTANTS
    EdgeSets,     \* the sets of edges an input graph may have
    Weights,      \* the weights an input edge may have
    Bounds,       \* the upper bounds a node may have, in units of 1/DegUnit
    DegUnit       \* a degree bound b stands for the double b/DegUnit

ASSUME InputAssumption ==
    /\ EdgeSets \subseteq SUBSET Edge
    /\ Weights \subseteq Nat \ {0}
    /\ Bounds \subseteq Nat
    /\ DegUnit \in Nat \ {0}

VARIABLES
    ijw,          \* input: a function from the edges of the graph to their weights
    deg_bdd,      \* input: upper bound of every node, in units of 1/DegUnit
    Amat,         \* remaining neighbours of every node
    deg_vec,      \* remaining degree of every node
    bcap_vec,     \* remaining capacity of every node
    M_walk,       \* edges of the current walk
    B_match,      \* edges of the b-matching
    u,            \* the node the walk is at
    pc            \* "pick" a start, "walk", "append" half of the walk, "done"

graph == <<ijw, deg_bdd>>
vars == <<ijw, deg_bdd, Amat, deg_vec, bcap_vec, M_walk, B_match, u, pc>>

(****************************************************************************)
(* init()                                                                    *)
(****************************************************************************)
\* Amat after logical_svecvec: both directions of every edge.
Neighbours(w) == [x \in Node |-> {y \in Node : EdgeOf(x, y) \in DOMAIN w}]

\* deg_vec, counted over the edge list.
InputDegree(w) == [x \in Node |-> Degree(DOMAIN w, x)]

\* bcap_vec: int() of the upper bounds.
Capacity(bdd) == [x \in Node |-> bdd[x] \div DegUnit]

\* Weight of the edge between x and y (the symmetric matrix Wmat).
Wmat(x, y) == ijw[EdgeOf(x, y)]

\* What BmatchSolver::solve_bmatching_problem hands to init(): bounds clamped
\* to the degree, and no edge at a node whose bound is zero.
IsClamped(w, bdd) ==
    \A x \in Node :
        /\ bdd[x] <= DegUnit * InputDegree(w)[x]
        /\ Neighbours(w)[x] # {} => bdd[x] >= DegUnit

Init ==
    /\ ijw \in UNION {[E -> Weights] : E \in EdgeSets}
    /\ deg_bdd \in [Node -> Bounds]
    /\ IsClamped(ijw, deg_bdd)
    /\ Amat = Neighbours(ijw)
    /\ deg_vec = InputDegree(ijw)
    /\ bcap_vec = Capacity(deg_bdd)
    /\ M_walk = <<>>
    /\ B_match = <<>>
    /\ u = NumNode
    /\ pc = "pick"

(****************************************************************************)
(* solve(): picking the start of a walk                                      *)
(****************************************************************************)
Startable == {x \in Node : bcap_vec[x] > 0 /\ deg_vec[x] > 0}

\* Mutant of PickNode: the previous walk is not cleared.
PickWithoutClear ==
    /\ pc = "pick"
    /\ Startable # {}
    /\ u' = Min(Startable)
    /\ pc' = "walk"
    /\ UNCHANGED <<graph, Amat, deg_vec, bcap_vec, M_walk, B_match>>

PickNode ==
    /\ pc = "pick"
    /\ Startable # {}
    /\ u' = Min(Startable)
    /\ M_walk' = <<>>
    /\ pc' = "walk"
    /\ UNCHANGED <<graph, Amat, deg_vec, bcap_vec, B_match>>

\* u is left at num_node, the end of the search.
Finish ==
    /\ pc = "pick"
    /\ Startable = {}
    /\ u' = NumNode
    /\ pc' = "done"
    /\ UNCHANGED <<graph, Amat, deg_vec, bcap_vec, M_walk, B_match>>

(****************************************************************************)
(* solve(): one visit of the walk at u                                       *)
(****************************************************************************)
\* Mutant of Exhausted: the capacity is tested before the visit is charged.
ExhaustedLate == bcap_vec[u] = 0

\* This visit uses the last unit of u's capacity.
Exhausted == bcap_vec[u] - 1 = 0

\* Mutant of LoopCut: a self-loop may be taken with the last unit.
LoopKept == FALSE

\* A self-loop needs two units: it goes with the last one.
LoopCut == Exhausted /\ u \in Amat[u]

NbrsAtVisit == IF LoopCut THEN Amat[u] \ {u} ELSE Amat[u]

DegAtVisit == IF LoopCut THEN Max({0, deg_vec[u] - 2}) ELSE deg_vec[u]

\* Mutant of Heaviest: the first neighbour, whatever its weight.
FirstNeighbour(S) == Min(S)

\* The heaviest neighbour, the first one among equals.
Heaviest(S) ==
    CHOOSE v \in S : \A y \in S :
        \/ Wmat(u, v) > Wmat(u, y)
        \/ Wmat(u, v) = Wmat(u, y) /\ v <= y

\* Mutant of Dropped: an exhausted node keeps its other edges.
DroppedOne(v) == {v}

\* The neighbours u is cut off from when the walk leaves for v.
Dropped(v) == IF Exhausted THEN NbrsAtVisit ELSE {v}

\* Mutant of DegLeft: leaving by a self-loop counts once.
DegLeftByOne(v) == IF Exhausted THEN 0 ELSE DegAtVisit - 1

\* deg_vec[u] after the step to v: one for leaving, one more when v is u.
DegLeft(v) == IF Exhausted THEN 0 ELSE DegAtVisit - (IF v = u THEN 2 ELSE 1)

\* Mutant of WalkStop: a visit that leads nowhere is not charged.
WalkStopUncharged ==
    /\ pc = "walk"
    /\ DegAtVisit = 0
    /\ pc' = "append"
    /\ UNCHANGED <<graph, Amat, deg_vec, bcap_vec, M_walk, B_match, u>>

WalkStop ==
    /\ pc = "walk"
    /\ DegAtVisit = 0
    /\ bcap_vec' = [bcap_vec EXCEPT ![u] = @ - 1]
    /\ Amat' = [Amat EXCEPT ![u] = NbrsAtVisit]
    /\ deg_vec' = [deg_vec EXCEPT ![u] = DegAtVisit]
    /\ pc' = "append"
    /\ UNCHANGED <<graph, M_walk, B_match, u>>

WalkStep ==
    /\ pc = "walk"
    /\ DegAtVisit # 0
    /\ LET v == Heaviest(NbrsAtVisit)
       IN  /\ bcap_vec' = [bcap_vec EXCEPT ![u] = @ - 1]
           /\ Amat' = [x \in Node |-> IF x = u THEN NbrsAtVisit \ Dropped(v)
                                      ELSE IF x \in Dropped(v) THEN Amat[x] \ {u}
                                      ELSE Amat[x]]
           /\ deg_vec' = [x \in Node |-> IF x = u THEN DegLeft(v)
                                         ELSE IF x \in Dropped(v) THEN deg_vec[x] - 1
                                         ELSE deg_vec[x]]
           /\ M_walk' = Append(M_walk, EdgeOf(u, v))
           /\ u' = v
    /\ UNCHANGED <<graph, B_match, pc>>

(****************************************************************************)
(* solve(): appending the heavier half of the walk                           *)
(****************************************************************************)
\* Mutant of Half: the stride of two is lost.
EveryEdge(s, start) == SubSeq(s, start, Len(s))

\* Every second edge of s, from position start.
Half(s, start) == [k \in 1 .. ((Len(s) + 2 - start) \div 2) |-> s[2 * k - 2 + start]]

\* Mutant of HeavyHalf: the first half, whatever it weighs.
FirstHalf(s) == Half(s, 1)

HeavyHalf(s) ==
    IF ListWeight(Half(s, 1), ijw) >= ListWeight(Half(s, 2), ijw) THEN Half(s, 1) ELSE Half(s, 2)

\* Mutant of AppendHalf: the half replaces the matching.
AssignHalf ==
    /\ pc = "append"
    /\ B_match' = IF Len(M_walk) > 0 THEN HeavyHalf(M_walk) ELSE B_match
    /\ pc' = "pick"
    /\ UNCHANGED <<graph, Amat, deg_vec, bcap_vec, M_walk, u>>

AppendHalf ==
    /\ pc = "append"
    /\ B_match' = IF Len(M_walk) > 0 THEN B_match \o HeavyHalf(M_walk) ELSE B_match
    /\ pc' = "pick"
    /\ UNCHANGED <<graph, Amat, deg_vec, bcap_vec, M_walk, u>>

-----------------------------------------------------------------------------
Walk == WalkStop \/ WalkStep

Solve == PickNode \/ Finish \/ Walk \/ AppendHalf

Terminated == pc = "done" /\ UNCHANGED vars

Next == Solve \/ Terminated

\* solve() runs alone in its process and never blocks.
Spec == Init /\ [][Next]_vars /\ WF_vars(Solve)
-----------------------------------------------------------------------------
TypeOK ==
    /\ DOMAIN ijw \subseteq Edge /\ ijw \in [DOMAIN ijw -> Nat \ {0}]
    /\ deg_bdd \in [Node -> Nat]
    /\ Amat \in [Node -> SUBSET Node]
    /\ deg_vec \in [Node -> Nat]
    /\ bcap_vec \in [Node -> Nat]
    /\ M_walk \in Seq(Edge)
    /\ B_match \in Seq(Edge)
    /\ u \in 0 .. NumNode
    /\ pc \in {"pick", "walk", "append", "done"}
    /\ pc = "walk" => u \in Node

\* The self-check of solve() (the one that prints -XXX-), for every node and
\* at every loop head: the separately maintained degrees are the degrees of
\* the remaining graph, whose two directions agree.
DegreesMatchGraph ==
    \A x \in Node :
        /\ deg_vec[x] = Cardinality(Amat[x]) + (IF x \in Amat[x] THEN 1 ELSE 0)
        /\ \A y \in Amat[x] : x \in Amat[y]

\* A node keeps edges only while it has capacity, and the walk only arrives
\* at a node with capacity: the visit of u never drives bcap_vec[u] negative.
EdgesNeedCapacity ==
    /\ \A x \in Node : Amat[x] # {} => bcap_vec[x] > 0
    /\ pc = "walk" => bcap_vec[u] > 0

\* No edge is used twice: not by the matching, not by the walk, and none that
\* either has used is still in the graph.
EdgesUsedOnce ==
    /\ NoDuplicate(B_match)
    /\ NoDuplicate(M_walk)
    /\ pc \in {"walk", "append"} => ToSet(B_match) \cap ToSet(M_walk) = {}
    /\ \A e \in ToSet(B_match) \cup ToSet(M_walk) : e[2] \notin Amat[e[1]]

\* The b-matching respects the upper bounds, at every moment.
DegreeBound == \A x \in Node : ListDegree(B_match, x) <= Capacity(deg_bdd)[x]

\* The capacity a node has used up pays for the edges at it, in the matching
\* together with either half of the walk; the visit of the node the walk has
\* arrived at is still to be paid.  Why DegreeBound holds.
WalkHeadInHalf(h) == Len(M_walk) > 0 /\ Len(M_walk) % 2 = h % 2
VisitsPayForEdges ==
    \A x \in Node : LET used == Capacity(deg_bdd)[x] - bcap_vec[x] IN
        /\ ListDegree(B_match, x) <= used
        /\ pc \in {"walk", "append"} =>
             \A h \in 1 .. 2 : 
                ListDegree(B_match, x) + ListDegree(Half(M_walk, h), x)
                    <= used + (IF pc = "walk" /\ x = u /\ WalkHeadInHalf(h) THEN 1 ELSE 0)

Remaining == {e \in DOMAIN ijw : e[2] \in Amat[e[1]]}
BestPossible == BestWeight(DOMAIN ijw, ijw, Capacity(deg_bdd))
WalkWeight == IF pc \in {"walk", "append"} THEN ListWeight(M_walk, ijw) ELSE 0

\* Every step is charged to what it takes away: the optimum of what remains
\* (edges and capacities) never loses more than the weight the walk gains.
ChargedToWalk ==
    BestPossible <= 2 * ListWeight(B_match, ijw) + WalkWeight
                    + BestWeight(Remaining, ijw, bcap_vec)

\* An edge that has left the graph never comes back, capacity is never given
\* back, and the matching only grows.
OnlyConsumes ==
    [][/\ \A x \in Node : Amat'[x] \subseteq Amat[x] /\ bcap_vec'[x] <= bcap_vec[x]
       /\ IsPrefix(B_match, B_match')]_vars

\* The solver implements ApproxSolver: the walk and the remaining graph are
\* hidden, and the matching is the set of edges appended so far.
Abstract == INSTANCE ApproxSolver WITH
    wgt <- ijw, ub <- Capacity(deg_bdd), matching <- ToSet(B_match), done <- (pc = "done")

\* "greedy 1/2 approximation to maxwgt solution" (README).
HalfApproximation == pc = "done" => Abstract!HalfOfBest

\* Every step of solve() adds edges within the bounds or changes nothing of
\* this, and it stops only with half of the best weight.
ImplementsApproxSolver == Abstract!Spec

\* solve() returns.
Termination == <>(pc = "done")
=============================================================================
