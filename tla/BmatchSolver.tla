---------------------------- MODULE BmatchSolver ----------------------------
(****************************************************************************)
(* BmatchSolver::solve_bmatching_problem with the greedy solver as its       *)
(* init(), solve() and solution(): the call that methods 3 and 4 go through. *)
(* The edge list is checked and normalised, the bounds are clamped, the      *)
(* solver runs (GreedyApprox), and its edges are copied and weighed.         *)
(*                                                                           *)
(* Degree bounds are doubles: b stands for b/DegUnit.                        *)
(****************************************************************************)
EXTENDS SolverContract

CONSTANTS
    DegUnit,
    EdgeLists,      \* the edge lists a caller may pass
    LowerBounds,    \* the lower and upper bounds a caller may pass for a node,
    UpperBounds     \*   in units of 1/DegUnit

ASSUME CallAssumption ==
    /\ DegUnit \in Nat \ {0}
    /\ EdgeLists \subseteq Seq(Node \X Node \X Int)
    /\ LowerBounds \subseteq Int
    /\ UpperBounds \subseteq Int

VARIABLES
    in_ijw, in_lb, in_ub,       \* arguments of the call
    stage,                      \* "called", "pruned", "solving" or "returned"
    success,                    \* result of the call and its output parameters
    bmatch_edge_vec, bmatch_wgt,
    \* the state of the greedy solver
    ijw, deg_bdd, Amat, deg_vec, bcap_vec, M_walk, B_match, u, pc

args == <<in_ijw, in_lb, in_ub>>
outputs == <<success, bmatch_edge_vec, bmatch_wgt>>
solver == <<ijw, deg_bdd, Amat, deg_vec, bcap_vec, M_walk, B_match, u, pc>>
svars == <<args, stage, outputs, solver>>

Greedy == INSTANCE GreedyApprox WITH
    EdgeSets <- SUBSET Edge, Weights <- Nat \ {0}, Bounds <- Nat

(****************************************************************************)
(* Normalising the problem                                                   *)
(****************************************************************************)
\* Mutant of WithoutZeroBound: nothing is removed.
KeepAllEdges(m, ub) == m

\* A matrix without the edges at nodes whose upper bound is zero.
WithoutZeroBound(m, ub) ==
    [p \in {q \in DOMAIN m : ub[q[1]] # 0 /\ ub[q[2]] # 0} |-> m[p]]

\* Mutant of UpperEdges: the diagonal is excluded.
StrictUpperEdges(m) == [e \in {p \in DOMAIN m : p[1] < p[2] /\ m[p] # 0} |-> m[e]]

\* The upper triangle of a matrix, without the stored zeros, as the edges of
\* a graph and their weights.
UpperEdges(m) == [e \in {p \in DOMAIN m : p[1] <= p[2] /\ m[p] # 0} |-> m[e]]

Problem(m, ub) == UpperEdges(WithoutZeroBound(m, ub))

\* Mutant of Clamp: the bound is replaced by the degree.
ClampToDegree(b, E) == [x \in Node |-> DegUnit * Degree(E, x)]

\* A bound clamped to 0 .. degree.
Clamp(b, E) == [x \in Node |-> Max({0, Min({b[x], DegUnit * Degree(E, x)})})]

ClampedLower == Clamp(in_lb, DOMAIN ijw)
ClampedUpper == Clamp(in_ub, DOMAIN ijw)

\* Mutant of BoundsCross: equal bounds are rejected.
BoundsMeet == \E x \in Node : ClampedLower[x] >= ClampedUpper[x]

BoundsCross == \E x \in Node : ClampedLower[x] > ClampedUpper[x]

-----------------------------------------------------------------------------
NoSolver ==
    /\ ijw = <<>> /\ deg_bdd = <<>> /\ Amat = <<>> /\ deg_vec = <<>> /\ bcap_vec = <<>>
    /\ M_walk = <<>> /\ B_match = <<>> /\ u = NumNode /\ pc = "new"

Init ==
    /\ in_ijw \in EdgeLists
    /\ in_lb \in [Node -> LowerBounds]
    /\ in_ub \in [Node -> UpperBounds]
    /\ stage = "called"
    /\ success = 0 /\ bmatch_edge_vec = <<>> /\ bmatch_wgt = Unset
    /\ NoSolver

\* Mutant of Reject: the call is made again.
RejectAndRetry ==
    /\ stage' = "called"
    /\ success' = 0
    /\ bmatch_edge_vec' = <<>>
    /\ UNCHANGED <<args, bmatch_wgt, solver>>

\* A rejected call computes nothing: bmatch_wgt keeps what the caller had in it.
Reject ==
    /\ stage' = "returned"
    /\ success' = 0
    /\ bmatch_edge_vec' = <<>>
    /\ UNCHANGED <<args, bmatch_wgt, solver>>

RejectWeights ==
    /\ stage = "called"
    /\ HasNegativeWeight(in_ijw)
    /\ Reject

\* The output parameters are reset, and the problem loses the edges at nodes
\* whose upper bound is zero.
RemoveEdges ==
    /\ stage = "called"
    /\ ~ HasNegativeWeight(in_ijw)
    /\ stage' = "pruned"
    /\ bmatch_edge_vec' = <<>>
    /\ \E m \in {ijw_2_svecvec_symm(in_ijw)} : ijw' = Problem(m, in_ub)
    /\ UNCHANGED <<args, success, bmatch_wgt, deg_bdd, Amat, deg_vec, bcap_vec, M_walk, B_match, u, pc>>

RejectBounds ==
    /\ stage = "pruned"
    /\ BoundsCross
    /\ Reject

\* The bounds are clamped, and the solver is initialised: init().
InitSolver ==
    /\ stage = "pruned"
    /\ ~ BoundsCross
    /\ stage' = "solving"
    /\ deg_bdd' = ClampedUpper
    /\ Amat' = Greedy!Neighbours(ijw)
    /\ deg_vec' = Greedy!InputDegree(ijw)
    /\ bcap_vec' = Greedy!Capacity(ClampedUpper)
    /\ M_walk' = <<>>
    /\ B_match' = <<>>
    /\ u' = NumNode
    /\ pc' = "pick"
    /\ UNCHANGED <<args, outputs, ijw>>

Solve ==
    /\ stage = "solving"
    /\ Greedy!Solve
    /\ UNCHANGED <<args, stage, outputs>>

\* solution() and the weight of the edges it copied.
Solution == [k \in DOMAIN B_match |-> <<B_match[k][1], B_match[k][2], 1>>]
Copied == ijw_nnz(ijw_upper_tri(Solution, FALSE))

\* Mutant of EdgesOf: the ends are swapped.
EdgesSwapped(s) == [k \in DOMAIN s |-> <<s[k][2], s[k][1]>>]

EdgesOf(s) == [k \in DOMAIN s |-> <<s[k][1], s[k][2]>>]

Return ==
    /\ stage = "solving"
    /\ pc = "done"
    /\ stage' = "returned"
    /\ success' = 1
    /\ \E s \in {Copied} :
           /\ bmatch_edge_vec' = EdgesOf(s)
           /\ bmatch_wgt' = SumFunction([k \in DOMAIN s |-> ijw[EdgeOf(s[k][1], s[k][2])]])
    /\ UNCHANGED <<args, solver>>

Call == RejectWeights \/ RemoveEdges \/ RejectBounds \/ InitSolver \/ Solve \/ Return

Returned == stage = "returned" /\ UNCHANGED svars

Next == Call \/ Returned

Spec == Init /\ [][Next]_svars /\ WF_svars(Call)
-----------------------------------------------------------------------------
TypeOK ==
    /\ in_ijw \in Seq(Node \X Node \X Int)
    /\ in_lb \in [Node -> LowerBounds] /\ in_ub \in [Node -> UpperBounds]
    /\ stage \in {"called", "pruned", "solving", "returned"}
    /\ success \in {0, 1}
    /\ bmatch_edge_vec \in Seq(Edge)
    /\ bmatch_wgt \in Nat \cup {Unset}
    /\ stage = "solving" => /\ pc \in {"pick", "walk", "append", "done"}
                            /\ DOMAIN ijw \subseteq Edge

\* The caller's problem, read off the arguments and not off the solver's
\* matrices: the weight of {i,j} is the total of the entries i <= j.
AskedWeight(e) ==
    SumFunctionOnSet([k \in DOMAIN in_ijw |-> in_ijw[k][3]],
                     {k \in DOMAIN in_ijw : <<in_ijw[k][1], in_ijw[k][2]>> = e})
AskedEdges == {e \in Edge : AskedWeight(e) > 0}
AskedWeights == [e \in AskedEdges |-> AskedWeight(e)]
AskedBounds == [x \in Node |-> in_ub[x] \div DegUnit]

\* init() gets what GreedyApprox assumes of its input: positive weights,
\* integral capacities of at most the degree, no edge at a node without capacity.
SolverGetsCleanInput ==
    stage = "solving" =>
        /\ \A e \in DOMAIN ijw : ijw[e] > 0
        /\ Greedy!IsClamped(ijw, deg_bdd)

\* The answer is a b-matching of the caller's graph under the caller's
\* bounds: sum_j Y_ij <= u_i, and only edges of positive weight (README).
AnswerIsBMatching ==
    stage = "returned" =>
        /\ NoDuplicate(bmatch_edge_vec)
        /\ IsBMatching(ToSet(bmatch_edge_vec), AskedEdges, AskedBounds)

\* Every call normalises its list again, and the calls of methods 1, 2 and 4
\* are nested: normalising a second time changes nothing, no position is left
\* twice, and the matrix of a normalised list is symmetric, whatever the
\* caller's list repeats, cancels or puts below the diagonal.
Normalised(s) == ijw_upper_tri(svecvec_2_ijw(ijw_2_svecvec_symm(s)), FALSE)
NormalFormIsStable ==
    stage = "called" =>
        LET t == Normalised(in_ijw)
            m == ijw_2_svecvec_symm(t)
        IN  /\ Normalised(t) = t
            /\ \A k, l \in DOMAIN t : k < l => Before(t[k], t[l])
            /\ \A p \in DOMAIN m : At(m, <<p[2], p[1]>>) = m[p]

\* "sum_j Y_ij <= u_i" (README), with the bounds as they were given.
AnswerWithinBounds ==
    stage = "returned" =>
        \A x \in Node : DegUnit * ListDegree(bmatch_edge_vec, x) <= in_ub[x]

\* "The output weight is calculated as sum_{i<=j} Wij Yij" (README).
WeightIsThatOfAnswer ==
    stage = "returned" /\ success = 1 =>
        bmatch_wgt = SumFunction([k \in DOMAIN bmatch_edge_vec |-> AskedWeight(bmatch_edge_vec[k])])

\* Dropping edges and clamping bounds loses nothing: half of the best
\* b-matching of the problem as it was asked.
HalfOfWhatWasAsked ==
    stage = "returned" /\ success = 1 =>
        2 * bmatch_wgt >= BestWeight(AskedEdges, AskedWeights, AskedBounds)

\* The call keeps the contract the front ends rely on (integral bounds): a
\* rejection leaves nothing behind and has a reason the caller can see, a
\* negative weight or a bound pair that was crossed before any clamping.
GreedyKeepsContract ==
    stage = "returned" =>
        Contract(3, NumNode, in_ijw, in_lb, in_ub,
                 [success |-> success, edges |-> ToSet(bmatch_edge_vec),
                  wgt |-> bmatch_wgt, gptr |-> "none"])

\* "The lower bounds are ignored by methods 3-5" (README).
LowerBoundsIgnored ==
    stage = "returned" /\ ~ HasNegativeWeight(in_ijw) => success = 1

\* The call returns.
Returns == <>(stage = "returned")
=============================================================================
