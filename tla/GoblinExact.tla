---------------------------- MODULE GoblinExact ----------------------------
(****************************************************************************)
(* The exact solvers of goblinexact.cpp: GoblinExactBmatch (method 2, a      *)
(* minimum-cost b-matching) and ComplementaryGoblinExactBmatch (method 1, a  *)
(* maximum-weight b-matching, as the complement of a minimum-cost one).      *)
(* Method 1 complements the degree bounds and calls method 2; method 2       *)
(* scales the weights and calls BmatchSolver::solve_bmatching_problem, with  *)
(* the Goblin library as its solver; each weighs the edges it returns again. *)
(*                                                                           *)
(* The library's MinCMatching is external: where some b-matching meets the   *)
(* bounds it selects one of minimum cost and succeeds, otherwise it fails    *)
(* and may leave any arcs selected.                                          *)
(****************************************************************************)
EXTENDS BmatchSolver

CONSTANTS
    Methods,        \* the methods a caller may choose: 1 and 2
    IntBits,        \* INT_MAX is 2^IntBits - 1 (31 in the program)
    MantissaBits    \* precision of a float (24 in the program)

ASSUME NumberAssumption ==
    /\ Methods \subseteq {1, 2}
    /\ MantissaBits \in Nat /\ IntBits \in Nat /\ 0 < MantissaBits /\ MantissaBits < IntBits

VARIABLES
    method,
    asked_ijw, asked_lb, asked_ub,  \* the caller's arguments
    x_ijw, x_lb, x_ub,              \* arguments of GoblinExactBmatch's call
    AAmat,                          \* method 1: the edges to complement
    total,                          \* sum0, the divisor of the scaled weights
    LB_TCap_vec, UB_TCap_vec,       \* the Goblin object: degree bounds,
    cost,                           \*   length of every arc,
    Sub,                            \*   and the arcs selected
    num_bmatch_edge,
    phase       \* "called", "goblin", "solver", "complement" or "finished"

asked == <<method, asked_ijw, asked_lb, asked_ub>>
xargs == <<x_ijw, x_lb, x_ub>>
gptr == <<LB_TCap_vec, UB_TCap_vec, cost, Sub, num_bmatch_edge>>
xvars == <<asked, xargs, AAmat, total, gptr, phase>>
allvars == <<svars, xvars>>

XInit ==
    /\ method \in Methods
    /\ asked_ijw \in EdgeLists
    /\ asked_lb \in [Node -> LowerBounds]
    /\ asked_ub \in [Node -> UpperBounds]
    /\ phase = IF method = 1 THEN "called" ELSE "goblin"
    /\ x_ijw = (IF method = 1 THEN <<>> ELSE asked_ijw)
    /\ x_lb = (IF method = 1 THEN <<>> ELSE asked_lb)
    /\ x_ub = (IF method = 1 THEN <<>> ELSE asked_ub)
    /\ AAmat = {} /\ total = 0
    /\ LB_TCap_vec = <<>> /\ UB_TCap_vec = <<>> /\ cost = <<>> /\ Sub = {} /\ num_bmatch_edge = 0
    /\ in_ijw = <<>> /\ in_lb = <<>> /\ in_ub = <<>>
    /\ stage = "idle"
    /\ success = 0 /\ bmatch_edge_vec = <<>> /\ bmatch_wgt = Unset
    /\ NoSolver

\* Mutant of PositiveEdges: the diagonal is excluded.
PositiveEdgesNoLoops(s, ub) ==
    [e \in {p \in Edge : p[1] < p[2] /\ ub[p[1]] > 0 /\ ub[p[2]] > 0 /\ Total(s, p) # 0} |-> Total(s, e)]

\* The upper triangle without the edges at nodes whose upper bound is not
\* positive (BmatchSolver drops those of bound zero only).
PositiveEdges(s, ub) ==
    [e \in {p \in Edge : ub[p[1]] > 0 /\ ub[p[2]] > 0 /\ Total(s, p) # 0} |-> Total(s, e)]

(****************************************************************************)
(* ComplementaryGoblinExactBmatch: the complementary bounds                  *)
(****************************************************************************)
\* The bounds of what may be kept: UB clamped to the degree, LB to UB.
KeptUpper(E) == Clamp(asked_ub, E)

\* Mutant of KeptLower: LB is clamped to the degree only.
KeptLowerToDegree(E) == Clamp(asked_lb, E)

KeptLower(E) == [x \in Node |-> Max({0, Min({asked_lb[x], KeptUpper(E)[x]})})]

\* What must be left out at a node: its degree less what may be kept.
ComplementBounds ==
    /\ phase = "called"
    /\ LET w == PositiveEdges(asked_ijw, asked_ub)
           E == DOMAIN w
       IN  /\ AAmat' = E
           /\ x_ijw' = svecvec_2_ijw(w)
           /\ x_lb' = [x \in Node |-> DegUnit * Degree(E, x) - KeptUpper(E)[x]]
           /\ x_ub' = [x \in Node |-> DegUnit * Degree(E, x) - KeptLower(E)[x]]
    /\ phase' = "goblin"
    /\ UNCHANGED <<svars, asked, total, gptr>>

(****************************************************************************)
(* GoblinExactBmatch: scaling the weights                                    *)
(****************************************************************************)
\* scale_weight3 divides by the sum of the weights and multiplies by INT_MAX.
\* The quotient is kept as numerator and divisor; its sign is in the numerator.
ScaleWeights ==
    /\ phase = "goblin"
    /\ LET s == svecvec_2_ijw(PositiveEdges(x_ijw, x_ub))
           sum0 == SumFunction(Listed(s))
       IN  /\ in_ijw' = [k \in DOMAIN s |-> <<s[k][1], s[k][2], IF sum0 < 0 THEN -s[k][3] ELSE s[k][3]>>]
           /\ total' = IF sum0 < 0 THEN -sum0 ELSE sum0
    /\ in_lb' = x_lb
    /\ in_ub' = x_ub
    /\ stage' = "called"
    /\ phase' = "solver"
    /\ UNCHANGED <<outputs, solver, asked, xargs, AAmat, gptr>>

(****************************************************************************)
(* BmatchSolver, with init(), solve() and solution() of GoblinExactBmatch    *)
(****************************************************************************)
IntMax == 2 ^ IntBits - 1

\* float(n): the nearest multiple of the unit in the last place, ties to even.
Ulp(n) == Min({2 ^ k : k \in {j \in 0 .. IntBits : n < 2 ^ (j + MantissaBits)}})
RoundToFloat(n) ==
    LET q == Ulp(n)
        lo == n \div q
        rest == n - q * lo
    IN  IF 2 * rest < q \/ (2 * rest = q /\ lo % 2 = 0) THEN q * lo ELSE q * (lo + 1)

\* int(float(floor(w))) of a scaled weight w: a float beyond INT_MAX converts
\* to whatever the processor makes of it.
Costs(w) ==
    LET f == RoundToFloat((w * IntMax) \div total)
    IN  IF f > IntMax THEN {-(IntMax + 1), IntMax} ELSE {f}

InitGoblin ==
    /\ stage = "pruned"
    /\ ~ BoundsCross
    /\ stage' = "solving"
    /\ LB_TCap_vec' = [x \in Node |-> ClampedLower[x] \div DegUnit]
    /\ UB_TCap_vec' = [x \in Node |-> ClampedUpper[x] \div DegUnit]
    /\ cost' \in {c \in [DOMAIN ijw -> UNION {Costs(ijw[e]) : e \in DOMAIN ijw}] :
                    \A e \in DOMAIN ijw : c[e] \in Costs(ijw[e])}
    /\ Sub' = {}
    /\ UNCHANGED <<args, outputs, solver, num_bmatch_edge>>

WithinBounds(B, lb, ub) == \A x \in Node : Degree(B, x) \in lb[x] .. ub[x]
Perfect(E, lb, ub) == {B \in SUBSET E : WithinBounds(B, lb, ub)}

MinCMatchingFound ==
    /\ stage = "solving"
    /\ LET P == Perfect(DOMAIN ijw, LB_TCap_vec, UB_TCap_vec)
       IN  /\ P # {}
           /\ Sub' \in {B \in P : \A C \in P : Weight(B, cost) <= Weight(C, cost)}
    /\ num_bmatch_edge' = Cardinality(Sub')
    /\ stage' = "solved"
    /\ UNCHANGED <<args, outputs, solver, LB_TCap_vec, UB_TCap_vec, cost>>

MinCMatchingFailed ==
    /\ stage = "solving"
    /\ Perfect(DOMAIN ijw, LB_TCap_vec, UB_TCap_vec) = {}
    /\ Sub' \in SUBSET DOMAIN ijw
    /\ num_bmatch_edge' = -1
    /\ stage' = "solved"
    /\ UNCHANGED <<args, outputs, solver, LB_TCap_vec, UB_TCap_vec, cost>>

\* Mutant of EdgeVec: the backward arcs are copied.
BackwardEdgeVec(B) == EdgesOf(ijw_transpose(svecvec_2_ijw([e \in B |-> 1])))

EdgeVec(B) == EdgesOf(svecvec_2_ijw([e \in B |-> 1]))

\* The selected arcs are copied also after a failure.
ReturnGoblin ==
    /\ stage = "solved"
    /\ stage' = "returned"
    /\ success' = IF num_bmatch_edge < 0 THEN 0 ELSE 1
    /\ bmatch_edge_vec' = EdgeVec(Sub)
    /\ num_bmatch_edge' = Cardinality(Sub)
    /\ bmatch_wgt' = Weight(Sub, ijw)
    /\ UNCHANGED <<args, solver, LB_TCap_vec, UB_TCap_vec, cost, Sub>>

Reset == num_bmatch_edge' = 0 /\ UNCHANGED <<LB_TCap_vec, UB_TCap_vec, cost, Sub>>

SolverCall ==
    /\ phase = "solver"
    /\ \/ RejectWeights /\ Reset
       \/ RemoveEdges /\ Reset
       \/ RejectBounds /\ Reset
       \/ InitGoblin
       \/ MinCMatchingFound
       \/ MinCMatchingFailed
       \/ ReturnGoblin
    /\ UNCHANGED <<asked, xargs, AAmat, total, phase>>

(****************************************************************************)
(* Weighing and complementing the answer, whether or not the call succeeded  *)
(****************************************************************************)
Reweigh ==
    /\ phase = "solver"
    /\ stage = "returned"
    /\ bmatch_wgt' = WeightIn(x_ijw, ToSet(bmatch_edge_vec))
    /\ phase' = IF method = 1 THEN "complement" ELSE "finished"
    /\ UNCHANGED <<args, stage, success, bmatch_edge_vec, solver, asked, xargs, AAmat, total, gptr>>

Complement ==
    /\ phase = "complement"
    /\ LET kept == AAmat \ ToSet(bmatch_edge_vec)
       IN  /\ bmatch_edge_vec' = EdgeVec(kept)
           /\ num_bmatch_edge' = Cardinality(kept)
           /\ bmatch_wgt' = WeightIn(asked_ijw, kept)
    /\ phase' = "finished"
    /\ UNCHANGED <<args, stage, success, solver, asked, xargs, AAmat, total,
                   LB_TCap_vec, UB_TCap_vec, cost, Sub>>

Exact == ComplementBounds \/ ScaleWeights \/ SolverCall \/ Reweigh \/ Complement

Finished == phase = "finished" /\ UNCHANGED allvars

XNext == Exact \/ Finished

XSpec == XInit /\ [][XNext]_allvars /\ WF_allvars(Exact)
-----------------------------------------------------------------------------
XTypeOK ==
    /\ phase \in {"called", "goblin", "solver", "complement", "finished"}
    /\ stage \in {"idle", "called", "pruned", "solving", "solved", "returned"}
    /\ success \in {0, 1}
    /\ bmatch_edge_vec \in Seq(Edge)
    /\ bmatch_wgt \in Int
    /\ Sub \subseteq Edge /\ AAmat \subseteq Edge
    /\ num_bmatch_edge \in -1 .. Cardinality(Edge)

\* The caller's problem, read off the arguments: the edges, their weights, and
\* the b-matchings that meet the bounds l_i <= sum_j Y_ij <= u_i (README).
XAskedWeight(e) ==
    SumFunctionOnSet([k \in DOMAIN asked_ijw |-> asked_ijw[k][3]],
                     {k \in DOMAIN asked_ijw : <<asked_ijw[k][1], asked_ijw[k][2]>> = e})
XAskedEdges == {e \in Edge : XAskedWeight(e) # 0}
XAskedWgt == [e \in XAskedEdges |-> XAskedWeight(e)]
MeetsBounds(B) ==
    \A x \in Node : /\ asked_lb[x] <= DegUnit * Degree(B, x)
                    /\ DegUnit * Degree(B, x) <= asked_ub[x]
Solutions == {B \in SUBSET XAskedEdges : MeetsBounds(B)}

Answer == ToSet(bmatch_edge_vec)
NoWeightNegative == \A k \in DOMAIN asked_ijw : asked_ijw[k][3] >= 0

\* "exact maxwgt solution", "exact mincost solution" (README).
IsOptimal(B) ==
    /\ B \in Solutions
    /\ \A C \in Solutions :
          IF method = 1 THEN Weight(B, XAskedWgt) >= Weight(C, XAskedWgt)
          ELSE Weight(B, XAskedWgt) <= Weight(C, XAskedWgt)

ExactAnswer ==
    phase = "finished" /\ NoWeightNegative /\ Solutions # {} =>
        /\ success = 1
        /\ NoDuplicate(bmatch_edge_vec)
        /\ IsOptimal(Answer)
        /\ bmatch_wgt = Weight(Answer, XAskedWgt)

\* What holds of the program, unless a weight is so large a part of the sum
\* that its cost leaves the range of an int: the bounds are met, and what the
\* answer loses to another solution is no more than the floor and the rounding
\* to float may have moved the costs of the edges in which the two differ.  For
\* weights that are far enough apart this is an optimal answer.
CostsFit == \A e \in DOMAIN cost : cost[e] \in 0 .. IntMax - 1

\* Twice the error of a cost: less than one for the floor, half a unit in the
\* last place for the float.
CostError == 2 + 2 ^ (IntBits - MantissaBits)
DifferIn(B, C) == (B \ C) \cup (C \ B)
Loss(B, C) == IF method = 1 THEN Weight(C, XAskedWgt) - Weight(B, XAskedWgt)
              ELSE Weight(B, XAskedWgt) - Weight(C, XAskedWgt)

OptimalUpToRounding ==
    phase = "finished" /\ NoWeightNegative /\ Solutions # {} /\ CostsFit =>
        /\ success = 1
        /\ NoDuplicate(bmatch_edge_vec)
        /\ Answer \in Solutions
        /\ bmatch_wgt = Weight(Answer, XAskedWgt)
        /\ \A C \in Solutions :
              2 * IntMax * Loss(Answer, C) <= total * CostError * Cardinality(DifferIn(Answer, C))

\* Both methods keep the contract the front ends rely on (integral bounds):
\* method 2 never returns success with an upper bound broken, although the
\* lower bounds are lowered to the degree, what is answered beside a failure
\* is weighed as well, and a call that has made no library object was rejected
\* for a negative weight or, by method 2, for crossed bounds.
ExactKeepsContract ==
    phase = "finished" =>
        Contract(method, NumNode, asked_ijw, asked_lb, asked_ub,
                 [success |-> success, edges |-> Answer, wgt |-> bmatch_wgt,
                  gptr |-> IF LB_TCap_vec = <<>> THEN "unset" ELSE "made"])

\* A maximum-weight problem is never rejected for its bounds: "if LB>UB, then
\* LB is set to UB" (goblinexact.cpp, method 1).  The two complements and the
\* two clampings of the inner calls keep the order.
ComplementNeverCrosses ==
    phase = "solver" /\ method = 1 /\ stage = "pruned" => ~ BoundsCross

-----------------------------------------------------------------------------
\* "if LB>UB, then UB is set to LB" (goblinexact.cpp, method 2): crossed
\* bounds are not a reason to reject a call whose lower bounds can be met.
CrossedBoundsAreRaised ==
    phase = "finished" /\ method = 2 /\ NoWeightNegative
        /\ (\E B \in SUBSET XAskedEdges : \A x \in Node :
               /\ asked_ub[x] > 0
               /\ asked_lb[x] <= DegUnit * Degree(B, x)
               /\ DegUnit * Degree(B, x) <= Max({asked_lb[x], asked_ub[x]}))
        => success = 1

\* "sum_j Y_ij <= u_i" (README): success means that the bounds are met.
SuccessKeepsUpperBounds ==
    phase = "finished" /\ success = 1 =>
        \A x \in Node : DegUnit * Degree(Answer, x) <= asked_ub[x]
=============================================================================
