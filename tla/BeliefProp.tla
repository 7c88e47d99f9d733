----------------------------- MODULE BeliefProp -----------------------------
(****************************************************************************)
(* BeliefPropBmatch (beliefprop.cpp, method 5): a bipartite relaxation by    *)
(* max-product belief propagation.  Every node occurs once on either side    *)
(* (alpha and beta) and chooses node_cap partners on the other; the two      *)
(* sides exchange messages until the choices of alpha have been a perfect    *)
(* b-matching CONVERGENCE_INSURANCE times, or MAX_ITER rounds have passed.   *)
(*                                                                           *)
(* The program multiplies and divides exponentials of the weights.  They are *)
(* modelled by their logarithms: integers, added and subtracted.  Choices    *)
(* between equal entries are left open, as rounding decides them there.      *)
(****************************************************************************)
EXTENDS SolverContract

CONSTANTS
    EdgeLists,      \* the edge lists a caller may pass
    UpperBounds,    \* the vectors of upper bounds a caller may pass
    Junk,           \* what a cell of W that is never written may hold
    MAX_ITER,
    CONVERGENCE_INSURANCE

ASSUME BeliefAssumption ==
    /\ EdgeLists \subseteq Seq(Node \X Node \X Int)
    /\ UpperBounds \subseteq [Node -> Nat]
    /\ Junk \subseteq Int /\ Junk # {} /\ \A w \in Junk : w > -9999
    /\ MAX_ITER \in Nat \ {0} /\ CONVERGENCE_INSURANCE \in Nat \ {0}

VARIABLES
    in_ijw, in_ub,      \* arguments: the full matrix, as a list, and the bounds
    node_cap,           \* b, the same for every node
    W,                  \* the dense weight matrix
    alpha, beta,        \* message of every node of a side to every node of the other
    P,                  \* the partners every alpha node believes in
    converged, iters,
    bmatch_edges, bmatch_wgt, success,
    phase               \* "called", "iterate" or "returned"

args == <<in_ijw, in_ub>>
state == <<node_cap, W, alpha, beta, P, converged, iters>>
outputs == <<bmatch_edges, bmatch_wgt, success>>
vars == <<args, state, outputs, phase>>

Pair == Node \X Node

Init ==
    /\ in_ijw \in {ijw_add_upper_tri_transpose(s, TRUE) : s \in EdgeLists}
    /\ in_ub \in UpperBounds
    /\ ExpectsCapacity(NumNode, in_ijw, in_ub)
    /\ node_cap = 0 /\ W = <<>> /\ alpha = <<>> /\ beta = <<>> /\ P = <<>>
    /\ converged = 0 /\ iters = 0
    /\ bmatch_edges = {} /\ bmatch_wgt = Unset /\ success = 0
    /\ phase = "called"

RejectWeights ==
    /\ phase = "called"
    /\ HasNegativeWeight(in_ijw)
    /\ phase' = "returned"
    /\ UNCHANGED <<args, state, outputs>>

\* Only the cells of listed edges are written; of a repeated edge the weight
\* listed last stays, while the weight of the answer adds all of them.
Written == {<<in_ijw[k][1], in_ijw[k][2]>> : k \in DOMAIN in_ijw}
Blank == Pair \ Written
LastListed(p) ==
    in_ijw[Max({k \in DOMAIN in_ijw : <<in_ijw[k][1], in_ijw[k][2]>> = p})][3]

Prepare ==
    /\ phase = "called"
    /\ ~ HasNegativeWeight(in_ijw)
    /\ node_cap' = NodeCap(NumNode, in_ijw, in_ub)
    /\ \E junk \in [Blank -> Junk] :
          W' = [x, y \in Node |->
                  IF <<x, y>> \in Blank THEN junk[x, y] ELSE LastListed(<<x, y>>)]
    /\ alpha' = [x \in Node |-> [y \in Node |-> 0]]
    /\ beta' = [x \in Node |-> [y \in Node |-> 0]]
    /\ converged' = CONVERGENCE_INSURANCE
    /\ iters' = 0
    /\ phase' = "iterate"
    /\ UNCHANGED <<args, P, outputs>>

-----------------------------------------------------------------------------
(****************************************************************************)
(* updateMessages() and permCheck()                                          *)
(****************************************************************************)
\* A work vector, as the set of its entries <<workvec[y], y>>.
Entries(x, phi, opposite) == {<<phi[y] + opposite[y][x], y>> : y \in Node}

\* The k-th largest value of a work vector, repetitions counted.
KthLargest(work, k) ==
    Max({e[1] : e \in {f \in work : Cardinality({g \in work : g[1] >= f[1]}) >= k}})

\* Mutant of Messages: every node gets its phi over the b-th largest.
MessagesOverBth(phi, work) == [y \in Node |-> phi[y] - KthLargest(work, node_cap)]

\* The message to y is phi[y] over the smallest of the b+1 largest entries
\* when y is among the b largest, and over the b-th largest when it is not.
Messages(phi, work) ==
    LET bth == KthLargest(work, node_cap)
        min == KthLargest(work, node_cap + 1)
        top == {e[2] : e \in {f \in work : f[1] >= bth}}
    IN  [y \in Node |-> phi[y] - (IF y \in top THEN min ELSE bth)]

\* phi at node x of either side: W[x, y] joins alpha x and beta y.
PhiAlpha(x) == [y \in Node |-> W[x, y]]
PhiBeta(x) == [y \in Node |-> W[y, x]]

UpdatedBeta == [x \in Node |-> Messages(PhiBeta(x), Entries(x, PhiBeta(x), alpha))]
UpdatedAlpha(b) == [x \in Node |-> Messages(PhiAlpha(x), Entries(x, PhiAlpha(x), b))]

\* beliefs: node_cap nodes with the largest entries.
AreBeliefs(B, work) == \A e, f \in work : e[2] \in B /\ f[2] \notin B => e[1] >= f[1]

Beliefs(b) ==
    {c \in Node \X kSubset(node_cap, Node) : AreBeliefs(c[2], Entries(c[1], PhiAlpha(c[1]), b))}

PartnerChoices == [Node -> kSubset(node_cap, Node)]

\* Mutant of permCheck: it is enough that every node is chosen.
permCheckAny(p) == \A y \in Node : \E x \in Node : y \in p[x]

\* Every node is chosen node_cap times.
permCheck(p) == \A y \in Node : Cardinality({x \in Node : y \in p[x]}) = node_cap

\* One round: all of beta, then all of alpha, then the choices of alpha.  A
\* valid choice counts down; reaching the limit gives up.
Round ==
    /\ phase = "iterate"
    /\ converged > 0
    /\ beta' = UpdatedBeta
    /\ alpha' = UpdatedAlpha(beta')
    /\ P' \in LET beliefs == Beliefs(beta')
             IN  {p \in PartnerChoices : \A x \in Node : <<x, p[x]>> \in beliefs}
    /\ iters' = iters + 1
    /\ UNCHANGED <<args, node_cap, W, outputs, phase>>

\* Mutant of Iterate: the limit is not looked at.
IterateForever == Round /\ converged' = IF permCheck(P') THEN converged - 1 ELSE converged

Iterate ==
    /\ Round
    /\ converged' = IF iters' > MAX_ITER THEN 0
                    ELSE IF permCheck(P') THEN converged - 1 ELSE converged

\* Mutant of Return: only choices of both sides are answered.
ReturnMutual ==
    /\ phase = "iterate"
    /\ converged = 0
    /\ bmatch_edges' = {p \in Pair : p[2] \in P[p[1]] /\ p[1] \in P[p[2]]}
    /\ bmatch_wgt' = WeightIn(in_ijw, bmatch_edges')
    /\ phase' = "returned"
    /\ UNCHANGED <<args, state, success>>

\* The last choices are the answer, whether or not they agree; success stays 0.
Return ==
    /\ phase = "iterate"
    /\ converged = 0
    /\ bmatch_edges' = {p \in Pair : p[2] \in P[p[1]]}
    /\ bmatch_wgt' = WeightIn(in_ijw, bmatch_edges')
    /\ phase' = "returned"
    /\ UNCHANGED <<args, state, success>>

Call == RejectWeights \/ Prepare \/ Iterate \/ Return

Returned == phase = "returned" /\ UNCHANGED vars

Next == Call \/ Returned

Spec == Init /\ [][Next]_vars
-----------------------------------------------------------------------------
\* The types, and the bound on iters.  As every round increases iters and a round
\* can always be taken, the loop "while (converged > 0)" ends with it.
BTypeOK ==
    /\ phase \in {"called", "iterate", "returned"}
    /\ node_cap \in 0 .. NumNode - 1
    /\ converged \in 0 .. CONVERGENCE_INSURANCE
    /\ iters \in 0 .. MAX_ITER + 1
    /\ bmatch_edges \subseteq Pair
    /\ bmatch_wgt \in Int

\* The perfect b-matchings of the relaxation: node_cap partners on both sides.
Perfect ==
    {p \in PartnerChoices : permCheck(p)}
RelaxedWeight(p) == MapThenSumSet(LAMBDA x : MapThenSumSet(LAMBDA y : W[x, y], p[x]), Node)
Optima ==
    LET valued == {<<RelaxedWeight(p), p>> : p \in Perfect}
        best == Max({v[1] : v \in valued})
    IN  {v[2] : v \in {u \in valued : u[1] = best}}

Leaving == phase = "iterate" /\ converged = 0
GaveUp == iters > MAX_ITER

\* When the loop is left because enough choices were valid and there is one best
\* perfect b-matching of the relaxation, the last choices are that b-matching:
\* valid choices that are not optimal do not exhaust the insurance.  This is
\* claimed for the graphs and the insurance of the run only.
FindsTheOptimum ==
    Leaving /\ ~ GaveUp /\ Cardinality(Optima) = 1 => P \in Optima

\* Where there is one best perfect b-matching, enough choices are valid before
\* the limit, and "Reached maximum iterations without converging" is not heard.
\* This too is claimed for the graphs and the limit of the run only; a second
\* best that is closer takes more rounds.
ConvergesWhenUnique ==
    Leaving /\ Cardinality(Optima) = 1 => ~ GaveUp

\* The call keeps the contract the front ends rely on: every node gets the
\* common capacity of partners, whether or not the choices ever agreed, or the
\* call was refused and has written nothing.
BeliefKeepsContract ==
    phase = "returned" =>
        Contract(5, NumNode, in_ijw, in_ub, in_ub,
                 [success |-> success, edges |-> bmatch_edges, wgt |-> bmatch_wgt, gptr |-> "none"])

\* "Edges with zero-weight (Wij==0) are not allowed to partake in the matching"
\* (src/README:79), for calls in which the upper bounds can be met with equality
\* (src/README:91) by edges of the graph and the choices agreed.
AbsentEdgesStayOut ==
    /\ phase = "returned" /\ iters > 0 /\ ~ GaveUp
    /\ \E p \in Perfect : \A x \in Node : \A y \in p[x] : <<x, y>> \in Written
    => \A p \in bmatch_edges : Total(in_ijw, p) > 0
=============================================================================
