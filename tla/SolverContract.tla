--------------------------- MODULE SolverContract ---------------------------
(****************************************************************************)
(* What a call of solve_bmatching_problem (AbstractBmatchSolver) may answer, *)
(* method by method, for an edge list s over the nodes 0..n-1 and integral   *)
(* bounds lb and ub.  The modules of the solvers are checked against this    *)
(* contract, and the front ends are composed with it instead of the solvers. *)
(*                                                                           *)
(* A result has the return value, the edges and the weight that were written *)
(* to the output parameters, and what has become of the library object of    *)
(* methods 1 and 2: "unset" until init() has made it, "none" in the others.  *)
(****************************************************************************)
EXTENDS Ijw, BMatching

\* bmatch_wgt when the call has not written it.
Unset == -1

HasNegativeWeight(s) == \E k \in DOMAIN s : s[k][3] < 0

Crossed(lb, ub) == \E x \in Node : lb[x] > ub[x]

\* The edges a call may use, and the weight of some of them.
Usable(s, ub) == {e \in Edge : Total(s, e) # 0 /\ ub[e[1]] > 0 /\ ub[e[2]] > 0}
WeightIn(s, B) == SumFunction([e \in B |-> Total(s, e)])

Rejected(r) == r.success = 0 /\ r.edges = {} /\ r.wgt = Unset

\* Methods 3 and 4: a b-matching and its weight.  Method 3 looks for negative
\* entries, method 4 only at what the usable edges add up to.
GreedyContract(m, s, lb, ub, r) ==
    /\ r.gptr = "none"
    /\ \/ Rejected(r) /\ (HasNegativeWeight(s) \/ Crossed(lb, ub))
       \/ /\ r.success = 1
          /\ m = 3 => ~ HasNegativeWeight(s)
          /\ \A e \in Usable(s, ub) : Total(s, e) > 0
          /\ IsBMatching(r.edges, Usable(s, ub), ub)
          /\ r.wgt = WeightIn(s, r.edges)

\* Methods 1 and 2 weigh what they answer also when they fail, and method 1
\* then answers the complement of what it was given.  Success promises the
\* upper bounds for method 2 only.
ExactContract(m, s, lb, ub, r) ==
    /\ r.edges \subseteq Usable(s, ub)
    /\ r.wgt = WeightIn(s, r.edges)
    /\ \/ /\ r.gptr = "unset" /\ r.success = 0
          /\ HasNegativeWeight(s) \/ (m = 2 /\ Crossed(lb, ub))
          /\ r.edges = IF m = 1 THEN Usable(s, ub) ELSE {}
       \/ /\ r.gptr = "made"
          /\ m = 2 /\ r.success = 1 => IsBMatching(r.edges, Usable(s, ub), ub)

\* The common capacity of method 5: int(max(0, min(cap, .))) over the upper
\* bounds and the row degrees of the list, from the number of nodes down.
RowDegree(s, x) == Cardinality({k \in DOMAIN s : s[k][1] = x})
NodeCap(n, s, ub) == Min({n} \cup {Min({ub[x], RowDegree(s, x)}) : x \in 0 .. n - 1})

\* "expecting b<n" (beliefprop.cpp); a capacity of 0 is not expected either.
ExpectsCapacity(n, s, ub) == NodeCap(n, s, ub) \in 1 .. n - 1

\* Method 5: NodeCap partners for every node, chosen by the node alone.
BeliefContract(n, s, ub, r) ==
    /\ r.gptr = "none"
    /\ IF HasNegativeWeight(s) THEN Rejected(r)
       ELSE /\ r.success = 0
            /\ r.edges \subseteq (0 .. n - 1) \X (0 .. n - 1)
            /\ \A x \in 0 .. n - 1 : Cardinality({e \in r.edges : e[1] = x}) = NodeCap(n, s, ub)
            /\ r.wgt = WeightIn(s, r.edges)

Contract(m, n, s, lb, ub, r) ==
    /\ m \in {1, 2} => ExactContract(m, s, lb, ub, r)
    /\ m \in {3, 4} => GreedyContract(m, s, lb, ub, r)
    /\ m = 5 => BeliefContract(n, s, ub, r)
=============================================================================
