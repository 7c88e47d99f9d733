------------------------------ MODULE BMatching ------------------------------
(****************************************************************************)
(* The b-matching problem: an undirected graph over nodes 0..NumNode-1 whose *)
(* edges (i,j), i <= j, carry positive weights, and an upper bound on the    *)
(* degree of every node.  A self-loop counts twice in the degree of its node *)
(* A b-matching is a subgraph that respects the bounds.                      *)
(*                                                                           *)
(* The module holds only constant-level definitions: what the solvers and    *)
(* their abstract specification are stated in.  Weights are naturals: the    *)
(* program's doubles are only added and compared.                            *)
(****************************************************************************)
EXTENDS Integers, Sequences, FiniteSets, FiniteSetsExt, Functions

CONSTANT NumNode        \* num_node

ASSUME NumNodeAssumption == NumNode \in Nat \ {0}

Node == 0 .. NumNode - 1

Edge == {e \in Node \X Node : e[1] <= e[2]}

\* The edge between x and y, written with its smaller end first.
EdgeOf(x, y) == IF x <= y THEN <<x, y>> ELSE <<y, x>>

\* Degree of x in the subgraph with edge set B; a self-loop counts twice.
Degree(B, x) == Cardinality({e \in B : e[1] = x}) + Cardinality({e \in B : e[2] = x})

\* The same for a list of edges, every occurrence counted.
ListDegree(s, x) ==
    Cardinality({k \in DOMAIN s : s[k][1] = x}) + Cardinality({k \in DOMAIN s : s[k][2] = x})

IsBMatching(B, E, ub) == B \subseteq E /\ \A x \in Node : Degree(B, x) <= ub[x]

Weight(B, wgt) == SumFunctionOnSet(wgt, B)

ListWeight(s, wgt) == SumFunction([k \in DOMAIN s |-> wgt[s[k]]])

\* The weight of a maximum-weight b-matching among the edges E.
BestWeight(E, wgt, ub) == Max({Weight(B, wgt) : B \in {S \in SUBSET E : IsBMatching(S, E, ub)}})

\* No edge of E can be added to B without exceeding a bound.
IsMaximal(B, E, ub) == \A e \in E \ B : ~ IsBMatching(B \cup {e}, E, ub)

NoDuplicate(s) == \A k, l \in DOMAIN s : s[k] = s[l] => k = l
=============================================================================
