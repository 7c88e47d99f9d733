--------------------------- MODULE MCGreedyApprox ---------------------------
(* Every graph without self-loops on all nodes, and every graph with         *)
(* self-loops that leaves the last node isolated.                            *)
EXTENDS GreedyApprox

Loop(e) == e[1] = e[2]
WithoutLoops == SUBSET {e \in Edge : ~ Loop(e)}
WithoutLastNode == SUBSET {e \in Edge : e[2] < NumNode - 1}

SmallGraphs == WithoutLoops \cup WithoutLastNode
=============================================================================
