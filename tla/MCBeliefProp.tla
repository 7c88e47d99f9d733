----------------------------- MODULE MCBeliefProp -----------------------------
EXTENDS BeliefProp

CONSTANTS EntryWeights, EntryEdges, Capacities

\* All graphs on three nodes, a loop only at node 0, one list that the solver
\* refuses for its negative weight, and one that repeats an edge.
TriangleAndLoop == {e \in Edge : e[1] # e[2] \/ e[1] = 0}
Refused == << <<0, 1, 1>>, <<1, 2, -1>> >>
Repeated == << <<0, 1, 3>>, <<1, 2, 2>>, <<0, 1, 1>>, <<0, 2, 1>> >>
GraphLists ==
    {Refused, Repeated} \cup
    {svecvec_2_ijw(w) : w \in UNION {[E -> EntryWeights] : E \in SUBSET EntryEdges}}

\* The same bound everywhere, or a tighter one at the last node: only the
\* smallest counts.
Bounds ==
    {[x \in Node |-> c] : c \in Capacities}
    \cup {[x \in Node |-> IF x = NumNode - 1 THEN 1 ELSE c] : c \in Capacities}
=============================================================================
