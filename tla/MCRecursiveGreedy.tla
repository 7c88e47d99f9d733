-------------------------- MODULE MCRecursiveGreedy --------------------------
(* Edge lists of the three-node graphs with at most one self-loop.           *)
EXTENDS RecursiveGreedy

CONSTANTS EntryWeights

EntryEdges == {e \in Edge : e[1] # e[2] \/ e[1] = 1}

\* One list for every graph: each upper-triangular entry at most once, the loop
\* with the smallest weight.  Two more have a negative entry,
\* one of them only until it is added up.
GraphWeights == UNION {[E -> EntryWeights] : E \in SUBSET EntryEdges}
GraphLists ==
    {<< <<0, 1, 1>>, <<1, 2, -1>> >>, << <<0, 1, -1>>, <<1, 2, 1>>, <<0, 1, 2>> >>} \cup
    {svecvec_2_ijw(w) :
        w \in {v \in GraphWeights : <<1, 1>> \in DOMAIN v => v[1, 1] = Min(EntryWeights)}}
=============================================================================
