---------------------------- MODULE MCGoblinExact ----------------------------
(* Edge lists of the three-node graphs with at most one self-loop, a short   *)
(* int and a short float.                                                    *)
EXTENDS GoblinExact

CONSTANTS EntryWeights, EntryEdges

TriangleAndLoop == {e \in Edge : e[1] # e[2] \/ e[1] = 0}

\* One list for every graph: each upper-triangular entry at most once.
GraphLists ==
    {svecvec_2_ijw(w) : w \in UNION {[E -> EntryWeights] : E \in SUBSET EntryEdges}}

\* Weights so close together that some share a cost and others are rounded apart.
NearLists ==
    {<< <<0, 1, a>>, <<0, 2, 101>>, <<1, 2, b>> >> : a \in {100, 98}, b \in {102, 300}}

\* With a negative weight in a sum that is positive, zero and negative.
SignedLists ==
    GraphLists \cup NearLists
    \cup {<<<<0, 1, -1>>, <<0, 2, 2>>>>, <<<<0, 1, -1>>, <<0, 2, 1>>>>, <<<<0, 1, -1>>, <<0, 2, -2>>>>}
=============================================================================
