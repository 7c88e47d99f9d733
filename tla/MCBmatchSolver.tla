--------------------------- MODULE MCBmatchSolver ---------------------------
(* Every edge list of up to MaxEdges entries: repeated, lower-triangular,    *)
(* zero-weight and negative entries included.                                *)
EXTENDS BmatchSolver

CONSTANTS MaxEdges, EntryPositions, EntryWeights

AllPositions == Node \X Node
UpperPositions == Edge

Entries == {<<p[1], p[2], w>> : p \in EntryPositions, w \in EntryWeights}
ShortLists == BoundedSeq(Entries, MaxEdges)
NegWeights == {-1, 0, 1, 2}
=============================================================================
