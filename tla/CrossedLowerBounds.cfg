SPECIFICATION Spec
CONSTANTS
    NumNode = 2
    DegUnit = 1
    EdgeLists <- ShortLists
    LowerBounds = {0, 2}
    UpperBounds = {1, 3}
    MaxEdges = 3
    EntryPositions <- UpperPositions
    EntryWeights = {1, 2}
INVARIANTS
    LowerBoundsIgnored
