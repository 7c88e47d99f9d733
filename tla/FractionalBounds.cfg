SPECIFICATION Spec
CONSTANTS
    NumNode = 2
    DegUnit = 2
    EdgeLists <- ShortLists
    LowerBounds = {0}
    UpperBounds = {0, 1, 2, 3}
    MaxEdges = 3
    EntryPositions <- UpperPositions
    EntryWeights = {1, 2}
INVARIANTS
    AnswerWithinBounds
