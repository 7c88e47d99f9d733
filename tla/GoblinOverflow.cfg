SPECIFICATION XSpec
CONSTANTS
    NumNode = 3
    DegUnit = 1
    EdgeLists <- GraphLists
    LowerBounds = {0}
    UpperBounds = {1, 2}
    Methods = {1}
    IntBits = 10
    MantissaBits = 7
    EntryEdges <- TriangleAndLoop
    EntryWeights = {1, 2}
INVARIANTS
    ExactAnswer
