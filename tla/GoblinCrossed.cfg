SPECIFICATION XSpec
CONSTANTS
    NumNode = 3
    DegUnit = 1
    EdgeLists <- GraphLists
    LowerBounds = {0, 2}
    UpperBounds = {1, 2}
    Methods = {2}
    IntBits = 10
    MantissaBits = 7
    EntryEdges <- TriangleAndLoop
    EntryWeights = {1}
INVARIANTS
    CrossedBoundsAreRaised
