SPECIFICATION XSpec
CONSTANTS
    NumNode = 3
    DegUnit = 1
    EdgeLists <- SignedLists
    LowerBounds = {0, 1, 2}
    UpperBounds = {0, 1, 2}
    Methods = {1, 2}
    IntBits = 10
    MantissaBits = 7
    EntryEdges <- TriangleAndLoop
    EntryWeights = {1, 2}
INVARIANTS
    XTypeOK
    OptimalUpToRounding
    ExactKeepsContract
    ComplementNeverCrosses
