SPECIFICATION RSpec
CONSTANTS
    NumNode = 3
    DegUnit = 1
    EdgeLists <- GraphLists
    LowerBounds = {0, 2}
    UpperBounds = {1, 3}
    EntryWeights = {1, 2}
INVARIANTS
    RTypeOK
    LevelsShareTheBounds
    OnlyOutermostRejects
    MergedIsMaximal
    MergedWeight
    RecursionKeepsContract
PROPERTIES
    ImplementsApproxSolver
    RecursionEnds
