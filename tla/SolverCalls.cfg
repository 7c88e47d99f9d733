SPECIFICATION Spec
CONSTANTS
    NumNode = 2
    DegUnit = 1
    EdgeLists <- ShortLists
    LowerBounds = {0, 2}
    UpperBounds = {0, 1, 3}
    MaxEdges = 3
    EntryPositions <- AllPositions
    EntryWeights <- NegWeights
INVARIANTS
    TypeOK
    SolverGetsCleanInput
    AnswerIsBMatching
    WeightIsThatOfAnswer
    HalfOfWhatWasAsked
    GreedyKeepsContract
    NormalFormIsStable
PROPERTIES
    Returns
