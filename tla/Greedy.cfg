SPECIFICATION Spec
CONSTANTS
    NumNode = 4
    EdgeSets <- SmallGraphs
    Weights = {1, 2}
    Bounds = {0, 1, 2, 3, 4}
    DegUnit = 1
INVARIANTS
    TypeOK
    DegreesMatchGraph
    EdgesNeedCapacity
    EdgesUsedOnce
    DegreeBound
    VisitsPayForEdges
    ChargedToWalk
    HalfApproximation
PROPERTIES
    OnlyConsumes
    Termination
    ImplementsApproxSolver
