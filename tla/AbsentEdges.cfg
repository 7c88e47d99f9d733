SPECIFICATION Spec
CONSTANTS
    NumNode = 3
    UpperBounds <- Bounds
    Capacities = {1, 2}
    EdgeLists <- GraphLists
    EntryEdges <- TriangleAndLoop
    EntryWeights = {1, 3}
    Junk = {0}
    MAX_ITER = 12
    CONVERGENCE_INSURANCE = 3
INVARIANT AbsentEdgesStayOut
