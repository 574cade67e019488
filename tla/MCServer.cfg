SPECIFICATION ServerSpec
CONSTANTS
    MaxCalls = 5
    TREE_DEPTH = 2
    Commitments = {1, 2, 3}
    PathValues = {0, 1, 2, 3, 4, 5, 6, 7, 8, 9, 10, 12, 13, 14, 18, 19, 25}
INVARIANTS
    MutualExclusion
    ChainInv
    SparseIsFull
    CheckerExact
PROPERTIES
    ImplementsMutex
    EveryCallSettles
    EveryStepProvable
CHECK_DEADLOCK FALSE
