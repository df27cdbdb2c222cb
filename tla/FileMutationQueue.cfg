SPECIFICATION QueueSpec
CONSTANTS
    N = 3
    Paths <- MCPaths
    Real <- MCReal
    InitiallyThere = {"other"}
INVARIANTS
    OneAtATime
    ChainsAreLive
PROPERTIES
    EveryCallSettles
    ImplementsLocks
CHECK_DEADLOCK FALSE
