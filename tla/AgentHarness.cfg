SPECIFICATION Spec
CONSTANTS
    MaxRuns = 2
    MaxStructural = 1
    MaxTurns = 1
    MaxWrites = 2
    MaxQueued = 1
    MaxRequests = 2
INVARIANTS
    EveryWriteKeptOnce
    BusyWritesInOrder
    QueuedAtMostOnce
    PhaseHeld
    PhaseReleased
    TranscriptNotReordered
PROPERTY
    HarnessSettles
CHECK_DEADLOCK FALSE
