SPECIFICATION TurnSpec
CONSTANTS
    MaxCalls = 3
    MaxBatch = 3
    Paths = {"a", "b"}
INVARIANTS
    ResultsInSourceOrder
    GroupBarrier
    StartedAreAnswered
    NoCallUnanswered
    WritesSeenLater
    BarriersAlone
    WritesEndFirst
    CommandsRunAlone
PROPERTY
    TurnEnds
CHECK_DEADLOCK FALSE
