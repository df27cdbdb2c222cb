SPECIFICATION SessionSpec
CONSTANTS
    MaxInputs = 2
    MaxRetries = 1
    MaxEvents = 3
    MaxDisturbed = 1
    MaxCuts = 2
    FrontEnds = {"rpc", "interactive"}
INVARIANTS
    ToolPairsIntact
    TranscriptPersisted
    NothingLeftBehind
    RecoveryBounded
CHECK_DEADLOCK FALSE
