SPECIFICATION Spec
CONSTANTS
    Modes = {"all", "one-at-a-time"}
    MaxCalls = 2
    MaxMessages = 2
    MaxToolTurns = 1
INVARIANTS
    ModelSeesTranscript
    MessagesConserved
    ResultsFollowTheirCall
PROPERTY
    RunSettles
CHECK_DEADLOCK FALSE
