SPECIFICATION SessionSpec
CONSTANTS
    MaxInputs = 2
    MaxRetries = 1
    MaxEvents = 1
    MaxDisturbed = 1
    MaxCuts = 2
    FrontEnds = {"rpc"}
INVARIANT AcceptedIsDelivered
CHECK_DEADLOCK FALSE
