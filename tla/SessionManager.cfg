SPECIFICATION Spec
CONSTANTS
    MaxId = 3
INVARIANTS
    IndexMatchesEntries
    AcknowledgedIsDurable
    NoAppendWithoutHeader
    FileFollowsMemory
PROPERTY
    ExtractKeepsLabels
CHECK_DEADLOCK FALSE
