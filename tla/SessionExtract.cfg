SPECIFICATION Spec
CONSTANTS
    MaxId = 3
PROPERTY ExtractKeepsPath
CHECK_DEADLOCK FALSE
