SPECIFICATION Spec
CONSTANTS
    Ways = {"auto"}
    MaxEntries = 6
    MaxAsides = 1
    MaxCompactions = 2
INVARIANT SummariesAccumulate
CHECK_DEADLOCK FALSE
