SPECIFICATION Spec
CONSTANTS
    Ways = {"auto", "manual"}
    MaxEntries = 6
    MaxAsides = 1
    MaxCompactions = 2
INVARIANTS
    NothingForgotten
    ResultsKeepTheirCall
CHECK_DEADLOCK FALSE
