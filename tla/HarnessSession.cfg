SPECIFICATION StorageSpec
CONSTANTS
    Callers = {c1, c2}
    MaxLines = 3
    MaxWindows = 2
    MaxFaults = 2
SYMMETRY Symmetry
INVARIANTS
    LinesReferBack
    MemoryIsTheFile
CHECK_DEADLOCK FALSE
