SPECIFICATION Spec
CONSTANTS
    Files = {f1, f2}
    Texts = {t1, t2}
    Absent = Absent
    Spellings = {1, 2}
    MaxPrompts = 2
    MaxCalls = 2
    MaxOperator = 2
SYMMETRY Symmetry
INVARIANTS
    OneWriterPerFile
    UndoReachesStart
    RevertReachesStart
CHECK_DEADLOCK FALSE
