CONSTANTS
    Procs = {p1, p2}
    None = None
    Contents = {v1, v2}
    MaxChanges = 2
    MaxStarts = 3
    MaxEdits = 2
SYMMETRY Symmetry
SPECIFICATION Spec
INVARIANTS ReusedIsOwn BuiltOnce
PROPERTIES CollectorIsOwn
CONSTRAINT Quiet
CHECK_DEADLOCK FALSE
