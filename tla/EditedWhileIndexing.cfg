CONSTANTS
    u1 = u1
    u2 = u2
    m1 = m1
    m2 = m2
    header = header
    Units <- MCUnits
    Files <- MCFiles
    Main <- MCMain
    Includes <- MCIncludes
    None = None
    Collectors = {c1, c2}
    Contents = {a, b}
    MaxEdits = 3
    EditsAnyTime = TRUE
SYMMETRY Symmetry
SPECIFICATION Spec
INVARIANTS AcceptedIndexIsCurrent
