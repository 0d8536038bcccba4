CONSTANTS
    Addrs = {a1, a2, a3}
    Bases = {annotation, derived}
    None = None
    MaxStaged = 3
    MaxRows = 0
SYMMETRY Symmetry
SPECIFICATION Spec
PROPERTIES
    LoopsAgreeWithCommit
    LostOnlyToCollision
