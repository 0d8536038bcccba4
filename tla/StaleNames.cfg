CONSTANTS
    Orig = orig
    None = None
    first = first
    edited = edited
    other = other
    b1 = b1
    b2 = b2
    Keys <- MCKeys
    Builds <- MCBuilds
    BuildOf <- MCBuildOf
SYMMETRY Symmetry
SPECIFICATION Spec
INVARIANTS NoStaleNames
