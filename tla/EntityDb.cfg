CONSTANTS
    Addrs = {a1, a2, a3}
    Bases = {annotation, derived}
    None = None
    MaxStaged = 2
    MaxRows = 1
SYMMETRY Symmetry
SPECIFICATION Spec
INVARIANTS TypeOK OneToOne CopiesAgree AliasesNamePairs
PROPERTIES PairsAreFinal IdentityOnlySharpens ImplementsPairCatalog
