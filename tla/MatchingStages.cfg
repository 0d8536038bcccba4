CONSTANTS
    Addrs <- MCAddrs
    Bases <- MCBases
    None = None
    MaxStaged = 0
    MaxRows = 0
    MaxRounds = 2
SPECIFICATION MCSpec
INVARIANTS StagesTypeOK BodyMarkersDecide TwinsPairUp
PROPERTIES SelectorsDoNotFallBack PairsHaveEvidence StagesImplementCatalog RunEnds
CHECK_DEADLOCK FALSE
