CONSTANTS
    Addrs <- MCAddrs
    Bases <- MCBases
    None = None
    MaxStaged = 0
    MaxRows = 0
    MaxRounds = 2
SPECIFICATION AliasedNames
PROPERTIES NamesAreNotGuessed
CHECK_DEADLOCK FALSE
