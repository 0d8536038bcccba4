CONSTANTS
    None = None
    Pairs = {1, 2, 3}
    Entry = 1
    MaxInlineDepth = 1
    Graphs <- SomeGraphs
    SourcePaths <- TwoPaths
SPECIFICATION RulesSpec
INVARIANTS RetryIsSound ReportsAreTrue MarkersAreAnswered FactsAreAgreed EveryByteOnce TargetedTellsAll DerivedPairsAreTrue PreparedAlike
CHECK_DEADLOCK FALSE
