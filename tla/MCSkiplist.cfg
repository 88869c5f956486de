SPECIFICATION FairSpec
CONSTANTS
    t1 = t1
    t2 = t2
    Threads <- MCThreads
    Keys = {1, 2, 3}
    Values = {1, 2}
    Puts <- MCPuts
    Ranges <- MCRanges
    MaxLevel = 2
    Budget <- MCBudget
INVARIANTS
    WellFormed
    NoUseAfterFree
    StatsPlausible
    NoLeak
PROPERTIES
    StableUnderReaders
    ImplementsOrderedMap
    AllAnswered
