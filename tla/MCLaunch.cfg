SPECIFICATION MCSpec
CONSTANTS
    Cases <- MCCases
    Parent <- MCParent
    Dirs <- MCDirs
    MaxLines = 3
    DU_MAX_PENDING = 1
    DU_MAX_ENTRIES = 9
    Given <- MCGiven
    MaxGiven = 2
INVARIANTS
    
    DuFaithful
    HandlesReturned
    ReplaySameWork
    SettingsInForce
