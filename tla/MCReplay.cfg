SPECIFICATION FairRunSpec
CONSTANTS
    Given <- MCGiven
    MaxGiven = 2
INVARIANTS
    ReplayIsExact
