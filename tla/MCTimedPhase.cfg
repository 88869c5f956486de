SPECIFICATION FairSpec
CONSTANTS
    N = 2
    Repeat = 2
    OpsGiven = {1, 3}
    Watched <- MCWatched
    MaxUnits = 1
    MaxVerbs = 1
INVARIANTS
    TypeOK
    NoThreadOutlives
    SamplesInOrder
    ResultIsTrue
    BudgetSpent
PROPERTIES
    CellEnds
