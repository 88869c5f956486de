SPECIFICATION FairSpec
CONSTANTS
    N = 3
    Items = 7
    Batch = 2
    Places <- MCPlaces
INVARIANTS
    SeededOnce
    SetupSettles
    SeedSamplesInOrder
    EvenPlacement
PROPERTIES
    SetupEnds
