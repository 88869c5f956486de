SPECIFICATION FairSpec
CONSTANTS
    t1 = t1
    t2 = t2
    Threads = {t1, t2}
    Keys = {1, 2}
    Calls <- MCCalls
    Engines = {"rocksdb", "tidesdb"}
    Budget <- MCBudget
    MaxStalls = 1
PROPERTIES
    DelTellsExistence
