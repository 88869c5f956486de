SPECIFICATION HistSpec
CONSTANTS
    Sub = 4
    Oct = 5
    Width = 8
    NWorkers = 2
    Latencies = {0, 3, 4, 9, 17, 31, 60}
    MaxRecords = 3
INVARIANTS
    MergeIsUnion
    PercentileFaithful
