SPECIFICATION Spec
CONSTANTS
    NEng = 1
    NThr = 2
    SweepLens = {0, 2}
    Repeats = {1, 2, 3, 4}
    Jobs <- MCJobs
    MaxSamples = 2
    SAMPLE_METRIC_MAX = 4
    REPORT_MAX_SINKS = 4
INVARIANTS
    WholeRecords
    NothingLost
    TimelineInOrder
    SpreadIsTrue
    LinesInOrder
