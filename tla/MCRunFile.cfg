SPECIFICATION Spec
CONSTANTS
    NEng = 2
    NThr = 2
    SweepLens = {0, 2}
    Repeats = {1, 2}
INVARIANTS
    RowsAreOwn
    SeededForCell
    OneStore
    EveryCellAccounted
