SPECIFICATION ScanSpec
CONSTANTS
    ScanKeys = {1, 2, 3}
    Bounds = {0, 1, 2, 3, 4}
    Limits = {0, 1, 2}
INVARIANTS
    NothingHeld
    SameRows
