SPECIFICATION RunSpec
CONSTANTS
    Given <- MCGiven
    MaxGiven = 2
INVARIANTS
    FlagsOverrideFile
