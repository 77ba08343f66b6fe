SPECIFICATION Spec
CONSTANTS
    Options <- Rollbacks
    Sizes = {4}
    ByteBits = 2
    OffMax = 9
    MaxGap = 1
    MaxRuns = 3
    MaxWrites = 0
    IoErrors = FALSE
INVARIANT RestoreRollsBack
CHECK_DEADLOCK FALSE
