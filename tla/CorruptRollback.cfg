SPECIFICATION Spec
CONSTANTS
    Options <- Rollbacks
    Sizes = {4}
    ByteBits = 2
    OffMax = 9
    MaxGap = 2
    MaxRuns = 3
    MaxWrites = 0
    IoErrors = TRUE
INVARIANTS
    RestoresAreExact
CHECK_DEADLOCK FALSE
