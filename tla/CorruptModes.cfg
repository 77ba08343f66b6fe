SPECIFICATION FairSpec
CONSTANTS
    Options <- AllModes
    Sizes = {0, 4}
    ByteBits = 2
    OffMax = 9
    MaxGap = 3
    MaxRuns = 1
    MaxWrites = 1
    IoErrors = FALSE
INVARIANTS
    CopiesAreClean
    BitflipsAreCounted
PROPERTIES
    OnlyAffectedBytes
    ToolEnds
CHECK_DEADLOCK FALSE
