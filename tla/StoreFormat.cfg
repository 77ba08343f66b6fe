SPECIFICATION FairSpec
CONSTANTS
    ChunkSize = 2
    MaxOps = 8
    MaxAnalyses = 1
    IoErrors = TRUE
INVARIANTS
    IndexedBlocksAreComplete
    LossIsBounded
PROPERTIES
    SealedBlocksAreFinal
    RunReturnsWholeHistory
    KeepsItsPromise
    SavingEnds
CHECK_DEADLOCK FALSE
