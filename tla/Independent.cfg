SPECIFICATION FairSpec
CONSTANTS
    Concurrency = 4
    Nemesis = Nemesis
    None = None
    k1 = k1
    k2 = k2
    k3 = k3
    k4 = k4
    k5 = k5
    Keys = {k1, k2, k3, k4, k5}
    KeyOrder <- MCKeyOrder
    MaxOps = 2
    SyncKeys = {k2, k5}
    NilKeys = {k3, k4}
    GroupSize = 2
    MaxCrashes = 2
    Idle = Idle
INVARIANTS
    OneGroupPerKey
    EveryOperationOnce
    EventsReachTheirGenerator
PROPERTIES
    TestEnds
CHECK_DEADLOCK FALSE
