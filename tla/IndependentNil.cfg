SPECIFICATION Spec
CONSTANTS
    Concurrency = 2
    Nemesis = Nemesis
    None = None
    k1 = k1
    k2 = k2
    k3 = k3
    k4 = k4
    k5 = k5
    Keys = {k1, k2, k3}
    KeyOrder <- MCShortOrder
    MaxOps = 1
    SyncKeys = {}
    NilKeys = {k2}
    GroupSize = 2
    MaxCrashes = 0
    Idle = Idle
INVARIANTS
    EveryKeyIsRun
CHECK_DEADLOCK FALSE
