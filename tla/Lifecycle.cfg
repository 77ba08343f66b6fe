SPECIFICATION FairSpec
CONSTANTS
    Nodes = {n1, n2}
    PrimaryNode = n1
    CycleTries = 3
    MaxFaults = 3
    None = None
INVARIANTS
    SetupStartsClean
    BarrierSeparatesPhases
    UsersHaveTheirSystem
    NothingLeftBehind
PROPERTIES
    RunEnds
CHECK_DEADLOCK FALSE
