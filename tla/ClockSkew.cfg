SPECIFICATION Spec
CONSTANTS
    Tools = {p1, p2}
    Deltas <- MCDeltas
    Duration = 1
    NanosPerSec = 4
    NanosPerMicro = 2
    MaxDelay = 1
    MaxTime = 3
    Failures = TRUE
    LostSessions = TRUE
SYMMETRY Symmetry
INVARIANTS
    TimesAreBalanced
PROPERTIES
    ClockWhereAsked
CHECK_DEADLOCK FALSE
