SPECIFICATION FairSpec
CONSTANTS
    Threads = {t1, t2}
    None = None
    Retries = 1
    ConcurrencyLimit = 1
    MaxConns = 2
INVARIANTS
    TypeOK
    OnlyCurrentIsOpen
    RetriesUseAnotherConn
PROPERTIES
    CallsEnd
    NoneClosedInUse
    OnlyFailedAreReplaced
