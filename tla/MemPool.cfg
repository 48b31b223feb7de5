\* The base pool and up to three more, one of which is kept for reuse; every
\* pool holds two blocks at most.  One miss ends a search, then it is retried.
CONSTANTS
    Base = base
    Pools = {p1, p2, p3}
    NULL = NULL
    PoolSize = 6
    PoolHeader = 1
    Header = 1
    LargeHeader = 1
    Align = 2
    MaxMem = 26
    SingleMax = 5
    MaxFree = 1
    MaxSearchPool = 1
    FailedSkip = 2
    MaxChecks = 1
    InPoolSize = 100
    Requests = {1, 2, 5}
SPECIFICATION FairSpec
INVARIANTS
    PoolsOK
    LimitRespected

    
CHECK_DEADLOCK FALSE
