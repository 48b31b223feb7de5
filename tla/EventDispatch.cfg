SPECIFICATION FairSpec
CONSTANTS
    rdEv = rdEv
    tmEv = tmEv
    dfEv = dfEv
    IoEvents = {rdEv}
    Timers = {tmEv}
    Deferred = {dfEv}
    Persist = {rdEv, tmEv}
    NOTIFY = NOTIFY
    CTL = CTL
    EXIT = EXIT
    Pri <- MCPri
    MAX_DEFERREDS_QUEUED = 0
    LoopThread = L
    NULL = NULL
    Threads = {T}
    LoopFlags <- MCLoopFlags
    Tvs <- MCTvs
    Added <- MCAdded
    max_dispatch_callbacks = 2
    limit_callbacks_after_prio = 1
    MaxTime = 3
    MaxCalls = 2
    MaxLoops = 2
    MaxInput = 1

    
    
    
PROPERTIES
    
    DelReturns
CHECK_DEADLOCK FALSE
