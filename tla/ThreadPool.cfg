\* Three workers, three jobs, a SIGINT, a spurious wakeup, a failed creation.
CONSTANTS
    CoreSize = 3
    MaxSize = 3
    NumJobs = 3
    MaxSignals = 1
    MaxSpurious = 1
    MaxFailures = 1
SPECIFICATION FairSpec
INVARIANTS
    TypeOK
    JobsConserved
    JobMemorySafe
    NoLostWakeup
    PoolOutlivesWorkers
PROPERTIES
    ImplementsWorkQueue
    EveryJobHandled
    TakenJobReleased
CHECK_DEADLOCK FALSE
