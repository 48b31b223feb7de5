\* One SIGINT, no other disturbance: does shutdown end the pool?
CONSTANTS
    CoreSize = 2
    MaxSize = 2
    NumJobs = 2
    MaxSignals = 1
    MaxSpurious = 0
    MaxFailures = 0
SPECIFICATION FairSpec
PROPERTY ShutdownEndsPool
CHECK_DEADLOCK FALSE
