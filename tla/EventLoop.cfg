\* Three workers as in event.c, two events; every creation may fail.
CONSTANTS
    Events = {x1, x2}
    Entries = {a1, a2}
    Sentinel = s
    NULL = NULL
    CoreSize = 3
    MaxSpurious = 1
    MaxFailures = 3
SPECIFICATION FairSpec
INVARIANTS
    LoopOK
    NoSleepOverEvents
PROPERTIES
    ImplementsWorkQueue
    EveryEventActedOn
CHECK_DEADLOCK FALSE
