SPECIFICATION Spec
CONSTANTS
    Buffer = {A, C}
    Data <- MCData
    WithCallback = {A}
    DeferredCbs = {A}
    Freezable = {A}
    Referenced = {C}
    Worked = {A}
    PullupShared = TRUE
    MIN_BUFFER_SIZE = 2
    EVBUFFER_CHAIN_SIZE = 1
    EVBUFFER_CHAIN_MAX_AUTO_SIZE = 2
    MAX_TO_COPY_IN_EXPAND = 1
    MAX_TO_REALIGN_IN_EXPAND = 1
    NUM_READ_IOVEC = 2
    MaxLen = 3
    MaxLone = 2
    MaxChains = 3
    MaxFrozen = 1
    MaxSpace = 2
    MaxImmutable = 1
    MaxUnreported = 1
    NULL = NULL
PROPERTIES
    ImplementsByteQueue
CHECK_DEADLOCK FALSE
