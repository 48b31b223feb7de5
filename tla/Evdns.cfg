CONSTANTS
    u1 = u1
    u2 = u2
    n1 = n1
    n2 = n2
    Null = Null
    Users = {u1, u2}
    Nameserver = {n1, n2}
    Settings <- MCSettings
    MaxRetransmits = 1
    MaxReissues = 1
    MaxTimeouts = 1
    Watched = u1
SPECIFICATION FairSpec
INVARIANTS
    
    NothingStuck
    WaitingIsServed
    DownIsProbed

    
CHECK_DEADLOCK FALSE
