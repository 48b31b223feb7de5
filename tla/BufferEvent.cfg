CONSTANTS
    A = A
    B = B
    Bev = {A, B}
    Scenarios <- MCScenarios
    Watched = {A}
    Rate = 1
    Burst = 2
    MinShare = 1
    MaxSingle = 2
    MaxTicks = 1
    MaxLen = 2
SPECIFICATION FairSpec
INVARIANTS
    
    BandwidthReturns
    RefsExact

    
    
