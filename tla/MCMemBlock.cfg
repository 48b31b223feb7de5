\* Three size classes, blocks of two to ten units.
CONSTANTS
    Area = 10
    Header = 1
    Limits <- MCLimits
    MaxSearch = 1
    Requests = {1, 2, 4}
SPECIFICATION Spec
INVARIANTS
    BlocksOK

    
