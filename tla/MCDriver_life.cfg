SPECIFICATION FairSpec

CONSTANTS
    Lists = {l1, l2}
    Empty = Empty
    Absent = Absent
    MaxChanges = 4
    DriverFaults = {"init", "session", "serve", "term", "kill"}

CHECK_DEADLOCK FALSE

INVARIANTS
    TypeOK
    SubnetListIsCurrent

PROPERTIES
    
    ServesAgain
