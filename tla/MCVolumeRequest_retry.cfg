SPECIFICATION Spec

CONSTANTS
    Requests <- AllRequests
    Topologies <- Preferred
    SubnetLists <- Lists
    rfsEnabled = TRUE
    MaxAttempts = 2
    Nothing = Nothing

CHECK_DEADLOCK FALSE

INVARIANTS
    OrderDoesNotMatter
    CapacityFits
    EncryptedInTransit
    ContextDescribesShare
