SPECIFICATION FairSpec

CONSTANTS
    Handlers = {h1, h2}
    Names = {n1, n2}
    Sizes = {1, 2}
    ShareIds = {s1, s2, s3}
    UniqueNames = FALSE
    CtlFaults = {"crash", "backend", "bare"}
    NoShare = NoShare
    NoHandler = NoHandler
    NoName = NoName

CHECK_DEADLOCK FALSE

INVARIANTS
    
    OneSharePerName
    DeletedLeavesNothing

PROPERTIES
    ImplementsNamedResource
    OperationsComplete
