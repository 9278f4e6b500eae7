SPECIFICATION FairSpec

CONSTANTS
    Handlers = {h1, h2}
    Names = {n1, n2}
    SnapIds = {s1, s2, s3}
    Share = Share
    SnapFaults = {"crash", "refuse", "lookup", "backend"}
    NoSnap = NoSnap
    NoHandler = NoHandler
    NoName = NoName
    NoCrn = NoCrn

CHECK_DEADLOCK FALSE

INVARIANTS
    TypeOK
    ReadyIsReal

PROPERTIES
    ImplementsNamedResource
    SnapshotsComplete
