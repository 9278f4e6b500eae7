SPECIFICATION Spec

CONSTANTS
    Handlers = {h1, h2, h3}
    Names = {n1}
    Sizes = {1, 2, 3}
    ShareIds = {s1, s2, s3}
    UniqueNames = TRUE
    CtlFaults = {"timeout", "masked", "crash", "lookup", "backend", "bare"}
    NoShare = NoShare
    NoHandler = NoHandler
    NoName = NoName

SYMMETRY Symmetry

CHECK_DEADLOCK FALSE

INVARIANTS
    TypeOK
    BoundIsServed
