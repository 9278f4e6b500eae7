SPECIFICATION NodeFairSpec

CONSTANTS
    v1 = v1
    v2 = v2
    t1 = t1
    t2 = t2
    t3 = t3
    Procs = {p1}
    Volumes = {v1, v2}
    Targets = {t1, t2, t3}
    ShareOf <- AllKinds
    InitialPort = 1
    PortRange = 3
    ForeignPorts = {}
    Faults = {}
    NodeFaults = {}
    Serialised = FALSE
    MaxFired = 1
    NoVolume = NoVolume
    NoProc = NoProc
    Callback = Callback

INVARIANTS
    NodeTypeOK

PROPERTIES
    PublishSucceeds
    
