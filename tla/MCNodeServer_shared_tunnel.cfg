SPECIFICATION NodeSpec

CONSTANTS
    v1 = v1
    v2 = v2
    t1 = t1
    t2 = t2
    t3 = t3
    Procs = {p1, p2}
    Volumes = {v1}
    Targets = {t1, t2}
    ShareOf <- OneShare
    InitialPort = 1
    PortRange = 2
    ForeignPorts = {}
    Faults = {}
    NodeFaults = {}
    Serialised = FALSE
    MaxFired = 1
    NoVolume = NoVolume
    NoProc = NoProc
    Callback = Callback

SYMMETRY Handlers

INVARIANTS
    MountKeepsTunnel
