SPECIFICATION Spec

CONSTANTS
    Procs = {p1, p2}
    Volumes = {v1, v2}
    InitialPort = 1
    PortRange = 2
    ForeignPorts = {}
    Faults = {"stunnel"}
    Serialised = TRUE
    MaxFired = 1
    NoVolume = NoVolume
    NoProc = NoProc
    Callback = Callback

INVARIANTS
    MapsInverse
