SPECIFICATION FairSpec

CONSTANTS
    Procs = {p1, p2}
    Volumes = {v1, v2}
    InitialPort = 1
    PortRange = 3
    ForeignPorts = {2}
    Faults = {}
    Serialised = TRUE
    MaxFired = 1
    NoVolume = NoVolume
    NoProc = NoProc
    Callback = Callback

INVARIANTS
    NoLostReload
    MapsInverse
    MapsMatchFiles

PROPERTIES
    EveryCallReturns
    AllTunnelsServed
