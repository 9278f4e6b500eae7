SPECIFICATION Spec

CONSTANTS
    Procs = {p1, p2}
    Volumes = {v1, v2}
    InitialPort = 1
    PortRange = 1
    ForeignPorts = {}
    Faults = {"crash", "readdir", "stunnel", "write", "remove", "reload", "pgrep"}
    Serialised = FALSE
    MaxFired = 2
    NoVolume = NoVolume
    NoProc = NoProc
    Callback = Callback

SYMMETRY Symmetry

INVARIANTS
    TypeOK
    LockDiscipline
    PendingHasTimer
