--------------------------- MODULE StunnelManager ---------------------------
(***************************************************************************)
(* The tunnel manager of the node plugin (pkg/rfseit/stunnel_manager.go).  *)
(*                                                                         *)
(* EnsureTunnel and RemoveTunnel are called by concurrent gRPC handler     *)
(* goroutines.  They share two port maps under the RWMutex mu, a debounced *)
(* SIGHUP (a flag and a time.AfterFunc timer) under debounceMu, and the    *)
(* directory of per-volume stunnel configuration files.  The stunnel       *)
(* process and the wrapper that starts it live in another container and    *)
(* step on their own; only a start or a SIGHUP makes stunnel read the      *)
(* directory.                                                              *)
(*                                                                         *)
(* A step of a goroutine ends where the code takes or releases a lock,     *)
(* sleeps, touches the disk or asks the operating system about a process.  *)
(***************************************************************************)
EXTENDS Integers

CONSTANTS
    Procs,        \* handler goroutines of the driver process
    Volumes,      \* file share IDs
    InitialPort,  \* first port of the range
    PortRange,    \* number of ports
    ForeignPorts, \* ports of the range that another local process listens on
    Faults,       \* the failures that may happen (a subset of FaultNames)
    Serialised,   \* TRUE: callers never run two calls on one volume at a time
    MaxFired,     \* bound on timer callbacks that started and wait for debounceMu
    NoVolume, NoProc, Callback

FaultNames == {
    "crash",    \* the driver container dies and is restarted
    "readdir",  \* the recovery at a restart cannot read the services directory
    "stunnel",  \* the stunnel process dies
    "write",    \* os.WriteFile fails, before or after truncating the file
    "remove",   \* os.Remove fails
    "reload",   \* reloadStunnel fails though stunnel runs (timeout, many PIDs, EPERM)
    "pgrep"}    \* isStunnelRunning answers FALSE though stunnel runs (timeout)

ASSUME PortsAssumption == InitialPort \in Nat \ {0} /\ PortRange \in Nat \ {0}
ASSUME FaultsAssumption == Faults \subseteq FaultNames /\ Serialised \in BOOLEAN
ASSUME BoundAssumption == MaxFired \in Nat \ {0}
ASSUME SentinelAssumption ==
    /\ NoVolume \notin Volumes
    /\ NoProc \notin Procs /\ Callback \notin Procs /\ NoProc # Callback

Ports  == InitialPort .. (InitialPort + PortRange - 1)
NoPort == 0
NoFile == 0     \* there is no <volume>.conf
Torn   == -1    \* <volume>.conf is truncated: it has no accept directive

VARIABLES
    mu,             \* the goroutine that holds mu for writing, or NoProc
    debounceMu,     \* the goroutine or the timer Callback that holds debounceMu
    allocatedPorts, \* volume -> port, NoPort when the map has no entry
    portToVolume,   \* port -> volume, NoVolume when the map has no entry
    stunnelStarted, \* stunnel has been confirmed running
    pendingSIGHUP,  \* a SIGHUP is wanted
    timer,          \* debounceTimer is armed
    fired,          \* number of timer callbacks that wait for debounceMu
    reload,         \* progress of the reloadStunnel call under debounceMu
    conf,           \* servicesDir: volume -> accept port of its file, NoFile, Torn
    running,        \* the stunnel process exists
    loaded,         \* volume -> port of the service stunnel has loaded, NoPort
    hup,            \* a SIGHUP was delivered and stunnel has not acted on it
    pc, vol, loc    \* per goroutine: next step, its volumeID, its local port

memory  == <<mu, debounceMu, allocatedPorts, portToVolume, stunnelStarted,
             pendingSIGHUP, timer, fired, reload>>
stunnel == <<running, loaded, hup>>
locals  == <<pc, vol, loc>>
vars    == <<memory, conf, stunnel, locals>>

EnsureSteps == {"e_call", "e_slow", "e_write", "e_probe", "e_wait", "e_hup"}
RemoveSteps == {"r_call", "r_last", "r_reload", "r_settle", "r_file",
                "r_lastfile", "r_undo", "r_hup"}
Steps == {"idle", "ok", "failed"} \cup EnsureSteps \cup RemoveSteps

HoldsMu(p)         == pc[p] \in {"e_write", "e_probe", "e_wait", "e_hup"}
HoldsDebounceMu(p) == pc[p] \in {"r_reload", "r_settle"}

TypeOK ==
    /\ mu \in Procs \cup {NoProc}
    /\ debounceMu \in Procs \cup {NoProc, Callback}
    /\ allocatedPorts \in [Volumes -> Ports \cup {NoPort}]
    /\ portToVolume \in [Ports -> Volumes \cup {NoVolume}]
    /\ stunnelStarted \in BOOLEAN
    /\ pendingSIGHUP \in BOOLEAN
    /\ timer \in BOOLEAN
    /\ fired \in 0 .. MaxFired
    /\ reload \in {"none", "pgrep", "kill", "stale"}
    /\ conf \in [Volumes -> Ports \cup {NoFile, Torn}]
    /\ running \in BOOLEAN
    /\ loaded \in [Volumes -> Ports \cup {NoPort}]
    /\ hup \in BOOLEAN
    /\ pc \in [Procs -> Steps]
    /\ vol \in [Procs -> Volumes \cup {NoVolume}]
    /\ loc \in [Procs -> Ports \cup {NoPort}]

\* NewStunnelManager on an empty services directory; stunnel is not running.
Init ==
    /\ mu = NoProc /\ debounceMu = NoProc
    /\ allocatedPorts = [v \in Volumes |-> NoPort]
    /\ portToVolume = [q \in Ports |-> NoVolume]
    /\ stunnelStarted = FALSE
    /\ pendingSIGHUP = FALSE /\ timer = FALSE /\ fired = 0
    /\ reload = "none"
    /\ conf = [v \in Volumes |-> NoFile]
    /\ running = FALSE
    /\ loaded = [v \in Volumes |-> NoPort]
    /\ hup = FALSE
    /\ pc = [p \in Procs |-> "idle"]
    /\ vol = [p \in Procs |-> NoVolume]
    /\ loc = [p \in Procs |-> NoPort]

Goto(p, step)     == pc' = [pc EXCEPT ![p] = step]
SetLoc(p, port)   == loc' = [loc EXCEPT ![p] = port]

-----------------------------------------------------------------------------
(* What the functions below compute. *)

HasTunnel(v) == allocatedPorts[v] # NoPort

\* isPortAvailable: a bind succeeds unless a loaded service or another
\* process listens on the port.
isPortAvailable(port) ==
    /\ port \notin ForeignPorts
    /\ running => \A v \in Volumes : loaded[v] # port

\* Mutant of FreePorts: the loop runs one port past the range.
FreePortsPastRange ==
    {q \in InitialPort .. (InitialPort + PortRange) :
        (q \in Ports => portToVolume[q] = NoVolume) /\ isPortAvailable(q)}

\* findAvailablePort: the ports its loop would accept; it takes the lowest.
FreePorts == {q \in Ports : portToVolume[q] = NoVolume /\ isPortAvailable(q)}

\* isStunnelRunning: the answers one pgrep can give.
isStunnelRunning == {running} \cup (IF "pgrep" \in Faults THEN {FALSE} ELSE {})

\* The services stunnel has after reading the directory.
ServicesOnDisk == [v \in Volumes |-> IF conf[v] \in Ports THEN conf[v] ELSE NoPort]

-----------------------------------------------------------------------------
(* Calls and returns.  A call with an empty volume ID or server fails at   *)
(* once.                                                                   *)

Free(v) == Serialised => \A q \in Procs : vol[q] # v

CallEnsure(p, v) ==
    /\ pc[p] = "idle"
    /\ Goto(p, "e_call")
    /\ vol' = [vol EXCEPT ![p] = v]
    /\ UNCHANGED <<memory, conf, stunnel, loc>>

CallRemove(p, v) ==
    /\ pc[p] = "idle"
    /\ Goto(p, "r_call")
    /\ vol' = [vol EXCEPT ![p] = v]
    /\ UNCHANGED <<memory, conf, stunnel, loc>>

CallRejected(p) ==
    /\ pc[p] = "idle"
    /\ Goto(p, "failed")
    /\ UNCHANGED <<memory, conf, stunnel, vol, loc>>

Return(p) ==
    /\ pc[p] \in {"ok", "failed"}
    /\ Goto(p, "idle")
    /\ SetLoc(p, NoPort)
    /\ vol' = [vol EXCEPT ![p] = NoVolume]
    /\ UNCHANGED <<memory, conf, stunnel>>

-----------------------------------------------------------------------------
(* EnsureTunnel *)

\* The fast path: one lookup under the read lock.
EnsureFast(p) ==
    /\ pc[p] = "e_call"
    /\ mu = NoProc
    /\ IF HasTunnel(vol[p])
         THEN Goto(p, "ok") /\ SetLoc(p, allocatedPorts[vol[p]])
         ELSE Goto(p, "e_slow") /\ UNCHANGED loc
    /\ UNCHANGED <<memory, conf, stunnel, vol>>

\* The slow path's double check finds the tunnel another goroutine made.
EnsureExisting(p) ==
    /\ pc[p] = "e_slow"
    /\ mu = NoProc
    /\ HasTunnel(vol[p])
    /\ Goto(p, "ok")
    /\ SetLoc(p, allocatedPorts[vol[p]])
    /\ UNCHANGED <<memory, conf, stunnel, vol>>

\* The slow path has no port to give, or cannot open the file.
EnsureRefused(p) ==
    /\ pc[p] = "e_slow"
    /\ mu = NoProc
    /\ ~HasTunnel(vol[p])
    /\ FreePorts = {} \/ "write" \in Faults
    /\ Goto(p, "failed")
    /\ UNCHANGED <<memory, conf, stunnel, vol, loc>>

\* The slow path takes mu and the lowest free port, and os.WriteFile truncates
\* the file.  mu stays locked until EnsureTunnel returns.
EnsureWrite(p) ==
    /\ pc[p] = "e_slow"
    /\ mu = NoProc
    /\ ~HasTunnel(vol[p])
    /\ \E q \in FreePorts :
         /\ \A r \in FreePorts : q <= r
         /\ SetLoc(p, q)
    /\ mu' = p
    /\ conf' = [conf EXCEPT ![vol[p]] = Torn]
    /\ Goto(p, "e_write")
    /\ UNCHANGED <<debounceMu, allocatedPorts, portToVolume, stunnelStarted,
                   pendingSIGHUP, timer, fired, reload, stunnel, vol>>

\* Mutant of EnsureWriteFails: the error return forgets to unlock mu.
EnsureWriteFailsLocked(p) ==
    /\ pc[p] = "e_write"
    /\ "write" \in Faults
    /\ Goto(p, "failed")
    /\ SetLoc(p, NoPort)
    /\ UNCHANGED <<memory, conf, stunnel, vol>>

\* The write fails after the truncation; nothing removes the file.
EnsureWriteFails(p) ==
    /\ pc[p] = "e_write"
    /\ "write" \in Faults
    /\ mu' = NoProc
    /\ Goto(p, "failed")
    /\ SetLoc(p, NoPort)
    /\ UNCHANGED <<debounceMu, allocatedPorts, portToVolume, stunnelStarted,
                   pendingSIGHUP, timer, fired, reload, conf, stunnel, vol>>

\* The content is written and the port is committed to both maps.
EnsureCommit(p) ==
    /\ pc[p] = "e_write"
    /\ conf' = [conf EXCEPT ![vol[p]] = loc[p]]
    /\ allocatedPorts' = [allocatedPorts EXCEPT ![vol[p]] = loc[p]]
    /\ portToVolume' = [portToVolume EXCEPT ![loc[p]] = vol[p]]
    /\ Goto(p, "e_probe")
    /\ UNCHANGED <<mu, debounceMu, stunnelStarted, pendingSIGHUP, timer, fired,
                   reload, stunnel, vol, loc>>

\* Mutant of EnsureProbe: the first tunnel waits for a startup without asking
\* whether stunnel runs already.
EnsureProbeFlagOnly(p) ==
    /\ pc[p] = "e_probe"
    /\ IF ~stunnelStarted THEN Goto(p, "e_wait") ELSE Goto(p, "e_hup")
    /\ UNCHANGED <<memory, conf, stunnel, vol, loc>>

\* Either stunnel is known or found to run, and a reload is needed, or the
\* goroutine sleeps through the startup wait.
EnsureProbe(p) ==
    /\ pc[p] = "e_probe"
    /\ \E up \in isStunnelRunning :
         IF ~stunnelStarted /\ ~up
           THEN Goto(p, "e_wait") /\ UNCHANGED stunnelStarted
           ELSE Goto(p, "e_hup") /\ stunnelStarted' = TRUE
    /\ UNCHANGED <<mu, debounceMu, allocatedPorts, portToVolume, pendingSIGHUP,
                   timer, fired, reload, conf, stunnel, vol, loc>>

\* After the wait stunnel runs: it read the new file when it started.
EnsureStarted(p) ==
    /\ pc[p] = "e_wait"
    /\ TRUE \in isStunnelRunning
    /\ stunnelStarted' = TRUE
    /\ mu' = NoProc
    /\ Goto(p, "ok")
    /\ UNCHANGED <<debounceMu, allocatedPorts, portToVolume, pendingSIGHUP, timer,
                   fired, reload, conf, stunnel, vol, loc>>

\* Mutant of EnsureRollback: the file is left behind.
EnsureRollbackKeepsFile(p) ==
    /\ pc[p] = "e_wait"
    /\ FALSE \in isStunnelRunning
    /\ allocatedPorts' = [allocatedPorts EXCEPT ![vol[p]] = NoPort]
    /\ portToVolume' = [portToVolume EXCEPT ![loc[p]] = NoVolume]
    /\ mu' = NoProc
    /\ Goto(p, "failed")
    /\ SetLoc(p, NoPort)
    /\ UNCHANGED <<debounceMu, stunnelStarted, pendingSIGHUP, timer, fired, reload,
                   conf, stunnel, vol>>

\* After the wait stunnel still does not run: both maps are rolled back and the
\* file is removed, best effort.
EnsureRollback(p) ==
    /\ pc[p] = "e_wait"
    /\ FALSE \in isStunnelRunning
    /\ allocatedPorts' = [allocatedPorts EXCEPT ![vol[p]] = NoPort]
    /\ portToVolume' = [portToVolume EXCEPT ![loc[p]] = NoVolume]
    /\ \/ conf' = [conf EXCEPT ![vol[p]] = NoFile]
       \/ "remove" \in Faults /\ UNCHANGED conf
    /\ mu' = NoProc
    /\ Goto(p, "failed")
    /\ SetLoc(p, NoPort)
    /\ UNCHANGED <<debounceMu, stunnelStarted, pendingSIGHUP, timer, fired, reload,
                   stunnel, vol>>

-----------------------------------------------------------------------------
(* The debounced SIGHUP *)

\* Mutant of ScheduleDebouncedSIGHUP: with a SIGHUP pending already, the old
\* timer is stopped but no new one is armed.
ScheduleStopsOnly(p) ==
    /\ pc[p] \in {"e_hup", "r_hup"}
    /\ debounceMu = NoProc
    /\ pendingSIGHUP' = TRUE
    /\ timer' = ~pendingSIGHUP
    /\ mu' = IF pc[p] = "e_hup" THEN NoProc ELSE mu
    /\ Goto(p, "ok")
    /\ UNCHANGED <<debounceMu, allocatedPorts, portToVolume, stunnelStarted, fired,
                   reload, conf, stunnel, vol, loc>>

\* scheduleDebouncedSIGHUP: called by EnsureTunnel (which still holds mu and
\* returns afterwards) and by RemoveTunnel.  The old timer is stopped, a new
\* one armed.
ScheduleDebouncedSIGHUP(p) ==
    /\ pc[p] \in {"e_hup", "r_hup"}
    /\ debounceMu = NoProc
    /\ pendingSIGHUP' = TRUE
    /\ timer' = TRUE
    /\ mu' = IF pc[p] = "e_hup" THEN NoProc ELSE mu
    /\ Goto(p, "ok")
    /\ UNCHANGED <<debounceMu, allocatedPorts, portToVolume, stunnelStarted, fired,
                   reload, conf, stunnel, vol, loc>>

\* The debounce window ends: the callback starts, and Stop no longer stops it.
TimerFires ==
    /\ timer
    /\ fired < MaxFired
    /\ timer' = FALSE
    /\ fired' = fired + 1
    /\ UNCHANGED <<mu, debounceMu, allocatedPorts, portToVolume, stunnelStarted,
                   pendingSIGHUP, reload, conf, stunnel, locals>>

\* A callback gets debounceMu: it returns if the SIGHUP was already sent or
\* cancelled, and otherwise starts reloadStunnel.
CallbackRuns ==
    /\ fired > 0
    /\ debounceMu = NoProc
    /\ fired' = fired - 1
    /\ IF pendingSIGHUP
         THEN /\ pendingSIGHUP' = FALSE
              /\ debounceMu' = Callback
              /\ reload' = "pgrep"
         ELSE UNCHANGED <<pendingSIGHUP, debounceMu, reload>>
    /\ UNCHANGED <<mu, allocatedPorts, portToVolume, stunnelStarted, timer, conf,
                   stunnel, locals>>

\* The result of reloadStunnel reaches its caller, who holds debounceMu: the
\* callback only logs a failure and unlocks; handleLastTunnelCleanup waits for
\* stunnel on success, and unlocks and returns the error on failure.
ReloadReturns(ok) ==
    /\ reload' = "none"
    /\ IF debounceMu = Callback
         THEN debounceMu' = NoProc /\ UNCHANGED pc
         ELSE /\ Goto(debounceMu, IF ok THEN "r_settle" ELSE "r_undo")
              /\ debounceMu' = IF ok THEN debounceMu ELSE NoProc
    /\ UNCHANGED <<mu, allocatedPorts, portToVolume, stunnelStarted, pendingSIGHUP,
                   timer, fired, conf, running, loaded, vol, loc>>

\* pgrep finds the process.
ReloadFindsPid ==
    /\ reload = "pgrep"
    /\ running
    /\ reload' = "kill"
    /\ UNCHANGED <<mu, debounceMu, allocatedPorts, portToVolume, stunnelStarted,
                   pendingSIGHUP, timer, fired, conf, stunnel, locals>>

\* pgrep finds nothing, times out or lists several PIDs, or kill is refused.
ReloadFails ==
    /\ \/ reload = "pgrep" /\ ~running
       \/ reload # "none" /\ "reload" \in Faults
    /\ ReloadReturns(FALSE)
    /\ UNCHANGED hup

\* kill delivers the signal; when the process is gone it reports ESRCH, which
\* counts as success.
ReloadKills ==
    /\ reload \in {"kill", "stale"}
    /\ hup' = IF reload = "kill" THEN TRUE ELSE hup
    /\ ReloadReturns(TRUE)

-----------------------------------------------------------------------------
(* RemoveTunnel *)

\* Mutant of RemoveLookup: the reverse map keeps its entry.
RemoveLookupOneMap(p, inUse) ==
    /\ pc[p] = "r_call"
    /\ mu = NoProc
    /\ IF ~HasTunnel(vol[p]) \/ inUse
         THEN Goto(p, "ok") /\ UNCHANGED <<allocatedPorts, loc>>
         ELSE /\ SetLoc(p, allocatedPorts[vol[p]])
              /\ allocatedPorts' = [allocatedPorts EXCEPT ![vol[p]] = NoPort]
              /\ Goto(p, "r_file")
    /\ UNCHANGED <<mu, debounceMu, portToVolume, stunnelStarted, pendingSIGHUP, timer,
                   fired, reload, conf, stunnel, vol>>

\* The critical section under mu: nothing to do, the port is still mounted (or
\* /proc/mounts is unreadable), or the tunnel leaves both maps.  inUse is what
\* isTunnelPortInUse answers.
RemoveLookup(p, inUse) ==
    /\ pc[p] = "r_call"
    /\ mu = NoProc
    /\ IF ~HasTunnel(vol[p]) \/ inUse
         THEN /\ Goto(p, "ok")
              /\ UNCHANGED <<allocatedPorts, portToVolume, loc>>
         ELSE LET isLastTunnel == \A w \in Volumes \ {vol[p]} : ~HasTunnel(w)
              IN  /\ SetLoc(p, allocatedPorts[vol[p]])
                  /\ allocatedPorts' = [allocatedPorts EXCEPT ![vol[p]] = NoPort]
                  /\ portToVolume' =
                       [portToVolume EXCEPT ![allocatedPorts[vol[p]]] = NoVolume]
                  /\ Goto(p, IF isLastTunnel THEN "r_last" ELSE "r_file")
    /\ UNCHANGED <<mu, debounceMu, stunnelStarted, pendingSIGHUP, timer, fired,
                   reload, conf, stunnel, vol>>

\* handleLastTunnelCleanup: the pending SIGHUP is cancelled and one is sent now.
LastTunnelCleanup(p) ==
    /\ pc[p] = "r_last"
    /\ debounceMu = NoProc
    /\ debounceMu' = p
    /\ timer' = FALSE
    /\ pendingSIGHUP' = FALSE
    /\ reload' = "pgrep"
    /\ Goto(p, "r_reload")
    /\ UNCHANGED <<mu, allocatedPorts, portToVolume, stunnelStarted, fired, conf,
                   stunnel, vol, loc>>

\* Mutant of LastTunnelSettled: debounceMu stays locked.
LastTunnelSettledLocked(p) ==
    /\ pc[p] = "r_settle"
    /\ stunnelStarted' = FALSE
    /\ Goto(p, "r_lastfile")
    /\ UNCHANGED <<mu, debounceMu, allocatedPorts, portToVolume, pendingSIGHUP, timer,
                   fired, reload, conf, stunnel, vol, loc>>

\* After the reload wait stunnelStarted is cleared, without mu.
LastTunnelSettled(p) ==
    /\ pc[p] = "r_settle"
    /\ stunnelStarted' = FALSE
    /\ debounceMu' = NoProc
    /\ Goto(p, "r_lastfile")
    /\ UNCHANGED <<mu, allocatedPorts, portToVolume, pendingSIGHUP, timer, fired,
                   reload, conf, stunnel, vol, loc>>

\* os.Remove; only a tunnel that was not the last one needs a SIGHUP after it.
RemoveFile(p) ==
    /\ pc[p] \in {"r_file", "r_lastfile"}
    /\ conf' = [conf EXCEPT ![vol[p]] = NoFile]
    /\ Goto(p, IF pc[p] = "r_file" THEN "r_hup" ELSE "ok")
    /\ UNCHANGED <<memory, stunnel, vol, loc>>

RemoveFileFails(p) ==
    /\ pc[p] \in {"r_file", "r_lastfile"}
    /\ "remove" \in Faults
    /\ conf[vol[p]] # NoFile
    /\ Goto(p, "r_undo")
    /\ UNCHANGED <<memory, conf, stunnel, vol, loc>>

\* The rollback puts the old entries back into both maps.
RemoveUndo(p) ==
    /\ pc[p] = "r_undo"
    /\ mu = NoProc
    /\ allocatedPorts' = [allocatedPorts EXCEPT ![vol[p]] = loc[p]]
    /\ portToVolume' = [portToVolume EXCEPT ![loc[p]] = vol[p]]
    /\ Goto(p, "failed")
    /\ UNCHANGED <<mu, debounceMu, stunnelStarted, pendingSIGHUP, timer, fired,
                   reload, conf, stunnel, vol, loc>>

-----------------------------------------------------------------------------
(* The stunnel container (external) and the restart of the driver.         *)

\* The wrapper starts stunnel once there is a file; stunnel reads them all.
StunnelStarts ==
    /\ ~running
    /\ \E v \in Volumes : conf[v] # NoFile
    /\ running' = TRUE
    /\ loaded' = ServicesOnDisk
    /\ hup' = FALSE
    /\ UNCHANGED <<memory, conf, locals>>

\* stunnel acts on a SIGHUP: it reads the directory again.
StunnelReloads ==
    /\ hup
    /\ loaded' = ServicesOnDisk
    /\ hup' = FALSE
    /\ UNCHANGED <<memory, conf, running, locals>>

\* stunnel dies; a PID that reloadStunnel already holds becomes stale.
StunnelCrashes ==
    /\ "stunnel" \in Faults
    /\ running
    /\ running' = FALSE
    /\ loaded' = [v \in Volumes |-> NoPort]
    /\ hup' = FALSE
    /\ reload' = IF reload = "kill" THEN "stale" ELSE reload
    /\ UNCHANGED <<mu, debounceMu, allocatedPorts, portToVolume, stunnelStarted,
                   pendingSIGHUP, timer, fired, conf, locals>>

\* Mutants of Recovered: the last port of the range is taken to lie outside it;
\* only one of the maps is rebuilt.
RecoveredButLastPort(onDisk) ==
    LET kept == [v \in Volumes |->
                    IF onDisk[v] = InitialPort + PortRange - 1 THEN NoPort ELSE onDisk[v]]
    IN  /\ allocatedPorts' = kept
        /\ portToVolume' = [q \in Ports |->
                IF \E v \in Volumes : kept[v] = q
                  THEN CHOOSE v \in Volumes : kept[v] = q ELSE NoVolume]

RecoveredOneMap(onDisk) ==
    /\ allocatedPorts' = onDisk
    /\ portToVolume' = [q \in Ports |-> NoVolume]

\* recoverExistingTunnels: each readable file in the port range is entered in
\* both maps, in directory order; when two name one port the later one wins.
Recovered(onDisk) ==
    /\ allocatedPorts' = onDisk
    /\ portToVolume' \in [Ports -> Volumes \cup {NoVolume}]
    /\ \A q \in Ports :
         LET holders == {v \in Volumes : onDisk[v] = q}
         IN  portToVolume'[q] \in IF holders = {} THEN {NoVolume} ELSE holders

\* The driver container dies at any point and NewStunnelManager runs again.
DriverCrashes ==
    /\ "crash" \in Faults
    /\ mu' = NoProc /\ debounceMu' = NoProc
    /\ \/ Recovered(ServicesOnDisk)
       \/ "readdir" \in Faults /\ Recovered([v \in Volumes |-> NoPort])
    /\ stunnelStarted' = FALSE
    /\ pendingSIGHUP' = FALSE /\ timer' = FALSE /\ fired' = 0
    /\ reload' = "none"
    /\ pc' = [p \in Procs |-> "idle"]
    /\ vol' = [p \in Procs |-> NoVolume]
    /\ loc' = [p \in Procs |-> NoPort]
    /\ UNCHANGED <<conf, stunnel>>

-----------------------------------------------------------------------------

Call(p) ==
    \/ \E v \in Volumes : Free(v) /\ (CallEnsure(p, v) \/ CallRemove(p, v))
    \/ CallRejected(p)

\* One step of a goroutine inside EnsureTunnel or RemoveTunnel.
Step(p) ==
    \/ EnsureFast(p) \/ EnsureExisting(p) \/ EnsureRefused(p)
    \/ EnsureWrite(p) \/ EnsureWriteFails(p) \/ EnsureCommit(p)
    \/ EnsureProbe(p) \/ EnsureStarted(p) \/ EnsureRollback(p)
    \/ ScheduleDebouncedSIGHUP(p)
    \/ \E inUse \in BOOLEAN : RemoveLookup(p, inUse)
    \/ LastTunnelCleanup(p) \/ LastTunnelSettled(p)
    \/ RemoveFile(p) \/ RemoveFileFails(p) \/ RemoveUndo(p)
    \/ Return(p)

Reload == ReloadFindsPid \/ ReloadFails \/ ReloadKills

Next ==
    \/ \E p \in Procs : Call(p) \/ Step(p)
    \/ TimerFires \/ CallbackRuns \/ Reload
    \/ StunnelStarts \/ StunnelReloads \/ StunnelCrashes
    \/ DriverCrashes

Spec == Init /\ [][Next]_vars

-----------------------------------------------------------------------------
(* Safety properties *)

\* The two mutexes are held exactly by the goroutines whose code is between a
\* Lock and its Unlock, and reloadStunnel only runs for the holder of debounceMu.
LockDiscipline ==
    /\ \A p \in Procs : HoldsMu(p) <=> mu = p
    /\ \A p \in Procs : HoldsDebounceMu(p) <=> debounceMu = p
    /\ reload # "none" <=> \/ debounceMu = Callback
                          \/ \E p \in Procs : pc[p] = "r_reload"

\* A wanted SIGHUP is never forgotten: while pendingSIGHUP is set, a timer is
\* armed or a callback that will look at the flag has started, however
\* scheduleDebouncedSIGHUP, handleLastTunnelCleanup and late callbacks
\* interleave.
PendingHasTimer == pendingSIGHUP => timer \/ fired > 0

ReloadComing == hup \/ pendingSIGHUP \/ reload \in {"pgrep", "kill"}

\* No configuration file is left unread: when stunnel runs without the service
\* of a complete file, a SIGHUP is on its way or the EnsureTunnel call that
\* wrote the file has yet to ask for one.  RemoveTunnel of the last tunnel,
\* which cancels the pending SIGHUP, may not cost another volume its reload.
NoLostReload ==
    \A v \in Volumes :
        (running /\ conf[v] \in Ports /\ loaded[v] # conf[v]) =>
            \/ ReloadComing
            \/ \E p \in Procs : vol[p] = v /\ pc[p] \in {"e_probe", "e_hup"}

\* The two port maps are inverse to each other, so that no port is given to two
\* volumes and findAvailablePort skips every allocated port.
MapsInverse ==
    \A v \in Volumes, q \in Ports :
        allocatedPorts[v] = q <=> portToVolume[q] = v

\* The maps and the services directory agree about every volume no call is
\* working on: a tunnel has its file with its port, and a volume without a
\* tunnel has no file that stunnel or a recovery would take for one.
MapsMatchFiles ==
    \A v \in Volumes :
        (\A p \in Procs : vol[p] # v) =>
            allocatedPorts[v] = IF conf[v] \in Ports THEN conf[v] ELSE NoPort

-----------------------------------------------------------------------------
(* Liveness.  Every goroutine keeps running: the sleeps end, and pgrep has a *)
(* timeout.  Go's mutexes hand the lock to a goroutine that has waited long  *)
(* enough, hence strong fairness for the steps that take a lock.  The timer  *)
(* is only sure to fire once nobody re-arms it any more: every               *)
(* scheduleDebouncedSIGHUP starts the window again.  The wrapper starts      *)
(* stunnel and stunnel acts on signals.                                      *)

AllIdle == \A p \in Procs : pc[p] = "idle"

\* A goroutine is about to start the debounce window again.
Rearming == \E p \in Procs : pc[p] \in {"e_hup", "r_hup"}

Fairness ==
    /\ \A p \in Procs : SF_vars(Step(p))
    /\ WF_vars(~Rearming /\ TimerFires)
    /\ SF_vars(CallbackRuns)
    /\ WF_vars(Reload)
    /\ WF_vars(StunnelStarts)
    /\ WF_vars(StunnelReloads)

FairSpec == Spec /\ Fairness

\* Every EnsureTunnel and RemoveTunnel call returns: mu is taken before
\* debounceMu and never the other way round, so nobody waits for ever.
EveryCallReturns == \A p \in Procs : pc[p] # "idle" ~> pc[p] = "idle"

\* When calls stop, stunnel ends up running exactly the services the files ask
\* for.  The tunnel removed last may stay loaded: RemoveTunnel sends no SIGHUP
\* after deleting its file.
AllTunnelsServed ==
    <>[]AllIdle => <>[](\A v \in Volumes : conf[v] \in Ports => loaded[v] = conf[v])
=============================================================================
