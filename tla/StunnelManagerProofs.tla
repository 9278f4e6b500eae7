------------------------ MODULE StunnelManagerProofs ------------------------
(***************************************************************************)
(* Theorems about the tunnel manager, for any number of goroutines,        *)
(* volumes and ports.  The provers see StunnelManager as it is; nothing is *)
(* assumed beyond the named assumptions on its constants and, where a      *)
(* theorem says so, the absence of some faults.                            *)
(***************************************************************************)
EXTENDS StunnelManager, TLAPS

-----------------------------------------------------------------------------
(* Type correctness *)

\* A goroutine inside EnsureTunnel or RemoveTunnel works on a volume: the
\* lookups allocatedPorts[volumeID] are defined.
CallHasVolume ==
    \A p \in Procs : pc[p] \in EnsureSteps \cup RemoveSteps => vol[p] \in Volumes

TypeInv == TypeOK /\ CallHasVolume

LEMMA PortFacts == NoPort \notin Ports /\ NoFile \notin Ports /\ Torn \notin Ports
BY PortsAssumption DEF Ports, NoPort, NoFile, Torn

LEMMA ServicesOnDiskType ==
    ServicesOnDisk \in [Volumes -> Ports \cup {NoPort}]
BY DEF ServicesOnDisk

LEMMA TypeStep == TypeInv /\ LockDiscipline /\ [Next]_vars => TypeInv'
<1> SUFFICES ASSUME TypeInv, LockDiscipline, [Next]_vars PROVE TypeInv'
  OBVIOUS
<1> USE DEF TypeInv, TypeOK, CallHasVolume, memory, stunnel, locals, Goto,
            SetLoc,
            NoPort, NoFile, Steps, EnsureSteps, RemoveSteps
<1>1. CASE UNCHANGED vars
  BY <1>1 DEF vars
<1>2. ASSUME NEW p \in Procs, Call(p) PROVE TypeInv'
  BY <1>2 DEF Call, CallEnsure, CallRemove, CallRejected
<1>3. ASSUME NEW p \in Procs, Step(p) PROVE TypeInv'
  <2>1. CASE EnsureFast(p)
    BY <2>1 DEF EnsureFast, HasTunnel
  <2>2. CASE EnsureExisting(p)
    BY <2>2 DEF EnsureExisting, HasTunnel
  <2>3. CASE EnsureRefused(p)
    BY <2>3 DEF EnsureRefused
  <2>4. CASE EnsureWrite(p)
    BY <2>4 DEF EnsureWrite, FreePorts
  <2>5. CASE EnsureWriteFails(p)
    BY <2>5 DEF EnsureWriteFails
  <2>6. CASE EnsureCommit(p)
    BY <2>6 DEF EnsureCommit
  <2>7. CASE EnsureProbe(p)
    BY <2>7 DEF EnsureProbe
  <2>8. CASE EnsureStarted(p)
    BY <2>8 DEF EnsureStarted
  <2>9. CASE EnsureRollback(p)
    BY <2>9 DEF EnsureRollback
  <2>10. CASE ScheduleDebouncedSIGHUP(p)
    BY <2>10 DEF ScheduleDebouncedSIGHUP
  <2>11. ASSUME NEW inUse \in BOOLEAN, RemoveLookup(p, inUse) PROVE TypeInv'
    BY <2>11 DEF RemoveLookup, HasTunnel
  <2>12. CASE LastTunnelCleanup(p)
    BY <2>12 DEF LastTunnelCleanup
  <2>13. CASE LastTunnelSettled(p)
    BY <2>13 DEF LastTunnelSettled
  <2>14. CASE RemoveFile(p)
    BY <2>14 DEF RemoveFile
  <2>15. CASE RemoveFileFails(p)
    BY <2>15 DEF RemoveFileFails
  <2>16. CASE RemoveUndo(p)
    BY <2>16 DEF RemoveUndo
  <2>17. CASE Return(p)
    BY <2>17 DEF Return
  <2> QED
    BY <1>3, <2>1, <2>2, <2>3, <2>4, <2>5, <2>6, <2>7, <2>8, <2>9, <2>10, <2>11,
       <2>12, <2>13, <2>14, <2>15, <2>16, <2>17 DEF Step
<1>4. CASE TimerFires
  <2>1. fired' \in 0 .. MaxFired
    BY <1>4, BoundAssumption DEF TimerFires
  <2> QED
    BY <1>4, <2>1 DEF TimerFires
<1>5. CASE CallbackRuns
  <2>1. fired' \in 0 .. MaxFired
    BY <1>5, BoundAssumption DEF CallbackRuns
  <2>2. /\ pendingSIGHUP' \in BOOLEAN
        /\ debounceMu' \in Procs \cup {NoProc, Callback}
        /\ reload' \in {"none", "pgrep", "kill", "stale"}
    BY <1>5 DEF CallbackRuns
  <2> QED
    BY <1>5, <2>1, <2>2 DEF CallbackRuns
<1>6. CASE Reload
  <2>1. CASE ReloadFindsPid
    BY <2>1 DEF ReloadFindsPid
  <2>2. CASE ReloadFails
    <3>1. debounceMu \in Procs => pc[debounceMu] \in RemoveSteps
      BY DEF LockDiscipline, HoldsDebounceMu
    <3>2. pc' \in [Procs -> Steps] /\ CallHasVolume'
      BY <2>2, <3>1 DEF ReloadFails, ReloadReturns
    <3> QED
      BY <2>2, <3>2 DEF ReloadFails, ReloadReturns
  <2>3. CASE ReloadKills
    <3>1. debounceMu \in Procs => pc[debounceMu] \in RemoveSteps
      BY DEF LockDiscipline, HoldsDebounceMu
    <3>2. pc' \in [Procs -> Steps] /\ CallHasVolume'
      BY <2>3, <3>1 DEF ReloadKills, ReloadReturns
    <3> QED
      BY <2>3, <3>2 DEF ReloadKills, ReloadReturns
  <2> QED
    BY <1>6, <2>1, <2>2, <2>3 DEF Reload
<1>7. CASE StunnelStarts
  BY <1>7, ServicesOnDiskType DEF StunnelStarts
<1>8. CASE StunnelReloads
  BY <1>8, ServicesOnDiskType DEF StunnelReloads
<1>9. CASE StunnelCrashes
  BY <1>9 DEF StunnelCrashes
<1>10. CASE DriverCrashes
  <2>1. /\ allocatedPorts' \in [Volumes -> Ports \cup {NoPort}]
        /\ portToVolume' \in [Ports -> Volumes \cup {NoVolume}]
    BY <1>10, ServicesOnDiskType DEF DriverCrashes, Recovered
  <2>2. /\ pc' \in [Procs -> Steps] /\ CallHasVolume'
        /\ vol' \in [Procs -> Volumes \cup {NoVolume}]
        /\ loc' \in [Procs -> Ports \cup {NoPort}]
    BY <1>10 DEF DriverCrashes
  <2>3. fired' \in 0 .. MaxFired
    BY <1>10, BoundAssumption DEF DriverCrashes
  <2> QED
    BY <1>10, <2>1, <2>2, <2>3 DEF DriverCrashes
<1> QED
  BY <1>1, <1>2, <1>3, <1>4, <1>5, <1>6, <1>7, <1>8, <1>9, <1>10 DEF Next

LEMMA InitType == Init => TypeInv
<1> SUFFICES ASSUME Init PROVE TypeInv
  OBVIOUS
<1>1. fired \in 0 .. MaxFired
  BY BoundAssumption DEF Init
<1>2. /\ pc \in [Procs -> Steps] /\ CallHasVolume
  BY DEF Init, CallHasVolume, Steps, EnsureSteps, RemoveSteps
<1> QED
  BY <1>1, <1>2 DEF Init, TypeInv, TypeOK, NoPort, NoFile

-----------------------------------------------------------------------------
(* The two mutexes *)

LEMMA LockStep == TypeOK /\ LockDiscipline /\ [Next]_vars => LockDiscipline'
<1> SUFFICES ASSUME TypeOK, LockDiscipline, [Next]_vars PROVE LockDiscipline'
  OBVIOUS
<1> USE SentinelAssumption DEF TypeOK, LockDiscipline, HoldsMu, HoldsDebounceMu,
            memory, stunnel, locals, Goto, SetLoc
<1>1. CASE UNCHANGED vars
  BY <1>1 DEF vars
<1>2. ASSUME NEW p \in Procs, Call(p) PROVE LockDiscipline'
  BY <1>2 DEF Call, CallEnsure, CallRemove, CallRejected
<1>3. ASSUME NEW p \in Procs, Step(p) PROVE LockDiscipline'
  <2>1. CASE EnsureFast(p)
    BY <2>1 DEF EnsureFast
  <2>2. CASE EnsureExisting(p)
    BY <2>2 DEF EnsureExisting
  <2>3. CASE EnsureRefused(p)
    BY <2>3 DEF EnsureRefused
  <2>4. CASE EnsureWrite(p)
    BY <2>4 DEF EnsureWrite
  <2>5. CASE EnsureWriteFails(p)
    BY <2>5 DEF EnsureWriteFails
  <2>6. CASE EnsureCommit(p)
    BY <2>6 DEF EnsureCommit
  <2>7. CASE EnsureProbe(p)
    BY <2>7 DEF EnsureProbe
  <2>8. CASE EnsureStarted(p)
    BY <2>8 DEF EnsureStarted
  <2>9. CASE EnsureRollback(p)
    BY <2>9 DEF EnsureRollback
  <2>10. CASE ScheduleDebouncedSIGHUP(p)
    BY <2>10 DEF ScheduleDebouncedSIGHUP
  <2>11. ASSUME NEW inUse \in BOOLEAN, RemoveLookup(p, inUse) PROVE LockDiscipline'
    BY <2>11 DEF RemoveLookup
  <2>12. CASE LastTunnelCleanup(p)
    BY <2>12 DEF LastTunnelCleanup
  <2>13. CASE LastTunnelSettled(p)
    BY <2>13 DEF LastTunnelSettled
  <2>14. CASE RemoveFile(p)
    BY <2>14 DEF RemoveFile
  <2>15. CASE RemoveFileFails(p)
    BY <2>15 DEF RemoveFileFails
  <2>16. CASE RemoveUndo(p)
    BY <2>16 DEF RemoveUndo
  <2>17. CASE Return(p)
    BY <2>17 DEF Return
  <2> QED
    BY <1>3, <2>1, <2>2, <2>3, <2>4, <2>5, <2>6, <2>7, <2>8, <2>9, <2>10, <2>11,
       <2>12, <2>13, <2>14, <2>15, <2>16, <2>17 DEF Step
<1>4. CASE TimerFires
  BY <1>4 DEF TimerFires
<1>5. CASE CallbackRuns
  BY <1>5 DEF CallbackRuns
<1>6. CASE Reload
  <2>1. CASE ReloadFindsPid
    BY <2>1 DEF ReloadFindsPid
  <2>2. CASE ReloadFails
    BY <2>2 DEF ReloadFails, ReloadReturns
  <2>3. CASE ReloadKills
    BY <2>3 DEF ReloadKills, ReloadReturns
  <2> QED
    BY <1>6, <2>1, <2>2, <2>3 DEF Reload
<1>7. CASE StunnelStarts
  BY <1>7 DEF StunnelStarts
<1>8. CASE StunnelReloads
  BY <1>8 DEF StunnelReloads
<1>9. CASE StunnelCrashes
  BY <1>9 DEF StunnelCrashes
<1>10. CASE DriverCrashes
  BY <1>10 DEF DriverCrashes
<1> QED
  BY <1>1, <1>2, <1>3, <1>4, <1>5, <1>6, <1>7, <1>8, <1>9, <1>10 DEF Next

LEMMA PendingStep == TypeOK /\ PendingHasTimer /\ [Next]_vars => PendingHasTimer'
<1> SUFFICES ASSUME TypeOK, PendingHasTimer, [Next]_vars PROVE PendingHasTimer'
  OBVIOUS
<1> USE DEF TypeOK, PendingHasTimer, memory, stunnel, locals, Goto, SetLoc
<1>1. CASE UNCHANGED vars
  BY <1>1 DEF vars
<1>2. ASSUME NEW p \in Procs, Call(p) PROVE PendingHasTimer'
  BY <1>2 DEF Call, CallEnsure, CallRemove, CallRejected
<1>3. ASSUME NEW p \in Procs, Step(p) PROVE PendingHasTimer'
  <2>1. CASE EnsureFast(p)
    BY <2>1 DEF EnsureFast
  <2>2. CASE EnsureExisting(p)
    BY <2>2 DEF EnsureExisting
  <2>3. CASE EnsureRefused(p)
    BY <2>3 DEF EnsureRefused
  <2>4. CASE EnsureWrite(p)
    BY <2>4 DEF EnsureWrite
  <2>5. CASE EnsureWriteFails(p)
    BY <2>5 DEF EnsureWriteFails
  <2>6. CASE EnsureCommit(p)
    BY <2>6 DEF EnsureCommit
  <2>7. CASE EnsureProbe(p)
    BY <2>7 DEF EnsureProbe
  <2>8. CASE EnsureStarted(p)
    BY <2>8 DEF EnsureStarted
  <2>9. CASE EnsureRollback(p)
    BY <2>9 DEF EnsureRollback
  <2>10. CASE ScheduleDebouncedSIGHUP(p)
    BY <2>10 DEF ScheduleDebouncedSIGHUP
  <2>11. ASSUME NEW inUse \in BOOLEAN, RemoveLookup(p, inUse) PROVE PendingHasTimer'
    BY <2>11 DEF RemoveLookup
  <2>12. CASE LastTunnelCleanup(p)
    BY <2>12 DEF LastTunnelCleanup
  <2>13. CASE LastTunnelSettled(p)
    BY <2>13 DEF LastTunnelSettled
  <2>14. CASE RemoveFile(p)
    BY <2>14 DEF RemoveFile
  <2>15. CASE RemoveFileFails(p)
    BY <2>15 DEF RemoveFileFails
  <2>16. CASE RemoveUndo(p)
    BY <2>16 DEF RemoveUndo
  <2>17. CASE Return(p)
    BY <2>17 DEF Return
  <2> QED
    BY <1>3, <2>1, <2>2, <2>3, <2>4, <2>5, <2>6, <2>7, <2>8, <2>9, <2>10, <2>11,
       <2>12, <2>13, <2>14, <2>15, <2>16, <2>17 DEF Step
<1>4. CASE TimerFires
  BY <1>4 DEF TimerFires
<1>5. CASE CallbackRuns
  BY <1>5 DEF CallbackRuns
<1>6. CASE Reload
  <2>1. CASE ReloadFindsPid
    BY <2>1 DEF ReloadFindsPid
  <2>2. CASE ReloadFails
    BY <2>2 DEF ReloadFails, ReloadReturns
  <2>3. CASE ReloadKills
    BY <2>3 DEF ReloadKills, ReloadReturns
  <2> QED
    BY <1>6, <2>1, <2>2, <2>3 DEF Reload
<1>7. CASE StunnelStarts
  BY <1>7 DEF StunnelStarts
<1>8. CASE StunnelReloads
  BY <1>8 DEF StunnelReloads
<1>9. CASE StunnelCrashes
  BY <1>9 DEF StunnelCrashes
<1>10. CASE DriverCrashes
  BY <1>10 DEF DriverCrashes
<1> QED
  BY <1>1, <1>2, <1>3, <1>4, <1>5, <1>6, <1>7, <1>8, <1>9, <1>10 DEF Next

LEMMA TypeAndLocks == Spec => [](TypeInv /\ LockDiscipline)
<1>1. Init => LockDiscipline
  BY SentinelAssumption DEF Init, LockDiscipline, HoldsMu, HoldsDebounceMu
<1>2. TypeInv => TypeOK
  BY DEF TypeInv
<1> QED
  BY <1>1, <1>2, InitType, TypeStep, LockStep, PTL DEF Spec

\* Every reachable state of the tunnel manager has the types of TypeOK: in
\* particular findAvailablePort never leaves the configured port range and the
\* lookups by volume ID are defined.
THEOREM TypeCorrect == Spec => []TypeOK
<1>1. TypeInv => TypeOK
  BY DEF TypeInv
<1> QED
  BY <1>1, TypeAndLocks, PTL

\* mu and debounceMu are held exactly between their Lock and Unlock, on every
\* path through EnsureTunnel, RemoveTunnel and the timer callback, errors and
\* restarts included.
THEOREM LocksCorrect == Spec => []LockDiscipline
BY TypeAndLocks, PTL

\* A wanted SIGHUP always has a timer or a callback that will look at it, however
\* often scheduleDebouncedSIGHUP and handleLastTunnelCleanup stop the timer.
THEOREM PendingCorrect == Spec => []PendingHasTimer
<1>1. Init => PendingHasTimer
  BY DEF Init, PendingHasTimer
<1> QED
  BY <1>1, TypeCorrect, PendingStep, PTL DEF Spec

-----------------------------------------------------------------------------
(* No configuration file is left unread *)

\* A pgrep that finds stunnel is right; one that finds nothing is right unless it
\* timed out.
LEMMA ProbeAnswers ==
    /\ TRUE \in isStunnelRunning => running
    /\ FALSE \in isStunnelRunning /\ "pgrep" \notin Faults => ~running
    /\ \A up \in isStunnelRunning : up => running
    /\ \A up \in isStunnelRunning : ~up /\ "pgrep" \notin Faults => ~running
BY Zenon DEF isStunnelRunning

LEMMA ReloadStep ==
  ASSUME Faults \cap {"crash", "reload", "pgrep"} = {}
  PROVE  TypeInv /\ LockDiscipline /\ NoLostReload /\ [Next]_vars => NoLostReload'
<1> SUFFICES ASSUME TypeInv, LockDiscipline, NoLostReload, [Next]_vars PROVE NoLostReload'
  OBVIOUS
<1> USE PortFacts DEF TypeInv, TypeOK, LockDiscipline, HoldsDebounceMu,
            NoLostReload, ReloadComing, memory, stunnel, locals, Goto, SetLoc
<1>1. CASE UNCHANGED vars
  BY <1>1 DEF vars
<1>2. ASSUME NEW p \in Procs, Call(p) PROVE NoLostReload'
  <2>1. \A q \in Procs : pc[q] \in {"e_probe", "e_hup"} => pc'[q] = pc[q] /\ vol'[q] = vol[q]
    BY <1>2 DEF Call, CallEnsure, CallRemove, CallRejected
  <2>2. UNCHANGED <<memory, conf, stunnel>>
    BY <1>2 DEF Call, CallEnsure, CallRemove, CallRejected
  <2> QED
    BY <2>1, <2>2
<1>3. ASSUME NEW p \in Procs, Step(p) PROVE NoLostReload'
  <2>1. CASE EnsureFast(p)
    BY <2>1 DEF EnsureFast
  <2>2. CASE EnsureExisting(p)
    BY <2>2 DEF EnsureExisting
  <2>3. CASE EnsureRefused(p)
    BY <2>3 DEF EnsureRefused
  <2>4. CASE EnsureWrite(p)
    BY <2>4 DEF EnsureWrite
  <2>5. CASE EnsureWriteFails(p)
    BY <2>5 DEF EnsureWriteFails
  <2>6. CASE EnsureCommit(p)
    BY <2>6 DEF EnsureCommit
  <2>7. CASE EnsureProbe(p)
    BY <2>7, ProbeAnswers DEF EnsureProbe
  <2>8. CASE EnsureStarted(p)
    BY <2>8 DEF EnsureStarted
  <2>9. CASE EnsureRollback(p)
    BY <2>9 DEF EnsureRollback
  <2>10. CASE ScheduleDebouncedSIGHUP(p)
    BY <2>10 DEF ScheduleDebouncedSIGHUP
  <2>11. ASSUME NEW inUse \in BOOLEAN, RemoveLookup(p, inUse) PROVE NoLostReload'
    BY <2>11 DEF RemoveLookup
  <2>12. CASE LastTunnelCleanup(p)
    BY <2>12 DEF LastTunnelCleanup
  <2>13. CASE LastTunnelSettled(p)
    BY <2>13 DEF LastTunnelSettled
  <2>14. CASE RemoveFile(p)
    BY <2>14 DEF RemoveFile
  <2>15. CASE RemoveFileFails(p)
    BY <2>15 DEF RemoveFileFails
  <2>16. CASE RemoveUndo(p)
    BY <2>16 DEF RemoveUndo
  <2>17. CASE Return(p)
    BY <2>17 DEF Return
  <2> QED
    BY <1>3, <2>1, <2>2, <2>3, <2>4, <2>5, <2>6, <2>7, <2>8, <2>9, <2>10, <2>11,
       <2>12, <2>13, <2>14, <2>15, <2>16, <2>17 DEF Step
<1>4. CASE TimerFires
  BY <1>4 DEF TimerFires
<1>5. CASE CallbackRuns
  BY <1>5 DEF CallbackRuns
<1>6. CASE Reload
  <2>1. CASE ReloadFindsPid
    BY <2>1 DEF ReloadFindsPid
  <2>2. CASE ReloadFails
    BY <2>2 DEF ReloadFails, ReloadReturns
  <2>3. CASE ReloadKills
    BY <2>3 DEF ReloadKills, ReloadReturns
  <2> QED
    BY <1>6, <2>1, <2>2, <2>3 DEF Reload
<1>7. CASE StunnelStarts
  BY <1>7 DEF StunnelStarts, ServicesOnDisk
<1>8. CASE StunnelReloads
  BY <1>8 DEF StunnelReloads, ServicesOnDisk
<1>9. CASE StunnelCrashes
  BY <1>9 DEF StunnelCrashes
<1>10. CASE DriverCrashes
  BY <1>10 DEF DriverCrashes
<1> QED
  BY <1>1, <1>2, <1>3, <1>4, <1>5, <1>6, <1>7, <1>8, <1>9, <1>10 DEF Next

\* No configuration file is left unread, for any number of concurrent calls, also
\* on one volume, with stunnel dying and files that cannot be written or
\* removed.  The three faults excluded are those that do lose a reload.
THEOREM ReloadCorrect ==
  ASSUME Faults \cap {"crash", "reload", "pgrep"} = {}
  PROVE  Spec => []NoLostReload
<1>1. Init => NoLostReload
  BY DEF Init, NoLostReload
<1> QED
  BY <1>1, TypeAndLocks, ReloadStep, PTL DEF Spec

-----------------------------------------------------------------------------
(* The port maps *)

\* While EnsureTunnel writes the file, its port belongs to nobody, and after the
\* commit to its volume alone: mu keeps every other goroutine out.
PortReserved ==
    \A p \in Procs :
        /\ pc[p] = "e_write" => /\ loc[p] \in Ports
                                /\ ~HasTunnel(vol[p])
                                /\ portToVolume[loc[p]] = NoVolume
        /\ pc[p] \in {"e_probe", "e_wait"} => /\ loc[p] \in Ports
                                              /\ allocatedPorts[vol[p]] = loc[p]

\* A tunnel that the maps have, and nobody is still starting, has a running
\* stunnel, so the SIGHUP of the last RemoveTunnel finds a process and nothing
\* is rolled back.
TunnelRuns ==
    /\ stunnelStarted => running
    /\ \A v \in Volumes :
         HasTunnel(v) => \/ running
                         \/ \E p \in Procs : vol[p] = v /\ pc[p] \in {"e_probe", "e_wait"}
    /\ \A p \in Procs : pc[p] \in {"r_last", "r_reload"} => running
    /\ \A p \in Procs : pc[p] # "r_undo"

MapInv == MapsInverse /\ PortReserved /\ TunnelRuns

LEMMA MapsStep ==
  ASSUME Faults \cap {"crash", "stunnel", "remove", "reload"} = {}
  PROVE  TypeInv /\ LockDiscipline /\ MapInv /\ [Next]_vars => MapInv'
<1> SUFFICES ASSUME TypeInv, LockDiscipline, MapInv, [Next]_vars PROVE MapInv'
  OBVIOUS
<1> USE SentinelAssumption, PortFacts DEF TypeInv, TypeOK, CallHasVolume,
            EnsureSteps, RemoveSteps, LockDiscipline, HoldsMu, HoldsDebounceMu,
            HasTunnel, MapInv, MapsInverse, PortReserved, TunnelRuns, memory,
            stunnel, locals, Goto, SetLoc
<1>1. CASE UNCHANGED vars
  BY <1>1 DEF vars
<1>2. ASSUME NEW p \in Procs, Call(p) PROVE MapInv'
  BY <1>2 DEF Call, CallEnsure, CallRemove, CallRejected
<1>3. ASSUME NEW p \in Procs, Step(p) PROVE MapInv'
  <2>1. CASE EnsureFast(p)
    BY <2>1 DEF EnsureFast
  <2>2. CASE EnsureExisting(p)
    BY <2>2 DEF EnsureExisting
  <2>3. CASE EnsureRefused(p)
    BY <2>3 DEF EnsureRefused
  <2>4. CASE EnsureWrite(p)
    BY <2>4 DEF EnsureWrite, FreePorts
  <2>5. CASE EnsureWriteFails(p)
    BY <2>5 DEF EnsureWriteFails
  <2>6. CASE EnsureCommit(p)
    BY <2>6 DEF EnsureCommit
  <2>7. CASE EnsureProbe(p)
    BY <2>7, ProbeAnswers DEF EnsureProbe
  <2>8. CASE EnsureStarted(p)
    BY <2>8, ProbeAnswers DEF EnsureStarted
  <2>9. CASE EnsureRollback(p)
    BY <2>9 DEF EnsureRollback
  <2>10. CASE ScheduleDebouncedSIGHUP(p)
    BY <2>10 DEF ScheduleDebouncedSIGHUP
  <2>11. ASSUME NEW inUse \in BOOLEAN, RemoveLookup(p, inUse) PROVE MapInv'
    BY <2>11 DEF RemoveLookup
  <2>12. CASE LastTunnelCleanup(p)
    BY <2>12 DEF LastTunnelCleanup
  <2>13. CASE LastTunnelSettled(p)
    BY <2>13 DEF LastTunnelSettled
  <2>14. CASE RemoveFile(p)
    BY <2>14 DEF RemoveFile
  <2>15. CASE RemoveFileFails(p)
    BY <2>15 DEF RemoveFileFails
  <2>16. CASE RemoveUndo(p)
    BY <2>16 DEF RemoveUndo
  <2>17. CASE Return(p)
    BY <2>17 DEF Return
  <2> QED
    BY <1>3, <2>1, <2>2, <2>3, <2>4, <2>5, <2>6, <2>7, <2>8, <2>9, <2>10, <2>11,
       <2>12, <2>13, <2>14, <2>15, <2>16, <2>17 DEF Step
<1>4. CASE TimerFires
  BY <1>4 DEF TimerFires
<1>5. CASE CallbackRuns
  BY <1>5 DEF CallbackRuns
<1>6. CASE Reload
  <2>1. CASE ReloadFindsPid
    BY <2>1 DEF ReloadFindsPid
  <2>2. CASE ReloadFails
    BY <2>2 DEF ReloadFails, ReloadReturns
  <2>3. CASE ReloadKills
    BY <2>3 DEF ReloadKills, ReloadReturns
  <2> QED
    BY <1>6, <2>1, <2>2, <2>3 DEF Reload
<1>7. CASE StunnelStarts
  BY <1>7 DEF StunnelStarts
<1>8. CASE StunnelReloads
  BY <1>8 DEF StunnelReloads
<1>9. CASE StunnelCrashes
  BY <1>9 DEF StunnelCrashes
<1>10. CASE DriverCrashes
  BY <1>10 DEF DriverCrashes
<1> QED
  BY <1>1, <1>2, <1>3, <1>4, <1>5, <1>6, <1>7, <1>8, <1>9, <1>10 DEF Next

\* The port maps stay inverse to each other, for any number of concurrent calls,
\* also on one volume, as long as RemoveTunnel has no reason to roll back and the
\* maps are not rebuilt from the files of half-done calls.
THEOREM MapsCorrect ==
  ASSUME Faults \cap {"crash", "stunnel", "remove", "reload"} = {}
  PROVE  Spec => []MapsInverse
<1>1. Init => MapInv
  BY SentinelAssumption, PortFacts
     DEF Init, MapInv, MapsInverse, PortReserved, TunnelRuns, HasTunnel
<1>2. MapInv => MapsInverse
  BY DEF MapInv
<1> QED
  BY <1>1, <1>2, TypeAndLocks, MapsStep, PTL DEF Spec

-----------------------------------------------------------------------------
(* The maps and the services directory *)

\* What a RemoveTunnel call does after it has taken the tunnel out of the maps and
\* until its file is gone or the entries are put back.
Removing(p) == pc[p] \in {"r_last", "r_reload", "r_settle", "r_file", "r_lastfile", "r_undo"}

OneCallPerVolume ==
    \A p, q \in Procs : vol[p] = vol[q] /\ vol[p] \in Volumes => p = q

\* The port that a rollback would put back is the one in the file.
FileKept ==
    \A p \in Procs :
        /\ Removing(p) => loc[p] \in Ports /\ conf[vol[p]] = loc[p] /\ ~HasTunnel(vol[p])
        /\ pc[p] = "e_write" => loc[p] \in Ports

FilesInv ==
    /\ OneCallPerVolume /\ FileKept
    /\ \A v \in Volumes :
         \/ allocatedPorts[v] = IF conf[v] \in Ports THEN conf[v] ELSE NoPort
         \/ \E p \in Procs : vol[p] = v /\ Removing(p)

LEMMA FilesInit == Init => FilesInv
BY SentinelAssumption, PortFacts
   DEF Init, FilesInv, OneCallPerVolume, FileKept, Removing, NoFile, NoPort

LEMMA OneCallStep ==
  ASSUME Serialised
  PROVE  TypeInv /\ OneCallPerVolume /\ [Next]_vars => OneCallPerVolume'
<1> SUFFICES ASSUME TypeInv, OneCallPerVolume, [Next]_vars PROVE OneCallPerVolume'
  OBVIOUS
<1> USE SentinelAssumption DEF TypeInv, TypeOK, OneCallPerVolume, locals
<1>1. CASE UNCHANGED vars
  BY <1>1 DEF vars
<1>2. ASSUME NEW p \in Procs, Call(p) PROVE OneCallPerVolume'
  BY <1>2 DEF Call, CallEnsure, CallRemove, CallRejected, Free
<1>3. ASSUME NEW p \in Procs, Return(p) PROVE OneCallPerVolume'
  BY <1>3 DEF Return
<1>4. CASE DriverCrashes
  BY <1>4 DEF DriverCrashes
<1>5. CASE UNCHANGED vol
  BY <1>5
<1>6. ASSUME NEW p \in Procs, Step(p), ~Return(p) PROVE UNCHANGED vol
  BY <1>6 DEF Step, EnsureFast, EnsureExisting, EnsureRefused, EnsureWrite,
     EnsureWriteFails, EnsureCommit, EnsureProbe, EnsureStarted, EnsureRollback,
     ScheduleDebouncedSIGHUP, RemoveLookup, LastTunnelCleanup, LastTunnelSettled,
     RemoveFile, RemoveFileFails, RemoveUndo
<1>7. TimerFires \/ CallbackRuns \/ Reload \/ StunnelStarts \/ StunnelReloads
        \/ StunnelCrashes => UNCHANGED vol
  BY DEF TimerFires, CallbackRuns, Reload, ReloadFindsPid, ReloadFails, ReloadKills,
     ReloadReturns, StunnelStarts, StunnelReloads, StunnelCrashes
<1> QED
  BY <1>1, <1>2, <1>3, <1>4, <1>5, <1>6, <1>7 DEF Next

LEMMA FilesStep ==
  ASSUME Faults \cap {"remove", "readdir"} = {}
  PROVE  TypeInv /\ LockDiscipline /\ FilesInv /\ [Next]_vars /\ OneCallPerVolume'
             => FilesInv'
<1> SUFFICES ASSUME TypeInv, LockDiscipline, FilesInv, [Next]_vars, OneCallPerVolume'
             PROVE  FilesInv'
  OBVIOUS
<1> USE SentinelAssumption, PortFacts DEF TypeInv, TypeOK, CallHasVolume,
            EnsureSteps, RemoveSteps, HasTunnel, FilesInv, OneCallPerVolume, FileKept,
            Removing, memory, stunnel, locals, Goto, SetLoc
<1>1. CASE UNCHANGED vars
  BY <1>1 DEF vars
<1>2. ASSUME NEW p \in Procs, Call(p) PROVE FilesInv'
  BY <1>2 DEF Call, CallEnsure, CallRemove, CallRejected
<1>3. ASSUME NEW p \in Procs, Step(p) PROVE FilesInv'
  <2>1. CASE EnsureFast(p)
    BY <2>1 DEF EnsureFast
  <2>2. CASE EnsureExisting(p)
    BY <2>2 DEF EnsureExisting
  <2>3. CASE EnsureRefused(p)
    BY <2>3 DEF EnsureRefused
  <2>4. CASE EnsureWrite(p)
    BY <2>4 DEF EnsureWrite, FreePorts
  <2>5. CASE EnsureWriteFails(p)
    BY <2>5 DEF EnsureWriteFails
  <2>6. CASE EnsureCommit(p)
    BY <2>6 DEF EnsureCommit
  <2>7. CASE EnsureProbe(p)
    BY <2>7 DEF EnsureProbe
  <2>8. CASE EnsureStarted(p)
    BY <2>8 DEF EnsureStarted
  <2>9. CASE EnsureRollback(p)
    BY <2>9 DEF EnsureRollback
  <2>10. CASE ScheduleDebouncedSIGHUP(p)
    BY <2>10 DEF ScheduleDebouncedSIGHUP
  <2>11. ASSUME NEW inUse \in BOOLEAN, RemoveLookup(p, inUse) PROVE FilesInv'
    BY <2>11 DEF RemoveLookup
  <2>12. CASE LastTunnelCleanup(p)
    BY <2>12 DEF LastTunnelCleanup
  <2>13. CASE LastTunnelSettled(p)
    BY <2>13 DEF LastTunnelSettled
  <2>14. CASE RemoveFile(p)
    BY <2>14 DEF RemoveFile
  <2>15. CASE RemoveFileFails(p)
    BY <2>15 DEF RemoveFileFails
  <2>16. CASE RemoveUndo(p)
    BY <2>16 DEF RemoveUndo
  <2>17. CASE Return(p)
    BY <2>17 DEF Return
  <2> QED
    BY <1>3, <2>1, <2>2, <2>3, <2>4, <2>5, <2>6, <2>7, <2>8, <2>9, <2>10, <2>11,
       <2>12, <2>13, <2>14, <2>15, <2>16, <2>17 DEF Step
<1>4. CASE TimerFires
  BY <1>4 DEF TimerFires
<1>5. CASE CallbackRuns
  BY <1>5 DEF CallbackRuns
<1>6. CASE Reload
  <2>1. CASE ReloadFindsPid
    BY <2>1 DEF ReloadFindsPid
  <2>2. CASE ReloadFails
    BY <2>2 DEF ReloadFails, ReloadReturns, LockDiscipline, HoldsDebounceMu
  <2>3. CASE ReloadKills
    BY <2>3 DEF ReloadKills, ReloadReturns, LockDiscipline, HoldsDebounceMu
  <2> QED
    BY <1>6, <2>1, <2>2, <2>3 DEF Reload
<1>7. CASE StunnelStarts
  BY <1>7 DEF StunnelStarts
<1>8. CASE StunnelReloads
  BY <1>8 DEF StunnelReloads
<1>9. CASE StunnelCrashes
  BY <1>9 DEF StunnelCrashes
<1>10. CASE DriverCrashes
  BY <1>10 DEF DriverCrashes, Recovered, ServicesOnDisk
<1> QED
  BY <1>1, <1>2, <1>3, <1>4, <1>5, <1>6, <1>7, <1>8, <1>9, <1>10 DEF Next

\* The maps and the files agree about every volume that no call is working on, if
\* callers run one call per volume at a time: across restarts of the driver between
\* any two steps, a dying stunnel, failed writes, failed reloads and the rollbacks
\* these cause.  The faults excluded are a file that cannot be removed and a services
\* directory that cannot be read: those do separate the two.
THEOREM FilesCorrect ==
  ASSUME Serialised, Faults \cap {"remove", "readdir"} = {}
  PROVE  Spec => []MapsMatchFiles
<1>1. Init => FilesInv
  BY FilesInit
<1>2. FilesInv => MapsMatchFiles
  BY DEF FilesInv, MapsMatchFiles
<1>3. FilesInv => OneCallPerVolume
  BY DEF FilesInv
<1> QED
  BY <1>1, <1>2, <1>3, TypeAndLocks, OneCallStep, FilesStep, PTL DEF Spec
=============================================================================
