----------------------------- MODULE NodeServer -----------------------------
(***************************************************************************)
(* The node plugin's volume handlers (pkg/ibmcsidriver/node.go and         *)
(* node_helper.go) on top of the tunnel manager, with kubelet as caller.   *)
(*                                                                         *)
(* NodePublishVolume mounts a share on a target path, through a tunnel of  *)
(* its own when the share is an RFS share with encryption in transit;      *)
(* NodeUnpublishVolume unmounts the path and then drops the tunnel if no   *)
(* mount uses it.  Both hold a lock on the target path, but two target     *)
(* paths of one share (two pods of a node) are served concurrently.        *)
(*                                                                         *)
(* A handler is a goroutine of StunnelManager: while its hpc is "p_tunnel" *)
(* or "u_tunnel" it is inside EnsureTunnel or RemoveTunnel.                *)
(***************************************************************************)
EXTENDS StunnelManager, Sequences

CONSTANTS
    Targets,      \* target paths
    ShareOf,      \* target path -> the share published there; NoVolume for a
                  \*   share that is mounted without a tunnel
    NodeFaults    \* the node's failures that may happen

NodeFaultNames == {
    "timeout",  \* kubelet gives up waiting for a call that still runs
    "refuse",   \* a request is refused: bad argument or source, stat error
    "manager",  \* a restart comes up without a tunnel manager
    "mount",    \* MakeDir or mount fails
    "unmount",  \* umount fails
    "mounts"}   \* /proc/mounts cannot be read

ASSUME TargetsAssumption ==
    /\ ShareOf \in [Targets -> Volumes \cup {NoVolume}]
    /\ NodeFaults \subseteq NodeFaultNames

VARIABLES
    mounts,       \* target path -> the ports mounted on it, innermost first
    targetLock,   \* target path -> the handler that holds its lock
    hpc, tgt,     \* per handler: next step and target path
    tunnelPort,   \* per handler: the port EnsureTunnel returned
    co,           \* kubelet's view of each target path
    wait,         \* the handler whose answer kubelet waits for, per target path
    hasMgr        \* StunnelMgr is not nil; while it is, the tunnel manager's own
                  \*   variables stand for what the next one will recover

handlers == <<hpc, tgt, tunnelPort>>
outer    == <<co, wait, hasMgr>>
node     == <<mounts, targetLock, handlers, outer>>
nodeVars == <<vars, node>>

\* A target path that no call is about.
NoTarget == NoVolume

HandlerSteps == {"idle", "p_check", "p_lock", "p_tunnel", "p_mount", "p_undo",
                 "u_lock", "u_unmount", "u_tunnel"}

\* One umount removes only the innermost mount; a stack of two is as deep as
\* two tunnels of one share can make it.
MaxStack == 2

NodeTypeOK ==
    /\ TypeOK
    /\ mounts \in [Targets -> Seq(Ports \cup {NoPort})]
    /\ targetLock \in [Targets -> Procs \cup {NoProc}]
    /\ hpc \in [Procs -> HandlerSteps]
    /\ tgt \in [Procs -> Targets \cup {NoTarget}]
    /\ tunnelPort \in [Procs -> Ports \cup {NoPort}]
    /\ co \in [Targets -> {"absent", "publishing", "published", "unpublishing"}]
    /\ wait \in [Targets -> Procs \cup {NoProc}]
    /\ hasMgr \in BOOLEAN

NodeInit ==
    /\ Init
    /\ mounts = [t \in Targets |-> <<>>]
    /\ targetLock = [t \in Targets |-> NoProc]
    /\ hpc = [h \in Procs |-> "idle"]
    /\ tgt = [h \in Procs |-> NoTarget]
    /\ tunnelPort = [h \in Procs |-> NoPort]
    /\ co = [t \in Targets |-> "absent"]
    /\ wait = [t \in Targets |-> NoProc]
    /\ hasMgr = TRUE

Enter(h, step) == hpc' = [hpc EXCEPT ![h] = step]
Mounted(t)     == mounts[t] # <<>>
UsesTunnel(t)  == ShareOf[t] # NoVolume

\* isTunnelPortInUse: the answers one reading of /proc/mounts can give.
isTunnelPortInUse(q) ==
    {\E t \in Targets : \E i \in DOMAIN mounts[t] : mounts[t][i] = q}
        \cup (IF "mounts" \in NodeFaults THEN {TRUE} ELSE {})

\* What the mount of handler h can reach: the NFS server itself, or the tunnel
\* if stunnel serves the share on the port the handler was given.
Reachable(h) ==
    LET v == ShareOf[tgt[h]]
    IN  v # NoVolume => running /\ loaded[v] = tunnelPort[h]

\* The deferred Unlock and the answer.  kubelet acts on it only if it still
\* waits for this handler.
Reply(h, ok) ==
    LET t == tgt[h]
        done == IF co[t] = "publishing" THEN "published" ELSE "absent"
    IN  /\ Enter(h, "idle")
        /\ tgt' = [tgt EXCEPT ![h] = NoTarget]
        /\ tunnelPort' = [tunnelPort EXCEPT ![h] = NoPort]
        /\ targetLock' = IF targetLock[t] = h
                           THEN [targetLock EXCEPT ![t] = NoProc] ELSE targetLock
        /\ IF wait[t] = h
             THEN /\ wait' = [wait EXCEPT ![t] = NoProc]
                  /\ co' = IF ok THEN [co EXCEPT ![t] = done] ELSE co
                  /\ UNCHANGED hasMgr
             ELSE UNCHANGED outer

-----------------------------------------------------------------------------
(* kubelet (external): it publishes a path until that succeeds or until it *)
(* gives up, and unpublishes it until that succeeds, one call at a time -  *)
(* except that a call it no longer waits for may still be running.         *)

Calls(h, t, step, state) ==
    /\ hpc[h] = "idle"
    /\ wait[t] = NoProc
    /\ Enter(h, step)
    /\ tgt' = [tgt EXCEPT ![h] = t]
    /\ wait' = [wait EXCEPT ![t] = h]
    /\ co' = [co EXCEPT ![t] = state]
    /\ UNCHANGED <<vars, mounts, targetLock, tunnelPort, hasMgr>>

KubeletPublish(h, t) ==
    co[t] \in {"absent", "publishing"} /\ Calls(h, t, "p_check", "publishing")

KubeletUnpublish(h, t) ==
    co[t] # "absent" /\ Calls(h, t, "u_lock", "unpublishing")

KubeletTimeout(t) ==
    /\ "timeout" \in NodeFaults
    /\ wait[t] # NoProc
    /\ wait' = [wait EXCEPT ![t] = NoProc]
    /\ UNCHANGED <<vars, mounts, targetLock, handlers, co, hasMgr>>

-----------------------------------------------------------------------------
(* NodePublishVolume *)

\* Request validation, or the mount point check, fails.
PublishRejected(h) ==
    /\ hpc[h] = "p_check"
    /\ "refuse" \in NodeFaults
    /\ Reply(h, FALSE)
    /\ UNCHANGED <<vars, mounts>>

\* IsLikelyNotMountPoint, before the lock: a mounted path is a success.
PublishCheck(h) ==
    /\ hpc[h] = "p_check"
    /\ IF Mounted(tgt[h])
         THEN Reply(h, TRUE)
         ELSE Enter(h, "p_lock") /\ UNCHANGED <<tgt, tunnelPort, targetLock, outer>>
    /\ UNCHANGED <<vars, mounts>>

\* The lock on the target path; an encrypted RFS share goes on to EnsureTunnel,
\* any other share to the mount.
PublishLock(h) ==
    /\ hpc[h] = "p_lock"
    /\ targetLock[tgt[h]] = NoProc
    /\ targetLock' = [targetLock EXCEPT ![tgt[h]] = h]
    /\ UsesTunnel(tgt[h]) => hasMgr
    /\ IF UsesTunnel(tgt[h])
         THEN Enter(h, "p_tunnel") /\ CallEnsure(h, ShareOf[tgt[h]])
         ELSE Enter(h, "p_mount") /\ UNCHANGED vars
    /\ UNCHANGED <<mounts, tgt, tunnelPort, outer>>

\* There is no tunnel manager, or the source is no <server>:/<path>.
PublishRefused(h) ==
    /\ hpc[h] = "p_lock"
    /\ ~hasMgr \/ "refuse" \in NodeFaults
    /\ targetLock[tgt[h]] = NoProc
    /\ UsesTunnel(tgt[h])
    /\ Reply(h, FALSE)
    /\ UNCHANGED <<vars, mounts>>

\* Mutant of PublishTunnel: after an error the handler deletes the file itself.
PublishTunnelCleansUp(h) ==
    /\ hpc[h] = "p_tunnel"
    /\ pc[h] \in {"ok", "failed"}
    /\ Goto(h, "idle") /\ SetLoc(h, NoPort)
    /\ vol' = [vol EXCEPT ![h] = NoVolume]
    /\ IF pc[h] = "ok"
         THEN /\ tunnelPort' = [tunnelPort EXCEPT ![h] = loc[h]]
              /\ Enter(h, "p_mount")
              /\ UNCHANGED <<conf, tgt, targetLock, outer>>
         ELSE /\ conf' = [conf EXCEPT ![ShareOf[tgt[h]]] = NoFile]
              /\ Reply(h, FALSE)
    /\ UNCHANGED <<memory, stunnel, mounts>>

\* EnsureTunnel returns a port, which becomes a mount option, or an error.
PublishTunnel(h) ==
    /\ hpc[h] = "p_tunnel"
    /\ Return(h)
    /\ IF pc[h] = "ok"
         THEN /\ tunnelPort' = [tunnelPort EXCEPT ![h] = loc[h]]
              /\ Enter(h, "p_mount")
              /\ UNCHANGED <<tgt, targetLock, outer>>
         ELSE Reply(h, FALSE)
    /\ UNCHANGED mounts

\* processMount: the mount succeeds.  Mounting what is already mounted there
\* fails (EBUSY); another tunnel of the share would be mounted on top.
PublishMounts(h) ==
    LET t == tgt[h]
    IN  /\ hpc[h] = "p_mount"
        /\ Reachable(h)
        /\ Mounted(t) => mounts[t][1] # tunnelPort[h] /\ Len(mounts[t]) < MaxStack
        /\ mounts' = [mounts EXCEPT ![t] = <<tunnelPort[h]>> \o @]
        /\ Reply(h, TRUE)
        /\ UNCHANGED vars

\* Mutant of PublishMountFails: the error is swallowed.
PublishMountIgnored(h) ==
    /\ hpc[h] = "p_mount"
    /\ ~Mounted(tgt[h])
    /\ Reachable(h) => "mount" \in NodeFaults
    /\ Reply(h, TRUE)
    /\ UNCHANGED <<vars, mounts>>

\* processMount: MakeDir fails, or the mount fails and the path is no mount
\* point.
PublishMountFails(h) ==
    /\ hpc[h] = "p_mount"
    /\ ~Mounted(tgt[h])
    /\ Reachable(h) => "mount" \in NodeFaults
    /\ Reply(h, FALSE)
    /\ UNCHANGED <<vars, mounts>>

\* processMount: the mount fails on a path that is a mount point.
PublishMountBusy(h) ==
    /\ hpc[h] = "p_mount"
    /\ Mounted(tgt[h])
    /\ \/ mounts[tgt[h]][1] = tunnelPort[h]
       \/ ~Reachable(h)
       \/ "mount" \in NodeFaults
    /\ Enter(h, "p_undo")
    /\ UNCHANGED <<vars, mounts, targetLock, tgt, tunnelPort, outer>>

\* processMount's error path unmounts the path, unless umount fails, and
\* returns the mount's error.
PublishUndo(h) ==
    /\ hpc[h] = "p_undo"
    /\ \/ mounts' = [mounts EXCEPT ![tgt[h]] = Tail(@)]
       \/ "unmount" \in NodeFaults /\ UNCHANGED mounts
    /\ Reply(h, FALSE)
    /\ UNCHANGED vars

-----------------------------------------------------------------------------
(* NodeUnpublishVolume *)

\* The request names no volume or no target path.
UnpublishRejected(h) ==
    /\ hpc[h] = "u_lock"
    /\ "refuse" \in NodeFaults
    /\ Reply(h, FALSE)
    /\ UNCHANGED <<vars, mounts>>

\* Mutant of UnpublishLock: the lock is not taken.
UnpublishUnlocked(h) ==
    /\ hpc[h] = "u_lock"
    /\ Enter(h, "u_unmount")
    /\ UNCHANGED <<vars, mounts, targetLock, tgt, tunnelPort, outer>>

UnpublishLock(h) ==
    /\ hpc[h] = "u_lock"
    /\ targetLock[tgt[h]] = NoProc
    /\ targetLock' = [targetLock EXCEPT ![tgt[h]] = h]
    /\ Enter(h, "u_unmount")
    /\ UNCHANGED <<vars, mounts, tgt, tunnelPort, outer>>

\* Mutant of UnpublishUnmounts: a path that is not mounted is a success at once,
\* which skips the tunnel when an earlier attempt stopped after the umount.
UnpublishUnmountedIsDone(h) ==
    LET t == tgt[h]
    IN  /\ hpc[h] = "u_unmount"
        /\ Len(mounts[t]) <= 1
        /\ mounts' = [mounts EXCEPT ![t] = <<>>]
        /\ IF UsesTunnel(t) /\ hasMgr /\ Mounted(t)
             THEN /\ Enter(h, "u_tunnel")
                  /\ CallRemove(h, ShareOf[t])
                  /\ UNCHANGED <<targetLock, tgt, tunnelPort, outer>>
             ELSE Reply(h, TRUE) /\ UNCHANGED vars

\* Mutant of UnpublishUnmounts: a path that is not mounted is an error, so that
\* an attempt that got past the umount cannot be repeated.
UnpublishNeedsMount(h) ==
    LET t == tgt[h]
    IN  /\ hpc[h] = "u_unmount"
        /\ Len(mounts[t]) <= 1
        /\ mounts' = [mounts EXCEPT ![t] = <<>>]
        /\ IF Mounted(t) /\ UsesTunnel(t) /\ hasMgr
             THEN /\ Enter(h, "u_tunnel")
                  /\ CallRemove(h, ShareOf[t])
                  /\ UNCHANGED <<targetLock, tgt, tunnelPort, outer>>
             ELSE Reply(h, Mounted(t)) /\ UNCHANGED vars

\* CleanupMountPoint leaves the path unmounted; RemoveTunnel follows, if there is
\* a tunnel manager.  It knows no tunnel of a share that never had one.
UnpublishUnmounts(h) ==
    LET t == tgt[h]
    IN  /\ hpc[h] = "u_unmount"
        /\ Len(mounts[t]) <= 1
        /\ mounts' = [mounts EXCEPT ![t] = <<>>]
        /\ IF UsesTunnel(t) /\ hasMgr
             THEN /\ Enter(h, "u_tunnel")
                  /\ CallRemove(h, ShareOf[t])
                  /\ UNCHANGED <<targetLock, tgt, tunnelPort, outer>>
             ELSE Reply(h, TRUE) /\ UNCHANGED vars

\* CleanupMountPoint fails: umount fails, or the path is still a mount point
\* after one umount.
UnpublishFails(h) ==
    LET t == tgt[h]
    IN  /\ hpc[h] = "u_unmount"
        /\ Mounted(t)
        /\ \/ Len(mounts[t]) > 1 /\ mounts' = [mounts EXCEPT ![t] = Tail(@)]
           \/ "unmount" \in NodeFaults /\ UNCHANGED mounts
        /\ Reply(h, FALSE)
        /\ UNCHANGED vars

\* RemoveTunnel's lookup reads /proc/mounts.
UnpublishLookup(h) ==
    /\ hpc[h] = "u_tunnel"
    /\ \E inUse \in isTunnelPortInUse(allocatedPorts[ShareOf[tgt[h]]]) :
         RemoveLookup(h, inUse)
    /\ UNCHANGED node

\* RemoveTunnel returns; its error makes kubelet try again.
UnpublishTunnel(h) ==
    /\ hpc[h] = "u_tunnel"
    /\ Return(h)
    /\ Reply(h, pc[h] = "ok")
    /\ UNCHANGED mounts

-----------------------------------------------------------------------------

\* A handler inside the tunnel manager.
InTunnelManager(h) ==
    /\ \/ EnsureFast(h) \/ EnsureExisting(h) \/ EnsureRefused(h)
       \/ EnsureWrite(h) \/ EnsureWriteFails(h) \/ EnsureCommit(h)
       \/ EnsureProbe(h) \/ EnsureStarted(h) \/ EnsureRollback(h)
       \/ ScheduleDebouncedSIGHUP(h)
       \/ LastTunnelCleanup(h) \/ LastTunnelSettled(h)
       \/ RemoveFile(h) \/ RemoveFileFails(h) \/ RemoveUndo(h)
    /\ UNCHANGED node

Publish(h) ==
    \/ PublishRejected(h) \/ PublishCheck(h) \/ PublishLock(h) \/ PublishRefused(h)
    \/ PublishTunnel(h) \/ PublishMounts(h) \/ PublishMountFails(h)
    \/ PublishMountBusy(h) \/ PublishUndo(h)

Unpublish(h) ==
    \/ UnpublishRejected(h) \/ UnpublishLock(h)
    \/ UnpublishUnmounts(h) \/ UnpublishFails(h)
    \/ UnpublishLookup(h) \/ UnpublishTunnel(h)

Background ==
    /\ TimerFires \/ CallbackRuns \/ Reload
         \/ StunnelStarts \/ StunnelReloads \/ StunnelCrashes
    /\ UNCHANGED node

\* The driver restarts: mounts survive, handlers and locks do not, and kubelet
\* sees its calls fail.  The set-up may go on without a tunnel manager.
NodeCrashes ==
    /\ DriverCrashes
    /\ hpc' = [h \in Procs |-> "idle"]
    /\ tgt' = [h \in Procs |-> NoTarget]
    /\ tunnelPort' = [h \in Procs |-> NoPort]
    /\ targetLock' = [t \in Targets |-> NoProc]
    /\ wait' = [t \in Targets |-> NoProc]
    /\ hasMgr' \in {TRUE} \cup {b \in {FALSE} : "manager" \in NodeFaults}
    /\ UNCHANGED <<mounts, co>>

NodeNext ==
    \/ \E h \in Procs :
         \/ \E t \in Targets : KubeletPublish(h, t) \/ KubeletUnpublish(h, t)
         \/ Publish(h) \/ Unpublish(h) \/ InTunnelManager(h)
    \/ \E t \in Targets : KubeletTimeout(t)
    \/ Background
    \/ NodeCrashes

NodeSpec == NodeInit /\ [][NodeNext]_nodeVars

-----------------------------------------------------------------------------
(* Properties *)

\* A volume kubelet was told is published is mounted: no late or repeated call
\* on the path undoes a mount whose success was reported.
PublishedIsMounted == \A t \in Targets : co[t] = "published" => Mounted(t)

\* The tunnel under a mount stays: its port remains allocated to the share and
\* its file remains in place as long as the path is mounted, so that neither a
\* RemoveTunnel for another pod nor a reload or restart of stunnel cuts it off.
MountKeepsTunnel ==
    \A t \in Targets :
        UsesTunnel(t) =>
            \A i \in DOMAIN mounts[t] :
                /\ allocatedPorts[ShareOf[t]] = mounts[t][i]
                /\ conf[ShareOf[t]] = mounts[t][i]

\* Nothing leaks: when every path of a share is unpublished and no call runs,
\* the paths are not mounted and the share has neither port nor file.
UnpublishedLeavesNothing ==
    (\A h \in Procs : hpc[h] = "idle") =>
        /\ \A t \in Targets : co[t] = "absent" => ~Mounted(t)
        /\ \A v \in Volumes :
             (\A t \in Targets : ShareOf[t] = v => co[t] = "absent") =>
                 ~HasTunnel(v) /\ conf[v] \notin Ports

\* Mounts on a target path change only under its lock, and only by the handler
\* that holds it, whatever calls kubelet has given up on.
MountsChangeUnderLock ==
    [][\A t \in Targets :
         mounts'[t] # mounts[t] =>
             \E h \in Procs : targetLock[t] = h /\ tgt[h] = t /\ hpc'[h] # hpc[h]]_nodeVars

\* The handlers use the tunnel manager as it expects to be used: every step of
\* the node is a step of StunnelManager or leaves it alone.
ImplementsTunnelManager == Spec

-----------------------------------------------------------------------------
(* Liveness: the scheduling StunnelManager assumes, handlers that keep running *)
(* and locks that are handed on, a wrapper that sooner or later starts stunnel *)
(* within the startup wait, and a kubelet that repeats a publish or an         *)
(* unpublish that failed.                                                      *)

NodeFairness ==
    /\ \A h \in Procs : SF_nodeVars(Publish(h) \/ Unpublish(h) \/ InTunnelManager(h))
    /\ \A t \in Targets :
         WF_nodeVars(\E h \in Procs :
             \/ co[t] = "publishing" /\ KubeletPublish(h, t)
             \/ co[t] = "unpublishing" /\ KubeletUnpublish(h, t))
    /\ WF_nodeVars(~Rearming /\ TimerFires /\ UNCHANGED node)
    /\ SF_nodeVars(CallbackRuns /\ UNCHANGED node)
    /\ WF_nodeVars(Reload /\ UNCHANGED node)
    /\ SF_nodeVars(StunnelStarts /\ UNCHANGED node)
    /\ WF_nodeVars(StunnelReloads /\ UNCHANGED node)

NodeFairSpec == NodeSpec /\ NodeFairness

\* From some point on nothing is asked of the other target paths.
OthersSettle(t) ==
    \A u \in Targets \ {t} : <>[](co[u] \in {"absent", "published"})

\* Retrying helps: once the other pods of the node have come to rest, a publish
\* that kubelet keeps repeating succeeds, unless kubelet gives the volume up.
\* EnsureTunnel may not keep answering with a tunnel that never comes up.
PublishSucceeds ==
    \A t \in Targets :
        OthersSettle(t) => (co[t] = "publishing" ~> co[t] # "publishing")

\* An unpublish that kubelet keeps repeating succeeds.
UnpublishSucceeds ==
    \A t \in Targets : co[t] = "unpublishing" ~> co[t] = "absent"
=============================================================================
