-------------------------- MODULE NodeServerProofs --------------------------
(***************************************************************************)
(* Theorems about the node plugin, for any number of handlers, target      *)
(* paths and shares: it implements the tunnel manager's specification, so  *)
(* that what is proved there holds on a node; only the holder of a target  *)
(* path's lock touches its mounts; a published path is mounted; the tunnel *)
(* under a mount stays; and unpublishing leaves nothing behind.            *)
(***************************************************************************)
EXTENDS NodeServer, StunnelManagerProofs, SequenceTheorems

-----------------------------------------------------------------------------
(* The target path locks *)

Locked == {"p_tunnel", "p_mount", "p_undo", "u_unmount", "u_tunnel"}

\* A call is about a target path, and past its Lock it owns that path's lock.
HandlerInv ==
    /\ targetLock \in [Targets -> Procs \cup {NoProc}]
    /\ hpc = [h \in Procs |-> hpc[h]]
    /\ tgt = [h \in Procs |-> tgt[h]]
    /\ mounts = [t \in Targets |-> mounts[t]]
    /\ \A h \in Procs :
         /\ hpc[h] # "idle" => tgt[h] \in Targets
         /\ hpc[h] \in Locked => targetLock[tgt[h]] = h

LEMMA HandlerInit == NodeInit => HandlerInv
BY DEF NodeInit, HandlerInv, Locked

LEMMA HandlerStep == HandlerInv /\ [NodeNext]_nodeVars => HandlerInv'
<1> SUFFICES ASSUME HandlerInv, [NodeNext]_nodeVars PROVE HandlerInv'
  OBVIOUS
<1> USE SentinelAssumption DEF HandlerInv, Locked, Enter, node, handlers, outer
<1>1. CASE UNCHANGED nodeVars
  BY <1>1 DEF nodeVars
<1>2. ASSUME NEW h \in Procs, NEW t \in Targets, KubeletPublish(h, t) PROVE HandlerInv'
  BY <1>2 DEF KubeletPublish, Calls
<1>3. ASSUME NEW h \in Procs, NEW t \in Targets, KubeletUnpublish(h, t) PROVE HandlerInv'
  BY <1>3 DEF KubeletUnpublish, Calls
<1>4. ASSUME NEW h \in Procs, Publish(h) PROVE HandlerInv'
  <2>1. CASE PublishRejected(h)
    BY <2>1 DEF PublishRejected, Reply
  <2>2. CASE PublishCheck(h)
    BY <2>2 DEF PublishCheck, Reply
  <2>3. CASE PublishLock(h)
    BY <2>3 DEF PublishLock
  <2>4. CASE PublishRefused(h)
    BY <2>4 DEF PublishRefused, Reply
  <2>5. CASE PublishTunnel(h)
    BY <2>5 DEF PublishTunnel, Reply
  <2>6. CASE PublishMounts(h)
    BY <2>6 DEF PublishMounts, Reply
  <2>7. CASE PublishMountFails(h)
    BY <2>7 DEF PublishMountFails, Reply
  <2>8. CASE PublishMountBusy(h)
    BY <2>8 DEF PublishMountBusy
  <2>9. CASE PublishUndo(h)
    BY <2>9 DEF PublishUndo, Reply
  <2> QED
    BY <1>4, <2>1, <2>2, <2>3, <2>4, <2>5, <2>6, <2>7, <2>8, <2>9 DEF Publish
<1>5. ASSUME NEW h \in Procs, Unpublish(h) PROVE HandlerInv'
  <2>1. CASE UnpublishLock(h)
    BY <2>1 DEF UnpublishLock
  <2>2. CASE UnpublishUnmounts(h)
    BY <2>2 DEF UnpublishUnmounts, Reply
  <2>3. CASE UnpublishFails(h)
    BY <2>3 DEF UnpublishFails, Reply
  <2>4. CASE UnpublishLookup(h)
    BY <2>4 DEF UnpublishLookup
  <2>5. CASE UnpublishTunnel(h)
    BY <2>5 DEF UnpublishTunnel, Reply
  <2>6. CASE UnpublishRejected(h)
    BY <2>6 DEF UnpublishRejected, Reply
  <2> QED
    BY <1>5, <2>1, <2>2, <2>3, <2>4, <2>5, <2>6 DEF Unpublish
<1>6. ASSUME NEW h \in Procs, InTunnelManager(h) PROVE HandlerInv'
  BY <1>6 DEF InTunnelManager
<1>7. ASSUME NEW t \in Targets, KubeletTimeout(t) PROVE HandlerInv'
  BY <1>7 DEF KubeletTimeout
<1>8. CASE Background
  BY <1>8 DEF Background
<1>9. CASE NodeCrashes
  BY <1>9 DEF NodeCrashes
<1> QED
  BY <1>1, <1>2, <1>3, <1>4, <1>5, <1>6, <1>7, <1>8, <1>9 DEF NodeNext

LEMMA HandlerCorrect == NodeSpec => []HandlerInv
BY HandlerInit, HandlerStep, PTL DEF NodeSpec

-----------------------------------------------------------------------------
(* The node implements the tunnel manager *)

LEMMA InUseIsBoolean == \A q : isTunnelPortInUse(q) \subseteq BOOLEAN
BY DEF isTunnelPortInUse

LEMMA NodeStepIsManagerStep ==
  ASSUME ~Serialised
  PROVE  HandlerInv /\ [NodeNext]_nodeVars => [Next]_vars
<1> SUFFICES ASSUME HandlerInv, [NodeNext]_nodeVars PROVE Next \/ UNCHANGED vars
  OBVIOUS
<1>1. CASE UNCHANGED nodeVars
  BY <1>1 DEF nodeVars
<1>2. ASSUME NEW h \in Procs, NEW t \in Targets,
             KubeletPublish(h, t) \/ KubeletUnpublish(h, t)
      PROVE  UNCHANGED vars
  BY <1>2 DEF KubeletPublish, KubeletUnpublish, Calls
<1>3. ASSUME NEW h \in Procs, hpc[h] # "idle", UsesTunnel(tgt[h]) 
      PROVE  ShareOf[tgt[h]] \in Volumes /\ Free(ShareOf[tgt[h]])
  BY <1>3, TargetsAssumption DEF HandlerInv, UsesTunnel, Free
<1>4. ASSUME NEW h \in Procs, Publish(h) PROVE Next \/ UNCHANGED vars
  <2>1. CASE PublishLock(h)
    BY <1>3, <2>1 DEF PublishLock, Next, Call
  <2>2. CASE PublishTunnel(h)
    BY <2>2 DEF PublishTunnel, Next, Step
  <2>3. CASE ~PublishLock(h) /\ ~PublishTunnel(h)
    BY <1>4, <2>3 DEF Publish, PublishRejected, PublishCheck, PublishRefused,
       PublishMounts, PublishMountFails, PublishMountBusy, PublishUndo
  <2> QED
    BY <2>1, <2>2, <2>3
<1>5. ASSUME NEW h \in Procs, Unpublish(h) PROVE Next \/ UNCHANGED vars
  <2>1. CASE UnpublishUnmounts(h)
    BY <1>3, <2>1 DEF UnpublishUnmounts, Next, Call
  <2>2. CASE UnpublishLookup(h)
    BY <2>2, InUseIsBoolean DEF UnpublishLookup, Next, Step
  <2>3. CASE UnpublishTunnel(h)
    BY <2>3 DEF UnpublishTunnel, Next, Step
  <2>4. CASE UnpublishRejected(h) \/ UnpublishLock(h) \/ UnpublishFails(h)
    BY <2>4 DEF UnpublishRejected, UnpublishLock, UnpublishFails
  <2> QED
    BY <1>5, <2>1, <2>2, <2>3, <2>4 DEF Unpublish
<1>6. ASSUME NEW h \in Procs, InTunnelManager(h) PROVE Next
  BY <1>6 DEF InTunnelManager, Next, Step
<1>7. ASSUME NEW t \in Targets, KubeletTimeout(t) PROVE UNCHANGED vars
  BY <1>7 DEF KubeletTimeout
<1>8. CASE Background
  BY <1>8 DEF Background, Next
<1>9. CASE NodeCrashes
  BY <1>9 DEF NodeCrashes, Next
<1> QED
  BY <1>1, <1>2, <1>4, <1>5, <1>6, <1>7, <1>8, <1>9 DEF NodeNext

\* The node plugin uses the tunnel manager as its specification allows: every step
\* of NodePublishVolume, NodeUnpublishVolume and their environment is a step of
\* StunnelManager or leaves it alone.  The target path locks do not serialise the
\* calls on one share, hence ~Serialised.
THEOREM NodeImplementsTunnelManager ==
  ASSUME ~Serialised
  PROVE  NodeSpec => ImplementsTunnelManager
<1>1. NodeInit => Init
  BY DEF NodeInit
<1> QED
  BY <1>1, HandlerCorrect, NodeStepIsManagerStep, PTL DEF NodeSpec, Spec, ImplementsTunnelManager

\* What is proved of the tunnel manager alone holds on a node.
THEOREM NodeKeepsReloads ==
  ASSUME ~Serialised, Faults \cap {"crash", "reload", "pgrep"} = {}
  PROVE  NodeSpec => []NoLostReload
BY NodeImplementsTunnelManager, ReloadCorrect, PTL DEF ImplementsTunnelManager

\* The port maps of a node stay inverse to each other, for any number of pods per share
\* and in whatever order their calls overlap, as long as RemoveTunnel has no reason to
\* roll back and the maps are not rebuilt from the files of half-done calls.
THEOREM NodeKeepsMaps ==
  ASSUME ~Serialised, Faults \cap {"crash", "stunnel", "remove", "reload"} = {}
  PROVE  NodeSpec => []MapsInverse
BY NodeImplementsTunnelManager, MapsCorrect, PTL DEF ImplementsTunnelManager

-----------------------------------------------------------------------------
(* Mounts *)

\* Mounts on a target path change only by the handler that holds the path's lock,
\* in whatever order calls arrive, time out and are repeated.
THEOREM MountsChangeOnlyUnderLock == NodeSpec => MountsChangeUnderLock
<1> DEFINE UnderLock ==
        \A t \in Targets :
            mounts'[t] # mounts[t] =>
                \E h \in Procs : targetLock[t] = h /\ tgt[h] = t /\ hpc'[h] # hpc[h]
<1>1. ASSUME HandlerInv, [NodeNext]_nodeVars PROVE UnderLock \/ UNCHANGED nodeVars
  <2> USE <1>1 DEF HandlerInv, Locked, Enter, node
  <2>1. ASSUME NEW h \in Procs, PublishMounts(h) PROVE UnderLock
    BY <2>1 DEF PublishMounts, Reply
  <2>2. ASSUME NEW h \in Procs, PublishUndo(h) PROVE UnderLock
    BY <2>2 DEF PublishUndo, Reply
  <2>3. ASSUME NEW h \in Procs, UnpublishUnmounts(h) PROVE UnderLock
    BY <2>3 DEF UnpublishUnmounts, Reply
  <2>4. ASSUME NEW h \in Procs, UnpublishFails(h) PROVE UnderLock
    BY <2>4 DEF UnpublishFails, Reply
  <2>5. ASSUME NEW h \in Procs,
               Publish(h) \/ Unpublish(h) \/ InTunnelManager(h)
        PROVE  UnderLock
    BY <2>1, <2>2, <2>3, <2>4, <2>5
       DEF Publish, Unpublish, InTunnelManager, PublishRejected, PublishCheck,
           PublishLock, PublishRefused, PublishTunnel, PublishMountFails,
           PublishMountBusy, UnpublishRejected, UnpublishLock, UnpublishLookup,
           UnpublishTunnel
  <2>6. CASE UNCHANGED mounts
    BY <2>6
  <2>7. ASSUME NEW h \in Procs, NEW t \in Targets,
               KubeletPublish(h, t) \/ KubeletUnpublish(h, t)
        PROVE  UNCHANGED mounts
    BY <2>7 DEF KubeletPublish, KubeletUnpublish, Calls
  <2>8. ASSUME NEW t \in Targets, KubeletTimeout(t) PROVE UNCHANGED mounts
    BY <2>8 DEF KubeletTimeout
  <2>9. Background \/ NodeCrashes => UNCHANGED mounts
    BY DEF Background, NodeCrashes
  <2> QED
    BY <2>5, <2>6, <2>7, <2>8, <2>9 DEF NodeNext
<1>2. NodeSpec => [][HandlerInv /\ NodeNext]_nodeVars
  BY HandlerCorrect, PTL DEF NodeSpec
<1>3. [HandlerInv /\ NodeNext]_nodeVars => [UnderLock]_nodeVars
  BY <1>1
<1> QED
  BY <1>2, <1>3, PTL DEF MountsChangeUnderLock
-----------------------------------------------------------------------------
(* Types *)

LEMMA NodeKeepsTypes ==
  ASSUME ~Serialised
  PROVE  NodeSpec => [](TypeInv /\ LockDiscipline)
BY NodeImplementsTunnelManager, TypeAndLocks, PTL DEF ImplementsTunnelManager

\* What a handler unmounts after a mount that failed is there: nobody else touches
\* the path.  It is what makes Tail meaningful.
UndoFindsMount == \A h \in Procs : hpc[h] = "p_undo" => Mounted(tgt[h])

HandlerTypes ==
    /\ mounts \in [Targets -> Seq(Ports \cup {NoPort})]
    /\ hpc \in [Procs -> HandlerSteps]
    /\ tgt \in [Procs -> Targets \cup {NoTarget}]
    /\ tunnelPort \in [Procs -> Ports \cup {NoPort}]
    /\ co \in [Targets -> {"absent", "publishing", "published", "unpublishing"}]
    /\ wait \in [Targets -> Procs \cup {NoProc}]
    /\ hasMgr \in BOOLEAN

NodeInv == HandlerInv /\ HandlerTypes /\ UndoFindsMount

LEMMA MountOnTop ==
  ASSUME NEW S, NEW x \in S, NEW s \in Seq(S)
  PROVE  <<x>> \o s \in Seq(S) /\ <<x>> \o s # <<>>
OBVIOUS

LEMMA MountRemoved ==
  ASSUME NEW S, NEW s \in Seq(S), s # <<>>
  PROVE  Tail(s) \in Seq(S)
OBVIOUS

LEMMA ReplyTypes ==
  ASSUME HandlerTypes, HandlerInv, NEW h \in Procs, hpc[h] # "idle", NEW ok \in BOOLEAN,
         Reply(h, ok)
  PROVE  /\ hpc' \in [Procs -> HandlerSteps]
         /\ tgt' \in [Procs -> Targets \cup {NoTarget}]
         /\ tunnelPort' \in [Procs -> Ports \cup {NoPort}]
         /\ co' \in [Targets -> {"absent", "publishing", "published", "unpublishing"}]
         /\ wait' \in [Targets -> Procs \cup {NoProc}]
         /\ hasMgr' \in BOOLEAN
         /\ \A g \in Procs : hpc'[g] = "p_undo" => hpc[g] = "p_undo" /\ tgt'[g] = tgt[g]
BY DEF HandlerTypes, HandlerInv, HandlerSteps, Reply, Enter, outer

LEMMA NodeInvStep ==
  TypeOK /\ NodeInv /\ [NodeNext]_nodeVars => NodeInv'
<1> SUFFICES ASSUME TypeOK, NodeInv, [NodeNext]_nodeVars PROVE HandlerTypes' /\ UndoFindsMount'
  BY HandlerStep DEF NodeInv
<1>0. HandlerInv /\ HandlerTypes /\ UndoFindsMount
  BY DEF NodeInv
<1> DEFINE G == HandlerTypes' /\ UndoFindsMount'
<1> USE <1>0
<1>1. CASE UNCHANGED nodeVars
  BY <1>1 DEF nodeVars, node, handlers, outer, HandlerTypes, UndoFindsMount, Mounted
<1>2. ASSUME NEW h \in Procs, NEW t \in Targets,
             KubeletPublish(h, t) \/ KubeletUnpublish(h, t)
      PROVE  G
  <2>1. CASE KubeletPublish(h, t)
    BY <2>1 DEF KubeletPublish, Calls, Enter, HandlerTypes, HandlerSteps, UndoFindsMount, Mounted
  <2>2. CASE KubeletUnpublish(h, t)
    BY <2>2 DEF KubeletUnpublish, Calls, Enter, HandlerTypes, HandlerSteps, UndoFindsMount, Mounted
  <2> QED
    BY <1>2, <2>1, <2>2
<1>3. ASSUME NEW h \in Procs, Publish(h) PROVE G
  <2>1. CASE PublishRejected(h) \/ PublishRefused(h) \/ PublishMountFails(h)
    BY <2>1, ReplyTypes DEF PublishRejected, PublishRefused, PublishMountFails, HandlerTypes,
       UndoFindsMount, Mounted
  <2>2. CASE PublishCheck(h)
    <3>1. CASE Mounted(tgt[h])
      BY <2>2, <3>1, ReplyTypes DEF PublishCheck, HandlerTypes, UndoFindsMount, Mounted
    <3>2. CASE ~Mounted(tgt[h])
      BY <2>2, <3>2 DEF PublishCheck, Enter, outer, HandlerTypes, HandlerSteps, UndoFindsMount,
         Mounted
    <3> QED
      BY <3>1, <3>2
  <2>3. CASE PublishLock(h)
    BY <2>3 DEF PublishLock, Enter, outer, HandlerTypes, HandlerSteps, UndoFindsMount, Mounted
  <2>4. CASE PublishTunnel(h)
    <3>1. CASE pc[h] = "ok"
      BY <2>4, <3>1 DEF PublishTunnel, Enter, outer, TypeOK, HandlerTypes, HandlerSteps,
         UndoFindsMount, Mounted
    <3>2. CASE pc[h] # "ok"
      BY <2>4, <3>2, ReplyTypes DEF PublishTunnel, HandlerTypes, UndoFindsMount, Mounted
    <3> QED
      BY <3>1, <3>2
  <2>5. CASE PublishMounts(h)
    <3>1. tgt[h] \in Targets /\ Reply(h, TRUE) /\ hpc[h] = "p_mount"
      BY <2>5 DEF PublishMounts, HandlerInv
    <3>2. <<tunnelPort[h]>> \o mounts[tgt[h]] \in Seq(Ports \cup {NoPort})
          /\ <<tunnelPort[h]>> \o mounts[tgt[h]] # <<>>
      BY <3>1, MountOnTop DEF HandlerTypes
    <3>3. mounts' = [mounts EXCEPT ![tgt[h]] = <<tunnelPort[h]>> \o mounts[tgt[h]]]
      BY <2>5 DEF PublishMounts
    <3>4. mounts' \in [Targets -> Seq(Ports \cup {NoPort})]
      BY <3>1, <3>2, <3>3 DEF HandlerTypes
    <3>5. \A g \in Procs : hpc[g] = "p_undo" => mounts'[tgt[g]] # <<>>
      BY <3>2, <3>3 DEF HandlerInv, UndoFindsMount, Mounted
    <3> QED
      BY <3>1, <3>4, <3>5, ReplyTypes DEF HandlerTypes, UndoFindsMount, Mounted
  <2>6. CASE PublishMountBusy(h)
    BY <2>6 DEF PublishMountBusy, Enter, outer, HandlerTypes, HandlerSteps, UndoFindsMount, Mounted
  <2>7. CASE PublishUndo(h)
    <3>1. tgt[h] \in Targets /\ Reply(h, FALSE) /\ hpc[h] = "p_undo" /\ mounts[tgt[h]] # <<>>
      BY <2>7 DEF PublishUndo, HandlerInv, UndoFindsMount, Mounted
    <3>2. Tail(mounts[tgt[h]]) \in Seq(Ports \cup {NoPort})
      BY <3>1, MountRemoved DEF HandlerTypes
    <3>3. \/ mounts' = [mounts EXCEPT ![tgt[h]] = Tail(mounts[tgt[h]])]
          \/ mounts' = mounts
      BY <2>7 DEF PublishUndo
    <3>4. mounts' \in [Targets -> Seq(Ports \cup {NoPort})]
      BY <3>1, <3>2, <3>3 DEF HandlerTypes
    <3>5. \A g \in Procs : g # h /\ hpc[g] = "p_undo" => mounts'[tgt[g]] # <<>>
      BY <3>1, <3>3 DEF HandlerInv, Locked, UndoFindsMount, Mounted
    <3>6. hpc'[h] # "p_undo"
      BY <3>1 DEF Reply, Enter, HandlerTypes
    <3> QED
      BY <3>1, <3>4, <3>5, <3>6, ReplyTypes DEF HandlerTypes, UndoFindsMount, Mounted
  <2> QED
    BY <1>3, <2>1, <2>2, <2>3, <2>4, <2>5, <2>6, <2>7 DEF Publish
<1>4. ASSUME NEW h \in Procs, Unpublish(h) PROVE G
  <2>1. CASE UnpublishRejected(h) \/ UnpublishTunnel(h)
    BY <2>1, ReplyTypes DEF UnpublishRejected, UnpublishTunnel, HandlerTypes, UndoFindsMount,
       Mounted
  <2>2. CASE UnpublishLock(h)
    BY <2>2 DEF UnpublishLock, Enter, outer, HandlerTypes, HandlerSteps, UndoFindsMount, Mounted
  <2>3. CASE UnpublishUnmounts(h)
    <3>1. tgt[h] \in Targets /\ hpc[h] = "u_unmount"
      BY <2>3 DEF UnpublishUnmounts, HandlerInv
    <3>2. mounts' = [mounts EXCEPT ![tgt[h]] = <<>>]
      BY <2>3 DEF UnpublishUnmounts
    <3>3. mounts' \in [Targets -> Seq(Ports \cup {NoPort})]
      BY <3>1, <3>2, <<>> \in Seq(Ports \cup {NoPort}) DEF HandlerTypes
    <3>4. \A g \in Procs : hpc[g] = "p_undo" => mounts'[tgt[g]] # <<>>
      BY <3>1, <3>2 DEF HandlerInv, Locked, UndoFindsMount, Mounted
    <3>5. CASE Reply(h, TRUE)
      BY <3>1, <3>3, <3>4, <3>5, ReplyTypes DEF HandlerTypes, UndoFindsMount, Mounted
    <3>6. CASE Enter(h, "u_tunnel") /\ UNCHANGED <<targetLock, tgt, tunnelPort, outer>>
      BY <3>1, <3>3, <3>4, <3>6 DEF Enter, outer, HandlerTypes, HandlerSteps, UndoFindsMount,
         Mounted
    <3> QED
      BY <2>3, <3>5, <3>6 DEF UnpublishUnmounts
  <2>4. CASE UnpublishFails(h)
    <3>1. tgt[h] \in Targets /\ hpc[h] = "u_unmount" /\ mounts[tgt[h]] # <<>> /\ Reply(h, FALSE)
      BY <2>4 DEF UnpublishFails, HandlerInv, Mounted
    <3>2. Tail(mounts[tgt[h]]) \in Seq(Ports \cup {NoPort})
      BY <3>1, MountRemoved DEF HandlerTypes
    <3>3. \/ mounts' = [mounts EXCEPT ![tgt[h]] = Tail(mounts[tgt[h]])]
          \/ mounts' = mounts
      BY <2>4 DEF UnpublishFails
    <3>4. mounts' \in [Targets -> Seq(Ports \cup {NoPort})]
      BY <3>1, <3>2, <3>3 DEF HandlerTypes
    <3>5. \A g \in Procs : hpc[g] = "p_undo" => mounts'[tgt[g]] # <<>>
      BY <3>1, <3>3 DEF HandlerInv, Locked, UndoFindsMount, Mounted
    <3> QED
      BY <3>1, <3>4, <3>5, ReplyTypes DEF HandlerTypes, UndoFindsMount, Mounted
  <2>5. CASE UnpublishLookup(h)
    BY <2>5 DEF UnpublishLookup, node, handlers, outer, HandlerTypes, UndoFindsMount, Mounted
  <2> QED
    BY <1>4, <2>1, <2>2, <2>3, <2>4, <2>5 DEF Unpublish
<1>5. CASE UNCHANGED node
  BY <1>5 DEF node, handlers, outer, HandlerTypes, UndoFindsMount, Mounted
<1>6. ASSUME NEW t \in Targets, KubeletTimeout(t) PROVE G
  BY <1>6 DEF KubeletTimeout, handlers, HandlerTypes, UndoFindsMount, Mounted
<1>7. CASE NodeCrashes
  BY <1>7 DEF NodeCrashes, HandlerTypes, HandlerSteps, UndoFindsMount, Mounted
<1> QED
  BY <1>1, <1>2, <1>3, <1>4, <1>5, <1>6, <1>7 DEF NodeNext, InTunnelManager, Background

LEMMA NodeInvCorrect ==
  ASSUME ~Serialised
  PROVE  NodeSpec => [](TypeInv /\ LockDiscipline /\ NodeInv)
<1>1. NodeInit => NodeInv
  BY HandlerInit DEF NodeInit, NodeInv, HandlerTypes, HandlerSteps, UndoFindsMount
<1>2. TypeInv => TypeOK
  BY DEF TypeInv
<1> QED
  BY <1>1, <1>2, NodeKeepsTypes, NodeInvStep, PTL DEF NodeSpec

\* The node's state keeps its types, in particular every mount is a stack of ports
\* of the range or direct mounts: a handler never takes a mount off a path that has
\* none, and never mounts through a port EnsureTunnel did not return.
THEOREM NodeTypes ==
  ASSUME ~Serialised
  PROVE  NodeSpec => []NodeTypeOK
<1>1. TypeInv /\ NodeInv => NodeTypeOK
  BY DEF TypeInv, NodeInv, HandlerInv, HandlerTypes, NodeTypeOK
<1> QED
  BY <1>1, NodeInvCorrect, PTL

-----------------------------------------------------------------------------
(* What kubelet is told, when it waits for every answer *)

PublishSteps   == {"p_check", "p_lock", "p_tunnel", "p_mount", "p_undo"}
UnpublishSteps == {"u_lock", "u_unmount", "u_tunnel"}

\* kubelet waits for every running call, so that a path has one call at a time and
\* the call does what kubelet wants of the path; a path is mounted when it counts
\* as published, and not mounted when it counts as absent or its tunnel is removed.
PathInv ==
    /\ \A h \in Procs :
         /\ hpc[h] # "idle" => wait[tgt[h]] = h
         /\ hpc[h] \in PublishSteps => co[tgt[h]] = "publishing"
         /\ hpc[h] \in UnpublishSteps => co[tgt[h]] = "unpublishing"
         /\ hpc[h] = "u_tunnel" => ~Mounted(tgt[h])
    /\ \A t \in Targets :
         /\ co[t] = "published" => Mounted(t)
         /\ co[t] = "absent" => ~Mounted(t)

\* One call per path.
LEMMA OwnPath ==
  ASSUME PathInv, NEW h \in Procs, NEW g \in Procs, hpc[h] # "idle", hpc[g] # "idle",
         tgt[g] = tgt[h]
  PROVE  g = h
BY DEF PathInv

\* The answer of a call keeps PathInv if success means what the call was for.
LEMMA ReplyKeepsPath ==
  ASSUME NodeInv, PathInv, NEW h \in Procs, hpc[h] # "idle", NEW ok \in BOOLEAN, Reply(h, ok),
         \A t \in Targets \ {tgt[h]} : mounts'[t] = mounts[t],
         ok /\ hpc[h] \in PublishSteps => mounts'[tgt[h]] # <<>>,
         ok /\ hpc[h] \in UnpublishSteps => mounts'[tgt[h]] = <<>>
  PROVE  PathInv'
<1>1. tgt[h] \in Targets /\ wait[tgt[h]] = h
  BY DEF NodeInv, HandlerInv, PathInv
<1>2. hpc[h] \in PublishSteps \/ hpc[h] \in UnpublishSteps
  BY DEF NodeInv, HandlerTypes, HandlerSteps, PublishSteps, UnpublishSteps
<1>3. /\ hpc'[h] = "idle"
      /\ \A g \in Procs \ {h} : hpc'[g] = hpc[g] /\ tgt'[g] = tgt[g]
  BY DEF Reply, Enter, NodeInv, HandlerInv
<1>4. \A t \in Targets \ {tgt[h]} : co'[t] = co[t] /\ wait'[t] = wait[t]
  BY <1>1 DEF Reply, NodeInv, HandlerTypes
<1>5. \/ ~ok /\ co'[tgt[h]] = co[tgt[h]]
      \/ ok /\ hpc[h] \in PublishSteps /\ co'[tgt[h]] = "published"
      \/ ok /\ hpc[h] \in UnpublishSteps /\ co'[tgt[h]] = "absent"
  BY <1>1, <1>2 DEF Reply, NodeInv, HandlerTypes, PathInv
<1>6. co[tgt[h]] \in {"publishing", "unpublishing"}
  BY <1>2 DEF PathInv
<1>7. ASSUME NEW g \in Procs, hpc'[g] # "idle"
      PROVE  hpc'[g] = hpc[g] /\ tgt'[g] = tgt[g] /\ tgt[g] \in Targets \ {tgt[h]}
  BY <1>3, <1>7, OwnPath DEF NodeInv, HandlerInv
<1>8. \A g \in Procs :
        /\ hpc'[g] # "idle" => wait'[tgt'[g]] = g
        /\ hpc'[g] \in PublishSteps => co'[tgt'[g]] = "publishing"
        /\ hpc'[g] \in UnpublishSteps => co'[tgt'[g]] = "unpublishing"
        /\ hpc'[g] = "u_tunnel" => mounts'[tgt'[g]] = <<>>
  BY <1>4, <1>7 DEF PathInv, PublishSteps, UnpublishSteps, Mounted
<1>9. \A t \in Targets :
        /\ co'[t] = "published" => mounts'[t] # <<>>
        /\ co'[t] = "absent" => mounts'[t] = <<>>
  BY <1>4, <1>5, <1>6 DEF PathInv, Mounted
<1> QED
  BY <1>8, <1>9 DEF PathInv, Mounted

\* So does a step to the next stage of a call.
LEMMA EnterKeepsPath ==
  ASSUME NodeInv, PathInv, NEW h \in Procs, hpc[h] # "idle", NEW step, Enter(h, step),
         UNCHANGED <<tgt, co, wait>>,
         \A t \in Targets \ {tgt[h]} : mounts'[t] = mounts[t],
         \/ hpc[h] \in PublishSteps /\ step \in PublishSteps
         \/ hpc[h] \in UnpublishSteps /\ step \in UnpublishSteps,
         step = "u_tunnel" => mounts'[tgt[h]] = <<>>
  PROVE  PathInv'
<1>1. tgt[h] \in Targets
  BY DEF NodeInv, HandlerInv
<1>2. hpc'[h] = step /\ \A g \in Procs \ {h} : hpc'[g] = hpc[g]
  BY DEF Enter, NodeInv, HandlerInv
<1>3. ASSUME NEW g \in Procs, g # h, hpc[g] # "idle" PROVE tgt[g] \in Targets \ {tgt[h]}
  BY <1>3, OwnPath DEF NodeInv, HandlerInv
<1>4. \A g \in Procs :
        /\ hpc'[g] # "idle" => wait[tgt[g]] = g
        /\ hpc'[g] \in PublishSteps => co[tgt[g]] = "publishing"
        /\ hpc'[g] \in UnpublishSteps => co[tgt[g]] = "unpublishing"
        /\ hpc'[g] = "u_tunnel" => mounts'[tgt[g]] = <<>>
  BY <1>2, <1>3 DEF PathInv, PublishSteps, UnpublishSteps, Mounted
<1>5. co[tgt[h]] \in {"publishing", "unpublishing"}
  BY DEF PathInv
<1>6. \A t \in Targets :
        /\ co[t] = "published" => mounts'[t] # <<>>
        /\ co[t] = "absent" => mounts'[t] = <<>>
  BY <1>5 DEF PathInv, Mounted
<1> QED
  BY <1>4, <1>6 DEF PathInv, Mounted

\* So does a call on a path that has none.
LEMMA CallKeepsPath ==
  ASSUME NodeInv, PathInv, NEW h \in Procs, NEW t \in Targets, NEW step, NEW state,
         Calls(h, t, step, state),
         \/ step = "p_check" /\ state = "publishing"
         \/ step = "u_lock" /\ state = "unpublishing"
  PROVE  PathInv'
<1>1. /\ hpc'[h] = step /\ tgt'[h] = t
      /\ \A g \in Procs \ {h} : hpc'[g] = hpc[g] /\ tgt'[g] = tgt[g]
  BY DEF Calls, Enter, NodeInv, HandlerInv
<1>2. /\ wait'[t] = h /\ co'[t] = state
      /\ \A u \in Targets \ {t} : co'[u] = co[u] /\ wait'[u] = wait[u]
  BY DEF Calls, NodeInv, HandlerTypes
<1>3. ASSUME NEW g \in Procs, g # h, hpc[g] # "idle" PROVE tgt[g] \in Targets \ {t}
  BY <1>3, SentinelAssumption DEF Calls, NodeInv, HandlerInv, PathInv
<1>4. mounts' = mounts
  BY DEF Calls
<1>5. \A g \in Procs :
        /\ hpc'[g] # "idle" => wait'[tgt'[g]] = g
        /\ hpc'[g] \in PublishSteps => co'[tgt'[g]] = "publishing"
        /\ hpc'[g] \in UnpublishSteps => co'[tgt'[g]] = "unpublishing"
        /\ hpc'[g] = "u_tunnel" => mounts[tgt'[g]] = <<>>
  BY <1>1, <1>2, <1>3 DEF PathInv, PublishSteps, UnpublishSteps, Mounted
<1>6. \A u \in Targets :
        /\ co'[u] = "published" => mounts[u] # <<>>
        /\ co'[u] = "absent" => mounts[u] = <<>>
  BY <1>2 DEF PathInv, Mounted
<1> QED
  BY <1>4, <1>5, <1>6 DEF PathInv, Mounted

LEMMA PathStep ==
  ASSUME "timeout" \notin NodeFaults
  PROVE  NodeInv /\ PathInv /\ [NodeNext]_nodeVars => PathInv'
<1> SUFFICES ASSUME NodeInv, PathInv, [NodeNext]_nodeVars PROVE PathInv'
  OBVIOUS
<1>1. CASE UNCHANGED nodeVars
  BY <1>1 DEF nodeVars, node, handlers, outer, PathInv, Mounted
<1>2. ASSUME NEW h \in Procs, NEW t \in Targets,
             KubeletPublish(h, t) \/ KubeletUnpublish(h, t)
      PROVE  PathInv'
  BY <1>2, CallKeepsPath DEF KubeletPublish, KubeletUnpublish
<1>3. ASSUME NEW h \in Procs, Publish(h) PROVE PathInv'
  <2> USE DEF PublishSteps, UnpublishSteps
  <2>1. CASE PublishRejected(h) \/ PublishRefused(h) \/ PublishMountFails(h)
    BY <2>1, ReplyKeepsPath DEF PublishRejected, PublishRefused, PublishMountFails
  <2>2. CASE PublishCheck(h)
    <3>1. CASE Mounted(tgt[h])
      BY <2>2, <3>1, ReplyKeepsPath DEF PublishCheck, Mounted
    <3>2. CASE ~Mounted(tgt[h])
      BY <2>2, <3>2, EnterKeepsPath DEF PublishCheck, outer
    <3> QED
      BY <3>1, <3>2
  <2>3. CASE PublishLock(h)
    <3>1. CASE UsesTunnel(tgt[h])
      BY <2>3, <3>1, EnterKeepsPath DEF PublishLock, outer
    <3>2. CASE ~UsesTunnel(tgt[h])
      BY <2>3, <3>2, EnterKeepsPath DEF PublishLock, outer
    <3> QED
      BY <3>1, <3>2
  <2>4. CASE PublishTunnel(h)
    <3>1. CASE pc[h] = "ok"
      BY <2>4, <3>1, EnterKeepsPath DEF PublishTunnel, outer
    <3>2. CASE pc[h] # "ok"
      BY <2>4, <3>2, ReplyKeepsPath DEF PublishTunnel
    <3> QED
      BY <3>1, <3>2
  <2>5. CASE PublishMounts(h)
    <3>1. tgt[h] \in Targets /\ Reply(h, TRUE) /\ hpc[h] = "p_mount"
      BY <2>5 DEF PublishMounts, NodeInv, HandlerInv
    <3>2. <<tunnelPort[h]>> \o mounts[tgt[h]] # <<>>
      BY <3>1, MountOnTop DEF NodeInv, HandlerTypes
    <3>3. mounts' = [mounts EXCEPT ![tgt[h]] = <<tunnelPort[h]>> \o mounts[tgt[h]]]
      BY <2>5 DEF PublishMounts
    <3>4. mounts'[tgt[h]] # <<>> /\ \A t \in Targets \ {tgt[h]} : mounts'[t] = mounts[t]
      BY <3>1, <3>2, <3>3 DEF NodeInv, HandlerTypes
    <3> QED
      BY <3>1, <3>4, ReplyKeepsPath
  <2>6. CASE PublishMountBusy(h)
    BY <2>6, EnterKeepsPath DEF PublishMountBusy, outer
  <2>7. CASE PublishUndo(h)
    <3>1. \A t \in Targets \ {tgt[h]} : mounts'[t] = mounts[t]
      BY <2>7 DEF PublishUndo, NodeInv, HandlerTypes
    <3> QED
      BY <2>7, <3>1, ReplyKeepsPath DEF PublishUndo
  <2> QED
    BY <1>3, <2>1, <2>2, <2>3, <2>4, <2>5, <2>6, <2>7 DEF Publish
<1>4. CASE UNCHANGED node
  BY <1>4 DEF node, handlers, outer, PathInv, Mounted
<1>5. ASSUME NEW h \in Procs, Unpublish(h) PROVE PathInv'
  <2> USE DEF PublishSteps, UnpublishSteps
  <2>1. CASE UnpublishRejected(h)
    BY <2>1, ReplyKeepsPath DEF UnpublishRejected
  <2>2. CASE UnpublishLock(h)
    BY <2>2, EnterKeepsPath DEF UnpublishLock, outer
  <2>3. CASE UnpublishUnmounts(h)
    <3>1. /\ hpc[h] = "u_unmount" /\ mounts'[tgt[h]] = <<>>
          /\ \A t \in Targets \ {tgt[h]} : mounts'[t] = mounts[t]
      BY <2>3 DEF UnpublishUnmounts, NodeInv, HandlerInv, HandlerTypes
    <3>2. CASE Reply(h, TRUE)
      BY <3>1, <3>2, ReplyKeepsPath
    <3>3. CASE Enter(h, "u_tunnel") /\ UNCHANGED <<targetLock, tgt, tunnelPort, outer>>
      BY <3>1, <3>3, EnterKeepsPath DEF outer
    <3> QED
      BY <2>3, <3>2, <3>3 DEF UnpublishUnmounts
  <2>4. CASE UnpublishFails(h)
    <3>1. \A t \in Targets \ {tgt[h]} : mounts'[t] = mounts[t]
      BY <2>4 DEF UnpublishFails, NodeInv, HandlerTypes
    <3> QED
      BY <2>4, <3>1, ReplyKeepsPath DEF UnpublishFails
  <2>5. CASE UnpublishTunnel(h)
    <3>1. mounts[tgt[h]] = <<>>
      BY <2>5 DEF UnpublishTunnel, PathInv, Mounted
    <3> QED
      BY <2>5, <3>1, ReplyKeepsPath DEF UnpublishTunnel
  <2> QED
    BY <1>4, <1>5, <2>1, <2>2, <2>3, <2>4, <2>5 DEF Unpublish, UnpublishLookup
<1>6. ASSUME NEW t \in Targets PROVE ~KubeletTimeout(t)
  BY DEF KubeletTimeout
<1>7. CASE NodeCrashes
  BY <1>7 DEF NodeCrashes, PathInv, PublishSteps, UnpublishSteps, Mounted
<1> QED
  BY <1>1, <1>2, <1>3, <1>4, <1>5, <1>6, <1>7 DEF NodeNext, InTunnelManager, Background

LEMMA PathCorrect ==
  ASSUME ~Serialised, "timeout" \notin NodeFaults
  PROVE  NodeSpec => []PathInv
<1>1. NodeInit => PathInv
  BY DEF NodeInit, PathInv, PublishSteps, UnpublishSteps, Mounted
<1> QED
  BY <1>1, NodeInvCorrect, PathStep, PTL DEF NodeSpec

\* A path that kubelet counts as published is mounted, for any number of handlers,
\* paths and pods that share a tunnel, whatever fails or restarts, as long as kubelet
\* waits for the answer of every call it made.  A call it gave up on may still
\* unmount the path after a later publish has found it mounted.
THEOREM PublishedStaysMounted ==
  ASSUME ~Serialised, "timeout" \notin NodeFaults
  PROVE  NodeSpec => []PublishedIsMounted
<1>1. PathInv => PublishedIsMounted
  BY DEF PathInv, PublishedIsMounted
<1> QED
  BY <1>1, PathCorrect, PTL

-----------------------------------------------------------------------------
(* Handlers in the tunnel manager *)

\* A handler is in the tunnel manager exactly while it waits for it, for the share
\* of its path; RemoveTunnel is only called for a path that is not mounted.
InManager(h) ==
    /\ hpc[h] \in {"p_tunnel", "u_tunnel"} <=> pc[h] # "idle"
    /\ pc[h] = "idle" <=> vol[h] = NoVolume
    /\ pc[h] # "idle" => vol[h] = ShareOf[tgt[h]]
    /\ hpc[h] = "p_tunnel" => pc[h] \in EnsureSteps \cup {"ok", "failed"}
    /\ hpc[h] = "u_tunnel" => /\ pc[h] \in RemoveSteps \cup {"ok", "failed"}
                              /\ ~Mounted(tgt[h])

ManagerInv == \A h \in Procs : InManager(h)

\* Nobody else is past the lock of h's path.
LEMMA OthersElsewhere ==
  ASSUME NodeInv, NEW h \in Procs, hpc[h] \in Locked, NEW g \in Procs \ {h}, hpc[g] \in Locked
  PROVE  tgt[g] \in Targets \ {tgt[h]}
BY DEF NodeInv, HandlerInv, Locked

LEMMA EnterFrame ==
  ASSUME NodeInv, NEW h \in Procs, NEW step, Enter(h, step)
  PROVE  hpc'[h] = step /\ \A g \in Procs \ {h} : hpc'[g] = hpc[g]
BY DEF Enter, NodeInv, HandlerInv

LEMMA ReplyFrame ==
  ASSUME NodeInv, NEW h \in Procs, NEW ok, Reply(h, ok)
  PROVE  /\ hpc'[h] = "idle" /\ tunnelPort'[h] = NoPort
         /\ \A g \in Procs \ {h} :
              hpc'[g] = hpc[g] /\ tgt'[g] = tgt[g] /\ tunnelPort'[g] = tunnelPort[g]
         /\ \A t \in Targets \ {tgt[h]} : co'[t] = co[t]
         /\ hasMgr' = hasMgr
BY DEF Reply, Enter, outer, NodeInv, HandlerInv, HandlerTypes

\* What a step of a handler leaves alone: the other handlers, the mounts of the paths
\* they have locked, and what kubelet knows of other paths.
LEMMA HandlerFrame ==
  ASSUME TypeInv, NodeInv, NEW h \in Procs, Publish(h) \/ Unpublish(h)
  PROVE  /\ hpc[h] # "idle" /\ tgt[h] \in Targets
         /\ \A g \in Procs \ {h} :
              /\ hpc'[g] = hpc[g] /\ tgt'[g] = tgt[g] /\ tunnelPort'[g] = tunnelPort[g]
              /\ pc'[g] = pc[g] /\ vol'[g] = vol[g] /\ loc'[g] = loc[g]
              /\ hpc[g] \in Locked => mounts'[tgt[g]] = mounts[tgt[g]]
         /\ \A t \in Targets \ {tgt[h]} : co'[t] = co[t]
         /\ hasMgr' = hasMgr
<1> USE DEF Publish, Unpublish, PublishRejected, PublishCheck, PublishLock, PublishRefused,
        PublishTunnel, PublishMounts, PublishMountFails, PublishMountBusy, PublishUndo,
        UnpublishRejected, UnpublishLock, UnpublishUnmounts, UnpublishFails, UnpublishLookup,
        UnpublishTunnel
<1>1. hpc[h] # "idle" /\ tgt[h] \in Targets
  BY DEF NodeInv, HandlerInv
<1>2. \/ \E ok \in BOOLEAN : Reply(h, ok)
      \/ \E step \in HandlerSteps : Enter(h, step) /\ UNCHANGED <<tgt, co, hasMgr>>
      \/ UNCHANGED <<hpc, tgt, co, hasMgr>>
  BY DEF HandlerSteps, node, handlers, outer
<1>3. \/ \E ok \in BOOLEAN : Reply(h, ok)
      \/ UNCHANGED tunnelPort
      \/ tunnelPort' = [tunnelPort EXCEPT ![h] = loc[h]]
  BY DEF node, handlers
<1>4. \A g \in Procs \ {h} : hpc'[g] = hpc[g] /\ tgt'[g] = tgt[g]
  BY <1>2, EnterFrame, ReplyFrame
<1>5. \A g \in Procs \ {h} : tunnelPort'[g] = tunnelPort[g]
  BY <1>3, ReplyFrame DEF NodeInv, HandlerTypes
<1>6. (\A t \in Targets \ {tgt[h]} : co'[t] = co[t]) /\ hasMgr' = hasMgr
  BY <1>2, ReplyFrame
<1>7. \/ UNCHANGED vars
      \/ Return(h)
      \/ \E v : CallEnsure(h, v) \/ CallRemove(h, v)
      \/ \E inUse \in BOOLEAN : RemoveLookup(h, inUse)
  BY InUseIsBoolean
<1>8. \A g \in Procs \ {h} : pc'[g] = pc[g] /\ vol'[g] = vol[g] /\ loc'[g] = loc[g]
  BY <1>7 DEF vars, locals, Return, CallEnsure, CallRemove, RemoveLookup, Goto, SetLoc,
     TypeInv, TypeOK
<1>9. \/ UNCHANGED mounts
      \/ hpc[h] \in Locked /\ \E s : mounts' = [mounts EXCEPT ![tgt[h]] = s]
  BY DEF Locked, node
<1>10. \A g \in Procs \ {h} : hpc[g] \in Locked => mounts'[tgt[g]] = mounts[tgt[g]]
  BY <1>9, OthersElsewhere DEF NodeInv, HandlerTypes
<1> QED
  BY <1>1, <1>4, <1>5, <1>6, <1>8, <1>10

\* Entries of a stack of mounts with a mount more or less.
LEMMA TopEntries ==
  ASSUME NEW S, NEW x \in S, NEW s \in Seq(S), NEW i \in DOMAIN (<<x>> \o s)
  PROVE  (<<x>> \o s)[i] = x \/ \E j \in DOMAIN s : (<<x>> \o s)[i] = s[j]
<1>1. /\ <<x>> \in Seq(S) /\ Len(<<x>>) = 1 /\ <<x>>[1] = x
  OBVIOUS
<1>2. /\ <<x>> \o s \in Seq(S) /\ Len(<<x>> \o s) = 1 + Len(s)
      /\ \A k \in 1 .. 1 + Len(s) : (<<x>> \o s)[k] = IF k <= 1 THEN <<x>>[k] ELSE s[k - 1]
  BY <1>1, ConcatProperties
<1>3. i \in 1 .. 1 + Len(s) /\ Len(s) \in Nat /\ DOMAIN s = 1 .. Len(s)
  BY <1>2
<1>4. CASE i = 1
  BY <1>1, <1>2, <1>3, <1>4
<1>5. CASE i # 1
  BY <1>2, <1>3, <1>5, i - 1 \in 1 .. Len(s)
<1> QED
  BY <1>4, <1>5

LEMMA TailEntries ==
  ASSUME NEW S, NEW s \in Seq(S), s # <<>>, NEW i \in DOMAIN Tail(s)
  PROVE  \E j \in DOMAIN s : Tail(s)[i] = s[j]
<1>1. i \in 1 .. Len(Tail(s)) /\ Len(Tail(s)) = Len(s) - 1 /\ Tail(s)[i] = s[i + 1]
  BY HeadTailProperties
<1>2. i + 1 \in DOMAIN s
  BY <1>1
<1> QED
  BY <1>1, <1>2

\* What is mounted after a step of a handler was mounted before, or is what the handler
\* mounts on its own path.
LEMMA HandlerMounts ==
  ASSUME TypeInv, NodeInv, NEW h \in Procs, Publish(h) \/ Unpublish(h),
         NEW u \in Targets, NEW i \in DOMAIN mounts'[u]
  PROVE  \/ \E j \in DOMAIN mounts[u] : mounts'[u][i] = mounts[u][j]
         \/ hpc[h] = "p_mount" /\ u = tgt[h] /\ mounts'[u][i] = tunnelPort[h]
<1> DEFINE t == tgt[h]
<1>1. mounts \in [Targets -> Seq(Ports \cup {NoPort})] /\ t \in Targets
  BY HandlerFrame DEF NodeInv, HandlerTypes
<1>2. \/ mounts' = mounts
      \/ mounts' = [mounts EXCEPT ![t] = <<>>]
      \/ mounts[t] # <<>> /\ mounts' = [mounts EXCEPT ![t] = Tail(mounts[t])]
      \/ hpc[h] = "p_mount" /\ mounts' = [mounts EXCEPT ![t] = <<tunnelPort[h]>> \o mounts[t]]
  BY DEF Publish, Unpublish, PublishRejected, PublishCheck, PublishLock, PublishRefused,
     PublishTunnel, PublishMounts, PublishMountFails, PublishMountBusy, PublishUndo,
     UnpublishRejected, UnpublishLock, UnpublishUnmounts, UnpublishFails, UnpublishLookup,
     UnpublishTunnel, node, NodeInv, UndoFindsMount, Mounted
<1> HIDE DEF t
<1>3. CASE mounts'[u] = mounts[u]
  BY <1>3
<1>4. CASE u = t /\ mounts' = [mounts EXCEPT ![t] = <<>>]
  BY <1>1, <1>4
<1>5. CASE u = t /\ mounts[t] # <<>> /\ mounts' = [mounts EXCEPT ![t] = Tail(mounts[t])]
  <2>1. mounts'[u] = Tail(mounts[u]) /\ mounts[u] \in Seq(Ports \cup {NoPort}) /\ mounts[u] # <<>>
    BY <1>1, <1>5
  <2> HIDE <1>5
  <2> QED
    BY <2>1, TailEntries
<1>6. CASE u = t /\ hpc[h] = "p_mount"
           /\ mounts' = [mounts EXCEPT ![t] = <<tunnelPort[h]>> \o mounts[t]]
  <2>1. /\ mounts'[u] = <<tunnelPort[h]>> \o mounts[u] /\ mounts[u] \in Seq(Ports \cup {NoPort})
        /\ tunnelPort[h] \in Ports \cup {NoPort} /\ u = tgt[h]
    BY <1>1, <1>6 DEF NodeInv, HandlerTypes, t
  <2>2. mounts'[u][i] = tunnelPort[h] \/ \E j \in DOMAIN mounts[u] : mounts'[u][i] = mounts[u][j]
    BY <2>1, TopEntries
  <2> QED
    BY <1>6, <2>1, <2>2
<1> QED
  BY <1>1, <1>2, <1>3, <1>4, <1>5, <1>6

LEMMA ManagerHandlerStep ==
  ASSUME TypeInv, NodeInv, ManagerInv, NEW h \in Procs, Publish(h) \/ Unpublish(h)
  PROVE  InManager(h)'
<1>0. InManager(h) /\ tgt[h] \in Targets
  BY HandlerFrame DEF ManagerInv
<1>1. ASSUME NEW ok, Reply(h, ok), UNCHANGED vars, hpc[h] \notin {"p_tunnel", "u_tunnel"}
      PROVE  InManager(h)'
  BY <1>0, <1>1, ReplyFrame DEF InManager, vars, locals
<1>2. ASSUME NEW step, Enter(h, step), step \notin {"p_tunnel", "u_tunnel"}, UNCHANGED vars,
             hpc[h] \notin {"p_tunnel", "u_tunnel"}
      PROVE  InManager(h)'
  BY <1>0, <1>2, EnterFrame DEF InManager, vars, locals
<1>3. ASSUME Return(h), hpc'[h] \notin {"p_tunnel", "u_tunnel"} PROVE InManager(h)'
  BY <1>3 DEF InManager, Return, Goto, TypeInv, TypeOK
<1>4. CASE PublishRejected(h) \/ PublishRefused(h) \/ PublishMountFails(h) \/ PublishMounts(h)
           \/ PublishUndo(h) \/ UnpublishRejected(h) \/ UnpublishFails(h)
  BY <1>1, <1>4 DEF PublishRejected, PublishRefused, PublishMountFails, PublishMounts,
     PublishUndo, UnpublishRejected, UnpublishFails
<1>5. CASE PublishCheck(h) \/ PublishMountBusy(h) \/ UnpublishLock(h)
  BY <1>1, <1>2, <1>5 DEF PublishCheck, PublishMountBusy, UnpublishLock
<1>6. CASE PublishTunnel(h) \/ UnpublishTunnel(h)
  <2>1. Return(h) /\ ((\E ok \in BOOLEAN : Reply(h, ok)) \/ Enter(h, "p_mount"))
    BY <1>6 DEF PublishTunnel, UnpublishTunnel
  <2>2. hpc'[h] \in {"idle", "p_mount"}
    BY <2>1, EnterFrame, ReplyFrame
  <2> QED
    BY <1>3, <2>1, <2>2
<1>7. CASE PublishLock(h)
  <2>1. CASE UsesTunnel(tgt[h])
    <3>1. Enter(h, "p_tunnel") /\ CallEnsure(h, ShareOf[tgt[h]]) /\ UNCHANGED tgt
      BY <1>7, <2>1 DEF PublishLock
    <3>2. pc'[h] = "e_call" /\ vol'[h] = ShareOf[tgt[h]]
      BY <3>1 DEF CallEnsure, Goto, TypeInv, TypeOK
    <3> QED
      BY <2>1, <3>1, <3>2, EnterFrame DEF InManager, UsesTunnel, EnsureSteps
  <2>2. CASE ~UsesTunnel(tgt[h])
    BY <1>2, <1>7, <2>2 DEF PublishLock
  <2> QED
    BY <2>1, <2>2
<1>8. CASE UnpublishUnmounts(h)
  <2>1. CASE UsesTunnel(tgt[h]) /\ hasMgr
    <3>1. /\ Enter(h, "u_tunnel") /\ CallRemove(h, ShareOf[tgt[h]]) /\ UNCHANGED tgt
          /\ mounts' = [mounts EXCEPT ![tgt[h]] = <<>>]
      BY <1>8, <2>1 DEF UnpublishUnmounts
    <3>2. pc'[h] = "r_call" /\ vol'[h] = ShareOf[tgt[h]] /\ mounts'[tgt[h]] = <<>>
      BY <1>0, <3>1 DEF CallRemove, Goto, TypeInv, TypeOK, NodeInv, HandlerTypes
    <3> QED
      BY <2>1, <3>1, <3>2, EnterFrame DEF InManager, UsesTunnel, RemoveSteps, Mounted
  <2>2. CASE ~(UsesTunnel(tgt[h]) /\ hasMgr)
    BY <1>1, <1>8, <2>2 DEF UnpublishUnmounts
  <2> QED
    BY <2>1, <2>2
<1>9. CASE UnpublishLookup(h)
  <2>1. PICK step \in {"ok", "r_last", "r_file"} : pc' = [pc EXCEPT ![h] = step]
    BY <1>9 DEF UnpublishLookup, RemoveLookup, Goto
  <2>2. hpc[h] = "u_tunnel" /\ UNCHANGED <<hpc, tgt, mounts, vol>>
    BY <1>9 DEF UnpublishLookup, RemoveLookup, node, handlers
  <2> QED
    BY <1>0, <2>1, <2>2 DEF InManager, RemoveSteps, Mounted, TypeInv, TypeOK
<1> QED
  BY <1>4, <1>5, <1>6, <1>7, <1>8, <1>9 DEF Publish, Unpublish

\* What a step inside the tunnel manager does to a handler's place in it.
LEMMA TunnelFrame ==
  ASSUME TypeInv, NEW h \in Procs, InTunnelManager(h)
  PROVE  /\ pc[h] \notin {"idle", "ok", "failed"}
         /\ pc[h] \in EnsureSteps => pc'[h] \in EnsureSteps \cup {"ok", "failed"}
         /\ pc[h] \in RemoveSteps => pc'[h] \in RemoveSteps \cup {"ok", "failed"}
         /\ \A g \in Procs \ {h} : pc'[g] = pc[g] /\ loc'[g] = loc[g]
         /\ UNCHANGED vol /\ UNCHANGED node
BY DEF InTunnelManager, EnsureFast, EnsureExisting, EnsureRefused, EnsureWrite,
   EnsureWriteFails, EnsureCommit, EnsureProbe, EnsureStarted, EnsureRollback,
   ScheduleDebouncedSIGHUP, LastTunnelCleanup, LastTunnelSettled,
   RemoveFile, RemoveFileFails, RemoveUndo, Goto, SetLoc, TypeInv, TypeOK, EnsureSteps, RemoveSteps

\* What happens in the background moves only a goroutine that waits for its reload.
LEMMA BackgroundFrame ==
  ASSUME TypeInv, LockDiscipline, Background
  PROVE  /\ UNCHANGED <<allocatedPorts, conf, vol, loc>> /\ UNCHANGED node
         /\ \A g \in Procs : \/ pc'[g] = pc[g]
                             \/ pc[g] = "r_reload" /\ pc'[g] \in {"r_settle", "r_undo"}
<1> USE DEF TypeInv, TypeOK, LockDiscipline, HoldsDebounceMu, memory, stunnel, locals, Goto
<1>1. UNCHANGED node
  BY DEF Background
<1>2. CASE TimerFires \/ CallbackRuns \/ StunnelStarts \/ StunnelReloads \/ StunnelCrashes
  BY <1>1, <1>2 DEF TimerFires, CallbackRuns, StunnelStarts, StunnelReloads, StunnelCrashes
<1>3. CASE ReloadFindsPid
  BY <1>1, <1>3 DEF ReloadFindsPid
<1>4. CASE ReloadFails
  BY <1>1, <1>4 DEF ReloadFails, ReloadReturns
<1>5. CASE ReloadKills
  BY <1>1, <1>5 DEF ReloadKills, ReloadReturns
<1> QED
  BY <1>2, <1>3, <1>4, <1>5 DEF Background, Reload

LEMMA ManagerStep ==
  TypeInv /\ LockDiscipline /\ NodeInv /\ ManagerInv /\ [NodeNext]_nodeVars => ManagerInv'
<1> SUFFICES ASSUME TypeInv, LockDiscipline, NodeInv, ManagerInv, [NodeNext]_nodeVars
             PROVE  ManagerInv'
  OBVIOUS
<1>1. CASE UNCHANGED nodeVars
  BY <1>1 DEF nodeVars, node, handlers, vars, locals, ManagerInv, InManager, Mounted
<1>2. ASSUME NEW h \in Procs, NEW t \in Targets,
             KubeletPublish(h, t) \/ KubeletUnpublish(h, t)
      PROVE  ManagerInv'
  <2>1. PICK step \in {"p_check", "u_lock"} : Enter(h, step)
    BY <1>2 DEF KubeletPublish, KubeletUnpublish, Calls
  <2>2. /\ hpc[h] = "idle" /\ tgt' = [tgt EXCEPT ![h] = t]
        /\ UNCHANGED <<vars, mounts>>
    BY <1>2 DEF KubeletPublish, KubeletUnpublish, Calls
  <2>3. \A g \in Procs \ {h} : tgt'[g] = tgt[g]
    BY <2>2 DEF NodeInv, HandlerInv
  <2> QED
    BY <2>1, <2>2, <2>3, EnterFrame DEF ManagerInv, InManager, vars, locals, Mounted
<1>3. ASSUME NEW h \in Procs, Publish(h) \/ Unpublish(h) PROVE ManagerInv'
  <2>1. ASSUME NEW g \in Procs \ {h} PROVE InManager(g)'
    BY <1>3, HandlerFrame DEF ManagerInv, InManager, Locked, Mounted
  <2> QED
    BY <1>3, <2>1, ManagerHandlerStep DEF ManagerInv
<1>4. ASSUME NEW h \in Procs, InTunnelManager(h) PROVE ManagerInv'
  BY <1>4, TunnelFrame
     DEF ManagerInv, InManager, node, handlers, Mounted, EnsureSteps, RemoveSteps
<1>5. ASSUME NEW t \in Targets, KubeletTimeout(t) PROVE ManagerInv'
  BY <1>5 DEF KubeletTimeout, handlers, vars, locals, ManagerInv, InManager, Mounted
<1>6. CASE Background
  BY <1>6, BackgroundFrame
     DEF ManagerInv, InManager, node, handlers, Mounted, EnsureSteps, RemoveSteps
<1>7. CASE NodeCrashes
  BY <1>7 DEF NodeCrashes, DriverCrashes, ManagerInv, InManager
<1> QED
  BY <1>1, <1>2, <1>3, <1>4, <1>5, <1>6, <1>7 DEF NodeNext

LEMMA ManagerCorrect ==
  ASSUME ~Serialised
  PROVE  NodeSpec => []ManagerInv
<1>1. NodeInit => ManagerInv
  BY DEF NodeInit, Init, ManagerInv, InManager
<1> QED
  BY <1>1, NodeInvCorrect, ManagerStep, PTL DEF NodeSpec

-----------------------------------------------------------------------------
(* The tunnel under a mount, when no two pods share a tunnel *)

OnePathPerShare ==
    \A t, u \in Targets : UsesTunnel(t) /\ ShareOf[t] = ShareOf[u] => t = u

\* The port that a publish has in hand is the share's, from the commit to the mount.
PortInHand(h) ==
    /\ pc[h] = "e_write" => ~HasTunnel(vol[h])
    /\ pc[h] \in {"e_write", "e_probe", "e_wait"} => ~Mounted(tgt[h])
    /\ pc[h] \in {"e_probe", "e_wait", "e_hup"} \/ (hpc[h] = "p_tunnel" /\ pc[h] = "ok") =>
           loc[h] \in Ports /\ allocatedPorts[vol[h]] = loc[h]
    /\ hpc[h] = "p_mount" /\ UsesTunnel(tgt[h]) =>
           /\ tunnelPort[h] \in Ports
           /\ allocatedPorts[ShareOf[tgt[h]]] = tunnelPort[h]

\* What is mounted on a path is the tunnel the maps have for its share.
MountsOfTunnel ==
    \A t \in Targets : \A i \in DOMAIN mounts[t] :
        UsesTunnel(t) => mounts[t][i] \in Ports /\ allocatedPorts[ShareOf[t]] = mounts[t][i]

MountInv ==
    /\ \A h \in Procs : PortInHand(h)
    /\ FileKept
    /\ \A v \in Volumes : HasTunnel(v) => conf[v] = allocatedPorts[v]
    /\ MountsOfTunnel

\* A call in the tunnel manager has its share and its path to itself.
LEMMA Apart ==
  ASSUME OnePathPerShare, NodeInv, ManagerInv, NEW h \in Procs, pc[h] # "idle"
  PROVE  /\ tgt[h] \in Targets /\ hpc[h] \in Locked /\ vol[h] = ShareOf[tgt[h]] /\ vol[h] \in Volumes
         /\ \A u \in Targets : ShareOf[u] = vol[h] => u = tgt[h]
         /\ \A g \in Procs : hpc[g] \in Locked /\ tgt[g] = tgt[h] => g = h
         /\ \A g \in Procs : vol[g] = vol[h] => g = h
<1>1. /\ tgt[h] \in Targets /\ hpc[h] \in Locked
      /\ vol[h] = ShareOf[tgt[h]] /\ vol[h] # NoVolume
  BY DEF NodeInv, HandlerInv, ManagerInv, InManager, Locked
<1>2. \A u \in Targets : ShareOf[u] = vol[h] => u = tgt[h]
  BY <1>1 DEF OnePathPerShare, UsesTunnel
<1>3. ASSUME NEW g \in Procs, hpc[g] \in Locked, tgt[g] = tgt[h] PROVE g = h
  BY <1>1, <1>3 DEF NodeInv, HandlerInv
<1>4. ASSUME NEW g \in Procs, vol[g] = vol[h] PROVE g = h
  <2>1. /\ tgt[g] \in Targets /\ hpc[g] \in Locked /\ vol[g] = ShareOf[tgt[g]]
    BY <1>1, <1>4 DEF NodeInv, HandlerInv, ManagerInv, InManager, Locked
  <2> QED
    BY <1>2, <1>3, <1>4, <2>1
<1> QED
  BY <1>1, <1>2, <1>3, <1>4, TargetsAssumption

LEMMA Innermost ==
  ASSUME NEW S, NEW s \in Seq(S), s # <<>>
  PROVE  1 \in DOMAIN s
OBVIOUS

LEMMA NodeOneCall ==
  OnePathPerShare /\ NodeInv /\ ManagerInv => OneCallPerVolume
BY Apart, SentinelAssumption DEF OneCallPerVolume, ManagerInv, InManager

LEMMA MountManagerStep ==
  ASSUME OnePathPerShare, TypeInv, NodeInv, ManagerInv, MountInv, NEW h \in Procs,
         InTunnelManager(h)
  PROVE  MountInv'
<1> USE SentinelAssumption, PortFacts DEF node, handlers, TypeInv, TypeOK, CallHasVolume,
        EnsureSteps, RemoveSteps, HasTunnel, UsesTunnel, Mounted,
        ManagerInv, InManager, MountInv, MountsOfTunnel, PortInHand, FileKept, Removing, memory,
        stunnel, locals, Goto, SetLoc
<1>1. UNCHANGED node
  BY TunnelFrame
<1>2. pc[h] # "idle"
  BY TunnelFrame
<1>3. /\ tgt[h] \in Targets /\ hpc[h] \in Locked /\ vol[h] = ShareOf[tgt[h]] /\ vol[h] \in Volumes
      /\ \A u \in Targets : ShareOf[u] = vol[h] => u = tgt[h]
      /\ \A g \in Procs : hpc[g] \in Locked /\ tgt[g] = tgt[h] => g = h
      /\ \A g \in Procs : vol[g] = vol[h] => g = h
  BY <1>2, Apart
<1>4. \A g \in Procs : /\ hpc[g] # "idle" => tgt[g] \in Targets
                       /\ hpc[g] = "p_mount" => hpc[g] \in Locked
  BY DEF NodeInv, HandlerInv, Locked
<1>5. mounts \in [Targets -> Seq(Ports \cup {NoPort})]
  BY DEF NodeInv, HandlerTypes
<1> USE <1>1, <1>2, <1>3, <1>4
<1>6. CASE EnsureFast(h)
  BY <1>6 DEF EnsureFast
<1>7. CASE EnsureExisting(h)
  BY <1>7 DEF EnsureExisting
<1>8. CASE EnsureRefused(h)
  BY <1>8 DEF EnsureRefused
<1>9. CASE EnsureWrite(h)
  <2>1. mounts[tgt[h]] = <<>>
    BY <1>5, <1>9, Innermost DEF EnsureWrite
  <2> QED
    BY <1>9, <2>1 DEF EnsureWrite, FreePorts
<1>10. CASE EnsureWriteFails(h)
  BY <1>10 DEF EnsureWriteFails
<1>11. CASE EnsureCommit(h)
  BY <1>11 DEF EnsureCommit
<1>12. CASE EnsureProbe(h)
  BY <1>12 DEF EnsureProbe
<1>13. CASE EnsureStarted(h)
  BY <1>13 DEF EnsureStarted
<1>14. CASE EnsureRollback(h)
  BY <1>14 DEF EnsureRollback
<1>15. CASE ScheduleDebouncedSIGHUP(h)
  BY <1>15 DEF ScheduleDebouncedSIGHUP
<1>16. CASE LastTunnelCleanup(h)
  BY <1>16 DEF LastTunnelCleanup
<1>17. CASE LastTunnelSettled(h)
  BY <1>17 DEF LastTunnelSettled
<1>18. CASE RemoveFile(h)
  BY <1>18 DEF RemoveFile
<1>19. CASE RemoveFileFails(h)
  BY <1>19 DEF RemoveFileFails
<1>20. CASE RemoveUndo(h)
  BY <1>20 DEF RemoveUndo
<1> QED
  BY <1>6, <1>7, <1>8, <1>9, <1>10, <1>11, <1>12, <1>13, <1>14, <1>15, <1>16, <1>17, <1>18,
     <1>19, <1>20 DEF InTunnelManager

\* A step of a handler outside the tunnel manager disturbs only its own part, if it
\* leaves the maps and the files alone and mounts what belongs there.
LEMMA MountFrame ==
  ASSUME NodeInv, ManagerInv, MountInv, NEW h \in Procs, PortInHand(h)', MountsOfTunnel',
         UNCHANGED <<allocatedPorts, conf>>,
         pc'[h] \in {"idle", "e_call", "r_call"},
         \A g \in Procs \ {h} :
             /\ hpc'[g] = hpc[g] /\ tgt'[g] = tgt[g] /\ tunnelPort'[g] = tunnelPort[g]
             /\ pc'[g] = pc[g] /\ vol'[g] = vol[g] /\ loc'[g] = loc[g]
             /\ hpc[g] \in Locked => mounts'[tgt[g]] = mounts[tgt[g]]
  PROVE  MountInv'
<1>1. FileKept'
  BY DEF MountInv, FileKept, Removing, HasTunnel
<1>2. ASSUME NEW g \in Procs \ {h} PROVE PortInHand(g)'
  <2>1. InManager(g) /\ PortInHand(g)
    BY DEF ManagerInv, MountInv
  <2>2. hpc[g] \notin Locked => pc[g] = "idle" /\ hpc[g] \notin {"p_tunnel", "u_tunnel", "p_mount"}
    BY <2>1 DEF InManager, Locked
  <2> QED
    BY <2>1, <2>2 DEF PortInHand, HasTunnel, UsesTunnel, Mounted
<1>3. \A v \in Volumes : HasTunnel(v)' => conf'[v] = allocatedPorts'[v]
  BY DEF MountInv, HasTunnel
<1> QED
  BY <1>1, <1>2, <1>3 DEF MountInv

\* What a handler mounts on a share with a tunnel is the port of that tunnel.
LEMMA MountsOfTunnelStep ==
  ASSUME TypeInv, NodeInv, NEW h \in Procs, Publish(h) \/ Unpublish(h),
         MountsOfTunnel, PortInHand(h), UNCHANGED allocatedPorts
  PROVE  MountsOfTunnel'
<1>1. ASSUME NEW t \in Targets, NEW i \in DOMAIN mounts'[t], UsesTunnel(t)
      PROVE  mounts'[t][i] \in Ports /\ allocatedPorts[ShareOf[t]] = mounts'[t][i]
  <2>1. \/ \E j \in DOMAIN mounts[t] : mounts'[t][i] = mounts[t][j]
        \/ hpc[h] = "p_mount" /\ t = tgt[h] /\ mounts'[t][i] = tunnelPort[h]
    BY HandlerMounts
  <2>2. CASE \E j \in DOMAIN mounts[t] : mounts'[t][i] = mounts[t][j]
    BY <1>1, <2>2 DEF MountsOfTunnel
  <2>3. CASE hpc[h] = "p_mount" /\ t = tgt[h] /\ mounts'[t][i] = tunnelPort[h]
    BY <1>1, <2>3 DEF PortInHand
  <2> QED
    BY <2>1, <2>2, <2>3
<1> QED
  BY <1>1 DEF MountsOfTunnel, UsesTunnel

LEMMA MountHandlerStep ==
  ASSUME TypeInv, NodeInv, ManagerInv, MountInv, NEW h \in Procs,
         Publish(h) \/ Unpublish(h), ~UnpublishLookup(h)
  PROVE  MountInv'
<1> USE DEF Publish, Unpublish, PublishRejected, PublishCheck, PublishLock, PublishRefused,
        PublishTunnel, PublishMounts, PublishMountFails, PublishMountBusy, PublishUndo,
        UnpublishRejected, UnpublishLock, UnpublishUnmounts, UnpublishFails, UnpublishTunnel
<1>1. hpc[h] # "idle" /\ tgt[h] \in Targets /\ InManager(h) /\ PortInHand(h) /\ MountsOfTunnel
  BY HandlerFrame DEF ManagerInv, MountInv
<1>2. UNCHANGED vars \/ Return(h) \/ \E v : CallEnsure(h, v) \/ CallRemove(h, v)
  OBVIOUS
<1>3. UNCHANGED <<allocatedPorts, conf>>
  BY <1>2 DEF vars, memory, Return, CallEnsure, CallRemove
<1>4. pc'[h] \in {"idle", "e_call", "r_call"}
  <2>1. CASE UNCHANGED vars
    <3>1. hpc[h] \notin {"p_tunnel", "u_tunnel"}
      BY <2>1 DEF Return, Goto, vars, locals, TypeInv, TypeOK
    <3> QED
      BY <1>1, <2>1, <3>1 DEF InManager, vars, locals
  <2>2. CASE Return(h) \/ \E v : CallEnsure(h, v) \/ CallRemove(h, v)
    BY <2>2 DEF Return, CallEnsure, CallRemove, Goto, TypeInv, TypeOK
  <2> QED
    BY <1>2, <2>1, <2>2
<1>5. MountsOfTunnel'
  BY <1>3, MountsOfTunnelStep DEF MountInv
<1>6. PortInHand(h)'
  <2>1. CASE PublishTunnel(h) /\ pc[h] = "ok"
    <3>1. /\ hpc[h] = "p_tunnel" /\ Enter(h, "p_mount") /\ UNCHANGED tgt
          /\ tunnelPort' = [tunnelPort EXCEPT ![h] = loc[h]]
      BY <2>1
    <3>2. tunnelPort'[h] = loc[h]
      BY <3>1 DEF NodeInv, HandlerTypes
    <3>3. loc[h] \in Ports /\ allocatedPorts[ShareOf[tgt[h]]] = loc[h]
      BY <1>1, <2>1, <3>1 DEF PortInHand, InManager
    <3>4. hpc'[h] = "p_mount"
      BY <3>1, EnterFrame
    <3> QED
      BY <1>3, <1>4, <3>1, <3>2, <3>3, <3>4 DEF PortInHand, UsesTunnel
  <2>2. CASE ~(PublishTunnel(h) /\ pc[h] = "ok")
    <3>1. \/ \E ok \in BOOLEAN : Reply(h, ok)
          \/ \E step \in HandlerSteps \ {"p_mount"} : Enter(h, step)
          \/ Enter(h, "p_mount") /\ ~UsesTunnel(tgt[h]) /\ UNCHANGED tgt
      BY <2>2 DEF HandlerSteps
    <3>2. hpc'[h] = "p_mount" => ~UsesTunnel(tgt[h]) /\ UNCHANGED tgt
      BY <3>1, EnterFrame, ReplyFrame
    <3> QED
      BY <1>4, <3>2 DEF PortInHand, UsesTunnel
  <2> QED
    BY <2>1, <2>2
<1> QED
  BY <1>3, <1>4, <1>5, <1>6, HandlerFrame, MountFrame

\* The lookup of RemoveTunnel takes the tunnel of h's share out of the maps: its path
\* is unmounted, and it has no other.
LEMMA MountLookupStep ==
  ASSUME OnePathPerShare, TypeInv, NodeInv, ManagerInv, MountInv, NEW h \in Procs,
         UnpublishLookup(h)
  PROVE  MountInv'
<1> USE SentinelAssumption, PortFacts DEF node, handlers, TypeInv, TypeOK, CallHasVolume,
        EnsureSteps, RemoveSteps, HasTunnel, UsesTunnel, Mounted, ManagerInv, InManager,
        MountInv, MountsOfTunnel, PortInHand, FileKept, Removing, Goto, SetLoc
<1>1. UNCHANGED node /\ pc[h] # "idle" /\ hpc[h] = "u_tunnel"
  BY DEF UnpublishLookup, RemoveLookup
<1>2. /\ tgt[h] \in Targets /\ hpc[h] \in Locked /\ vol[h] = ShareOf[tgt[h]] /\ vol[h] \in Volumes
      /\ \A u \in Targets : ShareOf[u] = vol[h] => u = tgt[h]
      /\ \A g \in Procs : hpc[g] \in Locked /\ tgt[g] = tgt[h] => g = h
      /\ \A g \in Procs : vol[g] = vol[h] => g = h
  BY <1>1, Apart
<1>3. \A g \in Procs : /\ hpc[g] # "idle" => tgt[g] \in Targets
                       /\ hpc[g] = "p_mount" => hpc[g] \in Locked
  BY DEF NodeInv, HandlerInv, Locked
<1>4. PICK inUse : RemoveLookup(h, inUse)
  BY DEF UnpublishLookup
<1>5. UNCHANGED <<conf, vol>>
  BY <1>4 DEF RemoveLookup
<1>6. CASE ~HasTunnel(vol[h]) \/ inUse
  <2>1. pc' = [pc EXCEPT ![h] = "ok"] /\ UNCHANGED <<allocatedPorts, loc>>
    BY <1>4, <1>6 DEF RemoveLookup
  <2> QED
    BY <1>1, <1>2, <1>3, <1>5, <2>1
<1>7. CASE HasTunnel(vol[h]) /\ ~inUse
  <2>1. PICK step \in {"r_last", "r_file"} :
          /\ pc' = [pc EXCEPT ![h] = step]
          /\ loc' = [loc EXCEPT ![h] = allocatedPorts[vol[h]]]
          /\ allocatedPorts' = [allocatedPorts EXCEPT ![vol[h]] = NoPort]
    BY <1>4, <1>7 DEF RemoveLookup
  <2> QED
    BY <1>1, <1>2, <1>3, <1>5, <1>7, <2>1
<1> QED
  BY <1>6, <1>7

LEMMA MountStep ==
  ASSUME OnePathPerShare, "readdir" \notin Faults
  PROVE  TypeInv /\ LockDiscipline /\ NodeInv /\ ManagerInv /\ MountInv /\ [NodeNext]_nodeVars
             => MountInv'
<1> SUFFICES ASSUME TypeInv, LockDiscipline, NodeInv, ManagerInv, MountInv, [NodeNext]_nodeVars
             PROVE  MountInv'
  OBVIOUS
<1>1. CASE UNCHANGED nodeVars
  BY <1>1 DEF nodeVars, node, handlers, vars, memory, locals, MountInv, MountsOfTunnel, PortInHand,
     FileKept, Removing, HasTunnel, UsesTunnel, Mounted
<1>2. ASSUME NEW h \in Procs, NEW t \in Targets,
             KubeletPublish(h, t) \/ KubeletUnpublish(h, t)
      PROVE  MountInv'
  <2>1. PICK step \in {"p_check", "u_lock"} : Enter(h, step)
    BY <1>2 DEF KubeletPublish, KubeletUnpublish, Calls
  <2>2. /\ hpc[h] = "idle" /\ tgt' = [tgt EXCEPT ![h] = t]
        /\ UNCHANGED <<vars, mounts, tunnelPort>>
    BY <1>2 DEF KubeletPublish, KubeletUnpublish, Calls
  <2>3. \A g \in Procs \ {h} : tgt'[g] = tgt[g]
    BY <2>2 DEF NodeInv, HandlerInv
  <2>4. UNCHANGED <<allocatedPorts, conf, pc, vol, loc>>
    BY <2>2 DEF vars, memory, locals
  <2>5. pc[h] = "idle" /\ vol[h] = NoVolume
    BY <2>2 DEF ManagerInv, InManager
  <2>6. PortInHand(h)'
    BY <2>1, <2>4, <2>5, EnterFrame DEF PortInHand
  <2>7. MountsOfTunnel'
    BY <2>2, <2>4 DEF MountInv, MountsOfTunnel, UsesTunnel
  <2> QED
    BY <2>1, <2>2, <2>3, <2>4, <2>5, <2>6, <2>7, EnterFrame, MountFrame
<1>3. ASSUME NEW h \in Procs, Publish(h) \/ Unpublish(h) \/ InTunnelManager(h) PROVE MountInv'
  BY <1>3, MountHandlerStep, MountLookupStep, MountManagerStep
<1>4. ASSUME NEW t \in Targets, KubeletTimeout(t) PROVE MountInv'
  BY <1>4 DEF KubeletTimeout, handlers, vars, memory, locals, MountInv, MountsOfTunnel, PortInHand,
     FileKept, Removing, HasTunnel, UsesTunnel, Mounted
<1>5. CASE Background
  BY <1>5, BackgroundFrame DEF node, handlers, MountInv, MountsOfTunnel, PortInHand, FileKept,
     Removing, HasTunnel, UsesTunnel, Mounted, ManagerInv, InManager, EnsureSteps, RemoveSteps
<1>6. CASE NodeCrashes
  <2>1. /\ \A v \in Volumes : allocatedPorts'[v] = IF conf[v] \in Ports THEN conf[v] ELSE NoPort
        /\ \A g \in Procs : pc'[g] = "idle" /\ vol'[g] = NoVolume /\ hpc'[g] = "idle"
        /\ UNCHANGED <<conf, mounts>>
    BY <1>6 DEF NodeCrashes, DriverCrashes, Recovered, ServicesOnDisk
  <2>2. MountsOfTunnel'
    <3>1. ASSUME NEW t \in Targets, NEW i \in DOMAIN mounts[t], UsesTunnel(t)
          PROVE  mounts[t][i] \in Ports /\ allocatedPorts'[ShareOf[t]] = mounts[t][i]
      <4>1. /\ mounts[t][i] \in Ports /\ allocatedPorts[ShareOf[t]] = mounts[t][i]
            /\ ShareOf[t] \in Volumes
        BY <3>1, TargetsAssumption DEF MountInv, MountsOfTunnel, UsesTunnel
      <4>2. conf[ShareOf[t]] = mounts[t][i]
        BY <4>1, PortFacts DEF MountInv, HasTunnel
      <4> QED
        BY <2>1, <4>1, <4>2
    <3> QED
      BY <2>1, <3>1 DEF MountsOfTunnel, UsesTunnel
  <2>3. \A g \in Procs : PortInHand(g)'
    BY <2>1 DEF PortInHand
  <2>4. FileKept'
    BY <2>1 DEF FileKept, Removing
  <2>5. \A v \in Volumes : HasTunnel(v)' => conf'[v] = allocatedPorts'[v]
    BY <2>1 DEF HasTunnel
  <2> QED
    BY <2>2, <2>3, <2>4, <2>5 DEF MountInv
<1> QED
  BY <1>1, <1>2, <1>3, <1>4, <1>5, <1>6 DEF NodeNext

LEMMA MountCorrect ==
  ASSUME ~Serialised, OnePathPerShare, "readdir" \notin Faults
  PROVE  NodeSpec => []MountInv
<1>1. NodeInit => MountInv
  BY SentinelAssumption DEF NodeInit, Init, MountInv, MountsOfTunnel, PortInHand,
     FileKept, Removing, HasTunnel
<1> QED
  BY <1>1, NodeInvCorrect, ManagerCorrect, MountStep, PTL DEF NodeSpec

\* The tunnel under a mount stays, and so does its file, on a node where no two pods use
\* one share: in whatever order kubelet's calls arrive, time out and are repeated, across
\* restarts, with every failure but a services directory that cannot be read at a
\* restart.  For two pods of one share it is false (see the run node_shared_tunnel).
THEOREM TunnelStaysUnderMount ==
  ASSUME ~Serialised, OnePathPerShare, "readdir" \notin Faults
  PROVE  NodeSpec => []MountKeepsTunnel
<1>1. MountInv => MountKeepsTunnel
  <2> SUFFICES ASSUME MountInv, NEW t \in Targets, UsesTunnel(t), NEW i \in DOMAIN mounts[t]
               PROVE  /\ allocatedPorts[ShareOf[t]] = mounts[t][i]
                      /\ conf[ShareOf[t]] = mounts[t][i]
    BY DEF MountKeepsTunnel
  <2> QED
    BY TargetsAssumption, PortFacts DEF MountInv, MountsOfTunnel, UsesTunnel, HasTunnel
<1> QED
  BY <1>1, MountCorrect, PTL

\* On such a node the maps and the files agree about every share no call is working on:
\* the lock on the path does for the tunnel manager what Serialised assumes.
THEOREM NodeFilesCorrect ==
  ASSUME ~Serialised, OnePathPerShare, Faults \cap {"remove", "readdir"} = {}
  PROVE  NodeSpec => []MapsMatchFiles
<1>1. NodeInit => FilesInv
  BY FilesInit DEF NodeInit
<1>2. NodeInv /\ ManagerInv => OneCallPerVolume
  BY NodeOneCall
<1>3. NodeInv /\ [NodeNext]_nodeVars => [Next]_vars
  BY NodeStepIsManagerStep DEF NodeInv
<1>4. FilesInv => MapsMatchFiles
  BY DEF FilesInv, MapsMatchFiles
<1> QED
  BY <1>1, <1>2, <1>3, <1>4, NodeInvCorrect, ManagerCorrect, FilesStep, PTL DEF NodeSpec

-----------------------------------------------------------------------------
(* Nothing leaks *)

\* The RemoveTunnel call for path t has taken the tunnel out of the maps, or need not;
\* or it has even removed the file.
LookedUp == {"r_last", "r_reload", "r_settle", "r_file", "r_lastfile", "r_hup", "ok"}
FileGone == {"r_hup", "ok"}

IsPast(t, steps) ==
    \E h \in Procs : hpc[h] = "u_tunnel" /\ tgt[h] = t /\ pc[h] \in steps

\* A path of v is left whose RemoveTunnel is still to do what is to be done.
Left(v, steps) ==
    \E t \in Targets : ShareOf[t] = v /\ co[t] # "absent" /\ ~IsPast(t, steps)

\* Whatever a share has on the node, somebody is left to remove it; and a file outlives
\* its tunnel only in the hands of a RemoveTunnel call.
LeakInv ==
    /\ hasMgr
    /\ \A v \in Volumes :
         /\ HasTunnel(v) => Left(v, LookedUp)
         /\ conf[v] \in Ports => Left(v, FileGone)
         /\ conf[v] \in Ports => HasTunnel(v) \/ \E h \in Procs : vol[h] = v /\ Removing(h)
    /\ \A h \in Procs : Removing(h) => loc[h] \in Ports

\* A port that is mounted and allocated is mounted by the share it is allocated to.
PortsTellShares ==
    \A t \in Targets, v \in Volumes : \A i \in DOMAIN mounts[t] :
        HasTunnel(v) /\ mounts[t][i] = allocatedPorts[v] => ShareOf[t] = v

\* A step of the tunnel manager for handler h: who was left is left, unless it is h that
\* gets past the steps now.
LEMMA LeftInManager ==
  ASSUME ManagerInv, NEW h \in Procs, pc[h] # "idle", UNCHANGED node,
         \A g \in Procs \ {h} : pc'[g] = pc[g],
         NEW v, NEW S, Left(v, S),
         hpc[h] = "u_tunnel" /\ pc'[h] \in S => pc[h] \in S \/ v # vol[h]
  PROVE  Left(v, S)'
<1>1. PICK t \in Targets : ShareOf[t] = v /\ co[t] # "absent" /\ ~IsPast(t, S)
  BY DEF Left
<1>2. UNCHANGED <<hpc, tgt, co>>
  BY DEF node, handlers, outer
<1>3. vol[h] = ShareOf[tgt[h]]
  BY DEF ManagerInv, InManager
<1>4. ~IsPast(t, S)'
  BY <1>1, <1>2, <1>3 DEF IsPast
<1> QED
  BY <1>1, <1>2, <1>4 DEF Left

\* Handler h itself is left, as long as it is not past the steps.
LEMMA OwnLeft ==
  ASSUME NodeInv, PathInv, ManagerInv, NEW h \in Procs, pc[h] # "idle", UNCHANGED node,
         NEW v, v = vol[h], NEW S, hpc[h] = "u_tunnel" => pc'[h] \notin S
  PROVE  Left(v, S)'
<1>1. /\ hpc[h] \in {"p_tunnel", "u_tunnel"} /\ vol[h] = ShareOf[tgt[h]]
      /\ tgt[h] \in Targets
  BY DEF ManagerInv, InManager, NodeInv, HandlerInv
<1>2. co[tgt[h]] # "absent"
  BY <1>1 DEF PathInv, PublishSteps, UnpublishSteps
<1>3. UNCHANGED <<hpc, tgt, co>>
  BY DEF node, handlers, outer
<1>4. ~IsPast(tgt[h], S)'
  BY <1>1, <1>3, OwnPath DEF IsPast
<1>5. \E t \in Targets : ShareOf[t] = v /\ co'[t] # "absent" /\ ~IsPast(t, S)'
  BY <1>1, <1>2, <1>3, <1>4
<1> QED
  BY <1>5 DEF Left

\* A step of a handler outside the tunnel manager, or a call on path t.
LEMMA LeftKept ==
  ASSUME NEW h \in Procs, NEW t \in Targets, NEW v, NEW S, Left(v, S),
         \A u \in Targets \ {t} : co'[u] = co[u],
         \A g \in Procs \ {h} : hpc'[g] = hpc[g] /\ tgt'[g] = tgt[g] /\ pc'[g] = pc[g],
         \A g \in Procs \ {h} : hpc[g] = "u_tunnel" => tgt[g] # t,
         hpc'[h] = "u_tunnel" => tgt'[h] = t /\ pc'[h] \notin S,
         co'[t] = "absent" => ShareOf[t] # v \/ co[t] = "absent" \/ IsPast(t, S)
  PROVE  Left(v, S)'
<1>1. PICK u \in Targets : ShareOf[u] = v /\ co[u] # "absent" /\ ~IsPast(u, S)
  BY DEF Left
<1>2. co'[u] # "absent"
  BY <1>1
<1>3. ~IsPast(u, S)'
  BY <1>1 DEF IsPast
<1> QED
  BY <1>1, <1>2, <1>3 DEF Left

LEMMA LeakManagerStep ==
  ASSUME "remove" \notin Faults, TypeInv, NodeInv, PathInv, ManagerInv, LeakInv,
         NEW h \in Procs, InTunnelManager(h)
  PROVE  LeakInv'
<1>1. /\ pc[h] # "idle" /\ UNCHANGED node /\ UNCHANGED <<hpc, tgt, co, hasMgr, vol>>
      /\ \A g \in Procs \ {h} : pc'[g] = pc[g] /\ loc'[g] = loc[g]
  BY TunnelFrame DEF node, handlers, outer
<1>2. /\ vol[h] \in Volumes /\ tgt[h] \in Targets /\ vol[h] = ShareOf[tgt[h]]
      /\ hpc[h] = "u_tunnel" <=> pc[h] \in RemoveSteps
      /\ hpc[h] = "p_tunnel" <=> pc[h] \in EnsureSteps
  BY <1>1, TunnelFrame, TargetsAssumption
     DEF ManagerInv, InManager, NodeInv, HandlerInv, EnsureSteps, RemoveSteps
<1>3. ASSUME NEW v \in Volumes, NEW S, Left(v, S),
             hpc[h] = "u_tunnel" /\ pc'[h] \in S => pc[h] \in S \/ v # vol[h]
      PROVE  Left(v, S)'
  BY <1>1, <1>3, LeftInManager
<1>4. ASSUME NEW v, v = vol[h], NEW S, hpc[h] = "u_tunnel" => pc'[h] \notin S
      PROVE  Left(v, S)'
  BY <1>1, <1>4, OwnLeft
<1>5. pc[h] \in EnsureSteps => hpc[h] # "u_tunnel" /\ ~Removing(h) /\ ~Removing(h)'
  BY <1>2, TunnelFrame DEF EnsureSteps, RemoveSteps, Removing
<1> USE PortFacts DEF LeakInv, HasTunnel, Removing, TypeInv, TypeOK, EnsureSteps, RemoveSteps,
        LookedUp, FileGone, memory, stunnel, Goto, SetLoc
<1>6. CASE EnsureFast(h) \/ EnsureExisting(h) \/ EnsureRefused(h) \/ EnsureWriteFails(h)
           \/ EnsureProbe(h) \/ EnsureStarted(h)
  <2>1. pc[h] \in EnsureSteps /\ UNCHANGED <<allocatedPorts, conf>>
    BY <1>6 DEF EnsureFast, EnsureExisting, EnsureRefused, EnsureWriteFails, EnsureProbe,
       EnsureStarted
  <2> QED
    BY <1>1, <1>3, <1>5, <2>1
<1>7. CASE EnsureWrite(h) \/ EnsureRollback(h)
  <2>1. hpc[h] # "u_tunnel" /\ ~Removing(h) /\ ~Removing(h)'
    BY <1>7, <1>5 DEF EnsureWrite, EnsureRollback
  <2>2. /\ conf'[vol[h]] \notin Ports
        /\ \A v \in Volumes \ {vol[h]} : conf'[v] = conf[v] /\ allocatedPorts'[v] = allocatedPorts[v]
        /\ allocatedPorts'[vol[h]] = allocatedPorts[vol[h]] \/ allocatedPorts'[vol[h]] = NoPort
    <3>1. CASE EnsureWrite(h)
      BY <1>2, <3>1 DEF EnsureWrite
    <3>2. CASE EnsureRollback(h)
      BY <1>2, <3>2 DEF EnsureRollback
    <3> QED
      BY <1>7, <3>1, <3>2
  <2> QED
    BY <1>1, <1>3, <2>1, <2>2
<1>8. CASE EnsureCommit(h)
  <2>1. hpc[h] # "u_tunnel" /\ ~Removing(h) /\ ~Removing(h)'
    BY <1>8, <1>5 DEF EnsureCommit
  <2>2. /\ conf'[vol[h]] = loc[h] /\ allocatedPorts'[vol[h]] = loc[h]
        /\ \A v \in Volumes \ {vol[h]} : conf'[v] = conf[v] /\ allocatedPorts'[v] = allocatedPorts[v]
    BY <1>2, <1>8 DEF EnsureCommit
  <2>3. \A v : v = vol[h] => Left(v, LookedUp)' /\ Left(v, FileGone)'
    BY <1>4, <2>1
  <2> QED
    BY <1>1, <1>3, <2>1, <2>2, <2>3
<1>9. CASE ScheduleDebouncedSIGHUP(h) \/ LastTunnelCleanup(h) \/ LastTunnelSettled(h)
  <2>1. /\ UNCHANGED <<allocatedPorts, conf, loc>>
        /\ Removing(h) <=> Removing(h)'
        /\ hpc[h] = "u_tunnel" => /\ pc[h] \in LookedUp
                                  /\ pc'[h] \in FileGone => pc[h] \in FileGone
    BY <1>2, <1>9 DEF ScheduleDebouncedSIGHUP, LastTunnelCleanup, LastTunnelSettled
  <2> QED
    BY <1>1, <1>3, <2>1
<1>10. CASE RemoveFile(h)
  <2>1. /\ conf'[vol[h]] \notin Ports /\ \A v \in Volumes \ {vol[h]} : conf'[v] = conf[v]
        /\ UNCHANGED <<allocatedPorts, loc>> /\ pc[h] \in LookedUp /\ ~Removing(h)'
    BY <1>2, <1>10 DEF RemoveFile
  <2> QED
    BY <1>1, <1>3, <2>1
<1>11. CASE RemoveFileFails(h)
  BY <1>11 DEF RemoveFileFails
<1>12. CASE RemoveUndo(h)
  <2>1. /\ pc[h] = "r_undo" /\ pc'[h] = "failed" /\ UNCHANGED <<conf, loc>>
        /\ allocatedPorts'[vol[h]] = loc[h] /\ loc[h] \in Ports
        /\ \A v \in Volumes \ {vol[h]} : allocatedPorts'[v] = allocatedPorts[v]
    BY <1>2, <1>12 DEF RemoveUndo
  <2>2. \A v : v = vol[h] => Left(v, LookedUp)'
    BY <1>4, <2>1
  <2> QED
    BY <1>1, <1>3, <2>1, <2>2
<1> QED
  BY <1>6, <1>7, <1>8, <1>9, <1>10, <1>11, <1>12 DEF InTunnelManager

\* RemoveTunnel's lookup: a tunnel stays only if another path of the share is mounted, and
\* a file without a tunnel only if another call is removing it.
LEMMA LeakLookupStep ==
  ASSUME "mounts" \notin NodeFaults, TypeInv, NodeInv, PathInv, ManagerInv, PortsTellShares,
         LeakInv,
         NEW h \in Procs, UnpublishLookup(h)
  PROVE  LeakInv'
<1>1. /\ pc[h] # "idle" /\ pc[h] = "r_call" /\ hpc[h] = "u_tunnel" /\ UNCHANGED node
      /\ UNCHANGED <<hpc, tgt, co, hasMgr, vol, conf>>
  BY DEF UnpublishLookup, RemoveLookup, node, handlers, outer
<1>2. /\ vol[h] \in Volumes /\ tgt[h] \in Targets /\ vol[h] = ShareOf[tgt[h]]
      /\ mounts[tgt[h]] = <<>>
  BY <1>1, TargetsAssumption DEF ManagerInv, InManager, NodeInv, HandlerInv, Mounted
<1>3. PICK inUse \in {\E t \in Targets : \E i \in DOMAIN mounts[t] :
                         mounts[t][i] = allocatedPorts[vol[h]]} :
        RemoveLookup(h, inUse)
  BY <1>2 DEF UnpublishLookup, isTunnelPortInUse
<1>4. ASSUME NEW v \in Volumes, NEW S, Left(v, S), pc'[h] \in S => v # vol[h],
             \A g \in Procs \ {h} : pc'[g] = pc[g]
      PROVE  Left(v, S)'
  BY <1>1, <1>4, LeftInManager
<1>5. CASE ~HasTunnel(vol[h]) \/ inUse
  <2>1. pc' = [pc EXCEPT ![h] = "ok"] /\ UNCHANGED <<allocatedPorts, loc>>
    BY <1>3, <1>5 DEF RemoveLookup, Goto
  <2>2. pc'[h] = "ok" /\ \A g \in Procs \ {h} : pc'[g] = pc[g]
    BY <2>1 DEF TypeInv, TypeOK
  <2>3. ASSUME NEW v, v = vol[h], HasTunnel(v) PROVE Left(v, LookedUp)' /\ Left(v, FileGone)'
    <3>1. PICK t \in Targets : \E i \in DOMAIN mounts[t] : mounts[t][i] = allocatedPorts[vol[h]]
      BY <1>3, <1>5, <2>3
    <3>2. ShareOf[t] = v /\ mounts[t] # <<>>
      BY <1>2, <2>3, <3>1 DEF PortsTellShares
    <3>3. co[t] # "absent"
      BY <3>2 DEF PathInv, Mounted
    <3>4. \A g \in Procs : ~(hpc[g] = "u_tunnel" /\ tgt[g] = t)
      BY <3>2 DEF PathInv, Mounted
    <3>5. ~IsPast(t, LookedUp)' /\ ~IsPast(t, FileGone)'
      BY <1>1, <3>4 DEF IsPast
    <3> QED
      BY <1>1, <3>2, <3>3, <3>5 DEF Left
  <2>4. ASSUME NEW v, v = vol[h], ~HasTunnel(v), conf[v] \in Ports PROVE Left(v, FileGone)'
    <3>1. PICK g \in Procs : vol[g] = v /\ Removing(g)
      BY <1>2, <2>4 DEF LeakInv
    <3>2. g # h /\ pc[g] # "idle" /\ hpc[g] = "u_tunnel" /\ v = ShareOf[tgt[g]] /\ tgt[g] \in Targets
      BY <1>1, <3>1 DEF Removing, ManagerInv, InManager, NodeInv, HandlerInv, EnsureSteps
    <3>3. pc'[g] \notin FileGone
      BY <2>2, <3>1, <3>2 DEF Removing, FileGone
    <3> QED
      BY <1>1, <3>1, <3>2, <3>3, OwnLeft
  <2>5. \A v \in Volumes : HasTunnel(v) => Left(v, LookedUp)'
    BY <1>4, <2>2, <2>3 DEF LeakInv
  <2>6. \A v \in Volumes : conf[v] \in Ports => Left(v, FileGone)'
    BY <1>4, <2>2, <2>3, <2>4 DEF LeakInv
  <2>7. \A g \in Procs : Removing(g) <=> Removing(g)'
    BY <1>1, <2>2 DEF Removing
  <2> QED
    BY <1>1, <2>1, <2>5, <2>6, <2>7 DEF LeakInv, HasTunnel
<1>6. CASE HasTunnel(vol[h]) /\ ~inUse
  <2>1. PICK step \in {"r_last", "r_file"} :
          /\ pc' = [pc EXCEPT ![h] = step]
          /\ loc' = [loc EXCEPT ![h] = allocatedPorts[vol[h]]]
          /\ allocatedPorts' = [allocatedPorts EXCEPT ![vol[h]] = NoPort]
    BY <1>3, <1>6 DEF RemoveLookup, Goto, SetLoc
  <2>2. /\ pc'[h] = step /\ \A g \in Procs \ {h} : pc'[g] = pc[g] /\ loc'[g] = loc[g]
        /\ loc'[h] \in Ports
        /\ ~HasTunnel(vol[h])'
        /\ \A v \in Volumes \ {vol[h]} : allocatedPorts'[v] = allocatedPorts[v]
    BY <1>1, <1>2, <1>6, <2>1 DEF TypeInv, TypeOK, HasTunnel
  <2>3. Removing(h)' /\ ~Removing(h) /\ \A g \in Procs \ {h} : Removing(g)' <=> Removing(g)
    BY <1>1, <2>2 DEF Removing
  <2>4. \A v \in Volumes \ {vol[h]} : HasTunnel(v)' => Left(v, LookedUp)'
    BY <1>4, <2>2 DEF LeakInv, HasTunnel
  <2>5. \A v \in Volumes : conf[v] \in Ports => Left(v, FileGone)'
    BY <1>4, <2>2 DEF LeakInv, FileGone
  <2>6. \A v \in Volumes :
          conf[v] \in Ports => HasTunnel(v)' \/ \E g \in Procs : vol[g] = v /\ Removing(g)'
    BY <2>2, <2>3 DEF LeakInv, HasTunnel
  <2>7. \A v \in Volumes : v = vol[h] => ~HasTunnel(v)'
    BY <1>1, <2>2
  <2> QED
    BY <1>1, <2>2, <2>3, <2>4, <2>5, <2>6, <2>7 DEF LeakInv
<1> QED
  BY <1>5, <1>6

LEMMA LeakHandlerStep ==
  ASSUME TypeInv, NodeInv, PathInv, ManagerInv, ManagerInv', PathInv', LeakInv, NEW h \in Procs,
         Publish(h) \/ Unpublish(h), ~UnpublishLookup(h)
  PROVE  LeakInv'
<1> USE DEF Publish, Unpublish, PublishRejected, PublishCheck, PublishLock, PublishRefused,
        PublishTunnel, PublishMounts, PublishMountFails, PublishMountBusy, PublishUndo,
        UnpublishRejected, UnpublishLock, UnpublishUnmounts, UnpublishFails, UnpublishTunnel
<1>1. hpc[h] # "idle" /\ tgt[h] \in Targets /\ InManager(h) /\ InManager(h)' /\ hasMgr
  BY HandlerFrame DEF ManagerInv, LeakInv
<1>2. UNCHANGED vars \/ Return(h) \/ \E v : CallEnsure(h, v) \/ CallRemove(h, v)
  OBVIOUS
<1>3. UNCHANGED <<allocatedPorts, conf>>
  BY <1>2 DEF vars, memory, Return, CallEnsure, CallRemove
<1>4. pc'[h] \in {"idle", "e_call", "r_call"} /\ pc[h] \in {"idle", "ok", "failed"}
  <2>1. CASE UNCHANGED vars
    <3>1. hpc[h] \notin {"p_tunnel", "u_tunnel"}
      BY <2>1 DEF Return, Goto, vars, locals, TypeInv, TypeOK
    <3> QED
      BY <1>1, <2>1, <3>1 DEF InManager, vars, locals
  <2>2. CASE Return(h) \/ \E v : CallEnsure(h, v) \/ CallRemove(h, v)
    BY <2>2 DEF Return, CallEnsure, CallRemove, Goto, TypeInv, TypeOK
  <2> QED
    BY <1>2, <2>1, <2>2
<1>5. hpc'[h] = "u_tunnel" => tgt'[h] = tgt[h]
  <2>1. \/ \E ok \in BOOLEAN : Reply(h, ok)
        \/ UNCHANGED tgt
    OBVIOUS
  <2> QED
    BY <2>1, ReplyFrame
<1>6. ASSUME co'[tgt[h]] = "absent", ShareOf[tgt[h]] \in Volumes
      PROVE  hpc[h] = "u_tunnel" /\ pc[h] = "ok"
  <2>1. co[tgt[h]] # "absent"
    BY <1>1 DEF PathInv, PublishSteps, UnpublishSteps, NodeInv, HandlerTypes, HandlerSteps
  <2>2. Reply(h, TRUE) /\ co[tgt[h]] # "publishing"
    BY <1>1, <1>6, <2>1 DEF Reply, outer, NodeInv, HandlerTypes
  <2>3. hpc[h] \in UnpublishSteps
    BY <1>1, <2>2 DEF PathInv, PublishSteps, UnpublishSteps, NodeInv, HandlerTypes, HandlerSteps
  <2>4. UsesTunnel(tgt[h])
    BY <1>6, SentinelAssumption DEF UsesTunnel
  <2>5. ~Reply(h, FALSE) /\ ~UNCHANGED outer
    BY <1>6, <2>1 DEF Reply, outer
  <2> QED
    BY <1>1, <2>3, <2>4, <2>5 DEF UnpublishSteps
<1>7. \A g \in Procs \ {h} : hpc[g] = "u_tunnel" => tgt[g] # tgt[h]
  BY <1>1, OwnPath
<1>8. ASSUME NEW v \in Volumes, NEW S \in {LookedUp, FileGone}, Left(v, S) PROVE Left(v, S)'
  <2>1. hpc'[h] = "u_tunnel" => pc'[h] \notin S
    BY <1>1, <1>4 DEF InManager, LookedUp, FileGone
  <2>2. co'[tgt[h]] = "absent" => ShareOf[tgt[h]] # v \/ IsPast(tgt[h], S)
    BY <1>6 DEF IsPast, LookedUp, FileGone
  <2>3. /\ \A u \in Targets \ {tgt[h]} : co'[u] = co[u]
        /\ \A g \in Procs \ {h} : hpc'[g] = hpc[g] /\ tgt'[g] = tgt[g] /\ pc'[g] = pc[g]
    BY HandlerFrame
  <2>4. tgt[h] \in Targets
    BY <1>1
  <2> QED
    BY ONLY <1>5, <1>7, <1>8, <2>1, <2>2, <2>3, <2>4, LeftKept, h \in Procs
<1>9. \A g \in Procs : Removing(g)' => Removing(g) /\ loc'[g] = loc[g]
  BY <1>4, HandlerFrame DEF Removing
<1>10. \A g \in Procs : Removing(g) => Removing(g)' /\ vol'[g] = vol[g]
  BY <1>4, HandlerFrame DEF Removing
<1>11. \A v \in Volumes : HasTunnel(v)' <=> HasTunnel(v)
  BY <1>3 DEF HasTunnel
<1>12. hasMgr'
  BY <1>1, HandlerFrame
<1>13. \A v \in Volumes : /\ Left(v, LookedUp) => Left(v, LookedUp)'
                          /\ Left(v, FileGone) => Left(v, FileGone)'
  BY <1>8
<1> QED
  BY ONLY LeakInv, <1>3, <1>9, <1>10, <1>11, <1>12, <1>13 DEF LeakInv

LEMMA LeakStep ==
  ASSUME Faults \cap {"remove", "readdir"} = {}, NodeFaults \cap {"timeout", "mounts",
         "manager"} = {}
  PROVE  /\ TypeInv /\ LockDiscipline /\ NodeInv /\ PathInv /\ PathInv' /\ ManagerInv /\ ManagerInv'
         /\ PortsTellShares /\ LeakInv /\ [NodeNext]_nodeVars
         => LeakInv'
<1> SUFFICES ASSUME TypeInv, LockDiscipline, NodeInv, PathInv, PathInv', ManagerInv, ManagerInv',
                    PortsTellShares, LeakInv, [NodeNext]_nodeVars
             PROVE  LeakInv'
  OBVIOUS
<1>1. CASE UNCHANGED nodeVars
  BY <1>1 DEF nodeVars, node, handlers, outer, vars, memory, locals, LeakInv, Left, IsPast,
     HasTunnel, Removing
<1>2. ASSUME NEW h \in Procs, NEW t \in Targets,
             KubeletPublish(h, t) \/ KubeletUnpublish(h, t)
      PROVE  LeakInv'
  <2>1. PICK step \in {"p_check", "u_lock"}, state \in {"publishing", "unpublishing"} :
          Calls(h, t, step, state)
    BY <1>2 DEF KubeletPublish, KubeletUnpublish
  <2>2. /\ hpc'[h] = step /\ hpc[h] = "idle"
        /\ \A g \in Procs \ {h} : hpc'[g] = hpc[g] /\ tgt'[g] = tgt[g]
        /\ UNCHANGED <<allocatedPorts, conf, pc, vol, loc, hasMgr>>
    BY <2>1 DEF Calls, Enter, vars, memory, locals, NodeInv, HandlerInv
  <2>3. co'[t] = state /\ \A u \in Targets \ {t} : co'[u] = co[u]
    BY <2>1 DEF Calls, NodeInv, HandlerTypes
  <2>4. \A g \in Procs \ {h} : hpc[g] = "u_tunnel" => tgt[g] # t
    BY <2>1, SentinelAssumption DEF Calls, PathInv
  <2>5. \A v, S : Left(v, S) => Left(v, S)'
    BY <2>2, <2>3, <2>4, LeftKept
  <2>6. /\ \A v \in Volumes : HasTunnel(v)' <=> HasTunnel(v)
        /\ \A g \in Procs : Removing(g)' <=> Removing(g)
    BY <2>2 DEF HasTunnel, Removing
  <2> QED
    BY <2>2, <2>5, <2>6 DEF LeakInv
<1>3. ASSUME NEW h \in Procs, Publish(h) \/ Unpublish(h) PROVE LeakInv'
  BY <1>3, LeakHandlerStep, LeakLookupStep
<1>4. ASSUME NEW h \in Procs, InTunnelManager(h) PROVE LeakInv'
  BY <1>4, LeakManagerStep
<1>5. ASSUME NEW t \in Targets PROVE ~KubeletTimeout(t)
  BY DEF KubeletTimeout
<1>6. CASE Background
  <2>1. /\ UNCHANGED <<allocatedPorts, conf, vol, loc, hpc, tgt, co, hasMgr>>
        /\ \A g \in Procs : \/ pc'[g] = pc[g]
                            \/ pc[g] = "r_reload" /\ pc'[g] \in {"r_settle", "r_undo"}
    BY <1>6, BackgroundFrame DEF node, handlers, outer
  <2>2. \A t : /\ IsPast(t, LookedUp)' => IsPast(t, LookedUp)
               /\ IsPast(t, FileGone)' => IsPast(t, FileGone)
    BY <2>1 DEF IsPast, LookedUp, FileGone
  <2>3. \A v : /\ Left(v, LookedUp) => Left(v, LookedUp)'
               /\ Left(v, FileGone) => Left(v, FileGone)'
    BY <2>1, <2>2 DEF Left
  <2>4. /\ \A v \in Volumes : HasTunnel(v)' <=> HasTunnel(v)
        /\ \A g \in Procs : Removing(g)' <=> Removing(g)
    BY <2>1 DEF HasTunnel, Removing
  <2> QED
    BY <2>1, <2>3, <2>4 DEF LeakInv
<1>7. CASE NodeCrashes
  <2>1. /\ \A v \in Volumes : allocatedPorts'[v] = IF conf[v] \in Ports THEN conf[v] ELSE NoPort
        /\ \A g \in Procs : pc'[g] = "idle" /\ hpc'[g] = "idle"
        /\ UNCHANGED <<conf, co>>
    BY <1>7 DEF NodeCrashes, DriverCrashes, Recovered, ServicesOnDisk
  <2>2. hasMgr'
    BY <1>7 DEF NodeCrashes
  <2>3. \A t, S : ~IsPast(t, S)'
    BY <2>1 DEF IsPast
  <2>4. \A v, S, U : Left(v, S) => Left(v, U)'
    BY <2>1, <2>3 DEF Left
  <2>5. \A g \in Procs : ~Removing(g)'
    BY <2>1 DEF Removing
  <2>6. \A v \in Volumes : HasTunnel(v)' <=> conf[v] \in Ports
    BY <2>1, PortFacts DEF HasTunnel
  <2> QED
    BY <2>1, <2>2, <2>4, <2>5, <2>6 DEF LeakInv
<1> QED
  BY <1>1, <1>2, <1>3, <1>4, <1>5, <1>6, <1>7 DEF NodeNext

\* A share that is mounted without a tunnel has no port.
PlainInv ==
    /\ \A h \in Procs :
         tunnelPort[h] # NoPort => hpc[h] \in {"p_mount", "p_undo"} /\ UsesTunnel(tgt[h])
    /\ \A t \in Targets : \A i \in DOMAIN mounts[t] : mounts[t][i] # NoPort => UsesTunnel(t)

LEMMA PlainStep ==
  TypeInv /\ NodeInv /\ ManagerInv /\ PlainInv /\ [NodeNext]_nodeVars => PlainInv'
<1> SUFFICES ASSUME TypeInv, NodeInv, ManagerInv, PlainInv, [NodeNext]_nodeVars PROVE PlainInv'
  OBVIOUS
<1>1. CASE UNCHANGED nodeVars
  BY <1>1 DEF nodeVars, node, handlers, PlainInv, UsesTunnel
<1>2. ASSUME NEW h \in Procs, NEW t \in Targets,
             KubeletPublish(h, t) \/ KubeletUnpublish(h, t)
      PROVE  PlainInv'
  <2>1. PICK step : Enter(h, step)
    BY <1>2 DEF KubeletPublish, KubeletUnpublish, Calls
  <2>2. hpc[h] = "idle" /\ tgt' = [tgt EXCEPT ![h] = t] /\ UNCHANGED <<mounts, tunnelPort>>
    BY <1>2 DEF KubeletPublish, KubeletUnpublish, Calls
  <2>3. \A g \in Procs \ {h} : tgt'[g] = tgt[g]
    BY <2>2 DEF NodeInv, HandlerInv
  <2> QED
    BY <2>1, <2>2, <2>3, EnterFrame DEF PlainInv, UsesTunnel
<1>3. ASSUME NEW h \in Procs, Publish(h) \/ Unpublish(h) PROVE PlainInv'
  <2>1. InManager(h) /\ tunnelPort[h] # NoPort => hpc[h] \in {"p_mount", "p_undo"} /\ UsesTunnel(tgt[h])
    BY DEF ManagerInv, PlainInv
  <2>2. \/ \E ok \in BOOLEAN : Reply(h, ok)
        \/ hpc[h] = "p_tunnel" /\ pc[h] = "ok" /\ Enter(h, "p_mount") /\ UNCHANGED tgt
        \/ hpc[h] = "p_mount" /\ Enter(h, "p_undo") /\ UNCHANGED <<tgt, tunnelPort>>
        \/ hpc[h] \notin {"p_mount", "p_undo"} /\ UNCHANGED <<tgt, tunnelPort>>
    BY <1>3 DEF Publish, Unpublish, PublishRejected, PublishCheck, PublishLock, PublishRefused,
     PublishTunnel, PublishMounts, PublishMountFails, PublishMountBusy, PublishUndo,
     UnpublishRejected, UnpublishLock, UnpublishUnmounts, UnpublishFails, UnpublishLookup,
     UnpublishTunnel, node, handlers
  <2>3. hpc[h] = "p_tunnel" => UsesTunnel(tgt[h])
    BY DEF ManagerInv, InManager, UsesTunnel
  <2>4. tunnelPort'[h] # NoPort =>
          hpc'[h] \in {"p_mount", "p_undo"} /\ tgt'[h] = tgt[h] /\ UsesTunnel(tgt[h])
    BY <2>2, <2>3, ReplyFrame, EnterFrame DEF PlainInv
  <2>5. \A g \in Procs :
          tunnelPort'[g] # NoPort => hpc'[g] \in {"p_mount", "p_undo"} /\ UsesTunnel(tgt'[g])
    BY <1>3, <2>4, HandlerFrame DEF PlainInv
  <2>6. \A t \in Targets : \A i \in DOMAIN mounts'[t] : mounts'[t][i] # NoPort => UsesTunnel(t)
    BY <1>3, HandlerMounts DEF PlainInv
  <2> QED
    BY <2>5, <2>6 DEF PlainInv, UsesTunnel
<1>4. CASE UNCHANGED node
  BY <1>4 DEF node, handlers, PlainInv, UsesTunnel
<1>5. ASSUME NEW t \in Targets, KubeletTimeout(t) PROVE PlainInv'
  BY <1>5 DEF KubeletTimeout, handlers, PlainInv, UsesTunnel
<1>6. CASE NodeCrashes
  BY <1>6 DEF NodeCrashes, PlainInv, UsesTunnel
<1> QED
  BY <1>1, <1>2, <1>3, <1>4, <1>5, <1>6 DEF NodeNext, InTunnelManager, Background

\* No RemoveTunnel takes the mount of one share for that of another: the node has one
\* share with a tunnel (and any number of paths), or every share has one path and the
\* tunnel manager has no reason to give a port twice.
SharesApart ==
    \/ \A v, w \in Volumes : v = w
    \/ OnePathPerShare /\ Faults \cap {"crash", "stunnel", "reload"} = {}

LEMMA PortsTellSharesCorrect ==
  ASSUME ~Serialised, SharesApart, Faults \cap {"remove", "readdir"} = {}
  PROVE  NodeSpec => []PortsTellShares
<1>1. NodeSpec => []PlainInv
  <2>1. NodeInit => PlainInv
    BY DEF NodeInit, PlainInv
  <2> QED
    BY <2>1, NodeInvCorrect, ManagerCorrect, PlainStep, PTL DEF NodeSpec
<1>2. CASE \A v, w \in Volumes : v = w
  <2>1. PlainInv => PortsTellShares
    BY <1>2, TargetsAssumption DEF PlainInv, PortsTellShares, UsesTunnel, HasTunnel
  <2> QED
    BY <1>1, <2>1, PTL
<1>3. CASE OnePathPerShare /\ Faults \cap {"crash", "stunnel", "reload"} = {}
  <2>1. NodeSpec => []MountInv
    BY <1>3, MountCorrect
  <2>2. Spec => []MapsInverse
    BY <1>3, MapsCorrect
  <2>3. NodeSpec => []MapsInverse
    BY <2>2, NodeImplementsTunnelManager, PTL DEF ImplementsTunnelManager
  <2>4. PlainInv /\ MountInv /\ MapsInverse => PortsTellShares
    BY TargetsAssumption
       DEF PlainInv, MountInv, MountsOfTunnel, MapsInverse, PortsTellShares, UsesTunnel, HasTunnel
  <2> QED
    BY <1>1, <2>1, <2>3, <2>4, PTL
<1> QED
  BY <1>2, <1>3 DEF SharesApart

\* Nothing leaks: with no call running, a path that kubelet unpublished is not mounted, and
\* a share whose paths are all unpublished has neither a port nor a file.  It holds for one
\* share and any number of its pods, whose publishes and unpublishes overlap, with restarts,
\* failing writes, mounts, unmounts and reloads, and a stunnel that dies; and for any number
\* of shares of one pod each, without restarts, failing reloads and a dying stunnel, after
\* which a port can be given twice.  The failures excluded all leave something behind: a
\* call kubelet gave up on, an unreadable /proc/mounts or services directory, a start
\* without tunnel manager, a file that cannot be removed.
THEOREM UnpublishIsComplete ==
  ASSUME ~Serialised, SharesApart, Faults \cap {"remove", "readdir"} = {},
         NodeFaults \cap {"timeout", "mounts", "manager"} = {}
  PROVE  NodeSpec => []UnpublishedLeavesNothing
<1>1. NodeInit => LeakInv
  BY PortFacts DEF NodeInit, Init, LeakInv, HasTunnel, Removing
<1>2. NodeSpec => []PathInv
  BY PathCorrect
<1>3. PathInv /\ LeakInv => UnpublishedLeavesNothing
  <2> SUFFICES ASSUME PathInv, LeakInv, \A h \in Procs : hpc[h] = "idle"
               PROVE  /\ \A t \in Targets : co[t] = "absent" => ~Mounted(t)
                      /\ \A v \in Volumes :
                           (\A t \in Targets : ShareOf[t] = v => co[t] = "absent") =>
                               ~HasTunnel(v) /\ conf[v] \notin Ports
    BY DEF UnpublishedLeavesNothing
  <2> QED
    BY DEF PathInv, LeakInv, Left
<1> QED
  BY <1>1, <1>2, <1>3, NodeInvCorrect, ManagerCorrect, PortsTellSharesCorrect, LeakStep, PTL
     DEF NodeSpec
=============================================================================
