-------------------------- MODULE ControllerProofs --------------------------
(***************************************************************************)
(* Theorems about Controller, for any number of handlers, volumes, shares  *)
(* and capacities.                                                         *)
(***************************************************************************)
EXTENDS Controller, TLAPS

CSteps == {"c_lookup", "c_net", "c_create", "c_ap", "c_wait"}
DSteps == {"d_lookup", "d_ap", "d_wait", "d_share"}
XSteps == {"x_lookup", "x_expand"}

(***************************************************************************)
(* The inductive invariant.  A handler may be one nobody waits for any     *)
(* more, so what it may still do is bounded by what its volume has become. *)
(***************************************************************************)

\* A handler works on a share of its volume.  One that deletes is there only once
\* the volume is given up; one that expands asks for no more than the sidecars do.
HandlerInv(h) ==
    cpc[h] # "idle" =>
        /\ name[h] \in Names /\ pv[name[h]] # "new"
        /\ cpc[h] \in CSteps =>
             /\ size[h] \in Sizes
             /\ pv[name[h]] = "creating" => size[h] = goal[name[h]]
             /\ sid[h] # NoShare =>
                  status[sid[h]] # "unused" /\ nameOf[sid[h]] = name[h]
        /\ cpc[h] \in {"c_ap", "c_wait"} => sid[h] # NoShare
        /\ cpc[h] \in DSteps =>
             pv[name[h]] \in {"deleting", "gone"} /\ sid[h] = pvShare[name[h]]
        /\ cpc[h] \in XSteps =>
             /\ pv[name[h]] \in {"bound", "expanding", "deleting", "gone"}
             /\ sid[h] = pvShare[name[h]] /\ size[h] <= goal[name[h]]

\* The shares of a volume that is not given up stay, and so do their access points.
ShareInv(i) ==
    /\ ap[i] # "none" => status[i] = "live"
    /\ status[i] # "unused" => nameOf[i] \in Names /\ pv[nameOf[i]] # "new"
    /\ status[i] = "deleted" \/ ap[i] = "deleting" =>
         pv[nameOf[i]] \in {"deleting", "gone"}
    /\ status[i] # "unused" /\ pv[nameOf[i]] = "creating" =>
         sizeOf[i] = goal[nameOf[i]]

\* What the sidecars know of a volume is so.
VolumeInv(n) ==
    /\ pv[n] \in {"bound", "expanding", "deleting", "gone"} =>
         /\ pvShare[n] \in ShareIds
         /\ status[pvShare[n]] # "unused" /\ nameOf[pvShare[n]] = n
    /\ pv[n] \in {"bound", "expanding"} => ap[pvShare[n]] = "stable"
    /\ pv[n] = "bound" => sizeOf[pvShare[n]] = goal[n] /\ pvSize[n] = goal[n]
    /\ pv[n] = "expanding" => sizeOf[pvShare[n]] <= goal[n]

\* An awaited handler does what the sidecars last asked for.
WaitInv(n) ==
    wait[n] # NoHandler =>
        /\ cpc[wait[n]] # "idle" /\ name[wait[n]] = n
        /\ cpc[wait[n]] \in CSteps => pv[n] = "creating"
        /\ cpc[wait[n]] \in DSteps => pv[n] = "deleting"
        /\ cpc[wait[n]] \in XSteps => pv[n] = "expanding" /\ size[wait[n]] = goal[n]

CtlInv ==
    /\ TypeOK
    /\ \A h \in Handlers : HandlerInv(h)
    /\ \A i \in ShareIds : ShareInv(i)
    /\ \A n \in Names : VolumeInv(n) /\ WaitInv(n)

-----------------------------------------------------------------------------
(***************************************************************************)
(* What holds besides when no call outlives the sidecar's patience and no  *)
(* lookup fails: a volume has one handler at a time, the awaited one, and  *)
(* the share it looked for and did not find is still not there.            *)
(***************************************************************************)

Serial == CtlFaults \cap {"timeout", "lookup", "masked"} = {}

AloneInv ==
    \A h \in Handlers : cpc[h] # "idle" =>
        /\ wait[name[h]] = h
        /\ cpc[h] = "c_create" \/ (cpc[h] = "c_net" /\ sid[h] = NoShare) =>
             Named(name[h]) = {}

\* Once the sidecars know a share, there is no other; gone means gone.
OnlyShare(n) ==
    /\ pv[n] \in {"bound", "expanding", "deleting", "gone"} => Named(n) \subseteq {pvShare[n]}
    /\ pv[n] = "gone" => Named(n) = {}

SerialInv == AloneInv /\ OneSharePerName /\ \A n \in Names : OnlyShare(n)

-----------------------------------------------------------------------------
(* The invariant is inductive. *)

LEMMA NoValues ==
    /\ NoShare \notin ShareIds /\ NoHandler \notin Handlers /\ NoName \notin Names
    /\ Sizes \subseteq Nat /\ 0 \notin Sizes
BY CtlAssumption

\* All capacities are natural numbers.
LEMMA NatSizes ==
    ASSUME TypeOK
    PROVE  /\ \A s \in Sizes : s \in Nat
           /\ \A h \in Handlers : size[h] \in Nat
           /\ \A i \in ShareIds : sizeOf[i] \in Nat
           /\ \A n \in Names : goal[n] \in Nat /\ pvSize[n] \in Nat
<1>1. \A s \in Sizes \cup {0} : s \in Nat
  BY NoValues
<1> QED
  BY <1>1 DEF TypeOK

LEMMA CtlInit == Init => CtlInv
BY NoValues DEF Init, CtlInv, TypeOK, CtlSteps, HandlerInv, ShareInv, VolumeInv, WaitInv

\* The results of a lookup: one of the shares it found, or a sign for none.
LEMMA LookupResult ==
    ASSUME NEW S, NEW found \in checkIfVolumeExists(S), found \notin {"none", "error"}
    PROVE  found \in S
BY DEF checkIfVolumeExists

LEMMA CtlStep == CtlInv /\ [Next]_vars => CtlInv'
<1> SUFFICES ASSUME CtlInv, [Next]_vars PROVE CtlInv'
  OBVIOUS
<1> USE NoValues DEF CtlInv, TypeOK, CtlSteps, CSteps, DSteps, XSteps, HandlerInv, ShareInv,
        VolumeInv, WaitInv, Goto, Live, Named, backend, handlers, sidecars
\* A handler that reports a failure changes nothing the sidecars know.
<1>1. ASSUME NEW h \in Handlers, cpc[h] # "idle", Reply(h, FALSE),
             UNCHANGED <<backend, outage>>
      PROVE  CtlInv'
  BY <1>1 DEF Reply
<1>2. ASSUME NEW h \in Handlers, NEW n \in Names, NEW s \in Sizes,
             SidecarCreates(h, n, s), UNCHANGED outage
      PROVE  CtlInv'
  BY <1>2 DEF SidecarCreates, Calls
<1>3. ASSUME NEW h \in Handlers, NEW n \in Names, NEW s \in Sizes,
             SidecarExpands(h, n, s), UNCHANGED outage
      PROVE  CtlInv'
  <2>1. s \in Nat /\ goal[n] \in Nat /\ pvSize[n] \in Nat
    BY ONLY CtlInv, NatSizes, n \in Names, s \in Sizes DEF CtlInv
  <2>2. goal[n] <= s /\ pv[n] \in {"bound", "expanding"}
    BY <1>3, <2>1 DEF SidecarExpands
  <2>3. TypeOK' /\ \A m \in Names : WaitInv(m)'
    BY <1>3 DEF SidecarExpands, Calls
  <2>4. \A i \in ShareIds : ShareInv(i)'
    BY <1>3, <2>2 DEF SidecarExpands, Calls
  <2>5. \A m \in Names : VolumeInv(m)'
    <3>1. pv[n] = "bound" => sizeOf[pvShare[n]] <= s
      BY <1>3, <2>1, <2>2 DEF SidecarExpands
    <3>2. pv[n] = "expanding" => sizeOf[pvShare[n]] <= s
      <4>1. pv[n] = "expanding" => sizeOf[pvShare[n]] \in Nat
        BY ONLY CtlInv, NatSizes, n \in Names DEF CtlInv, VolumeInv
      <4> QED
        BY <2>1, <2>2, <4>1
    <3> QED
      BY <1>3, <2>2, <3>1, <3>2 DEF SidecarExpands, Calls
  <2>6. ASSUME NEW g \in Handlers PROVE HandlerInv(g)'
    <3>1. size[g] \in Nat
      BY ONLY CtlInv, NatSizes, g \in Handlers DEF CtlInv
    <3> QED
      BY <1>3, <2>1, <2>2, <3>1 DEF SidecarExpands, Calls
  <2> QED
    BY <2>3, <2>4, <2>5, <2>6
<1>4. ASSUME NEW h \in Handlers, NEW n \in Names, SidecarDeletes(h, n), UNCHANGED outage
      PROVE  CtlInv'
  BY <1>4 DEF SidecarDeletes, Calls
<1>5. ASSUME NEW n \in Names, SidecarTimeout(n), UNCHANGED outage PROVE CtlInv'
  BY <1>5 DEF SidecarTimeout
<1>6. ASSUME NEW i \in ShareIds, AccessPointSettles(i), UNCHANGED outage PROVE CtlInv'
  BY <1>6 DEF AccessPointSettles
<1>7. ASSUME NEW h \in Handlers, CreateLookup(h), UNCHANGED outage PROVE CtlInv'
  <2>0. PICK found \in checkIfVolumeExists(Named(name[h])) : CreateLookup(h)!2!(found)
    BY <1>7 DEF CreateLookup
  <2>1. cpc[h] = "c_lookup" /\ UNCHANGED <<backend, outage>>
    BY <1>7 DEF CreateLookup
  <2>2. CASE found \in {"none", "error"}
    <3>1. Goto(h, "c_net") /\ UNCHANGED <<name, size, sid, hasAP, sidecars>>
      BY <2>0, <2>2, Zenon
    <3> QED
      BY <2>1, <3>1
  <2>3. CASE found \notin {"none", "error"}
    <3>1. found \in Named(name[h])
      BY <2>0, <2>3, LookupResult
    <3>2. CASE Reply(h, FALSE)
      BY <1>1, <2>1, <3>2
    <3>3. CASE /\ Goto(h, "c_net")
               /\ sid' = [sid EXCEPT ![h] = found]
               /\ hasAP' = [hasAP EXCEPT ![h] = ap[found] # "none"]
               /\ UNCHANGED <<name, size, sidecars>>
      BY <2>1, <3>1, <3>3
    <3> QED
      BY <2>0, <2>3, <3>2, <3>3, Zenon
  <2> QED
    BY <2>2, <2>3
<1>8. ASSUME NEW h \in Handlers, CreateRefused(h), UNCHANGED outage PROVE CtlInv'
  BY <1>1, <1>8 DEF CreateRefused
<1>9. ASSUME NEW h \in Handlers, CreateNetwork(h), UNCHANGED outage PROVE CtlInv'
  BY <1>9 DEF CreateNetwork
<1>10. ASSUME NEW h \in Handlers, CreateShare(h), UNCHANGED outage PROVE CtlInv'
  BY <1>10 DEF CreateShare, ShareCreated
<1>11. ASSUME NEW h \in Handlers, CreateShareFails(h), UNCHANGED outage PROVE CtlInv'
  <2>1. cpc[h] = "c_create" /\ Reply(h, FALSE)
    BY <1>11 DEF CreateShareFails
  <2>2. CASE UNCHANGED backend
    BY <1>1, <1>11, <2>1, <2>2
  <2>3. ASSUME NEW i \in ShareIds, ShareCreated(h, i) PROVE CtlInv'
    <3>1. UNCHANGED <<pv, pvShare, pvSize, goal>>
      BY <2>1 DEF Reply
    <3> QED
      BY <1>11, <2>1, <2>3, <3>1 DEF ShareCreated, Reply
  <2> QED
    BY <1>11, <2>2, <2>3 DEF CreateShareFails
<1>12. ASSUME NEW h \in Handlers, CreateAccessPoint(h), UNCHANGED outage PROVE CtlInv'
  <2>1. CASE Goto(h, "c_wait") /\ UNCHANGED <<name, size, sid, hasAP, sidecars>>
    BY <1>12, <2>1 DEF CreateAccessPoint
  <2>2. CASE Reply(h, FALSE)
    <3>1. UNCHANGED <<pv, pvShare, pvSize, goal>>
      BY <2>2 DEF Reply
    <3> QED
      BY <1>12, <2>2, <3>1 DEF CreateAccessPoint, Reply
  <2> QED
    BY <1>12, <2>1, <2>2 DEF CreateAccessPoint
<1>13. ASSUME NEW h \in Handlers, CreateAccessPointFails(h), UNCHANGED outage PROVE CtlInv'
  BY <1>1, <1>13 DEF CreateAccessPointFails, BackendFails
<1>14. ASSUME NEW h \in Handlers, CreateWaits(h), UNCHANGED outage PROVE CtlInv'
  <2>1. CASE Reply(h, FALSE)
    BY <1>1, <1>14, <2>1 DEF CreateWaits
  <2>2. CASE ap[sid[h]] = "stable" /\ Reply(h, TRUE)
    <3> DEFINE n == name[h]
    <3>1. cpc[h] = "c_wait" /\ UNCHANGED <<backend, outage, goal>>
      BY <1>14, <2>2 DEF CreateWaits, Reply
    <3>2. CASE wait[n] # h
      BY <2>2, <3>1, <3>2 DEF Reply
    <3>3. CASE wait[n] = h
      <4>1. pv[n] = "creating" /\ size[h] = goal[n] /\ sid[h] \in ShareIds
        BY <3>1, <3>3
      <4>2. status[sid[h]] = "live" /\ nameOf[sid[h]] = n /\ sizeOf[sid[h]] = goal[n]
        BY <3>1, <4>1
      <4>3. /\ pv' = [pv EXCEPT ![n] = "bound"]
            /\ pvShare' = [pvShare EXCEPT ![n] = sid[h]]
            /\ pvSize' = [pvSize EXCEPT ![n] = size[h]]
            /\ wait' = [wait EXCEPT ![n] = NoHandler]
        BY <2>2, <3>3, <4>1 DEF Reply
      <4> QED
        BY <2>2, <3>1, <3>3, <4>1, <4>2, <4>3 DEF Reply
    <3> QED
      BY <3>2, <3>3
  <2> QED
    BY <1>14, <2>1, <2>2 DEF CreateWaits
<1>15. ASSUME NEW h \in Handlers, CreateWaitFails(h), UNCHANGED outage PROVE CtlInv'
  BY <1>1, <1>15 DEF CreateWaitFails, BackendFails
<1>16. ASSUME NEW h \in Handlers, DeleteLookup(h), UNCHANGED outage PROVE CtlInv'
  <2>1. cpc[h] = "d_lookup" /\ UNCHANGED <<backend, outage>>
    BY <1>16 DEF DeleteLookup
  <2>2. CASE Reply(h, TRUE)
    BY <2>1, <2>2 DEF Reply
  <2>3. CASE Goto(h, "d_ap") /\ UNCHANGED <<name, size, sid, hasAP, sidecars>>
    BY <2>1, <2>3
  <2> QED
    BY <1>16, <2>2, <2>3, Zenon DEF DeleteLookup
<1>17. ASSUME NEW h \in Handlers, DeleteRefused(h), UNCHANGED outage PROVE CtlInv'
  BY <1>1, <1>17 DEF DeleteRefused
<1>18. ASSUME NEW h \in Handlers, DeleteAccessPoint(h), UNCHANGED outage PROVE CtlInv'
  <2>1. CASE Goto(h, "d_wait") /\ UNCHANGED <<name, size, sid, hasAP, sidecars>>
    BY <1>18, <2>1 DEF DeleteAccessPoint
  <2>2. CASE Reply(h, FALSE)
    <3>1. UNCHANGED <<pv, pvShare, pvSize, goal>>
      BY <2>2 DEF Reply
    <3> QED
      BY <1>18, <2>2, <3>1 DEF DeleteAccessPoint, Reply
  <2> QED
    BY <1>18, <2>1, <2>2 DEF DeleteAccessPoint
<1>19. ASSUME NEW h \in Handlers, DeleteAccessPointFails(h), UNCHANGED outage PROVE CtlInv'
  BY <1>1, <1>19 DEF DeleteAccessPointFails, BackendFails
<1>20. ASSUME NEW h \in Handlers, DeleteWaits(h), UNCHANGED outage PROVE CtlInv'
  BY <1>20 DEF DeleteWaits
<1>21. ASSUME NEW h \in Handlers, DeleteShare(h), UNCHANGED outage PROVE CtlInv'
  BY <1>21 DEF DeleteShare, Reply
<1>22. ASSUME NEW h \in Handlers, DeleteShareFails(h), UNCHANGED outage PROVE CtlInv'
  BY <1>1, <1>22 DEF DeleteShareFails, BackendFails
<1>23. ASSUME NEW h \in Handlers, ExpandLookup(h), UNCHANGED outage PROVE CtlInv'
  <2>1. cpc[h] = "x_lookup" /\ UNCHANGED <<backend, outage>>
    BY <1>23 DEF ExpandLookup
  <2>2. CASE Reply(h, FALSE)
    BY <1>1, <2>1, <2>2
  <2>3. CASE Goto(h, "x_expand") /\ UNCHANGED <<name, size, sid, hasAP, sidecars>>
    BY <2>1, <2>3
  <2> QED
    BY <1>23, <2>2, <2>3, Zenon DEF ExpandLookup
<1>24. ASSUME NEW h \in Handlers, ExpandShare(h), UNCHANGED outage PROVE CtlInv'
  <2> DEFINE n == name[h]  i == sid[h]
  <2>1. /\ cpc[h] = "x_expand" /\ Live(i)
        /\ sizeOf' = [sizeOf EXCEPT ![i] = IF @ < size[h] THEN size[h] ELSE @]
        /\ UNCHANGED <<status, nameOf, ap, outage>>
    BY <1>24 DEF ExpandShare
  <2>2. /\ n \in Names /\ i = pvShare[n] /\ nameOf[i] = n
        /\ pv[n] \in {"bound", "expanding", "deleting", "gone"}
    BY <2>1
  <2>3. size[h] \in Nat /\ goal[n] \in Nat /\ sizeOf[i] \in Nat /\ size[h] <= goal[n]
    <3>1. size[h] <= goal[n] /\ i \in ShareIds
      BY <2>1, <2>2
    <3> QED
      BY ONLY CtlInv, NatSizes, <2>2, <3>1 DEF CtlInv
  <2>4. pv[n] = "bound" => sizeOf'[i] = goal[n] /\ pvSize[n] = goal[n]
    BY <2>1, <2>2, <2>3
  <2>5. pv[n] = "expanding" => sizeOf'[i] <= goal[n]
    BY <2>1, <2>2, <2>3
  <2>6. ASSUME wait[n] = h
        PROVE  pv[n] = "expanding" /\ size[h] = goal[n] /\ sizeOf'[i] = goal[n]
    <3>1. pv[n] = "expanding" /\ size[h] = goal[n] /\ sizeOf[i] <= goal[n]
      BY <2>1, <2>2, <2>6
    <3>2. sizeOf'[i] = IF sizeOf[i] < size[h] THEN size[h] ELSE sizeOf[i]
      BY <2>1
    <3> HIDE DEF n, i
    <3> QED
      BY ONLY <2>3, <3>1, <3>2
  <2>7. CASE Reply(h, FALSE)
    <3>1. UNCHANGED <<pv, pvShare, pvSize, goal>>
      BY <2>7 DEF Reply
    <3> QED
      BY <2>1, <2>2, <2>4, <2>5, <2>7, <3>1 DEF Reply
  <2>8. CASE Reply(h, TRUE) /\ wait[n] # h
    <3>1. UNCHANGED sidecars
      BY <2>8 DEF Reply
    <3> QED
      BY <2>1, <2>2, <2>4, <2>5, <2>8, <3>1 DEF Reply
  <2>9. CASE Reply(h, TRUE) /\ wait[n] = h
    <3>1. /\ pv' = [pv EXCEPT ![n] = "bound"]
          /\ pvShare' = pvShare /\ goal' = goal
          /\ pvSize' = [pvSize EXCEPT ![n] = goal[n]]
          /\ wait' = [wait EXCEPT ![n] = NoHandler]
      <4>1. /\ pv[n] = "expanding" /\ size[h] = goal[n]
            /\ pvShare' = [pvShare EXCEPT ![n] = sid[h]]
        BY <2>2, <2>6, <2>9 DEF Reply
      <4> QED
        BY <2>2, <2>9, <4>1 DEF Reply
    <3> QED
      BY <2>1, <2>2, <2>6, <2>9, <3>1 DEF Reply
  <2> QED
    <3>1. Reply(h, TRUE) \/ Reply(h, FALSE)
      BY ONLY <1>24, Zenon DEF ExpandShare
    <3> HIDE DEF CtlInv
    <3> QED
      BY <2>7, <2>8, <2>9, <3>1
<1>25. ASSUME NEW h \in Handlers, ExpandFails(h), UNCHANGED outage PROVE CtlInv'
  BY <1>1, <1>25 DEF ExpandFails, BackendFails
<1>26. CASE ControllerCrashes /\ UNCHANGED outage
  BY <1>26 DEF ControllerCrashes
<1>27. CASE OutageEnds
  <2>1. outage' \in BOOLEAN
    BY <1>27, Zenon DEF OutageEnds
  <2> QED
    BY <1>27, <2>1 DEF OutageEnds
<1>28. CASE UNCHANGED vars
  BY <1>28 DEF vars
<1>29. ASSUME NEW h \in Handlers, Create(h), UNCHANGED outage PROVE CtlInv'
  BY ONLY <1>7, <1>8, <1>9, <1>10, <1>11, <1>12, <1>13, <1>14, <1>15, <1>29, Zenon DEF Create
<1>30. ASSUME NEW h \in Handlers, Delete(h), UNCHANGED outage PROVE CtlInv'
  BY ONLY <1>16, <1>17, <1>18, <1>19, <1>20, <1>21, <1>22, <1>30, Zenon DEF Delete
<1>31. ASSUME NEW h \in Handlers, Expand(h), UNCHANGED outage PROVE CtlInv'
  BY ONLY <1>23, <1>24, <1>25, <1>31, Zenon DEF Expand
<1>32. ASSUME NEW h \in Handlers, NEW n \in Names, Sidecar(h, n), UNCHANGED outage
       PROVE  CtlInv'
  BY ONLY <1>2, <1>3, <1>4, <1>32, Zenon DEF Sidecar
<1> HIDE DEF CtlInv
<1> QED
  BY <1>5, <1>6, <1>26, <1>27, <1>28, <1>29, <1>30, <1>31, <1>32 DEF Next, Works

LEMMA CtlInvariant == Spec => []CtlInv
BY CtlInit, CtlStep, PTL DEF Spec

\* Every variable keeps its type: handlers hold shares of the backend, and the
\* sidecars' records hold what handlers answered.
THEOREM ControllerTypes == Spec => []TypeOK
<1>1. CtlInv => TypeOK
  BY DEF CtlInv
<1> QED
  BY <1>1, CtlInvariant, PTL

\* A volume the cluster has is served, in every run with any failures: calls that
\* outlive the sidecar's patience and go on beside their repetition, lookups that
\* fail or report a share as missing, restarts between any two backend calls, and
\* a backend that accepts a second share of a name as well as one that does not.
THEOREM BoundVolumesAreServed == Spec => []BoundIsServed
<1>1. CtlInv => BoundIsServed
  BY DEF CtlInv, VolumeInv, ShareInv, BoundIsServed, Live, TypeOK
<1> QED
  BY <1>1, CtlInvariant, PTL

-----------------------------------------------------------------------------
(* One share per name *)

\* A backend that refuses a second share of a name needs nothing else.
LEMMA UniqueStep ==
    ASSUME UniqueNames, CtlInv, OneSharePerName, [Next]_vars
    PROVE  OneSharePerName'
<1> USE DEF CtlInv, TypeOK, OneSharePerName, Live, Named, backend
<1>1. CASE UNCHANGED <<status, nameOf>>
  BY <1>1
<1>2. ASSUME NEW h \in Handlers, NEW i \in ShareIds, cpc[h] = "c_create", ShareCreated(h, i)
      PROVE  OneSharePerName'
  BY <1>2 DEF ShareCreated, HandlerInv
<1>3. ASSUME NEW h \in Handlers, DeleteShare(h) PROVE OneSharePerName'
  BY <1>3 DEF DeleteShare
<1>4. ASSUME NEW h \in Handlers, Create(h) PROVE OneSharePerName'
  BY <1>1, <1>2, <1>4
     DEF Create, CreateLookup, CreateRefused, CreateNetwork, CreateShare, CreateShareFails,
         CreateAccessPoint, CreateAccessPointFails, CreateWaits, CreateWaitFails
<1>5. ASSUME NEW h \in Handlers, Delete(h) PROVE OneSharePerName'
  BY <1>1, <1>3, <1>5
     DEF Delete, DeleteLookup, DeleteRefused, DeleteAccessPoint, DeleteAccessPointFails,
         DeleteWaits, DeleteShareFails
<1>6. ASSUME NEW h \in Handlers, Expand(h) PROVE OneSharePerName'
  BY <1>1, <1>6 DEF Expand, ExpandLookup, ExpandShare, ExpandFails
<1>7. ASSUME NEW h \in Handlers, NEW n \in Names, Sidecar(h, n) PROVE OneSharePerName'
  BY <1>1, <1>7 DEF Sidecar, SidecarCreates, SidecarExpands, SidecarDeletes, Calls
<1>8. CASE \/ \E n \in Names : SidecarTimeout(n)
           \/ \E i \in ShareIds : AccessPointSettles(i)
           \/ ControllerCrashes \/ OutageEnds \/ UNCHANGED vars
  BY <1>1, <1>8 DEF SidecarTimeout, AccessPointSettles, ControllerCrashes, OutageEnds, vars
<1> HIDE DEF OneSharePerName
<1> QED
  BY <1>4, <1>5, <1>6, <1>7, <1>8 DEF Next, Works

\* Without lookups that fail, a lookup finds what there is.
LEMMA ExactLookup ==
    ASSUME Serial, NEW S
    PROVE  /\ ~May("timeout") /\ ~May("lookup") /\ ~May("masked")
           /\ checkIfVolumeExists(S) = IF S = {} THEN {"none"} ELSE S
<1>1. "timeout" \notin CtlFaults /\ "lookup" \notin CtlFaults /\ "masked" \notin CtlFaults
  BY DEF Serial
<1>2. ~May("timeout") /\ ~May("lookup") /\ ~May("masked")
  BY <1>1 DEF May
<1> QED
  BY <1>2 DEF checkIfVolumeExists

\* What CreateVolume and DeleteVolume then do with the result.
LEMMA LookupBranches ==
    ASSUME Serial, NEW h
    PROVE  /\ CreateLookup(h) =>
                \/ /\ Named(name[h]) = {} /\ Goto(h, "c_net")
                   /\ UNCHANGED <<name, sid, sidecars>>
                \/ Reply(h, FALSE)
                \/ \E found \in Named(name[h]) :
                     /\ Goto(h, "c_net") /\ sid' = [sid EXCEPT ![h] = found]
                     /\ UNCHANGED <<name, sidecars>>
           /\ DeleteLookup(h) =>
                \/ ~Live(sid[h]) /\ Reply(h, TRUE)
                \/ Goto(h, "d_ap") /\ UNCHANGED <<name, size, sid, hasAP, sidecars>>
<1>1. \A i \in ShareIds : i \notin {"none", "error"}
  BY CtlAssumption, Zenon
<1>2. ASSUME CreateLookup(h), Named(name[h]) = {}
      PROVE  Goto(h, "c_net") /\ UNCHANGED <<name, sid, sidecars>>
  <2>1. checkIfVolumeExists(Named(name[h])) = {"none"}
    BY <1>2, ExactLookup
  <2> QED
    BY <1>2, <2>1, Zenon DEF CreateLookup
<1>3. ASSUME CreateLookup(h), Named(name[h]) # {}
      PROVE  \/ Reply(h, FALSE)
             \/ \E found \in Named(name[h]) :
                  /\ Goto(h, "c_net") /\ sid' = [sid EXCEPT ![h] = found]
                  /\ UNCHANGED <<name, sidecars>>
  <2>1. checkIfVolumeExists(Named(name[h])) = Named(name[h])
    BY <1>3, ExactLookup
  <2>2. \A found \in Named(name[h]) : found \notin {"none", "error"}
    BY <1>1, Zenon DEF Named
  <2> QED
    BY <1>3, <2>1, <2>2, Zenon DEF CreateLookup
<1>4. ASSUME DeleteLookup(h), Live(sid[h])
      PROVE  Goto(h, "d_ap") /\ UNCHANGED <<name, size, sid, hasAP, sidecars>>
  <2> DEFINE S == {i \in ShareIds : Live(i) /\ i = sid[h]}
  <2>1. checkIfVolumeExists(S) = S
    BY <1>4, ExactLookup DEF Live
  <2>2. \A found \in S : found # "none"
    BY <1>1, Zenon
  <2> QED
    BY <1>4, <2>1, <2>2, Zenon DEF DeleteLookup
<1>5. ASSUME DeleteLookup(h), ~Live(sid[h])
      PROVE  Reply(h, TRUE)
  <2> DEFINE S == {i \in ShareIds : Live(i) /\ i = sid[h]}
  <2>1. checkIfVolumeExists(S) = {"none"}
    BY <1>5, ExactLookup DEF Live
  <2> QED
    BY <1>5, <2>1, Zenon DEF DeleteLookup
<1> QED
  BY <1>2, <1>3, <1>4, <1>5, Zenon

LEMMA SerialInit == Init => SerialInv
BY DEF Init, SerialInv, AloneInv, OneSharePerName, OnlyShare, Named, Live

LEMMA SerialStep ==
    ASSUME Serial, CtlInv, SerialInv, [Next]_vars
    PROVE  SerialInv'
<1> USE NoValues DEF CtlInv, TypeOK, CtlSteps, CSteps, DSteps, XSteps, HandlerInv, ShareInv,
        VolumeInv, WaitInv, SerialInv, AloneInv, OneSharePerName, OnlyShare,
        Goto, Live, Named, backend, handlers, sidecars
<1>1. ASSUME NEW h \in Handlers, cpc[h] # "idle", Reply(h, FALSE),
             UNCHANGED <<status, nameOf>>
      PROVE  SerialInv'
  BY <1>1 DEF Reply
<1>2. ASSUME NEW h \in Handlers, NEW n \in Names, NEW s \in Sizes,
             SidecarCreates(h, n, s)
      PROVE  SerialInv'
  BY <1>2 DEF SidecarCreates, Calls
<1>3. ASSUME NEW h \in Handlers, NEW n \in Names, NEW s \in Sizes,
             SidecarExpands(h, n, s)
      PROVE  SerialInv'
  BY <1>3 DEF SidecarExpands, Calls
<1>4. ASSUME NEW h \in Handlers, NEW n \in Names, SidecarDeletes(h, n)
      PROVE  SerialInv'
  BY <1>4 DEF SidecarDeletes, Calls
<1>5. ASSUME NEW i \in ShareIds, AccessPointSettles(i) PROVE SerialInv'
  BY <1>5 DEF AccessPointSettles
<1>6. ASSUME NEW h \in Handlers, NEW step \in CtlSteps, cpc[h] # "idle", Goto(h, step),
             step # "c_create", step = "c_net" => sid'[h] # NoShare,
             UNCHANGED <<status, nameOf, name, sidecars>>, \A g \in Handlers \ {h} : sid'[g] = sid[g]
      PROVE  SerialInv'
  BY <1>6
<1>7. ASSUME NEW h \in Handlers, CreateLookup(h) PROVE SerialInv'
  <2>1. cpc[h] = "c_lookup" /\ UNCHANGED <<status, nameOf>>
    BY <1>7 DEF CreateLookup
  <2>2. CASE Named(name[h]) = {} /\ Goto(h, "c_net") /\ UNCHANGED <<name, sid, sidecars>>
    BY <2>1, <2>2
  <2>3. CASE Reply(h, FALSE)
    BY <1>1, <2>1, <2>3
  <2>4. ASSUME NEW found \in Named(name[h]), Goto(h, "c_net"),
               sid' = [sid EXCEPT ![h] = found], UNCHANGED <<name, sidecars>>
        PROVE  SerialInv'
    <3>1. sid'[h] # NoShare /\ \A g \in Handlers \ {h} : sid'[g] = sid[g]
      BY <2>4
    <3>2. "c_net" \in CtlSteps /\ "c_net" # "c_create" /\ cpc[h] # "idle"
      BY <2>1
    <3> QED
      BY ONLY <1>6, <2>1, <2>4, <3>1, <3>2
  <2> HIDE DEF SerialInv, Named, Goto, sidecars
  <2> QED
    BY ONLY <1>7, <2>2, <2>3, <2>4, LookupBranches, Serial
<1>8. ASSUME NEW h \in Handlers, CreateRefused(h) \/ DeleteRefused(h) PROVE SerialInv'
  BY ONLY <1>8, Serial, ExactLookup DEF CreateRefused, DeleteRefused
<1>9. ASSUME NEW h \in Handlers, CreateNetwork(h) PROVE SerialInv'
  BY <1>9 DEF CreateNetwork
<1>10. ASSUME NEW h \in Handlers, NEW i \in ShareIds, cpc[h] = "c_create", ShareCreated(h, i)
       PROVE  /\ OneSharePerName'
              /\ \A m \in Names \ {name[h]} : Named(m)' = Named(m)
  BY <1>10 DEF ShareCreated
<1>11. ASSUME NEW h \in Handlers, CreateShare(h) PROVE SerialInv'
  <2>1. PICK i \in ShareIds : ShareCreated(h, i)
    BY <1>11 DEF CreateShare
  <2>2. /\ cpc[h] = "c_create" /\ UNCHANGED <<name, sidecars>>
        /\ Goto(h, "c_wait") \/ Goto(h, "c_ap")
    BY ONLY <1>11, Zenon DEF CreateShare
  <2>0. \A g \in Handlers \ {h} : sid'[g] = sid[g]
    BY <1>11 DEF CreateShare
  <2>3. /\ OneSharePerName'
        /\ \A m \in Names \ {name[h]} : Named(m)' = Named(m)
    BY <1>10, <2>1, <2>2
  <2>4. pv[name[h]] = "creating"
    BY <2>2
  <2> HIDE DEF OneSharePerName, Named
  <2> QED
    BY <2>0, <2>2, <2>3, <2>4
<1>12. ASSUME NEW h \in Handlers, CreateShareFails(h) PROVE SerialInv'
  <2>1. cpc[h] = "c_create" /\ Reply(h, FALSE)
    BY <1>12 DEF CreateShareFails
  <2>2. CASE UNCHANGED backend
    BY <1>1, <2>1, <2>2
  <2>3. ASSUME NEW i \in ShareIds, ShareCreated(h, i) PROVE SerialInv'
    <3>1. /\ OneSharePerName'
          /\ \A m \in Names \ {name[h]} : Named(m)' = Named(m)
      BY <1>10, <2>1, <2>3
    <3>2. pv[name[h]] = "creating"
      BY <2>1
    <3>3. /\ UNCHANGED <<pv, pvShare>> /\ wait[name[h]] = h
          /\ wait' = [wait EXCEPT ![name[h]] = NoHandler]
      BY <2>1 DEF Reply
    <3> HIDE DEF OneSharePerName, Named
    <3> QED
      BY <2>1, <3>1, <3>2, <3>3 DEF Reply
  <2> QED
    BY <1>12, <2>2, <2>3 DEF CreateShareFails
<1>13. ASSUME NEW h \in Handlers, CreateAccessPoint(h) \/ DeleteAccessPoint(h) PROVE SerialInv'
  <2>1. cpc[h] \in {"c_ap", "d_ap"} /\ UNCHANGED <<status, nameOf>>
    BY <1>13 DEF CreateAccessPoint, DeleteAccessPoint
  <2>2. CASE Reply(h, FALSE)
    BY <1>1, <2>1, <2>2
  <2>3. CASE /\ Goto(h, "c_wait") \/ Goto(h, "d_wait")
             /\ UNCHANGED <<name, size, sid, hasAP, sidecars>>
    BY <2>1, <2>3
  <2> QED
    BY <1>13, <2>2, <2>3 DEF CreateAccessPoint, DeleteAccessPoint
<1>14. ASSUME NEW h \in Handlers,
              \/ CreateAccessPointFails(h) \/ CreateWaitFails(h) \/ DeleteAccessPointFails(h)
              \/ DeleteShareFails(h) \/ ExpandFails(h)
       PROVE  SerialInv'
  BY <1>1, <1>14 DEF CreateAccessPointFails, CreateWaitFails, DeleteAccessPointFails,
     DeleteShareFails, ExpandFails, BackendFails
<1>15. ASSUME NEW h \in Handlers, CreateWaits(h) PROVE SerialInv'
  <2>1. CASE Reply(h, FALSE)
    BY <1>1, <1>15, <2>1 DEF CreateWaits
  <2>2. CASE Reply(h, TRUE) /\ ap[sid[h]] = "stable"
    <3>1. Named(name[h]) \subseteq {sid[h]} /\ pv[name[h]] = "creating"
      BY <1>15, <2>2 DEF CreateWaits
    <3> QED
      BY <1>15, <2>2, <3>1 DEF CreateWaits, Reply
  <2> QED
    BY <1>15, <2>1, <2>2 DEF CreateWaits
<1>16. ASSUME NEW h \in Handlers, DeleteLookup(h) PROVE SerialInv'
  <2>1. cpc[h] = "d_lookup" /\ UNCHANGED backend
    BY <1>16 DEF DeleteLookup
  <2>2. CASE ~Live(sid[h]) /\ Reply(h, TRUE)
    <3>1. Named(name[h]) = {} /\ pv[name[h]] = "deleting"
      BY <2>1, <2>2
    <3> QED
      BY <2>1, <2>2, <3>1 DEF Reply
  <2>3. CASE Goto(h, "d_ap") /\ UNCHANGED <<name, size, sid, hasAP, sidecars>>
    BY <2>1, <2>3
  <2> HIDE DEF SerialInv, Live, Goto, sidecars
  <2> QED
    BY ONLY <1>16, <2>2, <2>3, LookupBranches, Serial
<1>17. ASSUME NEW h \in Handlers, DeleteWaits(h) PROVE SerialInv'
  BY <1>17 DEF DeleteWaits
<1>18. ASSUME NEW h \in Handlers, DeleteShare(h) PROVE SerialInv'
  <2>1. /\ cpc[h] = "d_share" /\ Live(sid[h]) /\ UNCHANGED nameOf
        /\ status' = [status EXCEPT ![sid[h]] = "deleted"]
        /\ Reply(h, TRUE) \/ Reply(h, FALSE)
    BY ONLY <1>18, Zenon DEF DeleteShare
  <2>2. /\ pv[name[h]] = "deleting" /\ name[h] \in Names /\ wait[name[h]] = h
        /\ sid[h] \in ShareIds /\ nameOf[sid[h]] = name[h] /\ Named(name[h]) \subseteq {sid[h]}
    BY <2>1
  <2>3. OneSharePerName'
    BY <2>1
  <2>7. \A m \in Names : m = name[h] => Named(m)' = {}
    BY <2>1, <2>2
  <2>4. \A m \in Names \ {name[h]} : Named(m)' = Named(m)
    BY <2>1, <2>2
  <2> HIDE DEF OneSharePerName, Named
  <2>5. CASE Reply(h, TRUE)
    <3>1. /\ pv' = [pv EXCEPT ![name[h]] = "gone"] /\ UNCHANGED pvShare
          /\ wait' = [wait EXCEPT ![name[h]] = NoHandler]
      BY <2>2, <2>5 DEF Reply
    <3> QED
      BY <2>1, <2>2, <2>3, <2>4, <2>5, <2>7, <3>1 DEF Reply
  <2>6. CASE Reply(h, FALSE)
    <3>1. /\ UNCHANGED <<pv, pvShare>>
          /\ wait' = [wait EXCEPT ![name[h]] = NoHandler]
      BY <2>2, <2>6 DEF Reply
    <3> QED
      BY <2>1, <2>2, <2>3, <2>4, <2>6, <2>7, <3>1 DEF Reply
  <2> QED
    BY <2>1, <2>5, <2>6
<1>19. ASSUME NEW h \in Handlers, ExpandLookup(h) PROVE SerialInv'
  <2>1. cpc[h] = "x_lookup" /\ UNCHANGED backend
    BY <1>19 DEF ExpandLookup
  <2>2. CASE Reply(h, FALSE)
    BY <1>1, <2>1, <2>2
  <2>3. CASE Goto(h, "x_expand") /\ UNCHANGED <<name, size, sid, hasAP, sidecars>>
    BY <2>1, <2>3
  <2> QED
    BY ONLY <1>19, <2>2, <2>3, Zenon DEF ExpandLookup
<1>20. ASSUME NEW h \in Handlers, ExpandShare(h) PROVE SerialInv'
  <2>1. /\ cpc[h] = "x_expand" /\ UNCHANGED <<status, nameOf>>
        /\ Reply(h, TRUE) \/ Reply(h, FALSE)
    BY ONLY <1>20, Zenon DEF ExpandShare
  <2>2. CASE Reply(h, FALSE)
    BY <1>1, <2>1, <2>2
  <2>3. CASE Reply(h, TRUE)
    <3>1. pv[name[h]] = "expanding" /\ sid[h] = pvShare[name[h]]
      BY <2>1
    <3> QED
      BY <2>1, <2>3, <3>1 DEF Reply
  <2> QED
    BY <2>1, <2>2, <2>3
<1>21. CASE ControllerCrashes \/ OutageEnds \/ UNCHANGED vars
  BY <1>21 DEF ControllerCrashes, OutageEnds, vars
<1>22. ASSUME NEW n \in Names, SidecarTimeout(n) PROVE SerialInv'
  BY ONLY <1>22, Serial, ExactLookup DEF SidecarTimeout
<1>23. ASSUME NEW h \in Handlers, Create(h) \/ Delete(h) \/ Expand(h) PROVE SerialInv'
  BY ONLY <1>7, <1>8, <1>9, <1>11, <1>12, <1>13, <1>14, <1>15, <1>16, <1>17, <1>18, <1>19,
     <1>20, <1>23, Zenon DEF Create, Delete, Expand
<1>24. ASSUME NEW h \in Handlers, NEW n \in Names, Sidecar(h, n) PROVE SerialInv'
  BY ONLY <1>2, <1>3, <1>4, <1>24, Zenon DEF Sidecar
<1> HIDE DEF SerialInv
<1> QED
  BY <1>5, <1>21, <1>22, <1>23, <1>24 DEF Next, Works

LEMMA SerialInvariant == ASSUME Serial PROVE Spec => [](CtlInv /\ SerialInv)
<1>1. CtlInv /\ SerialInv /\ [Next]_vars => (CtlInv /\ SerialInv)'
  BY CtlStep, SerialStep
<1> QED
  BY <1>1, CtlInit, SerialInit, PTL DEF Spec

\* CreateVolume makes one share per name, however often it is repeated: always if the
\* backend refuses a second share of a name, and else if no call outlives its caller
\* and no lookup fails, since then only the lookup by name stands in the way.
THEOREM CreateIsIdempotent ==
    ASSUME UniqueNames \/ Serial
    PROVE  Spec => []OneSharePerName
<1>1. CASE UniqueNames
  <2>1. Init => OneSharePerName
    BY DEF Init, OneSharePerName, Live
  <2>2. CtlInv /\ OneSharePerName /\ [Next]_vars => OneSharePerName'
    BY <1>1, UniqueStep
  <2> QED
    BY <2>1, <2>2, CtlInvariant, PTL DEF Spec
<1>2. CASE Serial
  <2>1. SerialInv => OneSharePerName
    BY DEF SerialInv
  <2>2. Spec => [](CtlInv /\ SerialInv)
    BY <1>2, SerialInvariant
  <2> QED
    BY <2>1, <2>2, PTL
<1> QED
  BY <1>1, <1>2

\* A deletion that was reported as done has left no share and no access point, across
\* restarts and lost answers, if no call outlives its caller and no lookup fails.
THEOREM DeletionIsComplete ==
    ASSUME Serial
    PROVE  Spec => []DeletedLeavesNothing
<1>1. CtlInv /\ SerialInv => DeletedLeavesNothing
  BY DEF CtlInv, ShareInv, SerialInv, OnlyShare, DeletedLeavesNothing, Live
<1> QED
  BY <1>1, SerialInvariant, PTL

-----------------------------------------------------------------------------
(***************************************************************************)
(* The refinement: what the sidecars want, and the shares there are, as    *)
(* NamedResource sees them, and the abstract action that a step is.        *)
(***************************************************************************)

Want == [n \in Names |-> Wanted[pv[n]]]
Have == [n \in Names |-> Named(n)]

LEMMA WantStates ==
    ASSUME CtlInv, NEW n \in Names
    PROVE  /\ pv[n] = "new" => Want[n] = "new"
           /\ pv[n] = "creating" => Want[n] = "create"
           /\ pv[n] \in {"bound", "expanding"} => Want[n] = "have"
           /\ pv[n] = "deleting" => Want[n] = "delete"
BY DEF CtlInv, TypeOK, Want, Wanted

LEMMA WantMoves ==
    ASSUME CtlInv, NEW n \in Names
    PROVE  /\ pv' = [pv EXCEPT ![n] = "creating"] => Want' = [Want EXCEPT ![n] = "create"]
           /\ pv' = [pv EXCEPT ![n] = "bound"] => Want' = [Want EXCEPT ![n] = "have"]
           /\ pv' = [pv EXCEPT ![n] = "expanding"] => Want' = [Want EXCEPT ![n] = "have"]
           /\ pv' = [pv EXCEPT ![n] = "deleting"] => Want' = [Want EXCEPT ![n] = "delete"]
           /\ pv' = [pv EXCEPT ![n] = "gone"] => Want' = [Want EXCEPT ![n] = "gone"]
<1>1. ASSUME NEW v, pv' = [pv EXCEPT ![n] = v] PROVE Want' = [Want EXCEPT ![n] = Wanted[v]]
  BY <1>1 DEF CtlInv, TypeOK, Want
<1>2. /\ Wanted["creating"] = "create" /\ Wanted["bound"] = "have"
      /\ Wanted["expanding"] = "have" /\ Wanted["deleting"] = "delete"
      /\ Wanted["gone"] = "gone"
  BY DEF Wanted
<1> QED
  BY <1>1, <1>2

\* Wanting what one wants already changes nothing.
LEMMA WantStays ==
    ASSUME NEW n \in Names, NEW w, Want[n] = w
    PROVE  [Want EXCEPT ![n] = w] = Want
BY DEF Want

LEMMA IsRequest ==
    ASSUME NEW n \in Names, Want[n] = "new", Want' = [Want EXCEPT ![n] = "create"],
           pvShare' = pvShare, Have' = Have
    PROVE  Volumes!Next
BY DEF Want, Have, Volumes!Next, Volumes!Request, Volumes!Wants

LEMMA IsMake ==
    ASSUME NEW n \in Names, Want[n] = "create", Have[n] = {},
           NEW i \in ShareIds, \A m \in Names : i \notin Have[m],
           Have' = [Have EXCEPT ![n] = {i}], pvShare' = pvShare, Want' = Want
    PROVE  Volumes!Next
<1>1. i \in ShareIds \ UNION {Have[m] : m \in Names}
  OBVIOUS
<1>2. Volumes!Make(n)
  BY <1>1, Zenon DEF Want, Have, Volumes!Make
<1> QED
  BY <1>2 DEF Volumes!Next

LEMMA IsAnswer ==
    ASSUME NEW n \in Names, Want[n] = "create", NEW i \in Have[n],
           pvShare' = [pvShare EXCEPT ![n] = i], Want' = [Want EXCEPT ![n] = "have"],
           Have' = Have
    PROVE  Volumes!Next
BY DEF Want, Have, Volumes!Next, Volumes!Answer, Volumes!Wants

LEMMA IsDiscard ==
    ASSUME NEW n \in Names, Want[n] = "have", pvShare[n] # NoShare,
           Want' = [Want EXCEPT ![n] = "delete"], pvShare' = pvShare, Have' = Have
    PROVE  Volumes!Next
BY DEF Want, Have, Volumes!Next, Volumes!Discard, Volumes!Wants

LEMMA IsRemove ==
    ASSUME NEW n \in Names, Want[n] = "delete", Have[n] # {},
           Have' = [Have EXCEPT ![n] = {}],
           Want' = Want \/ Want' = [Want EXCEPT ![n] = "gone"], pvShare' = pvShare
    PROVE  Volumes!Next
BY DEF Want, Have, Volumes!Next, Volumes!Remove, Volumes!Wants

LEMMA IsForget ==
    ASSUME NEW n \in Names, Want[n] = "delete", Have[n] = {},
           Want' = [Want EXCEPT ![n] = "gone"], pvShare' = pvShare, Have' = Have
    PROVE  Volumes!Next
BY DEF Want, Have, Volumes!Next, Volumes!Forget, Volumes!Wants

LEMMA IsStutter ==
    ASSUME Want' = Want, pvShare' = pvShare, Have' = Have
    PROVE  UNCHANGED Volumes!vars
BY DEF Want, Have, Volumes!vars

\* The initial states are initial states of NamedResource.
LEMMA RefinesInit == Init => Volumes!Init
BY DEF Init, Volumes!Init, Named, Live, Wanted

\* A step of the handlers, the sidecars or the backend is a step of NamedResource or
\* changes nothing there.
LEMMA RefinesNext ==
    ASSUME Serial, CtlInv, SerialInv, [Next]_vars
    PROVE  Volumes!Next \/ UNCHANGED Volumes!vars
<1> USE DEF backend, handlers, sidecars
<1>1. ASSUME UNCHANGED <<status, nameOf>> PROVE Have' = Have
  BY <1>1 DEF Have, Named, Live
<1>2. ASSUME UNCHANGED pv PROVE Want' = Want
  BY <1>2 DEF Want
<1>3. ASSUME UNCHANGED <<status, nameOf, pv, pvShare>> PROVE UNCHANGED Volumes!vars
  BY <1>1, <1>2, <1>3, IsStutter
<1>4. ASSUME NEW h, Reply(h, FALSE) PROVE UNCHANGED <<pv, pvShare>>
  BY <1>4 DEF Reply
\* The awaited handler, which is every handler: what its answer does.
<1>5. ASSUME NEW h \in Handlers, cpc[h] # "idle"
      PROVE  /\ name[h] \in Names /\ wait[name[h]] = h
             /\ cpc[h] \in CSteps => pv[name[h]] = "creating"
             /\ cpc[h] \in DSteps =>
                  pv[name[h]] = "deleting" /\ sid[h] = pvShare[name[h]]
             /\ cpc[h] \in XSteps =>
                  pv[name[h]] = "expanding" /\ sid[h] = pvShare[name[h]]
  BY <1>5, NoValues DEF CtlInv, SerialInv, AloneInv, HandlerInv, WaitInv
<1>6. ASSUME NEW h \in Handlers, cpc[h] # "idle", Reply(h, TRUE)
      PROVE  IF cpc[h] \in DSteps
               THEN pv' = [pv EXCEPT ![name[h]] = "gone"] /\ UNCHANGED pvShare
               ELSE /\ pv' = [pv EXCEPT ![name[h]] = "bound"]
                    /\ pvShare' = [pvShare EXCEPT ![name[h]] = sid[h]]
  BY <1>5, <1>6 DEF Reply, CtlInv, TypeOK, CtlSteps, CSteps, DSteps, XSteps
<1>7. ASSUME NEW h \in Handlers, NEW n \in Names, NEW s \in Sizes, SidecarCreates(h, n, s)
      PROVE  Volumes!Next \/ UNCHANGED Volumes!vars
  <2>1. pvShare' = pvShare /\ Have' = Have /\ Want' = [Want EXCEPT ![n] = "create"]
    BY <1>1, <1>7, WantMoves DEF SidecarCreates, Calls
  <2>2. CASE pv[n] = "new"
    BY <2>1, <2>2, IsRequest, WantStates
  <2>3. CASE pv[n] = "creating"
    BY <2>1, <2>3, IsStutter, WantStates, WantStays
  <2> QED
    BY <1>7, <2>2, <2>3 DEF SidecarCreates
<1>8. ASSUME NEW h \in Handlers, NEW n \in Names, NEW s \in Sizes, SidecarExpands(h, n, s)
      PROVE  UNCHANGED Volumes!vars
  <2>1. pvShare' = pvShare /\ Have' = Have /\ Want' = [Want EXCEPT ![n] = "have"]
    BY <1>1, <1>8, WantMoves DEF SidecarExpands, Calls
  <2>2. Want[n] = "have"
    BY <1>8, WantStates DEF SidecarExpands
  <2> QED
    BY <2>1, <2>2, IsStutter, WantStays
<1>9. ASSUME NEW h \in Handlers, NEW n \in Names, SidecarDeletes(h, n)
      PROVE  Volumes!Next \/ UNCHANGED Volumes!vars
  <2>1. pvShare' = pvShare /\ Have' = Have /\ Want' = [Want EXCEPT ![n] = "delete"]
    BY <1>1, <1>9, WantMoves DEF SidecarDeletes, Calls
  <2>2. CASE pv[n] = "bound"
    <3>1. pvShare[n] # NoShare
      BY <2>2, NoValues DEF CtlInv, VolumeInv
    <3> QED
      BY <2>1, <2>2, <3>1, IsDiscard, WantStates
  <2>3. CASE pv[n] = "deleting"
    BY <2>1, <2>3, IsStutter, WantStates, WantStays
  <2> QED
    BY <1>9, <2>2, <2>3 DEF SidecarDeletes
<1>10. ASSUME NEW h \in Handlers, cpc[h] = "c_create", NEW i \in ShareIds, ShareCreated(h, i),
              UNCHANGED <<pv, pvShare>>
       PROVE  Volumes!Next
  <2>1. name[h] \in Names /\ Want[name[h]] = "create"
    BY <1>5, <1>10, WantStates DEF CSteps
  <2>2. Named(name[h]) = {} /\ Have[name[h]] = {}
    BY <1>10, <2>1 DEF SerialInv, AloneInv, Have
  <2>3. ASSUME NEW m \in Names PROVE i \notin Have[m]
    BY <1>10 DEF ShareCreated, Have, Named, Live
  <2>4. ASSUME NEW m \in Names PROVE Named(m)' = IF m = name[h] THEN {i} ELSE Named(m)
    BY <1>10, <2>1, <2>2 DEF ShareCreated, Named, Live, CtlInv, TypeOK
  <2>5. Have' = [Have EXCEPT ![name[h]] = {i}]
    BY <2>1, <2>4 DEF Have
  <2> QED
    BY <1>2, <1>10, <2>1, <2>2, <2>3, <2>5, IsMake
<1>11. ASSUME NEW h \in Handlers, CreateShare(h) PROVE Volumes!Next
  BY <1>10, <1>11 DEF CreateShare
<1>12. ASSUME NEW h \in Handlers, CreateShareFails(h)
       PROVE  Volumes!Next \/ UNCHANGED Volumes!vars
  BY <1>3, <1>4, <1>10, <1>12 DEF CreateShareFails
<1>13. ASSUME NEW h \in Handlers, CreateWaits(h)
       PROVE  Volumes!Next \/ UNCHANGED Volumes!vars
  <2>1. cpc[h] = "c_wait" /\ cpc[h] # "idle" /\ cpc[h] \notin DSteps /\ UNCHANGED backend
    BY <1>13 DEF CreateWaits, DSteps
  <2>2. CASE Reply(h, FALSE)
    BY <1>3, <1>4, <2>1, <2>2
  <2>3. CASE ap[sid[h]] = "stable" /\ Reply(h, TRUE)
    <3>1. /\ name[h] \in Names /\ pv[name[h]] = "creating"
          /\ pv' = [pv EXCEPT ![name[h]] = "bound"]
          /\ pvShare' = [pvShare EXCEPT ![name[h]] = sid[h]]
      BY <1>5, <1>6, <2>1, <2>3 DEF CSteps
    <3>2. sid[h] \in Have[name[h]]
      BY <2>1, <2>3, <3>1 DEF CtlInv, TypeOK, HandlerInv, CSteps, ShareInv, Have, Named, Live
    <3>3. Want[name[h]] = "create" /\ Want' = [Want EXCEPT ![name[h]] = "have"]
      BY <3>1, WantStates, WantMoves
    <3>4. Have' = Have
      BY <1>1, <2>1
    <3> QED
      BY <3>1, <3>2, <3>3, <3>4, IsAnswer
  <2> QED
    BY <1>13, <2>2, <2>3 DEF CreateWaits
<1>14. ASSUME NEW h \in Handlers, DeleteLookup(h)
       PROVE  Volumes!Next \/ UNCHANGED Volumes!vars
  <2>1. cpc[h] = "d_lookup" /\ cpc[h] # "idle" /\ cpc[h] \in DSteps /\ UNCHANGED backend
    BY <1>14 DEF DeleteLookup, DSteps
  <2>2. CASE ~Live(sid[h]) /\ Reply(h, TRUE)
    <3>1. /\ name[h] \in Names /\ pv[name[h]] = "deleting" /\ sid[h] = pvShare[name[h]]
          /\ pv' = [pv EXCEPT ![name[h]] = "gone"] /\ UNCHANGED pvShare
      BY <1>5, <1>6, <2>1, <2>2
    <3>2. Have[name[h]] = {}
      BY <2>2, <3>1 DEF SerialInv, OnlyShare, Have, Named
    <3>3. Want[name[h]] = "delete" /\ Want' = [Want EXCEPT ![name[h]] = "gone"]
      BY <3>1, WantStates, WantMoves
    <3>4. Have' = Have
      BY <1>1, <2>1
    <3> QED
      BY <3>1, <3>2, <3>3, <3>4, IsForget
  <2>3. CASE UNCHANGED <<name, size, sid, hasAP, sidecars>>
    BY <1>3, <2>1, <2>3
  <2> QED
    BY <1>14, <2>2, <2>3, LookupBranches
<1>15. ASSUME NEW h \in Handlers, DeleteShare(h) PROVE Volumes!Next
  <2> DEFINE n == name[h]
  <2>1. /\ cpc[h] = "d_share" /\ Live(sid[h]) /\ UNCHANGED nameOf
        /\ status' = [status EXCEPT ![sid[h]] = "deleted"]
        /\ Reply(h, TRUE) \/ Reply(h, FALSE)
    BY ONLY <1>15, Zenon DEF DeleteShare
  <2>2. cpc[h] # "idle" /\ cpc[h] \in DSteps
    BY <2>1 DEF DSteps
  <2>3. n \in Names /\ pv[n] = "deleting" /\ sid[h] = pvShare[n] /\ Want[n] = "delete"
    BY <1>5, <2>2, WantStates
  <2>4. sid[h] \in ShareIds /\ nameOf[sid[h]] = n /\ Named(n) = {sid[h]}
    BY <2>1, <2>3 DEF CtlInv, VolumeInv, SerialInv, OnlyShare, Named, Live
  <2>5. ASSUME NEW m \in Names PROVE Named(m)' = IF m = n THEN {} ELSE Named(m)
    BY <2>1, <2>4 DEF Named, Live, CtlInv, TypeOK
  <2>6. Have[n] # {} /\ Have' = [Have EXCEPT ![n] = {}]
    BY <2>3, <2>4, <2>5 DEF Have
  <2>7. /\ Want' = Want \/ Want' = [Want EXCEPT ![n] = "gone"]
        /\ pvShare' = pvShare
    BY <1>2, <1>4, <1>6, <2>1, <2>2, <2>3, WantMoves
  <2> QED
    BY <2>3, <2>6, <2>7, IsRemove
<1>16. ASSUME NEW h \in Handlers, ExpandShare(h) PROVE UNCHANGED Volumes!vars
  <2> DEFINE n == name[h]
  <2>1. /\ cpc[h] = "x_expand" /\ UNCHANGED <<status, nameOf>>
        /\ Reply(h, TRUE) \/ Reply(h, FALSE)
    BY ONLY <1>16, Zenon DEF ExpandShare
  <2>2. CASE Reply(h, FALSE)
    BY <1>3, <1>4, <2>1, <2>2
  <2>3. CASE Reply(h, TRUE)
    <3>1. cpc[h] # "idle" /\ cpc[h] \notin DSteps /\ cpc[h] \in XSteps
      BY <2>1 DEF DSteps, XSteps
    <3>2. /\ n \in Names /\ pv[n] = "expanding" /\ sid[h] = pvShare[n]
          /\ pv' = [pv EXCEPT ![n] = "bound"]
          /\ pvShare' = [pvShare EXCEPT ![n] = sid[h]]
      BY <1>5, <1>6, <2>3, <3>1
    <3>3. pvShare' = pvShare
      BY <3>2 DEF CtlInv, TypeOK
    <3>4. Want[n] = "have" /\ Want' = [Want EXCEPT ![n] = "have"]
      BY <3>2, WantStates, WantMoves
    <3> QED
      BY <1>1, <2>1, <3>2, <3>3, <3>4, WantStays, IsStutter
  <2> QED
    BY <2>1, <2>2, <2>3
<1>17. ASSUME NEW h \in Handlers, Create(h)
       PROVE  Volumes!Next \/ UNCHANGED Volumes!vars
  <2>1. ASSUME CreateLookup(h) PROVE UNCHANGED <<status, nameOf, pv, pvShare>>
    <3>1. UNCHANGED sidecars \/ Reply(h, FALSE)
      BY <2>1, LookupBranches
    <3> QED
      BY <1>4, <2>1, <3>1 DEF CreateLookup
  <2>2. ASSUME \/ CreateRefused(h) \/ CreateNetwork(h) \/ CreateAccessPoint(h)
               \/ CreateAccessPointFails(h) \/ CreateWaitFails(h)
        PROVE  UNCHANGED <<status, nameOf, pv, pvShare>>
    BY <1>4, <2>2 DEF CreateRefused, CreateNetwork, CreateAccessPoint, CreateAccessPointFails,
       CreateWaitFails, BackendFails
  <2> QED
    BY <1>3, <1>11, <1>12, <1>13, <1>17, <2>1, <2>2 DEF Create
<1>18. ASSUME NEW h \in Handlers, Delete(h)
       PROVE  Volumes!Next \/ UNCHANGED Volumes!vars
  <2>1. ASSUME \/ DeleteRefused(h) \/ DeleteAccessPoint(h) \/ DeleteAccessPointFails(h)
               \/ DeleteWaits(h) \/ DeleteShareFails(h)
        PROVE  UNCHANGED <<status, nameOf, pv, pvShare>>
    BY <1>4, <2>1 DEF DeleteRefused, DeleteAccessPoint, DeleteAccessPointFails, DeleteWaits,
       DeleteShareFails, BackendFails
  <2> QED
    BY <1>3, <1>14, <1>15, <1>18, <2>1 DEF Delete
<1>19. ASSUME NEW h \in Handlers, Expand(h)
       PROVE  Volumes!Next \/ UNCHANGED Volumes!vars
  <2>1. ASSUME ExpandLookup(h) PROVE UNCHANGED <<status, nameOf, pv, pvShare>>
    <3>1. UNCHANGED sidecars \/ Reply(h, FALSE)
      BY ONLY <2>1, Zenon DEF ExpandLookup
    <3> QED
      BY <1>4, <2>1, <3>1 DEF ExpandLookup
  <2>2. ASSUME ExpandFails(h) PROVE UNCHANGED <<status, nameOf, pv, pvShare>>
    BY <1>4, <2>2 DEF ExpandFails, BackendFails
  <2> QED
    BY <1>3, <1>16, <1>19, <2>1, <2>2 DEF Expand
<1>20. ASSUME \/ \E n \in Names : SidecarTimeout(n)
              \/ \E i \in ShareIds : AccessPointSettles(i)
              \/ ControllerCrashes \/ OutageEnds \/ UNCHANGED vars
       PROVE  UNCHANGED Volumes!vars
  BY <1>3, <1>20 DEF SidecarTimeout, AccessPointSettles, ControllerCrashes, OutageEnds, vars
<1> QED
  BY <1>7, <1>8, <1>9, <1>17, <1>18, <1>19, <1>20 DEF Next, Works, Sidecar

\* The volume operations implement NamedResource, for any number of volumes and
\* handlers, across restarts, lost answers and shares left without an access point, if
\* no call outlives its caller and no lookup fails: a repeated CreateVolume answers
\* with the share the first one made, and gone means gone.
THEOREM VolumesKeepPromise ==
    ASSUME Serial
    PROVE  Spec => ImplementsNamedResource
<1>1. CtlInv /\ SerialInv /\ [Next]_vars => [Volumes!Next]_(Volumes!vars)
  BY RefinesNext
<1> QED
  BY <1>1, RefinesInit, SerialInvariant, PTL
     DEF Spec, ImplementsNamedResource, Volumes!Spec
=============================================================================
