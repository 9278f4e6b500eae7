----------------------------- MODULE Controller -----------------------------
(***************************************************************************)
(* The controller plugin's volume operations (pkg/ibmcsidriver/            *)
(* controller.go): CreateVolume, DeleteVolume, ControllerExpandVolume.     *)
(*                                                                         *)
(* The driver keeps no state of its own.  A volume is a file share and its *)
(* access point (share target) in the VPC backend; an operation is a       *)
(* sequence of backend calls, each of which can fail with or without       *)
(* having taken effect, and the sidecar that called repeats the whole      *)
(* operation until it succeeds.  A sidecar that has given up waiting       *)
(* repeats a call while the first one is still running: the controller has *)
(* no lock.                                                                *)
(***************************************************************************)
EXTENDS Naturals

CONSTANTS
    Handlers,     \* handler goroutines of the controller process
    Names,        \* volume names (one per persistent volume, never reused)
    Sizes,        \* capacities
    ShareIds,     \* share IDs the backend can give out, each once: a bound
    UniqueNames,  \* TRUE: the backend refuses a second share of the same name
    CtlFaults,    \* the failures that may happen
    NoShare, NoHandler, NoName

CtlFaultNames == {
    "timeout",  \* the sidecar gives up waiting for a call that still runs
    "crash",    \* the controller process is restarted
    "lookup",   \* a lookup fails with an error that does not say "not found"
    "masked",   \* a lookup that failed reports RetrivalFailed
    "backend",  \* a call that changes the backend, or waits for it, fails
    "bare"}     \* a share is created without its access point

ASSUME CtlAssumption ==
    /\ Sizes \subseteq Nat \ {0}
    /\ UniqueNames \in BOOLEAN
    /\ CtlFaults \subseteq CtlFaultNames
    /\ NoShare \notin ShareIds /\ NoHandler \notin Handlers /\ NoName \notin Names
    /\ "none" \notin ShareIds /\ "error" \notin ShareIds  \* see checkIfVolumeExists

VARIABLES
    status, nameOf, sizeOf, ap,  \* the backend, per share ID
    cpc,          \* per handler: next step
    name, size,   \* per handler: the request
    sid,          \* per handler: the share it works on (volumeObj)
    hasAP,        \* per handler: volumeObj.VolumeAccessPoints is not empty
    pv,           \* per volume name: what the sidecars are doing
    pvShare,      \* per volume name: the share of the volume ID they were given
    pvSize, goal, \* per volume name: the capacity they know, the one they ask for
    wait,         \* per volume name: the handler whose answer is awaited
    outage        \* faults may happen

backend  == <<status, nameOf, sizeOf, ap>>
handlers == <<cpc, name, size, sid, hasAP>>
sidecars == <<pv, pvShare, pvSize, goal, wait>>
vars     == <<backend, handlers, sidecars, outage>>

CtlSteps == {"idle", "c_lookup", "c_net", "c_create", "c_ap", "c_wait",
             "d_lookup", "d_ap", "d_wait", "d_share", "x_lookup", "x_expand"}

TypeOK ==
    /\ status \in [ShareIds -> {"unused", "live", "deleted"}]
    /\ nameOf \in [ShareIds -> Names \cup {NoName}]
    /\ sizeOf \in [ShareIds -> Sizes \cup {0}]
    /\ ap \in [ShareIds -> {"none", "pending", "stable", "deleting"}]
    /\ cpc \in [Handlers -> CtlSteps]
    /\ name \in [Handlers -> Names \cup {NoName}]
    /\ size \in [Handlers -> Sizes \cup {0}]
    /\ sid \in [Handlers -> ShareIds \cup {NoShare}]
    /\ hasAP \in [Handlers -> BOOLEAN]
    /\ pv \in [Names -> {"new", "creating", "bound", "expanding", "deleting", "gone"}]
    /\ pvShare \in [Names -> ShareIds \cup {NoShare}]
    /\ pvSize \in [Names -> Sizes \cup {0}]
    /\ goal \in [Names -> Sizes \cup {0}]
    /\ wait \in [Names -> Handlers \cup {NoHandler}]
    /\ outage \in BOOLEAN

Init ==
    /\ status = [i \in ShareIds |-> "unused"]
    /\ nameOf = [i \in ShareIds |-> NoName]
    /\ sizeOf = [i \in ShareIds |-> 0]
    /\ ap = [i \in ShareIds |-> "none"]
    /\ cpc = [h \in Handlers |-> "idle"]
    /\ name = [h \in Handlers |-> NoName]
    /\ size = [h \in Handlers |-> 0]
    /\ sid = [h \in Handlers |-> NoShare]
    /\ hasAP = [h \in Handlers |-> FALSE]
    /\ pv = [n \in Names |-> "new"]
    /\ pvShare = [n \in Names |-> NoShare]
    /\ pvSize = [n \in Names |-> 0]
    /\ goal = [n \in Names |-> 0]
    /\ wait = [n \in Names |-> NoHandler]
    /\ outage = TRUE

May(f)        == outage /\ f \in CtlFaults
Goto(h, step) == cpc' = [cpc EXCEPT ![h] = step]
Live(i)       == i \in ShareIds /\ status[i] = "live"
Named(n)      == {i \in ShareIds : Live(i) /\ nameOf[i] = n}

-----------------------------------------------------------------------------
(* The sidecars (external): they create a volume until that succeeds, and  *)
(* later expand or delete it until that succeeds, one awaited call per     *)
(* volume at a time.                                                       *)

Calls(h, n, step, state, want, share) ==
    /\ cpc[h] = "idle"
    /\ wait[n] = NoHandler
    /\ Goto(h, step)
    /\ name' = [name EXCEPT ![h] = n]
    /\ size' = [size EXCEPT ![h] = want]
    /\ sid' = [sid EXCEPT ![h] = share]
    /\ pv' = [pv EXCEPT ![n] = state]
    /\ goal' = [goal EXCEPT ![n] = want]
    /\ wait' = [wait EXCEPT ![n] = h]
    /\ UNCHANGED <<backend, hasAP, pvShare, pvSize>>

\* A retry repeats the request.
SidecarCreates(h, n, s) ==
    /\ pv[n] = "new" \/ (pv[n] = "creating" /\ s = goal[n])
    /\ Calls(h, n, "c_lookup", "creating", s, NoShare)

SidecarDeletes(h, n) ==
    /\ pv[n] \in {"bound", "deleting"}
    /\ Calls(h, n, "d_lookup", "deleting", goal[n], pvShare[n])

\* The resizer asks for more than the volume has; a retry may ask for more again.
SidecarExpands(h, n, s) ==
    /\ \/ pv[n] = "bound" /\ s > pvSize[n]
       \/ pv[n] = "expanding" /\ s >= goal[n]
    /\ Calls(h, n, "x_lookup", "expanding", s, pvShare[n])

SidecarTimeout(n) ==
    /\ May("timeout")
    /\ wait[n] # NoHandler
    /\ wait' = [wait EXCEPT ![n] = NoHandler]
    /\ UNCHANGED <<backend, handlers, pv, pvShare, pvSize, goal>>

\* The handler returns.  Its answer counts only if it is still awaited: a
\* created volume is bound to the share and capacity of the response.
Reply(h, ok) ==
    LET n == name[h]
    IN  /\ Goto(h, "idle")
        /\ name' = [name EXCEPT ![h] = NoName]
        /\ size' = [size EXCEPT ![h] = 0]
        /\ sid' = [sid EXCEPT ![h] = NoShare]
        /\ hasAP' = [hasAP EXCEPT ![h] = FALSE]
        /\ IF wait[n] # h
             THEN UNCHANGED sidecars
             ELSE /\ wait' = [wait EXCEPT ![n] = NoHandler]
                  /\ UNCHANGED goal
                  /\ IF ~ok
                       THEN UNCHANGED <<pv, pvShare, pvSize>>
                       ELSE IF pv[n] = "deleting"
                         THEN /\ pv' = [pv EXCEPT ![n] = "gone"]
                              /\ UNCHANGED <<pvShare, pvSize>>
                         ELSE /\ pv' = [pv EXCEPT ![n] = "bound"]
                              /\ pvShare' = [pvShare EXCEPT ![n] = sid[h]]
                              /\ pvSize' = [pvSize EXCEPT ![n] = size[h]]

-----------------------------------------------------------------------------
(* The backend (external) *)

\* The access point that was created becomes stable, one that is being deleted
\* disappears.
AccessPointSettles(i) ==
    /\ ap[i] \in {"pending", "deleting"}
    /\ ap' = [ap EXCEPT ![i] = IF ap[i] = "pending" THEN "stable" ELSE "none"]
    /\ UNCHANGED <<status, nameOf, sizeOf, handlers, sidecars>>

\* Share i comes to life with the requested name and size, with or without its
\* access point.
ShareCreated(h, i) ==
    /\ status[i] = "unused"
    /\ UniqueNames => Named(name[h]) = {}
    /\ status' = [status EXCEPT ![i] = "live"]
    /\ nameOf' = [nameOf EXCEPT ![i] = name[h]]
    /\ sizeOf' = [sizeOf EXCEPT ![i] = size[h]]
    /\ \/ ap' = [ap EXCEPT ![i] = "pending"]
       \/ May("bare") /\ UNCHANGED ap

\* checkIfVolumeExists: the results a lookup among the shares found can have: a
\* share, "none" (EntityNotFound and RetrivalFailed) or "error".
checkIfVolumeExists(found) ==
    (IF found = {} THEN {"none"} ELSE found)
        \cup (IF May("lookup") THEN {"error"} ELSE {})
        \cup (IF May("masked") THEN {"none"} ELSE {})

BackendFails(h, step) ==
    /\ cpc[h] = step
    /\ May("backend")
    /\ Reply(h, FALSE)

-----------------------------------------------------------------------------
(* CreateVolume *)

\* Mutant of CreateLookup: nobody looks for an existing share.
CreateBlindly(h) ==
    /\ cpc[h] = "c_lookup"
    /\ Goto(h, "c_net")
    /\ UNCHANGED <<backend, name, size, sid, hasAP, sidecars>>

\* Lookup by name: a share of another size is an error; a lookup error is
\* treated as if no share had been found.
CreateLookup(h) ==
    /\ cpc[h] = "c_lookup"
    /\ \E found \in checkIfVolumeExists(Named(name[h])) :
         IF found \in {"none", "error"}
           THEN Goto(h, "c_net") /\ UNCHANGED <<name, size, sid, hasAP, sidecars>>
           ELSE IF sizeOf[found] # size[h]
             THEN Reply(h, FALSE)
             ELSE /\ Goto(h, "c_net")
                  /\ sid' = [sid EXCEPT ![h] = found]
                  /\ hasAP' = [hasAP EXCEPT ![h] = ap[found] # "none"]
                  /\ UNCHANGED <<name, size, sidecars>>
    /\ UNCHANGED backend

\* The request is invalid, there is no session, the snapshot source is not
\* supported, or no subnet is found for a security group volume: an error
\* before anything is created.
CreateRefused(h) ==
    /\ cpc[h] \in {"c_lookup", "c_net"}
    /\ May("lookup")
    /\ Reply(h, FALSE)
    /\ UNCHANGED backend

\* Subnet and security group are known; what is missing is created.
CreateNetwork(h) ==
    /\ cpc[h] = "c_net"
    /\ Goto(h, IF sid[h] = NoShare THEN "c_create"
               ELSE IF hasAP[h] THEN "c_wait" ELSE "c_ap")
    /\ UNCHANGED <<backend, name, size, sid, hasAP, sidecars>>

CreateShare(h) ==
    /\ cpc[h] = "c_create"
    /\ \E i \in ShareIds :
         /\ ShareCreated(h, i)
         /\ sid' = [sid EXCEPT ![h] = i]
         /\ hasAP' = [hasAP EXCEPT ![h] = ap'[i] # "none"]
         /\ Goto(h, IF ap'[i] # "none" THEN "c_wait" ELSE "c_ap")
    /\ UNCHANGED <<name, size, sidecars>>

\* session.CreateVolume fails, although the share may have been created.
CreateShareFails(h) ==
    /\ cpc[h] = "c_create"
    /\ \/ /\ May("backend") \/ (UniqueNames /\ Named(name[h]) # {})
          /\ UNCHANGED backend
       \/ May("backend") /\ \E i \in ShareIds : ShareCreated(h, i)
    /\ Reply(h, FALSE)

\* session.CreateVolumeAccessPoint: the library returns an access point that
\* exists already.
CreateAccessPoint(h) ==
    /\ cpc[h] = "c_ap"
    /\ Live(sid[h])
    /\ ap' = [ap EXCEPT ![sid[h]] = IF @ = "none" THEN "pending" ELSE @]
    /\ \/ Goto(h, "c_wait") /\ UNCHANGED <<name, size, sid, hasAP, sidecars>>
       \/ May("backend") /\ Reply(h, FALSE)
    /\ UNCHANGED <<status, nameOf, sizeOf>>

CreateAccessPointFails(h) ==
    /\ \/ BackendFails(h, "c_ap")
       \/ cpc[h] = "c_ap" /\ ~Live(sid[h]) /\ Reply(h, FALSE)
    /\ UNCHANGED backend

\* Mutant of CreateWaits: an access point that is still pending will do.
CreateDoesNotWait(h) ==
    /\ cpc[h] = "c_wait"
    /\ Reply(h, ap[sid[h]] \in {"pending", "stable"})
    /\ UNCHANGED backend

\* session.WaitForCreateVolumeAccessPoint returns the stable access point, or
\* fails; then the volume exists but the caller does not learn its ID.
CreateWaits(h) ==
    /\ cpc[h] = "c_wait"
    /\ \/ ap[sid[h]] = "stable" /\ Reply(h, TRUE)
       \/ ap[sid[h]] \in {"none", "deleting"} /\ Reply(h, FALSE)
    /\ UNCHANGED backend

CreateWaitFails(h) == BackendFails(h, "c_wait") /\ UNCHANGED backend

-----------------------------------------------------------------------------
(* DeleteVolume *)

\* Mutant of DeleteLookup: the access point is left to the backend.
DeleteSkipsAccessPoint(h) ==
    /\ cpc[h] = "d_lookup"
    /\ IF Live(sid[h])
         THEN Goto(h, "d_share") /\ UNCHANGED <<name, size, sid, hasAP, sidecars>>
         ELSE Reply(h, TRUE)
    /\ UNCHANGED backend

\* Lookup by ID: a share that is not found is a success; after a lookup error
\* the deletion is tried all the same.
DeleteLookup(h) ==
    /\ cpc[h] = "d_lookup"
    /\ \E found \in checkIfVolumeExists({i \in ShareIds : Live(i) /\ i = sid[h]}) :
         IF found = "none"
           THEN Reply(h, TRUE)
           ELSE Goto(h, "d_ap") /\ UNCHANGED <<name, size, sid, hasAP, sidecars>>
    /\ UNCHANGED backend

\* The volume ID is empty or malformed, or there is no session.
DeleteRefused(h) ==
    /\ cpc[h] = "d_lookup"
    /\ May("lookup")
    /\ Reply(h, FALSE)
    /\ UNCHANGED backend

\* session.DeleteVolumeAccessPoint: the library accepts one that is gone.
DeleteAccessPoint(h) ==
    /\ cpc[h] = "d_ap"
    /\ ap' = [ap EXCEPT ![sid[h]] = IF @ = "none" THEN @ ELSE "deleting"]
    /\ \/ Goto(h, "d_wait") /\ UNCHANGED <<name, size, sid, hasAP, sidecars>>
       \/ May("backend") /\ Reply(h, FALSE)
    /\ UNCHANGED <<status, nameOf, sizeOf>>

DeleteAccessPointFails(h) ==
    /\ BackendFails(h, "d_ap") \/ BackendFails(h, "d_wait")
    /\ UNCHANGED backend

\* session.WaitForDeleteVolumeAccessPoint
DeleteWaits(h) ==
    /\ cpc[h] = "d_wait"
    /\ ap[sid[h]] = "none"
    /\ Goto(h, "d_share")
    /\ UNCHANGED <<backend, name, size, sid, hasAP, sidecars>>

\* session.DeleteVolume; the answer may be lost.
DeleteShare(h) ==
    /\ cpc[h] = "d_share"
    /\ Live(sid[h]) /\ ap[sid[h]] = "none"
    /\ status' = [status EXCEPT ![sid[h]] = "deleted"]
    /\ \E ok \in {TRUE} \cup {b \in {FALSE} : May("backend")} : Reply(h, ok)
    /\ UNCHANGED <<nameOf, sizeOf, ap>>

\* Mutant of DeleteShareFails: the error is swallowed.
DeleteShareIgnored(h) ==
    /\ cpc[h] = "d_share"
    /\ May("backend") \/ ~Live(sid[h]) \/ ap[sid[h]] # "none"
    /\ Reply(h, TRUE)
    /\ UNCHANGED backend

\* session.DeleteVolume refuses a share that is gone or has an access point.
DeleteShareFails(h) ==
    /\ \/ BackendFails(h, "d_share")
       \/ /\ cpc[h] = "d_share"
          /\ ~Live(sid[h]) \/ ap[sid[h]] # "none"
          /\ Reply(h, FALSE)
    /\ UNCHANGED backend

-----------------------------------------------------------------------------
(* ControllerExpandVolume *)

\* Here a lookup error, like a missing share, no session or a bad volume ID, ends
\* the call.
ExpandLookup(h) ==
    /\ cpc[h] = "x_lookup"
    /\ \E found \in checkIfVolumeExists({i \in ShareIds : Live(i) /\ i = sid[h]}) :
         IF found \in {"none", "error"}
           THEN Reply(h, FALSE)
           ELSE Goto(h, "x_expand") /\ UNCHANGED <<name, size, sid, hasAP, sidecars>>
    /\ UNCHANGED backend

\* Mutant of ExpandShare: the capacity is taken for an increment.
ExpandShareBy(h) ==
    /\ cpc[h] = "x_expand"
    /\ sizeOf' = [sizeOf EXCEPT ![sid[h]] = @ + size[h]]
    /\ Reply(h, TRUE)
    /\ UNCHANGED <<status, nameOf, ap>>

\* session.ExpandVolume never shrinks a share.
ExpandShare(h) ==
    /\ cpc[h] = "x_expand"
    /\ Live(sid[h])
    /\ sizeOf' = [sizeOf EXCEPT ![sid[h]] = IF @ < size[h] THEN size[h] ELSE @]
    /\ \E ok \in {TRUE} \cup {b \in {FALSE} : May("backend")} : Reply(h, ok)
    /\ UNCHANGED <<status, nameOf, ap>>

ExpandFails(h) ==
    /\ \/ BackendFails(h, "x_expand")
       \/ cpc[h] = "x_expand" /\ ~Live(sid[h]) /\ Reply(h, FALSE)
    /\ UNCHANGED backend

-----------------------------------------------------------------------------

Create(h) ==
    \/ CreateLookup(h) \/ CreateRefused(h) \/ CreateNetwork(h)
    \/ CreateShare(h) \/ CreateShareFails(h)
    \/ CreateAccessPoint(h) \/ CreateAccessPointFails(h)
    \/ CreateWaits(h) \/ CreateWaitFails(h)

Delete(h) ==
    \/ DeleteLookup(h) \/ DeleteRefused(h)
    \/ DeleteAccessPoint(h) \/ DeleteAccessPointFails(h)
    \/ DeleteWaits(h) \/ DeleteShare(h) \/ DeleteShareFails(h)

Expand(h) == ExpandLookup(h) \/ ExpandShare(h) \/ ExpandFails(h)

Sidecar(h, n) ==
    \/ \E s \in Sizes : SidecarCreates(h, n, s) \/ SidecarExpands(h, n, s)
    \/ SidecarDeletes(h, n)

\* The controller process dies; the sidecars see their calls fail.
ControllerCrashes ==
    /\ May("crash")
    /\ cpc' = [h \in Handlers |-> "idle"]
    /\ name' = [h \in Handlers |-> NoName]
    /\ size' = [h \in Handlers |-> 0]
    /\ sid' = [h \in Handlers |-> NoShare]
    /\ hasAP' = [h \in Handlers |-> FALSE]
    /\ wait' = [n \in Names |-> NoHandler]
    /\ UNCHANGED <<backend, pv, pvShare, pvSize, goal>>

OutageEnds ==
    /\ outage
    /\ outage' = FALSE
    /\ UNCHANGED <<backend, handlers, sidecars>>

Works ==
    \/ \E h \in Handlers : Create(h) \/ Delete(h) \/ Expand(h)
    \/ \E h \in Handlers, n \in Names : Sidecar(h, n)
    \/ \E n \in Names : SidecarTimeout(n)
    \/ \E i \in ShareIds : AccessPointSettles(i)
    \/ ControllerCrashes

Next == (Works /\ UNCHANGED outage) \/ OutageEnds

Spec == Init /\ [][Next]_vars

-----------------------------------------------------------------------------
(* Properties *)

\* A volume that exists for the cluster exists in the backend: its share is
\* live, bears its name, has the capacity the cluster was told, and a stable
\* access point, whatever attempts and repetitions led there.
BoundIsServed ==
    \A n \in Names :
        LET i == pvShare[n]
        IN  /\ pv[n] \in {"bound", "expanding"} =>
                 Live(i) /\ nameOf[i] = n /\ ap[i] = "stable"
            /\ pv[n] = "bound" => sizeOf[i] = pvSize[n]

\* CreateVolume is idempotent: however often it is repeated after a failure or
\* a restart, one name has at most one share.
OneSharePerName ==
    \A i, j \in ShareIds :
        Live(i) /\ Live(j) /\ nameOf[i] = nameOf[j] => i = j

\* Nothing leaks: once a volume is deleted and no call runs, the backend has no
\* share of its name, and no access point without a share.
DeletedLeavesNothing ==
    (\A h \in Handlers : cpc[h] = "idle") =>
        /\ \A n \in Names : pv[n] = "gone" => Named(n) = {}
        /\ \A i \in ShareIds : ap[i] # "none" => Live(i)

\* The volume operations keep the promise of NamedResource, with a volume as the
\* resource: a repeated CreateVolume finds the share the first one made, the
\* volume ID of an answer is that of the one share, expansion never replaces it,
\* and a deletion is reported only when the share is gone.
Wanted == [new |-> "new", creating |-> "create", bound |-> "have",
           expanding |-> "have", deleting |-> "delete", gone |-> "gone"]
Volumes == INSTANCE NamedResource
             WITH Ids <- ShareIds, NoId <- NoShare, held <- pvShare,
                  want <- [n \in Names |-> Wanted[pv[n]]],
                  exists <- [n \in Names |-> Named(n)]
ImplementsNamedResource == Volumes!Spec

-----------------------------------------------------------------------------
(* Liveness: handlers run on, access points settle, sidecars repeat what    *)
(* failed, and there is a time after which nothing fails any more.         *)

Fairness ==
    /\ \A h \in Handlers :
         WF_vars(UNCHANGED outage /\ (Create(h) \/ Delete(h) \/ Expand(h)))
    /\ \A i \in ShareIds : WF_vars(UNCHANGED outage /\ AccessPointSettles(i))
    /\ \A n \in Names :
         WF_vars(/\ UNCHANGED outage
                 /\ pv[n] \in {"creating", "expanding", "deleting"}
                 /\ \E h \in Handlers : Sidecar(h, n))
    /\ WF_vars(OutageEnds)

FairSpec == Spec /\ Fairness

\* Repeating helps: an operation a sidecar has begun is completed, also for a
\* share that was created without its access point or whose access point is
\* not yet stable, and across restarts and lost answers.
OperationsComplete ==
    \A n \in Names :
        pv[n] \in {"creating", "expanding", "deleting"} ~> pv[n] \in {"bound", "gone"}
=============================================================================
