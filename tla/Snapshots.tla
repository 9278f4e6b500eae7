----------------------------- MODULE Snapshots -----------------------------
(***************************************************************************)
(* The controller plugin's snapshot operations (pkg/ibmcsidriver/          *)
(* controller.go): CreateSnapshot and DeleteSnapshot, with the             *)
(* snapshotter sidecar that repeats them.                                  *)
(*                                                                         *)
(* CreateSnapshot is both the request and the poll: it answers as soon as  *)
(* the snapshot exists, and the sidecar repeats it until the answer says   *)
(* that the snapshot is ready.  The only thing that links the repetitions  *)
(* is the lookup by name.  What the sidecar keeps is the snapshot's CRN,   *)
(* and DeleteSnapshot takes the share and the snapshot out of it.          *)
(***************************************************************************)
EXTENDS Naturals, Sequences

CONSTANTS
    Handlers,    \* handler goroutines of the controller process
    Names,       \* snapshot names, each of one source share, never reused
    SnapIds,     \* IDs the backend can give out, each once: a bound
    Share,       \* the ID of the source share
    SnapFaults,  \* the failures that may happen
    NoSnap, NoHandler, NoName, NoCrn

SnapFaultNames == {
    "crash",    \* the controller process is restarted
    "refuse",   \* there is no session
    "lookup",   \* the lookup by name fails
    "backend"}  \* a call that changes the backend fails, done or not done

\* A CRN: its number of tokens between colons, and the path in the last one.
CRN(i) == [tokens |-> 10, path |-> <<Share, i>>]
CRNs   == {CRN(i) : i \in SnapIds}

ASSUME SnapAssumption ==
    /\ SnapFaults \subseteq SnapFaultNames
    /\ Share # ""
    /\ NoSnap \notin SnapIds /\ NoHandler \notin Handlers /\ NoName \notin Names
    /\ NoCrn \notin CRNs

VARIABLES
    snap, snapName,  \* the backend, per snapshot ID: its state, its name
    pc, req,         \* per handler: next step, the name its call is about
    vs,              \* per name: what the sidecar is doing
    crn,             \* per name: the snapshot ID of the answers it got
    wait,            \* per name: the handler whose answer is awaited
    outage           \* faults may happen

backend  == <<snap, snapName>>
handlers == <<pc, req>>
sidecar  == <<vs, crn, wait>>
vars     == <<backend, handlers, sidecar, outage>>

TypeOK ==
    /\ snap \in [SnapIds -> {"unused", "pending", "ready", "deleted"}]
    /\ snapName \in [SnapIds -> Names \cup {NoName}]
    /\ pc \in [Handlers -> {"idle", "c_lookup", "c_create", "d_parse", "d_delete"}]
    /\ req \in [Handlers -> Names \cup {NoName}]
    /\ vs \in [Names -> {"new", "creating", "ready", "deleting", "gone"}]
    /\ crn \in [Names -> CRNs \cup {NoCrn}]
    /\ wait \in [Names -> Handlers \cup {NoHandler}]
    /\ outage \in BOOLEAN

Init ==
    /\ snap = [i \in SnapIds |-> "unused"]
    /\ snapName = [i \in SnapIds |-> NoName]
    /\ pc = [h \in Handlers |-> "idle"]
    /\ req = [h \in Handlers |-> NoName]
    /\ vs = [n \in Names |-> "new"]
    /\ crn = [n \in Names |-> NoCrn]
    /\ wait = [n \in Names |-> NoHandler]
    /\ outage = TRUE

May(f)        == outage /\ f \in SnapFaults
Goto(h, step) == pc' = [pc EXCEPT ![h] = step]
Exists(i)     == snap[i] \in {"pending", "ready"}
Named(n)      == {i \in SnapIds : Exists(i) /\ snapName[i] = n}

-----------------------------------------------------------------------------
(* The snapshotter (external): one awaited call per snapshot at a time.  It *)
(* deletes a snapshot once it knows its ID, ready or not.                   *)

Calls(h, n, step, state) ==
    /\ pc[h] = "idle" /\ wait[n] = NoHandler
    /\ Goto(h, step)
    /\ req' = [req EXCEPT ![h] = n]
    /\ vs' = [vs EXCEPT ![n] = state]
    /\ wait' = [wait EXCEPT ![n] = h]
    /\ UNCHANGED <<backend, crn>>

SnapshotterCreates(h, n) ==
    vs[n] \in {"new", "creating"} /\ Calls(h, n, "c_lookup", "creating")

SnapshotterDeletes(h, n) ==
    /\ vs[n] \in {"creating", "ready", "deleting"} /\ crn[n] # NoCrn
    /\ Calls(h, n, "d_parse", "deleting")

\* The handler returns; the sidecar takes the new state and CRN from its answer.
Reply(h, state, id) ==
    LET n == req[h]
    IN  /\ Goto(h, "idle")
        /\ req' = [req EXCEPT ![h] = NoName]
        /\ vs' = [vs EXCEPT ![n] = state]
        /\ crn' = [crn EXCEPT ![n] = id]
        /\ wait' = [wait EXCEPT ![n] = NoHandler]

Fails(h) == Reply(h, vs[req[h]], crn[req[h]])

-----------------------------------------------------------------------------
(* The backend (external): the name of a snapshot is unique in its share.  *)

SnapshotTaken(h, i) ==
    /\ snap[i] = "unused" /\ Named(req[h]) = {}
    /\ snap' = [snap EXCEPT ![i] = "pending"]
    /\ snapName' = [snapName EXCEPT ![i] = req[h]]

SnapshotSettles(i) ==
    /\ snap[i] = "pending"
    /\ snap' = [snap EXCEPT ![i] = "ready"]
    /\ UNCHANGED <<snapName, handlers, sidecar>>

-----------------------------------------------------------------------------
(* CreateSnapshot *)

\* Mutant of createCSISnapshotResponse: the ID in place of the CRN.
ResponseWithId(i) == [id |-> i, ready |-> snap'[i] = "ready"]

\* Mutant of createCSISnapshotResponse: a snapshot that exists is called ready.
ResponseAlwaysReady(i) == [id |-> CRN(i), ready |-> TRUE]

createCSISnapshotResponse(i) == [id |-> CRN(i), ready |-> snap'[i] = "ready"]

Answers(h, i) ==
    LET response == createCSISnapshotResponse(i)
    IN  Reply(h, IF response.ready THEN "ready" ELSE "creating", response.id)

\* The feature is off, the request is malformed, or there is no session.
CreateRefused(h) ==
    /\ pc[h] = "c_lookup" /\ May("refuse")
    /\ Fails(h)
    /\ UNCHANGED backend

\* Mutant of CreateLookup: an existing snapshot is not looked for.
CreateBlindly(h) ==
    /\ pc[h] = "c_lookup"
    /\ Goto(h, "c_create")
    /\ UNCHANGED <<backend, req, sidecar>>

\* session.GetSnapshotByName: a snapshot that is found is the answer, as it is
\* now.  An error is ignored, as if there were none.
CreateLookup(h) ==
    /\ pc[h] = "c_lookup"
    /\ UNCHANGED backend
    /\ \/ \E i \in Named(req[h]) : Answers(h, i)
       \/ /\ Named(req[h]) = {} \/ May("lookup")
          /\ Goto(h, "c_create")
          /\ UNCHANGED <<req, sidecar>>

\* session.CreateSnapshot: the answer is the new snapshot.
CreateSnapshot(h) ==
    /\ pc[h] = "c_create"
    /\ \E i \in SnapIds : SnapshotTaken(h, i) /\ Answers(h, i)

\* The call fails, although the snapshot may have been taken, or is refused
\* since there is one of that name.
CreateFails(h) ==
    /\ pc[h] = "c_create"
    /\ \/ Named(req[h]) # {} /\ UNCHANGED backend
       \/ May("backend") /\ UNCHANGED backend
       \/ May("backend") /\ \E i \in SnapIds : SnapshotTaken(h, i)
    /\ Fails(h)

-----------------------------------------------------------------------------
(* DeleteSnapshot *)

\* Mutant of getVolumeSnapshotAndAccountIDsFromCRN: more than ten tokens.
IDsFromLongCRN(c) ==
    IF c.tokens > 10 /\ Len(c.path) > 1
      THEN [volume |-> c.path[1], snapshot |-> c.path[2]]
      ELSE [volume |-> "", snapshot |-> NoSnap]

\* The share and the snapshot are the path in the last token; a volume ID of ""
\* stands for an ID that is not a CRN.
getVolumeSnapshotAndAccountIDsFromCRN(c) ==
    IF c.tokens > 9 /\ Len(c.path) > 1
      THEN [volume |-> c.path[1], snapshot |-> c.path[2]]
      ELSE [volume |-> "", snapshot |-> NoSnap]

Target(h) == getVolumeSnapshotAndAccountIDsFromCRN(crn[req[h]])

DeleteRefused(h) ==
    /\ pc[h] = "d_parse" /\ May("refuse")
    /\ Fails(h)
    /\ UNCHANGED backend

\* There is nothing to do for an ID that is not a CRN, and that is a success.
DeleteParses(h) ==
    /\ pc[h] = "d_parse"
    /\ IF Target(h).volume = ""
         THEN Reply(h, "gone", crn[req[h]])
         ELSE Goto(h, "d_delete") /\ UNCHANGED <<req, sidecar>>
    /\ UNCHANGED backend

\* session.DeleteSnapshot: the library accepts a snapshot that is gone.  The
\* answer may be lost.
DeleteSnapshot(h) ==
    /\ pc[h] = "d_delete"
    /\ snap' = [snap EXCEPT ![Target(h).snapshot] = "deleted"]
    /\ Reply(h, "gone", crn[req[h]]) \/ (May("backend") /\ Fails(h))
    /\ UNCHANGED snapName

DeleteFails(h) ==
    /\ pc[h] = "d_delete" /\ May("backend")
    /\ Fails(h)
    /\ UNCHANGED backend

-----------------------------------------------------------------------------

Handles(h) ==
    \/ CreateRefused(h) \/ CreateLookup(h) \/ CreateSnapshot(h) \/ CreateFails(h)
    \/ DeleteRefused(h) \/ DeleteParses(h) \/ DeleteSnapshot(h) \/ DeleteFails(h)

ControllerCrashes ==
    /\ May("crash")
    /\ pc' = [h \in Handlers |-> "idle"]
    /\ req' = [h \in Handlers |-> NoName]
    /\ wait' = [n \in Names |-> NoHandler]
    /\ UNCHANGED <<backend, vs, crn>>

OutageEnds ==
    /\ outage
    /\ outage' = FALSE
    /\ UNCHANGED <<backend, handlers, sidecar>>

Works ==
    \/ \E h \in Handlers : Handles(h)
    \/ \E h \in Handlers, n \in Names : SnapshotterCreates(h, n) \/ SnapshotterDeletes(h, n)
    \/ \E i \in SnapIds : SnapshotSettles(i)
    \/ ControllerCrashes

Next == (Works /\ UNCHANGED outage) \/ OutageEnds

Spec == Init /\ [][Next]_vars

-----------------------------------------------------------------------------
(* Properties *)

\* A snapshot that the cluster takes for usable is: the CRN it was given names a
\* finished snapshot of that name in the backend, although the readiness it was
\* told is that of the moment of the lookup.
ReadyIsReal ==
    \A n \in Names : vs[n] = "ready" =>
        LET i == getVolumeSnapshotAndAccountIDsFromCRN(crn[n]).snapshot
        IN  i \in Named(n) /\ snap[i] = "ready"

\* The snapshot operations keep the promise of NamedResource: polling never takes
\* a second snapshot, the CRN of all answers is that of the one there is, and a
\* deletion is reported only when the snapshot is gone, across restarts, failed
\* lookups and lost answers.
Wanted == [new |-> "new", creating |-> "create", ready |-> "have",
           deleting |-> "delete", gone |-> "gone"]
Resources == INSTANCE NamedResource
               WITH Ids <- SnapIds, NoId <- NoSnap,
                    want <- [n \in Names |-> Wanted[vs[n]]],
                    held <- [n \in Names |->
                               IF crn[n] = NoCrn THEN NoSnap ELSE crn[n].path[2]],
                    exists <- [n \in Names |-> Named(n)]
ImplementsNamedResource == Resources!Spec

-----------------------------------------------------------------------------
(* Liveness: handlers run on, snapshots settle, the sidecar repeats its call *)
(* and there is a time after which nothing fails any more.                  *)

Fairness ==
    /\ \A h \in Handlers : WF_vars(UNCHANGED outage /\ Handles(h))
    /\ \A i \in SnapIds : WF_vars(UNCHANGED outage /\ SnapshotSettles(i))
    /\ \A n \in Names :
         WF_vars(/\ UNCHANGED outage
                 /\ \E h \in Handlers :
                      \/ vs[n] = "creating" /\ SnapshotterCreates(h, n)
                      \/ vs[n] = "deleting" /\ SnapshotterDeletes(h, n))
    /\ WF_vars(OutageEnds)

FairSpec == Spec /\ Fairness

\* Polling ends: a snapshot that was asked for is reported ready unless it is
\* deleted first, and a deletion that was begun is completed.
SnapshotsComplete ==
    \A n \in Names :
        /\ vs[n] = "creating" ~> vs[n] \in {"ready", "deleting"}
        /\ vs[n] = "deleting" ~> vs[n] = "gone"
=============================================================================
