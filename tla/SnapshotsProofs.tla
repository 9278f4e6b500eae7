-------------------------- MODULE SnapshotsProofs --------------------------
(***************************************************************************)
(* Theorems about Snapshots, for any number of handlers, names and         *)
(* snapshots and every set of failures.                                    *)
(***************************************************************************)
EXTENDS Snapshots, TLAPS

(***************************************************************************)
(* The inductive invariant.                                                *)
(***************************************************************************)

\* The backend refuses a second snapshot of a name.
OnePerName ==
    \A i, j \in SnapIds : Exists(i) /\ Exists(j) /\ snapName[i] = snapName[j] => i = j

\* A running handler is the one its name awaits, and works on what its name wants.
CallInv ==
    \A h \in Handlers : pc[h] # "idle" =>
        /\ req[h] \in Names /\ wait[req[h]] = h
        /\ pc[h] \in {"c_lookup", "c_create"} => vs[req[h]] = "creating"
        /\ pc[h] \in {"d_parse", "d_delete"} => vs[req[h]] = "deleting"

\* What the sidecar knows of a name agrees with what the backend has: a CRN is
\* that of the one snapshot of the name, or of the one that was deleted.
Agrees(n) ==
    /\ vs[n] = "new" => Named(n) = {} /\ crn[n] = NoCrn
    /\ vs[n] = "creating" =>
         crn[n] = NoCrn \/ \E i \in Named(n) : crn[n] = CRN(i)
    /\ vs[n] = "ready" =>
         \E i \in Named(n) : crn[n] = CRN(i) /\ snap[i] = "ready"
    /\ vs[n] = "deleting" =>
         \E i \in SnapIds : /\ crn[n] = CRN(i) /\ snapName[i] = n
                            /\ snap[i] # "unused" /\ Named(n) \subseteq {i}
    /\ vs[n] = "gone" => Named(n) = {}

SnapInv == TypeOK /\ OnePerName /\ CallInv /\ \A n \in Names : Agrees(n)

-----------------------------------------------------------------------------
(* What a CRN gives back. *)

\* Parsing the CRN of a snapshot finds its share, which has an ID, and the snapshot.
LEMMA CRNParses ==
    ASSUME NEW i
    PROVE  /\ getVolumeSnapshotAndAccountIDsFromCRN(CRN(i)).volume # ""
           /\ getVolumeSnapshotAndAccountIDsFromCRN(CRN(i)).snapshot = i
           /\ CRN(i).path[2] = i
<1>1. /\ getVolumeSnapshotAndAccountIDsFromCRN(CRN(i)).volume = Share
      /\ getVolumeSnapshotAndAccountIDsFromCRN(CRN(i)).snapshot = i
      /\ CRN(i).path[2] = i
  BY DEF getVolumeSnapshotAndAccountIDsFromCRN, CRN
<1> QED
  BY <1>1, SnapAssumption, Zenon

\* The signs for nothing are not values.
LEMMA NoValues ==
    /\ NoSnap \notin SnapIds /\ NoHandler \notin Handlers /\ NoName \notin Names
    /\ NoCrn \notin CRNs
BY SnapAssumption

\* Two snapshots have two CRNs, and none is the sign for no CRN.
LEMMA CRNInjective ==
    ASSUME NEW i \in SnapIds, NEW j \in SnapIds
    PROVE  /\ CRN(i) = CRN(j) => i = j
           /\ CRN(i) # NoCrn /\ CRN(i) \in CRNs
<1>1. CRN(i) \in CRNs
  BY DEF CRNs
<1>2. CRN(i).path[2] = i /\ CRN(j).path[2] = j
  BY CRNParses
<1> QED
  BY <1>1, <1>2, NoValues

-----------------------------------------------------------------------------
(* The invariant is inductive. *)

LEMMA SnapInit == Init => SnapInv
BY NoValues DEF Init, SnapInv, TypeOK, OnePerName, CallInv, Agrees, Named, Exists

\* A deletion takes the one snapshot of its name out of the CRN, if there still is one.
LEMMA DeletionTarget ==
    ASSUME SnapInv, NEW h \in Handlers, pc[h] \in {"d_parse", "d_delete"}
    PROVE  /\ req[h] \in Names /\ vs[req[h]] = "deleting"
           /\ Target(h).volume # "" /\ Target(h).snapshot \in SnapIds
           /\ crn[req[h]] = CRN(Target(h).snapshot)
           /\ snapName[Target(h).snapshot] = req[h]
           /\ snap[Target(h).snapshot] # "unused"
           /\ Named(req[h]) \subseteq {Target(h).snapshot}
<1>1. req[h] \in Names /\ vs[req[h]] = "deleting"
  BY DEF SnapInv, CallInv
<1>2. PICK i \in SnapIds : /\ crn[req[h]] = CRN(i) /\ snapName[i] = req[h]
                           /\ snap[i] # "unused" /\ Named(req[h]) \subseteq {i}
  BY <1>1 DEF SnapInv, Agrees
<1>3. Target(h) = getVolumeSnapshotAndAccountIDsFromCRN(CRN(i))
  BY <1>2 DEF Target
<1>4. /\ getVolumeSnapshotAndAccountIDsFromCRN(CRN(i)).volume # ""
      /\ getVolumeSnapshotAndAccountIDsFromCRN(CRN(i)).snapshot = i
  BY CRNParses, Zenon
<1> QED
  BY <1>1, <1>2, <1>3, <1>4, Zenon

LEMMA SnapStep == SnapInv /\ [Next]_vars => SnapInv'
<1> SUFFICES ASSUME SnapInv, [Next]_vars PROVE SnapInv'
  OBVIOUS
<1> USE NoValues DEF SnapInv, TypeOK, OnePerName, CallInv, Agrees, Named, Exists,
        Goto, backend, handlers, sidecar
<1>1. ASSUME NEW h \in Handlers, NEW n \in Names, SnapshotterCreates(h, n), UNCHANGED outage
      PROVE  SnapInv'
  BY <1>1 DEF SnapshotterCreates, Calls
<1>2. ASSUME NEW h \in Handlers, NEW n \in Names, SnapshotterDeletes(h, n), UNCHANGED outage
      PROVE  SnapInv'
  BY <1>2, CRNInjective DEF SnapshotterDeletes, Calls
<1>3. ASSUME NEW i \in SnapIds, SnapshotSettles(i), UNCHANGED outage
      PROVE  SnapInv'
  BY <1>3 DEF SnapshotSettles
<1>4. ASSUME NEW h \in Handlers, pc[h] # "idle", Fails(h), UNCHANGED <<backend, outage>>
      PROVE  SnapInv'
  BY <1>4 DEF Fails, Reply
<1>5. ASSUME NEW h, NEW i, Answers(h, i)
      PROVE  Reply(h, IF snap'[i] = "ready" THEN "ready" ELSE "creating", CRN(i))
  BY <1>5 DEF Answers, createCSISnapshotResponse
<1>6. ASSUME NEW h \in Handlers, NEW i \in SnapIds, pc[h] = "c_create", SnapshotTaken(h, i)
      PROVE  /\ TypeOK!1' /\ TypeOK!2' /\ OnePerName'
             /\ snap[i] = "unused" /\ snap'[i] = "pending" /\ snapName'[i] = req[h]
             /\ \A j \in SnapIds \ {i} : snap'[j] = snap[j] /\ snapName'[j] = snapName[j]
  BY <1>6 DEF SnapshotTaken
<1>7. ASSUME NEW h \in Handlers, CreateLookup(h), UNCHANGED outage PROVE SnapInv'
  <2>1. ASSUME NEW i \in Named(req[h]), Answers(h, i) PROVE SnapInv'
    <3>1. Reply(h, IF snap'[i] = "ready" THEN "ready" ELSE "creating", CRN(i))
      BY <1>5, <2>1
    <3>2. pc[h] = "c_lookup" /\ UNCHANGED backend /\ CRN(i) \in CRNs
      BY <1>7, CRNInjective DEF CreateLookup
    <3> QED
      BY <3>1, <3>2, <1>7 DEF Reply
  <2>2. CASE Goto(h, "c_create") /\ UNCHANGED <<req, sidecar>>
    BY <1>7, <2>2 DEF CreateLookup
  <2> QED
    BY <1>7, <2>1, <2>2 DEF CreateLookup
<1>8. ASSUME NEW h \in Handlers, CreateSnapshot(h), UNCHANGED outage PROVE SnapInv'
  <2>1. PICK i \in SnapIds : SnapshotTaken(h, i) /\ Answers(h, i)
    BY <1>8 DEF CreateSnapshot
  <2>2. pc[h] = "c_create" /\ CRN(i) \in CRNs
    BY <1>8, CRNInjective DEF CreateSnapshot
  <2>3. Reply(h, "creating", CRN(i))
    BY <1>5, <1>6, <2>1, <2>2
  <2> QED
    BY <1>6, <1>8, <2>1, <2>2, <2>3 DEF Reply
<1>9. ASSUME NEW h \in Handlers, CreateFails(h), UNCHANGED outage PROVE SnapInv'
  <2>1. CASE UNCHANGED backend
    BY <1>4, <1>9, <2>1 DEF CreateFails
  <2>2. CASE \E i \in SnapIds : SnapshotTaken(h, i)
    BY <1>9, <2>2 DEF CreateFails, SnapshotTaken, Fails, Reply
  <2> QED
    BY <1>9, <2>1, <2>2 DEF CreateFails
<1>10. ASSUME NEW h \in Handlers, CreateRefused(h) \/ DeleteRefused(h) \/ DeleteFails(h),
              UNCHANGED outage
       PROVE  SnapInv'
  BY <1>4, <1>10 DEF CreateRefused, DeleteRefused, DeleteFails
<1>12. ASSUME NEW h \in Handlers, DeleteParses(h), UNCHANGED outage PROVE SnapInv'
  <2>1. pc[h] = "d_parse" /\ Goto(h, "d_delete") /\ UNCHANGED <<req, sidecar, backend>>
    BY <1>12, DeletionTarget, Zenon DEF DeleteParses
  <2> QED
    BY <1>12, <2>1
<1>13. ASSUME NEW h \in Handlers, DeleteSnapshot(h), UNCHANGED outage PROVE SnapInv'
  <2> DEFINE i == Target(h).snapshot
  <2>0. pc[h] = "d_delete"
    BY <1>13 DEF DeleteSnapshot
  <2>1. /\ i \in SnapIds /\ crn[req[h]] = CRN(i)
        /\ snapName[i] = req[h] /\ snap[i] # "unused" /\ Named(req[h]) \subseteq {i}
        /\ snap' = [snap EXCEPT ![i] = "deleted"] /\ UNCHANGED snapName
        /\ Reply(h, "gone", crn[req[h]]) \/ Fails(h)
    BY <1>13, <2>0, DeletionTarget DEF DeleteSnapshot
  <2> HIDE DEF i
  <2>2. CASE Reply(h, "gone", crn[req[h]])
    BY <1>13, <2>0, <2>1, <2>2, CRNInjective DEF Reply
  <2>3. CASE Fails(h)
    BY <1>13, <2>0, <2>1, <2>3, CRNInjective DEF Reply, Fails
  <2> QED
    BY <2>1, <2>2, <2>3
<1>14. CASE ControllerCrashes /\ UNCHANGED outage
  BY <1>14 DEF ControllerCrashes
<1>15. CASE OutageEnds
  <2>1. outage' \in BOOLEAN
    BY <1>15, Zenon DEF OutageEnds
  <2> QED
    BY <1>15, <2>1 DEF OutageEnds
<1>16. CASE UNCHANGED vars
  BY <1>16 DEF vars
<1> QED
  BY <1>1, <1>2, <1>3, <1>7, <1>8, <1>9, <1>10, <1>12, <1>13, <1>14, <1>15, <1>16
     DEF Next, Works, Handles

\* The invariant is what keeps answers and backend together.
LEMMA SnapInvariant == Spec => []SnapInv
BY SnapInit, SnapStep, PTL DEF Spec

\* Every variable keeps its type: in particular the sidecar only ever stores a CRN.
THEOREM SnapTypes == Spec => []TypeOK
<1>1. SnapInv => TypeOK
  BY DEF SnapInv
<1> QED
  BY <1>1, SnapInvariant, PTL

\* A snapshot that CreateSnapshot reported as ready to use exists, bears its name
\* and is finished, whatever lookups failed, answers were lost and restarts happened.
THEOREM ReadySnapshotsAreReal == Spec => []ReadyIsReal
<1>1. SnapInv => ReadyIsReal
  <2> SUFFICES ASSUME SnapInv, NEW n \in Names, vs[n] = "ready"
               PROVE  LET i == getVolumeSnapshotAndAccountIDsFromCRN(crn[n]).snapshot
                      IN  i \in Named(n) /\ snap[i] = "ready"
    BY DEF ReadyIsReal
  <2>1. PICK i \in Named(n) : crn[n] = CRN(i) /\ snap[i] = "ready"
    BY DEF SnapInv, Agrees
  <2>2. getVolumeSnapshotAndAccountIDsFromCRN(crn[n]).snapshot = i
    BY <2>1, CRNParses
  <2> QED
    BY <2>1, <2>2
<1> QED
  BY <1>1, SnapInvariant, PTL

-----------------------------------------------------------------------------
(***************************************************************************)
(* The refinement: the values of the abstract variables, what a step does  *)
(* to them, and the abstract action that this is.                          *)
(***************************************************************************)

Want == [n \in Names |-> Wanted[vs[n]]]
Held == [n \in Names |-> IF crn[n] = NoCrn THEN NoSnap ELSE crn[n].path[2]]
Have == [n \in Names |-> Named(n)]

LEMMA WantStates ==
    ASSUME SnapInv, NEW n \in Names
    PROVE  /\ vs[n] = "new" <=> Want[n] = "new"
           /\ vs[n] = "creating" <=> Want[n] = "create"
           /\ vs[n] = "ready" <=> Want[n] = "have"
           /\ vs[n] = "deleting" <=> Want[n] = "delete"
           /\ vs[n] = "gone" <=> Want[n] = "gone"
BY DEF SnapInv, TypeOK, Want, Wanted

LEMMA WantMoves ==
    ASSUME SnapInv, NEW n \in Names, NEW v, vs' = [vs EXCEPT ![n] = v]
    PROVE  Want' = [Want EXCEPT ![n] = Wanted[v]]
BY DEF SnapInv, TypeOK, Want

LEMMA HeldMoves ==
    ASSUME SnapInv, NEW n \in Names, NEW i \in SnapIds, crn' = [crn EXCEPT ![n] = CRN(i)]
    PROVE  Held' = [Held EXCEPT ![n] = i]
<1>1. CRN(i) # NoCrn /\ CRN(i).path[2] = i
  BY CRNInjective, CRNParses
<1> QED
  BY <1>1 DEF SnapInv, TypeOK, Held

LEMMA IsRequest ==
    ASSUME NEW n \in Names, Want[n] = "new", Want' = [Want EXCEPT ![n] = "create"],
           Held' = Held, Have' = Have
    PROVE  Resources!Next
BY DEF Want, Held, Have, Resources!Next, Resources!Request, Resources!Wants

LEMMA IsMake ==
    ASSUME NEW n \in Names, Want[n] = "create", Have[n] = {},
           NEW i \in SnapIds, \A m \in Names : i \notin Have[m],
           Have' = [Have EXCEPT ![n] = {i}],
           Held' = Held \/ Held' = [Held EXCEPT ![n] = i],
           Want' = Want
    PROVE  Resources!Next
<1>1. i \in SnapIds \ UNION {Have[m] : m \in Names}
  OBVIOUS
<1>2. Resources!Make(n)
  BY <1>1, Zenon DEF Want, Held, Have, Resources!Make
<1> QED
  BY <1>2 DEF Resources!Next

LEMMA IsAnswer ==
    ASSUME NEW n \in Names, Want[n] = "create", NEW i \in Have[n],
           Held' = [Held EXCEPT ![n] = i],
           Want' = Want \/ Want' = [Want EXCEPT ![n] = "have"], Have' = Have
    PROVE  Resources!Next
BY DEF Want, Held, Have, Resources!Next, Resources!Answer, Resources!Wants

LEMMA IsDiscard ==
    ASSUME NEW n \in Names, Want[n] \in {"create", "have"}, Held[n] # NoSnap,
           Want' = [Want EXCEPT ![n] = "delete"], Held' = Held, Have' = Have
    PROVE  Resources!Next
BY DEF Want, Held, Have, Resources!Next, Resources!Discard, Resources!Wants

LEMMA IsRemove ==
    ASSUME NEW n \in Names, Want[n] = "delete", Have[n] # {},
           Have' = [Have EXCEPT ![n] = {}],
           Want' = Want \/ Want' = [Want EXCEPT ![n] = "gone"], Held' = Held
    PROVE  Resources!Next
BY DEF Want, Held, Have, Resources!Next, Resources!Remove, Resources!Wants

LEMMA IsForget ==
    ASSUME NEW n \in Names, Want[n] = "delete", Have[n] = {},
           Want' = [Want EXCEPT ![n] = "gone"], Held' = Held, Have' = Have
    PROVE  Resources!Next
BY DEF Want, Held, Have, Resources!Next, Resources!Forget, Resources!Wants

LEMMA IsStutter ==
    ASSUME Want' = Want, Held' = Held, Have' = Have
    PROVE  UNCHANGED Resources!vars
BY DEF Want, Held, Have, Resources!vars

\* The initial states are initial states of NamedResource.
LEMMA RefinesInit == Init => Resources!Init
BY DEF Init, Resources!Init, Named, Exists, Wanted

\* A step of the handlers, the sidecar or the backend is a step of NamedResource or
\* changes nothing there.
LEMMA RefinesNext == SnapInv /\ SnapInv' /\ [Next]_vars => [Resources!Next]_(Resources!vars)
<1> SUFFICES ASSUME SnapInv, SnapInv', [Next]_vars
             PROVE  Resources!Next \/ UNCHANGED Resources!vars
  OBVIOUS
<1> USE DEF backend, handlers, sidecar, Goto
<1>1. Wanted["creating"] = "create" /\ Wanted["deleting"] = "delete"
      /\ Wanted["ready"] = "have" /\ Wanted["gone"] = "gone"
  BY DEF Wanted
<1>2. ASSUME UNCHANGED backend PROVE Have' = Have
  BY <1>2 DEF Have, Named, Exists
<1>3. ASSUME UNCHANGED crn PROVE Held' = Held
  BY <1>3 DEF Held
<1>4. ASSUME UNCHANGED vs PROVE Want' = Want
  BY <1>4 DEF Want
<1>5. ASSUME NEW h \in Handlers, pc[h] # "idle", Fails(h)
      PROVE  Want' = Want /\ Held' = Held
  <2>1. UNCHANGED <<vs, crn>>
    BY <1>5 DEF Fails, Reply, SnapInv, CallInv, TypeOK
  <2> QED
    BY <1>3, <1>4, <2>1
<1>6. ASSUME NEW h \in Handlers, NEW n \in Names, SnapshotterCreates(h, n)
      PROVE  Resources!Next \/ UNCHANGED Resources!vars
  <2>1. Held' = Held /\ Have' = Have /\ Want' = [Want EXCEPT ![n] = "create"]
    <3>1. vs' = [vs EXCEPT ![n] = "creating"] /\ UNCHANGED <<backend, crn>>
      BY <1>6 DEF SnapshotterCreates, Calls
    <3>2. Want' = [Want EXCEPT ![n] = Wanted["creating"]]
      BY <3>1, WantMoves
    <3> QED
      BY <1>1, <1>2, <1>3, <3>1, <3>2
  <2>2. CASE vs[n] = "new"
    BY <2>1, <2>2, IsRequest, WantStates
  <2>3. CASE vs[n] = "creating"
    <3>1. Want' = Want
      BY <2>1, <2>3, WantStates DEF Want
    <3> QED
      BY <2>1, <3>1, IsStutter
  <2> QED
    BY <1>6, <2>2, <2>3 DEF SnapshotterCreates
<1>7. ASSUME NEW h \in Handlers, NEW n \in Names, SnapshotterDeletes(h, n)
      PROVE  Resources!Next \/ UNCHANGED Resources!vars
  <2>1. Held' = Held /\ Have' = Have /\ Want' = [Want EXCEPT ![n] = "delete"]
    <3>1. vs' = [vs EXCEPT ![n] = "deleting"] /\ UNCHANGED <<backend, crn>>
      BY <1>7 DEF SnapshotterDeletes, Calls
    <3>2. Want' = [Want EXCEPT ![n] = Wanted["deleting"]]
      BY <3>1, WantMoves
    <3> QED
      BY <1>1, <1>2, <1>3, <3>1, <3>2
  <2>2. CASE vs[n] \in {"creating", "ready"}
    <3>1. PICK i \in SnapIds : crn[n] = CRN(i)
      BY <1>7, <2>2 DEF SnapshotterDeletes, SnapInv, Agrees, Named
    <3>2. Held[n] # NoSnap
      <4>1. crn[n] # NoCrn /\ crn[n].path[2] = i
        BY <3>1, CRNInjective, CRNParses
      <4> QED
        BY <4>1, NoValues DEF Held
    <3> QED
      BY <2>1, <2>2, <3>2, IsDiscard, WantStates
  <2>3. CASE vs[n] = "deleting"
    <3>1. Want' = Want
      BY <2>1, <2>3, WantStates DEF Want
    <3> QED
      BY <2>1, <3>1, IsStutter
  <2> QED
    BY <1>7, <2>2, <2>3 DEF SnapshotterDeletes
<1>8. ASSUME NEW i \in SnapIds, SnapshotSettles(i)
      PROVE  UNCHANGED Resources!vars
  <2>1. Have' = Have
    BY <1>8 DEF SnapshotSettles, Have, Named, Exists, SnapInv, TypeOK
  <2> QED
    BY <1>3, <1>4, <1>8, <2>1, IsStutter DEF SnapshotSettles
<1>9. ASSUME NEW h \in Handlers, NEW i \in SnapIds, pc[h] = "c_create", SnapshotTaken(h, i)
      PROVE  /\ req[h] \in Names /\ Want[req[h]] = "create" /\ Have[req[h]] = {}
             /\ \A m \in Names : i \notin Have[m]
             /\ Have' = [Have EXCEPT ![req[h]] = {i}]
  <2>1. req[h] \in Names /\ Want[req[h]] = "create"
    BY <1>9, WantStates DEF SnapInv, CallInv
  <2>2. Have[req[h]] = {}
    BY <1>9, <2>1 DEF SnapshotTaken, Have
  <2>3. ASSUME NEW m \in Names PROVE i \notin Have[m]
    BY <1>9 DEF SnapshotTaken, Have, Named, Exists
  <2>4. ASSUME NEW m \in Names PROVE Named(m)' = IF m = req[h] THEN {i} ELSE Named(m)
    BY <1>9, <2>1 DEF SnapshotTaken, Named, Exists, SnapInv, TypeOK
  <2>5. Have' = [Have EXCEPT ![req[h]] = {i}]
    BY <2>1, <2>4 DEF Have
  <2> QED
    BY <2>1, <2>2, <2>3, <2>5
<1>10. ASSUME NEW h \in Handlers, pc[h] \in {"c_lookup", "c_create"}, NEW i \in SnapIds,
              Answers(h, i)
       PROVE  /\ req[h] \in Names /\ Want[req[h]] = "create"
              /\ Held' = [Held EXCEPT ![req[h]] = i]
              /\ snap'[i] # "ready" => Want' = Want
              /\ Want' = Want \/ Want' = [Want EXCEPT ![req[h]] = "have"]
  <2>1. req[h] \in Names /\ Want[req[h]] = "create"
    BY <1>10, WantStates DEF SnapInv, CallInv
  <2>2. Reply(h, IF snap'[i] = "ready" THEN "ready" ELSE "creating", CRN(i))
    BY <1>10 DEF Answers, createCSISnapshotResponse
  <2>3. Held' = [Held EXCEPT ![req[h]] = i]
    BY <2>1, <2>2, HeldMoves DEF Reply
  <2>4. Want' = [Want EXCEPT ![req[h]] = IF snap'[i] = "ready" THEN "have" ELSE "create"]
    <3> DEFINE v == IF snap'[i] = "ready" THEN "ready" ELSE "creating"
    <3>1. vs' = [vs EXCEPT ![req[h]] = v]
      BY <2>2 DEF Reply
    <3>2. Want' = [Want EXCEPT ![req[h]] = Wanted[v]]
      BY <2>1, <3>1, WantMoves
    <3> QED
      BY <1>1, <3>2
  <2>5. Want = [Want EXCEPT ![req[h]] = "create"]
    BY <2>1 DEF Want
  <2> QED
    BY <2>1, <2>3, <2>4, <2>5
<1>11. ASSUME NEW h \in Handlers, CreateLookup(h)
       PROVE  Resources!Next \/ UNCHANGED Resources!vars
  <2>1. ASSUME NEW i \in Named(req[h]), Answers(h, i) PROVE Resources!Next
    <3>1. i \in SnapIds /\ pc[h] = "c_lookup" /\ Have' = Have
      BY <1>2, <1>11 DEF CreateLookup, Named
    <3>2. req[h] \in Names /\ i \in Have[req[h]]
      BY <1>10, <2>1, <3>1 DEF Have
    <3> QED
      BY <1>10, <2>1, <3>1, <3>2, IsAnswer
  <2>2. CASE UNCHANGED <<req, sidecar>>
    BY <1>2, <1>3, <1>4, <1>11, <2>2, IsStutter DEF CreateLookup
  <2> QED
    BY <1>11, <2>1, <2>2 DEF CreateLookup
<1>12. ASSUME NEW h \in Handlers, CreateSnapshot(h) PROVE Resources!Next
  <2>1. PICK i \in SnapIds : SnapshotTaken(h, i) /\ Answers(h, i)
    BY <1>12 DEF CreateSnapshot
  <2>2. pc[h] = "c_create" /\ snap'[i] # "ready"
    BY <1>12, <2>1 DEF CreateSnapshot, SnapshotTaken, SnapInv, TypeOK
  <2>3. /\ req[h] \in Names /\ Want[req[h]] = "create" /\ Have[req[h]] = {}
        /\ \A m \in Names : i \notin Have[m]
        /\ Have' = [Have EXCEPT ![req[h]] = {i}]
    BY <1>9, <2>1, <2>2
  <2>4. Held' = [Held EXCEPT ![req[h]] = i] /\ Want' = Want
    BY <1>10, <2>1, <2>2
  <2> QED
    BY <2>3, <2>4, IsMake
<1>13. ASSUME NEW h \in Handlers, CreateFails(h)
       PROVE  Resources!Next \/ UNCHANGED Resources!vars
  <2>1. pc[h] = "c_create" /\ Want' = Want /\ Held' = Held
    BY <1>5, <1>13 DEF CreateFails
  <2>2. CASE UNCHANGED backend
    BY <1>2, <2>1, <2>2, IsStutter
  <2>3. ASSUME NEW i \in SnapIds, SnapshotTaken(h, i) PROVE Resources!Next
    <3>1. /\ req[h] \in Names /\ Want[req[h]] = "create" /\ Have[req[h]] = {}
          /\ \A m \in Names : i \notin Have[m]
          /\ Have' = [Have EXCEPT ![req[h]] = {i}]
      BY <1>9, <2>1, <2>3
    <3> QED
      BY <2>1, <3>1, IsMake
  <2> QED
    BY <1>13, <2>2, <2>3 DEF CreateFails
<1>14. ASSUME NEW h \in Handlers, CreateRefused(h) \/ DeleteRefused(h) \/ DeleteFails(h)
       PROVE  UNCHANGED Resources!vars
  BY <1>2, <1>5, <1>14, IsStutter DEF CreateRefused, DeleteRefused, DeleteFails
<1>16. ASSUME NEW h \in Handlers, DeleteParses(h) PROVE UNCHANGED Resources!vars
  <2>1. UNCHANGED <<req, sidecar, backend>>
    BY <1>16, DeletionTarget, Zenon DEF DeleteParses
  <2> QED
    BY <1>2, <1>3, <1>4, <2>1, IsStutter
<1>17. ASSUME NEW h \in Handlers, DeleteSnapshot(h)
       PROVE  Resources!Next \/ UNCHANGED Resources!vars
  <2> DEFINE n == req[h]
  <2>0. pc[h] = "d_delete"
    BY <1>17 DEF DeleteSnapshot
  <2>1. n \in Names /\ Want[n] = "delete"
    BY <2>0, DeletionTarget, WantStates
  <2>2. Have' = [Have EXCEPT ![n] = {}]
    <3> DEFINE i == Target(h).snapshot
    <3>1. /\ i \in SnapIds /\ Named(n) \subseteq {i} /\ snapName[i] = n
          /\ snap' = [snap EXCEPT ![i] = "deleted"] /\ UNCHANGED snapName
      BY <1>17, <2>0, DeletionTarget DEF DeleteSnapshot
    <3> HIDE DEF i
    <3>2. ASSUME NEW m \in Names PROVE Named(m)' = IF m = n THEN {} ELSE Named(m)
      BY <3>1 DEF Named, Exists, SnapInv, TypeOK
    <3> QED
      BY <3>2 DEF Have
  <2>3. Held' = Held
    <3>1. UNCHANGED crn
      BY <1>17, <2>1 DEF DeleteSnapshot, Fails, Reply, SnapInv, TypeOK
    <3> QED
      BY <1>3, <3>1
  <2>4. Want' = Want \/ Want' = [Want EXCEPT ![n] = "gone"]
    <3>1. CASE Reply(h, "gone", crn[n])
      <4>1. vs' = [vs EXCEPT ![n] = "gone"]
        BY <3>1 DEF Reply
      <4>2. Want' = [Want EXCEPT ![n] = Wanted["gone"]]
        BY <2>1, <4>1, WantMoves
      <4> QED
        BY <1>1, <4>2
    <3>2. CASE Fails(h)
      BY <1>5, <2>0, <3>2
    <3> QED
      BY <1>17, <3>1, <3>2 DEF DeleteSnapshot
  <2>5. CASE Have[n] # {}
    BY <2>1, <2>2, <2>3, <2>4, <2>5, IsRemove
  <2>6. CASE Have[n] = {}
    <3>1. Have' = Have
      BY <2>2, <2>6 DEF Have
    <3> QED
      BY <2>1, <2>3, <2>4, <2>6, <3>1, IsForget, IsStutter
  <2> QED
    BY <2>5, <2>6
<1>18. CASE ControllerCrashes \/ OutageEnds \/ UNCHANGED vars
  BY <1>2, <1>3, <1>4, <1>18, IsStutter DEF ControllerCrashes, OutageEnds, vars
<1> QED
  BY <1>6, <1>7, <1>8, <1>11, <1>12, <1>13, <1>14, <1>16, <1>17, <1>18
     DEF Next, Works, Handles

\* The snapshot operations implement NamedResource, for any number of snapshots and
\* handlers and all failures: polling takes no second snapshot of a name, every
\* answer's CRN is that of the one there is, and gone means gone.
THEOREM SnapshotsKeepPromise == Spec => ImplementsNamedResource
BY RefinesInit, RefinesNext, SnapInvariant, PTL
   DEF Spec, ImplementsNamedResource, Resources!Spec
=============================================================================
