--------------------------- MODULE NamedResource ---------------------------
(***************************************************************************)
(* What the controller promises its sidecars about the volumes and the     *)
(* snapshots it makes for them, whatever failures, restarts and repeated   *)
(* calls lie behind an answer: a name has at most one resource, the ID an  *)
(* answer gives is that of the resource there is, it stays that until the  *)
(* sidecars want the resource deleted, and they are told it is gone only   *)
(* when it is.                                                             *)
(***************************************************************************)
CONSTANTS
    Names,  \* names of resources, never reused
    Ids,    \* IDs of resources
    NoId    \* none of them

VARIABLES
    want,   \* per name: what the sidecars want of the resource
    held,   \* per name: the ID they were told
    exists  \* per name: the resources of that name

vars == <<want, held, exists>>

TypeOK ==
    /\ want \in [Names -> {"new", "create", "have", "delete", "gone"}]
    /\ held \in [Names -> Ids \cup {NoId}]
    /\ exists \in [Names -> SUBSET Ids]

Init ==
    /\ want = [n \in Names |-> "new"]
    /\ held = [n \in Names |-> NoId]
    /\ exists = [n \in Names |-> {}]

Wants(n, w) == want' = [want EXCEPT ![n] = w]

Request(n) == want[n] = "new" /\ Wants(n, "create") /\ UNCHANGED <<held, exists>>

\* The resource is made, once, for those who want it; they may or may not learn
\* its ID at once.
Make(n) ==
    /\ want[n] = "create" /\ exists[n] = {}
    /\ \E i \in Ids \ UNION {exists[m] : m \in Names} :
         /\ exists' = [exists EXCEPT ![n] = {i}]
         /\ held' = held \/ held' = [held EXCEPT ![n] = i]
    /\ UNCHANGED want

\* The sidecars learn the ID, of a resource that is ready or is not yet.
Answer(n) ==
    /\ want[n] = "create"
    /\ \E i \in exists[n] : held' = [held EXCEPT ![n] = i]
    /\ want' = want \/ Wants(n, "have")
    /\ UNCHANGED exists

Discard(n) ==
    /\ want[n] \in {"create", "have"} /\ held[n] # NoId
    /\ Wants(n, "delete")
    /\ UNCHANGED <<held, exists>>

\* The resource is deleted; its sidecars may or may not learn it at once.
Remove(n) ==
    /\ want[n] = "delete" /\ exists[n] # {}
    /\ exists' = [exists EXCEPT ![n] = {}]
    /\ want' = want \/ Wants(n, "gone")
    /\ UNCHANGED held

Forget(n) ==
    /\ want[n] = "delete" /\ exists[n] = {}
    /\ Wants(n, "gone")
    /\ UNCHANGED <<held, exists>>

Next ==
    \E n \in Names :
        Request(n) \/ Make(n) \/ Answer(n) \/ Discard(n) \/ Remove(n) \/ Forget(n)

Spec == Init /\ [][Next]_vars

\* The promise in one formula: what the sidecars have exists and is the only one.
HaveExists ==
    \A n \in Names : want[n] = "have" => exists[n] = {held[n]}
=============================================================================
