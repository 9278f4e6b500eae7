------------------------ MODULE NamedResourceProofs ------------------------
(***************************************************************************)
(* What the abstract specification of the controller promises, and hence   *)
(* what a module that implements it (Controller, Snapshots) inherits.      *)
(***************************************************************************)
EXTENDS NamedResource, TLAPS

\* A name has no resource or one, and what the sidecars have is that one.
PromiseInv ==
    /\ want = [n \in Names |-> want[n]]
    /\ held = [n \in Names |-> held[n]]
    /\ exists = [n \in Names |-> exists[n]]
    /\ \A n \in Names : exists[n] = {} \/ \E i \in Ids : exists[n] = {i}
    /\ HaveExists

LEMMA PromiseInit == Init => PromiseInv
BY DEF Init, PromiseInv, HaveExists

LEMMA PromiseStep == PromiseInv /\ [Next]_vars => PromiseInv'
<1> SUFFICES ASSUME PromiseInv, [Next]_vars PROVE PromiseInv'
  OBVIOUS
<1> USE DEF PromiseInv, HaveExists, Wants
<1>1. ASSUME NEW n \in Names, Request(n) PROVE PromiseInv'
  BY <1>1 DEF Request
<1>2. ASSUME NEW n \in Names, Make(n) PROVE PromiseInv'
  BY <1>2 DEF Make
<1>3. ASSUME NEW n \in Names, Answer(n) PROVE PromiseInv'
  BY <1>3 DEF Answer
<1>4. ASSUME NEW n \in Names, Discard(n) PROVE PromiseInv'
  BY <1>4 DEF Discard
<1>5. ASSUME NEW n \in Names, Remove(n) PROVE PromiseInv'
  BY <1>5 DEF Remove
<1>6. ASSUME NEW n \in Names, Forget(n) PROVE PromiseInv'
  BY <1>6 DEF Forget
<1>7. CASE UNCHANGED vars
  BY <1>7 DEF vars
<1> QED
  BY <1>1, <1>2, <1>3, <1>4, <1>5, <1>6, <1>7 DEF Next

\* What CreateVolume or CreateSnapshot has reported exists, and is the only one of
\* its name, until the sidecars ask for its deletion.
THEOREM PromiseKept == Spec => []HaveExists
<1>1. PromiseInv => HaveExists
  BY DEF PromiseInv
<1> QED
  BY <1>1, PromiseInit, PromiseStep, PTL DEF Spec
=============================================================================
