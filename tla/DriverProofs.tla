---------------------------- MODULE DriverProofs ----------------------------
(***************************************************************************)
(* Theorems about the life of a plugin process, for any lists of subnets,  *)
(* any number of changes of the configuration map and all faults.          *)
(***************************************************************************)
EXTENDS Driver, TLAPS

-----------------------------------------------------------------------------
(* Types *)

LEMMA TypeInit == Init => TypeOK
<1>1. 0 \in 0..MaxChanges
  BY DriverAssumption
<1> QED
  BY <1>1, Zenon DEF Init, TypeOK

LEMMA TypeStep == TypeOK /\ [Next]_vars => TypeOK'
<1> SUFFICES ASSUME TypeOK, [Next]_vars PROVE TypeOK'
  OBVIOUS
<1> USE DEF TypeOK, process, config, Goto, Quiet, Dies, Steps
<1>1. CASE UNCHANGED vars
  BY <1>1 DEF vars
<1>2. CASE OutageEnds
  <2>1. outage' \in BOOLEAN /\ UNCHANGED <<process, config>>
    BY <1>2 DEF OutageEnds
  <2> QED
    BY <2>1
<1>3. ASSUME Starts, UNCHANGED outage PROVE TypeOK'
  <2>1. CASE ContainerStarts
    BY <1>3, <2>1 DEF ContainerStarts
  <2>2. CASE Initialises \/ GetProviderSession \/ SetupSidecar
    BY <1>3, <2>2 DEF Initialises, GetProviderSession, SetupSidecar
  <2>3. CASE FindProfile
    BY <1>3, <2>3 DEF FindProfile
  <2>4. CASE NewStunnelManager
    BY <1>3, <2>4 DEF NewStunnelManager
  <2>5. CASE WatchClusterConfigMap
    BY <1>3, <2>5 DEF WatchClusterConfigMap
  <2>6. CASE RemoveOldSocket \/ Listen
    BY <1>3, <2>6 DEF RemoveOldSocket, Listen
  <2> QED
    BY <1>3, <2>1, <2>2, <2>3, <2>4, <2>5, <2>6 DEF Starts
<1>4. ASSUME InitialiseFails \/ ListenFails \/ ProcessDies, UNCHANGED outage PROVE TypeOK'
  BY <1>4 DEF InitialiseFails, ListenFails, ProcessDies
<1>5. ASSUME ServeFails \/ Terminates, UNCHANGED outage PROVE TypeOK'
  BY <1>5 DEF ServeFails, Terminates
<1>6. ASSUME NEW v \in Lists \cup {Empty, Absent}, MapChanges(v), UNCHANGED outage
      PROVE  TypeOK'
  BY <1>6, DriverAssumption DEF MapChanges
<1>7. ASSUME InformerLists, UNCHANGED outage PROVE TypeOK'
  BY <1>7 DEF InformerLists
<1>8. ASSUME InformerUpdates, UNCHANGED outage PROVE TypeOK'
  <2>1. missed' \in BOOLEAN
    BY <1>8, Zenon DEF InformerUpdates
  <2>2. env' \in Lists \cup {Empty}
    BY <1>8 DEF InformerUpdates, updateSubnetList
  <2> QED
    BY <1>8, <2>1, <2>2 DEF InformerUpdates
<1> QED
  BY <1>1, <1>2, <1>3, <1>4, <1>5, <1>6, <1>7, <1>8 DEF Next, Works

\* Types hold in every reachable state.
THEOREM DriverTypes == Spec => []TypeOK
BY TypeInit, TypeStep, PTL DEF Spec

-----------------------------------------------------------------------------
(* The list of subnets *)

\* A process that is not there does not watch.
ListInv == SubnetListIsCurrent /\ (proc = "down" => watch = "off")

LEMMA ListInit == Init => ListInv
BY DEF Init, ListInv, SubnetListIsCurrent

LEMMA ListStep == ListInv /\ [Next]_vars => ListInv'
<1> SUFFICES ASSUME ListInv, [Next]_vars PROVE ListInv'
  OBVIOUS
<1> USE DEF ListInv, SubnetListIsCurrent, process, config, Goto, Quiet, Dies
<1>1. CASE UNCHANGED vars \/ OutageEnds
  BY <1>1 DEF vars, OutageEnds
<1>2. CASE Starts
  <2>1. CASE ContainerStarts
    BY <2>1 DEF ContainerStarts
  <2> QED
    BY <1>2, <2>1 DEF Starts, Initialises, GetProviderSession, FindProfile,
       NewStunnelManager, WatchClusterConfigMap, RemoveOldSocket, Listen, SetupSidecar
<1>3. CASE InitialiseFails \/ ListenFails \/ ServeFails \/ Terminates \/ ProcessDies
  BY <1>3 DEF InitialiseFails, ListenFails, ServeFails, Terminates, ProcessDies
<1>4. ASSUME NEW v \in Lists \cup {Empty, Absent}, MapChanges(v)
      PROVE  ListInv'
  BY <1>4 DEF MapChanges
<1>5. CASE InformerLists
  BY <1>5 DEF InformerLists
<1>6. CASE InformerUpdates
  BY <1>6, DriverAssumption DEF InformerUpdates, updateSubnetList
<1> QED
  BY <1>1, <1>2, <1>3, <1>4, <1>5, <1>6 DEF Next, Works

\* The subnets CreateVolume chooses from are those the informer knows, once it has
\* seen them change, whatever changes it coalesced and however often the process
\* was restarted.
THEOREM ListCorrect == Spec => []SubnetListIsCurrent
<1>1. ListInv => SubnetListIsCurrent
  BY DEF ListInv
<1> QED
  BY <1>1, ListInit, ListStep, PTL DEF Spec
=============================================================================
