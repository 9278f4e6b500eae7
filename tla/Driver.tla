------------------------------- MODULE Driver -------------------------------
(***************************************************************************)
(* The life of one plugin process: cmd/main.go brings the parts up in      *)
(* order, pkg/ibmcsidriver/ibm_csi_driver.go sets up the servers,          *)
(* server.go opens the CSI socket and serves, and config_watcher.go keeps  *)
(* the list of subnets in the process's environment up to date.  The       *)
(* container is started again whenever the process is gone.                *)
(***************************************************************************)
EXTENDS Naturals

CONSTANTS
    Lists,        \* values of vpc_subnet_ids in the cluster's configuration map
    Empty,        \* the map is there, without such a value
    Absent,       \* there is no such map
    MaxChanges,   \* bound on the changes of the map
    DriverFaults  \* the failures that may happen

DriverFaultNames == {
    "init",      \* an initialisation whose failure is fatal fails
    "session",   \* there is no session, or no profile, or no tunnel manager
    "serve",     \* the gRPC server stops serving
    "term",      \* the process gets a SIGTERM
    "kill"}      \* the process dies

ASSUME DriverAssumption ==
    /\ Empty \notin Lists /\ Absent \notin Lists /\ Empty # Absent
    /\ MaxChanges \in Nat
    /\ DriverFaults \subseteq DriverFaultNames

VARIABLES
    role,                \* "node" (IS_NODE_SERVER) or "controller"
    proc,                \* what the main goroutine does next, or "down"
    rfsEnabled, manager, \* Driver.rfsEnabled; ns.StunnelMgr is not nil
    sock,                \* the socket file: "none", "open" or left behind ("stale")
    cm,                  \* the configuration map's value
    env,                 \* VPC_SUBNET_IDS
    watch,               \* the informer: "off", "listing" or "on"
    store,               \* the value of the map in the informer's store
    missed,              \* what the store holds came with an Add and is not env
    changes, outage

process == <<role, proc, rfsEnabled, manager, sock>>
config  == <<cm, env, watch, store, missed, changes>>
vars    == <<process, config, outage>>

Steps == {"client", "metadata", "session", "profile", "manager", "watch", "remove",
          "listen", "sidecar", "serve"}

TypeOK ==
    /\ role \in {"node", "controller"}
    /\ proc \in Steps \cup {"down", "stuck"}
    /\ rfsEnabled \in BOOLEAN /\ manager \in BOOLEAN
    /\ sock \in {"none", "open", "stale"}
    /\ cm \in Lists \cup {Empty, Absent} /\ store \in Lists \cup {Empty, Absent}
    /\ env \in Lists \cup {Empty}
    /\ watch \in {"off", "listing", "on"}
    /\ missed \in BOOLEAN
    /\ changes \in 0..MaxChanges
    /\ outage \in BOOLEAN

Init ==
    /\ role \in {"node", "controller"}
    /\ proc = "down" /\ rfsEnabled = FALSE /\ manager = FALSE /\ sock = "none"
    /\ cm \in Lists /\ env = Empty
    /\ watch = "off" /\ store = Absent /\ missed = FALSE
    /\ changes = 0 /\ outage = TRUE

May(f) == outage /\ f \in DriverFaults

\* Only the main goroutine moves.
Goto(step) == proc' = step /\ UNCHANGED role
Quiet      == UNCHANGED <<rfsEnabled, manager, sock, config>>

\* The process is gone, with all it kept in memory; its socket stays behind.
Dies ==
    /\ proc' = "down"
    /\ rfsEnabled' = FALSE /\ manager' = FALSE
    /\ sock' = IF sock = "open" THEN "stale" ELSE sock
    /\ env' = Empty /\ watch' = "off" /\ store' = Absent /\ missed' = FALSE
    /\ UNCHANGED <<role, cm, changes>>

-----------------------------------------------------------------------------
(* main.handle and SetupIBMCSIDriver *)

\* kubelet (external) starts the container.  The controller's environment is taken
\* from the map, which must exist.
ContainerStarts ==
    /\ proc = "down"
    /\ role = "controller" => cm # Absent
    /\ env' = IF role = "controller" THEN cm ELSE Empty
    /\ Goto("client")
    /\ UNCHANGED <<rfsEnabled, manager, sock, cm, watch, store, missed, changes>>

\* The Kubernetes client and the cloud provider, then the node's metadata.
Initialises ==
    /\ \/ proc = "client" /\ Goto("metadata")
       \/ proc = "metadata" /\ Goto("session")
    /\ Quiet

\* logger.Fatal: also for a socket that cannot be removed or handed to the sidecar.
InitialiseFails ==
    /\ proc \in {"client", "metadata", "remove", "sidecar"}
    /\ May("init")
    /\ Dies

\* Without a session the set-up returns here: no profile, and no tunnel manager.
GetProviderSession ==
    /\ proc = "session"
    /\ Goto("profile") \/ (May("session") /\ Goto("watch"))
    /\ Quiet

\* session.GetVolumeProfileByName
FindProfile ==
    /\ proc = "profile"
    /\ rfsEnabled' \in {TRUE} \cup {b \in {FALSE} : May("session")}
    /\ Goto("manager")
    /\ UNCHANGED <<manager, sock, config>>

\* rfseit.NewStunnelManager, in a node server; without it the server goes on.
NewStunnelManager ==
    /\ proc = "manager"
    /\ manager' \in {role = "node"} \cup {b \in {FALSE} : May("session")}
    /\ Goto("watch")
    /\ UNCHANGED <<rfsEnabled, sock, config>>

\* WatchClusterConfigMap starts the informer's goroutine, and Run the server.
WatchClusterConfigMap ==
    /\ proc = "watch"
    /\ watch' = "listing"
    /\ Goto("remove")
    /\ UNCHANGED <<rfsEnabled, manager, sock, cm, env, store, missed, changes>>

-----------------------------------------------------------------------------
(* The gRPC server *)

\* Mutant of RemoveOldSocket: the file a dead process left is not removed.
KeepOldSocket ==
    /\ proc = "remove"
    /\ Goto("listen")
    /\ Quiet

RemoveOldSocket ==
    /\ proc = "remove"
    /\ sock' = "none"
    /\ Goto("listen")
    /\ UNCHANGED <<rfsEnabled, manager, config>>

\* net.Listen; in a node server setupSidecar comes next.
Listen ==
    /\ proc = "listen" /\ sock = "none"
    /\ sock' = "open"
    /\ Goto(IF role = "node" THEN "sidecar" ELSE "serve")
    /\ UNCHANGED <<rfsEnabled, manager, config>>

\* A socket file that exists is an address in use: fatal.
ListenFails ==
    /\ proc = "listen"
    /\ sock # "none" \/ May("init")
    /\ Dies

SetupSidecar == proc = "sidecar" /\ Goto("serve") /\ Quiet

\* Serve returns and has closed the listener: serve ends, but the wait group is
\* never released, so the process lives on.
ServeFails ==
    /\ proc = "serve" /\ May("serve")
    /\ sock' = "none"
    /\ Goto("stuck")
    /\ UNCHANGED <<rfsEnabled, manager, config>>

\* SIGTERM: removeCSISocket removes the socket and exits; before it is installed
\* the signal ends the process as it is.  The liveness probe (external) has a
\* process terminated that answers no probe.
Terminates ==
    /\ proc # "down"
    /\ May("term") \/ proc = "stuck"
    /\ IF proc \in {"serve", "stuck"}
         THEN /\ sock' = "none"
              /\ proc' = "down"
              /\ rfsEnabled' = FALSE /\ manager' = FALSE
              /\ env' = Empty /\ watch' = "off" /\ store' = Absent /\ missed' = FALSE
              /\ UNCHANGED <<role, cm, changes>>
         ELSE Dies

ProcessDies == proc # "down" /\ May("kill") /\ Dies

-----------------------------------------------------------------------------
(* The configuration watcher *)

\* Somebody (external) changes, empties, deletes or creates the map.
MapChanges(v) ==
    /\ v # cm
    /\ changes < MaxChanges
    /\ cm' = v
    /\ changes' = changes + 1
    /\ UNCHANGED <<process, env, watch, store, missed>>

\* The informer's first list: an Add, if the map is there, and no handler for it.
InformerLists ==
    /\ watch = "listing"
    /\ watch' = "on"
    /\ store' = cm
    /\ missed' = (cm \in Lists /\ cm # env)
    /\ UNCHANGED <<process, cm, env, changes>>

\* Mutant of updateSubnetList: it is the old list that must not be empty.
UpdateOfNonEmptyList(old, new) == IF old # Empty /\ new # old THEN new ELSE env

\* Mutant of updateSubnetList: the two objects are swapped.
UpdateToOldList(old, new) == IF new # Empty /\ new # old THEN old ELSE env

updateSubnetList(old, new) == IF new # Empty /\ new # old THEN new ELSE env

\* Mutant of InformerUpdates: an Add and a Delete are handled like an Update.
InformerUpdatesAlways ==
    /\ watch = "on" /\ store # cm
    /\ store' = cm
    /\ env' = updateSubnetList(store, cm)
    /\ missed' = FALSE
    /\ UNCHANGED <<process, cm, watch, changes>>

\* The informer learns the map's present value, which may be several changes away
\* from the one it has.  A map that appeared or disappeared is an Add or a Delete,
\* without a handler; else it is an Update.
InformerUpdates ==
    /\ watch = "on" /\ store # cm
    /\ store' = cm
    /\ IF Absent \in {store, cm}
         THEN env' = env /\ missed' = (cm \in Lists /\ cm # env)
         ELSE /\ env' = updateSubnetList(store, cm)
              /\ missed' = (missed /\ cm = Empty)
    /\ UNCHANGED <<process, cm, watch, changes>>

-----------------------------------------------------------------------------

Starts ==
    \/ ContainerStarts \/ Initialises \/ GetProviderSession \/ FindProfile
    \/ NewStunnelManager \/ WatchClusterConfigMap
    \/ RemoveOldSocket \/ Listen \/ SetupSidecar

Works ==
    \/ Starts \/ InitialiseFails \/ ListenFails
    \/ ServeFails \/ Terminates \/ ProcessDies
    \/ \E v \in Lists \cup {Empty, Absent} : MapChanges(v)
    \/ InformerLists \/ InformerUpdates

OutageEnds == outage /\ outage' = FALSE /\ UNCHANGED <<process, config>>

Next == (Works /\ UNCHANGED outage) \/ OutageEnds

Spec == Init /\ [][Next]_vars

-----------------------------------------------------------------------------
(* Properties *)

\* The subnets CreateVolume will choose from are those of the map the informer
\* knows, however often it was changed, emptied, deleted and created again, unless
\* what the informer knows came with an Add, which has no handler.
SubnetListIsCurrent ==
    watch = "on" /\ store \in Lists => env = store \/ missed

\* Liveness: kubelet starts the container again, the process and the informer run
\* on, a process that serves nothing is terminated by its liveness probe, and
\* there is a time after which nothing fails any more.

Fairness ==
    /\ WF_vars(UNCHANGED outage /\ (Starts \/ InitialiseFails \/ ListenFails))
    /\ WF_vars(UNCHANGED outage /\ proc = "stuck" /\ Terminates)
    /\ WF_vars(UNCHANGED outage /\ (InformerLists \/ InformerUpdates))
    /\ WF_vars(OutageEnds)

FairSpec == Spec /\ Fairness

\* A change of the map reaches a process that knew the map before, unless the
\* process ends or the map changes again first.
SubnetListCatchesUp ==
    \A v \in Lists :
        (watch = "on" /\ store \notin {v, Absent} /\ cm = v)
            ~> (env = v \/ cm # v \/ watch = "off")

\* The plugin always serves again: neither a socket file that a dead process left,
\* nor a server that stopped in a process that lives on, nor a set-up without
\* session or tunnel manager keeps it away; only a controller without the map its
\* environment is taken from waits.
ServesAgain == []<>(proc = "serve" \/ (role = "controller" /\ cm = Absent))
=============================================================================
