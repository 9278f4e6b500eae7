---------------------------- MODULE VolumeRequest ----------------------------
(***************************************************************************)
(* What becomes of the parameters of a volume: getVolumeParameters and     *)
(* overrideParams (pkg/ibmcsidriver/controller_helper.go) read them, the   *)
(* rest of CreateVolume places the share and its access point, the volume  *)
(* context of the response carries the result to the node, and             *)
(* NodePublishVolume chooses how to mount the share.                       *)
(*                                                                         *)
(* Parameters and secrets are Go maps: their keys are visited in any order *)
(* and the first error ends the call.  A call that fails after the share   *)
(* was created is repeated with the same parameters, but meanwhile the     *)
(* scheduler may prefer another zone and the cluster's subnet list may     *)
(* have changed.                                                           *)
(*                                                                         *)
(* A value is told apart only as far as the code does: "p" and "s" are     *)
(* proper values of a parameter and of a secret, "" is an empty one, "bad" *)
(* one that is too long, no number or no Boolean.                          *)
(***************************************************************************)
EXTENDS Naturals

CONSTANTS
    Requests,     \* the requests: records of params, secrets, range and source
    Topologies,   \* the zones that can be preferred; "" if none is
    SubnetLists,  \* values of VPC_SUBNET_IDS: zone -> subnet or ""
    rfsEnabled,   \* whether the account may use the RFS profile
    MaxAttempts,  \* bound on the number of times a request is made
    Nothing       \* no size given, no share, no response

VARIABLES
    req,             \* the CreateVolumeRequest, but for its topology
    topology, list,  \* the preferred zone and VPC_SUBNET_IDS of this attempt
    attempts,
    step, todo,      \* the next step and the keys its loop has yet to visit
    vol,             \* requestedVolume
    share, ap,       \* the share, and the subnet or IP of its access point
    context,         \* the volume context of the response
    mount            \* how the node mounts the share

request == <<req, topology, list, attempts>>
backend == <<share, ap>>
vars    == <<request, step, todo, vol, backend, context, mount>>

\* The parameters a secret may override, and the others the driver knows.
PrimaryIPs == {"primaryIPID", "primaryIPAddress"}
Booleans   == {"isENIEnabled", "isEITEnabled", "encrypted"}
Replacing  == {"zone", "region", "resourceGroup"}
Keeping    == {"securityGroupIDs", "subnetID", "encryptionKey", "iops", "throughput"}
Owner      == {"uid", "gid"}
InfoOnly   == {"billingType", "classVersion", "sizeRange", "sizeIOPSRange",
               "generation", "vmState"}
Secrets    == PrimaryIPs \cup Booleans \cup Replacing \cup Keeping \cup {"tags"}
Parameters == Secrets \cup Owner \cup InfoOnly \cup {"profile"}

\* Sizes are natural numbers, and what is no Boolean is a "bad" value of the
\* parameters that are parsed as one.
ASSUME RequestAssumption ==
    /\ rfsEnabled \in BOOLEAN
    /\ MaxAttempts \in Nat \ {0}
    /\ \A r \in Requests :
         /\ r.range # Nothing => r.range \in [required : Nat, limit : Nat]
         /\ \A k \in Booleans \cap DOMAIN r.params : r.params[k] \in {"true", "false", "bad"}
         /\ \A k \in Booleans \cap DOMAIN r.secrets : r.secrets[k] \in {"true", "false", "bad"}

\* provider.Volume: the parameters it holds as they are, and what the others
\* are turned into.
NewVolume ==
    [profile |-> "", zone |-> "", region |-> "", resourceGroup |-> "",
     securityGroupIDs |-> "", subnetID |-> "", encryptionKey |-> "",
     iops |-> "", throughput |-> "", tags |-> {},
     mode |-> "security_group", transit |-> "", encrypt |-> "undef",
     primaryIP |-> "", owner |-> FALSE, capacity |-> 0]

Init ==
    /\ req \in Requests /\ topology \in Topologies /\ list \in SubnetLists
    /\ attempts = 1
    /\ step = "params" /\ todo = DOMAIN req.params /\ vol = NewVolume
    /\ share = Nothing /\ ap = Nothing /\ context = Nothing /\ mount = Nothing

-----------------------------------------------------------------------------
(* getVolumeParameters and overrideParams: one iteration of their loops *)

\* Mutant of Rejected: a second primary IP replaces the first.
RejectedButIP(v, keys, k, x) == k \notin keys \/ x = "bad"

\* Value x of key k is an error.  Only a secret's IOPS are parsed.
Rejected(v, keys, k, x) ==
    \/ k \notin keys
    \/ x = "bad" /\ ~(k = "iops" /\ keys = Parameters)
    \/ k \in PrimaryIPs /\ x # "" /\ v.primaryIP # ""

Assigned(v, k, x) ==
    CASE k = "profile" \/ k \in Replacing      -> [v EXCEPT ![k] = x]
      [] k \in Keeping /\ x # ""               -> [v EXCEPT ![k] = x]
      [] k = "tags" /\ x # ""                  -> [v EXCEPT !.tags = @ \cup {x}]
      [] k \in PrimaryIPs /\ x # ""            -> [v EXCEPT !.primaryIP = k]
      [] k \in Owner /\ x # "0"                -> [v EXCEPT !.owner = TRUE]
      [] k = "encrypted"                       -> [v EXCEPT !.encrypt = x]
      [] k = "isENIEnabled" /\ x = "true"      -> [v EXCEPT !.mode = "security_group"]
      [] k = "isENIEnabled" /\ x = "false"     -> [v EXCEPT !.mode = "vpc"]
      [] k = "isEITEnabled" /\ x = "true"      -> [v EXCEPT !.transit = "user_managed"]
      [] OTHER                                 -> v

Refuse == step' = "refused" /\ todo' = {} /\ UNCHANGED vol

Visit(keys, given) ==
    /\ \E k \in todo :
         IF Rejected(vol, keys, k, given[k])
           THEN Refuse
           ELSE /\ vol' = Assigned(vol, k, given[k])
                /\ todo' = todo \ {k}
                /\ UNCHANGED step
    /\ UNCHANGED <<request, backend, context, mount>>

VisitParameter == step = "params" /\ Visit(Parameters, req.params)
VisitSecret    == step = "secrets" /\ Visit(Secrets, req.secrets)

\* encrypted: false drops the encryption key.  Each loop has its own variable.
DropKey(v) ==
    [v EXCEPT !.encrypt = "undef",
              !.encryptionKey = IF v.encrypt = "false" THEN "" ELSE @]

-----------------------------------------------------------------------------
(* getRequestedCapacity, in units of half a GiB; 0 is an error *)

GiB == 2
MinimumVolumeSizeInBytes    == 10 * GiB
MinimumRFSVolumeSizeInBytes == GiB

\* External: utils.RoundUpBytes gives whole GiB, and at least one;
\* utils.BytesToGiB drops what is less than a GiB.
RoundUpBytes(b) == IF b = 0 THEN GiB ELSE ((b + GiB - 1) \div GiB) * GiB
BytesToGiB(b)   == b \div GiB

\* The smallest size, and the sizes a limit rules out.
Least(profile) == IF profile = "rfs" THEN MinimumRFSVolumeSizeInBytes
                                     ELSE MinimumVolumeSizeInBytes
OverLimit(range) ==
    range.limit > 0 /\ \/ range.limit < range.required
                       \/ range.limit < MinimumVolumeSizeInBytes

\* Mutant of getRequestedCapacity: the size is not rounded up.
CapacityNotRounded(range, profile) ==
    IF range = Nothing THEN Least(profile)
    ELSE IF OverLimit(range) THEN 0
    ELSE IF range.required < Least(profile) THEN Least(profile) ELSE range.required

getRequestedCapacity(range, profile) ==
    IF range = Nothing THEN Least(profile)
    ELSE IF OverLimit(range) THEN 0
    ELSE IF RoundUpBytes(range.required) < Least(profile)
      THEN Least(profile) ELSE RoundUpBytes(range.required)

\* After the first loop: key, owner (a restored snapshot brings its own),
\* profile and capacity.
ParametersRead ==
    LET v    == DropKey(vol)
        size == getRequestedCapacity(req.range, v.profile)
    IN  /\ step = "params" /\ todo = {}
        /\ IF v.profile = "" \/ size = 0
             THEN Refuse
             ELSE /\ vol' = [v EXCEPT !.capacity = BytesToGiB(size),
                                      !.owner = @ /\ req.source # "snapshot"]
                  /\ step' = "secrets" /\ todo' = DOMAIN req.secrets
        /\ UNCHANGED <<request, backend, context, mount>>

-----------------------------------------------------------------------------
(* The checks at the end of getVolumeParameters *)

\* The conditions under which a volume v is refused, in the order of the code.
Unsupported(v) ==
    \/ /\ v.mode = "security_group"
       /\ \/ /\ v.profile = "dp2" /\ (v.zone = "" \/ v.region = "")
             /\ v.subnetID # "" \/ v.primaryIP # ""
          \/ v.subnetID = "" /\ v.primaryIP = "primaryIPAddress"
    \/ v.transit # "" /\ v.mode # "security_group"
    \/ v.profile = "dp2" /\ v.throughput \notin {"", "0"}
    \/ v.profile = "rfs" /\ (v.iops # "" \/ v.zone # "")
    \/ v.profile = "dp2" /\ v.zone = "" /\ topology = ""

\* Mutant of TransitEncryption: only dp2 volumes are encrypted.
TransitOfDp2(v) == IF v.transit # "" /\ v.profile = "dp2" THEN "ipsec" ELSE "none"

TransitEncryption(v) ==
    CASE v.transit # "" /\ v.profile = "dp2" -> "ipsec"
      [] v.transit # "" /\ v.profile = "rfs" -> "stunnel"
      [] OTHER                               -> "none"

\* A dp2 volume without a zone gets zone and region of the preferred topology,
\* a volume without a resource group the one of the configuration.
Completed(v) ==
    LET picks == v.profile = "dp2" /\ v.zone = ""
    IN  [v EXCEPT !.zone = IF picks THEN topology ELSE @,
                  !.region = IF picks THEN "topology" ELSE @,
                  !.resourceGroup = IF @ = "" THEN "config" ELSE @,
                  !.transit = TransitEncryption(v)]

\* The end of overrideParams and getVolumeParameters; CreateVolume then checks
\* the profile's allowance and the content source.
SecretsRead ==
    LET v == DropKey(vol)
    IN  /\ step = "secrets" /\ todo = {}
        /\ IF Unsupported(v)
             THEN Refuse
             ELSE /\ vol' = Completed(v)
                  /\ step' = IF \/ v.profile = "rfs" /\ ~rfsEnabled
                                \/ req.source = "volume"
                               THEN "rejected" ELSE "network"
                  /\ UNCHANGED todo
        /\ UNCHANGED <<request, backend, context, mount>>

-----------------------------------------------------------------------------
(* The rest of CreateVolume; the share is looked up by name *)

\* External: GetSubnetForVolumeAccessPoint chooses one of the cluster's subnets,
\* in the zone if there is one.
SubnetsFor(z) ==
    {list[y] : y \in {y \in DOMAIN list : z \in {"", y}}} \ {""}

\* Subnet and security group of the access point.  A security group that is not
\* found is left to the backend.
FindNetwork ==
    /\ step = "network"
    /\ IF share # Nothing /\ share.capacity # vol.capacity
         THEN step' = "rejected" /\ UNCHANGED vol
       ELSE IF vol.mode = "security_group" /\ vol.subnetID = "" /\ vol.primaryIP # "primaryIPID"
         THEN IF SubnetsFor(vol.zone) = {}
                THEN step' = "rejected" /\ UNCHANGED vol
                ELSE /\ \E n \in SubnetsFor(vol.zone) : vol' = [vol EXCEPT !.subnetID = n]
                     /\ step' = "create"
       ELSE step' = "create" /\ UNCHANGED vol
    /\ UNCHANGED <<request, todo, backend, context, mount>>

\* External: the backend knows only its own profiles.
ProfileExists(v) == v.profile \in {"dp2", "rfs"}

AccessPointOf(v) == [subnetID |-> v.subnetID, primaryIP |-> v.primaryIP, mode |-> v.mode]

\* session.CreateVolume, with the access point or, rarely, without.
CreateShare ==
    /\ step = "create" /\ share = Nothing /\ ProfileExists(vol)
    /\ share' = vol
    /\ ap' \in {Nothing, AccessPointOf(vol)}
    /\ step' = "accesspoint"
    /\ UNCHANGED <<request, todo, vol, context, mount>>

CreateShareFails ==
    /\ step = "create" /\ share = Nothing /\ ~ProfileExists(vol)
    /\ step' = "rejected"
    /\ UNCHANGED <<request, todo, vol, backend, context, mount>>

ShareFound ==
    /\ step = "create" /\ share # Nothing
    /\ step' = "accesspoint"
    /\ UNCHANGED <<request, todo, vol, backend, context, mount>>

CreateAccessPoint ==
    /\ step = "accesspoint" /\ ap = Nothing
    /\ ap' = AccessPointOf(vol)
    /\ UNCHANGED <<request, step, todo, vol, share, context, mount>>

\* A call on the backend fails after the share was created, or its answer is
\* lost.
CallFails ==
    /\ step = "accesspoint"
    /\ step' = "failed"
    /\ UNCHANGED <<request, todo, vol, backend, context, mount>>

\* The requested region, else the driver's own.
RegionOf(v) == IF v.region = "" THEN "driver" ELSE v.region

\* Mutant of createCSIVolumeResponse: the volume context is that of the request.
ContextOfRequest(s, v) ==
    [profile |-> v.profile, region |-> RegionOf(v), capacity |-> v.capacity,
     isENIEnabled |-> v.mode # "vpc", zone |-> IF v.mode = "vpc" THEN v.zone ELSE "",
     subnet |-> IF v.mode = "vpc" THEN "" ELSE v.subnetID,
     isEITEnabled |-> v.transit \in {"ipsec", "stunnel"}]

\* The volume context for share s and requested volume v: access mode, transit
\* encryption and subnet are those of the request, and so is the region; the
\* zone is named only in VPC mode, when pods must run in it.
createCSIVolumeResponse(s, v) ==
    [profile |-> s.profile, region |-> RegionOf(v), capacity |-> v.capacity,
     isENIEnabled |-> v.mode # "vpc", zone |-> IF v.mode = "vpc" THEN s.zone ELSE "",
     subnet |-> IF v.mode = "vpc" THEN "" ELSE v.subnetID,
     isEITEnabled |-> v.transit \in {"ipsec", "stunnel"}]

Respond ==
    /\ step = "accesspoint" /\ ap # Nothing
    /\ context' = createCSIVolumeResponse(share, vol)
    /\ step' = "done"
    /\ UNCHANGED <<request, todo, vol, backend, mount>>

\* The sidecar repeats a call that failed.
Retry ==
    /\ step = "failed" /\ attempts < MaxAttempts
    /\ attempts' = attempts + 1
    /\ topology' \in Topologies /\ list' \in SubnetLists
    /\ step' = "params" /\ todo' = DOMAIN req.params /\ vol' = NewVolume
    /\ UNCHANGED <<req, backend, context, mount>>

-----------------------------------------------------------------------------
(* NodePublishVolume: the kind of mount its volume context leads to *)

MountKind(c) ==
    CASE c.isEITEnabled /\ c.profile = "dp2" -> "ipsec"
      [] c.isEITEnabled /\ c.profile = "rfs" -> "stunnel"
      [] OTHER                               -> "none"

NodePublish ==
    /\ step = "done" /\ mount = Nothing
    /\ mount' = MountKind(context)
    /\ UNCHANGED <<request, step, todo, vol, backend, context>>

Next ==
    \/ VisitParameter \/ ParametersRead \/ VisitSecret \/ SecretsRead
    \/ FindNetwork \/ CreateShare \/ CreateShareFails \/ ShareFound
    \/ CreateAccessPoint \/ CallFails \/ Respond \/ Retry
    \/ NodePublish

Spec == Init /\ [][Next]_vars

-----------------------------------------------------------------------------
(* Properties *)

Given(k)  == k \in DOMAIN req.params /\ req.params[k] # ""
Secret(k) == k \in DOMAIN req.secrets /\ req.secrets[k] # ""

\* The value that counts: the secret's if there is one, also an empty one where
\* empty values replace.
Value(k) ==
    IF Secret(k) \/ (k \in DOMAIN req.secrets /\ k \in Replacing) THEN req.secrets[k]
    ELSE IF Given(k) THEN req.params[k]
    ELSE ""

Asks(k) == "true" \in {req.params[j] : j \in {k} \cap DOMAIN req.params}
                 \cup {req.secrets[j] : j \in {k} \cap DOMAIN req.secrets}

\* What the storage class and its secret may ask for, regardless of any order.
WellFormed ==
    /\ DOMAIN req.params \subseteq Parameters /\ DOMAIN req.secrets \subseteq Secrets
    /\ \A k \in DOMAIN req.params : req.params[k] = "bad" => k = "iops"
    /\ \A k \in DOMAIN req.secrets : req.secrets[k] # "bad"
    /\ Given("profile")
    /\ \A j, k \in PrimaryIPs :
         /\ Given(j) /\ Given(k) => j = k
         /\ Secret(j) /\ Secret(k) => j = k
         /\ ~(Given(j) /\ Secret(k))

Allowed ==
    LET eni   == Value("isENIEnabled") # "false"
        given == {k \in {"subnetID"} \cup PrimaryIPs : Given(k) \/ Secret(k)}
    IN  /\ WellFormed
        /\ req.range # Nothing /\ req.range.limit > 0 =>
             req.range.required <= req.range.limit /\ MinimumVolumeSizeInBytes <= req.range.limit
        /\ Asks("isEITEnabled") => eni
        /\ eni /\ "primaryIPAddress" \in given => "subnetID" \in given
        /\ Value("profile") = "dp2" =>
             /\ Value("throughput") \in {"", "0"}
             /\ eni /\ given # {} => Value("zone") # "" /\ Value("region") # ""
             /\ Value("zone") # "" \/ topology # ""
        /\ Value("profile") = "rfs" => Value("iops") = "" /\ Value("zone") = ""

\* The answer depends on the request alone, not on the order in which the maps
\* are visited: a request is accepted if and only if it keeps the rules, and a
\* secret takes precedence over the parameter of the same name.
OrderDoesNotMatter ==
    /\ step = "refused" => ~Allowed
    /\ step \notin {"params", "secrets", "refused"} =>
         /\ Allowed
         /\ vol.profile = Value("profile")
         /\ Value("zone") # "" => vol.zone = Value("zone") /\ vol.region = Value("region")
         /\ Value("subnetID") # "" => vol.subnetID = Value("subnetID")
         /\ vol.mode = IF Value("isENIEnabled") = "false" THEN "vpc" ELSE "security_group"

\* The share is as large as was asked for, and exceeds that, or the limit, by
\* less than a GiB unless the profile's minimum makes it larger.
CapacityFits ==
    share # Nothing /\ req.range # Nothing =>
        LET size == share.capacity * GiB
        IN  /\ req.range.required <= size
            /\ size < req.range.required + GiB \/ size = Least(share.profile)
            /\ req.range.limit > 0 => size < req.range.limit + GiB
            /\ Least(share.profile) <= size

\* Encryption in transit that was asked for is what the node uses, and the node
\* mounts the share in the one mode the share allows, through validation,
\* creation, retries and the volume context.
EncryptedInTransit ==
    mount # Nothing =>
        /\ Asks("isEITEnabled") <=> mount # "none"
        /\ mount = share.transit

\* The volume context describes the share there is, also when a retry found it
\* and the scheduler meanwhile prefers another zone: pods are bound to the zone
\* of the share, and mount it by its own profile and capacity.
ContextDescribesShare ==
    context # Nothing =>
        /\ context.profile = share.profile
        /\ context.capacity = share.capacity
        /\ context.isENIEnabled <=> ap.mode = "security_group"
        /\ ~context.isENIEnabled => context.zone = share.zone
=============================================================================
