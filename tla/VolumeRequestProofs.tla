-------------------------- MODULE VolumeRequestProofs --------------------------
(***************************************************************************)
(* Proofs about the parameters of a volume, for every set of requests,     *)
(* preferred zones and subnet lists and any number of attempts: the order  *)
(* in which the maps are visited does not matter, and size, transit        *)
(* encryption and volume context are what the request asks for.            *)
(***************************************************************************)
EXTENDS VolumeRequest, TLAPS

-----------------------------------------------------------------------------
(* The operators *)

Fields == DOMAIN NewVolume

LEMMA FieldNames ==
  Fields = {"profile", "zone", "region", "resourceGroup", "securityGroupIDs", "subnetID",
            "encryptionKey", "iops", "throughput", "tags", "mode", "transit", "encrypt",
            "primaryIP", "owner", "capacity"}
BY DEF Fields, NewVolume

\* What one key changes.
Assigns(w, v, k, x) ==
    /\ DOMAIN w = Fields
    /\ w.capacity = v.capacity
    /\ w.profile = IF k = "profile" THEN x ELSE v.profile
    /\ \A f \in Replacing : w[f] = IF k = f THEN x ELSE v[f]
    /\ \A f \in Keeping : w[f] = IF k = f /\ x # "" THEN x ELSE v[f]
    /\ w.mode = IF k = "isENIEnabled" /\ x = "true" THEN "security_group"
                ELSE IF k = "isENIEnabled" /\ x = "false" THEN "vpc" ELSE v.mode
    /\ w.transit = IF k = "isEITEnabled" /\ x = "true" THEN "user_managed" ELSE v.transit
    /\ w.primaryIP = IF k \in PrimaryIPs /\ x # "" THEN k ELSE v.primaryIP

LEMMA AssignedFields ==
  ASSUME NEW v, DOMAIN v = Fields, NEW k, NEW x
  PROVE  Assigns(Assigned(v, k, x), v, k, x)
BY FieldNames, Zenon DEF Assigns, Assigned, Replacing, Keeping, PrimaryIPs, Owner

\* What the end of a loop changes.
LEMMA DropKeyFields ==
  ASSUME NEW v, DOMAIN v = Fields
  PROVE  /\ DOMAIN DropKey(v) = Fields
         /\ \A f \in Fields \ {"encrypt", "encryptionKey"} : DropKey(v)[f] = v[f]
BY FieldNames DEF DropKey

LEMMA CapacityOfRange ==
  ASSUME NEW range \in [required : Nat, limit : Nat], range # Nothing, NEW profile,
         getRequestedCapacity(range, profile) # 0
  PROVE  LET size == BytesToGiB(getRequestedCapacity(range, profile)) * GiB
         IN  /\ range.required <= size
             /\ size < range.required + GiB \/ size = Least(profile)
             /\ range.limit > 0 => size < range.limit + GiB
             /\ Least(profile) <= size
BY DEF getRequestedCapacity, OverLimit, Least, RoundUpBytes, BytesToGiB, GiB,
   MinimumVolumeSizeInBytes, MinimumRFSVolumeSizeInBytes

\* Only a limit makes a size an error.
LEMMA NoCapacity ==
  ASSUME NEW range, range # Nothing => range \in [required : Nat, limit : Nat], NEW profile
  PROVE  getRequestedCapacity(range, profile) = 0 <=> range # Nothing /\ OverLimit(range)
BY DEF getRequestedCapacity, OverLimit, Least, RoundUpBytes, GiB,
   MinimumVolumeSizeInBytes, MinimumRFSVolumeSizeInBytes

LEMMA TransitKinds ==
  ASSUME NEW v
  PROVE  /\ v.transit = "" => TransitEncryption(v) = "none"
         /\ v.transit # "" /\ v.profile = "dp2" => TransitEncryption(v) = "ipsec"
         /\ v.transit # "" /\ v.profile = "rfs" => TransitEncryption(v) = "stunnel"
         /\ v.profile \notin {"dp2", "rfs"} => TransitEncryption(v) = "none"
BY Zenon DEF TransitEncryption

LEMMA MountKinds ==
  ASSUME NEW c
  PROVE  /\ ~c.isEITEnabled => MountKind(c) = "none"
         /\ c.isEITEnabled /\ c.profile = "dp2" => MountKind(c) = "ipsec"
         /\ c.isEITEnabled /\ c.profile = "rfs" => MountKind(c) = "stunnel"
BY Zenon DEF MountKind

-----------------------------------------------------------------------------
(* The loops: what the keys visited so far have made of the volume *)

VisitedParam(k)  == k \in DOMAIN req.params /\ (step = "params" => k \notin todo)
VisitedSecret(k) ==
    k \in DOMAIN req.secrets /\ step # "params" /\ (step = "secrets" => k \notin todo)

ParamSet(k)  == VisitedParam(k) /\ req.params[k] # ""
SecretSet(k) == VisitedSecret(k) /\ req.secrets[k] # ""

\* The keys visited were accepted.
Accepted ==
    /\ \A k \in DOMAIN req.params :
         VisitedParam(k) => k \in Parameters /\ (req.params[k] = "bad" => k = "iops")
    /\ \A k \in DOMAIN req.secrets :
         VisitedSecret(k) => k \in Secrets /\ req.secrets[k] # "bad"
    /\ \A j, k \in PrimaryIPs :
         /\ ParamSet(j) /\ ParamSet(k) => j = k
         /\ SecretSet(j) /\ SecretSet(k) => j = k
         /\ ~(ParamSet(j) /\ SecretSet(k))

OneIP ==
    /\ vol.primaryIP \in PrimaryIPs \cup {""}
    /\ \A k \in PrimaryIPs : vol.primaryIP = k <=> ParamSet(k) \/ SecretSet(k)

\* The volume holds the values of the keys visited; later ones do not undo them.
Held ==
    /\ DOMAIN vol = Fields
    /\ vol.profile = IF VisitedParam("profile") THEN req.params["profile"] ELSE ""
    /\ \A f \in Replacing :
         vol[f] = IF VisitedSecret(f) THEN req.secrets[f]
                  ELSE IF VisitedParam(f) THEN req.params[f] ELSE ""
    /\ \A f \in Keeping \ {"encryptionKey"} :
         vol[f] = IF SecretSet(f) THEN req.secrets[f]
                  ELSE IF ParamSet(f) THEN req.params[f] ELSE ""
    /\ vol.mode = IF VisitedSecret("isENIEnabled")
                    THEN IF req.secrets["isENIEnabled"] = "false" THEN "vpc" ELSE "security_group"
                  ELSE IF VisitedParam("isENIEnabled") /\ req.params["isENIEnabled"] = "false"
                    THEN "vpc" ELSE "security_group"
    /\ vol.transit = IF \/ VisitedParam("isEITEnabled") /\ req.params["isEITEnabled"] = "true"
                        \/ VisitedSecret("isEITEnabled") /\ req.secrets["isEITEnabled"] = "true"
                     THEN "user_managed" ELSE ""
    /\ OneIP

\* The size was computed when the parameters had been read.
SizeHeld ==
    /\ vol.profile # "" /\ getRequestedCapacity(req.range, vol.profile) # 0
    /\ vol.capacity = BytesToGiB(getRequestedCapacity(req.range, vol.profile))

LoopInv ==
    /\ req \in Requests
    /\ step \in {"params", "secrets"} =>
         /\ todo \subseteq IF step = "params" THEN DOMAIN req.params ELSE DOMAIN req.secrets
         /\ Accepted /\ Held
    /\ step = "secrets" => SizeHeld

-----------------------------------------------------------------------------
(* After the loops *)

\* The transit encryption the request asks for, given its profile.
Transit ==
    IF ~Asks("isEITEnabled") THEN "none"
    ELSE IF Value("profile") = "dp2" THEN "ipsec"
    ELSE IF Value("profile") = "rfs" THEN "stunnel" ELSE "none"

Mode == IF Value("isENIEnabled") = "false" THEN "vpc" ELSE "security_group"

\* A volume with all that the request determines.
AsRequested(v) ==
    /\ v.profile = Value("profile") /\ v.transit = Transit /\ v.mode = Mode
    /\ getRequestedCapacity(req.range, v.profile) # 0
    /\ v.capacity = BytesToGiB(getRequestedCapacity(req.range, v.profile))

Placed ==
    /\ Value("zone") # "" => vol.zone = Value("zone") /\ vol.region = Value("region")
    /\ Value("subnetID") # "" => vol.subnetID = Value("subnetID")

AfterInv ==
    /\ step = "refused" => ~Allowed
    /\ step \notin {"params", "secrets", "refused"} =>
         DOMAIN vol = Fields /\ Allowed /\ AsRequested(vol) /\ Placed

ShareInv ==
    /\ share # Nothing \/ step \in {"accesspoint", "failed", "done"} =>
         AsRequested(share) /\ ProfileExists(share)
    /\ ap # Nothing => ap.mode = Mode

DoneInv ==
    /\ step = "done" => ap # Nothing /\ context = createCSIVolumeResponse(share, vol)
    /\ context # Nothing => step = "done"
    /\ mount # Nothing => step = "done" /\ mount = MountKind(context)

RequestInv == LoopInv /\ AfterInv /\ ShareInv /\ DoneInv

LEMMA VisitParameterStep ==
  ASSUME LoopInv, VisitParameter
  PROVE  LoopInv'
<1>1. step = "params" /\ UNCHANGED req /\ Accepted /\ Held /\ todo \subseteq DOMAIN req.params
  BY DEF VisitParameter, Visit, request, LoopInv
<1>2. CASE Refuse
  BY <1>1, <1>2 DEF LoopInv, Refuse
<1>3. CASE ~Refuse
  <2>1. PICK k \in todo : /\ ~Rejected(vol, Parameters, k, req.params[k])
                          /\ vol' = Assigned(vol, k, req.params[k])
                          /\ todo' = todo \ {k} /\ step' = step
    BY <1>3 DEF VisitParameter, Visit
  <2>2. /\ k \in Parameters /\ (req.params[k] = "bad" => k = "iops")
        /\ k \in PrimaryIPs /\ req.params[k] # "" => vol.primaryIP = ""
    BY <2>1 DEF Rejected
  <2>3. /\ \A j : VisitedParam(j)' <=> VisitedParam(j) \/ j = k
        /\ ~VisitedParam(k) /\ \A j : ~VisitedSecret(j) /\ ~VisitedSecret(j)'
    BY <1>1, <2>1 DEF VisitedParam, VisitedSecret
  <2>4. /\ \A j : ParamSet(j)' <=> ParamSet(j) \/ (j = k /\ req.params[k] # "")
        /\ ~ParamSet(k) /\ \A j : ~SecretSet(j) /\ ~SecretSet(j)'
    BY <1>1, <2>3 DEF ParamSet, SecretSet
  <2>5. k \in Booleans => req.params[k] \in {"true", "false"}
    BY <1>1, <2>1, <2>2, RequestAssumption DEF LoopInv, Booleans
  <2>6. Assigns(vol', vol, k, req.params[k])
    BY <1>1, <2>1, AssignedFields DEF Held
  <2>10. OneIP /\ "" \notin PrimaryIPs
    BY <1>1 DEF Held, PrimaryIPs
  <2>7. Accepted'
    <3>1. \A j \in DOMAIN req.params :
            VisitedParam(j)' => j \in Parameters /\ (req.params[j] = "bad" => j = "iops")
      BY <1>1, <2>2, <2>3 DEF Accepted
    <3>2. ASSUME NEW i \in PrimaryIPs, NEW j \in PrimaryIPs, ParamSet(i)', ParamSet(j)'
          PROVE  i = j
      <4>1. CASE i # k /\ j # k
        BY <2>4, <2>10, <3>2, <4>1 DEF OneIP
      <4>2. CASE i = k /\ j # k
        BY <2>2, <2>4, <2>10, <3>2, <4>2 DEF OneIP
      <4>3. CASE i # k /\ j = k
        BY <2>2, <2>4, <2>10, <3>2, <4>3 DEF OneIP
      <4> QED
        BY <4>1, <4>2, <4>3
    <3> QED
      BY <1>1, <2>3, <2>4, <3>1, <3>2 DEF Accepted
  <2>8. Held'
    <3>1. /\ vol'.profile = IF VisitedParam("profile")' THEN req.params["profile"] ELSE ""
          /\ \A f \in Replacing : vol'[f] = IF VisitedParam(f)' THEN req.params[f] ELSE ""
      BY <1>1, <2>3, <2>6 DEF Assigns, Held
    <3>2. \A f \in Keeping \ {"encryptionKey"} :
             vol'[f] = IF ParamSet(f)' THEN req.params[f] ELSE ""
      BY <1>1, <2>4, <2>6 DEF Assigns, Held
    <3>3. vol'.mode = IF VisitedParam("isENIEnabled")' /\ req.params["isENIEnabled"] = "false"
                        THEN "vpc" ELSE "security_group"
      BY <1>1, <2>3, <2>5, <2>6 DEF Assigns, Held, Booleans
    <3>4. vol'.transit = IF VisitedParam("isEITEnabled")' /\ req.params["isEITEnabled"] = "true"
                           THEN "user_managed" ELSE ""
      BY <1>1, <2>3, <2>6 DEF Assigns, Held
    <3>5. OneIP'
      <4>1. CASE k \in PrimaryIPs /\ req.params[k] # ""
        <5>1. vol'.primaryIP = k /\ \A j \in PrimaryIPs : ~ParamSet(j) /\ ~SecretSet(j)
          BY <2>2, <2>6, <2>10, <4>1 DEF Assigns, OneIP
        <5> QED
          BY <2>4, <4>1, <5>1 DEF OneIP
      <4>2. CASE ~(k \in PrimaryIPs /\ req.params[k] # "")
        <5>1. vol'.primaryIP = vol.primaryIP
          BY <2>6, <4>2 DEF Assigns
        <5>2. \A j \in PrimaryIPs : (ParamSet(j) \/ SecretSet(j)) <=> (ParamSet(j)' \/ SecretSet(j)')
          BY <2>4, <4>2
        <5> QED
          BY <2>10, <5>1, <5>2 DEF OneIP
      <4> QED
        BY <4>1, <4>2
    <3> QED
      BY <1>1, <2>3, <2>4, <2>6, <3>1, <3>2, <3>3, <3>4, <3>5 DEF Assigns, Held
  <2> QED
    BY <1>1, <2>1, <2>7, <2>8 DEF LoopInv
<1> QED
  BY <1>2, <1>3

LEMMA VisitSecretStep ==
  ASSUME LoopInv, VisitSecret
  PROVE  LoopInv'
<1>1. /\ step = "secrets" /\ UNCHANGED req /\ todo \subseteq DOMAIN req.secrets
      /\ Accepted /\ Held /\ SizeHeld
  BY DEF VisitSecret, Visit, request, LoopInv
<1>2. CASE Refuse
  BY <1>1, <1>2 DEF LoopInv, Refuse
<1>3. CASE ~Refuse
  <2>1. PICK k \in todo : /\ ~Rejected(vol, Secrets, k, req.secrets[k])
                          /\ vol' = Assigned(vol, k, req.secrets[k])
                          /\ todo' = todo \ {k} /\ step' = step
    BY <1>3 DEF VisitSecret, Visit
  <2>0. "profile" \in Parameters /\ "profile" \notin Secrets
    BY DEF Parameters, Secrets, PrimaryIPs, Booleans, Replacing, Keeping
  <2>2. /\ k \in Secrets /\ req.secrets[k] # "bad" /\ k # "profile"
        /\ k \in PrimaryIPs /\ req.secrets[k] # "" => vol.primaryIP = ""
    BY <2>0, <2>1 DEF Rejected
  <2>3. /\ \A j : VisitedSecret(j)' <=> VisitedSecret(j) \/ j = k
        /\ ~VisitedSecret(k) /\ \A j : VisitedParam(j)' <=> VisitedParam(j)
    BY <1>1, <2>1 DEF VisitedParam, VisitedSecret
  <2>4. /\ \A j : SecretSet(j)' <=> SecretSet(j) \/ (j = k /\ req.secrets[k] # "")
        /\ ~SecretSet(k) /\ \A j : ParamSet(j)' <=> ParamSet(j)
    BY <1>1, <2>3 DEF ParamSet, SecretSet
  <2>5. k \in Booleans => req.secrets[k] \in {"true", "false"}
    BY <1>1, <2>1, <2>2, RequestAssumption DEF LoopInv, Booleans
  <2>6. Assigns(vol', vol, k, req.secrets[k])
    BY <1>1, <2>1, AssignedFields DEF Held
  <2>10. OneIP /\ "" \notin PrimaryIPs
    BY <1>1 DEF Held, PrimaryIPs
  <2>7. Accepted'
    <3>1. \A j \in DOMAIN req.secrets :
            VisitedSecret(j)' => j \in Secrets /\ req.secrets[j] # "bad"
      BY <1>1, <2>2, <2>3 DEF Accepted
    <3>2. ASSUME NEW i \in PrimaryIPs, NEW j \in PrimaryIPs, SecretSet(j)'
          PROVE  ~ParamSet(i)' /\ (SecretSet(i)' => i = j)
      <4>1. \A a, b \in PrimaryIPs : ~(ParamSet(a) /\ SecretSet(b))
        BY <1>1 DEF Accepted
      <4>2. CASE j = k
        BY <2>2, <2>4, <2>10, <3>2, <4>2 DEF OneIP
      <4>3. CASE j # k
        <5>1. SecretSet(j) /\ vol.primaryIP = j
          BY <2>4, <2>10, <3>2, <4>3 DEF OneIP
        <5>2. ASSUME SecretSet(i)' PROVE i = j
          <6>1. CASE i = k
            BY <2>2, <2>4, <2>10, <5>1, <5>2, <6>1
          <6>2. CASE i # k
            BY <2>4, <2>10, <5>1, <5>2, <6>2 DEF OneIP
          <6> QED
            BY <6>1, <6>2
        <5> QED
          BY <2>4, <4>1, <5>1, <5>2
      <4> QED
        BY <4>2, <4>3
    <3> QED
      BY <1>1, <2>3, <2>4, <3>1, <3>2 DEF Accepted
  <2>8. Held'
    <3>1. /\ vol'.profile = IF VisitedParam("profile")' THEN req.params["profile"] ELSE ""
          /\ \A f \in Replacing :
               vol'[f] = IF VisitedSecret(f)' THEN req.secrets[f]
                         ELSE IF VisitedParam(f)' THEN req.params[f] ELSE ""
      BY <1>1, <2>2, <2>3, <2>6 DEF Assigns, Held
    <3>2. \A f \in Keeping \ {"encryptionKey"} :
             vol'[f] = IF SecretSet(f)' THEN req.secrets[f]
                       ELSE IF ParamSet(f)' THEN req.params[f] ELSE ""
      BY <1>1, <2>4, <2>6 DEF Assigns, Held
    <3>3. vol'.mode = IF VisitedSecret("isENIEnabled")'
                        THEN IF req.secrets["isENIEnabled"] = "false" THEN "vpc" ELSE "security_group"
                      ELSE IF VisitedParam("isENIEnabled")' /\ req.params["isENIEnabled"] = "false"
                        THEN "vpc" ELSE "security_group"
      BY <1>1, <2>3, <2>5, <2>6 DEF Assigns, Held, Booleans
    <3>4. vol'.transit = IF \/ VisitedParam("isEITEnabled")' /\ req.params["isEITEnabled"] = "true"
                            \/ VisitedSecret("isEITEnabled")' /\ req.secrets["isEITEnabled"] = "true"
                           THEN "user_managed" ELSE ""
      BY <1>1, <2>3, <2>6 DEF Assigns, Held
    <3>5. OneIP'
      <4>1. CASE k \in PrimaryIPs /\ req.secrets[k] # ""
        <5>1. vol'.primaryIP = k /\ \A j \in PrimaryIPs : ~ParamSet(j) /\ ~SecretSet(j)
          BY <2>2, <2>6, <2>10, <4>1 DEF Assigns, OneIP
        <5> QED
          BY <2>4, <4>1, <5>1 DEF OneIP
      <4>2. CASE ~(k \in PrimaryIPs /\ req.secrets[k] # "")
        <5>1. vol'.primaryIP = vol.primaryIP
          BY <2>6, <4>2 DEF Assigns
        <5>2. \A j \in PrimaryIPs : (ParamSet(j) \/ SecretSet(j)) <=> (ParamSet(j)' \/ SecretSet(j)')
          BY <2>4, <4>2
        <5> QED
          BY <2>10, <5>1, <5>2 DEF OneIP
      <4> QED
        BY <4>1, <4>2
    <3> QED
      BY <1>1, <2>3, <2>4, <2>6, <3>1, <3>2, <3>3, <3>4, <3>5 DEF Assigns, Held
  <2>9. SizeHeld'
    BY <1>1, <2>2, <2>6 DEF Assigns, SizeHeld
  <2> QED
    BY <1>1, <2>1, <2>7, <2>8, <2>9 DEF LoopInv
<1> QED
  BY <1>2, <1>3

\* The end of the first loop keeps what it has read and adds the size.
LEMMA ParametersReadStep ==
  ASSUME LoopInv, ParametersRead
  PROVE  LoopInv'
<1> DEFINE v == DropKey(vol)
           size == getRequestedCapacity(req.range, v.profile)
<1>1. step = "params" /\ todo = {} /\ UNCHANGED req /\ Accepted /\ Held
  BY DEF ParametersRead, request, LoopInv
<1>2. CASE Refuse
  BY <1>1, <1>2 DEF LoopInv, Refuse
<1>3. CASE ~Refuse
  <2>1. /\ vol' = [v EXCEPT !.capacity = BytesToGiB(size), !.owner = @ /\ req.source # "snapshot"]
        /\ step' = "secrets" /\ todo' = DOMAIN req.secrets /\ v.profile # "" /\ size # 0
    BY <1>3 DEF ParametersRead
  <2>2. /\ DOMAIN v = Fields
        /\ \A f \in Fields \ {"encrypt", "encryptionKey"} : v[f] = vol[f]
    BY <1>1, DropKeyFields DEF Held
  <2> HIDE DEF v
  <2>3. /\ DOMAIN vol' = Fields /\ vol'.capacity = BytesToGiB(size)
        /\ \A f \in Fields \ {"encrypt", "encryptionKey", "owner", "capacity"} : vol'[f] = vol[f]
    BY <2>1, <2>2, FieldNames
  <2>4. /\ \A j : VisitedParam(j)' <=> VisitedParam(j)
        /\ \A j : ~VisitedSecret(j) /\ ~VisitedSecret(j)'
    BY <1>1, <2>1 DEF VisitedParam, VisitedSecret
  <2>5. /\ \A j : ParamSet(j)' <=> ParamSet(j)
        /\ \A j : ~SecretSet(j) /\ ~SecretSet(j)'
    BY <1>1, <2>4 DEF ParamSet, SecretSet
  <2>6. Accepted'
    BY <1>1, <2>4, <2>5 DEF Accepted
  <2>7. Held'
    <3>1. \A f \in Replacing \cup Keeping \cup {"profile", "mode", "transit", "primaryIP"} :
            f # "encryptionKey" => vol'[f] = vol[f]
      BY <2>3, FieldNames DEF Replacing, Keeping
    <3>2. OneIP'
      BY <1>1, <2>5, <3>1 DEF Held, OneIP
    <3>3. /\ vol'.profile = vol.profile /\ vol'.mode = vol.mode /\ vol'.transit = vol.transit
          /\ \A f \in Replacing : vol'[f] = vol[f]
          /\ \A f \in Keeping \ {"encryptionKey"} : vol'[f] = vol[f]
      BY <3>1 DEF Replacing
    <3> QED
      BY <1>1, <2>3, <2>4, <2>5, <3>2, <3>3 DEF Held
  <2>8. SizeHeld'
    BY <1>1, <2>1, <2>2, <2>3, FieldNames DEF SizeHeld
  <2> QED
    BY <1>1, <2>1, <2>6, <2>7, <2>8 DEF LoopInv
<1> QED
  BY <1>2, <1>3

-----------------------------------------------------------------------------
(* The answer to a request *)

WithinLimit ==
    req.range # Nothing /\ req.range.limit > 0 =>
        req.range.required <= req.range.limit /\ MinimumVolumeSizeInBytes <= req.range.limit

LEMMA LimitKept ==
  ASSUME req.range # Nothing => req.range \in [required : Nat, limit : Nat]
  PROVE  WithinLimit <=> ~(req.range # Nothing /\ OverLimit(req.range))
<1>1. req.range # Nothing => req.range.required \in Nat /\ req.range.limit \in Nat
  OBVIOUS
<1> QED
  BY <1>1, SMT DEF WithinLimit, OverLimit, MinimumVolumeSizeInBytes, GiB

LEMMA ParameterRefused ==
  ASSUME LoopInv, VisitParameter, step' = "refused"
  PROVE  ~Allowed
<1>1. step = "params" /\ Accepted /\ Held /\ todo \subseteq DOMAIN req.params
  BY DEF VisitParameter, Visit, LoopInv
<1>2. PICK k \in todo : Rejected(vol, Parameters, k, req.params[k])
  BY <1>1 DEF VisitParameter, Visit
<1>3. CASE k \notin Parameters
  BY <1>1, <1>3 DEF Allowed, WellFormed
<1>4. CASE req.params[k] = "bad" /\ k # "iops"
  BY <1>1, <1>4 DEF Allowed, WellFormed
<1>5. CASE k \in PrimaryIPs /\ req.params[k] # "" /\ vol.primaryIP # ""
  <2>1. PICK j \in PrimaryIPs : ParamSet(j) \/ SecretSet(j)
    BY <1>1, <1>5 DEF Held, OneIP
  <2>2. Given(j) /\ Given(k) /\ j # k
    BY <1>1, <1>5, <2>1 DEF ParamSet, SecretSet, VisitedParam, VisitedSecret, Given
  <2> QED
    BY <1>5, <2>2 DEF Allowed, WellFormed
<1> QED
  BY <1>2, <1>3, <1>4, <1>5 DEF Rejected

LEMMA SecretRefused ==
  ASSUME LoopInv, VisitSecret, step' = "refused"
  PROVE  ~Allowed
<1>1. step = "secrets" /\ Accepted /\ Held /\ todo \subseteq DOMAIN req.secrets
  BY DEF VisitSecret, Visit, LoopInv
<1>2. PICK k \in todo : Rejected(vol, Secrets, k, req.secrets[k])
  BY <1>1 DEF VisitSecret, Visit
<1>3. CASE k \notin Secrets
  BY <1>1, <1>3 DEF Allowed, WellFormed
<1>4. CASE req.secrets[k] = "bad"
  BY <1>1, <1>4 DEF Allowed, WellFormed
<1>5. CASE k \in PrimaryIPs /\ req.secrets[k] # "" /\ vol.primaryIP # ""
  <2>1. PICK j \in PrimaryIPs : ParamSet(j) \/ SecretSet(j)
    BY <1>1, <1>5 DEF Held, OneIP
  <2>2. Secret(k) /\ ~SecretSet(k)
    BY <1>1, <1>5 DEF Secret, SecretSet, VisitedSecret
  <2>3. CASE ParamSet(j)
    BY <1>5, <2>2, <2>3 DEF ParamSet, VisitedParam, Given, Allowed, WellFormed
  <2>4. CASE SecretSet(j)
    BY <1>5, <2>2, <2>4 DEF SecretSet, VisitedSecret, Secret, Allowed, WellFormed
  <2> QED
    BY <2>1, <2>3, <2>4
<1> QED
  BY <1>2, <1>3, <1>4, <1>5 DEF Rejected

LEMMA SizeRefused ==
  ASSUME LoopInv, ParametersRead, step' = "refused"
  PROVE  ~Allowed
<1> DEFINE v == DropKey(vol)
<1>1. step = "params" /\ todo = {} /\ req \in Requests /\ Held
  BY DEF ParametersRead, LoopInv
<1>2. v.profile = vol.profile
  BY <1>1, DropKeyFields, FieldNames DEF Held
<1>3. v.profile = "" \/ getRequestedCapacity(req.range, v.profile) = 0
  BY DEF ParametersRead
<1>4. CASE v.profile = ""
  <2>1. ~Given("profile")
    BY <1>1, <1>2, <1>4 DEF Held, VisitedParam, Given
  <2> QED
    BY <2>1 DEF Allowed, WellFormed
<1>5. CASE getRequestedCapacity(req.range, v.profile) = 0
  <2>1. req.range # Nothing => req.range \in [required : Nat, limit : Nat]
    BY <1>1, RequestAssumption
  <2>2. req.range # Nothing /\ OverLimit(req.range)
    BY <1>5, <2>1, NoCapacity
  <2>3. ~WithinLimit
    BY <2>1, <2>2, LimitKept
  <2> QED
    BY <2>3 DEF Allowed, WithinLimit
<1> QED
  BY <1>3, <1>4, <1>5

\* When both loops are done, the volume holds the values that count.
LEMMA AllRead ==
  ASSUME LoopInv, step = "secrets", todo = {}
  PROVE  /\ WellFormed /\ DOMAIN vol = Fields
         /\ \A k \in {"profile", "zone", "region", "subnetID", "iops", "throughput"} :
              vol[k] = Value(k)
         /\ vol.mode = Mode
         /\ vol.transit \in {"", "user_managed"} /\ (vol.transit # "" <=> Asks("isEITEnabled"))
         /\ vol.primaryIP \in PrimaryIPs \cup {""}
         /\ \A k \in PrimaryIPs : vol.primaryIP = k <=> Given(k) \/ Secret(k)
         /\ ~(req.range # Nothing /\ OverLimit(req.range))
<1>1. Accepted /\ Held /\ SizeHeld /\ req \in Requests
  BY DEF LoopInv
<1>2. \A k : /\ VisitedParam(k) <=> k \in DOMAIN req.params
             /\ VisitedSecret(k) <=> k \in DOMAIN req.secrets
  BY DEF VisitedParam, VisitedSecret
<1>3. \A k : (ParamSet(k) <=> Given(k)) /\ (SecretSet(k) <=> Secret(k))
  BY <1>2 DEF ParamSet, SecretSet, Given, Secret
<1>4. WellFormed
  <2>1. Given("profile")
    BY <1>1, <1>2 DEF Held, SizeHeld, Given
  <2>2. /\ DOMAIN req.params \subseteq Parameters /\ DOMAIN req.secrets \subseteq Secrets
        /\ \A k \in DOMAIN req.params : req.params[k] = "bad" => k = "iops"
        /\ \A k \in DOMAIN req.secrets : req.secrets[k] # "bad"
    BY <1>1, <1>2 DEF Accepted
  <2>3. \A j, k \in PrimaryIPs :
         /\ Given(j) /\ Given(k) => j = k
         /\ Secret(j) /\ Secret(k) => j = k
         /\ ~(Given(j) /\ Secret(k))
    BY <1>1, <1>3 DEF Accepted
  <2> QED
    BY <2>1, <2>2, <2>3 DEF WellFormed
<1>5. "profile" \notin DOMAIN req.secrets
  BY <1>4 DEF WellFormed, Secrets, PrimaryIPs, Booleans, Replacing, Keeping
<1>6. vol.profile = Value("profile")
  BY <1>1, <1>2, <1>5 DEF Held, Value, Given, Secret, Replacing
<1>7. \A k \in Replacing : vol[k] = Value(k)
  BY <1>1, <1>2 DEF Held, Value, Given, Secret
<1>8. \A k \in {"subnetID", "iops", "throughput"} : vol[k] = Value(k)
  BY <1>1, <1>3 DEF Held, Value, Given, Secret, Replacing, Keeping
<1>9. vol.mode = Mode
  <2>1. "isENIEnabled" \in DOMAIN req.secrets => Secret("isENIEnabled")
    BY <1>1, RequestAssumption DEF Secret, Booleans
  <2>2. "isENIEnabled" \notin Replacing
    BY DEF Replacing
  <2> QED
    BY <1>1, <1>2, <2>1, <2>2 DEF Held, Mode, Value, Given, Secret
<1>10. vol.transit \in {"", "user_managed"} /\ (vol.transit # "" <=> Asks("isEITEnabled"))
  BY <1>1, <1>2 DEF Held, Asks
<1>11. /\ vol.primaryIP \in PrimaryIPs \cup {""}
       /\ \A k \in PrimaryIPs : vol.primaryIP = k <=> Given(k) \/ Secret(k)
  BY <1>1, <1>3 DEF Held, OneIP
<1>12. ~(req.range # Nothing /\ OverLimit(req.range))
  BY <1>1, NoCapacity, RequestAssumption DEF SizeHeld
<1> QED
  BY <1>1, <1>4, <1>6, <1>7, <1>8, <1>9, <1>10, <1>11, <1>12 DEF Held, Replacing

\* The checks at the end of getVolumeParameters are the rules of Allowed.
LEMMA UnsupportedIsNotAllowed ==
  ASSUME LoopInv, step = "secrets", todo = {}
  PROVE  Unsupported(DropKey(vol)) <=> ~Allowed
<1> DEFINE v == DropKey(vol)
           given == {k \in {"subnetID"} \cup PrimaryIPs : Given(k) \/ Secret(k)}
           eni == Value("isENIEnabled") # "false"
<1>1. WellFormed /\ DOMAIN vol = Fields
  BY AllRead
<1>2. \A f \in Fields \ {"encrypt", "encryptionKey"} : v[f] = vol[f]
  BY <1>1, DropKeyFields
<1>3. /\ v.profile = Value("profile") /\ v.zone = Value("zone") /\ v.region = Value("region")
      /\ v.subnetID = Value("subnetID") /\ v.iops = Value("iops") /\ v.throughput = Value("throughput")
  BY <1>2, AllRead, FieldNames
<1>4. /\ v.mode = "security_group" <=> eni
      /\ v.transit # "" <=> Asks("isEITEnabled")
  BY <1>2, AllRead, FieldNames DEF Mode
<1>5. /\ v.subnetID # "" <=> "subnetID" \in given
      /\ v.primaryIP # "" <=> given \cap PrimaryIPs # {}
      /\ v.primaryIP = "primaryIPAddress" <=> "primaryIPAddress" \in given
  <2>1. Value("subnetID") # "" <=> Given("subnetID") \/ Secret("subnetID")
    BY DEF Value, Given, Secret, Replacing
  <2>2. v.primaryIP = vol.primaryIP
    BY <1>2, FieldNames
  <2>3. \A k \in PrimaryIPs : v.primaryIP = k <=> Given(k) \/ Secret(k)
    BY <2>2, AllRead
  <2>4. /\ v.primaryIP \in PrimaryIPs \cup {""} /\ "" \notin PrimaryIPs
        /\ "primaryIPAddress" \in PrimaryIPs /\ "subnetID" \notin PrimaryIPs
    BY <2>2, AllRead DEF PrimaryIPs
  <2> QED
    BY <1>3, <2>1, <2>3, <2>4
<1>6. v.subnetID # "" \/ v.primaryIP # "" <=> given # {}
  BY <1>5
<1>7. WithinLimit
  BY AllRead, LimitKept, RequestAssumption DEF LoopInv
<1> HIDE DEF v, given, eni
<1>8. Allowed <=>
        /\ Asks("isEITEnabled") => eni
        /\ eni /\ "primaryIPAddress" \in given => "subnetID" \in given
        /\ Value("profile") = "dp2" =>
             /\ Value("throughput") \in {"", "0"}
             /\ eni /\ given # {} => Value("zone") # "" /\ Value("region") # ""
             /\ Value("zone") # "" \/ topology # ""
        /\ Value("profile") = "rfs" => Value("iops") = "" /\ Value("zone") = ""
  BY <1>1, <1>7 DEF Allowed, WithinLimit, eni, given
<1> QED
  BY <1>3, <1>4, <1>5, <1>6, <1>8 DEF Unsupported, v

-----------------------------------------------------------------------------
(* The invariant *)

LEMMA RequestFrame ==
  ASSUME UNCHANGED req
  PROVE  /\ \A k : Value(k)' = Value(k)
         /\ Transit' = Transit /\ Mode' = Mode
         /\ UNCHANGED topology => (Allowed' <=> Allowed)
<1>1. \A k : Value(k)' = Value(k)
  BY DEF Value, Given, Secret
<1>2. \A k : Asks(k)' <=> Asks(k)
  BY DEF Asks
<1>3. Transit' = Transit /\ Mode' = Mode
  BY <1>1, <1>2 DEF Transit, Mode
<1>4. ASSUME UNCHANGED topology PROVE Allowed' <=> Allowed
  BY <1>1, <1>2, <1>4 DEF Allowed, WellFormed, Given, Secret
<1> QED
  BY <1>1, <1>3, <1>4

LEMMA CompletedFields ==
  ASSUME NEW v, DOMAIN v = Fields
  PROVE  /\ DOMAIN Completed(v) = Fields
         /\ \A f \in {"profile", "mode", "capacity", "subnetID"} : Completed(v)[f] = v[f]
         /\ v.zone # "" => Completed(v).zone = v.zone /\ Completed(v).region = v.region
         /\ Completed(v).transit = TransitEncryption(v)
BY FieldNames DEF Completed

\* A volume that is not refused is what the request asks for.
LEMMA SecretsReadStep ==
  ASSUME LoopInv, SecretsRead
  PROVE  AfterInv'
<1> DEFINE v == DropKey(vol)
<1>1. step = "secrets" /\ todo = {} /\ UNCHANGED <<req, topology>> /\ SizeHeld
  BY DEF SecretsRead, request, LoopInv
<1>2. Unsupported(v) <=> ~Allowed
  BY <1>1, UnsupportedIsNotAllowed
<1>3. CASE Unsupported(v)
  <2>1. step' = "refused"
    BY <1>3 DEF SecretsRead, Refuse
  <2> QED
    BY <1>1, <1>2, <1>3, <2>1, RequestFrame DEF AfterInv
<1>4. CASE ~Unsupported(v)
  <2>1. vol' = Completed(v) /\ step' \in {"rejected", "network"}
    BY <1>4 DEF SecretsRead
  <2>2. /\ DOMAIN vol = Fields
        /\ \A k \in {"profile", "zone", "region", "subnetID", "iops", "throughput"} :
              vol[k] = Value(k)
        /\ vol.mode = Mode
        /\ vol.transit # "" <=> Asks("isEITEnabled")
    BY <1>1, AllRead
  <2>3. /\ DOMAIN v = Fields /\ v.profile = Value("profile") /\ v.zone = Value("zone")
        /\ v.region = Value("region") /\ v.subnetID = Value("subnetID") /\ v.mode = Mode
        /\ v.transit = vol.transit /\ v.capacity = vol.capacity
    BY <2>2, DropKeyFields, FieldNames
  <2> HIDE DEF v
  <2>4. /\ DOMAIN vol' = Fields /\ vol'.profile = v.profile /\ vol'.mode = v.mode
        /\ vol'.capacity = v.capacity /\ vol'.subnetID = v.subnetID
        /\ v.zone # "" => vol'.zone = v.zone /\ vol'.region = v.region
        /\ vol'.transit = TransitEncryption(v)
    BY <2>1, <2>3, CompletedFields
  <2>5. vol'.transit = Transit
    <3>1. v.transit # "" <=> Asks("isEITEnabled")
      BY <2>2, <2>3
    <3> QED
      BY <2>3, <2>4, <3>1, TransitKinds DEF Transit
  <2>6. AsRequested(vol)'
    BY <1>1, <2>2, <2>3, <2>4, <2>5, RequestFrame DEF AsRequested, SizeHeld
  <2>7. Placed'
    BY <1>1, <2>3, <2>4, RequestFrame DEF Placed
  <2> QED
    BY <1>1, <1>2, <1>4, <2>1, <2>4, <2>6, <2>7, RequestFrame DEF AfterInv
<1> QED
  BY <1>3, <1>4

\* The steps of the loops leave the backend alone.
LEMMA LoopStep ==
  ASSUME RequestInv, VisitParameter \/ VisitSecret \/ ParametersRead \/ SecretsRead
  PROVE  RequestInv'
<1>1. /\ step \in {"params", "secrets"} /\ UNCHANGED <<req, topology, backend, context, mount>>
      /\ step' \in {"params", "secrets", "refused", "rejected", "network"}
  BY DEF VisitParameter, VisitSecret, ParametersRead, SecretsRead, Visit, Refuse, request
<1>2. LoopInv /\ ShareInv /\ DoneInv
  BY DEF RequestInv
<1>3. LoopInv'
  <2>1. CASE SecretsRead
    <3>1. step' \in {"refused", "rejected", "network"}
      BY <2>1 DEF SecretsRead, Refuse
    <3> QED
      BY <1>1, <1>2, <3>1 DEF LoopInv
  <2> QED
    BY <1>2, <2>1, VisitParameterStep, VisitSecretStep, ParametersReadStep
<1>4. AfterInv'
  <2>1. CASE SecretsRead
    BY <1>2, <2>1, SecretsReadStep
  <2>2. CASE VisitParameter \/ VisitSecret \/ ParametersRead
    <3>1. step' \in {"params", "secrets", "refused"}
      BY <1>1, <2>2 DEF VisitParameter, VisitSecret, ParametersRead, Visit, Refuse
    <3>2. step' = "refused" => ~Allowed
      BY <1>2, <2>2, ParameterRefused, SecretRefused, SizeRefused
    <3> QED
      BY <1>1, <3>1, <3>2, RequestFrame DEF AfterInv
  <2> QED
    BY <2>1, <2>2
<1>5. ShareInv'
  BY <1>1, <1>2, RequestFrame DEF ShareInv, AsRequested, ProfileExists, backend
<1>6. DoneInv'
  BY <1>1, <1>2 DEF DoneInv
<1> QED
  BY <1>3, <1>4, <1>5, <1>6 DEF RequestInv

\* The other steps keep the volume but for a subnet that was not asked for.
LEMMA BackendStep ==
  ASSUME RequestInv,
         \/ FindNetwork \/ CreateShare \/ CreateShareFails \/ ShareFound
         \/ CreateAccessPoint \/ CallFails \/ Respond \/ NodePublish
  PROVE  RequestInv'
<1> DEFINE Late == {"network", "create", "accesspoint", "failed", "done", "rejected"}
<1>1. step \in Late /\ step' \in Late /\ UNCHANGED <<req, topology>>
  BY DEF FindNetwork, CreateShare, CreateShareFails, ShareFound, CreateAccessPoint,
     CallFails, Respond, NodePublish, request
<1>2. LoopInv /\ ShareInv /\ DoneInv /\ DOMAIN vol = Fields /\ Allowed /\ AsRequested(vol) /\ Placed
  BY <1>1 DEF RequestInv, AfterInv
<1>3. LoopInv'
  BY <1>1, <1>2 DEF LoopInv
<1>4. \/ UNCHANGED vol
      \/ vol.subnetID = "" /\ \E n : vol' = [vol EXCEPT !.subnetID = n]
  BY DEF FindNetwork, CreateShare, CreateShareFails, ShareFound, CreateAccessPoint,
     CallFails, Respond, NodePublish
<1>5. /\ DOMAIN vol' = Fields
      /\ \A f \in Fields \ {"subnetID"} : vol'[f] = vol[f]
      /\ vol.subnetID # "" => vol'.subnetID = vol.subnetID
  BY <1>2, <1>4, FieldNames
<1>6. AsRequested(vol)'
  BY <1>1, <1>2, <1>5, RequestFrame, FieldNames DEF AsRequested
<1>7. Placed'
  BY <1>1, <1>2, <1>5, RequestFrame, FieldNames DEF Placed
<1>8. AfterInv'
  BY <1>1, <1>2, <1>5, <1>6, <1>7, RequestFrame DEF AfterInv
<1>9. ShareInv'
  <2>1. CASE UNCHANGED backend /\ ~CreateShare
    <3>1. step' \in {"accesspoint", "failed", "done"} =>
             share # Nothing \/ step \in {"accesspoint", "failed", "done"}
      BY <2>1 DEF FindNetwork, CreateShare, CreateShareFails, ShareFound, CreateAccessPoint,
         CallFails, Respond, NodePublish, backend
    <3> QED
      BY <1>1, <1>2, <2>1, <3>1, RequestFrame DEF ShareInv, AsRequested, ProfileExists, backend
  <2>2. CASE CreateShare
    BY <1>1, <1>2, <2>2, RequestFrame
    DEF CreateShare, ShareInv, AsRequested, ProfileExists, AccessPointOf
  <2>3. CASE CreateAccessPoint
    BY <1>1, <1>2, <2>3, RequestFrame
    DEF CreateAccessPoint, ShareInv, AsRequested, ProfileExists, AccessPointOf
  <2> QED
    BY <2>1, <2>2, <2>3
    DEF FindNetwork, CreateShareFails, ShareFound, CallFails, Respond, NodePublish
<1>10. DoneInv'
  <2>1. CASE Respond
    BY <1>2, <2>1 DEF Respond, DoneInv, backend
  <2>2. CASE NodePublish
    BY <1>2, <2>2 DEF NodePublish, DoneInv, backend
  <2> QED
    BY <1>2, <2>1, <2>2 DEF DoneInv, FindNetwork, CreateShare, CreateShareFails, ShareFound,
       CreateAccessPoint, CallFails
<1> QED
  BY <1>3, <1>8, <1>9, <1>10 DEF RequestInv

\* The start of an attempt.
Fresh == req \in Requests /\ step = "params" /\ todo = DOMAIN req.params /\ vol = NewVolume

LEMMA FreshLoop == Fresh => LoopInv /\ AfterInv
<1> SUFFICES ASSUME Fresh PROVE LoopInv /\ AfterInv
  OBVIOUS
<1>1. \A k : ~VisitedParam(k) /\ ~VisitedSecret(k) /\ ~ParamSet(k) /\ ~SecretSet(k)
  BY DEF Fresh, VisitedParam, VisitedSecret, ParamSet, SecretSet
<1>2. Accepted
  BY <1>1 DEF Accepted
<1>3. Held
  <2>1. DOMAIN vol = Fields
    BY DEF Fresh, Fields
  <2>2. /\ vol.profile = "" /\ vol.mode = "security_group" /\ vol.transit = "" /\ vol.primaryIP = ""
        /\ vol.zone = "" /\ vol.region = "" /\ vol.resourceGroup = "" /\ vol.securityGroupIDs = ""
        /\ vol.subnetID = "" /\ vol.iops = "" /\ vol.throughput = ""
    BY DEF Fresh, NewVolume
  <2>3. /\ \A f \in Replacing : vol[f] = ""
        /\ \A f \in Keeping \ {"encryptionKey"} : vol[f] = ""
    BY <2>2 DEF Replacing, Keeping
  <2>4. OneIP
    BY <1>1, <2>2 DEF OneIP, PrimaryIPs
  <2> QED
    BY <1>1, <2>1, <2>2, <2>3, <2>4 DEF Held
<1> QED
  BY <1>2, <1>3 DEF Fresh, LoopInv, AfterInv

LEMMA RetryStep ==
  ASSUME RequestInv, Retry
  PROVE  RequestInv'
<1>1. Fresh' => (LoopInv /\ AfterInv)'
  BY FreshLoop, PTL
<1>2. Fresh'
  BY DEF Retry, Fresh, RequestInv, LoopInv
<1>3. ShareInv'
  BY RequestFrame DEF Retry, RequestInv, ShareInv, AsRequested, ProfileExists, backend
<1>4. DoneInv'
  BY DEF Retry, RequestInv, DoneInv
<1> QED
  BY <1>1, <1>2, <1>3, <1>4 DEF RequestInv

LEMMA RequestInduction == Spec => []RequestInv
<1>1. Init => RequestInv
  BY FreshLoop DEF Init, Fresh, RequestInv, ShareInv, DoneInv
<1>2. RequestInv /\ [Next]_vars => RequestInv'
  <2> SUFFICES ASSUME RequestInv, [Next]_vars PROVE RequestInv'
    OBVIOUS
  <2>1. CASE UNCHANGED vars
    <3>1. /\ UNCHANGED <<req, topology, step, todo, vol, share, ap, context, mount>>
      BY <2>1 DEF vars, request, backend
    <3>2. LoopInv'
      BY <3>1 DEF RequestInv, LoopInv, Accepted, Held, SizeHeld, OneIP, ParamSet, SecretSet,
         VisitedParam, VisitedSecret
    <3>3. AfterInv' /\ ShareInv'
      BY <3>1, RequestFrame DEF RequestInv, AfterInv, ShareInv, AsRequested, Placed, ProfileExists
    <3>4. DoneInv'
      BY <3>1 DEF RequestInv, DoneInv
    <3> QED
      BY <3>2, <3>3, <3>4 DEF RequestInv
  <2>2. CASE Next
    BY <2>2, LoopStep, BackendStep, RetryStep DEF Next
  <2> QED
    BY <2>1, <2>2
<1> QED
  BY <1>1, <1>2, PTL DEF Spec

-----------------------------------------------------------------------------
(* The theorems *)

\* getVolumeParameters and overrideParams accept a request if and only if it
\* keeps the rules, in whatever order the Go maps are visited, and a secret
\* takes precedence over the parameter of the same name: for every request,
\* preferred zone and subnet list, in every attempt.
THEOREM OrderIsIrrelevant == Spec => []OrderDoesNotMatter
<1>1. RequestInv => OrderDoesNotMatter
  BY DEF RequestInv, AfterInv, AsRequested, Placed, Mode, OrderDoesNotMatter
<1> QED
  BY <1>1, RequestInduction, PTL

\* getRequestedCapacity: whatever sizes are asked for, the share is at least as
\* large and exceeds that, or the limit, by less than a GiB unless the profile's
\* minimum makes it larger, also when a repeated call finds it.
THEOREM CapacityIsRight == Spec => []CapacityFits
<1>1. RequestInv => CapacityFits
  <2> SUFFICES ASSUME RequestInv, share # Nothing, req.range # Nothing PROVE CapacityFits
    BY DEF CapacityFits
  <2>1. /\ getRequestedCapacity(req.range, share.profile) # 0
        /\ share.capacity = BytesToGiB(getRequestedCapacity(req.range, share.profile))
    BY DEF RequestInv, ShareInv, AsRequested
  <2>2. req.range \in [required : Nat, limit : Nat]
    BY RequestAssumption DEF RequestInv, LoopInv
  <2> QED
    BY <2>1, <2>2, CapacityOfRange DEF CapacityFits
<1> QED
  BY <1>1, RequestInduction, PTL

LEMMA ContextOfDone ==
  ASSUME RequestInv, step = "done"
  PROVE  /\ context.profile = share.profile /\ context.capacity = share.capacity
         /\ context.isENIEnabled <=> Mode = "security_group"
         /\ ~context.isENIEnabled => context.zone = share.zone
         /\ context.isEITEnabled <=> Asks("isEITEnabled")
         /\ share.profile \in {"dp2", "rfs"} /\ share.transit = Transit /\ ap.mode = Mode
<1>1. AsRequested(vol) /\ AsRequested(share) /\ share.profile \in {"dp2", "rfs"}
  BY DEF RequestInv, AfterInv, ShareInv, ProfileExists
<1>2. context = createCSIVolumeResponse(share, vol) /\ ap.mode = Mode
  BY DEF RequestInv, DoneInv, ShareInv
<1>3. vol.transit \in {"ipsec", "stunnel"} <=> Asks("isEITEnabled")
  BY <1>1 DEF AsRequested, Transit
<1>4. Mode # "vpc" <=> Mode = "security_group"
  BY DEF Mode
<1> QED
  BY <1>1, <1>2, <1>3, <1>4 DEF AsRequested, createCSIVolumeResponse

\* The volume context that CreateVolume returns describes the share there is,
\* also when a repeated call found it after the scheduler had changed its mind.
THEOREM ContextIsOfShare == Spec => []ContextDescribesShare
<1>1. RequestInv => ContextDescribesShare
  <2> SUFFICES ASSUME RequestInv, context # Nothing PROVE ContextDescribesShare
    BY DEF ContextDescribesShare
  <2>1. step = "done"
    BY DEF RequestInv, DoneInv
  <2> QED
    BY <2>1, ContextOfDone DEF ContextDescribesShare
<1> QED
  BY <1>1, RequestInduction, PTL

\* Encryption in transit that storage class or secret ask for is what
\* NodePublishVolume mounts the share with, and the one mode the share allows.
THEOREM TransitIsEncrypted == Spec => []EncryptedInTransit
<1>1. RequestInv => EncryptedInTransit
  <2> SUFFICES ASSUME RequestInv, mount # Nothing PROVE EncryptedInTransit
    BY DEF EncryptedInTransit
  <2>1. step = "done" /\ mount = MountKind(context)
    BY DEF RequestInv, DoneInv
  <2>2. /\ context.isEITEnabled <=> Asks("isEITEnabled")
        /\ context.profile \in {"dp2", "rfs"} /\ context.profile = Value("profile")
        /\ share.transit = Transit
    BY <2>1, ContextOfDone DEF RequestInv, ShareInv, AsRequested
  <2>3. CASE ~context.isEITEnabled
    BY <2>1, <2>2, <2>3, MountKinds DEF EncryptedInTransit, Transit
  <2>4. CASE context.isEITEnabled
    BY <2>1, <2>2, <2>4, MountKinds DEF EncryptedInTransit, Transit
  <2> QED
    BY <2>3, <2>4
<1> QED
  BY <1>1, RequestInduction, PTL
=============================================================================
