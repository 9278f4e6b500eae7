--------------------------- MODULE MCVolumeRequest ---------------------------
EXTENDS VolumeRequest, FiniteSets, TLC

\* The values of a key, "p" or "s" standing for a proper one.
Values(k, proper) ==
    CASE k = "profile"                  -> {"dp2", "rfs", "dp", "bad"}
      [] k \in Booleans                 -> {"true", "false", "bad"}
      [] k \in Owner                    -> {proper, "0", "bad"}
      [] k = "throughput"               -> {proper, "0", "", "bad"}
      [] k \in InfoOnly \cup {"other"}  -> {proper}
      [] k \in PrimaryIPs \cup {"subnetID", "securityGroupIDs"} -> {proper, ""}
      [] OTHER                          -> {proper, "", "bad"}

\* All ways to give the keys of a set their values.
Valuations(keys, V(_)) ==
    {f \in [keys -> UNION {V(k) : k \in keys}] : \A k \in keys : f[k] \in V(k)}

Param(k)  == Values(k, "p")
Proper(k) == Values(k, "p") \ {"bad", "", "dp"}
Hidden(k) == Values(k, "s")

Plain == {[required |-> 0, limit |-> 0]}
Ranges == {Nothing} \cup [required : {0, 1, 3, 20, 23}, limit : {0, 4, 20, 24}]

Request(p, s, r, c) == [params |-> p, secrets |-> s, range |-> r, source |-> c]

Profiled(f) == {"profile" :> x @@ f : x \in {"dp2", "rfs"}}

\* No key, and every key alone.
Singles ==
    {Request(p, s, r, "none") :
        p \in UNION {Valuations(K, Param) :
                       K \in {K \in SUBSET (Parameters \cup {"other"}) : Cardinality(K) <= 1}},
        s \in {<<>>}, r \in Plain}

\* The profile, one more key, and at most one secret.
Mixed ==
    LET keys == (Parameters \ (InfoOnly \cup {"profile"})) \cup {"vmState", "other"}
    IN  {Request(p, s, r, "none") :
          p \in UNION {Profiled(f) : f \in UNION {Valuations({k}, Param) : k \in keys}},
          s \in {<<>>} \cup UNION {Valuations({k}, Hidden) : k \in Secrets \cup {"profile"}},
          r \in Plain}

\* Where the share and its access point go: all combinations of the keys about it.
Network ==
    LET keys == {"zone", "region", "subnetID", "isENIEnabled", "isEITEnabled"} \cup PrimaryIPs
    IN  {Request(p, s, r, "none") :
          p \in UNION {Profiled(f) : f \in UNION {Valuations(K, Proper) : K \in SUBSET keys}},
          s \in {<<>>, "zone" :> "", "zone" :> "s", "isENIEnabled" :> "false", "subnetID" :> "s"},
          r \in Plain}

\* Sizes, sources and the owner.
Sized ==
    {Request(p, <<>>, r, c) :
        p \in Profiled(<<>>) \cup Profiled("uid" :> "p") \cup {"profile" :> "dp"},
        r \in Ranges, c \in {"none", "snapshot", "volume"}}

AllRequests == Singles \cup Mixed \cup Network \cup Sized

\* Two zones and the zone of the user's choice; the second list lacks a subnet
\* in the first zone.
Lists == {[z1 |-> "n1", z2 |-> "n2", p |-> "n3", s |-> "n4"],
          [z1 |-> "", z2 |-> "n5", p |-> "n3", s |-> ""]}
Preferred == {"z1", "z2", ""}
=============================================================================
