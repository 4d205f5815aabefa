------------------------ MODULE OperatorConfigProofs ------------------------
(***************************************************************************)
(* Proofs about OperatorConfig, for whatever texts and regular expressions *)
(* there are, any number of clusters and any lengths of their names.       *)
(***************************************************************************)
EXTENDS OperatorConfig, SequenceTheorems, FiniteSetTheorems, WellFoundedInduction, TLAPS

-----------------------------------------------------------------------------
(* Validation *)

(* A nonempty set of natural numbers has a least element. *)
LEMMA MinIn ==
    ASSUME NEW S \in SUBSET Nat, S # {}
    PROVE  Min(S) \in S
  <1>. DEFINE R == OpToRel(<, Nat)
  <1>1. IsWellFoundedOn(R, Nat)
    BY NatLessThanWellFounded
  <1>2. ASSUME NEW x \in Nat, NEW y \in Nat, <<y, x>> \notin R PROVE x =< y
    <2>1. ~(y < x)
      BY <1>2 DEF OpToRel
    <2>. HIDE DEF R
    <2>. QED
      BY <2>1
  <1>. HIDE DEF R
  <1>3. \E x \in S : \A y \in S : ~(<<y, x>> \in R)
    BY <1>1, WFMin
  <1>4. \E x \in S : \A y \in S : x =< y
    BY <1>2, <1>3
  <1>. QED
    BY <1>4, Zenon DEF Min

(* The names of the checks. *)
CheckName == {Order[i] : i \in DOMAIN Order}

LEMMA CheckNames ==
    CheckName = {"LogLevel", "LogFormat", "EdgeDNSType", "K8gbNamespace", "ReconcileRequeueSeconds",
                 "ClusterGeoTag", "ExtClustersGeoTags", "EdgeDNSServer", "EdgeDNSServerPort",
                 "EdgeDNSZone", "DNSZone", "Infoblox", "NSNames", "MetricsAddress"}
  BY DEF CheckName, Order

(* Validation reports no key if and only if every check succeeds. *)
LEMMA ValidIffChecked ==
    ASSUME NEW c
    PROVE  validateConfig(c) = "" <=> \A i \in DOMAIN Order : Check(c, Order[i])
  <1>. DEFINE failed == {i \in DOMAIN Order : ~Check(c, Order[i])}
  <1>1. DOMAIN Order \in SUBSET Nat /\ \A i \in DOMAIN Order : Order[i] # ""
    <2>1. DOMAIN Order = 1..14
      BY DEF Order
    <2>2. "" \notin CheckName
      BY CheckNames
    <2>3. DOMAIN Order \in SUBSET Nat
      BY <2>1
    <2>4. \A i \in DOMAIN Order : Order[i] # ""
      BY <2>2, Zenon DEF CheckName
    <2>. QED
      BY <2>3, <2>4
  <1>2. validateConfig(c) = IF failed = {} THEN "" ELSE Order[Min(failed)]
    BY DEF validateConfig
  <1>3. failed # {} => Min(failed) \in failed
    <2>1. failed \in SUBSET Nat
      BY <1>1
    <2>. HIDE DEF failed
    <2>. QED
      BY <2>1, MinIn
  <1>4. failed # {} => Order[Min(failed)] # ""
    BY <1>1, <1>3
  <1>5. failed = {} <=> \A i \in DOMAIN Order : Check(c, Order[i])
    OBVIOUS
  <1>. HIDE DEF failed
  <1>. QED
    BY <1>2, <1>4, <1>5

-----------------------------------------------------------------------------
(* Peers *)

(* Settings as read: a value for every key, and a list of tags. *)
IsConfig(c) ==
    /\ DOMAIN c = Key
    /\ c.ExtClustersGeoTags \in Seq(DOMAIN Length)

(* The keys in which the settings of two peers differ. *)
LEMMA PeerFields ==
    ASSUME NEW c, IsConfig(c), NEW i \in DOMAIN c.ExtClustersGeoTags
    PROVE  /\ Peer(c, i).ClusterGeoTag = c.ExtClustersGeoTags[i]
           /\ Peer(c, i).ExtClustersGeoTags = [c.ExtClustersGeoTags EXCEPT ![i] = c.ClusterGeoTag]
           /\ \A k \in Key \ {"ClusterGeoTag", "ExtClustersGeoTags"} : Peer(c, i)[k] = c[k]
  <1>1. {"ClusterGeoTag", "ExtClustersGeoTags"} \subseteq DOMAIN c
    BY DEF IsConfig, Key, Fallback
  <1>. QED
    BY <1>1 DEF IsConfig, Peer

(* What the names and the checks of settings depend on beside the tags. *)
LEMMA SameNames ==
    ASSUME NEW c, IsConfig(c), NEW i \in DOMAIN c.ExtClustersGeoTags, NEW tag
    PROVE  /\ getNsName(tag, Peer(c, i)) = getNsName(tag, c)
           /\ Peer(c, i).EdgeDNSZone = c.EdgeDNSZone
  <1>. DEFINE peer == Peer(c, i)
  <1>1. {"EdgeDNSServer", "DNSZone", "EdgeDNSZone"}
           \subseteq Key \ {"ClusterGeoTag", "ExtClustersGeoTags"}
    BY DEF Key, Fallback
  <1>2. /\ peer.EdgeDNSServer = c.EdgeDNSServer
        /\ peer.DNSZone = c.DNSZone
        /\ peer.EdgeDNSZone = c.EdgeDNSZone
    <2>1. \A k \in Key \ {"ClusterGeoTag", "ExtClustersGeoTags"} : Peer(c, i)[k] = c[k]
      BY PeerFields, Zenon
    <2>. QED
      BY <1>1, <2>1
  <1>. HIDE DEF peer
  <1>3. getNsName(tag, peer) = getNsName(tag, c)
    BY <1>2, Zenon DEF getNsName
  <1>. QED
    BY <1>2, <1>3 DEF peer

(* Each of two peers finds the other among its external clusters. *)
LEMMA PeerTags ==
    ASSUME NEW c, IsConfig(c), NEW i \in DOMAIN c.ExtClustersGeoTags
    PROVE  LET tags == c.ExtClustersGeoTags
               peerTags == Peer(c, i).ExtClustersGeoTags
           IN  /\ DOMAIN peerTags = DOMAIN tags /\ Len(peerTags) = Len(tags)
               /\ peerTags[i] = c.ClusterGeoTag
               /\ \A j \in DOMAIN tags \ {i} : peerTags[j] = tags[j]
  <1>. DEFINE tags == c.ExtClustersGeoTags
              T == DOMAIN Length \union {c.ClusterGeoTag}
  <1>1. Peer(c, i).ExtClustersGeoTags = [tags EXCEPT ![i] = c.ClusterGeoTag]
    BY PeerFields
  <1>2. tags \in Seq(T) /\ i \in 1..Len(tags) /\ c.ClusterGeoTag \in T
    BY DEF IsConfig
  <1>. HIDE DEF tags, T
  <1>3. Len([tags EXCEPT ![i] = c.ClusterGeoTag]) = Len(tags)
    BY <1>2, ExceptSeq
  <1>4. /\ DOMAIN [tags EXCEPT ![i] = c.ClusterGeoTag] = DOMAIN tags
        /\ [tags EXCEPT ![i] = c.ClusterGeoTag][i] = c.ClusterGeoTag
        /\ \A j \in DOMAIN tags \ {i} : [tags EXCEPT ![i] = c.ClusterGeoTag][j] = tags[j]
    BY <1>2
  <1>. QED
    BY <1>1, <1>3, <1>4 DEF tags

(* The checks that do not look at the tags come out the same. *)
LEMMA SameChecks ==
    ASSUME NEW c, IsConfig(c), NEW i \in DOMAIN c.ExtClustersGeoTags,
           NEW key \in CheckName \ {"ClusterGeoTag", "ExtClustersGeoTags", "NSNames"},
           Check(c, key)
    PROVE  Check(Peer(c, i), key)
  <1>. DEFINE peer == Peer(c, i)
  <1>1. \A k \in Key \ {"ClusterGeoTag", "ExtClustersGeoTags"} : peer[k] = c[k]
    BY PeerFields, Zenon
  <1>. HIDE DEF peer
  <1>2. Key = {"LogLevel", "LogFormat", "K8gbNamespace", "ReconcileRequeueSeconds", "ClusterGeoTag",
               "ExtClustersGeoTags", "EdgeDNSServer", "EdgeDNSServerPort", "EdgeDNSZone", "DNSZone",
               "route53Enabled", "ns1Enabled", "Host", "Version", "Port", "Username", "Password",
               "HTTPPoolConnections", "HTTPRequestTimeout", "MetricsAddress"}
    BY DEF Key, Fallback
  <1>3. /\ peer.ns1Enabled = c.ns1Enabled /\ peer.route53Enabled = c.route53Enabled
        /\ peer.Host = c.Host /\ peer.Version = c.Version /\ peer.Port = c.Port
        /\ peer.Username = c.Username /\ peer.Password = c.Password
        /\ peer.HTTPPoolConnections = c.HTTPPoolConnections
        /\ peer.HTTPRequestTimeout = c.HTTPRequestTimeout
    BY <1>1, <1>2
  <1>4. /\ peer.LogLevel = c.LogLevel /\ peer.LogFormat = c.LogFormat
        /\ peer.K8gbNamespace = c.K8gbNamespace
        /\ peer.ReconcileRequeueSeconds = c.ReconcileRequeueSeconds
        /\ peer.EdgeDNSServer = c.EdgeDNSServer /\ peer.EdgeDNSServerPort = c.EdgeDNSServerPort
        /\ peer.EdgeDNSZone = c.EdgeDNSZone /\ peer.DNSZone = c.DNSZone
        /\ peer.MetricsAddress = c.MetricsAddress
    BY <1>1, <1>2
  <1>5. getEdgeDNSType(peer) = getEdgeDNSType(c)
    <2>1. recognizedDNSTypes(peer) = recognizedDNSTypes(c)
      BY <1>3 DEF recognizedDNSTypes
    <2>. QED
      BY <2>1, Zenon DEF getEdgeDNSType
  <1>6. validateInfoblox(c) => validateInfoblox(peer)
    BY <1>3 DEF validateInfoblox
  <1>. QED
    BY <1>4, <1>5, <1>6, CheckNames DEF Check, peer

(* What one operator accepts its peers accept. *)
LEMMA PeerValid ==
    ASSUME NEW c, IsConfig(c), validateConfig(c) = "", NEW i \in DOMAIN c.ExtClustersGeoTags
    PROVE  validateConfig(Peer(c, i)) = ""
  <1>. DEFINE peer == Peer(c, i)
              own == c.ClusterGeoTag
              tags == c.ExtClustersGeoTags
              peerTags == peer.ExtClustersGeoTags
  <1>0. i \in DOMAIN tags
    OBVIOUS
  <1>1. \A key \in CheckName : Check(c, key)
    BY ValidIffChecked DEF CheckName
  <1>2. /\ isNotEmpty(own) /\ matchRegexp(own, geoTagRegex)
        /\ validateExtClustersGeoTags(c)
        /\ validateNsNames(c)
    BY <1>1, CheckNames DEF Check
  <1>3. peer.ClusterGeoTag = tags[i]
    BY PeerFields
  <1>4. /\ DOMAIN peerTags = DOMAIN tags /\ Len(peerTags) = Len(tags)
        /\ peerTags[i] = own
        /\ \A j \in DOMAIN tags \ {i} : peerTags[j] = tags[j]
    BY PeerTags, Zenon
  <1>5. \A tag : getNsName(tag, peer) = getNsName(tag, c)
    BY SameNames, Zenon
  <1>6. Check(peer, "ClusterGeoTag")
    BY <1>2, <1>3 DEF Check, validateExtClustersGeoTags
  <1>. HIDE DEF peer
  <1>7. Check(peer, "ExtClustersGeoTags")
    <2>1. /\ \A j, k \in DOMAIN tags : tags[j] = tags[k] => j = k
          /\ \A j \in DOMAIN tags : /\ isNotEmpty(tags[j]) /\ matchRegexp(tags[j], geoTagRegex)
                                    /\ tags[j] # own
      BY <1>2, Zenon DEF validateExtClustersGeoTags, hasUniqueItems, isNotEqualTo
    <2>2. hasItems(peerTags)
      BY <1>2, <1>4 DEF validateExtClustersGeoTags, hasItems
    <2>. HIDE DEF tags, own, peerTags
    <2>3. hasUniqueItems(peerTags)
      BY <1>4, <2>1 DEF hasUniqueItems
    <2>4. \A j \in DOMAIN peerTags :
             /\ isNotEmpty(peerTags[j]) /\ matchRegexp(peerTags[j], geoTagRegex)
             /\ peerTags[j] # tags[i]
      <3>1. own # tags[i]
        BY <1>0, <2>1
      <3>2. \A j \in DOMAIN tags \ {i} : tags[j] # tags[i]
        BY <1>0, <2>1
      <3>. QED
        BY <1>2, <1>4, <2>1, <3>1, <3>2, Zenon
    <2>5. validateExtClustersGeoTags(peer)
      BY <1>3, <2>2, <2>3, <2>4, Zenon DEF validateExtClustersGeoTags, isNotEqualTo, peerTags
    <2>. QED
      BY <2>5 DEF Check
  <1>8. Check(peer, "NSNames")
    <2>1. /\ \A j \in DOMAIN tags : validateLabels(getNsName(tags[j], c))
          /\ validateLabels(getNsName(own, c))
      BY <1>2, Zenon DEF validateNsNames, GetExternalClusterNSNames, GetClusterNSName
    <2>. HIDE DEF tags, own, peerTags
    <2>2. /\ \A j \in DOMAIN peerTags : validateLabels(getNsName(peerTags[j], peer))
          /\ validateLabels(getNsName(tags[i], peer))
      BY <1>0, <1>4, <1>5, <2>1, Zenon
    <2>3. validateNsNames(peer)
      BY <1>3, <2>2, Zenon DEF validateNsNames, GetExternalClusterNSNames, GetClusterNSName, peerTags
    <2>. QED
      BY <2>3 DEF Check
  <1>9. \A key \in CheckName \ {"ClusterGeoTag", "ExtClustersGeoTags", "NSNames"} : Check(peer, key)
    BY <1>1, SameChecks, Zenon DEF peer
  <1>10. \A key \in CheckName : Check(peer, key)
    BY <1>6, <1>7, <1>8, <1>9
  <1>. QED
    BY <1>10, ValidIffChecked DEF CheckName, peer

(* And they compute the same names for each other. *)
LEMMA PeerNames ==
    ASSUME NEW c, IsConfig(c), NEW i \in DOMAIN c.ExtClustersGeoTags
    PROVE  /\ GetExternalClusterNSNames(c)[Peer(c, i).ClusterGeoTag] = GetClusterNSName(Peer(c, i))
           /\ GetExternalClusterNSNames(Peer(c, i))[c.ClusterGeoTag] = GetClusterNSName(c)
           /\ GetExternalClusterHeartbeatFQDNs(Peer(c, i), "gslb")[c.ClusterGeoTag]
                 = GetClusterHeartbeatFQDN(c, "gslb")
  <1>. DEFINE peer == Peer(c, i)
              peerTags == peer.ExtClustersGeoTags
  <1>1. peer.ClusterGeoTag = c.ExtClustersGeoTags[i]
    BY PeerFields
  <1>2. i \in DOMAIN peerTags /\ peerTags[i] = c.ClusterGeoTag
    BY PeerTags, Zenon
  <1>3. \A tag : getNsName(tag, peer) = getNsName(tag, c)
    BY SameNames, Zenon
  <1>4. peer.EdgeDNSZone = c.EdgeDNSZone
    BY SameNames, Zenon
  <1>5. GetExternalClusterNSNames(c)[c.ExtClustersGeoTags[i]] = getNsName(c.ExtClustersGeoTags[i], c)
    BY DEF GetExternalClusterNSNames
  <1>. HIDE DEF peer
  <1>6. GetExternalClusterNSNames(peer)[peerTags[i]] = getNsName(peerTags[i], peer)
    BY <1>2 DEF GetExternalClusterNSNames
  <1>7. GetExternalClusterHeartbeatFQDNs(peer, "gslb")[peerTags[i]]
           = getHeartbeatFQDN("gslb", peerTags[i], peer.EdgeDNSZone)
    BY <1>2 DEF GetExternalClusterHeartbeatFQDNs
  <1>. QED
    BY <1>1, <1>2, <1>3, <1>4, <1>5, <1>6, <1>7, Zenon
       DEF GetClusterNSName, GetClusterHeartbeatFQDN, peer

-----------------------------------------------------------------------------
(* Invariance *)

(* The provider Provider chooses. *)
Chosen(c) == CASE getEdgeDNSType(c) \in {"NS1", "Route53"} -> "external"
               [] getEdgeDNSType(c) = "Infoblox" -> "infoblox"
               [] OTHER -> "empty"

(* The environment is one users can give, and the settings of a process that  *)
(* has read them are those, with the verdict of the validation: without error *)
(* where main has gone on, and with the provider where it is past that.       *)
IInv ==
    /\ DOMAIN environ = Key
    /\ \A k \in Key : environ[k] \in Setting[k] \union {Absent}
    /\ \/ config = NoConfig
       \/ config = readConfig(environ) /\ errorConfig = validateConfig(config)
    /\ pc \in {"manager", "provider", "metrics", "setup", "running"} =>
          config = readConfig(environ) /\ validateConfig(config) = ""
    /\ pc \in {"metrics", "setup", "running"} => provider = Chosen(config)

(* The invariant holds in the beginning and after every step. *)
LEMMA InitIInv == Init => IInv
  <1>1. ASSUME NEW e \in Environments
        PROVE  DOMAIN e = Key /\ \A k \in Key : e[k] \in Setting[k] \union {Absent}
    BY SettingAssumption, Zenon
  <1>. QED
    BY <1>1 DEF Init, IInv

LEMMA StepIInv == IInv /\ [Next]_vars => IInv'
  <1>. SUFFICES ASSUME IInv, [Next]_vars PROVE IInv'
    OBVIOUS
  <1>1. CASE ResolveOperatorConfig
    BY <1>1 DEF ResolveOperatorConfig, IInv
  <1>2. CASE NewManager \/ Register \/ RegisterError \/ SetupWithManager \/ Exit \/ Stop
    <2>1. UNCHANGED <<environ, config, errorConfig, provider>>
      BY <1>2 DEF NewManager, Register, RegisterError, SetupWithManager, Exit, Stop
    <2>2. /\ pc' \in {"manager", "provider", "metrics", "setup", "running"} =>
                pc \in {"manager", "provider", "metrics", "setup", "running"}
          /\ pc' \in {"metrics", "setup", "running"} => pc \in {"metrics", "setup", "running"}
      BY <1>2 DEF NewManager, Register, RegisterError, SetupWithManager, Exit, Stop
    <2>. QED
      BY <2>1, <2>2 DEF IInv
  <1>3. CASE Provider
    <2>1. UNCHANGED <<environ, config, errorConfig>> /\ pc = "provider" /\ provider' = Chosen(config)
      BY <1>3 DEF Provider, Chosen
    <2>. QED
      BY <2>1 DEF IInv
  <1>4. CASE Restart
    BY <1>4 DEF Restart, NewProcess, NoConfig, IInv
  <1>5. ASSUME NEW k \in Key, EditEnvironment(k) PROVE IInv'
    <2>. PICK value \in Setting[k] \union {Absent} : environ' = [environ EXCEPT ![k] = value]
      BY <1>5 DEF EditEnvironment
    <2>1. DOMAIN environ' = Key /\ \A l \in Key : environ'[l] \in Setting[l] \union {Absent}
      BY DEF IInv
    <2>2. config' = NoConfig /\ pc' = "resolve"
      BY <1>5 DEF EditEnvironment, NewProcess
    <2>. QED
      BY <2>1, <2>2 DEF NoConfig, IInv
  <1>6. CASE UNCHANGED vars
    BY <1>6 DEF vars, process, IInv
  <1>. QED
    BY <1>1, <1>2, <1>3, <1>4, <1>5, <1>6 DEF Next, Main

(* Settings read from such an environment are a value for every key and a     *)
(* list of tags.                                                              *)
LEMMA ReadIsConfig == IInv /\ config # NoConfig => IsConfig(config)
  <1>. SUFFICES ASSUME IInv, config # NoConfig PROVE IsConfig(config)
    OBVIOUS
  <1>1. config = readConfig(environ)
    BY DEF IInv
  <1>2. "ExtClustersGeoTags" \in Key /\ Fallback.ExtClustersGeoTags = <<>>
    BY DEF Key, Fallback
  <1>3. DOMAIN config = Key
    BY <1>1 DEF readConfig
  <1>4. config["ExtClustersGeoTags"] \in Setting["ExtClustersGeoTags"] \union {<<>>}
    BY <1>1, <1>2 DEF readConfig, IInv
  <1>5. <<>> \in Seq(DOMAIN Length)
    OBVIOUS
  <1>. QED
    BY <1>3, <1>4, <1>5, SettingAssumption DEF IsConfig

(* Whatever one operator accepts every other one accepts with the tags        *)
(* exchanged, and all of them compute the same name servers and heartbeats    *)
(* for each other, for any number of clusters and any settings.               *)
THEOREM PeersAgreeHolds == Spec => []PeersAgree
  <1>1. IInv => PeersAgree
    <2>. SUFFICES ASSUME IInv, config # NoConfig, errorConfig = "",
                         NEW i \in DOMAIN config.ExtClustersGeoTags
                  PROVE  /\ validateConfig(Peer(config, i)) = ""
                         /\ GetExternalClusterNSNames(config)[Peer(config, i).ClusterGeoTag]
                               = GetClusterNSName(Peer(config, i))
                         /\ GetExternalClusterNSNames(Peer(config, i))[config.ClusterGeoTag]
                               = GetClusterNSName(config)
                         /\ GetExternalClusterHeartbeatFQDNs(Peer(config, i), "gslb")
                                  [config.ClusterGeoTag] = GetClusterHeartbeatFQDN(config, "gslb")
      BY Zenon DEF PeersAgree
    <2>1. IsConfig(config)
      BY ReadIsConfig
    <2>2. validateConfig(config) = ""
      BY DEF IInv
    <2>. QED
      BY <2>1, <2>2, PeerValid, PeerNames, Zenon
  <1>. QED
    BY <1>1, InitIInv, StepIInv, PTL DEF Spec

-----------------------------------------------------------------------------
(* Documented environments *)

(* An environment users can give. *)
IsEnvironment(e) == DOMAIN e = Key /\ \A k \in Key : e[k] \in Setting[k] \union {Absent}

(* An environment whose settings are accepted. *)
IsAccepted(e) == IsEnvironment(e) /\ validateConfig(readConfig(e)) = ""

LEMMA Keys ==
    Key = {"LogLevel", "LogFormat", "K8gbNamespace", "ReconcileRequeueSeconds", "ClusterGeoTag",
           "ExtClustersGeoTags", "EdgeDNSServer", "EdgeDNSServerPort", "EdgeDNSZone", "DNSZone",
           "route53Enabled", "ns1Enabled", "Host", "Version", "Port", "Username", "Password",
           "HTTPPoolConnections", "HTTPRequestTimeout", "MetricsAddress"}
  BY DEF Key, Fallback

(* A setting is what the environment says, or the fallback. *)
LEMMA Read ==
    ASSUME NEW e, NEW k \in Key
    PROVE  /\ e[k] = Absent => readConfig(e)[k] = Fallback[k]
           /\ e[k] # Absent => readConfig(e)[k] = e[k]
  BY DEF readConfig

(* Texts and lists that are required and have no fallback are there. *)
LEMMA RequiredIsThere ==
    ASSUME NEW e, NEW k \in Key,
           \/ Fallback[k] = "" /\ isNotEmpty(readConfig(e)[k])
           \/ Fallback[k] = <<>> /\ readConfig(e)[k] # <<>>
    PROVE  e[k] # Absent /\ readConfig(e)[k] = e[k]
  BY Read DEF isNotEmpty

LEMMA AcceptedIsChecked ==
    ASSUME NEW e, IsAccepted(e), NEW key \in CheckName
    PROVE  Check(readConfig(e), key)
  BY ValidIffChecked DEF IsAccepted, CheckName

(* The texts and lists that are required. *)
LEMMA AcceptedTexts ==
    ASSUME NEW e, IsAccepted(e)
    PROVE  /\ \A k \in {"K8gbNamespace", "ClusterGeoTag", "EdgeDNSServer", "ExtClustersGeoTags",
                        "DNSZone", "EdgeDNSZone"} : e[k] # Absent /\ readConfig(e)[k] = e[k]
           /\ \A k \in {"ExtClustersGeoTags", "DNSZone", "EdgeDNSZone"} : e[k] # <<>>
           /\ e.K8gbNamespace \in k8sNamespaceRegex
           /\ e.EdgeDNSServer \in hostNameRegex \union ipAddressRegex
           /\ e.ClusterGeoTag \in geoTagRegex \ {""}
           /\ isZone(e.DNSZone) /\ isZone(e.EdgeDNSZone)
  <1>. DEFINE c == readConfig(e)
  <1>1. /\ isNotEmpty(c.K8gbNamespace) /\ matchRegexp(c.K8gbNamespace, k8sNamespaceRegex)
        /\ isNotEmpty(c.ClusterGeoTag) /\ matchRegexp(c.ClusterGeoTag, geoTagRegex)
        /\ isNotEmpty(c.EdgeDNSServer) /\ matchRegexps(c.EdgeDNSServer, {hostNameRegex, ipAddressRegex})
        /\ isZone(c.EdgeDNSZone) /\ isZone(c.DNSZone)
        /\ hasItems(c.ExtClustersGeoTags)
    <2>. HIDE DEF c
    <2>1. \A key \in CheckName : Check(c, key)
      BY AcceptedIsChecked DEF c
    <2>. QED
      BY <2>1, CheckNames DEF Check, validateExtClustersGeoTags
  <1>. HIDE DEF c
  <1>2. c.EdgeDNSZone # <<>> /\ c.DNSZone # <<>> /\ c.ExtClustersGeoTags # <<>>
    BY <1>1 DEF isZone, hasItems
  <1>3. /\ Fallback.K8gbNamespace = "" /\ Fallback.ClusterGeoTag = "" /\ Fallback.EdgeDNSServer = ""
        /\ Fallback.ExtClustersGeoTags = <<>> /\ Fallback.DNSZone = <<>> /\ Fallback.EdgeDNSZone = <<>>
    BY DEF Fallback
  <1>4. \A k \in {"K8gbNamespace", "ClusterGeoTag", "EdgeDNSServer", "ExtClustersGeoTags",
                  "DNSZone", "EdgeDNSZone"} : k \in Key
    BY Keys
  <1>5. /\ e.K8gbNamespace # Absent /\ c.K8gbNamespace = e.K8gbNamespace
        /\ e.ClusterGeoTag # Absent /\ c.ClusterGeoTag = e.ClusterGeoTag
        /\ e.EdgeDNSServer # Absent /\ c.EdgeDNSServer = e.EdgeDNSServer
    BY <1>1, <1>3, <1>4, RequiredIsThere DEF c
  <1>6. /\ e.ExtClustersGeoTags # Absent /\ c.ExtClustersGeoTags = e.ExtClustersGeoTags
        /\ e.DNSZone # Absent /\ c.DNSZone = e.DNSZone
        /\ e.EdgeDNSZone # Absent /\ c.EdgeDNSZone = e.EdgeDNSZone
    BY <1>2, <1>3, <1>4, RequiredIsThere DEF c
  <1>7. /\ e.K8gbNamespace \in k8sNamespaceRegex
        /\ e.EdgeDNSServer \in hostNameRegex \union ipAddressRegex
        /\ e.ClusterGeoTag \in geoTagRegex \ {""}
    BY <1>1, <1>5 DEF isNotEmpty, matchRegexp, matchRegexps
  <1>. QED
    BY <1>1, <1>2, <1>5, <1>6, <1>7 DEF c

(* Numbers, levels and the metrics address, which have fallbacks. *)
LEMMA AcceptedNumbers ==
    ASSUME NEW e, IsAccepted(e)
    PROVE  /\ Positive(e.ReconcileRequeueSeconds) /\ Positive(e.EdgeDNSServerPort)
           /\ e.LogLevel \in {Absent, "trace", "debug", "info", "warn", "error", "fatal", "panic"}
           /\ e.LogFormat \in {Absent, "json", "simple"}
           /\ e.MetricsAddress = Absent \/ DocumentedAddress(e.MetricsAddress)
  <1>. DEFINE c == readConfig(e)
  <1>1. /\ isHigherThanZero(c.ReconcileRequeueSeconds) /\ isHigherThanZero(c.EdgeDNSServerPort)
        /\ ParseLevel(c.LogLevel) # "NoLevel" /\ parseLogOutputFormat(c.LogFormat) # "NoFormat"
        /\ validateMetricsAddress(c.MetricsAddress)
    <2>. HIDE DEF c
    <2>1. \A key \in CheckName : Check(c, key)
      BY AcceptedIsChecked DEF c
    <2>. QED
      BY <2>1, CheckNames DEF Check
  <1>. HIDE DEF c
  <1>2. /\ e.ReconcileRequeueSeconds = Absent \/ c.ReconcileRequeueSeconds = e.ReconcileRequeueSeconds
        /\ e.EdgeDNSServerPort = Absent \/ c.EdgeDNSServerPort = e.EdgeDNSServerPort
        /\ e.LogLevel = Absent \/ c.LogLevel = e.LogLevel
        /\ e.LogFormat = Absent \/ c.LogFormat = e.LogFormat
        /\ e.MetricsAddress = Absent \/ c.MetricsAddress = e.MetricsAddress
    BY Keys, Read DEF c
  <1>3. Positive(e.ReconcileRequeueSeconds) /\ Positive(e.EdgeDNSServerPort)
    BY <1>1, <1>2, Zenon DEF Positive, isHigherThanZero
  <1>4. /\ e.LogLevel \in {Absent, "trace", "debug", "info", "warn", "error", "fatal", "panic"}
        /\ e.LogFormat \in {Absent, "json", "simple"}
    BY <1>1, <1>2 DEF ParseLevel, parseLogOutputFormat
  <1>5. ASSUME e.MetricsAddress # Absent PROVE DocumentedAddress(e.MetricsAddress)
    <2>. DEFINE address == e.MetricsAddress
    <2>1. validateMetricsAddress(address)
      BY <1>1, <1>2, <1>5
    <2>2. address \in Setting["MetricsAddress"]
      BY <1>5, Keys DEF IsAccepted, IsEnvironment
    <2>3. address.port \in Int \union {Absent}
      BY <2>2, SettingAssumption, Zenon
    <2>. HIDE DEF address
    <2>4. /\ address.parts = 2 /\ address.port # Absent /\ address.port > 1024
          /\ matchRegexps(address.host, {hostNameRegex, ipAddressRegex})
      BY <2>1, SMT DEF validateMetricsAddress, parseMetricsAddr, isHigherThan
    <2>5. address.host \in {""} \union hostNameRegex \union ipAddressRegex
      BY <2>4, Zenon DEF matchRegexps, matchRegexp
    <2>6. IsPort(address.port)
      <3>1. address.port <= 65535
        BY <2>1, SMT DEF validateMetricsAddress, isLessOrEqualTo
      <3>. QED
        BY <2>3, <2>4, <3>1, SMT DEF IsPort
    <2>. QED
      BY <2>4, <2>5, <2>6, Zenon DEF address, DocumentedAddress
  <1>. QED
    BY <1>3, <1>4, <1>5, Zenon

(* The environment speaks of a provider if and only if the settings do. *)
LEMMA Speaks ==
    ASSUME NEW e, IsEnvironment(e)
    PROVE  /\ readConfig(e).ns1Enabled <=> e.ns1Enabled = TRUE
           /\ readConfig(e).route53Enabled <=> e.route53Enabled = TRUE
           /\ isNotBlank(readConfig(e).Host) <=> e.Host \notin {Absent, " "}
           /\ e.Host \notin {Absent, " "} => readConfig(e).Host = e.Host
  <1>. DEFINE c == readConfig(e)
  <1>1. ASSUME NEW k \in {"ns1Enabled", "route53Enabled"} PROVE c[k] <=> e[k] = TRUE
    <2>1. k \in Key /\ Fallback[k] = FALSE
      <3>1. k \in Key
        BY Keys
      <3>2. Fallback.ns1Enabled = FALSE
        BY DEF Fallback
      <3>3. Fallback.route53Enabled = FALSE
        BY DEF Fallback
      <3>. QED
        BY <3>1, <3>2, <3>3, Zenon
    <2>2. e[k] \in BOOLEAN \union {Absent} /\ Absent # TRUE
      <3>1. e[k] \in Setting[k] \union {Absent}
        BY <2>1 DEF IsEnvironment
      <3>2. Setting[k] \subseteq BOOLEAN /\ Absent \notin BOOLEAN
        BY SettingAssumption, Zenon
      <3>. QED
        BY <3>1, <3>2, Zenon
    <2>3. CASE e[k] = Absent
      <3>1. c[k] = FALSE
        BY <2>1, <2>3, Read, Zenon
      <3>. QED
        BY <2>2, <2>3, <3>1, Zenon
    <2>4. CASE e[k] # Absent
      <3>1. c[k] = e[k] /\ e[k] \in BOOLEAN
        BY <2>1, <2>2, <2>4, Read, Zenon
      <3>. QED
        BY <3>1, Zenon
    <2>. QED
      BY <2>3, <2>4
  <1>2. "Host" \in Key /\ Fallback.Host = ""
    BY Keys DEF Fallback
  <1>3. e.Host # Absent => e.Host # "" /\ c.Host = e.Host
    <2>1. e.Host \in Setting["Host"] \union {Absent} /\ "" \notin Setting["Host"]
      BY <1>2, SettingAssumption DEF IsEnvironment
    <2>. QED
      BY <1>2, <2>1, Read
  <1>4. e.Host = Absent => c.Host = ""
    BY <1>2, Read
  <1>5. (c.ns1Enabled <=> e.ns1Enabled = TRUE) /\ (c.route53Enabled <=> e.route53Enabled = TRUE)
    BY <1>1, Zenon
  <1>. HIDE DEF c
  <1>6. /\ isNotBlank(c.Host) <=> e.Host \notin {Absent, " "}
        /\ e.Host \notin {Absent, " "} => c.Host = e.Host
    BY <1>3, <1>4 DEF isNotBlank
  <1>. QED
    BY <1>5, <1>6, Zenon DEF c

(* Settings that are accepted speak of at most one provider, which is chosen. *)
LEMMA OneProvider ==
    ASSUME NEW e, IsAccepted(e)
    PROVE  LET ns1 == e.ns1Enabled = TRUE
               route53 == e.route53Enabled = TRUE
               infoblox == e.Host \notin {Absent, " "}
           IN  /\ ~(ns1 /\ route53) /\ ~(ns1 /\ infoblox) /\ ~(route53 /\ infoblox)
               /\ Chosen(readConfig(e)) = IF infoblox THEN "infoblox"
                                          ELSE IF ns1 \/ route53 THEN "external" ELSE "empty"
  <1>. DEFINE ns1 == e.ns1Enabled = TRUE
              route53 == e.route53Enabled = TRUE
              infoblox == e.Host \notin {Absent, " "}
              c == readConfig(e)
              recognized == recognizedDNSTypes(c)
  <1>1. recognized = {t \in {"NS1", "Route53", "Infoblox"} :
                        (t = "NS1" /\ ns1) \/ (t = "Route53" /\ route53) \/ (t = "Infoblox" /\ infoblox)}
    <2>1. (c.ns1Enabled <=> ns1) /\ (c.route53Enabled <=> route53) /\ (isNotBlank(c.Host) <=> infoblox)
      BY Speaks, Zenon DEF IsAccepted
    <2>. HIDE DEF c, ns1, route53, infoblox
    <2>. QED
      BY <2>1, Zenon DEF recognizedDNSTypes
  <1>2. getEdgeDNSType(c) # "MultipleProviders"
    <2>1. Check(c, "EdgeDNSType")
      BY AcceptedIsChecked, CheckNames
    <2>. QED
      BY <2>1 DEF Check
  <1>3. getEdgeDNSType(c) = IF recognized = {} THEN "NoEdgeDNS"
                            ELSE IF \E t \in recognized : recognized = {t} THEN CHOOSE t \in recognized : TRUE
                            ELSE "MultipleProviders"
    BY DEF getEdgeDNSType
  <1>. HIDE DEF c, ns1, route53, infoblox, recognized
  <1>4. recognized = {} \/ \E t : recognized = {t}
    BY <1>2, <1>3
  <1>5. ~(ns1 /\ route53) /\ ~(ns1 /\ infoblox) /\ ~(route53 /\ infoblox)
    BY <1>1, <1>4
  <1>6. CASE infoblox
    <2>1. recognized = {"Infoblox"}
      BY <1>1, <1>5, <1>6
    <2>2. getEdgeDNSType(c) = "Infoblox"
      BY <1>3, <2>1
    <2>. QED
      BY <1>5, <1>6, <2>2 DEF Chosen, c, ns1, route53, infoblox
  <1>7. CASE ~infoblox /\ (ns1 \/ route53)
    <2>1. recognized = {"NS1"} \/ recognized = {"Route53"}
      BY <1>1, <1>5, <1>7
    <2>2. getEdgeDNSType(c) \in {"NS1", "Route53"}
      BY <1>3, <2>1
    <2>. QED
      BY <1>5, <1>7, <2>2 DEF Chosen, c, ns1, route53, infoblox
  <1>8. CASE ~infoblox /\ ~ns1 /\ ~route53
    <2>1. recognized = {}
      BY <1>1, <1>8
    <2>2. getEdgeDNSType(c) = "NoEdgeDNS"
      BY <1>3, <2>1
    <2>. QED
      BY <1>5, <1>8, <2>2 DEF Chosen, c, ns1, route53, infoblox
  <1>. QED
    BY <1>6, <1>7, <1>8

LEMMA AcceptedProviders ==
    ASSUME NEW e, IsAccepted(e)
    PROVE  DocumentedProviders(e)
  <1>. DEFINE c == readConfig(e)
              flags == {k \in {"ns1Enabled", "route53Enabled"} : e[k] = TRUE}
              hosts == {k \in {"Host"} : e[k] \notin {Absent, " "}}
  <1>1. Cardinality(flags \union hosts) <= 1
    <2>1. flags \union hosts = {} \/ \E k : flags \union hosts = {k}
      <3>1. /\ ~(e.ns1Enabled = TRUE /\ e.route53Enabled = TRUE)
            /\ e.Host \notin {Absent, " "} => ~(e.ns1Enabled = TRUE) /\ ~(e.route53Enabled = TRUE)
        BY OneProvider, Zenon
      <3>2. CASE e.Host \notin {Absent, " "}
        <4>1. flags \union hosts = {"Host"}
          BY <3>1, <3>2
        <4>. QED
          BY <4>1
      <3>3. CASE e.Host \in {Absent, " "} /\ e.ns1Enabled = TRUE
        <4>1. flags \union hosts = {"ns1Enabled"}
          BY <3>1, <3>3
        <4>. QED
          BY <4>1
      <3>4. CASE e.Host \in {Absent, " "} /\ ~(e.ns1Enabled = TRUE) /\ e.route53Enabled = TRUE
        <4>1. flags \union hosts = {"route53Enabled"}
          BY <3>1, <3>4
        <4>. QED
          BY <4>1
      <3>5. CASE e.Host \in {Absent, " "} /\ ~(e.ns1Enabled = TRUE) /\ ~(e.route53Enabled = TRUE)
        <4>1. flags \union hosts = {}
          BY <3>1, <3>5
        <4>. QED
          BY <4>1
      <3>. QED
        BY <3>2, <3>3, <3>4, <3>5
    <2>. HIDE DEF flags, hosts
    <2>2. Cardinality(flags \union hosts) = 0 \/ Cardinality(flags \union hosts) = 1
      BY <2>1, FS_EmptySet, FS_Singleton, Zenon
    <2>. QED
      BY <2>2
  <1>2. ASSUME e.Host \notin {Absent, " "}
        PROVE  /\ e.Host \in hostNameRegex \union ipAddressRegex
               /\ Absent \notin {e.Version, e.Port, e.Username, e.Password}
               /\ e.Version \in versionNumberRegex
               /\ IsPort(e.Port)
               /\ e.HTTPPoolConnections = 0 \/ Positive(e.HTTPPoolConnections)
               /\ Positive(e.HTTPRequestTimeout)
    <2>1. isNotBlank(c.Host) /\ c.Host = e.Host
      BY <1>2, Speaks, Zenon DEF IsAccepted
    <2>2. validateInfoblox(c)
      <3>1. Check(c, "Infoblox")
        BY AcceptedIsChecked, CheckNames
      <3>. QED
        BY <3>1 DEF Check
    <2>. HIDE DEF c
    <2>3. /\ matchRegexps(c.Host, {hostNameRegex, ipAddressRegex})
          /\ isNotEmpty(c.Version) /\ matchRegexp(c.Version, versionNumberRegex)
          /\ c.Port > 0
          /\ isNotEmpty(c.Username) /\ isNotEmpty(c.Password)
          /\ c.HTTPPoolConnections >= 0 /\ c.HTTPRequestTimeout > 0
      BY <2>1, <2>2, SMT DEF validateInfoblox, isHigherThanZero, isHigherOrEqualToZero
    <2>4. /\ Fallback.Version = "" /\ Fallback.Username = "" /\ Fallback.Password = ""
          /\ Fallback.Port = 0
      BY DEF Fallback
    <2>5. /\ e.Version # Absent /\ c.Version = e.Version
          /\ e.Username # Absent /\ e.Password # Absent
      BY <2>3, <2>4, Keys, RequiredIsThere DEF c
    <2>6. e.Port # Absent /\ c.Port = e.Port
      <3>1. ~(0 > 0)
        OBVIOUS
      <3>. QED
        BY <2>3, <2>4, <3>1, Keys, Read DEF c
    <2>7. e.Port \in Int
      <3>1. e["Port"] \in Setting["Port"]
        BY <2>6, Keys DEF IsAccepted, IsEnvironment
      <3>2. Setting["Port"] \subseteq Int
        BY SettingAssumption, Zenon
      <3>. QED
        BY <3>1, <3>2
    <2>8. IsPort(e.Port)
      <3>1. c.Port <= 65535
        BY <2>1, <2>2, SMT DEF validateInfoblox, isLessOrEqualTo
      <3>. QED
        BY <2>3, <2>6, <2>7, <3>1, SMT DEF IsPort
    <2>9. e.HTTPPoolConnections = 0 \/ Positive(e.HTTPPoolConnections)
      <3>. SUFFICES ASSUME e.HTTPPoolConnections # Absent
                    PROVE  e.HTTPPoolConnections = 0 \/ e.HTTPPoolConnections > 0
        BY DEF Positive
      <3>1. c["HTTPPoolConnections"] = e["HTTPPoolConnections"]
        BY Keys, Read DEF c
      <3>2. e["HTTPPoolConnections"] \in Setting["HTTPPoolConnections"]
        BY Keys DEF IsAccepted, IsEnvironment
      <3>3. Setting["HTTPPoolConnections"] \subseteq Int
        BY SettingAssumption, Zenon
      <3>. QED
        BY <2>3, <3>1, <3>2, <3>3
    <2>10. Positive(e.HTTPRequestTimeout)
      <3>1. e.HTTPRequestTimeout = Absent \/ c.HTTPRequestTimeout = e.HTTPRequestTimeout
        BY Keys, Read DEF c
      <3>. QED
        BY <2>3, <3>1, Zenon DEF Positive
    <2>11. e.Host \in hostNameRegex \union ipAddressRegex /\ e.Version \in versionNumberRegex
      BY <2>1, <2>3, <2>5 DEF matchRegexps, matchRegexp, isNotEmpty, isNotBlank
    <2>. QED
      BY <2>5, <2>6, <2>8, <2>9, <2>10, <2>11, Zenon
  <1>. QED
    BY <1>1, <1>2, Zenon DEF DocumentedProviders

(* As many tags as the sequence is long, if they differ. *)
LEMMA UniqueItems ==
    ASSUME NEW T, NEW tags \in Seq(T), hasUniqueItems(tags)
    PROVE  LET items == {tags[i] : i \in DOMAIN tags}
           IN  IsFiniteSet(items) /\ Cardinality(items) = Len(tags)
  <1>. DEFINE items == {tags[i] : i \in DOMAIN tags}
              n == Len(tags)
  <1>1. n \in Nat /\ DOMAIN tags = 1..n /\ tags \in [1..n -> items]
    OBVIOUS
  <1>2. tags \in Bijection(1..n, items)
    <2>1. \A i, j \in 1..n : tags[i] = tags[j] => i = j
      BY <1>1 DEF hasUniqueItems
    <2>2. \A t \in items : \E i \in 1..n : tags[i] = t
      BY <1>1
    <2>. HIDE DEF items, n
    <2>. QED
      BY <1>1, <2>1, <2>2 DEF Bijection, Injection, Surjection, IsInjective
  <1>3. ExistsBijection(1..n, items)
    BY <1>2 DEF ExistsBijection
  <1>. HIDE DEF items, n
  <1>4. IsFiniteSet(items) /\ Cardinality(items) = n
    BY <1>1, <1>3, FS_NatBijection, FS_CountingElements
  <1>. QED
    BY <1>4 DEF items, n

LEMMA AcceptedNames ==
    ASSUME NEW e, IsAccepted(e)
    PROVE  DocumentedNames(e)
  <1>. DEFINE c == readConfig(e)
              own == e.ClusterGeoTag
              tags == e.ExtClustersGeoTags
              items == {tags[i] : i \in DOMAIN tags}
  <1>1. /\ c.ClusterGeoTag = own /\ c.ExtClustersGeoTags = tags /\ c.EdgeDNSServer = e.EdgeDNSServer
        /\ c.DNSZone = e.DNSZone /\ c.EdgeDNSZone = e.EdgeDNSZone
        /\ own # Absent /\ tags # Absent
        /\ own \in geoTagRegex \ {""}
        /\ isZone(e.DNSZone) /\ isZone(e.EdgeDNSZone)
    BY AcceptedTexts
  <1>2. tags \in Seq(DOMAIN Length) /\ Absent \notin DOMAIN Length
    <2>1. "ExtClustersGeoTags" \in Key
      BY Keys
    <2>2. tags \in Setting["ExtClustersGeoTags"]
      BY <1>1, <2>1 DEF IsAccepted, IsEnvironment
    <2>. QED
      BY <2>2, SettingAssumption, Zenon
  <1>3. validateExtClustersGeoTags(c) /\ validateNsNames(c)
    <2>1. Check(c, "ExtClustersGeoTags") /\ Check(c, "NSNames")
      BY AcceptedIsChecked, CheckNames
    <2>. HIDE DEF c
    <2>. QED
      BY <2>1 DEF Check
  <1>. HIDE DEF c
  <1>4. /\ hasUniqueItems(tags)
        /\ \A tag \in items : tag \in geoTagRegex \ {""} /\ tag # own
    BY <1>1, <1>3, Zenon
       DEF validateExtClustersGeoTags, isNotEmpty, matchRegexp, isNotEqualTo
  <1>5. TagsOf(e) = items \union {own}
    BY DEF TagsOf
  <1>6. Cardinality(TagsOf(e)) = 1 + Len(tags)
    <2>1. IsFiniteSet(items) /\ Cardinality(items) = Len(tags)
      BY <1>2, <1>4, UniqueItems, Zenon
    <2>2. own \notin items
      BY <1>4
    <2>3. Len(tags) \in Nat
      BY <1>2
    <2>. HIDE DEF items, own, tags
    <2>4. Cardinality(items \union {own}) = Cardinality(items) + 1
      BY <2>1, <2>2, FS_AddElement
    <2>. QED
      BY <1>5, <2>1, <2>3, <2>4
  <1>7. TagsOf(e) \subseteq geoTagRegex \ {Absent, ""}
    <2>1. \A tag \in items : tag # Absent
      BY <1>2
    <2>. HIDE DEF items, own, tags
    <2>. QED
      BY <1>1, <1>4, <1>5, <2>1
  <1>8. \A zone \in {e.DNSZone, e.EdgeDNSZone} : \A i \in DOMAIN zone : zone[i] \in labelRegex
    BY <1>1, Zenon DEF isZone
  <1>9. ASSUME NEW tag \in TagsOf(e)
        PROVE  e.EdgeDNSServer \in {"127.0.0.1", "localhost"} \/
                  LET n == 8 + Length[tag] + joinedLength(TrimSuffix(e.DNSZone, e.EdgeDNSZone))
                  IN  /\ n <= 63
                      /\ n + joinedLength(e.EdgeDNSZone) <= 253
                      /\ \A i \in DOMAIN e.EdgeDNSZone : Length[e.EdgeDNSZone[i]] <= 63
    <2>. SUFFICES ASSUME e.EdgeDNSServer \notin {"127.0.0.1", "localhost"}
                  PROVE  LET n == 8 + Length[tag] + joinedLength(TrimSuffix(e.DNSZone, e.EdgeDNSZone))
                         IN  /\ n <= 63
                             /\ n + joinedLength(e.EdgeDNSZone) <= 253
                             /\ \A i \in DOMAIN e.EdgeDNSZone : Length[e.EdgeDNSZone[i]] <= 63
      BY Zenon
    <2>1. validateLabels(getNsName(tag, c))
      <3>1. tag \in items \union {own}
        BY <1>5, <1>9
      <3>2. /\ \A i \in DOMAIN tags : validateLabels(getNsName(tags[i], c))
            /\ validateLabels(getNsName(own, c))
        BY <1>1, <1>3, Zenon DEF validateNsNames, GetExternalClusterNSNames, GetClusterNSName
      <3>. HIDE DEF tags, own
      <3>. QED
        BY <3>1, <3>2
    <2>. DEFINE name == [local |-> FALSE, tag |-> tag, domainX |-> TrimSuffix(e.DNSZone, e.EdgeDNSZone),
                         zone |-> e.EdgeDNSZone]
    <2>2. getNsName(tag, c) = name
      BY <1>1, Zenon DEF getNsName
    <2>3. /\ name.tag = tag /\ name.domainX = TrimSuffix(e.DNSZone, e.EdgeDNSZone)
          /\ name.zone = e.EdgeDNSZone
      OBVIOUS
    <2>4. ~name.local
      OBVIOUS
    <2>. HIDE DEF name
    <2>5. validateLabels(name)
      BY <2>1, <2>2
    <2>. QED
      BY <2>3, <2>4, <2>5 DEF validateLabels, dnsNameMax, dnsLabelMax
  <1>. QED
    BY <1>6, <1>7, <1>8, <1>9, Zenon DEF DocumentedNames

LEMMA AcceptedIsDocumented ==
    ASSUME NEW e, IsAccepted(e)
    PROVE  Documented(e)
  <1>1. /\ Absent \notin {e.K8gbNamespace, e.ClusterGeoTag, e.EdgeDNSServer}
        /\ \A k \in {"ExtClustersGeoTags", "DNSZone", "EdgeDNSZone"} : e[k] \notin {Absent, <<>>}
        /\ e.K8gbNamespace \in k8sNamespaceRegex
        /\ e.EdgeDNSServer \in hostNameRegex \union ipAddressRegex
    BY AcceptedTexts
  <1>. QED
    BY <1>1, AcceptedNumbers, AcceptedProviders, AcceptedNames, Zenon DEF Documented

(* An operator that runs was given an environment as documented, for any      *)
(* settings and any number of clusters, and works with the provider that      *)
(* environment speaks of: the environment cannot have changed since it was    *)
(* validated, and validation and choice of provider, which look at what is    *)
(* read, agree with what is documented of the environment itself.             *)
THEOREM RunningIsDocumentedHolds == Spec => []RunningIsDocumented
  <1>1. IInv => RunningIsDocumented
    <2>. SUFFICES ASSUME IInv, pc = "running"
                  PROVE  /\ Documented(environ)
                         /\ provider = IF environ.Host \notin {Absent, " "} THEN "infoblox"
                                       ELSE IF TRUE \in {environ.ns1Enabled, environ.route53Enabled}
                                       THEN "external" ELSE "empty"
      BY Zenon DEF RunningIsDocumented
    <2>1. IsAccepted(environ) /\ provider = Chosen(readConfig(environ))
      BY DEF IInv, IsAccepted, IsEnvironment
    <2>2. TRUE \in {environ.ns1Enabled, environ.route53Enabled} <=>
             environ.ns1Enabled = TRUE \/ environ.route53Enabled = TRUE
      BY Zenon
    <2>. QED
      BY <2>1, <2>2, AcceptedIsDocumented, OneProvider, Zenon
  <1>. QED
    BY <1>1, InitIInv, StepIInv, PTL DEF Spec
=============================================================================
