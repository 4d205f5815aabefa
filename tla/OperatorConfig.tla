-------------------------- MODULE OperatorConfig --------------------------
(***************************************************************************)
(* How an operator starts: it reads its settings from the environment of   *)
(* its Pod, validates them, chooses the DNS provider, registers its gauges *)
(* and runs.  Whatever fails on the way ends the process; the kubelet      *)
(* starts it again, and it fails again unless something has changed.       *)
(*                                                                         *)
(* Each operator is configured on its own and validates what it was given  *)
(* on its own, but the clusters only find each other when they compute the *)
(* same names from it.                                                     *)
(*                                                                         *)
(* A text is a value of which only the regular expressions it matches are  *)
(* known; a regular expression is the set of texts that match it.  A zone  *)
(* is the sequence of its labels, and only the lengths of tags and labels  *)
(* count.  Absent stands for a variable that is unset or empty or, where a *)
(* number or a Boolean is expected, cannot be parsed: the getters of       *)
(* gopkg/env return the fallback for each.  Booleans that nothing checks   *)
(* (CoreDNS exposed, split brain check, colours, the fake Infoblox of the  *)
(* tests) are left out.                                                    *)
(***************************************************************************)
EXTENDS Integers, Sequences, FiniteSetsExt

CONSTANTS
    Absent,             \* the value of a variable that is not there or not readable
    Length,             \* the length of each geo tag and of each label of a zone
    k8sNamespaceRegex, geoTagRegex, hostNameRegex, ipAddressRegex, versionNumberRegex,
    labelRegex,         \* labels that may occur in a host name
    MetricPrefix,       \* namespaces that may begin the name of a Prometheus metric
    Setting,            \* Setting[k]: the values users give to the variable of key k
    Environments,       \* the environments an operator may first be deployed with
    MaxFaults           \* bound on edits of the environment, failed calls and stops

ASSUME FaultsAssumption == MaxFaults \in Nat
ASSUME LengthAssumption == \A x \in DOMAIN Length : Length[x] \in Nat

VARIABLES
    environ,      \* the environment in the Deployment
    pc,           \* how far main has come
    config,       \* dr.config
    errorConfig,  \* dr.errorConfig: the key validation stopped at, or ""
    provider,     \* reconciler.DNSProvider
    registered,   \* the gauges in the Prometheus registry of the process
    faults

process == <<pc, config, errorConfig, provider, registered>>
vars == <<environ, process, faults>>

-----------------------------------------------------------------------------
(* The validators: what a field must satisfy.  In a chain the first error     *)
(* stays, so a chain is a conjunction.                                        *)

isNotEmpty(text) == text # ""
matchRegexp(text, regex) == text = "" \/ text \in regex
matchRegexps(text, regexps) == \E regex \in regexps : matchRegexp(text, regex)
isHigherThanZero(n) == n > 0


isHigherOrEqualToZero(n) == n >= 0
isLessOrEqualTo(n, max) == n <= max
isHigherThan(n, min) == n > min
isNotEqualTo(text, other) == text # other
hasItems(arr) == Len(arr) # 0
hasUniqueItems(arr) == \A i, j \in DOMAIN arr : arr[i] = arr[j] => i = j

(* The function of the same name ignores blanks, the validator does not. *)
isNotBlank(text) == text \notin {"", " "}

(* The same for a zone, which is a host name of one or more labels. *)
isZone(zone) == zone # <<>> /\ \A i \in DOMAIN zone : zone[i] \in labelRegex

-----------------------------------------------------------------------------
(* The settings *)

Fallback ==
    [LogLevel |-> "info", LogFormat |-> "simple",
     K8gbNamespace |-> "", ReconcileRequeueSeconds |-> 30,
     ClusterGeoTag |-> "", ExtClustersGeoTags |-> <<>>,
     EdgeDNSServer |-> "", EdgeDNSServerPort |-> 53,
     EdgeDNSZone |-> <<>>, DNSZone |-> <<>>,
     route53Enabled |-> FALSE, ns1Enabled |-> FALSE,
     Host |-> "", Version |-> "", Port |-> 0, Username |-> "", Password |-> "",
     HTTPPoolConnections |-> 10, HTTPRequestTimeout |-> 20,
     MetricsAddress |-> [parts |-> 2, host |-> "0.0.0.0", port |-> 8080]]

Key == DOMAIN Fallback
NoConfig == [k \in Key |-> Absent]

(* strings.Split: the list of tags is a sequence.  Numbers and Booleans that   *)
(* can be parsed are such, and an empty host is an absent one.                *)
ASSUME SettingAssumption ==
    /\ Absent \notin BOOLEAN /\ Absent \notin DOMAIN Length
    /\ \A tags \in Setting["ExtClustersGeoTags"] : tags \in Seq(DOMAIN Length)
    /\ \A k \in {"route53Enabled", "ns1Enabled"} : Setting[k] \subseteq BOOLEAN
    /\ \A k \in {"Port", "HTTPPoolConnections"} : Setting[k] \subseteq Int
    /\ \A address \in Setting["MetricsAddress"] : address.port \in Int \union {Absent}
    /\ "" \notin Setting["Host"]
    /\ \A e \in Environments : DOMAIN e = Key /\ \A k \in Key : e[k] \in Setting[k] \union {Absent}

(* dr.config as read from the environment e. *)
readConfig(e) == [k \in Key |-> IF e[k] = Absent THEN Fallback[k] ELSE e[k]]

ParseLevel(text) ==
    IF text \in {"trace", "debug", "info", "warn", "error", "fatal", "panic"} THEN text ELSE "NoLevel"
parseLogOutputFormat(text) == IF text \in {"json", "simple"} THEN text ELSE "NoFormat"

(* The providers the settings speak of. *)
recognizedDNSTypes(c) ==
    {t \in {"NS1", "Route53", "Infoblox"} :
        \/ t = "NS1" /\ c.ns1Enabled
        \/ t = "Route53" /\ c.route53Enabled
        \/ t = "Infoblox" /\ isNotBlank(c.Host)}

(* Mutant: Route53 hides a provider that is configured beside it. *)
getEdgeDNSTypeFirst(c) ==
    LET recognized == recognizedDNSTypes(c)
    IN  IF recognized = {} THEN "NoEdgeDNS"
        ELSE IF "Route53" \in recognized THEN "Route53" ELSE CHOOSE t \in recognized : TRUE

getEdgeDNSType(c) ==
    LET recognized == recognizedDNSTypes(c)
    IN  IF recognized = {} THEN "NoEdgeDNS"
        ELSE IF \E t \in recognized : recognized = {t} THEN CHOOSE t \in recognized : TRUE
        ELSE "MultipleProviders"

-----------------------------------------------------------------------------
(* The names clusters are found by *)

(* strings.TrimSuffix(dnsZone, "."+edgeDNSZone): dnsZone itself, unless it is *)
(* a proper subdomain of edgeDNSZone.                                         *)
TrimSuffix(dnsZone, edgeDNSZone) ==
    LET n == Len(dnsZone) - Len(edgeDNSZone)
    IN  IF n > 0 /\ SubSeq(dnsZone, n + 1, Len(dnsZone)) = edgeDNSZone
        THEN SubSeq(dnsZone, 1, n) ELSE dnsZone

(* The name server of the cluster with the tag: gslb-ns-<tag>-<domainX> in    *)
(* edgeDNSZone, or the edge DNS server itself when that is local.             *)
getNsName(tag, c) ==
    IF c.EdgeDNSServer \in {"127.0.0.1", "localhost"}
    THEN [local |-> TRUE, tag |-> c.EdgeDNSServer, domainX |-> <<>>, zone |-> <<>>]
    ELSE [local |-> FALSE, tag |-> tag, domainX |-> TrimSuffix(c.DNSZone, c.EdgeDNSZone),
          zone |-> c.EdgeDNSZone]

GetClusterNSName(c) == getNsName(c.ClusterGeoTag, c)
GetExternalClusterNSNames(c) ==
    [tag \in {c.ExtClustersGeoTags[i] : i \in DOMAIN c.ExtClustersGeoTags} |-> getNsName(tag, c)]

getHeartbeatFQDN(name, tag, zone) == [name |-> name, tag |-> tag, zone |-> zone]
GetClusterHeartbeatFQDN(c, gslbName) == getHeartbeatFQDN(gslbName, c.ClusterGeoTag, c.EdgeDNSZone)
GetExternalClusterHeartbeatFQDNs(c, gslbName) ==
    [tag \in {c.ExtClustersGeoTags[i] : i \in DOMAIN c.ExtClustersGeoTags} |->
        getHeartbeatFQDN(gslbName, tag, c.EdgeDNSZone)]

(* Labels joined by dots or dashes, with one more at the end. *)
joinedLength(labels) == MapThenSumSet(LAMBDA i : Length[labels[i]] + 1, DOMAIN labels)

dnsNameMax == 253
dnsLabelMax == 63

(* The name is not too long, and neither is any of its labels.  The first one *)
(* is gslb-ns-<tag>-<domainX>.                                                *)
validateLabels(nsName) ==
    LET first == 8 + Length[nsName.tag] + joinedLength(nsName.domainX)
    IN  nsName.local \/
            /\ first + joinedLength(nsName.zone) <= dnsNameMax
            /\ first <= dnsLabelMax
            /\ \A i \in DOMAIN nsName.zone : Length[nsName.zone[i]] <= dnsLabelMax
-----------------------------------------------------------------------------
(* Validation *)

(* do full Infoblox validation only in case that Host exists *)
validateInfoblox(c) ==
    isNotBlank(c.Host) =>
        /\ matchRegexps(c.Host, {hostNameRegex, ipAddressRegex})
        /\ isNotEmpty(c.Version) /\ matchRegexp(c.Version, versionNumberRegex)
        /\ isHigherThanZero(c.Port) /\ isLessOrEqualTo(c.Port, 65535)
        /\ isNotEmpty(c.Username)
        /\ isNotEmpty(c.Password)
        /\ isHigherOrEqualToZero(c.HTTPPoolConnections)
        /\ isHigherThanZero(c.HTTPRequestTimeout)

(* An address of two parts, of which the second is a number. *)
parseMetricsAddr(address) == address.parts = 2 /\ address.port # Absent

validateMetricsAddress(address) ==
    /\ parseMetricsAddr(address)
    /\ matchRegexps(address.host, {hostNameRegex, ipAddressRegex})
    /\ isLessOrEqualTo(address.port, 65535) /\ isHigherThan(address.port, 1024)

(* Mutant: the name of the own cluster is not looked at. *)
validateExternalNsNames(c) ==
    \A tag \in DOMAIN GetExternalClusterNSNames(c) : validateLabels(GetExternalClusterNSNames(c)[tag])

validateNsNames(c) ==
    /\ \A tag \in DOMAIN GetExternalClusterNSNames(c) : validateLabels(GetExternalClusterNSNames(c)[tag])
    /\ validateLabels(GetClusterNSName(c))

validateExtClustersGeoTags(c) ==
    /\ hasItems(c.ExtClustersGeoTags) /\ hasUniqueItems(c.ExtClustersGeoTags)
    /\ \A i \in DOMAIN c.ExtClustersGeoTags :
          /\ isNotEmpty(c.ExtClustersGeoTags[i])
          /\ matchRegexp(c.ExtClustersGeoTags[i], geoTagRegex)
          /\ isNotEqualTo(c.ExtClustersGeoTags[i], c.ClusterGeoTag)

(* The checks of validateConfig, in the order they are made in. *)
Order == <<"LogLevel", "LogFormat", "EdgeDNSType", "K8gbNamespace", "ReconcileRequeueSeconds",
           "ClusterGeoTag", "ExtClustersGeoTags", "EdgeDNSServer", "EdgeDNSServerPort",
           "EdgeDNSZone", "DNSZone", "Infoblox", "NSNames", "MetricsAddress">>

Check(c, key) ==
    CASE key = "LogLevel"       -> ParseLevel(c.LogLevel) # "NoLevel"
      [] key = "LogFormat"      -> parseLogOutputFormat(c.LogFormat) # "NoFormat"
      [] key = "EdgeDNSType"    -> getEdgeDNSType(c) # "MultipleProviders"
      [] key = "K8gbNamespace"  -> /\ isNotEmpty(c.K8gbNamespace)
                                   /\ matchRegexp(c.K8gbNamespace, k8sNamespaceRegex)
      [] key = "ReconcileRequeueSeconds" -> isHigherThanZero(c.ReconcileRequeueSeconds)
      [] key = "ClusterGeoTag"  -> /\ isNotEmpty(c.ClusterGeoTag)
                                   /\ matchRegexp(c.ClusterGeoTag, geoTagRegex)
      [] key = "ExtClustersGeoTags" -> validateExtClustersGeoTags(c)
      [] key = "EdgeDNSServer"  -> /\ isNotEmpty(c.EdgeDNSServer)
                                   /\ matchRegexps(c.EdgeDNSServer, {hostNameRegex, ipAddressRegex})
      [] key = "EdgeDNSServerPort" -> isHigherThanZero(c.EdgeDNSServerPort)
      [] key = "EdgeDNSZone"    -> isZone(c.EdgeDNSZone)
      [] key = "DNSZone"        -> isZone(c.DNSZone)
      [] key = "Infoblox"       -> validateInfoblox(c)
      [] key = "NSNames"        -> validateNsNames(c)
      [] key = "MetricsAddress" -> validateMetricsAddress(c.MetricsAddress)

(* The first check that fails, or "" if none does. *)
validateConfig(c) ==
    LET failed == {i \in DOMAIN Order : ~Check(c, Order[i])}
    IN  IF failed = {} THEN "" ELSE Order[Min(failed)]

-----------------------------------------------------------------------------
(* main *)

Init ==
    /\ environ \in Environments
    /\ pc = "resolve"
    /\ config = NoConfig
    /\ errorConfig = ""
    /\ provider = "none"
    /\ registered = {}
    /\ faults = 0

(* A new process, which remembers nothing. *)
NewProcess ==
    /\ pc' = "resolve"
    /\ config' = NoConfig
    /\ errorConfig' = ""
    /\ provider' = "none"
    /\ registered' = {}

Fault ==
    /\ faults < MaxFaults
    /\ faults' = faults + 1

ResolveOperatorConfig ==
    /\ pc = "resolve"
    /\ config' = readConfig(environ)
    /\ errorConfig' = validateConfig(config')
    /\ pc' = IF errorConfig' = "" THEN "manager" ELSE "exited"
    /\ UNCHANGED <<environ, provider, registered, faults>>

(* The manager is created and knows the types; so the client is not nil and   *)
(* neither is the factory.                                                    *)
NewManager ==
    /\ pc = "manager"
    /\ pc' = "provider"
    /\ UNCHANGED <<environ, config, errorConfig, provider, registered, faults>>

Provider ==
    /\ pc = "provider"
    /\ provider' = CASE getEdgeDNSType(config) \in {"NS1", "Route53"} -> "external"
                      [] getEdgeDNSType(config) = "Infoblox" -> "infoblox"
                      [] OTHER -> "empty"
    /\ pc' = "metrics"
    /\ UNCHANGED <<environ, config, errorConfig, registered, faults>>

(* The gauges are named <K8gbNamespace>_gslb_...; the registry takes them     *)
(* only under a name that is valid.                                           *)
Register ==
    /\ pc = "metrics"
    /\ config.K8gbNamespace \in MetricPrefix
    /\ registered' = {"healthy_records", "ingress_hosts_per_status"}
    /\ pc' = "setup"
    /\ UNCHANGED <<environ, config, errorConfig, provider, faults>>

RegisterError ==
    /\ pc = "metrics"
    /\ config.K8gbNamespace \notin MetricPrefix
    /\ pc' = "exited"
    /\ UNCHANGED <<environ, config, errorConfig, provider, registered, faults>>

(* The controller is set up and the manager started. *)
SetupWithManager ==
    /\ pc = "setup"
    /\ pc' = "running"
    /\ UNCHANGED <<environ, config, errorConfig, provider, registered, faults>>

Main ==
    \/ ResolveOperatorConfig \/ NewManager \/ Provider
    \/ Register \/ RegisterError \/ SetupWithManager

(* os.Exit(1) after a call that failed. *)
Exit ==
    /\ pc \in {"manager", "setup", "running"}
    /\ Fault
    /\ pc' = "exited"
    /\ UNCHANGED <<environ, config, errorConfig, provider, registered>>

(* The manager returns after a signal, and main with it. *)
Stop ==
    /\ pc = "running"
    /\ Fault
    /\ registered' = {}
    /\ pc' = "exited"
    /\ UNCHANGED <<environ, config, errorConfig, provider>>

(* The kubelet starts the container again. *)
Restart ==
    /\ pc = "exited"
    /\ NewProcess
    /\ UNCHANGED <<environ, faults>>

(* A user changes one setting of the Deployment: there is a new Pod. *)
EditEnvironment(k) ==
    /\ Fault
    /\ \E value \in Setting[k] \union {Absent} :
          /\ value # environ[k]
          /\ environ' = [environ EXCEPT ![k] = value]
    /\ NewProcess

Next ==
    \/ Main
    \/ Exit \/ Stop \/ Restart
    \/ \E k \in Key : EditEnvironment(k)

Spec == Init /\ [][Next]_vars

(* main goes on, and the kubelet restarts what has ended. *)
FairSpec == Spec /\ WF_vars(Main) /\ WF_vars(Restart)

-----------------------------------------------------------------------------
(* What an environment must be like, by the comments of the configuration    *)
(* (depresolver.go:78-148) and its tests, without regard to how it is read.  *)

TagsOf(e) == {e.ClusterGeoTag} \union {e.ExtClustersGeoTags[i] : i \in DOMAIN e.ExtClustersGeoTags}

Positive(n) == n = Absent \/ n > 0
IsPort(n) == n \in Nat \ {0} /\ n <= 65535

DocumentedAddress(address) ==
    /\ address.parts = 2
    /\ address.host \in {""} \union hostNameRegex \union ipAddressRegex
    /\ address.port # Absent
    /\ IsPort(address.port) /\ address.port > 1024

DocumentedProviders(e) ==
    /\ Cardinality({k \in {"ns1Enabled", "route53Enabled"} : e[k] = TRUE}
                   \union {k \in {"Host"} : e[k] \notin {Absent, " "}}) <= 1
    /\ e.Host \notin {Absent, " "} =>
          /\ e.Host \in hostNameRegex \union ipAddressRegex
          /\ Absent \notin {e.Version, e.Port, e.Username, e.Password}
          /\ e.Version \in versionNumberRegex
          /\ IsPort(e.Port)
          /\ e.HTTPPoolConnections = 0 \/ Positive(e.HTTPPoolConnections)
          /\ Positive(e.HTTPRequestTimeout)

DocumentedNames(e) ==
    /\ Cardinality(TagsOf(e)) = 1 + Len(e.ExtClustersGeoTags)
    /\ TagsOf(e) \subseteq geoTagRegex \ {Absent, ""}
    /\ \A zone \in {e.DNSZone, e.EdgeDNSZone} : \A i \in DOMAIN zone : zone[i] \in labelRegex
    /\ \A tag \in TagsOf(e) : e.EdgeDNSServer \in {"127.0.0.1", "localhost"} \/
          LET n == 8 + Length[tag] + joinedLength(TrimSuffix(e.DNSZone, e.EdgeDNSZone))
          IN  /\ n <= 63
              /\ n + joinedLength(e.EdgeDNSZone) <= 253
              /\ \A i \in DOMAIN e.EdgeDNSZone : Length[e.EdgeDNSZone[i]] <= 63

Documented(e) ==
    /\ Absent \notin {e.K8gbNamespace, e.ClusterGeoTag, e.EdgeDNSServer}
    /\ \A k \in {"ExtClustersGeoTags", "DNSZone", "EdgeDNSZone"} : e[k] \notin {Absent, <<>>}
    /\ e.K8gbNamespace \in k8sNamespaceRegex
    /\ e.EdgeDNSServer \in hostNameRegex \union ipAddressRegex
    /\ Positive(e.ReconcileRequeueSeconds) /\ Positive(e.EdgeDNSServerPort)
    /\ e.LogLevel \in {Absent, "trace", "debug", "info", "warn", "error", "fatal", "panic"}
    /\ e.LogFormat \in {Absent, "json", "simple"}
    /\ e.MetricsAddress = Absent \/ DocumentedAddress(e.MetricsAddress)
    /\ DocumentedProviders(e)
    /\ DocumentedNames(e)

(* An operator that runs was given an environment that is as documented, and  *)
(* works with the one provider that environment speaks of: no second provider *)
(* or missing credential slips through the defaults, the checks skipped for   *)
(* blanks and the order of checks (depresolver_config.go:94-213).             *)
RunningIsDocumented ==
    pc = "running" =>
        /\ Documented(environ)
        /\ provider = IF environ.Host \notin {Absent, " "} THEN "infoblox"
                      ELSE IF TRUE \in {environ.ns1Enabled, environ.route53Enabled} THEN "external"
                      ELSE "empty"

(* The settings of the cluster with the i-th external tag. *)
Peer(c, i) == [c EXCEPT !.ClusterGeoTag = c.ExtClustersGeoTags[i],
                        !.ExtClustersGeoTags = [@ EXCEPT ![i] = c.ClusterGeoTag]]

(* What one operator accepts every other one accepts, each with its own tag   *)
(* in place of theirs, and all of them compute the same name servers and      *)
(* heartbeats for each other: no cluster starts alone, or looks for another   *)
(* where it is not (depresolver_config.go:188-198, 257-308).                  *)
PeersAgree ==
    config # NoConfig /\ errorConfig = "" =>
        \A i \in DOMAIN config.ExtClustersGeoTags :
            LET peer == Peer(config, i)
            IN  /\ validateConfig(peer) = ""
                /\ GetExternalClusterNSNames(config)[peer.ClusterGeoTag] = GetClusterNSName(peer)
                /\ GetExternalClusterNSNames(peer)[config.ClusterGeoTag] = GetClusterNSName(config)
                /\ GetExternalClusterHeartbeatFQDNs(peer, "gslb")[config.ClusterGeoTag]
                        = GetClusterHeartbeatFQDN(config, "gslb")

=============================================================================
