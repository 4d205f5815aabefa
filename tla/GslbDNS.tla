------------------------------ MODULE GslbDNS ------------------------------
(***************************************************************************)
(* How the k8gb operators of several clusters find each other's healthy    *)
(* targets and publish the answer for one Gslb host.                       *)
(*                                                                         *)
(* Every cluster runs the same reconcile loop for the same Gslb resource.  *)
(* A reconcile reads the health of the Services behind the host, reads the *)
(* addresses of the Ingress load balancer, asks the CoreDNS of the other   *)
(* clusters, one after the other, for their "localtargets-" record, and    *)
(* saves a DNSEndpoint with two records: the cluster's own localtargets    *)
(* and the answer for the host.  All of it interleaves with the other      *)
(* operators, with workloads that come and go and with name servers that   *)
(* stop answering.                                                         *)
(*                                                                         *)
(* An address list is a set here: the code sorts the external part and     *)
(* resolvers do not depend on the order.  A record without targets and a   *)
(* record that does not exist both answer with no address, so both are {}. *)
(* The host lies in EdgeDNSZone (otherwise dnsupdate.go:54 fails every     *)
(* reconcile and nothing is ever published).                               *)
(***************************************************************************)
EXTENDS Naturals, FiniteSets

CONSTANTS
    Cluster,        \* geo tags of the clusters; each has all others as ExtClustersGeoTags
    Addr,           \* load balancer addresses
    Owner,          \* the cluster an address belongs to
    EdgeDNSServer,  \* the name server that holds the glue records
    StrategyTypes,  \* the values of gslb.Spec.Strategy.Type to consider
    PrimaryGeoTag,  \* gslb.Spec.Strategy.PrimaryGeoTag
    Paths,          \* number of HTTP paths, hence backend Services, of the host
    LBHostname,     \* clusters whose load balancer publishes a host name, not an IP
    MaxFaults       \* bound on environment changes and failed calls

ASSUME ClusterAssumption == EdgeDNSServer \notin Cluster
ASSUME OwnerAssumption == Owner \in [Addr -> Cluster]
ASSUME StrategyAssumption ==
    /\ StrategyTypes \subseteq {"roundRobin", "geoip", "failover"}
    /\ PrimaryGeoTag \in Cluster
ASSUME PathsAssumption == Paths \in Nat \ {0}
ASSUME LBHostnameAssumption == LBHostname \subseteq Cluster
ASSUME MaxFaultsAssumption == MaxFaults \in Nat

VARIABLES
    strategyType,     \* gslb.Spec.Strategy.Type, the same in all clusters
    svc,              \* svc[c][p]: what the API server of c knows of the Service of path p
    lb,               \* lb[c]: addresses in the status of the Gslb Ingress of c
    reach,            \* name servers that answer queries
    endpoint,         \* endpoint[c]: the DNSEndpoint of c, as served by the CoreDNS of c
    pc,               \* pc[c]: where the reconcile of c is
    health,           \* health[c]: serviceHealth[host] as read by the running reconcile
    localTargets,     \* localTargets[c]: Ingress addresses as read by the running reconcile
    pending,          \* pending[c]: external clusters the range loop has not reached
    prefixed,         \* prefixed[c]: "localtargets-" was already put in front of host
    externalTargets,  \* externalTargets[c]: targets collected so far
    faults,           \* environment changes and failed calls so far
    wasHealthy,       \* history: clusters whose host was healthy at some time
    seen              \* history: seen[c][d]: the localtargets records d has had since
                      \* the running reconcile of c began

env == <<strategyType, svc, lb, reach>>
locals == <<health, localTargets, pending, prefixed, externalTargets>>
vars == <<env, endpoint, pc, locals, faults, wasHealthy, seen>>

(* The four situations getServiceHealthStatus tells apart for one backend: *)
(* no Service, a Service without an Endpoints object (an error), Endpoints *)
(* without an address, Endpoints with one.                                 *)
SvcState == {"NotFound", "NoEndpoints", "Unhealthy", "Healthy"}
Health == {"NotFound", "Unhealthy", "Healthy"}
DNSEndpoint == [local : SUBSET Addr, host : SUBSET Addr]
NameServer == Cluster \union {EdgeDNSServer}
Addresses(c) == {a \in Addr : Owner[a] = c}

(* The type invariant: in particular the health that decides what is          *)
(* published is one that was really read (dnsupdate.go:41-44).                *)
TypeOK ==
    /\ strategyType \in StrategyTypes
    /\ svc \in [Cluster -> [1..Paths -> SvcState]]
    /\ lb \in [Cluster -> SUBSET Addr]
    /\ reach \in SUBSET NameServer
    /\ endpoint \in [Cluster -> DNSEndpoint]
    /\ pc \in [Cluster -> {"idle", "ips", "query"}]
    /\ health \in [Cluster -> Health]
    /\ localTargets \in [Cluster -> SUBSET Addr]
    /\ pending \in [Cluster -> SUBSET Cluster]
    /\ prefixed \in [Cluster -> BOOLEAN]
    /\ externalTargets \in [Cluster -> SUBSET Addr]
    /\ faults \in Nat
    /\ wasHealthy \in SUBSET Cluster
    /\ seen \in [Cluster -> [Cluster -> SUBSET SUBSET Addr]]

-----------------------------------------------------------------------------
(* Pure parts of the reconcile *)

(* Every path overwrites serviceHealth[rule.Host], so the last one decides. *)
getServiceHealthStatus(backends) == backends[Paths]

(* A Service whose Endpoints object cannot be read ends the whole reconcile. *)
healthReadable(backends) == \A p \in 1..Paths : backends[p] # "NoEndpoints"

(* Mutant: round robin answers with the external targets only. *)
finalTargetsReplace(c, h, own, external) ==
    IF external = {} /\ h = "Healthy" THEN own ELSE external

(* Mutant: a failover secondary appends the external targets to its own. *)
finalTargetsAppend(c, h, own, external) ==
    LET mine == IF h = "Healthy" THEN own ELSE {}
    IN  IF PrimaryGeoTag = c /\ h = "Healthy" THEN mine ELSE mine \union external

(* Mutant: the primary hands over whenever there are external targets. *)
finalTargetsHandOver(c, h, own, external) ==
    IF external = {} THEN (IF h = "Healthy" THEN own ELSE {}) ELSE external

(* Mutant: the primary never hands over. *)
finalTargetsNoFailover(c, h, own, external) ==
    LET mine == IF h = "Healthy" THEN own ELSE {}
    IN  IF PrimaryGeoTag = c \/ external = {} THEN mine ELSE external

(* The targets gslbDNSEndpoint puts into the record of the host. *)
finalTargets(c, h, own, external) ==
    LET mine == IF h = "Healthy" THEN own ELSE {}
    IN  IF external = {} THEN mine
        ELSE IF strategyType \in {"roundRobin", "geoip"} THEN mine \union external
        ELSE IF PrimaryGeoTag = c
             THEN IF h # "Healthy" THEN external ELSE mine
             ELSE external

(* Mutant: the localtargets record does not depend on the health. *)
gslbDNSEndpointAlways(c, h, own, external) ==
    [local |-> own, host |-> finalTargets(c, h, own, external)]

(* The DNSEndpoint: the localtargets record and the record of the host. *)
gslbDNSEndpoint(c, h, own, external) ==
    [local |-> IF h = "Healthy" THEN own ELSE {},
     host  |-> finalTargets(c, h, own, external)]

(* Mutant: the host itself is asked for, so answers are passed on. *)
hostAnswer(c, d) == IF prefixed[c] THEN {} ELSE endpoint[d].host

(* What the CoreDNS of d answers to the name c asks for.  GetExternalTargets *)
(* prefixes its host variable once per loop iteration, so only the first     *)
(* cluster asked is asked for the name it publishes.                         *)
localtargetsAnswer(c, d) == IF prefixed[c] THEN {} ELSE endpoint[d].local

-----------------------------------------------------------------------------
Init ==
    /\ strategyType \in StrategyTypes
    /\ svc \in [Cluster -> [1..Paths -> SvcState]]
    /\ lb = [c \in Cluster |-> Addresses(c)]
    /\ reach = NameServer
    /\ endpoint = [c \in Cluster |-> [local |-> {}, host |-> {}]]
    /\ pc = [c \in Cluster |-> "idle"]
    /\ health = [c \in Cluster |-> "NotFound"]
    /\ localTargets = [c \in Cluster |-> {}]
    /\ pending = [c \in Cluster |-> {}]
    /\ prefixed = [c \in Cluster |-> FALSE]
    /\ externalTargets = [c \in Cluster |-> {}]
    /\ faults = 0
    /\ wasHealthy = {c \in Cluster : getServiceHealthStatus(svc[c]) = "Healthy"}
    /\ seen = [c \in Cluster |-> [d \in Cluster |-> {}]]

(* Mutant: the targets that were found outlive the reconcile. *)
ReturnKeepingTargets(c) ==
    /\ pc' = [pc EXCEPT ![c] = "idle"]
    /\ health' = [health EXCEPT ![c] = "NotFound"]
    /\ localTargets' = [localTargets EXCEPT ![c] = {}]
    /\ pending' = [pending EXCEPT ![c] = {}]
    /\ prefixed' = [prefixed EXCEPT ![c] = FALSE]
    /\ UNCHANGED externalTargets

(* The reconcile of c returns and forgets its local variables. *)
Return(c) ==
    /\ pc' = [pc EXCEPT ![c] = "idle"]
    /\ health' = [health EXCEPT ![c] = "NotFound"]
    /\ localTargets' = [localTargets EXCEPT ![c] = {}]
    /\ pending' = [pending EXCEPT ![c] = {}]
    /\ prefixed' = [prefixed EXCEPT ![c] = FALSE]
    /\ externalTargets' = [externalTargets EXCEPT ![c] = {}]

Fault ==
    /\ faults < MaxFaults
    /\ faults' = faults + 1

(* Mutant: the error of getServiceHealthStatus is ignored. *)
ReadServiceHealthAnyway(c) ==
    /\ pc[c] = "idle"
    /\ health' = [health EXCEPT ![c] = getServiceHealthStatus(svc[c])]
    /\ pc' = [pc EXCEPT ![c] = "ips"]
    /\ seen' = [seen EXCEPT ![c] = [d \in Cluster |-> {endpoint[d].local}]]
    /\ UNCHANGED <<env, endpoint, localTargets, pending, prefixed,
                   externalTargets, faults, wasHealthy>>

(* Reconcile reaches gslbDNSEndpoint, which reads the health of the host. *)
ReadServiceHealth(c) ==
    /\ pc[c] = "idle"
    /\ healthReadable(svc[c])
    /\ health' = [health EXCEPT ![c] = getServiceHealthStatus(svc[c])]
    /\ pc' = [pc EXCEPT ![c] = "ips"]
    /\ seen' = [seen EXCEPT ![c] = [d \in Cluster |-> {endpoint[d].local}]]
    /\ UNCHANGED <<env, endpoint, localTargets, pending, prefixed,
                   externalTargets, faults, wasHealthy>>

(* The health cannot be read: Reconcile returns the error and is requeued. *)
HealthError(c) ==
    /\ pc[c] = "idle"
    /\ ~healthReadable(svc[c])
    /\ UNCHANGED vars

(* The Ingress addresses; a host name is resolved by EdgeDNSServer. *)
GslbIngressExposedIPs(c) ==
    /\ pc[c] = "ips"
    /\ (c \in LBHostname /\ lb[c] # {}) => EdgeDNSServer \in reach
    /\ localTargets' = [localTargets EXCEPT ![c] = lb[c]]
    /\ pending' = [pending EXCEPT ![c] = Cluster \ {c}]
    /\ pc' = [pc EXCEPT ![c] = "query"]
    /\ UNCHANGED <<env, endpoint, health, prefixed, externalTargets,
                   faults, wasHealthy, seen>>

(* Dig fails, and with it the reconcile, before anything is saved. *)
DigError(c) ==
    /\ pc[c] = "ips"
    /\ c \in LBHostname /\ lb[c] # {}
    /\ EdgeDNSServer \notin reach
    /\ Return(c)
    /\ seen' = [seen EXCEPT ![c] = [d \in Cluster |-> {}]]
    /\ UNCHANGED <<env, endpoint, faults, wasHealthy>>

(* One iteration of the loop of GetExternalTargets: the map is ranged over   *)
(* in any order; glue from EdgeDNSServer, then the targets from d itself.    *)
GetExternalTargets(c, d) ==
    /\ pc[c] = "query"
    /\ d \in pending[c]
    /\ {EdgeDNSServer, d} \subseteq reach
    /\ externalTargets' = [externalTargets EXCEPT ![c] = @ \union localtargetsAnswer(c, d)]
    /\ prefixed' = [prefixed EXCEPT ![c] = TRUE]
    /\ pending' = [pending EXCEPT ![c] = @ \ {d}]
    /\ UNCHANGED <<env, endpoint, pc, health, localTargets, faults,
                   wasHealthy, seen>>

(* A query that fails ends the loop: the clusters not yet asked are skipped. *)
QueryError(c, d) ==
    /\ pc[c] = "query"
    /\ d \in pending[c]
    /\ ~({EdgeDNSServer, d} \subseteq reach)
    /\ pending' = [pending EXCEPT ![c] = {}]
    /\ UNCHANGED <<env, endpoint, pc, health, localTargets, prefixed,
                   externalTargets, faults, wasHealthy, seen>>

(* What the running reconciles have seen, after c has saved the record local. *)
Shown(c, local) ==
    [x \in Cluster |-> [d \in Cluster |->
        IF x = c THEN {}
        ELSE IF d = c /\ seen[x][d] # {} THEN seen[x][d] \union {local}
        ELSE seen[x][d]]]

(* The loop is over: create or update the DNSEndpoint, which CoreDNS serves  *)
(* from now on.  What follows in Reconcile does not touch these variables.   *)
SaveDNSEndpoint(c) ==
    /\ pc[c] = "query"
    /\ pending[c] = {}
    /\ LET e == gslbDNSEndpoint(c, health[c], localTargets[c], externalTargets[c])
       IN  /\ endpoint' = [endpoint EXCEPT ![c] = e]
           /\ seen' = Shown(c, e.local)
    /\ Return(c)
    /\ UNCHANGED <<env, faults, wasHealthy>>

(* Reconcile returns early: a failed read, a failed or conflicting save,   *)
(* or a restart of the operator.                                           *)
Abort(c) ==
    /\ pc[c] # "idle"
    /\ Fault
    /\ Return(c)
    /\ seen' = [seen EXCEPT ![c] = [d \in Cluster |-> {}]]
    /\ UNCHANGED <<env, endpoint, wasHealthy>>

Reconcile(c) ==
    \/ ReadServiceHealth(c)
    \/ HealthError(c)
    \/ GslbIngressExposedIPs(c)
    \/ DigError(c)
    \/ \E d \in Cluster : GetExternalTargets(c, d)
    \/ \E d \in Cluster : QueryError(c, d)
    \/ SaveDNSEndpoint(c)

-----------------------------------------------------------------------------
(* The environment: workloads, load balancers and name servers *)

ServiceChanges(c) ==
    /\ Fault
    /\ \E p \in 1..Paths, s \in SvcState :
          /\ s # svc[c][p]
          /\ svc' = [svc EXCEPT ![c][p] = s]
    /\ wasHealthy' = IF getServiceHealthStatus(svc'[c]) = "Healthy"
                     THEN wasHealthy \union {c} ELSE wasHealthy
    /\ UNCHANGED <<strategyType, lb, reach, endpoint, pc, locals, seen>>

AddressesChange(c) ==
    /\ Fault
    /\ \E A \in SUBSET Addresses(c) :
          /\ A # lb[c]
          /\ lb' = [lb EXCEPT ![c] = A]
    /\ UNCHANGED <<strategyType, svc, reach, endpoint, pc, locals, wasHealthy, seen>>

NameServerChanges(n) ==
    /\ Fault
    /\ reach' = IF n \in reach THEN reach \ {n} ELSE reach \union {n}
    /\ UNCHANGED <<strategyType, svc, lb, endpoint, pc, locals, wasHealthy, seen>>

Next ==
    \/ \E c \in Cluster : Reconcile(c)
    \/ \E c \in Cluster : Abort(c)
    \/ \E c \in Cluster : ServiceChanges(c)
    \/ \E c \in Cluster : AddressesChange(c)
    \/ \E n \in NameServer : NameServerChanges(n)

Spec == Init /\ [][Next]_vars

(* Every reconcile is requeued, after an error at once and otherwise after *)
(* ReconcileRequeueSeconds, and every call it makes returns.  Nothing is   *)
(* assumed of the environment.                                             *)
FairSpec == Spec /\ \A c \in Cluster : WF_vars(Reconcile(c))

-----------------------------------------------------------------------------
(* Safety *)

(* No name server ever answers with an address of a cluster whose workload   *)
(* was never healthy.  The address travels from the Ingress of one cluster   *)
(* through its localtargets record into the host records of the others; only *)
(* the check at dnsupdate.go:58 keeps it from starting.                      *)
NeverHealthyNeverResolved ==
    \A c \in Cluster : \A a \in endpoint[c].host : Owner[a] \in wasHealthy

(* A cluster that has advertised nothing since before a reconcile began is   *)
(* gone from the host record this reconcile saves: a stale target is not     *)
(* kept alive by the other clusters.                                         *)
WithdrawnStaysOut ==
    [][\A c \in Cluster : SaveDNSEndpoint(c) =>
          \A a \in endpoint'[c].host : Owner[a] # c => seen[c][Owner[a]] # {{}}]_vars

(* Under failover a name server never mixes the addresses of two clusters,   *)
(* whatever the interleaving of the queries with the saves of the others.    *)
FailoverNeverMixes ==
    strategyType = "failover" =>
        \A c \in Cluster : \A a, b \in endpoint[c].host : Owner[a] = Owner[b]

(* Why the three hold.  Every address stays with its owner on its way from   *)
(* the Ingress to the localtargets record.                                   *)
AddressInv ==
    \A c \in Cluster :
        /\ lb[c] \subseteq Addresses(c)
        /\ localTargets[c] \subseteq Addresses(c)
        /\ endpoint[c].local \subseteq Addresses(c)

(* Whatever is healthy, read as healthy or advertised was healthy. *)
HealthyInv ==
    \A c \in Cluster :
        /\ getServiceHealthStatus(svc[c]) = "Healthy" => c \in wasHealthy
        /\ health[c] = "Healthy" => c \in wasHealthy
        /\ endpoint[c].local # {} => c \in wasHealthy
        /\ \A a \in externalTargets[c] : Owner[a] \in wasHealthy

(* A running reconcile has seen what the others advertise, each of them its   *)
(* own addresses and only if it was healthy.                                 *)
SeenInv ==
    \A c, d \in Cluster :
        /\ pc[c] = "idle" <=> seen[c][d] = {}
        /\ pc[c] # "idle" => endpoint[d].local \in seen[c][d]
        /\ \A A \in seen[c][d] : A \subseteq Addresses(d)

(* A cluster asks only others, and only the first one asked contributes       *)
(* external targets: one record it has had since the reconcile began.        *)
FirstAnswerInv ==
    \A c \in Cluster :
        /\ c \notin pending[c]
        /\ ~prefixed[c] => externalTargets[c] = {}
        /\ pc[c] # "query" => externalTargets[c] = {}
        /\ externalTargets[c] # {} =>
              \E d \in Cluster \ {c} : externalTargets[c] \in seen[c][d]

(* The operators together promise GslbAnswer: an answer is made of whole     *)
(* records, each in force at some time while it was worked out, none of a    *)
(* cluster that was never healthy and under failover of one cluster only.    *)
Abstract == INSTANCE GslbAnswer WITH
    everHealthy <- wasHealthy,
    advert <- [c \in Cluster |-> endpoint[c].local],
    answer <- [c \in Cluster |-> endpoint[c].host],
    window <- seen

(* What the reconciles do, from the first read to the save (dnsupdate.go:37- *)
(* 136), with queries, saves and errors of all clusters interleaved, is what *)
(* GslbAnswer allows.                                                        *)
ImplementsAnswer == Abstract!Spec

-----------------------------------------------------------------------------
(* Convergence.  Faults are bounded, so the environment settles; each        *)
(* property says what must then hold for ever from some time on.             *)

(* The documented health of the host: some Pod behind it is healthy. *)
HostHealthy(c) == \E p \in 1..Paths : svc[c][p] = "Healthy"

(* Nothing keeps the reconciles from running to their end. *)
Settled ==
    /\ EdgeDNSServer \in reach
    /\ \A c \in Cluster : healthReadable(svc[c])

(* The clusters whose name server c can ask, and c itself. *)
Visible(c) == {c} \union (reach \cap Cluster)

(* docs/index.md:98: every instance ends up with the addresses of all        *)
(* clusters with a healthy workload, its own included.                       *)
RoundRobinComplete ==
    <>[](Settled /\ strategyType # "failover") => <>[](\A c \in Cluster :
        endpoint[c].host = UNION {lb[d] : d \in {e \in Visible(c) : HostHealthy(e)}})

(* docs/index.md:148: while the primary is healthy every instance answers    *)
(* with the addresses of the primary and with no other.                      *)
FailoverPinned ==
    <>[](/\ Settled /\ strategyType = "failover"
         /\ HostHealthy(PrimaryGeoTag) /\ lb[PrimaryGeoTag] # {})
        => <>[](\A c \in Cluster : PrimaryGeoTag \in Visible(c) =>
                    endpoint[c].host = lb[PrimaryGeoTag])

(* dnsupdate.go:90-92: while the primary is healthy a secondary answers with *)
(* the addresses of the primary, and with its own by default, but not with   *)
(* those of another secondary.                                               *)
SecondariesKeepOut ==
    <>[](/\ Settled /\ strategyType = "failover"
         /\ HostHealthy(PrimaryGeoTag) /\ lb[PrimaryGeoTag] # {})
        => <>[](\A c \in Cluster \ {PrimaryGeoTag} :
                    endpoint[c].host \subseteq Addresses(c) \union Addresses(PrimaryGeoTag))

(* When the primary is not healthy, or has no address, some other healthy    *)
(* cluster that can be asked takes over: no instance is left without an      *)
(* answer, but for a healthy primary that waits for its address.             *)
FailoverTakesOver ==
    <>[](/\ Settled /\ strategyType = "failover"
         /\ ~HostHealthy(PrimaryGeoTag) \/ lb[PrimaryGeoTag] = {}) => <>[](\A c \in Cluster :
        (/\ c # PrimaryGeoTag \/ ~HostHealthy(c)
         /\ \E d \in Visible(c) : HostHealthy(d) /\ lb[d] # {}) => endpoint[c].host # {})
=============================================================================
