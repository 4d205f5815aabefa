----------------------------- MODULE GslbStatus -----------------------------
(***************************************************************************)
(* How one operator reports what it published: the status of a Gslb with   *)
(* several hosts, and the metrics.                                         *)
(*                                                                         *)
(* The reconcile builds and saves the DNSEndpoint (GslbDNS models what is  *)
(* in it), delegates the zone and then computes the status from scratch:   *)
(* it reads the health of the Services a second time, and the records from *)
(* the DNSEndpoint in the client's cache, which lags behind what was just  *)
(* saved.  The metrics are set along the way, before the status is stored. *)
(***************************************************************************)
EXTENDS Naturals, FiniteSets, FiniteSetsExt

CONSTANTS
    Host,       \* the hosts of the Gslb, one backend Service each
    Addr,       \* load balancer addresses of all clusters
    Own,        \* those of the own cluster
    MaxFaults   \* bound on environment changes and failed calls

ASSUME HostAssumption == IsFiniteSet(Host)
ASSUME OwnAssumption == Own \subseteq Addr
ASSUME MaxFaultsAssumption == MaxFaults \in Nat

VARIABLES
    svc,             \* svc[h]: what the API server knows of the Service of h
    external,        \* external[h]: what the other clusters advertise for h
    pc,              \* where the reconcile is
    built,           \* the host records gslbDNSEndpoint has put together
    endpoint,        \* the DNSEndpoint in the API server
    previous,        \* history: the records in it before the last save
    cached,          \* the DNSEndpoint in the cache of the client
    serviceHealth,   \* gslb.Status.ServiceHealth
    healthyRecords,  \* gslb.Status.HealthyRecords
    hostsMetric,     \* ingress_hosts_per_status gauge
    recordsMetric,   \* healthy_records gauge
    faults           \* environment changes and failed calls so far

env == <<svc, external>>
gslbStatus == <<serviceHealth, healthyRecords>>
metrics == <<hostsMetric, recordsMetric>>
stored == <<endpoint, previous>>
vars == <<env, pc, built, stored, cached, gslbStatus, metrics, faults>>

SvcState == {"NotFound", "NoEndpoints", "Unhealthy", "Healthy"}
Health == {"NotFound", "Unhealthy", "Healthy"}
Records == [Host -> SUBSET Addr]
NoRecords == [h \in Host |-> {}]
DNSEndpoint == [exists : BOOLEAN, records : Records]

-----------------------------------------------------------------------------
(* Reading the health fails when a Service has no Endpoints object. *)
healthReadable == \A h \in Host : svc[h] # "NoEndpoints"

(* The A records that are not localtargets; built, endpoint and cached hold   *)
(* no others, as nothing here depends on the localtargets.                    *)
getHealthyRecords(e) == e.records

(* UpdateIngressHostsPerStatusMetric *)
hostsPerStatus(health) == [s \in Health |-> Cardinality({h \in Host : health[h] = s})]

(* Mutant: hosts are counted, not their targets. *)
healthyHostsCount(records) == Cardinality({h \in Host : records[h] # {}})

(* UpdateHealthyRecordsMetric *)
healthyRecordsCount(records) ==
    FoldSet(LAMBDA h, n : n + Cardinality(records[h]), 0, Host)

(* The type invariant: in particular only a health that was really read gets  *)
(* into the status (status.go:35-38), and only counts of records get into the gauge.         *)
TypeOK ==
    /\ svc \in [Host -> SvcState]
    /\ external \in Records
    /\ pc \in {"idle", "save", "zone", "status"}
    /\ built \in Records
    /\ endpoint \in DNSEndpoint
    /\ previous \in Records
    /\ cached \in DNSEndpoint
    /\ serviceHealth \in [Host -> Health \union {""}]
    /\ healthyRecords \in Records
    /\ hostsMetric \in [Health -> Nat]
    /\ recordsMetric \in {0} \union {healthyRecordsCount(r) : r \in Records}
    /\ faults \in Nat

Init ==
    /\ svc \in [Host -> SvcState]
    /\ external \in [Host -> SUBSET (Addr \ Own)]
    /\ pc = "idle"
    /\ built = NoRecords
    /\ endpoint = [exists |-> FALSE, records |-> NoRecords]
    /\ previous = NoRecords
    /\ cached = endpoint
    /\ serviceHealth = [h \in Host |-> ""]
    /\ healthyRecords = NoRecords
    /\ hostsMetric = [s \in Health |-> 0]
    /\ recordsMetric = 0
    /\ faults = 0

Return == pc' = "idle" /\ built' = NoRecords

Fault ==
    /\ faults < MaxFaults
    /\ faults' = faults + 1

(* The first read of the health, and the records that follow from it. *)
gslbDNSEndpoint ==
    /\ pc = "idle"
    /\ healthReadable
    /\ built' = [h \in Host |-> (IF svc[h] = "Healthy" THEN Own ELSE {}) \union external[h]]
    /\ pc' = "save"
    /\ UNCHANGED <<env, stored, cached, gslbStatus, metrics, faults>>

(* The health cannot be read: Reconcile returns the error and is requeued. *)
HealthError ==
    /\ pc = "idle"
    /\ ~healthReadable
    /\ UNCHANGED vars

(* Mutant: the update carries no resource version. *)
SaveBlindly ==
    /\ pc = "save"
    /\ endpoint' = [exists |-> TRUE, records |-> built]
    /\ previous' = endpoint.records
    /\ pc' = "zone"
    /\ UNCHANGED <<env, built, cached, gslbStatus, metrics, faults>>

(* Get from the cache, then create or update. *)
SaveDNSEndpoint ==
    /\ pc = "save"
    /\ cached = endpoint
    /\ endpoint' = [exists |-> TRUE, records |-> built]
    /\ previous' = endpoint.records
    /\ pc' = "zone"
    /\ UNCHANGED <<env, built, cached, gslbStatus, metrics, faults>>

(* The cache lags behind what this operator wrote: the create meets an       *)
(* existing object, or the update carries an old resource version.           *)
SaveConflict ==
    /\ pc = "save"
    /\ cached # endpoint
    /\ Return
    /\ UNCHANGED <<env, stored, cached, gslbStatus, metrics, faults>>

ZoneDelegated ==
    /\ pc = "zone"
    /\ pc' = "status"
    /\ UNCHANGED <<env, built, stored, cached, gslbStatus, metrics, faults>>

(* Reconcile is requeued without touching the status. *)
ZoneDelegationError ==
    /\ pc = "zone"
    /\ Fault
    /\ Return
    /\ UNCHANGED <<env, stored, cached, gslbStatus, metrics>>

(* Mutant: the status is not stored when there are no records to report. *)
updateNonEmptyStatus ==
    /\ pc = "status"
    /\ healthReadable
    /\ cached.exists
    /\ hostsMetric' = hostsPerStatus(svc)
    /\ recordsMetric' = healthyRecordsCount(getHealthyRecords(cached))
    /\ IF cached.records = NoRecords
       THEN UNCHANGED gslbStatus
       ELSE serviceHealth' = svc /\ healthyRecords' = cached.records
    /\ Return
    /\ UNCHANGED <<env, stored, cached, faults>>

(* Mutant: the error of the second health read is ignored. *)
updateStatusAnyway ==
    /\ pc = "status"
    /\ cached.exists
    /\ hostsMetric' = hostsPerStatus(svc)
    /\ recordsMetric' = healthyRecordsCount(getHealthyRecords(cached))
    /\ serviceHealth' = svc
    /\ healthyRecords' = getHealthyRecords(cached)
    /\ Return
    /\ UNCHANGED <<env, stored, cached, faults>>

updateGslbStatus ==
    /\ pc = "status"
    /\ healthReadable
    /\ cached.exists
    /\ hostsMetric' = hostsPerStatus(svc)
    /\ recordsMetric' = healthyRecordsCount(getHealthyRecords(cached))
    /\ serviceHealth' = svc
    /\ healthyRecords' = getHealthyRecords(cached)
    /\ Return
    /\ UNCHANGED <<env, stored, cached, faults>>

(* An error on the way: the health cannot be read, or the cache has no        *)
(* DNSEndpoint yet, when one gauge is already set.                            *)
StatusReadError ==
    /\ pc = "status"
    /\ ~(healthReadable /\ cached.exists)
    /\ hostsMetric' = IF healthReadable THEN hostsPerStatus(svc) ELSE hostsMetric
    /\ Return
    /\ UNCHANGED <<env, stored, cached, gslbStatus, recordsMetric, faults>>

(* Status().Update fails, when both gauges are already set. *)
StatusUpdateError ==
    /\ pc = "status"
    /\ healthReadable
    /\ cached.exists
    /\ Fault
    /\ hostsMetric' = hostsPerStatus(svc)
    /\ recordsMetric' = healthyRecordsCount(getHealthyRecords(cached))
    /\ Return
    /\ UNCHANGED <<env, stored, cached, gslbStatus>>

Reconcile ==
    \/ gslbDNSEndpoint
    \/ HealthError
    \/ SaveDNSEndpoint
    \/ SaveConflict
    \/ ZoneDelegated
    \/ updateGslbStatus
    \/ StatusReadError

-----------------------------------------------------------------------------
(* The watch delivers the saved DNSEndpoint to the cache. *)
CacheSync ==
    /\ cached # endpoint
    /\ cached' = endpoint
    /\ UNCHANGED <<env, pc, built, stored, gslbStatus, metrics, faults>>

ServiceChanges(h) ==
    /\ Fault
    /\ \E s \in SvcState \ {svc[h]} : svc' = [svc EXCEPT ![h] = s]
    /\ UNCHANGED <<external, pc, built, stored, cached, gslbStatus, metrics>>

ExternalChanges(h) ==
    /\ Fault
    /\ \E A \in SUBSET (Addr \ Own) : A # external[h] /\ external' = [external EXCEPT ![h] = A]
    /\ UNCHANGED <<svc, pc, built, stored, cached, gslbStatus, metrics>>

(* The operator restarts: its metrics and local variables start from nothing. *)
Restart ==
    /\ Fault
    /\ Return
    /\ cached' = endpoint
    /\ hostsMetric' = [s \in Health |-> 0]
    /\ recordsMetric' = 0
    /\ UNCHANGED <<env, stored, gslbStatus>>

Next ==
    \/ Reconcile
    \/ ZoneDelegationError
    \/ StatusUpdateError
    \/ CacheSync
    \/ \E h \in Host : ServiceChanges(h) \/ ExternalChanges(h)
    \/ Restart

Spec == Init /\ [][Next]_vars

(* Every reconcile is requeued and watches deliver. *)
FairSpec == Spec /\ WF_vars(Reconcile) /\ WF_vars(CacheSync)

-----------------------------------------------------------------------------
(* The status reports the records this reconcile saved or, when the cache     *)
(* lags, those of the save before, but never older ones: the conflict of a    *)
(* save from an old copy keeps the cache from falling behind further          *)
(* (status.go:113, gslb.go:158).                                              *)
StatusIsRecent ==
    [][updateGslbStatus => healthyRecords' \in {endpoint.records, previous}]_vars

(* What the status and the metrics ought to be. *)
Expected == [h \in Host |-> (IF svc[h] = "Healthy" THEN Own ELSE {}) \union external[h]]

(* Once the Services settle, the DNSEndpoint and the status agree with them   *)
(* and with each other for ever, though the status comes from a second read   *)
(* of the health and from a cache that lags (status.go:35, status.go:113).    *)
StatusConverges ==
    <>[]healthReadable => <>[](/\ endpoint.records = Expected
                               /\ serviceHealth = svc
                               /\ healthyRecords = Expected)

(* So do the gauges, though errors leave them ahead of the status and a       *)
(* restart sets them back (status.go:40, status.go:52).                       *)
MetricsConverge ==
    <>[]healthReadable =>
        <>[](/\ \A s \in Health : hostsMetric[s] = Cardinality({h \in Host : svc[h] = s})
             /\ recordsMetric = Cardinality({p \in Host \X Addr : p[2] \in Expected[p[1]]}))
=============================================================================
