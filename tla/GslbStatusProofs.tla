-------------------------- MODULE GslbStatusProofs --------------------------
(***************************************************************************)
(* Proofs about GslbStatus, for any number of hosts, addresses and faults. *)
(***************************************************************************)
EXTENDS GslbStatus, FiniteSetTheorems, TLAPS

(* The values the records are made of. *)
LEMMA RecordTypes ==
    /\ NoRecords \in Records
    /\ \A e \in [Host -> SUBSET (Addr \ Own)] : e \in Records
  BY DEF NoRecords, Records

(* Hosts are counted by their health, whatever it is. *)
LEMMA HostsPerStatusType ==
    ASSUME NEW health
    PROVE  hostsPerStatus(health) \in [Health -> Nat]
  <1>1. ASSUME NEW s PROVE Cardinality({h \in Host : health[h] = s}) \in Nat
    <2>1. IsFiniteSet({h \in Host : health[h] = s})
      BY HostAssumption, FS_Subset
    <2>. QED
      BY <2>1, FS_CardinalityType
  <1>. QED
    BY <1>1 DEF hostsPerStatus

(* A fault is counted. *)
LEMMA FaultType ==
    ASSUME faults \in Nat, Fault
    PROVE  faults' \in Nat
  BY MaxFaultsAssumption DEF Fault

(* The records and the count a status update reads from the cache. *)
LEMMA CachedType ==
    ASSUME TypeOK
    PROVE  /\ getHealthyRecords(cached) \in Records
           /\ healthyRecordsCount(getHealthyRecords(cached))
                 \in {healthyRecordsCount(r) : r \in Records}
  BY DEF TypeOK, DNSEndpoint, getHealthyRecords

(* A health that could be read is one the status may hold. *)
LEMMA ReadHealthType ==
    ASSUME TypeOK, healthReadable
    PROVE  svc \in [Host -> Health \union {""}]
  BY DEF TypeOK, healthReadable, SvcState, Health

(* The step of every action. *)
LEMMA TypeStep == TypeOK /\ [Next]_vars => TypeOK'
  <1>. SUFFICES ASSUME TypeOK, [Next]_vars PROVE TypeOK'
    OBVIOUS
  <1>. USE DEF env, stored, gslbStatus, metrics
  <1>1. CASE gslbDNSEndpoint
    <2>1. built' \in Records
      BY <1>1, OwnAssumption DEF gslbDNSEndpoint, TypeOK, Records
    <2>. QED
      BY <1>1, <2>1 DEF gslbDNSEndpoint, TypeOK
  <1>2. CASE SaveDNSEndpoint
    <2>1. endpoint' \in DNSEndpoint /\ previous' \in Records
      BY <1>2 DEF SaveDNSEndpoint, TypeOK, DNSEndpoint
    <2>. QED
      BY <1>2, <2>1 DEF SaveDNSEndpoint, TypeOK
  <1>3. CASE SaveConflict
    BY <1>3, RecordTypes DEF SaveConflict, Return, TypeOK
  <1>4. CASE ZoneDelegated
    BY <1>4 DEF ZoneDelegated, TypeOK
  <1>5. CASE ZoneDelegationError
    BY <1>5, FaultType, RecordTypes DEF ZoneDelegationError, Return, TypeOK
  <1>6. CASE updateGslbStatus
    BY <1>6, CachedType, ReadHealthType, HostsPerStatusType, RecordTypes
       DEF updateGslbStatus, Return, TypeOK
  <1>7. CASE StatusReadError
    <2>1. hostsMetric' \in [Health -> Nat]
      BY <1>7, HostsPerStatusType DEF StatusReadError, TypeOK
    <2>. QED
      BY <1>7, <2>1, RecordTypes DEF StatusReadError, Return, TypeOK
  <1>8. CASE StatusUpdateError
    BY <1>8, FaultType, CachedType, HostsPerStatusType, RecordTypes
       DEF StatusUpdateError, Return, TypeOK
  <1>9. CASE CacheSync
    BY <1>9 DEF CacheSync, TypeOK
  <1>10. ASSUME NEW h \in Host, ServiceChanges(h) PROVE TypeOK'
    BY <1>10, FaultType DEF ServiceChanges, TypeOK
  <1>11. ASSUME NEW h \in Host, ExternalChanges(h) PROVE TypeOK'
    <2>1. external' \in Records
      BY <1>11 DEF ExternalChanges, TypeOK, Records
    <2>. QED
      BY <1>11, <2>1, FaultType DEF ExternalChanges, TypeOK
  <1>12. CASE Restart
    BY <1>12, FaultType, RecordTypes DEF Restart, Return, TypeOK
  <1>13. CASE UNCHANGED vars
    BY <1>13 DEF vars, TypeOK
  <1>. QED
    BY <1>1, <1>2, <1>3, <1>4, <1>5, <1>6, <1>7, <1>8, <1>9, <1>10, <1>11, <1>12, <1>13
       DEF Next, Reconcile, HealthError

LEMMA InitType == Init => TypeOK
  <1>. SUFFICES ASSUME Init PROVE TypeOK
    OBVIOUS
  <1>1. external \in Records
    BY RecordTypes DEF Init
  <1>2. endpoint \in DNSEndpoint /\ cached = endpoint
    BY RecordTypes DEF Init, DNSEndpoint
  <1>. QED
    BY <1>1, <1>2, RecordTypes DEF Init, TypeOK, Health

(* In every reachable state the status holds only a health that was read      *)
(* (never that of a Service whose Endpoints could not be), and the gauges     *)
(* hold counts, also after errors and restarts between their updates.         *)
THEOREM TypeCorrect == Spec => []TypeOK
  BY InitType, TypeStep, PTL DEF Spec

-----------------------------------------------------------------------------
(* The cache *)

(* The cache has the stored DNSEndpoint, or the one before the last save, of  *)
(* which at least the existence may still be news to it.                      *)
CacheInv ==
    \/ cached = endpoint
    \/ cached.records = previous

LEMMA CacheStep == CacheInv /\ [Next]_vars => CacheInv'
  <1>. SUFFICES ASSUME CacheInv, [Next]_vars PROVE CacheInv'
    OBVIOUS
  <1>1. CASE SaveDNSEndpoint
    <2>1. cached' = endpoint /\ previous' = endpoint.records
      BY <1>1 DEF SaveDNSEndpoint
    <2>. QED
      BY <2>1 DEF CacheInv
  <1>2. CASE CacheSync \/ Restart
    <2>1. cached' = endpoint /\ endpoint' = endpoint
      BY <1>2 DEF CacheSync, Restart, stored
    <2>. QED
      BY <2>1 DEF CacheInv
  <1>3. CASE \/ gslbDNSEndpoint \/ HealthError \/ SaveConflict \/ ZoneDelegated \/ updateGslbStatus
             \/ StatusReadError \/ ZoneDelegationError \/ StatusUpdateError
             \/ \E h \in Host : ServiceChanges(h) \/ ExternalChanges(h)
             \/ UNCHANGED vars
    <2>1. UNCHANGED <<endpoint, previous, cached>>
      BY <1>3 DEF gslbDNSEndpoint, HealthError, SaveConflict, ZoneDelegated, updateGslbStatus,
                  StatusReadError, ZoneDelegationError, StatusUpdateError, ServiceChanges,
                  ExternalChanges, vars, stored
    <2>. QED
      BY <2>1 DEF CacheInv
  <1>. QED
    BY <1>1, <1>2, <1>3 DEF Next, Reconcile

(* The records in a status are those of the DNSEndpoint as it is stored or as *)
(* it was before the last save, never older ones, for any number of hosts,    *)
(* however slow the cache and whatever fails (status.go:113, gslb.go:158).    *)
THEOREM StatusIsRecentHolds == Spec => StatusIsRecent
  <1>1. Init => CacheInv
    BY DEF Init, CacheInv
  <1>2. CacheInv => (updateGslbStatus => healthyRecords' \in {endpoint.records, previous})
    BY DEF CacheInv, updateGslbStatus, getHealthyRecords
  <1>. QED
    BY <1>1, <1>2, CacheStep, PTL DEF Spec, StatusIsRecent
=============================================================================
