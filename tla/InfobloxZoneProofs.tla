------------------------- MODULE InfobloxZoneProofs -------------------------
(***************************************************************************)
(* Proofs about InfobloxZone, for any number of clusters, Gslbs, addresses *)
(* and faults, with and without the split brain check.                     *)
(***************************************************************************)
EXTENDS InfobloxZone, TLAPS

(* The value the local variable is reset to is a Gslb. *)
LEMMA SomeGslb == (CHOOSE x \in Gslb : TRUE) \in Gslb
  BY GslbAssumption

(* Returning keeps the types of the program counters and of the locals.       *)
LEMMA ReturnType ==
    ASSUME TypeOK, NEW c \in Cluster, Return(c)
    PROVE  /\ pc' \in [Cluster -> {"idle", "getZone", "inspect", "create", "heartbeat",
                                 "deleteZone", "txt", "finalizer"}]
           /\ gslb' \in [Cluster -> Gslb]
           /\ findZone' \in [Cluster -> SUBSET Addr]
           /\ currentList' \in [Cluster -> SUBSET Addr]
           /\ inspect' \in [Cluster -> SUBSET Cluster]
  BY SomeGslb DEF TypeOK, Return

(* So does going on to the heartbeat. *)
LEMMA HeartbeatType ==
    ASSUME TypeOK, NEW c \in Cluster, Heartbeat(c)
    PROVE  /\ pc' \in [Cluster -> {"idle", "getZone", "inspect", "create", "heartbeat",
                                 "deleteZone", "txt", "finalizer"}]
           /\ gslb' \in [Cluster -> Gslb]
           /\ findZone' \in [Cluster -> SUBSET Addr]
           /\ currentList' \in [Cluster -> SUBSET Addr]
           /\ inspect' \in [Cluster -> SUBSET Cluster]
  <1>1. CASE splitBrainCheck
    BY <1>1 DEF TypeOK, Heartbeat, locals
  <1>2. CASE ~splitBrainCheck
    BY <1>2, ReturnType DEF Heartbeat
  <1>. QED
    BY <1>1, <1>2

(* The step of every action, for type correctness. *)
LEMMA TypeStep == TypeOK /\ [Next]_vars => TypeOK'
  <1>. SUFFICES ASSUME TypeOK, [Next]_vars PROVE TypeOK'
    OBVIOUS
  <1>a. Threshold \in Nat /\ Expired \in Nat /\ Expired \in 0..Expired /\ 0 \in 0..Expired
    BY ThresholdAssumption DEF Expired
  <1>1. ASSUME NEW c \in Cluster, NEW g \in Gslb, GslbIngressExposedIPs(c, g)
        PROVE  TypeOK'
    BY <1>1 DEF TypeOK, GslbIngressExposedIPs, env, ingresses
  <1>2. ASSUME NEW c \in Cluster, NEW g \in Gslb, Finalize(c, g)
        PROVE  TypeOK'
    BY <1>2 DEF TypeOK, Finalize, env, ingresses
  <1>2a. ASSUME NEW c \in Cluster, DeleteZoneDelegated(c) PROVE TypeOK'
    BY <1>2a DEF TypeOK, DeleteZoneDelegated, NoZone, env, ingresses, locals
  <1>2b. ASSUME NEW c \in Cluster, DeleteError(c) PROVE TypeOK'
    BY <1>2b, ReturnType DEF TypeOK, DeleteError, env, ingresses
  <1>3. ASSUME NEW c \in Cluster, GetZoneDelegated(c) PROVE TypeOK'
    <2>1. sanitizeDelegateZone(c, currentList[c], zone.delegateTo) \in SUBSET Addr
      BY DEF TypeOK, sanitizeDelegateZone, filterOutDelegateTo
    <2>. DEFINE I == IF splitBrainCheck THEN Cluster \ {c} ELSE {}
    <2>2. I \in SUBSET Cluster
      OBVIOUS
    <2>3. zone.delegateTo \in SUBSET Addr
      BY DEF TypeOK
    <2>4. CASE zone.exists
      <3>1. /\ pc' = [pc EXCEPT ![c] = "inspect"]
            /\ findZone' = [findZone EXCEPT ![c] = zone.delegateTo]
            /\ currentList' = [currentList EXCEPT
                                 ![c] = sanitizeDelegateZone(c, @, zone.delegateTo)]
            /\ inspect' = [inspect EXCEPT ![c] = I]
            /\ UNCHANGED <<splitBrainCheck, live, deployed, deleting, lb, had, zone, heartbeat,
                         gslb, faults>>
        BY <1>3, <2>4 DEF GetZoneDelegated, env, ingresses
      <3>. HIDE DEF I
      <3>. QED
        BY <2>1, <2>2, <2>3, <3>1 DEF TypeOK
    <2>5. CASE ~zone.exists
      BY <1>3, <2>5 DEF TypeOK, GetZoneDelegated, env, ingresses
    <2>. QED
      BY <2>4, <2>5
  <1>4. ASSUME NEW c \in Cluster, NEW d \in Cluster, Inspect(c, d) PROVE TypeOK'
    BY <1>4 DEF TypeOK, Inspect, filterOutDelegateTo, env, ingresses
  <1>5. ASSUME NEW c \in Cluster, NEW d \in Cluster, InspectError(c, d) PROVE TypeOK'
    BY <1>5 DEF TypeOK, InspectError, Fault, filterOutDelegateTo, env, ingresses
  <1>6. ASSUME NEW c \in Cluster, ZoneUpToDate(c) PROVE TypeOK'
    BY <1>6, HeartbeatType DEF TypeOK, ZoneUpToDate, env, ingresses
  <1>7. ASSUME NEW c \in Cluster, UpdateZoneDelegated(c) PROVE TypeOK'
    BY <1>7, HeartbeatType DEF TypeOK, UpdateZoneDelegated, env, ingresses
  <1>8. ASSUME NEW c \in Cluster, UpdateError(c) PROVE TypeOK'
    BY <1>8, ReturnType DEF TypeOK, UpdateError, env, ingresses
  <1>9. ASSUME NEW c \in Cluster, CreateZoneDelegated(c) PROVE TypeOK'
    BY <1>9, HeartbeatType DEF TypeOK, CreateZoneDelegated, env, ingresses
  <1>10. ASSUME NEW c \in Cluster, CreateError(c) PROVE TypeOK'
    BY <1>10, ReturnType DEF TypeOK, CreateError, env, ingresses
  <1>11. ASSUME NEW c \in Cluster, saveHeartbeatTXTRecord(c) PROVE TypeOK'
    BY <1>a, <1>11, ReturnType DEF TypeOK, saveHeartbeatTXTRecord, env, ingresses
  <1>12. ASSUME NEW c \in Cluster, DeleteTXTRecord(c) PROVE TypeOK'
    BY <1>a, <1>12 DEF TypeOK, DeleteTXTRecord, env, ingresses, locals
  <1>12a. ASSUME NEW c \in Cluster, removeFinalizer(c) PROVE TypeOK'
    BY <1>12a, ReturnType DEF TypeOK, removeFinalizer, ingresses
  <1>13. ASSUME NEW c \in Cluster, Abort(c) PROVE TypeOK'
    BY <1>13, ReturnType DEF TypeOK, Abort, Fault, env, ingresses
  <1>14. ASSUME NEW c \in Cluster, Crash(c) PROVE TypeOK'
    BY <1>14, ReturnType DEF TypeOK, Crash, Fault, ingresses
  <1>15. ASSUME NEW c \in Cluster, Restart(c) PROVE TypeOK'
    BY <1>15 DEF TypeOK, Restart, Fault, locals, ingresses
  <1>16. ASSUME NEW c \in Cluster, AddressesChange(c) PROVE TypeOK'
    BY <1>16 DEF TypeOK, AddressesChange, Addresses, Fault, locals
  <1>17. ASSUME NEW c \in Cluster, NEW g \in Gslb, DeleteGslb(c, g) PROVE TypeOK'
    BY <1>17 DEF TypeOK, DeleteGslb, Fault, locals, ingresses
  <1>18. ASSUME NEW c \in Cluster, NEW g \in Gslb, CreateGslb(c, g) PROVE TypeOK'
    BY <1>18 DEF TypeOK, CreateGslb, Fault, locals, ingresses
  <1>19. ASSUME Tick PROVE TypeOK'
    <2>1. faults' \in Nat
      BY <1>19 DEF TypeOK, Tick, Fault
    <2>2. heartbeat' \in [Gslb -> [Cluster -> 0..Expired]]
      BY <1>a, <1>19 DEF TypeOK, Tick
    <2>. QED
      BY <1>19, <2>1, <2>2 DEF TypeOK, Tick, env, ingresses, locals
  <1>20. CASE UNCHANGED vars
    BY <1>20 DEF TypeOK, vars, env, ingresses, locals
  <1>. QED
    BY <1>1, <1>2, <1>2a, <1>2b, <1>3, <1>4, <1>5, <1>6, <1>7, <1>8, <1>9, <1>10, <1>11, <1>12,
       <1>12a, <1>13, <1>14, <1>15, <1>16, <1>17, <1>18, <1>19, <1>20
       DEF Next, Reconcile, Continue

-----------------------------------------------------------------------------
(* The inductive invariant *)

IInv == TypeOK /\ AtHandInv /\ NoGhostHeartbeat

(* A reconcile that returns has no Gslb at hand. *)
LEMMA ReturnAtHand ==
    ASSUME TypeOK, AtHandInv, NEW c \in Cluster, Return(c),
           \A g \in Gslb, d \in Cluster : d # c => heartbeat'[g][d] = heartbeat[g][d],
           \A d \in Cluster : /\ d # c => deployed[d] \subseteq deployed'[d]
                              /\ deleting'[d] \subseteq deployed'[d]
    PROVE  AtHandInv'
  BY DEF TypeOK, AtHandInv, Return

(* One that goes on to the heartbeat keeps the Gslb it has. *)
LEMMA HeartbeatAtHand ==
    ASSUME TypeOK, AtHandInv, NEW c \in Cluster, pc[c] # "idle", Heartbeat(c),
           UNCHANGED <<deployed, deleting, heartbeat>>
    PROVE  AtHandInv'
  <1>1. CASE splitBrainCheck
    BY <1>1 DEF TypeOK, AtHandInv, Heartbeat, locals
  <1>2. CASE ~splitBrainCheck
    BY <1>2, ReturnAtHand DEF AtHandInv, Heartbeat
  <1>. QED
    BY <1>1, <1>2

(* The step of every action: where neither the heartbeats nor the Gslbs of a  *)
(* cluster change, only the Gslb at hand is at stake.                         *)
LEMMA StepIInv == IInv /\ [Next]_vars => IInv'
  <1>. SUFFICES ASSUME IInv, [Next]_vars PROVE AtHandInv' /\ NoGhostHeartbeat'
    BY TypeStep DEF IInv
  <1>. USE DEF IInv
  <1>a. UNCHANGED <<deployed, heartbeat>> => NoGhostHeartbeat'
    BY DEF NoGhostHeartbeat
  <1>1. ASSUME NEW c \in Cluster, NEW g \in Gslb, GslbIngressExposedIPs(c, g)
        PROVE  AtHandInv' /\ NoGhostHeartbeat'
    BY <1>a, <1>1 DEF TypeOK, AtHandInv, GslbIngressExposedIPs, env, ingresses
  <1>2. ASSUME NEW c \in Cluster, NEW g \in Gslb, Finalize(c, g)
        PROVE  AtHandInv' /\ NoGhostHeartbeat'
    BY <1>a, <1>2 DEF TypeOK, AtHandInv, Finalize, env, ingresses
  <1>2a. ASSUME NEW c \in Cluster, DeleteZoneDelegated(c)
         PROVE  AtHandInv' /\ NoGhostHeartbeat'
    BY <1>a, <1>2a DEF TypeOK, AtHandInv, DeleteZoneDelegated, env, ingresses, locals
  <1>2b. ASSUME NEW c \in Cluster, DeleteError(c)
         PROVE  AtHandInv' /\ NoGhostHeartbeat'
    BY <1>a, <1>2b, ReturnAtHand DEF AtHandInv, DeleteError, env, ingresses
  <1>3. ASSUME NEW c \in Cluster, GetZoneDelegated(c)
        PROVE  AtHandInv' /\ NoGhostHeartbeat'
    BY <1>a, <1>3 DEF TypeOK, AtHandInv, GetZoneDelegated, env, ingresses
  <1>4. ASSUME NEW c \in Cluster, NEW d \in Cluster, Inspect(c, d)
        PROVE  AtHandInv' /\ NoGhostHeartbeat'
    BY <1>a, <1>4 DEF AtHandInv, Inspect, env, ingresses
  <1>5. ASSUME NEW c \in Cluster, NEW d \in Cluster, InspectError(c, d)
        PROVE  AtHandInv' /\ NoGhostHeartbeat'
    BY <1>a, <1>5 DEF AtHandInv, InspectError, env, ingresses
  <1>6. ASSUME NEW c \in Cluster, ZoneUpToDate(c)
        PROVE  AtHandInv' /\ NoGhostHeartbeat'
    BY <1>a, <1>6, HeartbeatAtHand DEF ZoneUpToDate, env, ingresses
  <1>7. ASSUME NEW c \in Cluster, UpdateZoneDelegated(c)
        PROVE  AtHandInv' /\ NoGhostHeartbeat'
    BY <1>a, <1>7, HeartbeatAtHand DEF UpdateZoneDelegated, env, ingresses
  <1>8. ASSUME NEW c \in Cluster, UpdateError(c)
        PROVE  AtHandInv' /\ NoGhostHeartbeat'
    BY <1>a, <1>8, ReturnAtHand DEF AtHandInv, UpdateError, env, ingresses
  <1>9. ASSUME NEW c \in Cluster, CreateZoneDelegated(c)
        PROVE  AtHandInv' /\ NoGhostHeartbeat'
    BY <1>a, <1>9, HeartbeatAtHand DEF CreateZoneDelegated, env, ingresses
  <1>10. ASSUME NEW c \in Cluster, CreateError(c)
         PROVE  AtHandInv' /\ NoGhostHeartbeat'
    BY <1>a, <1>10, ReturnAtHand DEF AtHandInv, CreateError, env, ingresses
  <1>11. ASSUME NEW c \in Cluster, saveHeartbeatTXTRecord(c)
         PROVE  AtHandInv' /\ NoGhostHeartbeat'
    <2>a. \A g \in Gslb, d \in Cluster : d # c => heartbeat'[g][d] = heartbeat[g][d]
      BY <1>11 DEF TypeOK, saveHeartbeatTXTRecord
    <2>1. AtHandInv'
      BY <1>11, <2>a, ReturnAtHand DEF AtHandInv, saveHeartbeatTXTRecord, env, ingresses
    <2>2. gslb[c] \in deployed[c]
      BY <1>11 DEF AtHandInv, saveHeartbeatTXTRecord
    <2>3. NoGhostHeartbeat'
      BY <1>11, <2>2 DEF TypeOK, NoGhostHeartbeat, saveHeartbeatTXTRecord, env, ingresses
    <2>. QED
      BY <2>1, <2>3
  <1>12. ASSUME NEW c \in Cluster, DeleteTXTRecord(c)
         PROVE  AtHandInv' /\ NoGhostHeartbeat'
    <2>1. \A g \in Gslb, d \in Cluster :
             heartbeat'[g][d] = IF g = gslb[c] /\ d = c THEN Expired ELSE heartbeat[g][d]
      BY <1>12 DEF TypeOK, DeleteTXTRecord
    <2>2. /\ UNCHANGED <<deployed, deleting, gslb>> /\ pc[c] = "txt"
          /\ \A d \in Cluster : pc'[d] = IF d = c THEN "finalizer" ELSE pc[d]
          /\ \A d \in Cluster : gslb[d] \in Gslb
      BY <1>12 DEF TypeOK, DeleteTXTRecord, env, locals
    <2>3. AtHandInv'
      BY <2>1, <2>2 DEF AtHandInv
    <2>4. NoGhostHeartbeat'
      BY <2>1, <2>2 DEF NoGhostHeartbeat
    <2>. QED
      BY <2>3, <2>4
  <1>12a. ASSUME NEW c \in Cluster, removeFinalizer(c)
          PROVE  AtHandInv' /\ NoGhostHeartbeat'
    <2>1. AtHandInv'
      BY <1>12a, ReturnAtHand DEF TypeOK, AtHandInv, removeFinalizer
    <2>2. NoGhostHeartbeat'
      BY <1>12a DEF TypeOK, AtHandInv, NoGhostHeartbeat, removeFinalizer
    <2>. QED
      BY <2>1, <2>2
  <1>13. ASSUME NEW c \in Cluster, Abort(c)
         PROVE  AtHandInv' /\ NoGhostHeartbeat'
    BY <1>a, <1>13, ReturnAtHand DEF AtHandInv, Abort, env, ingresses
  <1>14. ASSUME NEW c \in Cluster, Crash(c)
         PROVE  AtHandInv' /\ NoGhostHeartbeat'
    BY <1>a, <1>14, ReturnAtHand DEF AtHandInv, Crash
  <1>15. ASSUME NEW c \in Cluster, Restart(c)
         PROVE  AtHandInv' /\ NoGhostHeartbeat'
    BY <1>a, <1>15 DEF AtHandInv, Restart, locals
  <1>16. ASSUME NEW c \in Cluster, AddressesChange(c)
         PROVE  AtHandInv' /\ NoGhostHeartbeat'
    BY <1>a, <1>16 DEF AtHandInv, AddressesChange, locals
  <1>17. ASSUME NEW c \in Cluster, NEW g \in Gslb, DeleteGslb(c, g)
         PROVE  AtHandInv' /\ NoGhostHeartbeat'
    BY <1>a, <1>17 DEF TypeOK, AtHandInv, DeleteGslb, locals
  <1>18. ASSUME NEW c \in Cluster, NEW g \in Gslb, CreateGslb(c, g)
         PROVE  AtHandInv' /\ NoGhostHeartbeat'
    <2>1. \A d \in Cluster : deployed[d] \subseteq deployed'[d]
      BY <1>18 DEF TypeOK, CreateGslb
    <2>. QED
      BY <1>18, <2>1 DEF AtHandInv, NoGhostHeartbeat, CreateGslb, locals
  <1>19. ASSUME Tick PROVE AtHandInv' /\ NoGhostHeartbeat'
    <2>1. \A c \in Cluster, g \in Gslb :
             heartbeat[g][c] = Expired => heartbeat'[g][c] = Expired
      BY <1>19, ThresholdAssumption DEF TypeOK, Tick, Expired
    <2>. QED
      BY <1>19, <2>1 DEF TypeOK, AtHandInv, NoGhostHeartbeat, Tick, env, ingresses, locals
  <1>20. CASE UNCHANGED vars
    BY <1>a, <1>20 DEF AtHandInv, vars, env, ingresses, locals
  <1>. QED
    BY <1>1, <1>2, <1>2a, <1>2b, <1>3, <1>4, <1>5, <1>6, <1>7, <1>8, <1>9, <1>10, <1>11, <1>12,
       <1>12a, <1>13, <1>14, <1>15, <1>16, <1>17, <1>18, <1>19, <1>20
       DEF Next, Reconcile, Continue

(* The invariant holds in the beginning. *)
LEMMA InitIInv == Init => IInv
  <1>. SUFFICES ASSUME Init PROVE IInv
    OBVIOUS
  <1>1. Expired \in 0..Expired
    BY ThresholdAssumption DEF Expired
  <1>2. TypeOK
    BY <1>1, SomeGslb, DeployedAssumption DEF Init, TypeOK, NoZone, Addresses
  <1>3. AtHandInv /\ NoGhostHeartbeat
    BY DEF Init, AtHandInv, NoGhostHeartbeat
  <1>. QED
    BY <1>2, <1>3 DEF IInv

(* A finalized Gslb leaves no heartbeat behind, for any number of clusters    *)
(* and Gslbs, crashes and failed requests (infoblox.go:132-172).              *)
THEOREM NoGhostHeartbeatHolds == Spec => []NoGhostHeartbeat
  <1>1. IInv => NoGhostHeartbeat
    BY DEF IInv
  <1>. QED
    BY <1>1, InitIInv, StepIInv, PTL DEF Spec

-----------------------------------------------------------------------------
(* Whole lists *)

(* The addresses of an Ingress are those of its cluster; every list that is   *)
(* read, filtered or written holds of each cluster nothing or what its        *)
(* Ingress had at one moment; and until the zone is read the own list holds   *)
(* nothing of the others.                                                     *)
WholeInv ==
    /\ \A c \in Cluster : lb[c] \in had[c] /\ lb[c] \subseteq Addresses(c)
    /\ Whole(zone.delegateTo)
    /\ \A c \in Cluster : Whole(currentList[c])
    /\ \A c \in Cluster : pc[c] = "getZone" => currentList[c] \subseteq Addresses(c)

(* What belongs to one cluster does not belong to another. *)
LEMMA AddressesDiffer ==
    ASSUME NEW c \in Cluster, NEW d \in Cluster, c # d
    PROVE  Addresses(c) \cap Addresses(d) = {}
  BY DEF Addresses

(* A list without a cluster is still whole. *)
LEMMA FilterWhole ==
    ASSUME NEW c \in Cluster, NEW list \in SUBSET Addr, Whole(list)
    PROVE  Whole(filterOutDelegateTo(list, c))
  <1>. DEFINE rest == filterOutDelegateTo(list, c)
  <1>. SUFFICES ASSUME NEW d \in Cluster PROVE rest \cap Addresses(d) \in had[d] \union {{}}
    BY DEF Whole
  <1>1. CASE d = c
    <2>1. rest \cap Addresses(d) = {}
      BY <1>1 DEF filterOutDelegateTo, Addresses
    <2>. QED
      BY <2>1
  <1>2. CASE d # c
    <2>1. rest \cap Addresses(d) = list \cap Addresses(d)
      BY <1>2 DEF filterOutDelegateTo, Addresses
    <2>. QED
      BY <2>1 DEF Whole
  <1>. QED
    BY <1>1, <1>2

(* And so is the list of the zone with the own name servers replaced. *)
LEMMA SanitizeWhole ==
    ASSUME NEW c \in Cluster, NEW local \in SUBSET Addr, NEW upstream \in SUBSET Addr,
           Whole(local), Whole(upstream), local \subseteq Addresses(c)
    PROVE  Whole(sanitizeDelegateZone(c, local, upstream))
  <1>. DEFINE final == sanitizeDelegateZone(c, local, upstream)
  <1>. SUFFICES ASSUME NEW d \in Cluster PROVE final \cap Addresses(d) \in had[d] \union {{}}
    BY DEF Whole
  <1>1. CASE d = c
    <2>1. final \cap Addresses(d) = local \cap Addresses(d)
      BY <1>1 DEF sanitizeDelegateZone, filterOutDelegateTo, Addresses
    <2>. QED
      BY <2>1 DEF Whole
  <1>2. CASE d # c
    <2>1. final \cap Addresses(d) = upstream \cap Addresses(d)
      BY <1>2 DEF sanitizeDelegateZone, filterOutDelegateTo, Addresses
    <2>. QED
      BY <2>1 DEF Whole
  <1>. QED
    BY <1>1, <1>2

(* The empty list is whole, now and later. *)
LEMMA NothingIsWhole == Whole({}) /\ \A d \in Cluster : {} \cap Addresses(d) \in had'[d] \union {{}}
  BY DEF Whole

(* A reconcile that returns or goes on to the heartbeat has nothing to write  *)
(* any more, or nothing new.                                                  *)
LEMMA ReturnWhole ==
    ASSUME TypeOK, WholeInv, NEW c \in Cluster, Return(c) \/ Heartbeat(c), UNCHANGED ingresses,
           zone'.delegateTo \in {zone.delegateTo, currentList[c], {}}
    PROVE  WholeInv'
  <1>1. \/ Return(c)
        \/ pc' = [pc EXCEPT ![c] = "heartbeat"] /\ UNCHANGED currentList
    BY DEF Heartbeat, locals
  <1>2. /\ \A d \in Cluster : currentList'[d] \in {currentList[d], {}}
        /\ \A d \in Cluster : pc'[d] = "getZone" => pc[d] = "getZone" /\ currentList'[d] = currentList[d]
    BY <1>1 DEF Return, TypeOK
  <1>3. UNCHANGED <<lb, had>>
    BY DEF ingresses
  <1>4. Whole(zone.delegateTo)'
    BY <1>3, NothingIsWhole DEF WholeInv, Whole
  <1>5. \A d \in Cluster : Whole(currentList[d])'
    BY <1>2, <1>3, NothingIsWhole DEF WholeInv, Whole
  <1>. QED
    BY <1>2, <1>3, <1>4, <1>5 DEF WholeInv

(* Lists and addresses are as they were. *)
LEMMA SameWhole ==
    ASSUME WholeInv, UNCHANGED <<ingresses, currentList>>,
           zone'.delegateTo \in {zone.delegateTo, {}},
           \A c \in Cluster : pc'[c] = "getZone" => pc[c] = "getZone"
    PROVE  WholeInv'
  BY NothingIsWhole DEF WholeInv, Whole, ingresses

LEMMA WholeStep == TypeOK /\ WholeInv /\ [Next]_vars => WholeInv'
  <1>. SUFFICES ASSUME TypeOK, WholeInv, [Next]_vars PROVE WholeInv'
    OBVIOUS
  <1>1. ASSUME NEW c \in Cluster, NEW g \in Gslb, GslbIngressExposedIPs(c, g) PROVE WholeInv'
    <2>1. Whole(lb[c])
      <3>. SUFFICES ASSUME NEW d \in Cluster PROVE lb[c] \cap Addresses(d) \in had[d] \union {{}}
        BY DEF Whole
      <3>1. CASE d = c
        <4>1. lb[c] \cap Addresses(d) = lb[c]
          BY <3>1 DEF WholeInv
        <4>. QED
          BY <3>1, <4>1 DEF WholeInv
      <3>2. CASE d # c
        <4>1. lb[c] \cap Addresses(d) = {}
          BY <3>2, AddressesDiffer DEF WholeInv
        <4>. QED
          BY <4>1
      <3>. QED
        BY <3>1, <3>2
    <2>2. /\ UNCHANGED <<lb, had, zone>>
          /\ \A d \in Cluster : currentList'[d] = IF d = c THEN lb[c] ELSE currentList[d]
          /\ \A d \in Cluster : d # c => pc'[d] = pc[d]
      BY <1>1 DEF GslbIngressExposedIPs, env, ingresses, TypeOK
    <2>. QED
      BY <2>1, <2>2 DEF WholeInv, Whole
  <1>2. ASSUME NEW c \in Cluster, GetZoneDelegated(c) PROVE WholeInv'
    <2>. DEFINE final == sanitizeDelegateZone(c, currentList[c], zone.delegateTo)
    <2>1. Whole(final)
      BY <1>2, SanitizeWhole DEF GetZoneDelegated, WholeInv, TypeOK
    <2>2. /\ UNCHANGED <<lb, had, zone>>
          /\ pc'[c] # "getZone" /\ \A d \in Cluster : d # c => pc'[d] = pc[d]
      BY <1>2 DEF GetZoneDelegated, env, ingresses, TypeOK
    <2>3. /\ currentList'[c] \in {currentList[c], final}
          /\ \A d \in Cluster : d # c => currentList'[d] = currentList[d]
      BY <1>2 DEF GetZoneDelegated, TypeOK
    <2>. HIDE DEF final
    <2>4. \A d \in Cluster : Whole(currentList[d])'
      BY <2>1, <2>2, <2>3 DEF WholeInv, Whole
    <2>. QED
      BY <2>2, <2>3, <2>4 DEF WholeInv, Whole
  <1>3. ASSUME NEW c \in Cluster, NEW d \in Cluster, Inspect(c, d) \/ InspectError(c, d)
        PROVE  WholeInv'
    <2>. DEFINE rest == filterOutDelegateTo(currentList[c], d)
    <2>1. Whole(rest)
      BY FilterWhole DEF WholeInv, TypeOK
    <2>2. UNCHANGED <<lb, had, zone, pc>> /\ pc[c] = "inspect"
      BY <1>3 DEF Inspect, InspectError, env, ingresses
    <2>3. /\ currentList'[c] \in {currentList[c], rest}
          /\ \A x \in Cluster : x # c => currentList'[x] = currentList[x]
      BY <1>3 DEF Inspect, InspectError, TypeOK
    <2>. HIDE DEF rest
    <2>4. \A x \in Cluster : Whole(currentList[x])'
      BY <2>1, <2>2, <2>3 DEF WholeInv, Whole
    <2>. QED
      BY <2>2, <2>3, <2>4 DEF WholeInv, Whole
  <1>4. ASSUME NEW c \in Cluster,
               \/ ZoneUpToDate(c) \/ UpdateError(c) \/ CreateError(c)
               \/ saveHeartbeatTXTRecord(c) \/ DeleteError(c) \/ removeFinalizer(c) \/ Abort(c) \/ Crash(c)
        PROVE  WholeInv'
    <2>1. (Return(c) \/ Heartbeat(c)) /\ UNCHANGED <<ingresses, zone>>
      BY <1>4 DEF ZoneUpToDate, UpdateError, CreateError, saveHeartbeatTXTRecord, DeleteError,
                  removeFinalizer, Abort, Crash, env
    <2>. QED
      BY <2>1, ReturnWhole
  <1>5. ASSUME NEW c \in Cluster, UpdateZoneDelegated(c) \/ CreateZoneDelegated(c) PROVE WholeInv'
    <2>1. Heartbeat(c) /\ UNCHANGED ingresses /\ zone'.delegateTo = currentList[c]
      BY <1>5 DEF UpdateZoneDelegated, CreateZoneDelegated, env, TypeOK
    <2>. QED
      BY <2>1, ReturnWhole
  <1>6. ASSUME NEW c \in Cluster,
               \/ \E g \in Gslb : Finalize(c, g)
               \/ DeleteZoneDelegated(c) \/ DeleteTXTRecord(c)
        PROVE  WholeInv'
    <2>1. /\ UNCHANGED <<ingresses, currentList>>
          /\ zone'.delegateTo \in {zone.delegateTo, {}}
          /\ \A d \in Cluster : pc'[d] = "getZone" => pc[d] = "getZone"
      BY <1>6 DEF Finalize, DeleteZoneDelegated, DeleteTXTRecord, NoZone, env, locals, TypeOK
    <2>. QED
      BY <2>1, SameWhole
  <1>7. ASSUME \/ \E c \in Cluster : Restart(c)
               \/ \E c \in Cluster, g \in Gslb : DeleteGslb(c, g) \/ CreateGslb(c, g)
               \/ Tick \/ UNCHANGED vars
        PROVE  WholeInv'
    <2>1. UNCHANGED <<ingresses, currentList, zone, pc>>
      BY <1>7 DEF Restart, DeleteGslb, CreateGslb, Tick, vars, env, locals
    <2>. QED
      BY <2>1, SameWhole
  <1>8. ASSUME NEW c \in Cluster, AddressesChange(c) PROVE WholeInv'
    <2>1. PICK A \in SUBSET Addresses(c) : /\ lb' = [lb EXCEPT ![c] = A]
                                           /\ had' = [had EXCEPT ![c] = @ \union {A}]
      BY <1>8 DEF AddressesChange
    <2>2. UNCHANGED <<zone, currentList, pc>>
      BY <1>8 DEF AddressesChange, locals
    <2>3. \A d \in Cluster : had[d] \subseteq had'[d]
      BY <2>1 DEF TypeOK
    <2>4. \A d \in Cluster : lb'[d] \in had'[d] /\ lb'[d] \subseteq Addresses(d)
      BY <2>1 DEF TypeOK, WholeInv
    <2>5. Whole(zone.delegateTo)' /\ \A d \in Cluster : Whole(currentList[d])'
      BY <2>2, <2>3 DEF WholeInv, Whole
    <2>. QED
      BY <2>2, <2>4, <2>5 DEF WholeInv
  <1>. QED
    BY <1>1, <1>2, <1>3, <1>4, <1>5, <1>6, <1>7, <1>8 DEF Next, Reconcile, Continue

(* The zone never mixes or splits the addresses of a cluster, for any number  *)
(* of clusters that read, filter and write its list without a lock, crash and *)
(* start again, and whatever their addresses become (infoblox.go:73-127).     *)
THEOREM NeverMixedHolds == Spec => []NeverMixed
  <1>1. Init => IInv /\ WholeInv
    <2>. SUFFICES ASSUME Init PROVE WholeInv
      BY InitIInv
    <2>. QED
      BY NothingIsWhole DEF Init, NoZone, WholeInv
  <1>2. IInv /\ WholeInv /\ [Next]_vars => IInv' /\ WholeInv'
    BY StepIInv, WholeStep DEF IInv
  <1>3. WholeInv => NeverMixed
    BY DEF WholeInv, NeverMixed
  <1>. QED
    BY <1>1, <1>2, <1>3, PTL DEF Spec
=============================================================================
