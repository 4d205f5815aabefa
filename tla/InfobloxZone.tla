---------------------------- MODULE InfobloxZone ----------------------------
(***************************************************************************)
(* The delegated zone in Infoblox that the operators of all clusters share. *)
(*                                                                         *)
(* Every reconcile of a Gslb ends with CreateZoneDelegationForExternalDNS: *)
(* read the zone, replace the own name servers in it, drop the clusters    *)
(* whose heartbeat TXT record for this Gslb is missing or too old, write   *)
(* the list back and refresh the own heartbeat.  Deleting a Gslb deletes   *)
(* the whole zone.  There is no lock: the other operators run between any  *)
(* two requests about the zone.  The heartbeat record of a cluster is read *)
(* and written in one step, since only its own operator writes it.         *)
(*                                                                         *)
(* Infoblox itself is external.  A zone reference is derived from the zone *)
(* name, so an update by reference reaches a zone that was deleted and     *)
(* created again; updating a zone that is gone and creating one that       *)
(* exists are errors.  A name server entry [Name, Address] is its address: *)
(* the name is that of the cluster that owns it.                           *)
(***************************************************************************)
EXTENDS Naturals

CONSTANTS
    Cluster,          \* geo tags
    Gslb,             \* names of Gslb resources
    Addr,             \* Ingress addresses
    Owner,            \* the cluster an address belongs to
    Deployed,         \* Deployed[c]: the Gslbs cluster c has at the start
    SplitBrainChecks, \* the values of config.SplitBrainCheck to consider
    Threshold,        \* SplitBrainThresholdSeconds, in ticks
    MaxFaults         \* bound on environment changes and failed calls

ASSUME GslbAssumption == Gslb # {}
ASSUME OwnerAssumption == Owner \in [Addr -> Cluster]
ASSUME DeployedAssumption == Deployed \in [Cluster -> SUBSET Gslb]
ASSUME SplitBrainAssumption == SplitBrainChecks \subseteq BOOLEAN
ASSUME ThresholdAssumption == Threshold \in Nat \ {0}
ASSUME MaxFaultsAssumption == MaxFaults \in Nat

VARIABLES
    splitBrainCheck,  \* config.SplitBrainCheck, the same in all clusters
    live,         \* clusters whose operator runs
    deployed,     \* deployed[c]: Gslbs that exist in c
    deleting,     \* deleting[c]: Gslbs of c with a deletion timestamp
    lb,           \* lb[c]: Ingress addresses of c
    had,          \* history: had[c], all values lb[c] has had
    zone,         \* the delegated zone
    heartbeat,    \* heartbeat[g][c]: age of the TXT record of g and c
    pc,           \* pc[c]: the next request of the operator of c
    gslb,         \* gslb[c]: the Gslb that c reconciles
    findZone,     \* findZone[c]: findZone.DelegateTo as c read it
    currentList,  \* currentList[c]: the list c is going to write
    inspect,      \* inspect[c]: clusters whose heartbeat c has not inspected
    faults        \* environment changes and failed calls so far

ingresses == <<lb, had>>
env == <<splitBrainCheck, live, deployed, deleting, ingresses>>
locals == <<gslb, findZone, currentList, inspect>>
vars == <<env, zone, heartbeat, pc, locals, faults>>

(* Ages stop at Expired; a record that does not exist counts as expired, as   *)
(* InspectTXTThreshold answers both with an error.                            *)
Expired == Threshold + 1
NoZone == [exists |-> FALSE, delegateTo |-> {}]
Addresses(c) == {x \in Addr : Owner[x] = c}

(* The type invariant. *)
TypeOK ==
    /\ splitBrainCheck \in SplitBrainChecks
    /\ live \in SUBSET Cluster
    /\ deployed \in [Cluster -> SUBSET Gslb]
    /\ deleting \in [Cluster -> SUBSET Gslb]
    /\ lb \in [Cluster -> SUBSET Addr]
    /\ had \in [Cluster -> SUBSET SUBSET Addr]
    /\ zone \in [exists : BOOLEAN, delegateTo : SUBSET Addr]
    /\ heartbeat \in [Gslb -> [Cluster -> 0..Expired]]
    /\ pc \in [Cluster -> {"idle", "getZone", "inspect", "create", "heartbeat",
                          "deleteZone", "txt", "finalizer"}]
    /\ gslb \in [Cluster -> Gslb]
    /\ findZone \in [Cluster -> SUBSET Addr]
    /\ currentList \in [Cluster -> SUBSET Addr]
    /\ inspect \in [Cluster -> SUBSET Cluster]
    /\ faults \in Nat

-----------------------------------------------------------------------------
(* Mutant: only one of them is dropped. *)
filterOutFirst(list, c) == list \ {CHOOSE x \in list : Owner[x] = c \/ \A y \in list : Owner[y] # c}

(* Drop the name servers of one cluster. *)
filterOutDelegateTo(list, c) == {x \in list : Owner[x] # c}

(* Mutant: the own entries found in the zone are kept. *)
keepDelegateZone(c, local, upstream) == local \union upstream

(* The own name servers as they are now, the others as they are in the zone. *)
sanitizeDelegateZone(c, local, upstream) == local \union filterOutDelegateTo(upstream, c)

(* Mutant: no heartbeat is ever found to be missing or too old. *)
alwaysAlive(g, d) == FALSE

(* InspectTXTThreshold(fqdn of g and d) returns an error. *)
InspectTXTThreshold(g, d) == heartbeat[g][d] > Threshold

Init ==
    /\ splitBrainCheck \in SplitBrainChecks
    /\ live = Cluster
    /\ deployed = Deployed
    /\ deleting = [c \in Cluster |-> {}]
    /\ lb = [c \in Cluster |-> Addresses(c)]
    /\ had = [c \in Cluster |-> {lb[c]}]
    /\ zone = NoZone
    /\ heartbeat = [g \in Gslb |-> [c \in Cluster |-> Expired]]
    /\ pc = [c \in Cluster |-> "idle"]
    /\ gslb = [c \in Cluster |-> CHOOSE g \in Gslb : TRUE]
    /\ findZone = [c \in Cluster |-> {}]
    /\ currentList = [c \in Cluster |-> {}]
    /\ inspect = [c \in Cluster |-> {}]
    /\ faults = 0

(* The reconcile of c returns and forgets its local variables. *)
Return(c) ==
    /\ pc' = [pc EXCEPT ![c] = "idle"]
    /\ gslb' = [gslb EXCEPT ![c] = CHOOSE g \in Gslb : TRUE]
    /\ findZone' = [findZone EXCEPT ![c] = {}]
    /\ currentList' = [currentList EXCEPT ![c] = {}]
    /\ inspect' = [inspect EXCEPT ![c] = {}]

Fault ==
    /\ faults < MaxFaults
    /\ faults' = faults + 1

(* The zone is written or was right: the heartbeat is next, if there is one. *)
Heartbeat(c) ==
    IF splitBrainCheck
    THEN /\ pc' = [pc EXCEPT ![c] = "heartbeat"]
         /\ UNCHANGED locals
    ELSE Return(c)

-----------------------------------------------------------------------------
(* CreateZoneDelegationForExternalDNS *)

(* The operator turns to a Gslb and reads the addresses of its Ingress. *)
GslbIngressExposedIPs(c, g) ==
    /\ c \in live /\ pc[c] = "idle"
    /\ g \in deployed[c] \ deleting[c]
    /\ gslb' = [gslb EXCEPT ![c] = g]
    /\ currentList' = [currentList EXCEPT ![c] = lb[c]]
    /\ pc' = [pc EXCEPT ![c] = "getZone"]
    /\ UNCHANGED <<env, zone, heartbeat, findZone, inspect, faults>>

GetZoneDelegated(c) ==
    /\ pc[c] = "getZone"
    /\ IF zone.exists
       THEN /\ pc' = [pc EXCEPT ![c] = "inspect"]
            /\ findZone' = [findZone EXCEPT ![c] = zone.delegateTo]
            /\ currentList' = [currentList EXCEPT
                                  ![c] = sanitizeDelegateZone(c, @, zone.delegateTo)]
            /\ inspect' = [inspect EXCEPT
                              ![c] = IF splitBrainCheck THEN Cluster \ {c} ELSE {}]
       ELSE /\ pc' = [pc EXCEPT ![c] = "create"]
            /\ UNCHANGED <<findZone, currentList, inspect>>
    /\ UNCHANGED <<env, zone, heartbeat, gslb, faults>>

(* One iteration of the loop that drops clusters that do not look alive. *)
Inspect(c, d) ==
    /\ pc[c] = "inspect"
    /\ d \in inspect[c]
    /\ inspect' = [inspect EXCEPT ![c] = @ \ {d}]
    /\ currentList' = [currentList EXCEPT ![c] =
                          IF InspectTXTThreshold(gslb[c], d)
                          THEN filterOutDelegateTo(@, d) ELSE @]
    /\ UNCHANGED <<env, zone, heartbeat, pc, gslb, findZone, faults>>

(* The EdgeDNS server does not answer the TXT query: d is dropped as well. *)
InspectError(c, d) ==
    /\ pc[c] = "inspect"
    /\ d \in inspect[c]
    /\ Fault
    /\ inspect' = [inspect EXCEPT ![c] = @ \ {d}]
    /\ currentList' = [currentList EXCEPT ![c] = filterOutDelegateTo(@, d)]
    /\ UNCHANGED <<env, zone, heartbeat, pc, gslb, findZone>>

(* The list that was read is right: nothing is written. *)
ZoneUpToDate(c) ==
    /\ pc[c] = "inspect" /\ inspect[c] = {}
    /\ findZone[c] = currentList[c]
    /\ Heartbeat(c)
    /\ UNCHANGED <<env, zone, heartbeat, faults>>

UpdateZoneDelegated(c) ==
    /\ pc[c] = "inspect" /\ inspect[c] = {}
    /\ findZone[c] # currentList[c]
    /\ zone.exists
    /\ zone' = [zone EXCEPT !.delegateTo = currentList[c]]
    /\ Heartbeat(c)
    /\ UNCHANGED <<env, heartbeat, faults>>

(* The zone was deleted after it was read: no update and no heartbeat. *)
UpdateError(c) ==
    /\ pc[c] = "inspect" /\ inspect[c] = {}
    /\ findZone[c] # currentList[c]
    /\ ~zone.exists
    /\ Return(c)
    /\ UNCHANGED <<env, zone, heartbeat, faults>>

CreateZoneDelegated(c) ==
    /\ pc[c] = "create"
    /\ ~zone.exists
    /\ zone' = [exists |-> TRUE, delegateTo |-> currentList[c]]
    /\ Heartbeat(c)
    /\ UNCHANGED <<env, heartbeat, faults>>

(* Another operator created the zone first. *)
CreateError(c) ==
    /\ pc[c] = "create"
    /\ zone.exists
    /\ Return(c)
    /\ UNCHANGED <<env, zone, heartbeat, faults>>

saveHeartbeatTXTRecord(c) ==
    /\ pc[c] = "heartbeat"
    /\ heartbeat' = [heartbeat EXCEPT ![gslb[c]][c] = 0]
    /\ Return(c)
    /\ UNCHANGED <<env, zone, faults>>

-----------------------------------------------------------------------------
(* Finalize: the zone first, whoever is in it, then the own heartbeat. *)

Finalize(c, g) ==
    /\ c \in live /\ pc[c] = "idle"
    /\ g \in deleting[c]
    /\ gslb' = [gslb EXCEPT ![c] = g]
    /\ pc' = [pc EXCEPT ![c] = IF zone.exists THEN "deleteZone" ELSE "txt"]
    /\ UNCHANGED <<env, zone, heartbeat, findZone, currentList, inspect, faults>>

DeleteZoneDelegated(c) ==
    /\ pc[c] = "deleteZone"
    /\ zone.exists
    /\ zone' = NoZone
    /\ pc' = [pc EXCEPT ![c] = "txt"]
    /\ UNCHANGED <<env, heartbeat, locals, faults>>

(* Another operator deleted the zone first: the finalizer stays for now. *)
DeleteError(c) ==
    /\ pc[c] = "deleteZone"
    /\ ~zone.exists
    /\ Return(c)
    /\ UNCHANGED <<env, zone, heartbeat, faults>>

(* Mutant: Finalize succeeds without deleting the heartbeat record. *)
KeepTXTRecord(c) ==
    /\ pc[c] = "txt"
    /\ pc' = [pc EXCEPT ![c] = "finalizer"]
    /\ UNCHANGED <<env, zone, heartbeat, locals, faults>>

DeleteTXTRecord(c) ==
    /\ pc[c] = "txt"
    /\ heartbeat' = [heartbeat EXCEPT ![gslb[c]][c] = Expired]
    /\ pc' = [pc EXCEPT ![c] = "finalizer"]
    /\ UNCHANGED <<env, zone, locals, faults>>

(* The Gslb goes with its finalizer. *)
removeFinalizer(c) ==
    /\ pc[c] = "finalizer"
    /\ deployed' = [deployed EXCEPT ![c] = @ \ {gslb[c]}]
    /\ deleting' = [deleting EXCEPT ![c] = @ \ {gslb[c]}]
    /\ Return(c)
    /\ UNCHANGED <<splitBrainCheck, live, ingresses, zone, heartbeat, faults>>

(* One pass of the worker of c over the Gslb g. *)
Reconcile(c, g) == GslbIngressExposedIPs(c, g) \/ Finalize(c, g)

(* The requests that follow. *)
Continue(c) ==
    \/ GetZoneDelegated(c)
    \/ \E d \in Cluster : Inspect(c, d)
    \/ ZoneUpToDate(c) \/ UpdateZoneDelegated(c) \/ UpdateError(c)
    \/ CreateZoneDelegated(c) \/ CreateError(c)
    \/ saveHeartbeatTXTRecord(c)
    \/ DeleteZoneDelegated(c) \/ DeleteError(c) \/ DeleteTXTRecord(c) \/ removeFinalizer(c)

-----------------------------------------------------------------------------
(* Time and the environment *)

(* Operators reconcile more often than the threshold expires: a heartbeat of  *)
(* a running operator expires only as a fault.                                *)
Overdue ==
    \E c \in live : \E g \in deployed[c] \ deleting[c] : heartbeat[g][c] = Threshold

Tick ==
    /\ \E g \in Gslb, c \in Cluster : heartbeat[g][c] < Expired
    /\ IF Overdue THEN Fault ELSE UNCHANGED faults
    /\ heartbeat' = [g \in Gslb |-> [c \in Cluster |->
                        IF heartbeat[g][c] < Expired THEN heartbeat[g][c] + 1 ELSE Expired]]
    /\ UNCHANGED <<env, zone, pc, locals>>

(* A request fails; the reconcile returns its error and is requeued. *)
Abort(c) ==
    /\ pc[c] # "idle"
    /\ Fault
    /\ Return(c)
    /\ UNCHANGED <<env, zone, heartbeat>>

Crash(c) ==
    /\ c \in live
    /\ Fault
    /\ live' = live \ {c}
    /\ Return(c)
    /\ UNCHANGED <<splitBrainCheck, deployed, deleting, ingresses, zone, heartbeat>>

Restart(c) ==
    /\ c \notin live
    /\ Fault
    /\ live' = live \union {c}
    /\ UNCHANGED <<splitBrainCheck, deployed, deleting, ingresses, zone, heartbeat, pc, locals>>

AddressesChange(c) ==
    /\ Fault
    /\ \E A \in SUBSET Addresses(c) :
          /\ A # lb[c]
          /\ lb' = [lb EXCEPT ![c] = A]
          /\ had' = [had EXCEPT ![c] = @ \union {A}]
    /\ UNCHANGED <<splitBrainCheck, live, deployed, deleting, zone, heartbeat, pc, locals>>

DeleteGslb(c, g) ==
    /\ g \in deployed[c] \ deleting[c]
    /\ Fault
    /\ deleting' = [deleting EXCEPT ![c] = @ \union {g}]
    /\ UNCHANGED <<splitBrainCheck, live, deployed, ingresses, zone, heartbeat, pc, locals>>

CreateGslb(c, g) ==
    /\ g \notin deployed[c]
    /\ Fault
    /\ deployed' = [deployed EXCEPT ![c] = @ \union {g}]
    /\ UNCHANGED <<splitBrainCheck, live, deleting, ingresses, zone, heartbeat, pc, locals>>

Next ==
    \/ \E c \in Cluster, g \in Gslb : Reconcile(c, g)
    \/ \E c \in Cluster : Continue(c)
    \/ \E c, d \in Cluster : InspectError(c, d)
    \/ \E c \in Cluster : Abort(c) \/ Crash(c) \/ Restart(c) \/ AddressesChange(c)
    \/ \E c \in Cluster, g \in Gslb : DeleteGslb(c, g) \/ CreateGslb(c, g)
    \/ Tick

Spec == Init /\ [][Next]_vars

(* A worker takes its Gslbs in turn, its requests return, and time passes. *)
FairSpec ==
    /\ Spec
    /\ \A c \in Cluster : WF_vars(Continue(c))
    /\ \A c \in Cluster, g \in Gslb : SF_vars(Reconcile(c, g))
    /\ WF_vars(Tick)

-----------------------------------------------------------------------------
(* A Gslb that is gone from a cluster has left no heartbeat behind by which   *)
(* the other clusters would take the cluster for alive, also when Finalize    *)
(* failed or the operator crashed half way and had to start again             *)
(* (infoblox.go:156-170, gslb_controller.go:109-118).                         *)
NoGhostHeartbeat ==
    \A c \in Cluster, g \in Gslb : g \notin deployed[c] => heartbeat[g][c] = Expired

(* Why it holds: the Gslb at hand exists, the one being finalized is the only *)
(* one about to go, and its heartbeat goes first.                             *)
AtHandInv ==
    \A c \in Cluster :
        /\ pc[c] # "idle" => gslb[c] \in deployed[c]
        /\ pc[c] = "finalizer" => heartbeat[gslb[c]][c] = Expired
        /\ deleting[c] \subseteq deployed[c]

(* What the zone holds of a cluster is either nothing or all the addresses    *)
(* its Ingress had at one moment, though each operator writes back what it    *)
(* read of the others before: lists that are read, filtered and written in    *)
(* between never leave a cluster with a mixture of old and new addresses, or  *)
(* with only some of them (infoblox.go:73-127).                               *)
Whole(list) == \A d \in Cluster : list \cap Addresses(d) \in had[d] \union {{}}
NeverMixed == Whole(zone.delegateTo)

(* Faults are bounded, so the set of clusters that run their operator and     *)
(* have a Gslb settles.                                                       *)
Hosting == {c \in live : deployed[c] \ deleting[c] # {}}

(* With the split brain check the zone ends up delegated to exactly the       *)
(* Ingress addresses of the clusters that are alive and have a Gslb, whatever *)
(* updates got lost and whoever deleted the zone: nobody is missing, no dead  *)
(* cluster and no old address is left (infoblox.go:73-127, 142-170).          *)
ZoneConverges ==
    <>[](splitBrainCheck /\ Hosting # {}) =>
        <>[](zone.exists /\ zone.delegateTo = UNION {lb[c] : c \in Hosting})

(* Without the check nobody removes the entries of a dead cluster, but those  *)
(* of the live ones still become right and stay so.                           *)
LiveDelegated ==
    <>[](~splitBrainCheck /\ Hosting # {}) =>
        <>[](/\ zone.exists
             /\ \A c \in Hosting : zone.delegateTo \cap Addresses(c) = lb[c])
=============================================================================
