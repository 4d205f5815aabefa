------------------------ MODULE GslbLifecycleProofs ------------------------
(***************************************************************************)
(* Proofs about GslbLifecycle, for any number of Gslbs, users' actions,    *)
(* failed calls, restarts and late events.                                 *)
(***************************************************************************)
EXTENDS GslbLifecycle, TLAPS

USE DEF delegation, cache

(* The values local variables are reset to have their types. *)
LEMMA DefaultTypes ==
    /\ AnyGslb \in Gslb
    /\ NoGslb \in GslbObject
    /\ NoIngress \in IngressObject
    /\ Idle \in Creation
  <1>1. AnyGslb \in Gslb
    BY GslbAssumption DEF AnyGslb
  <1>2. AnyRules \in Rules
    BY RulesAssumption DEF AnyRules
  <1>. QED
    BY <1>1, <1>2 DEF NoGslb, NoIngress, Idle, GslbObject, IngressObject, Creation, Strategy

(* A fault is counted. *)
LEMMA FaultType ==
    ASSUME faults \in Nat, Fault
    PROVE  faults' \in Nat /\ late' = late
  BY BoundsAssumption DEF Fault

(* Returning keeps the types of the locals. *)
LEMMA ReturnType ==
    ASSUME Return
    PROVE  /\ pc' = "idle"
           /\ at' \in Gslb
           /\ read' \in GslbObject
           /\ found' \in IngressObject
           /\ written' \in SUBSET {"gslb", "ingress"}
  BY DefaultTypes DEF Return

(* So does going on with the endpoint. *)
LEMMA IngressSavedType ==
    ASSUME IngressSaved
    PROVE  /\ pc' = "endpoint"
           /\ at' = at
           /\ read' \in GslbObject
           /\ found' \in IngressObject
           /\ written' \in SUBSET {"gslb", "ingress"}
  BY DefaultTypes DEF IngressSaved

(* So does a write by somebody else. *)
LEMMA WriteType ==
    ASSUME TypeOK, NEW kind \in {"gslb", "ingress"}, NEW g, Write(kind, g)
    PROVE  /\ UNCHANGED <<pc, at, read, found>>
           /\ written' \in SUBSET {"gslb", "ingress"}
  BY DEF TypeOK, Write

(* A Gslb that goes leaves well-typed objects. *)
LEMMA GslbGoneType ==
    ASSUME TypeOK, NEW g \in Gslb, GslbGone(g)
    PROVE  /\ gslb' \in [Gslb -> GslbObject]
           /\ ingress' \in [Gslb -> IngressObject]
           /\ dnsEndpoint' \in [Gslb -> {"", "gslb", "gone"}]
  BY DefaultTypes DEF TypeOK, GslbGone, IngressObject

(* So does an Ingress. *)
LEMMA IngressGoneType ==
    ASSUME TypeOK, NEW g \in Gslb, IngressGone(g)
    PROVE  /\ gslb' \in [Gslb -> GslbObject]
           /\ ingress' \in [Gslb -> IngressObject]
           /\ handler' \in Creation
           /\ event' \in [Gslb -> SUBSET Strategy]
           /\ written' \in SUBSET {"gslb", "ingress"}
           /\ UNCHANGED <<pc, at, read, found, dnsEndpoint, provider, nsEndpoint, overlooked, shown, stale>>
  <1>1. gslb' \in [Gslb -> GslbObject]
    <2>. DEFINE o == IF gslb[g].owner = "ingress" THEN "gone" ELSE gslb[g].owner
    <2>1. o \in {"none", "ingress", "gone"}
      BY DEF TypeOK, GslbObject
    <2>2. gslb' = [gslb EXCEPT ![g].owner = o]
      BY DEF IngressGone
    <2>3. gslb \in [Gslb -> GslbObject]
      BY DEF TypeOK
    <2>. HIDE DEF o
    <2>. QED
      BY <2>1, <2>2, <2>3 DEF GslbObject
  <1>2. ingress' \in [Gslb -> IngressObject]
    BY DefaultTypes DEF TypeOK, IngressGone
  <1>3. handler' \in Creation
    BY DEF TypeOK, IngressGone, Creation
  <1>4. event' \in [Gslb -> SUBSET Strategy]
    BY DEF TypeOK, IngressGone, EventsOf
  <1>5. UNCHANGED <<pc, at, read, found, dnsEndpoint, provider, nsEndpoint, overlooked, shown, stale>>
    BY DEF IngressGone, Write
  <1>6. written' \in SUBSET {"gslb", "ingress"}
    BY WriteType DEF IngressGone
  <1>. QED
    BY <1>1, <1>2, <1>3, <1>4, <1>5, <1>6

(* And so does the deletion of a Gslb. *)
LEMMA DeleteType ==
    ASSUME TypeOK, NEW g \in Gslb, Delete(g)
    PROVE  /\ gslb' \in [Gslb -> GslbObject]
           /\ ingress' \in [Gslb -> IngressObject]
           /\ dnsEndpoint' \in [Gslb -> {"", "gslb", "gone"}]
           /\ written' \in SUBSET {"gslb", "ingress"}
           /\ UNCHANGED <<pc, at, read, found, provider, nsEndpoint, overlooked, shown, stale, event,
                          handler>>
  <1>1. UNCHANGED <<pc, at, read, found, provider, nsEndpoint, overlooked, shown, stale, event,
                          handler>>
    BY DEF Delete, Write
  <1>2. written' \in SUBSET {"gslb", "ingress"}
    BY WriteType DEF Delete
  <1>3. CASE gslb[g].finalizers = {}
    BY <1>1, <1>2, <1>3, GslbGoneType DEF Delete
  <1>4. CASE gslb[g].finalizers # {}
    <2>1. gslb' = [gslb EXCEPT ![g].deleting = TRUE] /\ UNCHANGED <<ingress, dnsEndpoint>>
      BY <1>4 DEF Delete
    <2>2. gslb' \in [Gslb -> GslbObject]
      BY <2>1 DEF TypeOK, GslbObject
    <2>. QED
      BY <1>1, <1>2, <2>1, <2>2 DEF TypeOK
  <1>. QED
    BY <1>3, <1>4

(* The step of every action, for type correctness. *)
LEMMA TypeStep == TypeOK /\ [Next]_vars => TypeOK'
  <1>. SUFFICES ASSUME TypeOK, [Next]_vars PROVE TypeOK'
    OBVIOUS
  <1>1. ASSUME NEW g \in Gslb, ResolveGslbSpec(g) PROVE TypeOK'
    BY <1>1 DEF TypeOK, ResolveGslbSpec, objects
  <1>2. ASSUME addFinalizer PROVE TypeOK'
    <2>1. gslb' \in [Gslb -> GslbObject]
      BY <1>2 DEF TypeOK, addFinalizer, GslbObject
    <2>. QED
      BY <1>2, <2>1 DEF TypeOK, addFinalizer
  <1>3. ASSUME UpdateConflict PROVE TypeOK'
    BY <1>3, ReturnType DEF TypeOK, UpdateConflict, objects
  <1>4. ASSUME getIngress PROVE TypeOK'
    BY <1>4 DEF TypeOK, getIngress, objects
  <1>5. ASSUME CreateIngress PROVE TypeOK'
    <2>1. NewIngress(read.rules, read.annotations, "gslb") \in IngressObject
      BY DEF TypeOK, NewIngress, GslbObject, IngressObject
    <2>2. read.annotations \in Strategy
      BY DEF TypeOK, GslbObject
    <2>. QED
      BY <1>5, <2>1, <2>2, IngressSavedType DEF TypeOK, CreateIngress
  <1>6. ASSUME SaveIngressError PROVE TypeOK'
    BY <1>6, ReturnType DEF TypeOK, SaveIngressError, objects
  <1>7. ASSUME IngressUpToDate PROVE TypeOK'
    BY <1>7, IngressSavedType DEF TypeOK, IngressUpToDate, objects
  <1>8. ASSUME UpdateIngress PROVE TypeOK'
    <2>. DEFINE a == MergeAnnotations(found.annotations, read.annotations)
    <2>1. a \in Strategy
      BY DEF TypeOK, MergeAnnotations, GslbObject, IngressObject, Strategy
    <2>2. read.rules \in Rules
      BY DEF TypeOK, GslbObject
    <2>3. /\ ingress' = [ingress EXCEPT ![at].rules = read.rules, ![at].annotations = a]
          /\ event' = [event EXCEPT ![at] = @ \union EventsOf(found.annotations) \union {a}]
      BY <1>8 DEF UpdateIngress
    <2>. HIDE DEF a
    <2>4. ingress' \in [Gslb -> IngressObject]
      BY <2>1, <2>2, <2>3 DEF TypeOK, IngressObject
    <2>5. event' \in [Gslb -> SUBSET Strategy]
      BY <2>1, <2>3 DEF TypeOK, EventsOf
    <2>. QED
      BY <1>8, <2>4, <2>5, IngressSavedType DEF TypeOK, UpdateIngress
  <1>9. ASSUME IngressConflict PROVE TypeOK'
    BY <1>9, IngressSavedType DEF TypeOK, IngressConflict, objects
  <1>10. ASSUME SaveDNSEndpoint PROVE TypeOK'
    BY <1>10 DEF TypeOK, SaveDNSEndpoint, Save
  <1>11. ASSUME CreateZoneDelegationForExternalDNS PROVE TypeOK'
    BY <1>11, ReturnType DEF TypeOK, CreateZoneDelegationForExternalDNS, Save
  <1>11a. ASSUME NoZoneDelegation PROVE TypeOK'
    BY <1>11a, ReturnType DEF TypeOK, NoZoneDelegation, objects
  <1>11b. ASSUME SaveError \/ FinalizeError PROVE TypeOK'
    BY <1>11b, ReturnType DEF TypeOK, SaveError, FinalizeError, objects
  <1>11c. ASSUME CacheSync PROVE TypeOK'
    BY <1>11c DEF TypeOK, CacheSync, Stored, locals
  <1>12. ASSUME finalizeGslb PROVE TypeOK'
    BY <1>12 DEF TypeOK, finalizeGslb, RemoveEndpoint, endpointName
  <1>13. ASSUME removeFinalizer PROVE TypeOK'
    <2>1. gslb' \in [Gslb -> GslbObject]
      <3>1. \A F \in SUBSET {gslbFinalizer, legacyFinalizer} :
               [gslb EXCEPT ![at].finalizers = F] \in [Gslb -> GslbObject]
        BY DEF TypeOK, GslbObject
      <3>2. gslb[at].finalizers \ {NextFinalizer} \in SUBSET {gslbFinalizer, legacyFinalizer}
        BY DEF TypeOK, GslbObject
      <3>. QED
        BY <1>13, <3>1, <3>2 DEF removeFinalizer
    <2>. QED
      BY <1>13, <2>1 DEF TypeOK, removeFinalizer
  <1>14. ASSUME removeLastFinalizer PROVE TypeOK'
    <2>1. late' \in Nat
      <3>1. late' = late \/ late' = late + 1
        BY <1>14 DEF removeLastFinalizer, EventsDelivered
      <3>2. late \in Nat
        BY DEF TypeOK
      <3>. QED
        BY <3>1, <3>2
    <2>2. /\ gslb' \in [Gslb -> GslbObject]
          /\ ingress' \in [Gslb -> IngressObject]
          /\ dnsEndpoint' \in [Gslb -> {"", "gslb", "gone"}]
      BY <1>14, GslbGoneType DEF TypeOK, removeLastFinalizer
    <2>. QED
      BY <1>14, <2>1, <2>2, ReturnType DEF TypeOK, removeLastFinalizer
  <1>15. ASSUME Abort PROVE TypeOK'
    BY <1>15, FaultType, ReturnType DEF TypeOK, Abort, objects
  <1>16. ASSUME NEW g \in Gslb, ingressMapHandler(g) PROVE TypeOK'
    <2>. PICK a \in event[g] :
             /\ event' = [event EXCEPT ![g] = @ \ {a}]
             /\ handler' = IF ingress[g].exists /\ ~gslb[g].exists
                           THEN [pc |-> "create", at |-> g, rules |-> ingress[g].rules,
                                 annotations |-> a, owner |-> "ingress"]
                           ELSE handler
      BY <1>16 DEF ingressMapHandler
    <2>1. a \in Strategy /\ ingress[g].rules \in Rules
      BY DEF TypeOK, IngressObject
    <2>2. handler' \in Creation
      BY <2>1 DEF TypeOK, Creation
    <2>. QED
      BY <1>16, <2>2 DEF TypeOK, ingressMapHandler, objects, locals
  <1>17. ASSUME createGslbFromIngress PROVE TypeOK'
    <2>1. NewGslb(handler.rules, handler.annotations = "good", handler.annotations, handler.owner)
            \in GslbObject
      BY DEF TypeOK, NewGslb, Creation, GslbObject, Strategy
    <2>. QED
      BY <1>17, <2>1, DefaultTypes DEF TypeOK, createGslbFromIngress, locals
  <1>18. ASSUME createGslbError PROVE TypeOK'
    BY <1>18, FaultType, DefaultTypes DEF TypeOK, createGslbError, objects, locals
  <1>19. ASSUME Restart PROVE TypeOK'
    BY <1>19, FaultType, ReturnType, DefaultTypes DEF TypeOK, Restart, EventsOf, Stored
  <1>20. ASSUME NEW g \in Gslb, CollectGslb(g) PROVE TypeOK'
    BY <1>20, DeleteType DEF TypeOK, CollectGslb
  <1>21. ASSUME NEW g \in Gslb, CollectIngress(g) PROVE TypeOK'
    BY <1>21, IngressGoneType DEF TypeOK, CollectIngress
  <1>22. ASSUME NEW g \in Gslb, CollectDNSEndpoint(g) PROVE TypeOK'
    BY <1>22 DEF TypeOK, CollectDNSEndpoint, locals
  <1>23. ASSUME NEW g \in Gslb, UserCreatesGslb(g) PROVE TypeOK'
    <2>1. \A s \in Rules, v \in BOOLEAN : NewGslb(s, v, "good", "none") \in GslbObject
      BY DEF NewGslb, GslbObject, Strategy
    <2>2. gslb' \in [Gslb -> GslbObject]
      <3>. PICK s \in Rules, v \in BOOLEAN :
               gslb' = [gslb EXCEPT ![g] = NewGslb(s, v, "good", "none")]
        BY <1>23 DEF UserCreatesGslb
      <3>. QED
        BY <2>1 DEF TypeOK
    <2>. QED
      BY <1>23, FaultType, <2>2, WriteType DEF TypeOK, UserCreatesGslb
  <1>24. ASSUME NEW g \in Gslb, UserDeletesGslb(g) PROVE TypeOK'
    BY <1>24, FaultType, DeleteType DEF TypeOK, UserDeletesGslb
  <1>25. ASSUME NEW g \in Gslb, UserEditsGslb(g) PROVE TypeOK'
    <2>1. gslb' \in [Gslb -> GslbObject]
      <3>. PICK s \in Rules, v \in BOOLEAN :
               gslb' = [gslb EXCEPT ![g].rules = s, ![g].valid = v]
        BY <1>25 DEF UserEditsGslb
      <3>1. gslb \in [Gslb -> GslbObject]
        BY DEF TypeOK
      <3>2. [gslb[g] EXCEPT !.rules = s, !.valid = v] \in GslbObject
        BY <3>1 DEF GslbObject
      <3>3. gslb' = [gslb EXCEPT ![g] = [gslb[g] EXCEPT !.rules = s, !.valid = v]]
        BY <3>1
      <3>. QED
        BY <3>1, <3>2, <3>3
    <2>. QED
      BY <1>25, FaultType, <2>1, WriteType DEF TypeOK, UserEditsGslb
  <1>26. ASSUME NEW g \in Gslb, UserCreatesIngress(g) PROVE TypeOK'
    <2>1. \A s \in Rules, a \in Strategy \union {"none"} :
             NewIngress(s, a, "none") \in IngressObject
      BY DEF NewIngress, IngressObject
    <2>. PICK s \in Rules, a \in Strategy \union {"none"} :
             /\ ingress' = [ingress EXCEPT ![g] = NewIngress(s, a, "none")]
             /\ event' = [event EXCEPT ![g] = @ \union EventsOf(a)]
      BY <1>26 DEF UserCreatesIngress
    <2>2. ingress' \in [Gslb -> IngressObject]
      BY <2>1 DEF TypeOK
    <2>3. event' \in [Gslb -> SUBSET Strategy]
      BY DEF TypeOK, EventsOf
    <2>. QED
      BY <1>26, FaultType, <2>2, <2>3, WriteType DEF TypeOK, UserCreatesIngress
  <1>27. ASSUME NEW g \in Gslb, UserDeletesIngress(g) PROVE TypeOK'
    BY <1>27, FaultType, IngressGoneType DEF TypeOK, UserDeletesIngress
  <1>28. ASSUME NEW g \in Gslb, IngressWritten(g) PROVE TypeOK'
    <2>. PICK s \in Rules, a \in Strategy \union {"none"} :
             /\ ingress' = [ingress EXCEPT ![g].rules = s, ![g].annotations = a]
             /\ event' = [event EXCEPT ![g] = @ \union EventsOf(ingress[g].annotations)
                                              \union EventsOf(a)]
      BY <1>28 DEF IngressWritten
    <2>1. ingress' \in [Gslb -> IngressObject]
      BY DEF TypeOK, IngressObject
    <2>2. event' \in [Gslb -> SUBSET Strategy]
      BY DEF TypeOK, EventsOf
    <2>. QED
      BY <1>28, FaultType, <2>1, <2>2, WriteType DEF TypeOK, IngressWritten
  <1>29. CASE UNCHANGED vars
    BY <1>29 DEF TypeOK, vars, objects, locals
  <1>. QED
    BY <1>1, <1>2, <1>3, <1>4, <1>5, <1>6, <1>7, <1>8, <1>9, <1>10, <1>11, <1>11a,
       <1>11b, <1>11c, <1>12, <1>13,
       <1>14, <1>15, <1>16, <1>17, <1>18, <1>19, <1>20, <1>21, <1>22, <1>23, <1>24, <1>25, <1>26, <1>27,
       <1>28, <1>29
       DEF Next, Reconcile, ResolveError, Continue, HandleEvents, Collect, Users

-----------------------------------------------------------------------------
(* The Gslb exists with a finalizer. *)
Guarded(g) == gslb[g].exists /\ gslb[g].finalizers # {}

(* Past addFinalizer the Gslb at hand has a finalizer, and whoever removes    *)
(* one has removed the delegation before, if the provider makes one at all,   *)
(* or has not found it.                                                       *)
AtHandInv ==
    /\ pc \in {"getIngress", "saveIngress", "endpoint", "zone"} => Guarded(at)
    /\ pc = "addFinalizer" /\ "gslb" \notin written => gslb[at].exists
    /\ pc = "removeFinalizer" => ~nsEndpoint \/ overlooked
    /\ nsEndpoint => provider = "external"

(* The inductive invariant. *)
IInv == TypeOK /\ AtHandInv /\ OrphanIsOverlooked

(* What is common to steps that leave the NS endpoint and the worker's place  *)
(* alone: if no Gslb loses the finalizer and the one at hand is still there   *)
(* or known to be written, the invariant is kept.                             *)
LEMMA OthersStep ==
    ASSUME IInv,
           UNCHANGED <<provider, nsEndpoint, overlooked, pc, at>>,
           \A g \in Gslb : Guarded(g) => Guarded(g)',
           "gslb" \in written => "gslb" \in written',
           pc = "addFinalizer" /\ gslb[at].exists => gslb'[at].exists \/ "gslb" \in written'
    PROVE  AtHandInv' /\ OrphanIsOverlooked'
  <1>1. at \in Gslb
    BY DEF IInv, TypeOK
  <1>2. AtHandInv'
    BY <1>1 DEF IInv, AtHandInv, Guarded
  <1>3. OrphanIsOverlooked'
    BY DEF IInv, OrphanIsOverlooked, GuardedGslbs, Guarded
  <1>. QED
    BY <1>2, <1>3

(* A reconcile that ends without touching Gslbs keeps it too. *)
LEMMA ReturnStep ==
    ASSUME IInv, Return, UNCHANGED <<gslb, provider, nsEndpoint, overlooked>>
    PROVE  AtHandInv' /\ OrphanIsOverlooked'
  BY DEF IInv, Return, AtHandInv, OrphanIsOverlooked, GuardedGslbs, Guarded

(* And so does the deletion of a Gslb by a user or by the garbage collector.  *)
LEMMA DeleteStep ==
    ASSUME IInv, NEW g \in Gslb, Delete(g)
    PROVE  AtHandInv' /\ OrphanIsOverlooked'
  <1>1. UNCHANGED <<provider, nsEndpoint, overlooked, pc, at>>
    BY DEF Delete, Write
  <1>2. /\ "gslb" \in written => "gslb" \in written'
        /\ pc = "addFinalizer" /\ at = g => "gslb" \in written'
    BY DEF Delete, Write
  <1>3. gslb \in [Gslb -> GslbObject] /\ at \in Gslb
    BY DEF IInv, TypeOK
  <1>4. CASE gslb[g].finalizers = {}
    <2>1. gslb' = [gslb EXCEPT ![g] = NoGslb]
      BY <1>4 DEF Delete, GslbGone
    <2>2. \A h \in Gslb : h # g => gslb'[h] = gslb[h]
      BY <1>3, <2>1
    <2>3. ~Guarded(g)
      BY <1>4 DEF Guarded
    <2>4. \A h \in Gslb : Guarded(h) => Guarded(h)'
      BY <2>2, <2>3 DEF Guarded
    <2>. QED
      BY <1>1, <1>2, <1>3, <2>2, <2>4, OthersStep
  <1>5. CASE gslb[g].finalizers # {}
    <2>1. gslb' = [gslb EXCEPT ![g].deleting = TRUE]
      BY <1>5 DEF Delete
    <2>2. \A h \in Gslb : /\ gslb'[h].exists = gslb[h].exists
                          /\ gslb'[h].finalizers = gslb[h].finalizers
      BY <1>3, <2>1 DEF GslbObject
    <2>. QED
      BY <1>1, <1>2, <1>3, <2>2, OthersStep DEF Guarded
  <1>. QED
    BY <1>4, <1>5

(* And the end of an Ingress. *)
LEMMA IngressGoneStep ==
    ASSUME IInv, NEW g \in Gslb, IngressGone(g)
    PROVE  AtHandInv' /\ OrphanIsOverlooked'
  <1>1. UNCHANGED <<provider, nsEndpoint, overlooked, pc, at>> /\ ("gslb" \in written => "gslb" \in written')
    BY DEF IngressGone, Write
  <1>2. gslb \in [Gslb -> GslbObject] /\ at \in Gslb
    BY DEF IInv, TypeOK
  <1>3. \A h \in Gslb : /\ gslb'[h].exists = gslb[h].exists
                        /\ gslb'[h].finalizers = gslb[h].finalizers
    BY <1>2 DEF IngressGone, GslbObject
  <1>. QED
    BY <1>1, <1>2, <1>3, OthersStep DEF Guarded

(* Finalize leaves no NS endpoint, or one it has not found. *)
LEMMA FinalizeEffect ==
    ASSUME IInv, finalizeGslb
    PROVE  nsEndpoint' => nsEndpoint /\ overlooked'
  <1>1. at \in Gslb /\ nsEndpoint \in BOOLEAN /\ overlooked \in BOOLEAN
    BY DEF IInv, TypeOK
  <1>2. RemoveEndpoint
    BY DEF finalizeGslb
  <1>3. CASE provider = "external"
    <2>1. endpointName = NS
      BY <1>3 DEF endpointName
    <2>. QED
      BY <1>1, <1>2, <2>1 DEF RemoveEndpoint
  <1>4. CASE provider # "external"
    <2>1. ~nsEndpoint
      BY <1>4 DEF IInv, AtHandInv
    <2>. QED
      BY <1>1, <1>2, <2>1 DEF RemoveEndpoint
  <1>. QED
    BY <1>3, <1>4

(* The step of every action. *)
LEMMA DelegationStep == IInv /\ [Next]_vars => AtHandInv' /\ OrphanIsOverlooked'
  <1>. SUFFICES ASSUME IInv, [Next]_vars PROVE AtHandInv' /\ OrphanIsOverlooked'
    OBVIOUS
  <1>a. gslb \in [Gslb -> GslbObject] /\ at \in Gslb /\ nsEndpoint \in BOOLEAN
    BY DEF IInv, TypeOK
  <1>1. ASSUME NEW g \in Gslb, ResolveGslbSpec(g) PROVE AtHandInv' /\ OrphanIsOverlooked'
    BY <1>1 DEF IInv, ResolveGslbSpec, AtHandInv, OrphanIsOverlooked, GuardedGslbs, Guarded, objects
  <1>2. ASSUME addFinalizer PROVE AtHandInv' /\ OrphanIsOverlooked'
    <2>1. /\ gslb'[at].exists = gslb[at].exists
          /\ gslbFinalizer \in gslb'[at].finalizers
          /\ \A h \in Gslb : h # at => gslb'[h] = gslb[h]
      BY <1>a, <1>2 DEF addFinalizer, GslbObject
    <2>2. gslb[at].exists
      BY <1>2 DEF IInv, AtHandInv, addFinalizer
    <2>3. AtHandInv'
      BY <1>2, <2>1, <2>2 DEF IInv, addFinalizer, AtHandInv, Guarded
    <2>4. OrphanIsOverlooked'
      BY <1>a, <1>2, <2>1, <2>2 DEF addFinalizer, OrphanIsOverlooked, GuardedGslbs
    <2>. QED
      BY <2>3, <2>4
  <1>3. ASSUME UpdateConflict PROVE AtHandInv' /\ OrphanIsOverlooked'
    BY <1>3, ReturnStep DEF UpdateConflict, objects
  <1>4. ASSUME getIngress \/ CreateIngress \/ IngressUpToDate \/ UpdateIngress \/ IngressConflict
                 \/ SaveDNSEndpoint
        PROVE  AtHandInv' /\ OrphanIsOverlooked'
    <2>1. /\ pc \in {"getIngress", "saveIngress", "endpoint"}
          /\ pc' \in {"saveIngress", "endpoint", "zone"}
          /\ UNCHANGED <<gslb, provider, nsEndpoint, overlooked, at>>
      BY <1>4 DEF getIngress, CreateIngress, IngressUpToDate, UpdateIngress, IngressConflict,
                  SaveDNSEndpoint, IngressSaved, objects
    <2>. QED
      BY <2>1 DEF IInv, AtHandInv, OrphanIsOverlooked, GuardedGslbs, Guarded
  <1>5. ASSUME SaveIngressError \/ SaveError \/ NoZoneDelegation \/ FinalizeError
        PROVE  AtHandInv' /\ OrphanIsOverlooked'
    BY <1>5, ReturnStep DEF SaveIngressError, SaveError, NoZoneDelegation, FinalizeError, objects
  <1>6. ASSUME CreateZoneDelegationForExternalDNS PROVE AtHandInv' /\ OrphanIsOverlooked'
    <2>1. Guarded(at) /\ pc' = "idle" /\ UNCHANGED <<gslb, provider>>
      BY <1>6 DEF IInv, AtHandInv, CreateZoneDelegationForExternalDNS, Return
    <2>2. nsEndpoint' => provider = "external"
      BY <1>6 DEF IInv, AtHandInv, CreateZoneDelegationForExternalDNS
    <2>. QED
      BY <1>a, <2>1, <2>2 DEF AtHandInv, OrphanIsOverlooked, GuardedGslbs, Guarded
  <1>7. ASSUME finalizeGslb PROVE AtHandInv' /\ OrphanIsOverlooked'
    <2>1. pc' = "removeFinalizer" /\ UNCHANGED provider
      BY <1>7 DEF finalizeGslb
    <2>2. /\ nsEndpoint' => nsEndpoint /\ overlooked'
          /\ nsEndpoint' => provider = "external"
      BY <1>7, FinalizeEffect DEF IInv, AtHandInv
    <2>. QED
      BY <2>1, <2>2 DEF AtHandInv, OrphanIsOverlooked
  <1>8. ASSUME removeFinalizer PROVE AtHandInv' /\ OrphanIsOverlooked'
    BY <1>8 DEF IInv, removeFinalizer, AtHandInv, OrphanIsOverlooked
  <1>9. ASSUME removeLastFinalizer PROVE AtHandInv' /\ OrphanIsOverlooked'
    BY <1>9 DEF IInv, removeLastFinalizer, Return, AtHandInv, OrphanIsOverlooked
  <1>10. ASSUME Abort PROVE AtHandInv' /\ OrphanIsOverlooked'
    BY <1>10, ReturnStep DEF Abort, objects
  <1>11. ASSUME NEW g \in Gslb, ingressMapHandler(g) PROVE AtHandInv' /\ OrphanIsOverlooked'
    BY <1>11, OthersStep DEF ingressMapHandler, objects, locals, Guarded
  <1>12. ASSUME createGslbFromIngress PROVE AtHandInv' /\ OrphanIsOverlooked'
    <2>1. UNCHANGED <<provider, nsEndpoint, overlooked, pc, at, written>>
      BY <1>12 DEF createGslbFromIngress, locals
    <2>2. handler.at \in Gslb
      BY DEF IInv, TypeOK, Creation
    <2>3. \A h \in Gslb : gslb[h].exists => gslb'[h] = gslb[h]
      BY <1>a, <1>12, <2>2 DEF createGslbFromIngress
    <2>. QED
      BY <1>a, <2>1, <2>3, OthersStep DEF Guarded
  <1>13. ASSUME createGslbError \/ CacheSync PROVE AtHandInv' /\ OrphanIsOverlooked'
    BY <1>13, OthersStep DEF createGslbError, CacheSync, objects, locals, Guarded
  <1>14. ASSUME Restart PROVE AtHandInv' /\ OrphanIsOverlooked'
    BY <1>14, ReturnStep DEF Restart
  <1>15. ASSUME NEW g \in Gslb, CollectGslb(g) \/ UserDeletesGslb(g)
         PROVE  AtHandInv' /\ OrphanIsOverlooked'
    BY <1>15, DeleteStep DEF CollectGslb, UserDeletesGslb
  <1>16. ASSUME NEW g \in Gslb, CollectIngress(g) \/ UserDeletesIngress(g)
         PROVE  AtHandInv' /\ OrphanIsOverlooked'
    BY <1>16, IngressGoneStep DEF CollectIngress, UserDeletesIngress
  <1>17. ASSUME NEW g \in Gslb, CollectDNSEndpoint(g) PROVE AtHandInv' /\ OrphanIsOverlooked'
    BY <1>17, OthersStep DEF CollectDNSEndpoint, locals, Guarded
  <1>18. ASSUME NEW g \in Gslb, UserCreatesGslb(g) PROVE AtHandInv' /\ OrphanIsOverlooked'
    <2>1. UNCHANGED <<provider, nsEndpoint, overlooked, pc, at>> /\ ("gslb" \in written => "gslb" \in written')
      BY <1>18 DEF UserCreatesGslb, Write
    <2>2. \A h \in Gslb : gslb[h].exists => gslb'[h] = gslb[h]
      BY <1>a, <1>18 DEF UserCreatesGslb
    <2>. QED
      BY <1>a, <2>1, <2>2, OthersStep DEF Guarded
  <1>19. ASSUME NEW g \in Gslb, UserEditsGslb(g) PROVE AtHandInv' /\ OrphanIsOverlooked'
    <2>1. UNCHANGED <<provider, nsEndpoint, overlooked, pc, at>> /\ ("gslb" \in written => "gslb" \in written')
      BY <1>19 DEF UserEditsGslb, Write
    <2>2. \A h \in Gslb : /\ gslb'[h].exists = gslb[h].exists
                          /\ gslb'[h].finalizers = gslb[h].finalizers
      BY <1>a, <1>19 DEF UserEditsGslb, GslbObject
    <2>. QED
      BY <1>a, <2>1, <2>2, OthersStep DEF Guarded
  <1>20. ASSUME NEW g \in Gslb, UserCreatesIngress(g) \/ IngressWritten(g)
         PROVE  AtHandInv' /\ OrphanIsOverlooked'
    <2>1. /\ UNCHANGED <<gslb, provider, nsEndpoint, overlooked, pc, at>>
          /\ "gslb" \in written => "gslb" \in written'
      BY <1>20 DEF UserCreatesIngress, IngressWritten, Write
    <2>. QED
      BY <2>1, OthersStep DEF Guarded
  <1>21. CASE UNCHANGED vars
    BY <1>21, OthersStep DEF vars, objects, locals, Guarded
  <1>. QED
    BY <1>1, <1>2, <1>3, <1>4, <1>5, <1>6, <1>7, <1>8, <1>9, <1>10, <1>11, <1>12, <1>13, <1>14,
       <1>15, <1>16, <1>17, <1>18, <1>19, <1>20, <1>21
       DEF Next, Reconcile, ResolveError, Continue, HandleEvents, Collect, Users

(* The Gslbs there are when the operator starts have the old finalizer. *)
LEMMA InitGslbs ==
    ASSUME Init
    PROVE  \A g \in Gslb : /\ gslb[g].exists => gslb[g].finalizers # {}
                           /\ gslb[g].deleting => gslb[g].exists
                           /\ gslb[g].owner = "none"
  <1>1. \A g \in Gslb : gslb[g] \in {NoGslb, Legacy, [Legacy EXCEPT !.deleting = TRUE]}
    BY DEF Init
  <1>2. ~NoGslb.exists /\ ~NoGslb.deleting /\ NoGslb.owner = "none"
    BY DEF NoGslb
  <1>3. /\ Legacy.exists /\ Legacy.finalizers = {legacyFinalizer} /\ Legacy.owner = "none"
        /\ [Legacy EXCEPT !.deleting = TRUE].exists
        /\ [Legacy EXCEPT !.deleting = TRUE].finalizers = {legacyFinalizer}
        /\ [Legacy EXCEPT !.deleting = TRUE].owner = "none"
    BY DEF Legacy, NewGslb
  <1>. QED
    BY <1>1, <1>2, <1>3

(* The invariant holds when the operator starts. *)
LEMMA InitIInv == Init => IInv
  <1>. SUFFICES ASSUME Init PROVE IInv
    OBVIOUS
  <1>1. AnyRules \in Rules
    BY RulesAssumption DEF AnyRules
  <1>2. gslb \in [Gslb -> GslbObject] /\ ingress \in [Gslb -> IngressObject]
    <2>. DEFINE G == {NoGslb, Legacy, [Legacy EXCEPT !.deleting = TRUE]}
                I == {NoIngress, NewIngress(AnyRules, "good", "gslb")}
                     \union {NewIngress(s, "good", "none") : s \in Rules}
    <2>1. Legacy \in GslbObject
      BY <1>1 DEF Legacy, NewGslb, GslbObject, Strategy
    <2>2. [Legacy EXCEPT !.deleting = TRUE] \in GslbObject
      BY <2>1 DEF GslbObject
    <2>3. G \subseteq GslbObject
      BY <2>1, <2>2, DefaultTypes
    <2>4. \A s \in Rules, o \in {"none", "gslb"} : NewIngress(s, "good", o) \in IngressObject
      BY DEF NewIngress, IngressObject, Strategy
    <2>5. I \subseteq IngressObject
      BY <1>1, <2>4, DefaultTypes
    <2>6. gslb \in [Gslb -> G] /\ ingress \in [Gslb -> I]
      BY DEF Init
    <2>. HIDE DEF G, I
    <2>. QED
      BY <2>3, <2>5, <2>6
  <1>3. TypeOK
    BY <1>2, DefaultTypes DEF Init, TypeOK, EventsOf, Stored
  <1>4. AtHandInv
    BY DEF Init, AtHandInv
  <1>5. OrphanIsOverlooked
    <2>1. \A g \in Gslb : dnsEndpoint[g] = "gslb" => gslb[g].exists
      BY DEF Init
    <2>2. \A g \in Gslb : gslb[g].exists => g \in GuardedGslbs
      BY InitGslbs DEF GuardedGslbs
    <2>. QED
      BY <2>1, <2>2 DEF Init, OrphanIsOverlooked
  <1>. QED
    BY <1>3, <1>4, <1>5 DEF IInv

(* In every reachable state the objects and the worker's locals have their    *)
(* types.                                                                     *)
THEOREM TypeCorrect == Spec => []TypeOK
  <1>1. Init => TypeOK
    BY InitIInv DEF IInv
  <1>. QED
    BY <1>1, TypeStep, PTL DEF Spec

(* The NS endpoint external-dns delegates the zone with outlives the last     *)
(* Gslb with a finalizer only after a Finalize has not found it in the cache, *)
(* whatever users, the garbage collector, failed calls and restarts do        *)
(* between the steps of a reconcile (gslb_controller.go:104-131).             *)
THEOREM OrphanIsOverlookedHolds == Spec => []OrphanIsOverlooked
  <1>1. IInv /\ [Next]_vars => IInv'
    BY TypeStep, DelegationStep DEF IInv
  <1>2. IInv => OrphanIsOverlooked
    BY DEF IInv
  <1>. QED
    BY InitIInv, <1>1, <1>2, PTL DEF Spec

-----------------------------------------------------------------------------
(* A cache that keeps up *)

(* No Finalize starts before the watch has delivered what was last written to *)
(* the NS endpoint.                                                           *)
TimelyFinalize == finalizeGslb => NS \notin stale

(* What the cache shows of the NS endpoint is right unless it lags, and       *)
(* nothing has been overlooked.                                               *)
CacheInv ==
    /\ NS \notin stale => (NS \in shown <=> nsEndpoint)
    /\ ~overlooked

(* The NS endpoint is stored, or not. *)
LEMMA NSStored ==
    ASSUME TypeOK
    PROVE  NS \in Stored <=> nsEndpoint
  BY NSAssumption DEF TypeOK, Stored

(* A timely step keeps that. *)
LEMMA CacheStep == IInv /\ CacheInv /\ [Next /\ TimelyFinalize]_vars => CacheInv'
  <1>. SUFFICES ASSUME IInv, CacheInv, [Next /\ TimelyFinalize]_vars PROVE CacheInv'
    OBVIOUS
  <1>a. /\ at \in Gslb /\ at # NS /\ nsEndpoint \in BOOLEAN /\ overlooked \in BOOLEAN
        /\ TypeOK
    BY NSAssumption DEF IInv, TypeOK
  <1>1. ASSUME finalizeGslb, TimelyFinalize PROVE CacheInv'
    <2>1. RemoveEndpoint /\ (NS \in shown <=> nsEndpoint)
      BY <1>1 DEF finalizeGslb, TimelyFinalize, CacheInv
    <2>2. CASE provider = "external"
      <3>1. endpointName = NS
        BY <2>2 DEF endpointName
      <3>2. CASE NS \notin shown
        <4>1. overlooked' = nsEndpoint /\ UNCHANGED <<nsEndpoint, shown, stale>> /\ ~nsEndpoint
          BY <2>1, <3>1, <3>2 DEF RemoveEndpoint
        <4>. QED
          BY <3>2, <4>1 DEF CacheInv
      <3>3. CASE NS \in shown
        <4>1. overlooked' = (overlooked /\ NS # NS) /\ stale' = stale \union {NS}
          BY <2>1, <3>1, <3>3 DEF RemoveEndpoint
        <4>. QED
          BY <4>1 DEF CacheInv
      <3>. QED
        BY <3>2, <3>3
    <2>3. CASE provider # "external"
      <3>1. endpointName = at /\ ~nsEndpoint
        BY <2>3 DEF endpointName, IInv, AtHandInv
      <3>2. ~nsEndpoint' /\ ~overlooked' /\ shown' = shown
        <4>1. ~overlooked
          BY DEF CacheInv
        <4>2. shown' = shown
          BY <2>1 DEF RemoveEndpoint
        <4>3. (nsEndpoint' => nsEndpoint) /\ (overlooked' => nsEndpoint \/ overlooked)
          <5>1. CASE endpointName \notin shown
            <6>1. overlooked' = nsEndpoint
              BY <2>1, <5>1 DEF RemoveEndpoint
            <6>2. nsEndpoint' = nsEndpoint
              BY <2>1, <5>1 DEF RemoveEndpoint
            <6>. QED
              BY <6>1, <6>2, Zenon
          <5>2. CASE endpointName \in shown
            <6>1. nsEndpoint' = (nsEndpoint /\ endpointName # NS)
              BY <2>1, <5>2 DEF RemoveEndpoint
            <6>2. overlooked' = (overlooked /\ endpointName # NS)
              BY <2>1, <5>2 DEF RemoveEndpoint
            <6>3. nsEndpoint' => nsEndpoint
              BY <6>1, Zenon
            <6>4. overlooked' => overlooked
              BY <6>2, Zenon
            <6>. QED
              BY <6>3, <6>4
          <5>. QED
            BY <5>1, <5>2
        <4>. QED
          BY <3>1, <4>1, <4>2, <4>3
      <3>3. NS \notin shown
        BY <2>1, <3>1
      <3>. QED
        BY <3>2, <3>3 DEF CacheInv
    <2>. QED
      BY <2>2, <2>3
  <1>2. ASSUME CreateZoneDelegationForExternalDNS PROVE CacheInv'
    BY <1>2 DEF CreateZoneDelegationForExternalDNS, Save, CacheInv
  <1>3. ASSUME SaveDNSEndpoint PROVE CacheInv'
    BY <1>a, <1>3 DEF SaveDNSEndpoint, Save, CacheInv
  <1>4. ASSUME NEW g \in Gslb, CollectDNSEndpoint(g) PROVE CacheInv'
    BY <1>4, NSAssumption DEF CollectDNSEndpoint, CacheInv
  <1>5. ASSUME CacheSync \/ Restart PROVE CacheInv'
    <2>1. UNCHANGED <<nsEndpoint, overlooked>> /\ shown' = Stored
      BY <1>5 DEF CacheSync, Restart
    <2>. QED
      BY <1>a, <2>1, NSStored DEF CacheInv
  <1>6. ASSUME UNCHANGED <<nsEndpoint, overlooked, shown, stale>> PROVE CacheInv'
    BY <1>6 DEF CacheInv
  <1>7. ASSUME NEW g \in Gslb, Users(g) \/ CollectGslb(g) \/ CollectIngress(g)
        PROVE  UNCHANGED <<nsEndpoint, overlooked, shown, stale>>
    BY <1>7 DEF Users, CollectGslb, CollectIngress, UserCreatesGslb, UserDeletesGslb, UserEditsGslb,
                UserCreatesIngress, UserDeletesIngress, IngressWritten, Delete, IngressGone
  <1>8. ASSUME \/ addFinalizer \/ CreateIngress \/ UpdateIngress
               \/ removeFinalizer \/ removeLastFinalizer \/ createGslbFromIngress
        PROVE  UNCHANGED <<nsEndpoint, overlooked, shown, stale>>
    BY <1>8 DEF addFinalizer, CreateIngress, UpdateIngress, removeFinalizer, removeLastFinalizer,
                createGslbFromIngress
  <1>9. ASSUME \/ \E g \in Gslb : ResolveGslbSpec(g) \/ ingressMapHandler(g)
               \/ UpdateConflict \/ getIngress \/ SaveIngressError \/ IngressUpToDate
               \/ IngressConflict \/ SaveError \/ NoZoneDelegation \/ FinalizeError
               \/ Abort \/ createGslbError \/ UNCHANGED vars
        PROVE  UNCHANGED <<nsEndpoint, overlooked, shown, stale>>
    BY <1>9 DEF ResolveGslbSpec, ingressMapHandler, UpdateConflict, getIngress, SaveIngressError,
                IngressUpToDate, IngressConflict, SaveError, NoZoneDelegation, FinalizeError,
                Abort, createGslbError, vars, objects
  <1>. QED
    BY <1>1, <1>2, <1>3, <1>4, <1>5, <1>6, <1>7, <1>8, <1>9
       DEF Next, Reconcile, ResolveError, Continue, HandleEvents, Collect

(* If the cache keeps up with Finalize, the delegation never outlives the     *)
(* last Gslb with a finalizer: the lag is all that the finalizer does not     *)
(* guard against (gslb.go:173-178).                                           *)
THEOREM TimelyFinalizeLeavesNoOrphan ==
    Spec /\ [][TimelyFinalize]_vars => []NoOrphanDelegation
  <1>1. IInv /\ [Next]_vars => IInv'
    BY TypeStep, DelegationStep DEF IInv
  <1>2. Init => CacheInv
    <2>. SUFFICES ASSUME Init PROVE CacheInv
      OBVIOUS
    <2>1. shown = Stored /\ overlooked = FALSE
      BY DEF Init
    <2>. QED
      BY <2>1, InitIInv, NSStored DEF IInv, CacheInv
  <1>3. IInv /\ CacheInv => NoOrphanDelegation
    BY DEF IInv, CacheInv, OrphanIsOverlooked, NoOrphanDelegation
  <1>4. [Next]_vars /\ [TimelyFinalize]_vars => [Next /\ TimelyFinalize]_vars
    OBVIOUS
  <1>. QED
    BY InitIInv, <1>1, <1>2, <1>3, <1>4, CacheStep, PTL DEF Spec

-----------------------------------------------------------------------------
(* Deletion *)

(* The steps of everybody but the worker. *)
OthersNext ==
    \/ createGslbFromIngress \/ createGslbError \/ CacheSync
    \/ \E g \in Gslb : ingressMapHandler(g) \/ Collect(g) \/ Users(g)

(* What can become of a Gslb in such a step: nothing that finalizers depend   *)
(* on, or it is created, or deleted, which the worker is bound to notice.     *)
Kept(g) ==
    /\ gslb'[g].exists = gslb[g].exists
    /\ gslb'[g].deleting = gslb[g].deleting
    /\ gslb'[g].finalizers = gslb[g].finalizers
Created(g) ==
    /\ ~gslb[g].exists /\ ~gslb[g].deleting
    /\ gslb'[g].exists /\ ~gslb'[g].deleting /\ gslb'[g].finalizers = {}
Deleted(g) ==
    /\ gslb[g].exists /\ ~gslb[g].deleting
    /\ pc \notin {"idle", "endpoint", "zone"} /\ at = g => "gslb" \in written'
    /\ \/ gslb[g].finalizers = {} /\ gslb'[g] = NoGslb
       \/ /\ gslb[g].finalizers # {} /\ gslb'[g].finalizers = gslb[g].finalizers
          /\ gslb'[g].exists /\ gslb'[g].deleting

(* A Gslb is only being deleted while a finalizer keeps it; the worker        *)
(* finalizes such a Gslb only, whose finalizers are as it has read them, and  *)
(* adds its own to one that is not being deleted.                             *)
DeletionInv ==
    /\ \A g \in Gslb : gslb[g].deleting => gslb[g].exists /\ gslb[g].finalizers # {}
    /\ pc \in {"finalize", "removeFinalizer"} =>
           gslb[at].exists /\ gslb[at].deleting /\ gslb[at].finalizers = read.finalizers
    /\ pc = "addFinalizer" /\ "gslb" \notin written => ~gslb[at].deleting

(* Deletion by a user or the garbage collector. *)
LEMMA DeleteEffect ==
    ASSUME TypeOK, NEW g \in Gslb, Delete(g), gslb[g].exists, ~gslb[g].deleting
    PROVE  /\ UNCHANGED <<pc, at, read, provider, nsEndpoint, overlooked>>
           /\ "gslb" \in written => "gslb" \in written'
           /\ Deleted(g)
           /\ \A h \in Gslb \ {g} : gslb'[h] = gslb[h]
  <1>1. /\ UNCHANGED <<pc, at, read, provider, nsEndpoint, overlooked>>
        /\ "gslb" \in written => "gslb" \in written'
        /\ pc \notin {"idle", "endpoint", "zone"} /\ at = g => "gslb" \in written'
    BY DEF Delete, Write
  <1>2. gslb \in [Gslb -> GslbObject]
    BY DEF TypeOK
  <1>3. CASE gslb[g].finalizers = {}
    <2>1. gslb' = [gslb EXCEPT ![g] = NoGslb]
      BY <1>3 DEF Delete, GslbGone
    <2>2. gslb'[g] = NoGslb /\ \A h \in Gslb \ {g} : gslb'[h] = gslb[h]
      BY <1>2, <2>1
    <2>. QED
      BY <1>1, <1>3, <2>2 DEF Deleted
  <1>4. CASE gslb[g].finalizers # {}
    <2>1. gslb' = [gslb EXCEPT ![g].deleting = TRUE]
      BY <1>4 DEF Delete
    <2>2. /\ gslb'[g].exists /\ gslb'[g].deleting /\ gslb'[g].finalizers = gslb[g].finalizers
          /\ \A h \in Gslb \ {g} : gslb'[h] = gslb[h]
      BY <1>2, <2>1 DEF GslbObject
    <2>. QED
      BY <1>1, <1>4, <2>2 DEF Deleted
  <1>. QED
    BY <1>3, <1>4

(* What one step of the others does to the Gslbs and to the worker. *)
LEMMA OthersEffect ==
    ASSUME TypeOK, \A g \in Gslb : gslb[g].deleting => gslb[g].exists, OthersNext
    PROVE  /\ UNCHANGED <<pc, at, read, provider, nsEndpoint, overlooked>>
           /\ "gslb" \in written => "gslb" \in written'
           /\ \E g \in Gslb : /\ Kept(g) \/ Created(g) \/ Deleted(g)
                              /\ \A h \in Gslb \ {g} : Kept(h)
  <1>. DEFINE Effect == /\ UNCHANGED <<pc, at, read, provider, nsEndpoint, overlooked>>
                        /\ "gslb" \in written => "gslb" \in written'
                        /\ \E g \in Gslb : /\ Kept(g) \/ Created(g) \/ Deleted(g)
                                           /\ \A h \in Gslb \ {g} : Kept(h)
  <1>a. gslb \in [Gslb -> GslbObject] /\ at \in Gslb /\ handler.at \in Gslb
    BY DEF TypeOK, Creation
  <1>b. \A g \in Gslb : gslb[g].deleting => gslb[g].exists
    OBVIOUS
  <1>1. ASSUME createGslbFromIngress PROVE Effect
    <2>1. UNCHANGED <<pc, at, read, written, provider, nsEndpoint, overlooked>>
      BY <1>1 DEF createGslbFromIngress, locals
    <2>2. \A h \in Gslb \ {handler.at} : gslb'[h] = gslb[h]
      BY <1>1, <1>a DEF createGslbFromIngress
    <2>3. gslb[handler.at].exists => gslb' = gslb
      BY <1>1 DEF createGslbFromIngress
    <2>4. ~gslb[handler.at].exists => Created(handler.at)
      BY <1>1, <1>a, <1>b DEF createGslbFromIngress, NewGslb, Created
    <2>. QED
      BY <1>a, <2>1, <2>2, <2>3, <2>4 DEF Kept
  <1>2. ASSUME NEW g \in Gslb, UserCreatesGslb(g) PROVE Effect
    <2>1. UNCHANGED <<pc, at, read, provider, nsEndpoint, overlooked>> /\ ("gslb" \in written => "gslb" \in written')
      BY <1>2 DEF UserCreatesGslb, Write
    <2>. PICK s \in Rules, v \in BOOLEAN : gslb' = [gslb EXCEPT ![g] = NewGslb(s, v, "good", "none")]
      BY <1>2 DEF UserCreatesGslb
    <2>2. \A h \in Gslb \ {g} : gslb'[h] = gslb[h]
      BY <1>a
    <2>3. Created(g)
      BY <1>2, <1>a, <1>b DEF UserCreatesGslb, NewGslb, Created
    <2>. QED
      BY <2>1, <2>2, <2>3 DEF Kept
  <1>3. ASSUME NEW g \in Gslb, UserEditsGslb(g) PROVE Effect
    <2>1. UNCHANGED <<pc, at, read, provider, nsEndpoint, overlooked>> /\ ("gslb" \in written => "gslb" \in written')
      BY <1>3 DEF UserEditsGslb, Write
    <2>2. \A h \in Gslb : Kept(h)
      BY <1>3, <1>a DEF UserEditsGslb, GslbObject, Kept
    <2>. QED
      BY <1>a, <2>1, <2>2
  <1>4. ASSUME NEW g \in Gslb, CollectGslb(g) \/ UserDeletesGslb(g) PROVE Effect
    <2>1. gslb[g].exists /\ ~gslb[g].deleting /\ Delete(g)
      BY <1>4 DEF CollectGslb, UserDeletesGslb
    <2>. QED
      BY <2>1, DeleteEffect DEF Kept
  <1>5. ASSUME NEW g \in Gslb, CollectIngress(g) \/ UserDeletesIngress(g) PROVE Effect
    <2>1. IngressGone(g)
      BY <1>5 DEF CollectIngress, UserDeletesIngress
    <2>2. UNCHANGED <<pc, at, read, provider, nsEndpoint, overlooked>> /\ ("gslb" \in written => "gslb" \in written')
      BY <2>1 DEF IngressGone, Write
    <2>3. \A h \in Gslb : Kept(h)
      BY <2>1, <1>a DEF IngressGone, GslbObject, Kept
    <2>. QED
      BY <1>a, <2>2, <2>3
  <1>6. ASSUME NEW g \in Gslb, \/ ingressMapHandler(g) \/ CollectDNSEndpoint(g) \/ createGslbError
                               \/ CacheSync \/ UserCreatesIngress(g) \/ IngressWritten(g)
        PROVE  Effect
    <2>1. UNCHANGED <<gslb, pc, at, read, provider, nsEndpoint, overlooked>> /\ ("gslb" \in written => "gslb" \in written')
      BY <1>6 DEF ingressMapHandler, CollectDNSEndpoint, createGslbError, CacheSync, UserCreatesIngress,
                  IngressWritten, Write, objects, locals
    <2>. QED
      BY <1>a, <2>1 DEF Kept
  <1>. QED
    BY <1>a, <1>1, <1>2, <1>3, <1>4, <1>5, <1>6 DEF OthersNext, Collect, Users

(* The effect of the step that removes one of several finalizers. *)
LEMMA RemoveFinalizerEffect ==
    ASSUME TypeOK, DeletionInv, removeFinalizer
    PROVE  /\ gslb'[at].exists /\ gslb'[at].deleting
           /\ gslb'[at].finalizers = gslb[at].finalizers \ {NextFinalizer}
           /\ gslb'[at].finalizers # {}
           /\ \A h \in Gslb \ {at} : gslb'[h] = gslb[h]
           /\ read' = gslb'[at]
  <1>1. gslb \in [Gslb -> GslbObject] /\ at \in Gslb
    BY DEF TypeOK
  <1>2. /\ gslb' = [gslb EXCEPT ![at].finalizers = @ \ {NextFinalizer}]
        /\ read' = gslb'[at] /\ pc = "removeFinalizer" /\ read.finalizers # {NextFinalizer}
    BY DEF removeFinalizer
  <1>3. /\ gslb[at].exists /\ gslb[at].deleting
        /\ gslb[at].finalizers = read.finalizers /\ gslb[at].finalizers # {}
    BY <1>1, <1>2 DEF DeletionInv
  <1>4. /\ gslb'[at].exists = gslb[at].exists /\ gslb'[at].deleting = gslb[at].deleting
        /\ gslb'[at].finalizers = gslb[at].finalizers \ {NextFinalizer}
        /\ \A h \in Gslb \ {at} : gslb'[h] = gslb[h]
    BY <1>1, <1>2 DEF GslbObject
  <1>5. gslb[at].finalizers \ {NextFinalizer} # {}
    BY <1>2, <1>3
  <1>. QED
    BY <1>2, <1>3, <1>4, <1>5

(* Every step keeps the invariant on deletion. *)
LEMMA DeletionStep == TypeOK /\ DeletionInv /\ [Next]_vars => DeletionInv'
  <1>. SUFFICES ASSUME TypeOK, DeletionInv, [Next]_vars PROVE DeletionInv'
    OBVIOUS
  <1>a. gslb \in [Gslb -> GslbObject] /\ at \in Gslb
    BY DEF TypeOK
  <1>1. ASSUME NEW g \in Gslb, ResolveGslbSpec(g) PROVE DeletionInv'
    BY <1>1 DEF ResolveGslbSpec, DeletionInv, objects
  <1>2. ASSUME addFinalizer PROVE DeletionInv'
    <2>1. /\ gslb'[at].exists = gslb[at].exists
          /\ gslb'[at].finalizers # {}
          /\ gslb'[at].deleting = gslb[at].deleting
          /\ \A h \in Gslb \ {at} : gslb'[h] = gslb[h]
      BY <1>a, <1>2 DEF addFinalizer, GslbObject
    <2>2. pc' = "getIngress"
      BY <1>2 DEF addFinalizer
    <2>. QED
      BY <2>1, <2>2 DEF DeletionInv
  <1>3. ASSUME \/ UpdateConflict \/ SaveIngressError \/ SaveError \/ NoZoneDelegation
               \/ FinalizeError \/ Abort \/ Restart \/ CreateZoneDelegationForExternalDNS
        PROVE  DeletionInv'
    <2>1. pc' = "idle" /\ UNCHANGED gslb
      BY <1>3 DEF UpdateConflict, SaveIngressError, SaveError, NoZoneDelegation, FinalizeError, Abort,
                  Restart, CreateZoneDelegationForExternalDNS, Return, objects
    <2>. QED
      BY <2>1 DEF DeletionInv
  <1>4. ASSUME \/ getIngress \/ CreateIngress \/ IngressUpToDate \/ UpdateIngress
               \/ IngressConflict \/ SaveDNSEndpoint
        PROVE  DeletionInv'
    <2>1. pc' \in {"saveIngress", "endpoint", "zone"} /\ UNCHANGED gslb
      BY <1>4 DEF getIngress, CreateIngress, IngressUpToDate, UpdateIngress, IngressConflict,
                  SaveDNSEndpoint, IngressSaved, objects
    <2>. QED
      BY <2>1 DEF DeletionInv
  <1>5. ASSUME finalizeGslb PROVE DeletionInv'
    BY <1>5 DEF finalizeGslb, DeletionInv
  <1>6. ASSUME removeFinalizer PROVE DeletionInv'
    <2>1. pc' = "finalize" /\ at' = at
      BY <1>6 DEF removeFinalizer
    <2>. QED
      BY <1>6, <2>1, RemoveFinalizerEffect DEF DeletionInv
  <1>7. ASSUME removeLastFinalizer PROVE DeletionInv'
    <2>1. pc' = "idle" /\ gslb' = [gslb EXCEPT ![at] = NoGslb]
      BY <1>7 DEF removeLastFinalizer, Return, GslbGone
    <2>2. gslb'[at] = NoGslb /\ \A h \in Gslb \ {at} : gslb'[h] = gslb[h]
      BY <1>a, <2>1
    <2>. QED
      BY <2>1, <2>2 DEF DeletionInv, NoGslb
  <1>8. ASSUME OthersNext PROVE DeletionInv'
    <2>1. /\ UNCHANGED <<pc, at, read>>
          /\ "gslb" \in written => "gslb" \in written'
      BY <1>8, OthersEffect DEF DeletionInv
    <2>2. PICK g \in Gslb : /\ Kept(g) \/ Created(g) \/ Deleted(g)
                            /\ \A h \in Gslb \ {g} : Kept(h)
      BY <1>8, OthersEffect DEF DeletionInv
    <2>3. \A h \in Gslb : gslb'[h].deleting => gslb'[h].exists /\ gslb'[h].finalizers # {}
      BY <2>2 DEF DeletionInv, Kept, Created, Deleted, NoGslb
    <2>4. pc \in {"finalize", "removeFinalizer"} => Kept(at)
      BY <1>a, <2>2 DEF DeletionInv, Created, Deleted
    <2>5. pc = "addFinalizer" /\ "gslb" \notin written' => ~gslb'[at].deleting
      BY <1>a, <2>1, <2>2 DEF DeletionInv, Kept, Created, Deleted
    <2>. QED
      BY <2>1, <2>3, <2>4, <2>5 DEF DeletionInv, Kept
  <1>9. CASE UNCHANGED vars
    BY <1>9 DEF vars, objects, locals, DeletionInv
  <1>. QED
    BY <1>1, <1>2, <1>3, <1>4, <1>5, <1>6, <1>7, <1>8, <1>9
       DEF Next, Reconcile, ResolveError, Continue, HandleEvents, OthersNext

-----------------------------------------------------------------------------
(* The protocol of the finalizer *)

(* A step that keeps all finalizers and the delegation is none of it. *)
LEMMA KeptIsStutter ==
    ASSUME \A g \in Gslb : Kept(g), UNCHANGED <<nsEndpoint, overlooked>>
    PROVE  UNCHANGED Protocol!vars
  BY DEF Kept, Protocol!vars, GuardedGslbs, DoomedGslbs

(* Every step is one of the protocol. *)
LEMMA ProtocolStep ==
    IInv /\ DeletionInv /\ [Next]_vars => [Protocol!Next]_(Protocol!vars)
  <1>. SUFFICES ASSUME IInv, DeletionInv, [Next]_vars
                PROVE  Protocol!Next \/ UNCHANGED Protocol!vars
    OBVIOUS
  <1>a. gslb \in [Gslb -> GslbObject] /\ at \in Gslb /\ TypeOK
        /\ nsEndpoint \in BOOLEAN /\ overlooked \in BOOLEAN
    BY DEF IInv, TypeOK
  <1>1. ASSUME NEW g \in Gslb, ResolveGslbSpec(g) PROVE UNCHANGED Protocol!vars
    BY <1>1, KeptIsStutter DEF ResolveGslbSpec, objects, Kept
  <1>2. ASSUME addFinalizer PROVE Protocol!Guard(at)
    <2>1. /\ gslb'[at].exists = gslb[at].exists
          /\ gslbFinalizer \in gslb'[at].finalizers
          /\ gslb'[at].deleting = gslb[at].deleting
          /\ \A h \in Gslb \ {at} : gslb'[h] = gslb[h]
      BY <1>a, <1>2 DEF addFinalizer, GslbObject
    <2>2. gslb[at].exists /\ ~gslb[at].deleting /\ UNCHANGED <<nsEndpoint, overlooked>>
      BY <1>2 DEF addFinalizer, IInv, AtHandInv, DeletionInv
    <2>3. GuardedGslbs' = GuardedGslbs \union {at}
      BY <1>a, <2>1, <2>2 DEF GuardedGslbs
    <2>4. DoomedGslbs' = DoomedGslbs /\ at \notin DoomedGslbs
      BY <2>1, <2>2 DEF DoomedGslbs
    <2>. QED
      BY <2>2, <2>3, <2>4 DEF Protocol!Guard
  <1>3. ASSUME \/ UpdateConflict \/ SaveIngressError \/ SaveError \/ NoZoneDelegation
               \/ FinalizeError \/ Abort \/ Restart \/ getIngress \/ CreateIngress \/ IngressUpToDate \/ UpdateIngress
               \/ IngressConflict \/ SaveDNSEndpoint
        PROVE  UNCHANGED Protocol!vars
    <2>1. UNCHANGED <<gslb, nsEndpoint, overlooked>>
      BY <1>3 DEF UpdateConflict, SaveIngressError, SaveError, NoZoneDelegation, FinalizeError, Abort,
                  Restart, getIngress, CreateIngress, IngressUpToDate, UpdateIngress, IngressConflict, SaveDNSEndpoint, objects
    <2>. QED
      BY <2>1, KeptIsStutter DEF Kept
  <1>4. ASSUME CreateZoneDelegationForExternalDNS PROVE Protocol!Delegate
    <2>1. at \in GuardedGslbs
      BY <1>a, <1>4 DEF CreateZoneDelegationForExternalDNS, IInv, AtHandInv, Guarded, GuardedGslbs
    <2>2. nsEndpoint' = TRUE /\ overlooked' = FALSE /\ UNCHANGED gslb
      BY <1>4 DEF CreateZoneDelegationForExternalDNS
    <2>. QED
      BY <2>1, <2>2 DEF Protocol!Delegate, GuardedGslbs, DoomedGslbs
  <1>5. ASSUME finalizeGslb
        PROVE  Protocol!Undelegate \/ Protocol!Overlook \/ UNCHANGED Protocol!vars
    <2>1. at \in DoomedGslbs
      BY <1>a, <1>5 DEF finalizeGslb, DeletionInv, DoomedGslbs
    <2>2. UNCHANGED gslb
      BY <1>5 DEF finalizeGslb
    <2>3. GuardedGslbs' = GuardedGslbs /\ DoomedGslbs' = DoomedGslbs
      BY <2>2 DEF GuardedGslbs, DoomedGslbs
    <2>4. CASE ~nsEndpoint'
      BY <2>1, <2>3, <2>4 DEF Protocol!Undelegate
    <2>5. CASE nsEndpoint'
      <3>1. nsEndpoint /\ overlooked'
        BY <1>5, <2>5, FinalizeEffect
      <3>. QED
        BY <2>1, <2>3, <2>5, <3>1 DEF Protocol!Overlook, Protocol!vars
    <2>. QED
      BY <2>4, <2>5
  <1>6. ASSUME removeFinalizer PROVE UNCHANGED Protocol!vars
    <2>1. /\ gslb'[at].exists /\ gslb'[at].deleting /\ gslb'[at].finalizers # {}
          /\ \A h \in Gslb \ {at} : gslb'[h] = gslb[h]
      BY <1>6, <1>a, RemoveFinalizerEffect
    <2>2. gslb[at].exists /\ gslb[at].deleting /\ gslb[at].finalizers # {}
      BY <1>6, <1>a DEF removeFinalizer, DeletionInv
    <2>3. GuardedGslbs' = GuardedGslbs /\ DoomedGslbs' = DoomedGslbs
      BY <2>1, <2>2 DEF GuardedGslbs, DoomedGslbs
    <2>4. UNCHANGED <<nsEndpoint, overlooked>>
      BY <1>6 DEF removeFinalizer
    <2>. QED
      BY <2>3, <2>4 DEF Protocol!vars
  <1>7. ASSUME removeLastFinalizer PROVE Protocol!Release(at)
    <2>1. gslb' = [gslb EXCEPT ![at] = NoGslb]
      BY <1>7 DEF removeLastFinalizer, GslbGone
    <2>2. ~gslb'[at].exists /\ \A h \in Gslb \ {at} : gslb'[h] = gslb[h]
      BY <1>a, <2>1 DEF NoGslb
    <2>3. at \in DoomedGslbs
      BY <1>a, <1>7 DEF removeLastFinalizer, DeletionInv, DoomedGslbs
    <2>4. GuardedGslbs' = GuardedGslbs \ {at} /\ DoomedGslbs' = DoomedGslbs \ {at}
      BY <2>2 DEF GuardedGslbs, DoomedGslbs
    <2>5. (~nsEndpoint \/ overlooked) /\ UNCHANGED <<nsEndpoint, overlooked>>
      BY <1>7 DEF removeLastFinalizer, IInv, AtHandInv
    <2>. QED
      BY <2>3, <2>4, <2>5 DEF Protocol!Release
  <1>8. ASSUME OthersNext
        PROVE  (\E g \in Gslb : Protocol!Doom(g)) \/ UNCHANGED Protocol!vars
    <2>1. UNCHANGED <<nsEndpoint, overlooked>>
      BY <1>8, <1>a, OthersEffect DEF DeletionInv
    <2>2. PICK g \in Gslb : /\ Kept(g) \/ Created(g) \/ Deleted(g)
                            /\ \A h \in Gslb \ {g} : Kept(h)
      BY <1>8, <1>a, OthersEffect DEF DeletionInv
    <2>3. CASE Kept(g)
      BY <2>1, <2>2, <2>3, KeptIsStutter
    <2>4. CASE Created(g) \/ (Deleted(g) /\ gslb[g].finalizers = {})
      <3>1. GuardedGslbs' = GuardedGslbs /\ DoomedGslbs' = DoomedGslbs
        BY <2>2, <2>4 DEF Kept, Created, Deleted, NoGslb, GuardedGslbs, DoomedGslbs
      <3>. QED
        BY <2>1, <3>1 DEF Protocol!vars
    <2>5. CASE Deleted(g) /\ gslb[g].finalizers # {}
      <3>1. /\ GuardedGslbs' = GuardedGslbs /\ DoomedGslbs' = DoomedGslbs \union {g}
            /\ g \in GuardedGslbs
        BY <2>2, <2>5 DEF Kept, Deleted, GuardedGslbs, DoomedGslbs
      <3>. QED
        BY <2>1, <3>1 DEF Protocol!Doom
    <2>. QED
      BY <2>2, <2>3, <2>4, <2>5
  <1>9. CASE UNCHANGED vars
    BY <1>9, KeptIsStutter DEF vars, objects, Kept
  <1>. QED
    BY <1>a, <1>1, <1>2, <1>3, <1>4, <1>5, <1>6, <1>7, <1>8, <1>9
       DEF Next, Reconcile, ResolveError, Continue, HandleEvents, OthersNext, Protocol!Next,
           vars, objects, Protocol!vars

(* The worker follows the protocol of the finalizer, for any number of Gslbs  *)
(* and whatever users, handler, garbage collector, a lagging cache, failed    *)
(* calls and restarts do in between (gslb_controller.go:100-131,              *)
(* finalize.go:26-50, gslb.go:169-183).                                       *)
THEOREM GslbLifecycleImplementsGuard == Spec => ImplementsGuard
  <1>1. Init => DeletionInv /\ Protocol!Init
    <2>. SUFFICES ASSUME Init PROVE DeletionInv /\ Protocol!Init
      OBVIOUS
    <2>1. DeletionInv /\ DoomedGslbs \subseteq GuardedGslbs
      BY InitGslbs DEF Init, DeletionInv, GuardedGslbs, DoomedGslbs
    <2>2. overlooked = FALSE /\ OrphanIsOverlooked /\ nsEndpoint \in BOOLEAN
      BY InitIInv DEF Init, IInv
    <2>. QED
      BY <2>1, <2>2 DEF OrphanIsOverlooked, Protocol!Init, GuardedGslbs
  <1>2. IInv /\ [Next]_vars => IInv'
    BY TypeStep, DelegationStep DEF IInv
  <1>3. IInv => TypeOK
    BY DEF IInv
  <1>. QED
    BY <1>1, <1>2, <1>3, InitIInv, DeletionStep, ProtocolStep, PTL
       DEF Spec, ImplementsGuard, Protocol!Spec

-----------------------------------------------------------------------------
(* Ownership *)

(* The Gslb, or the Ingress, is there on its own account. *)
OwnGslb(g) == gslb[g].exists /\ ~gslb[g].deleting /\ gslb[g].owner = "none"
OwnIngress(g) == ingress[g].exists /\ ingress[g].owner = "none"

(* Just what users asked for is there on its own account, and the handler is  *)
(* about to make nothing else that would be.                                  *)
OwnershipInv ==
    /\ \A g \in Gslb : "gslb" \in wanted[g] <=> OwnGslb(g)
    /\ \A g \in Gslb : "ingress" \in wanted[g] <=> OwnIngress(g)
    /\ handler.pc = "create" => handler.owner # "none"

(* A step after which the same Gslbs and Ingresses are there on their own     *)
(* account, and as much is wanted, keeps it.                                  *)
LEMMA SameOwnership ==
    ASSUME OwnershipInv, UNCHANGED wanted,
           \A g \in Gslb : OwnGslb(g)' <=> OwnGslb(g),
           \A g \in Gslb : OwnIngress(g)' <=> OwnIngress(g),
           handler'.pc = "create" => handler'.owner # "none"
    PROVE  OwnershipInv'
  BY DEF OwnershipInv

(* The end of an Ingress changes the account of that Ingress only. *)
LEMMA IngressGoneOwnership ==
    ASSUME TypeOK, OwnershipInv, NEW g \in Gslb, IngressGone(g)
    PROVE  /\ \A h \in Gslb : OwnGslb(h)' <=> OwnGslb(h)
           /\ \A h \in Gslb \ {g} : OwnIngress(h)' <=> OwnIngress(h)
           /\ ~OwnIngress(g)'
           /\ handler'.pc = "create" => handler'.owner # "none"
  <1>1. gslb \in [Gslb -> GslbObject] /\ ingress \in [Gslb -> IngressObject] /\ handler \in Creation
    BY DEF TypeOK
  <1>2. \A h \in Gslb : /\ gslb'[h].exists = gslb[h].exists /\ gslb'[h].deleting = gslb[h].deleting
                        /\ gslb'[h].owner = "none" <=> gslb[h].owner = "none"
    BY <1>1 DEF IngressGone, GslbObject
  <1>3. \A h \in Gslb : ingress'[h] = IF h = g THEN NoIngress ELSE ingress[h]
    BY <1>1 DEF IngressGone
  <1>4. handler'.pc = handler.pc /\ (handler'.owner = "none" <=> handler.owner = "none")
    BY <1>1 DEF IngressGone, Creation
  <1>5. \A h \in Gslb : OwnGslb(h)' <=> OwnGslb(h)
    BY <1>2 DEF OwnGslb
  <1>6. /\ \A h \in Gslb \ {g} : OwnIngress(h)' <=> OwnIngress(h)
        /\ ~OwnIngress(g)'
    BY <1>3 DEF OwnIngress, NoIngress
  <1>. QED
    BY <1>4, <1>5, <1>6 DEF OwnershipInv

(* So does that of a Gslb. *)
LEMMA GslbGoneOwnership ==
    ASSUME TypeOK, NEW g \in Gslb, GslbGone(g)
    PROVE  /\ \A h \in Gslb \ {g} : OwnGslb(h)' <=> OwnGslb(h)
           /\ ~OwnGslb(g)'
           /\ \A h \in Gslb : OwnIngress(h)' <=> OwnIngress(h)
  <1>1. gslb \in [Gslb -> GslbObject] /\ ingress \in [Gslb -> IngressObject]
    BY DEF TypeOK
  <1>2. \A h \in Gslb : gslb'[h] = IF h = g THEN NoGslb ELSE gslb[h]
    BY <1>1 DEF GslbGone
  <1>3. \A h \in Gslb : /\ ingress'[h].exists = ingress[h].exists
                        /\ ingress'[h].owner = "none" <=> ingress[h].owner = "none"
    BY <1>1 DEF GslbGone, IngressObject
  <1>4. /\ \A h \in Gslb \ {g} : OwnGslb(h)' <=> OwnGslb(h)
        /\ ~OwnGslb(g)'
    BY <1>2 DEF OwnGslb, NoGslb
  <1>5. \A h \in Gslb : OwnIngress(h)' <=> OwnIngress(h)
    BY <1>3 DEF OwnIngress
  <1>. QED
    BY <1>4, <1>5

(* And the deletion of a Gslb, with finalizers or without. *)
LEMMA DeleteOwnership ==
    ASSUME TypeOK, NEW g \in Gslb, Delete(g)
    PROVE  /\ \A h \in Gslb \ {g} : OwnGslb(h)' <=> OwnGslb(h)
           /\ ~OwnGslb(g)'
           /\ \A h \in Gslb : OwnIngress(h)' <=> OwnIngress(h)
           /\ UNCHANGED handler
  <1>1. CASE gslb[g].finalizers = {}
    BY <1>1, GslbGoneOwnership DEF Delete
  <1>2. CASE gslb[g].finalizers # {}
    <2>1. gslb' = [gslb EXCEPT ![g].deleting = TRUE] /\ UNCHANGED <<ingress, handler>>
      BY <1>2 DEF Delete
    <2>2. gslb'[g].deleting /\ \A h \in Gslb \ {g} : gslb'[h] = gslb[h]
      BY <2>1 DEF TypeOK, GslbObject
    <2>. QED
      BY <2>1, <2>2 DEF OwnGslb, OwnIngress
  <1>. QED
    BY <1>1, <1>2

(* Every step keeps it. *)
LEMMA OwnershipStep == TypeOK /\ DeletionInv /\ OwnershipInv /\ [Next]_vars => OwnershipInv'
  <1>. SUFFICES ASSUME TypeOK, DeletionInv, OwnershipInv, [Next]_vars PROVE OwnershipInv'
    OBVIOUS
  <1>a. /\ gslb \in [Gslb -> GslbObject] /\ ingress \in [Gslb -> IngressObject]
        /\ handler \in Creation /\ at \in Gslb
        /\ wanted \in [Gslb -> SUBSET {"gslb", "ingress"}]
    BY DEF TypeOK
  <1>b. Idle.pc # "create"
    BY DEF Idle
  <1>1. ASSUME \/ \E g \in Gslb : ResolveGslbSpec(g) \/ CollectDNSEndpoint(g)
               \/ UpdateConflict \/ getIngress \/ SaveIngressError \/ IngressUpToDate
               \/ IngressConflict \/ SaveDNSEndpoint \/ CreateZoneDelegationForExternalDNS
               \/ NoZoneDelegation \/ finalizeGslb \/ SaveError \/ FinalizeError \/ CacheSync
               \/ Abort \/ UNCHANGED vars
        PROVE  OwnershipInv'
    <2>1. UNCHANGED <<gslb, ingress, handler, wanted>>
      BY <1>1 DEF ResolveGslbSpec, CollectDNSEndpoint, UpdateConflict, getIngress, SaveIngressError,
                  IngressUpToDate, IngressConflict, SaveDNSEndpoint, CreateZoneDelegationForExternalDNS,
                  NoZoneDelegation, finalizeGslb, SaveError, FinalizeError, CacheSync, Abort, vars, objects
    <2>. QED
      BY <2>1 DEF OwnershipInv, OwnGslb, OwnIngress
  <1>2. ASSUME createGslbError \/ Restart PROVE OwnershipInv'
    <2>1. UNCHANGED <<gslb, ingress, wanted>> /\ handler' = Idle
      BY <1>2 DEF createGslbError, Restart, objects
    <2>. QED
      BY <1>b, <2>1 DEF OwnershipInv, OwnGslb, OwnIngress
  <1>3. ASSUME NEW g \in Gslb, ingressMapHandler(g) PROVE OwnershipInv'
    <2>1. /\ UNCHANGED <<gslb, ingress, wanted>>
          /\ handler' = handler \/ handler'.owner = "ingress"
      BY <1>3 DEF ingressMapHandler, objects
    <2>. QED
      BY <2>1 DEF OwnershipInv, OwnGslb, OwnIngress
  <1>4. ASSUME addFinalizer \/ removeFinalizer PROVE OwnershipInv'
    <2>1. \A h \in Gslb : /\ gslb'[h].exists = gslb[h].exists /\ gslb'[h].deleting = gslb[h].deleting
                          /\ gslb'[h].owner = gslb[h].owner
      BY <1>a, <1>4 DEF addFinalizer, removeFinalizer, GslbObject
    <2>2. UNCHANGED <<ingress, handler, wanted>>
      BY <1>4 DEF addFinalizer, removeFinalizer
    <2>. QED
      BY <2>1, <2>2 DEF OwnershipInv, OwnGslb, OwnIngress
  <1>5. ASSUME removeLastFinalizer PROVE OwnershipInv'
    <2>1. GslbGone(at) /\ UNCHANGED <<handler, wanted>> /\ pc = "removeFinalizer"
      BY <1>5 DEF removeLastFinalizer
    <2>2. ~OwnGslb(at)
      BY <2>1 DEF DeletionInv, OwnGslb
    <2>. QED
      BY <1>a, <2>1, <2>2, GslbGoneOwnership, SameOwnership DEF OwnershipInv
  <1>6. ASSUME CreateIngress PROVE OwnershipInv'
    <2>1. /\ \A h \in Gslb \ {at} : ingress'[h] = ingress[h]
          /\ ~ingress[at].exists /\ ingress'[at].owner = "gslb"
          /\ UNCHANGED <<gslb, handler, wanted>>
      BY <1>a, <1>6 DEF CreateIngress, NewIngress
    <2>. QED
      BY <2>1, SameOwnership DEF OwnershipInv, OwnGslb, OwnIngress
  <1>7. ASSUME UpdateIngress PROVE OwnershipInv'
    <2>1. /\ \A h \in Gslb : /\ ingress'[h].exists = ingress[h].exists
                             /\ ingress'[h].owner = ingress[h].owner
          /\ UNCHANGED <<gslb, handler, wanted>>
      BY <1>a, <1>7 DEF UpdateIngress, IngressObject
    <2>. QED
      BY <2>1 DEF OwnershipInv, OwnGslb, OwnIngress
  <1>8. ASSUME createGslbFromIngress PROVE OwnershipInv'
    <2>1. UNCHANGED <<ingress, wanted>> /\ handler' = Idle /\ handler.pc = "create"
      BY <1>8 DEF createGslbFromIngress
    <2>2. handler.at \in Gslb /\ handler.owner # "none"
      BY <1>a, <2>1 DEF OwnershipInv, Creation
    <2>3. \A h \in Gslb : gslb'[h] = gslb[h] \/ (~gslb[h].exists /\ gslb'[h].owner # "none")
      BY <1>8, <1>a, <2>2 DEF createGslbFromIngress, NewGslb
    <2>. QED
      BY <1>b, <2>1, <2>3 DEF OwnershipInv, OwnGslb, OwnIngress
  <1>9. ASSUME NEW g \in Gslb, CollectGslb(g) PROVE OwnershipInv'
    <2>1. Delete(g) /\ UNCHANGED wanted /\ ~OwnGslb(g)
      BY <1>9 DEF CollectGslb, OwnGslb
    <2>. QED
      BY <2>1, DeleteOwnership, SameOwnership DEF OwnershipInv
  <1>10. ASSUME NEW g \in Gslb, UserDeletesGslb(g) PROVE OwnershipInv'
    <2>1. Delete(g) /\ wanted' = [wanted EXCEPT ![g] = @ \ {"gslb"}]
      BY <1>10 DEF UserDeletesGslb
    <2>2. \A h \in Gslb : /\ "gslb" \in wanted'[h] <=> ("gslb" \in wanted[h] /\ h # g)
                          /\ "ingress" \in wanted'[h] <=> "ingress" \in wanted[h]
      BY <1>a, <2>1
    <2>. QED
      BY <2>1, <2>2, DeleteOwnership DEF OwnershipInv
  <1>11. ASSUME NEW g \in Gslb, CollectIngress(g) PROVE OwnershipInv'
    <2>1. IngressGone(g) /\ UNCHANGED wanted /\ ~OwnIngress(g)
      BY <1>11 DEF CollectIngress, OwnIngress
    <2>. QED
      BY <2>1, IngressGoneOwnership, SameOwnership
  <1>12. ASSUME NEW g \in Gslb, UserDeletesIngress(g) PROVE OwnershipInv'
    <2>1. IngressGone(g) /\ wanted' = [wanted EXCEPT ![g] = @ \ {"ingress"}]
      BY <1>12 DEF UserDeletesIngress
    <2>2. \A h \in Gslb : /\ "ingress" \in wanted'[h] <=> ("ingress" \in wanted[h] /\ h # g)
                          /\ "gslb" \in wanted'[h] <=> "gslb" \in wanted[h]
      BY <1>a, <2>1
    <2>. QED
      BY <2>1, <2>2, IngressGoneOwnership DEF OwnershipInv
  <1>13. ASSUME NEW g \in Gslb, UserCreatesGslb(g) PROVE OwnershipInv'
    <2>. PICK s \in Rules, v \in BOOLEAN : gslb' = [gslb EXCEPT ![g] = NewGslb(s, v, "good", "none")]
      BY <1>13 DEF UserCreatesGslb
    <2>1. OwnGslb(g)' /\ \A h \in Gslb \ {g} : gslb'[h] = gslb[h]
      BY <1>a DEF NewGslb, OwnGslb
    <2>2. wanted' = [wanted EXCEPT ![g] = @ \union {"gslb"}] /\ UNCHANGED <<ingress, handler>>
      BY <1>13 DEF UserCreatesGslb
    <2>3. \A h \in Gslb : /\ "gslb" \in wanted'[h] <=> ("gslb" \in wanted[h] \/ h = g)
                          /\ "ingress" \in wanted'[h] <=> "ingress" \in wanted[h]
      BY <1>a, <2>2
    <2>. QED
      BY <2>1, <2>2, <2>3 DEF OwnershipInv, OwnGslb, OwnIngress
  <1>14. ASSUME NEW g \in Gslb, UserEditsGslb(g) PROVE OwnershipInv'
    <2>1. \A h \in Gslb : /\ gslb'[h].exists = gslb[h].exists /\ gslb'[h].deleting = gslb[h].deleting
                          /\ gslb'[h].owner = gslb[h].owner
      BY <1>a, <1>14 DEF UserEditsGslb, GslbObject
    <2>2. UNCHANGED <<ingress, handler, wanted>>
      BY <1>14 DEF UserEditsGslb
    <2>. QED
      BY <2>1, <2>2 DEF OwnershipInv, OwnGslb, OwnIngress
  <1>15. ASSUME NEW g \in Gslb, UserCreatesIngress(g) PROVE OwnershipInv'
    <2>. PICK s \in Rules, a \in Strategy \union {"none"} :
             ingress' = [ingress EXCEPT ![g] = NewIngress(s, a, "none")]
      BY <1>15 DEF UserCreatesIngress
    <2>1. OwnIngress(g)' /\ \A h \in Gslb \ {g} : ingress'[h] = ingress[h]
      BY <1>a DEF NewIngress, OwnIngress
    <2>2. wanted' = [wanted EXCEPT ![g] = @ \union {"ingress"}] /\ UNCHANGED <<gslb, handler>>
      BY <1>15 DEF UserCreatesIngress
    <2>3. \A h \in Gslb : /\ "ingress" \in wanted'[h] <=> ("ingress" \in wanted[h] \/ h = g)
                          /\ "gslb" \in wanted'[h] <=> "gslb" \in wanted[h]
      BY <1>a, <2>2
    <2>. QED
      BY <2>1, <2>2, <2>3 DEF OwnershipInv, OwnGslb, OwnIngress
  <1>16. ASSUME NEW g \in Gslb, IngressWritten(g) PROVE OwnershipInv'
    <2>1. /\ \A h \in Gslb : /\ ingress'[h].exists = ingress[h].exists
                             /\ ingress'[h].owner = ingress[h].owner
          /\ UNCHANGED <<gslb, handler, wanted>>
      BY <1>a, <1>16 DEF IngressWritten, IngressObject
    <2>. QED
      BY <2>1 DEF OwnershipInv, OwnGslb, OwnIngress
  <1>. QED
    BY <1>1, <1>2, <1>3, <1>4, <1>5, <1>6, <1>7, <1>8, <1>9, <1>10, <1>11, <1>12, <1>13, <1>14,
       <1>15, <1>16
       DEF Next, Reconcile, ResolveError, Continue, HandleEvents, Collect, Users

(* A step in which no Gslb goes and only the one at hand, which exists, may   *)
(* come to own something keeps all owners there.                              *)
LEMMA OwnersKept ==
    ASSUME OwnersExist,
           \A g \in Gslb : gslb[g].exists => gslb'[g].exists,
           \A g \in Gslb :
              ingress'[g].owner = "gslb" => ingress[g].owner = "gslb" \/ gslb[g].exists,
           \A g \in Gslb :
              dnsEndpoint'[g] = "gslb" => dnsEndpoint[g] = "gslb" \/ gslb[g].exists
    PROVE  OwnersExist'
  BY DEF OwnersExist

(* A Gslb that goes owns nothing any more. *)
LEMMA OwnerGone ==
    ASSUME TypeOK, OwnersExist, NEW g \in Gslb, GslbGone(g)
    PROVE  OwnersExist'
  <1>1. /\ \A h \in Gslb \ {g} : /\ gslb'[h] = gslb[h] /\ ingress'[h] = ingress[h]
                                 /\ dnsEndpoint'[h] = dnsEndpoint[h]
        /\ dnsEndpoint'[g] # "gslb"
    BY DEF TypeOK, GslbGone
  <1>2. ingress'[g].owner # "gslb"
    BY DEF TypeOK, GslbGone, IngressObject
  <1>. QED
    BY <1>1, <1>2 DEF OwnersExist

(* Every step keeps the owners there. *)
LEMMA OwnersStep == IInv /\ OwnersExist /\ [Next]_vars => OwnersExist'
  <1>. SUFFICES ASSUME IInv, OwnersExist, [Next]_vars PROVE OwnersExist'
    OBVIOUS
  <1>a. /\ gslb \in [Gslb -> GslbObject] /\ ingress \in [Gslb -> IngressObject]
        /\ dnsEndpoint \in [Gslb -> {"", "gslb", "gone"}]
        /\ handler.at \in Gslb /\ at \in Gslb /\ TypeOK
    BY DEF IInv, TypeOK, Creation
  <1>1. ASSUME \/ \E g \in Gslb : ResolveGslbSpec(g) \/ ingressMapHandler(g)
               \/ UpdateConflict \/ getIngress \/ SaveIngressError \/ IngressUpToDate
               \/ IngressConflict \/ CreateZoneDelegationForExternalDNS
               \/ NoZoneDelegation \/ SaveError \/ FinalizeError \/ CacheSync
               \/ Abort \/ createGslbError \/ Restart \/ UNCHANGED vars
        PROVE  OwnersExist'
    <2>1. UNCHANGED <<gslb, ingress, dnsEndpoint>>
      BY <1>1 DEF ResolveGslbSpec, ingressMapHandler, UpdateConflict, getIngress, SaveIngressError,
                  IngressUpToDate, IngressConflict, CreateZoneDelegationForExternalDNS,
                  NoZoneDelegation, SaveError, FinalizeError, CacheSync, Abort, createGslbError,
                  Restart, vars, objects
    <2>. QED
      BY <2>1 DEF OwnersExist
  <1>2. ASSUME addFinalizer \/ removeFinalizer PROVE OwnersExist'
    <2>1. \A h \in Gslb : gslb'[h].exists = gslb[h].exists
      <3>1. CASE addFinalizer
        <4>1. gslb' = [gslb EXCEPT ![at].finalizers = @ \union {gslbFinalizer}]
          BY <3>1 DEF addFinalizer
        <4>. QED
          BY <1>a, <4>1 DEF GslbObject
      <3>2. CASE removeFinalizer
        <4>1. gslb' = [gslb EXCEPT ![at].finalizers = @ \ {NextFinalizer}]
          BY <3>2 DEF removeFinalizer
        <4>. QED
          BY <1>a, <4>1 DEF GslbObject
      <3>. QED
        BY <1>2, <3>1, <3>2
    <2>2. UNCHANGED <<ingress, dnsEndpoint>>
      BY <1>2 DEF addFinalizer, removeFinalizer
    <2>. QED
      BY <2>1, <2>2 DEF OwnersExist
  <1>3. ASSUME CreateIngress \/ UpdateIngress \/ SaveDNSEndpoint PROVE OwnersExist'
    <2>1. gslb[at].exists /\ UNCHANGED gslb
      BY <1>3 DEF CreateIngress, UpdateIngress, SaveDNSEndpoint, IInv, AtHandInv, Guarded
    <2>2. \A h \in Gslb \ {at} : ingress'[h] = ingress[h] /\ dnsEndpoint'[h] = dnsEndpoint[h]
      BY <1>a, <1>3 DEF CreateIngress, UpdateIngress, SaveDNSEndpoint
    <2>. QED
      BY <2>1, <2>2 DEF OwnersExist
  <1>4. ASSUME finalizeGslb PROVE OwnersExist'
    <2>1. UNCHANGED <<gslb, ingress>>
      BY <1>4 DEF finalizeGslb
    <2>2. \A h \in Gslb : dnsEndpoint'[h] \in {"", dnsEndpoint[h]}
      BY <1>a, <1>4 DEF finalizeGslb, RemoveEndpoint
    <2>. QED
      BY <2>1, <2>2 DEF OwnersExist
  <1>5. ASSUME removeLastFinalizer PROVE OwnersExist'
    BY <1>5, <1>a, OwnerGone DEF removeLastFinalizer
  <1>6. ASSUME createGslbFromIngress PROVE OwnersExist'
    <2>1. \A h \in Gslb : gslb[h].exists => gslb'[h] = gslb[h]
      BY <1>6, <1>a DEF createGslbFromIngress
    <2>2. UNCHANGED <<ingress, dnsEndpoint>>
      BY <1>6 DEF createGslbFromIngress
    <2>. QED
      BY <2>1, <2>2 DEF OwnersExist
  <1>7. ASSUME NEW g \in Gslb, CollectGslb(g) \/ UserDeletesGslb(g) PROVE OwnersExist'
    <2>1. Delete(g)
      BY <1>7 DEF CollectGslb, UserDeletesGslb
    <2>2. CASE gslb[g].finalizers = {}
      BY <1>a, <2>1, <2>2, OwnerGone DEF Delete
    <2>3. CASE gslb[g].finalizers # {}
      <3>1. gslb' = [gslb EXCEPT ![g].deleting = TRUE] /\ UNCHANGED <<ingress, dnsEndpoint>>
        BY <2>1, <2>3 DEF Delete
      <3>2. \A h \in Gslb : gslb'[h].exists = gslb[h].exists
        BY <1>a, <3>1 DEF GslbObject
      <3>. QED
        BY <3>1, <3>2 DEF OwnersExist
    <2>. QED
      BY <2>2, <2>3
  <1>8. ASSUME NEW g \in Gslb, CollectIngress(g) \/ UserDeletesIngress(g) PROVE OwnersExist'
    <2>1. IngressGone(g)
      BY <1>8 DEF CollectIngress, UserDeletesIngress
    <2>2. \A h \in Gslb : gslb'[h].exists = gslb[h].exists
      BY <1>a, <2>1 DEF IngressGone, GslbObject
    <2>3. \A h \in Gslb : ingress'[h].owner = "gslb" => ingress[h].owner = "gslb"
      BY <1>a, <2>1 DEF IngressGone, NoIngress
    <2>4. UNCHANGED dnsEndpoint
      BY <2>1 DEF IngressGone
    <2>. QED
      BY <2>2, <2>3, <2>4 DEF OwnersExist
  <1>9. ASSUME NEW g \in Gslb, CollectDNSEndpoint(g) PROVE OwnersExist'
    BY <1>9, <1>a DEF CollectDNSEndpoint, OwnersExist
  <1>10. ASSUME NEW g \in Gslb, UserCreatesGslb(g) \/ UserEditsGslb(g) PROVE OwnersExist'
    <2>1. \A h \in Gslb : gslb[h].exists => gslb'[h].exists
      <3>1. CASE UserCreatesGslb(g)
        <4>1. ~gslb[g].exists /\ \E o : gslb' = [gslb EXCEPT ![g] = o]
          BY <3>1 DEF UserCreatesGslb
        <4>. QED
          BY <1>a, <4>1
      <3>2. CASE UserEditsGslb(g)
        <4>1. PICK s, v : gslb' = [gslb EXCEPT ![g].rules = s, ![g].valid = v]
          BY <3>2 DEF UserEditsGslb
        <4>. QED
          BY <1>a, <4>1 DEF GslbObject
      <3>. QED
        BY <1>10, <3>1, <3>2
    <2>2. UNCHANGED <<ingress, dnsEndpoint>>
      BY <1>10 DEF UserCreatesGslb, UserEditsGslb
    <2>. QED
      BY <2>1, <2>2 DEF OwnersExist
  <1>11. ASSUME NEW g \in Gslb, UserCreatesIngress(g) \/ IngressWritten(g) PROVE OwnersExist'
    <2>1. \A h \in Gslb : ingress'[h].owner = "gslb" => ingress[h].owner = "gslb"
      <3>1. CASE UserCreatesIngress(g)
        <4>1. PICK s, a : ingress' = [ingress EXCEPT ![g] = NewIngress(s, a, "none")]
          BY <3>1 DEF UserCreatesIngress
        <4>2. NewIngress(s, a, "none").owner = "none"
          BY DEF NewIngress
        <4>. QED
          BY <1>a, <4>1, <4>2
      <3>2. CASE IngressWritten(g)
        <4>1. PICK s, a : ingress' = [ingress EXCEPT ![g].rules = s, ![g].annotations = a]
          BY <3>2 DEF IngressWritten
        <4>. QED
          BY <1>a, <4>1 DEF IngressObject
      <3>. QED
        BY <1>11, <3>1, <3>2
    <2>2. UNCHANGED <<gslb, dnsEndpoint>>
      BY <1>11 DEF UserCreatesIngress, IngressWritten
    <2>. QED
      BY <2>1, <2>2 DEF OwnersExist
  <1>. QED
    BY <1>1, <1>2, <1>3, <1>4, <1>5, <1>6, <1>7, <1>8, <1>9, <1>10, <1>11
       DEF Next, Reconcile, ResolveError, Continue, HandleEvents, Collect, Users

(* What is there when the operator starts. *)
LEMMA InitOwnership == Init => DeletionInv /\ OwnershipInv /\ OwnersExist
  <1>. SUFFICES ASSUME Init PROVE DeletionInv /\ OwnershipInv /\ OwnersExist
    OBVIOUS
  <1>1. \A g \in Gslb : ingress[g].owner \in {"none", "gslb"}
    <2>1. /\ \A s \in Rules : NewIngress(s, "good", "none").owner = "none"
          /\ NewIngress(AnyRules, "good", "gslb").owner = "gslb"
      BY DEF NewIngress
    <2>2. NoIngress.owner = "none"
      BY DEF NoIngress
    <2>3. \A g \in Gslb : \/ ingress[g] \in {NoIngress, NewIngress(AnyRules, "good", "gslb")}
                         \/ \E s \in Rules : ingress[g] = NewIngress(s, "good", "none")
      BY DEF Init
    <2>. QED
      BY <2>1, <2>2, <2>3
  <1>2. \A g \in Gslb :
           /\ "gslb" \in wanted[g] <=> gslb[g].exists /\ ~gslb[g].deleting
           /\ "ingress" \in wanted[g] <=> ingress[g].exists /\ ingress[g].owner = "none"
    BY DEF Init
  <1>3. handler.pc = "idle" /\ pc = "idle"
    BY DEF Init, Idle
  <1>4. DeletionInv
    BY <1>3, InitGslbs DEF DeletionInv
  <1>5. OwnershipInv
    BY <1>1, <1>2, <1>3, InitGslbs DEF OwnershipInv, OwnGslb, OwnIngress
  <1>6. OwnersExist
    BY DEF Init, OwnersExist
  <1>. QED
    BY <1>4, <1>5, <1>6

(* A Gslb or an Ingress a user created stays until a user deletes it,         *)
(* although the operator writes to it and the garbage collector runs          *)
(* (ingress.go:82-85).                                                        *)
THEOREM WantedIsKeptHolds == Spec => []WantedIsKept
  <1>1. OwnershipInv => WantedIsKept
    BY DEF OwnershipInv, WantedIsKept, OwnGslb, OwnIngress
  <1>. QED
    BY <1>1, TypeCorrect, InitOwnership, DeletionStep, OwnershipStep, PTL DEF Spec

(* The operator leaves no Gslb and no Ingress behind that has no owner to go  *)
(* with, unless a user asked for it (gslb_controller.go:277, ingress.go:48).  *)
THEOREM UnownedIsWantedHolds == Spec => []UnownedIsWanted
  <1>1. OwnershipInv => UnownedIsWanted
    BY DEF OwnershipInv, UnownedIsWanted, OwnGslb, OwnIngress
  <1>. QED
    BY <1>1, TypeCorrect, InitOwnership, DeletionStep, OwnershipStep, PTL DEF Spec

(* A reconcile makes no Ingress and no DNSEndpoint for a Gslb that has gone   *)
(* since it was read (gslb_controller.go:127-131).                            *)
THEOREM OwnersExistHolds == Spec => []OwnersExist
  <1>1. IInv /\ [Next]_vars => IInv'
    BY TypeStep, DelegationStep DEF IInv
  <1>. QED
    BY <1>1, InitIInv, InitOwnership, OwnersStep, PTL DEF Spec

=============================================================================
