--------------------------- MODULE GslbLifecycle ---------------------------
(***************************************************************************)
(* The life of Gslb resources in one cluster: how they come to exist, what *)
(* a reconcile creates for them, and how they go.                          *)
(*                                                                         *)
(* A Gslb is created by a user, or by the operator when it sees an Ingress *)
(* of the same name with the strategy annotation.  A reconcile puts a      *)
(* finalizer on it, saves its Ingress (annotated as well) and its          *)
(* DNSEndpoint, and saves the one NS endpoint that external-dns delegates  *)
(* the zone with, which all Gslbs share and the Finalize of any of them    *)
(* removes.  The empty provider delegates nothing, and its Finalize        *)
(* removes the DNSEndpoint named like the Gslb from the namespace of the   *)
(* operator, in which the Gslbs are taken to live.  One worker reconciles  *)
(* the Gslbs in turn; the handler of Ingress events runs beside it, as do  *)
(* users and the garbage collector.                                        *)
(*                                                                         *)
(* Objects are records without uid and resource version.  An owner is      *)
(* "gone" once the very object that is referred to no longer exists, also  *)
(* when one of the same name does; and the worker remembers whether what   *)
(* it read was written since, which is when its update is a conflict.      *)
(*                                                                         *)
(* DNSEndpoints are read from a cache that follows the API server at any   *)
(* time later.  An update or a creation from an old copy is refused, but   *)
(* Finalize takes an endpoint it does not find there for removed.          *)
(***************************************************************************)
EXTENDS Naturals

CONSTANTS
    Gslb,       \* names of Gslbs and Ingresses
    Rules,      \* the rules of Gslbs and Ingresses
    Providers,  \* the DNS providers to consider
    Upgraded,   \* the Gslbs an older operator may have left
    MaxFaults,  \* bound on user actions and failed calls
    MaxLate     \* bound on Gslbs gone before the events of their Ingress arrive

ASSUME GslbAssumption == Gslb # {}
ASSUME UpgradedAssumption == Upgraded \subseteq Gslb
ASSUME RulesAssumption == Rules # {}
ASSUME ProvidersAssumption == Providers \subseteq {"external", "empty"}
ASSUME BoundsAssumption == MaxFaults \in Nat /\ MaxLate \in Nat

(* The name of the endpoint all Gslbs share, k8gb-ns-<type>; no Gslb has it. *)
NS == "k8gb-ns"
ASSUME NSAssumption == NS \notin Gslb

VARIABLES
    provider,      \* reconciler.DNSProvider: "external" (Route53 or NS1) or "empty"
    gslb,          \* gslb[g]: the Gslb resource
    ingress,       \* ingress[g]: the Ingress of the same name
    dnsEndpoint,   \* dnsEndpoint[g]: the owner of the DNSEndpoint, if there is one
    nsEndpoint,    \* the DNSEndpoint k8gb-ns-<type> exists
    shown,         \* names of the DNSEndpoints the client's cache shows
    stale,         \* names of those it does not show as they are stored
    overlooked,    \* history: since the NS endpoint was saved a Finalize has not found it
    event,         \* event[g]: the annotations in events of the Ingress still to be delivered
    handler,       \* what the handler of Ingress events is about to create
    pc,            \* where the reconcile is
    at,            \* the Gslb it reconciles
    read,          \* that Gslb as it was read
    found,         \* its Ingress as it was read
    written,       \* which of the two were written by others since
    faults,        \* user actions and failed calls so far
    late,          \* Gslbs gone before the events of their Ingress arrived
    wanted         \* history: what users asked for, a Gslb or an Ingress

cache == <<shown, stale>>
delegation == <<provider, nsEndpoint, overlooked, cache>>
objects == <<gslb, ingress, dnsEndpoint, delegation>>
locals == <<pc, at, read, found, written>>
vars == <<objects, event, handler, locals, faults, late, wanted>>

gslbFinalizer == "k8gb.absa.oss/finalizer"
legacyFinalizer == "finalizer.k8gb.absa.oss"

(* The annotations of an Ingress as far as they matter: "none" have no effect *)
(* (no or an unknown strategy, or failover without a primary geo tag), "good" *)
(* ones make a Gslb with a valid strategy and "bad" ones, with a negative     *)
(* number, an invalid one.  A Gslb passes its own annotations, with the       *)
(* strategy added, to its Ingress.  The rules of the two are the same: the    *)
(* conversions between their types copy every field.                          *)
Strategy == {"good", "bad"}

GslbObject ==
    [exists : BOOLEAN, deleting : BOOLEAN, finalizers : SUBSET {gslbFinalizer, legacyFinalizer},
     rules : Rules, valid : BOOLEAN, annotations : Strategy, owner : {"none", "ingress", "gone"}]
IngressObject ==
    [exists : BOOLEAN, annotations : Strategy \union {"none"}, rules : Rules,
     owner : {"none", "gslb", "gone"}]
Creation ==
    [pc : {"idle", "create"}, at : Gslb, rules : Rules, annotations : Strategy,
     owner : {"none", "ingress", "gone"}]

AnyGslb == CHOOSE g \in Gslb : TRUE
AnyRules == CHOOSE s \in Rules : TRUE

NoGslb == [exists |-> FALSE, deleting |-> FALSE, finalizers |-> {}, rules |-> AnyRules,
           valid |-> TRUE, annotations |-> "good", owner |-> "none"]
NoIngress == [exists |-> FALSE, annotations |-> "none", rules |-> AnyRules, owner |-> "none"]
Idle == [pc |-> "idle", at |-> AnyGslb, rules |-> AnyRules, annotations |-> "good", owner |-> "none"]

NewGslb(s, v, a, o) ==
    [exists |-> TRUE, deleting |-> FALSE, finalizers |-> {}, rules |-> s,
     valid |-> v, annotations |-> a, owner |-> o]
NewIngress(s, a, o) == [exists |-> TRUE, annotations |-> a, rules |-> s, owner |-> o]

(* The type invariant. *)
TypeOK ==
    /\ provider \in Providers
    /\ gslb \in [Gslb -> GslbObject]
    /\ ingress \in [Gslb -> IngressObject]
    /\ dnsEndpoint \in [Gslb -> {"", "gslb", "gone"}]
    /\ nsEndpoint \in BOOLEAN
    /\ shown \in SUBSET (Gslb \union {NS})
    /\ stale \in SUBSET (Gslb \union {NS})
    /\ overlooked \in BOOLEAN
    /\ event \in [Gslb -> SUBSET Strategy]
    /\ handler \in Creation
    /\ pc \in {"idle", "addFinalizer", "getIngress", "saveIngress", "endpoint", "zone",
               "finalize", "removeFinalizer"}
    /\ at \in Gslb
    /\ read \in GslbObject
    /\ found \in IngressObject
    /\ written \in SUBSET {"gslb", "ingress"}
    /\ faults \in Nat
    /\ late \in Nat
    /\ wanted \in [Gslb -> SUBSET {"gslb", "ingress"}]

(* The events an Ingress with annotations a gives rise to. *)
EventsOf(a) == {a} \intersect Strategy

(* The DNSEndpoints there are. *)
Stored == {g \in Gslb : dnsEndpoint[g] # ""} \union (IF nsEndpoint THEN {NS} ELSE {})

(* A Gslb an older operator put its finalizer on. *)
Legacy == [NewGslb(AnyRules, TRUE, "good", "none") EXCEPT !.finalizers = {legacyFinalizer}]

(* Gslbs of an older operator, perhaps being deleted, with or without what    *)
(* that operator made for them, and Ingresses of users, may be there when the *)
(* operator starts; it gets an event of every Ingress.  What the rules of     *)
(* such a Gslb are called makes no difference, only whether they are those of *)
(* its Ingress.                                                               *)
Init ==
    /\ provider \in Providers
    /\ gslb \in [Gslb -> {NoGslb, Legacy, [Legacy EXCEPT !.deleting = TRUE]}]
    /\ ingress \in [Gslb -> {NoIngress, NewIngress(AnyRules, "good", "gslb")}
                            \union {NewIngress(s, "good", "none") : s \in Rules}]
    /\ \A g \in Gslb : gslb[g].exists => g \in Upgraded
    /\ \A g \in Gslb : ingress[g].owner = "gslb" => gslb[g].exists
    /\ dnsEndpoint = [g \in Gslb |-> IF ingress[g].owner = "gslb" THEN "gslb" ELSE ""]
    /\ nsEndpoint \in BOOLEAN
    /\ nsEndpoint => provider = "external" /\ \E g \in Gslb : dnsEndpoint[g] = "gslb"
    /\ shown = Stored
    /\ stale = {}
    /\ overlooked = FALSE
    /\ event = [g \in Gslb |-> EventsOf(ingress[g].annotations)]
    /\ handler = Idle
    /\ pc = "idle"
    /\ at = AnyGslb
    /\ read = NoGslb
    /\ found = NoIngress
    /\ written = {}
    /\ faults = 0
    /\ late = 0
    /\ wanted = [g \in Gslb |->
                    (IF gslb[g].exists /\ ~gslb[g].deleting THEN {"gslb"} ELSE {})
                    \union (IF ingress[g].exists /\ ingress[g].owner = "none" THEN {"ingress"} ELSE {})]

Fault ==
    /\ faults < MaxFaults
    /\ faults' = faults + 1
    /\ UNCHANGED late

(* The reconcile returns and forgets its local variables. *)
Return ==
    /\ pc' = "idle"
    /\ at' = AnyGslb
    /\ read' = NoGslb
    /\ found' = NoIngress
    /\ written' = {}

(* The Ingress is saved.  Of what was read the steps that follow use the      *)
(* contents of the Gslb, which do not matter here, and its name.              *)
IngressSaved ==
    /\ pc' = "endpoint"
    /\ read' = NoGslb
    /\ found' = NoIngress
    /\ written' = {}
    /\ UNCHANGED at

(* Somebody else writes an object the reconcile may have read. *)
Write(kind, g) ==
    /\ written' = IF pc \notin {"idle", "endpoint", "zone"} /\ at = g
                  THEN written \union {kind} ELSE written
    /\ UNCHANGED <<pc, at, read, found>>

(* The Gslb g ceases to exist: what it owned is left to the garbage collector. *)
GslbGone(g) ==
    /\ gslb' = [gslb EXCEPT ![g] = NoGslb]
    /\ ingress' = [ingress EXCEPT ![g].owner = IF @ = "gslb" THEN "gone" ELSE @]
    /\ dnsEndpoint' = [dnsEndpoint EXCEPT ![g] = IF @ = "gslb" THEN "gone" ELSE @]

(* So does the Ingress g, with an event that shows it as it last was. *)
IngressGone(g) ==
    /\ ingress' = [ingress EXCEPT ![g] = NoIngress]
    /\ gslb' = [gslb EXCEPT ![g].owner = IF @ = "ingress" THEN "gone" ELSE @]
    /\ handler' = [handler EXCEPT !.owner = IF @ = "ingress" /\ handler.at = g THEN "gone" ELSE @]
    /\ event' = [event EXCEPT ![g] = @ \union EventsOf(ingress[g].annotations)]
    /\ Write("ingress", g)
    /\ UNCHANGED <<dnsEndpoint, delegation>>

(* Deletion of a Gslb: at once, or by its finalizers. *)
Delete(g) ==
    /\ IF gslb[g].finalizers = {}
       THEN GslbGone(g)
       ELSE /\ gslb' = [gslb EXCEPT ![g].deleting = TRUE]
            /\ UNCHANGED <<ingress, dnsEndpoint>>
    /\ Write("gslb", g)
    /\ UNCHANGED <<delegation, event, handler>>

-----------------------------------------------------------------------------
(* Reconcile *)

(* Get the Gslb and resolve its spec; what comes next depends on the          *)
(* deletion timestamp and the finalizers.                                     *)
ResolveGslbSpec(g) ==
    /\ pc = "idle"
    /\ gslb[g].exists
    /\ gslb[g].valid
    /\ at' = g
    /\ read' = gslb[g]
    /\ pc' = IF gslb[g].deleting THEN "finalize"
             ELSE IF gslbFinalizer \in gslb[g].finalizers THEN "getIngress"
             ELSE "addFinalizer"
    /\ UNCHANGED <<objects, event, handler, found, written, faults, late, wanted>>

(* An invalid spec ends the reconcile, also that of a Gslb to be finalized. *)
ResolveError(g) ==
    /\ pc = "idle"
    /\ gslb[g].exists
    /\ ~gslb[g].valid
    /\ UNCHANGED vars

(* Mutant: the finalizer is not stored. *)
addNoFinalizer ==
    /\ pc = "addFinalizer"
    /\ "gslb" \notin written
    /\ pc' = "getIngress"
    /\ UNCHANGED <<objects, event, handler, at, read, found, written, faults, late, wanted>>

addFinalizer ==
    /\ pc = "addFinalizer"
    /\ "gslb" \notin written
    /\ gslb' = [gslb EXCEPT ![at].finalizers = @ \union {gslbFinalizer}]
    /\ read' = gslb'[at]
    /\ pc' = "getIngress"
    /\ UNCHANGED <<ingress, dnsEndpoint, delegation, event, handler, at, found, written,
                   faults, late, wanted>>

(* The Gslb was written since it was read: the update is a conflict. *)
UpdateConflict ==
    /\ pc \in {"addFinalizer", "removeFinalizer"}
    /\ "gslb" \in written
    /\ Return
    /\ UNCHANGED <<objects, event, handler, faults, late, wanted>>

getIngress ==
    /\ pc = "getIngress"
    /\ found' = ingress[at]
    /\ written' = written \ {"ingress"}
    /\ pc' = "saveIngress"
    /\ UNCHANGED <<objects, event, handler, at, read, faults, late, wanted>>

(* Every annotation of the Gslb is on the Ingress. *)
annotationsEqual(found1, gslb1) ==
    \/ found1.annotations = gslb1.annotations
    \/ gslb1.annotations = "good" /\ found1.annotations # "none"

(* The Ingress has the annotations and the rules of the Gslb. *)
ingressEqual(found1, gslb1) == annotationsEqual(found1, gslb1) /\ found1.rules = gslb1.rules

MergeAnnotations(target, source) == IF target = "none" THEN source
                                    ELSE IF source = "bad" THEN "bad" ELSE target

(* There was no Ingress: create one, owned by the Gslb. *)
CreateIngress ==
    /\ pc = "saveIngress"
    /\ ~found.exists
    /\ ~ingress[at].exists
    /\ ingress' = [ingress EXCEPT ![at] = NewIngress(read.rules, read.annotations, "gslb")]
    /\ event' = [event EXCEPT ![at] = @ \union {read.annotations}]
    /\ IngressSaved
    /\ UNCHANGED <<gslb, dnsEndpoint, delegation, handler, faults, late, wanted>>

(* Mutant: the reconcile is over when the Ingress is as it should be. *)
ReturnIfUpToDate ==
    /\ pc = "saveIngress"
    /\ found.exists
    /\ ingressEqual(found, read)
    /\ Return
    /\ UNCHANGED <<objects, event, handler, faults, late, wanted>>

(* It is as it should be. *)
IngressUpToDate ==
    /\ pc = "saveIngress"
    /\ found.exists
    /\ ingressEqual(found, read)
    /\ IngressSaved
    /\ UNCHANGED <<objects, event, handler, faults, late, wanted>>

(* Mutant: the Ingress that is updated gets the Gslb as its owner. *)
UpdateAndOwnIngress ==
    /\ pc = "saveIngress"
    /\ found.exists /\ ingress[at].exists
    /\ ~ingressEqual(found, read)
    /\ "ingress" \notin written
    /\ ingress' = [ingress EXCEPT ![at] = NewIngress(read.rules, read.annotations, "gslb")]
    /\ event' = [event EXCEPT ![at] = @ \union {read.annotations}]
    /\ IngressSaved
    /\ UNCHANGED <<gslb, dnsEndpoint, delegation, handler, faults, late, wanted>>

(* It is not: write rules and annotations, never the owner. *)
UpdateIngress ==
    /\ pc = "saveIngress"
    /\ found.exists /\ ingress[at].exists
    /\ ~ingressEqual(found, read)
    /\ "ingress" \notin written
    /\ LET a == MergeAnnotations(found.annotations, read.annotations)
       IN  /\ ingress' = [ingress EXCEPT ![at].rules = read.rules, ![at].annotations = a]
           /\ event' = [event EXCEPT ![at] = @ \union EventsOf(found.annotations) \union {a}]
    /\ IngressSaved
    /\ UNCHANGED <<gslb, dnsEndpoint, delegation, handler, faults, late, wanted>>

(* The update is a conflict, which is passed over. *)
IngressConflict ==
    /\ pc = "saveIngress"
    /\ found.exists /\ ingress[at].exists
    /\ ~ingressEqual(found, read)
    /\ "ingress" \in written
    /\ IngressSaved
    /\ UNCHANGED <<objects, event, handler, faults, late, wanted>>

(* The Ingress came or went in between: create or update fails. *)
SaveIngressError ==
    /\ pc = "saveIngress"
    /\ found.exists # ingress[at].exists
    /\ ~found.exists \/ ~ingressEqual(found, read)
    /\ Return
    /\ UNCHANGED <<objects, event, handler, faults, late, wanted>>

(* Get, then Create or Update, of the endpoint e.  It succeeds when the cache *)
(* shows what is stored, which it then no longer does.                        *)
Save(e) ==
    /\ e \notin stale
    /\ stale' = stale \union {e}
    /\ UNCHANGED shown

(* Create the DNSEndpoint, or update the one there is, whoever owns it. *)
SaveDNSEndpoint ==
    /\ pc = "endpoint"
    /\ Save(at)
    /\ dnsEndpoint' = [dnsEndpoint EXCEPT ![at] = IF @ = "" THEN "gslb" ELSE @]
    /\ pc' = "zone"
    /\ UNCHANGED <<provider, nsEndpoint, overlooked, gslb, ingress, event, handler,
                   at, read, found, written, faults, late, wanted>>

(* Save the shared NS endpoint; the status that follows is another module's. *)
CreateZoneDelegationForExternalDNS ==
    /\ pc = "zone"
    /\ provider = "external"
    /\ Save(NS)
    /\ nsEndpoint' = TRUE
    /\ overlooked' = FALSE
    /\ Return
    /\ UNCHANGED <<provider, gslb, ingress, dnsEndpoint, event, handler, faults, late, wanted>>

(* The cache shows an older endpoint, or none: Update is a conflict, Create   *)
(* finds that it exists, and the reconcile ends.                              *)
SaveError ==
    /\ \/ pc = "endpoint" /\ at \in stale
       \/ pc = "zone" /\ provider = "external" /\ NS \in stale
    /\ Return
    /\ UNCHANGED <<objects, event, handler, faults, late, wanted>>

(* The empty provider delegates nothing. *)
NoZoneDelegation ==
    /\ pc = "zone"
    /\ provider = "empty"
    /\ Return
    /\ UNCHANGED <<objects, event, handler, faults, late, wanted>>

(* Finalize of Route53 and NS1 removes the NS endpoint, whatever other Gslbs  *)
(* there are; that of the empty provider the endpoint with the Gslb's name.   *)
endpointName == IF provider = "external" THEN NS ELSE at

(* Mutant: the endpoint with the Gslb's name is removed, whatever the provider. *)
RemoveNamedEndpoint ==
    /\ dnsEndpoint' = [dnsEndpoint EXCEPT ![at] = ""]
    /\ stale' = stale \union {at}
    /\ UNCHANGED <<nsEndpoint, overlooked, shown>>

(* Get finds no such endpoint in the cache, which is taken for success, or    *)
(* Delete removes the stored one.                                             *)
RemoveEndpoint ==
    \/ /\ endpointName \notin shown
       /\ overlooked' = nsEndpoint
       /\ UNCHANGED <<nsEndpoint, dnsEndpoint, cache>>
    \/ /\ endpointName \in shown \intersect Stored
       /\ nsEndpoint' = (nsEndpoint /\ endpointName # NS)
       /\ overlooked' = (overlooked /\ endpointName # NS)
       /\ dnsEndpoint' = [g \in Gslb |-> IF g = endpointName THEN "" ELSE dnsEndpoint[g]]
       /\ stale' = stale \union {endpointName}
       /\ UNCHANGED shown

finalizeGslb ==
    /\ pc = "finalize"
    /\ RemoveEndpoint
    /\ pc' = "removeFinalizer"
    /\ UNCHANGED <<provider, gslb, ingress, event, handler, at, read, found, written,
                   faults, late, wanted>>

(* The cache still shows an endpoint that is gone: Delete fails. *)
FinalizeError ==
    /\ pc = "finalize"
    /\ endpointName \in shown \ Stored
    /\ Return
    /\ UNCHANGED <<objects, event, handler, faults, late, wanted>>

(* The finalizer the loop has reached. *)
NextFinalizer ==
    IF gslbFinalizer \in read.finalizers THEN gslbFinalizer ELSE legacyFinalizer

(* Events of the Ingress arrive by the time its Gslb goes; late ones are rare. *)
EventsDelivered(g) ==
    LET pending == event[g] # {} \/ (handler.pc = "create" /\ handler.at = g)
    IN  /\ pending => late < MaxLate
        /\ late' = IF pending THEN late + 1 ELSE late

(* Another finalizer is left: Finalize runs again for it. *)
removeFinalizer ==
    /\ pc = "removeFinalizer"
    /\ "gslb" \notin written
    /\ read.finalizers # {NextFinalizer}
    /\ gslb' = [gslb EXCEPT ![at].finalizers = @ \ {NextFinalizer}]
    /\ read' = gslb'[at]
    /\ pc' = "finalize"
    /\ UNCHANGED <<ingress, dnsEndpoint, delegation, event, handler, at, found, written,
                   faults, late, wanted>>

(* It was the last one: the Gslb is gone. *)
removeLastFinalizer ==
    /\ pc = "removeFinalizer"
    /\ "gslb" \notin written
    /\ read.finalizers = {NextFinalizer}
    /\ GslbGone(at)
    /\ EventsDelivered(at)
    /\ Return
    /\ UNCHANGED <<delegation, event, handler, faults, wanted>>

(* A call fails: the reconcile returns the error and is requeued. *)
Abort ==
    /\ pc # "idle"
    /\ Fault
    /\ Return
    /\ UNCHANGED <<objects, event, handler, wanted>>

Reconcile(g) == ResolveGslbSpec(g) \/ ResolveError(g)

Continue ==
    \/ addFinalizer \/ UpdateConflict
    \/ getIngress \/ CreateIngress \/ SaveIngressError
    \/ IngressUpToDate \/ UpdateIngress \/ IngressConflict
    \/ SaveDNSEndpoint \/ SaveError
    \/ CreateZoneDelegationForExternalDNS \/ NoZoneDelegation
    \/ finalizeGslb \/ FinalizeError \/ removeFinalizer \/ removeLastFinalizer

-----------------------------------------------------------------------------
(* The handler of Ingress events *)

(* The event shows an Ingress with the strategy.  Unless there is no Ingress  *)
(* any more, or there is a Gslb, the handler goes on to create the Gslb.      *)
ingressMapHandler(g) ==
    /\ handler.pc = "idle"
    /\ \E a \in event[g] :
          /\ event' = [event EXCEPT ![g] = @ \ {a}]
          /\ handler' = IF ingress[g].exists /\ ~gslb[g].exists
                        THEN [pc |-> "create", at |-> g, rules |-> ingress[g].rules,
                              annotations |-> a, owner |-> "ingress"]
                        ELSE handler
    /\ UNCHANGED <<objects, locals, faults, late, wanted>>

(* Mutant: the Ingress is not made the owner of the Gslb. *)
createGslbUnowned ==
    /\ handler.pc = "create"
    /\ handler' = Idle
    /\ gslb' = IF gslb[handler.at].exists THEN gslb
               ELSE [gslb EXCEPT ![handler.at] =
                        NewGslb(handler.rules, handler.annotations = "good", handler.annotations, "none")]
    /\ UNCHANGED <<ingress, dnsEndpoint, delegation, event, locals, faults, late, wanted>>

(* The Gslb is created with the Ingress that was read as its owner, unless    *)
(* one exists by now; the Ingress may be gone.                                *)
createGslbFromIngress ==
    /\ handler.pc = "create"
    /\ handler' = Idle
    /\ gslb' = IF gslb[handler.at].exists THEN gslb
               ELSE [gslb EXCEPT ![handler.at] =
                        NewGslb(handler.rules, handler.annotations = "good", handler.annotations,
                                handler.owner)]
    /\ UNCHANGED <<ingress, dnsEndpoint, delegation, event, locals, faults, late, wanted>>

HandleEvents == (\E g \in Gslb : ingressMapHandler(g)) \/ createGslbFromIngress

(* The creation fails, which is only logged. *)
createGslbError ==
    /\ handler.pc = "create"
    /\ Fault
    /\ handler' = Idle
    /\ UNCHANGED <<objects, event, locals, wanted>>

(* The watch delivers what was written to DNSEndpoints. *)
CacheSync ==
    /\ stale # {}
    /\ shown' = Stored
    /\ stale' = {}
    /\ UNCHANGED <<provider, nsEndpoint, overlooked, gslb, ingress, dnsEndpoint, event, handler,
                   locals, faults, late, wanted>>

(* The operator restarts: the caches are filled and events of all Ingresses   *)
(* delivered anew.                                                            *)
Restart ==
    /\ Fault
    /\ Return
    /\ shown' = Stored
    /\ stale' = {}
    /\ event' = [g \in Gslb |-> EventsOf(ingress[g].annotations)]
    /\ handler' = Idle
    /\ UNCHANGED <<provider, nsEndpoint, overlooked, gslb, ingress, dnsEndpoint, wanted>>

-----------------------------------------------------------------------------
(* The garbage collector *)

CollectGslb(g) ==
    /\ gslb[g].exists /\ gslb[g].owner = "gone" /\ ~gslb[g].deleting
    /\ Delete(g)
    /\ UNCHANGED <<faults, late, wanted>>

CollectIngress(g) ==
    /\ ingress[g].exists /\ ingress[g].owner = "gone"
    /\ IngressGone(g)
    /\ UNCHANGED <<faults, late, wanted>>

CollectDNSEndpoint(g) ==
    /\ dnsEndpoint[g] = "gone"
    /\ dnsEndpoint' = [dnsEndpoint EXCEPT ![g] = ""]
    /\ stale' = stale \union {g}
    /\ UNCHANGED <<provider, nsEndpoint, overlooked, shown, gslb, ingress, event, handler,
                   locals, faults, late, wanted>>

Collect(g) == CollectGslb(g) \/ CollectIngress(g) \/ CollectDNSEndpoint(g)

-----------------------------------------------------------------------------
(* Users, and the Ingress controller *)

UserCreatesGslb(g) ==
    /\ ~gslb[g].exists
    /\ Fault
    /\ \E s \in Rules, v \in BOOLEAN : gslb' = [gslb EXCEPT ![g] = NewGslb(s, v, "good", "none")]
    /\ wanted' = [wanted EXCEPT ![g] = @ \union {"gslb"}]
    /\ Write("gslb", g)
    /\ UNCHANGED <<ingress, dnsEndpoint, delegation, event, handler>>

UserDeletesGslb(g) ==
    /\ gslb[g].exists /\ ~gslb[g].deleting
    /\ Fault
    /\ Delete(g)
    /\ wanted' = [wanted EXCEPT ![g] = @ \ {"gslb"}]

UserEditsGslb(g) ==
    /\ gslb[g].exists
    /\ Fault
    /\ \E s \in Rules, v \in BOOLEAN :
          /\ gslb' = [gslb EXCEPT ![g].rules = s, ![g].valid = v]
          /\ gslb' # gslb
    /\ Write("gslb", g)
    /\ UNCHANGED <<ingress, dnsEndpoint, delegation, event, handler, wanted>>

UserCreatesIngress(g) ==
    /\ ~ingress[g].exists
    /\ Fault
    /\ \E s \in Rules, a \in Strategy \union {"none"} :
          /\ ingress' = [ingress EXCEPT ![g] = NewIngress(s, a, "none")]
          /\ event' = [event EXCEPT ![g] = @ \union EventsOf(a)]
    /\ wanted' = [wanted EXCEPT ![g] = @ \union {"ingress"}]
    /\ Write("ingress", g)
    /\ UNCHANGED <<gslb, dnsEndpoint, delegation, handler>>

UserDeletesIngress(g) ==
    /\ ingress[g].exists
    /\ Fault
    /\ IngressGone(g)
    /\ wanted' = [wanted EXCEPT ![g] = @ \ {"ingress"}]

(* A user edits the Ingress, or the Ingress controller writes its status; the *)
(* handler gets the Ingress as it was and as it is.                            *)
IngressWritten(g) ==
    /\ ingress[g].exists
    /\ Fault
    /\ \E s \in Rules, a \in Strategy \union {"none"} :
          /\ ingress' = [ingress EXCEPT ![g].rules = s, ![g].annotations = a]
          /\ event' = [event EXCEPT ![g] = @ \union EventsOf(ingress[g].annotations) \union EventsOf(a)]
    /\ Write("ingress", g)
    /\ UNCHANGED <<gslb, dnsEndpoint, delegation, handler, wanted>>

Users(g) ==
    \/ UserCreatesGslb(g) \/ UserDeletesGslb(g) \/ UserEditsGslb(g)
    \/ UserCreatesIngress(g) \/ UserDeletesIngress(g) \/ IngressWritten(g)

Next ==
    \/ \E g \in Gslb : Reconcile(g)
    \/ Continue
    \/ Abort \/ Restart \/ CacheSync
    \/ HandleEvents \/ createGslbError
    \/ \E g \in Gslb : Collect(g)
    \/ \E g \in Gslb : Users(g)

Spec == Init /\ [][Next]_vars

(* The worker takes the Gslbs in turn, calls return, watches deliver and the  *)
(* garbage collector runs.                                                    *)
FairSpec ==
    /\ Spec
    /\ \A g \in Gslb : SF_vars(Reconcile(g))
    /\ WF_vars(Continue)
    /\ WF_vars(HandleEvents)
    /\ WF_vars(CacheSync)
    /\ WF_vars(\E g \in Gslb : Collect(g))

-----------------------------------------------------------------------------
(* Gslbs with a finalizer, of which Finalize will run before they go. *)
GuardedGslbs == {g \in Gslb : gslb[g].exists /\ gslb[g].finalizers # {}}
DoomedGslbs == {g \in Gslb : gslb[g].exists /\ gslb[g].deleting}

(* The NS endpoint goes with the last Gslb: while it is there some Gslb is    *)
(* whose deletion will remove it (gslb_controller_test.go:900).               *)
NoOrphanDelegation == nsEndpoint => GuardedGslbs # {}

(* It is only left behind when a Finalize did not find it in the cache        *)
(* (gslb.go:173-178).  Nothing else that fails, conflicts or restarts between *)
(* the steps of a reconcile, and no deletion in between, leaves the           *)
(* delegation without a Gslb to remove it (gslb_controller.go:104-131).       *)
OrphanIsOverlooked == nsEndpoint /\ ~overlooked => GuardedGslbs # {}

(* The delegation and the finalizers, without all the rest. *)
Protocol == INSTANCE DelegationGuard WITH
    guarded <- GuardedGslbs, doomed <- DoomedGslbs,
    delegation <- IF ~nsEndpoint THEN "none" ELSE IF overlooked THEN "lost" ELSE "held"

(* The steps of the worker, with users, handler and garbage collector in      *)
(* between, follow the protocol of the finalizer: no Gslb loses its last one  *)
(* before a Finalize has removed the delegation or not found it, none gets    *)
(* one while it is being deleted, and the delegation is made only while a     *)
(* Gslb has one (gslb_controller.go:100-131, finalize.go, gslb.go:169-183).   *)
ImplementsGuard == Protocol!Spec

(* What a user created stays until that user deletes it: neither the operator *)
(* nor the garbage collector takes away a Gslb or an Ingress it did not make, *)
(* though the operator writes to both (ingress.go:82-85, finalize.go:39-50).  *)
WantedIsKept ==
    \A g \in Gslb :
        /\ "gslb" \in wanted[g] => gslb[g].exists /\ ~gslb[g].deleting
        /\ "ingress" \in wanted[g] => ingress[g].exists

(* And what no user asks for has an owner it goes with: the operator leaves   *)
(* no Gslb and no Ingress that only a user could remove                       *)
(* (gslb_controller.go:277, ingress.go:48).                                   *)
UnownedIsWanted ==
    \A g \in Gslb :
        /\ gslb[g].exists /\ ~gslb[g].deleting /\ gslb[g].owner = "none" => "gslb" \in wanted[g]
        /\ ingress[g].exists /\ ingress[g].owner = "none" => "ingress" \in wanted[g]

(* Nothing is made for a Gslb that is gone: a reconcile that has read it      *)
(* earlier finds it there when it makes its Ingress and its DNSEndpoint, as   *)
(* the finalizer keeps it until then (gslb_controller.go:127-131).            *)
OwnersExist ==
    \A g \in Gslb : ingress[g].owner = "gslb" \/ dnsEndpoint[g] = "gslb" => gslb[g].exists

(* The Gslb is there to stay and can be reconciled. *)
Staying(g) ==
    /\ gslb[g].exists /\ gslb[g].valid
    /\ ~gslb[g].deleting /\ gslb[g].owner # "gone"

(* As long as one Gslb stays the zone ends up delegated, though the deletion  *)
(* of any other one removes the delegation they share (external.go:108).      *)
DelegationRestored ==
    \A g \in Gslb : <>[](Staying(g) /\ provider = "external") => <>[]nsEndpoint

(* The Ingress and the DNSEndpoint of a Gslb that stays end up as the Gslb    *)
(* wants them, though conflicts are passed over and objects of an earlier     *)
(* Gslb of that name are collected late (ingress.go:82-97).                   *)
IngressFollowsGslb ==
    \A g \in Gslb : <>[]Staying(g) =>
        <>[](/\ ingress[g].exists /\ ingress[g].annotations # "none"
             /\ ingress[g].rules = gslb[g].rules
             /\ dnsEndpoint[g] = "gslb")

(* A Gslb nobody asks for any more is gone for good in the end, with all it   *)
(* owned, though its own annotated Ingress may bring it back on the way       *)
(* (gslb_controller.go:225-286).  An invalid spec would keep it for ever.     *)
GoneForGood ==
    \A g \in Gslb :
        <>[](wanted[g] = {} /\ (gslb[g].exists => gslb[g].valid)) =>
            <>[](~gslb[g].exists /\ ~ingress[g].exists /\ dnsEndpoint[g] = "")
=============================================================================
