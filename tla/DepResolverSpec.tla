-------------------------- MODULE DepResolverSpec --------------------------
(***************************************************************************)
(* The resolver that fills in and validates the spec of a Gslb.            *)
(*                                                                         *)
(* One DependencyResolver serves every Gslb of a cluster.  It remembers    *)
(* the last spec it resolved and the error that gave, and answers from     *)
(* that memory when the next spec it sees, of whichever Gslb, is equal.    *)
(* A worker reconciles one Gslb at a time, so a call is one step; users    *)
(* edit specs and updates fail in between.  What a call is given is the    *)
(* Gslb from the client's cache, and the update of an older one a conflict.*)
(***************************************************************************)
EXTENDS Integers

CONSTANTS
    Gslb,        \* the Gslb resources of the cluster
    Ingress,     \* what their specs hold besides the two durations
    Seconds,     \* values a user writes for a duration; 0 is an omitted one
    MaxFaults    \* bound on edits and failed updates

ASSUME SecondsAssumption == Seconds \subseteq Int
ASSUME MaxFaultsAssumption == MaxFaults \in Nat

(* predefinedStrategy *)
DNSTtlSeconds == 30
SplitBrainThresholdSeconds == 300

Duration == Seconds \union {DNSTtlSeconds, SplitBrainThresholdSeconds}
GslbSpec == [ingress : Ingress, ttl : Duration, splitBrain : Duration]

(* The zero value of dr.spec: the API server rejects a Gslb without ingress   *)
(* and strategy type, so it equals the spec of no Gslb.                       *)
NoSpec == [ingress |-> "", ttl |-> 0, splitBrain |-> 0]
ASSUME NoSpecAssumption == "" \notin Ingress

VARIABLES
    stored,      \* stored[g]: gslb.Spec in the API server
    cached,      \* cached[g]: gslb.Spec as the client's cache shows it
    spec,        \* dr.spec
    errorSpec,   \* dr.errorSpec: "nil", "invalid" or "update"
    resolved,    \* resolved[g]: the spec the last accepted reconcile of g used
    outcome,     \* outcome[g]: how the last reconcile of g left ResolveGslbSpec
    faults       \* edits and failed updates so far

vars == <<stored, cached, spec, errorSpec, resolved, outcome, faults>>

(* The type invariant. *)
TypeOK ==
    /\ stored \in [Gslb -> GslbSpec]
    /\ cached \in [Gslb -> GslbSpec]
    /\ spec \in GslbSpec \union {NoSpec}
    /\ errorSpec \in {"nil", "invalid", "update"}
    /\ resolved \in [Gslb -> GslbSpec \union {NoSpec}]
    /\ outcome \in [Gslb -> {"none", "nil", "invalid", "update"}]
    /\ faults \in Nat

(* Set the predefined values where the user left a duration out. *)
withDefaults(s) ==
    [ingress    |-> s.ingress,
     ttl        |-> IF s.ttl = 0 THEN DNSTtlSeconds ELSE s.ttl,
     splitBrain |-> IF s.splitBrain = 0 THEN SplitBrainThresholdSeconds ELSE s.splitBrain]

(* Mutant: only the first duration is validated. *)
validateTtl(s) == s.ttl >= 0

(* Both durations must not be negative. *)
validateSpec(s) == s.ttl >= 0 /\ s.splitBrain >= 0

Init ==
    /\ stored \in [Gslb -> [ingress : Ingress, ttl : Seconds, splitBrain : Seconds]]
    /\ cached = stored
    /\ spec = NoSpec
    /\ errorSpec = "nil"
    /\ resolved = [g \in Gslb |-> NoSpec]
    /\ outcome = [g \in Gslb |-> "none"]
    /\ faults = 0

Fault ==
    /\ faults < MaxFaults
    /\ faults' = faults + 1

(* Mutant: an error, once recorded, is not replaced by a later success. *)
ReturnsKeepingError(g, s, err) ==
    LET e == IF err = "nil" THEN errorSpec ELSE err
    IN  /\ spec' = s
        /\ errorSpec' = e
        /\ outcome' = [outcome EXCEPT ![g] = e]
        /\ resolved' = [resolved EXCEPT ![g] = IF e = "nil" THEN s ELSE @]

(* The call returns err and leaves s in the memory and in the Gslb at hand. *)
Returns(g, s, err) ==
    /\ spec' = s
    /\ errorSpec' = err
    /\ outcome' = [outcome EXCEPT ![g] = err]
    /\ resolved' = [resolved EXCEPT ![g] = IF err = "nil" THEN s ELSE @]

(* Mutant: specs are taken for equal when their ingresses are. *)
RememberedByIngress(g) ==
    /\ cached[g].ingress = spec.ingress
    /\ Returns(g, spec, errorSpec)
    /\ UNCHANGED <<stored, cached, faults>>

(* The spec equals the remembered one: the remembered error is the answer. *)
Remembered(g) ==
    /\ cached[g] = spec
    /\ Returns(g, spec, errorSpec)
    /\ UNCHANGED <<stored, cached, faults>>

(* The defaults are set, the strategy is valid and the Gslb is updated. *)
Resolved(g) ==
    /\ cached[g] # spec
    /\ validateSpec(withDefaults(cached[g]))
    /\ cached[g] = stored[g]
    /\ stored' = [stored EXCEPT ![g] = withDefaults(@)]
    /\ Returns(g, withDefaults(cached[g]), "nil")
    /\ UNCHANGED <<cached, faults>>

(* A negative duration: nothing is saved, the spec is remembered with its error. *)
Rejected(g) ==
    /\ cached[g] # spec
    /\ ~validateSpec(withDefaults(cached[g]))
    /\ Returns(g, withDefaults(cached[g]), "invalid")
    /\ UNCHANGED <<stored, cached, faults>>

(* The spec was written since, by a user or by an earlier call: a conflict. *)
Conflict(g) ==
    /\ cached[g] # spec
    /\ validateSpec(withDefaults(cached[g]))
    /\ cached[g] # stored[g]
    /\ Returns(g, withDefaults(cached[g]), "update")
    /\ UNCHANGED <<stored, cached, faults>>

(* The update fails for another reason: something else of the Gslb was        *)
(* written since, or the API server cannot be reached.                        *)
UpdateFails(g) ==
    /\ cached[g] # spec
    /\ validateSpec(withDefaults(cached[g]))
    /\ Fault
    /\ Returns(g, withDefaults(cached[g]), "update")
    /\ UNCHANGED <<stored, cached>>

ResolveGslbSpec(g) == Remembered(g) \/ Resolved(g) \/ Rejected(g) \/ Conflict(g)

(* A user changes the spec. *)
Edit(g) ==
    /\ Fault
    /\ \E s \in [ingress : Ingress, ttl : Seconds, splitBrain : Seconds] :
          stored' = [stored EXCEPT ![g] = s]
    /\ UNCHANGED <<cached, spec, errorSpec, resolved, outcome>>

(* The watch delivers the Gslb as it is stored. *)
CacheSync(g) ==
    /\ cached[g] # stored[g]
    /\ cached' = [cached EXCEPT ![g] = stored[g]]
    /\ UNCHANGED <<stored, spec, errorSpec, resolved, outcome, faults>>

Next == \E g \in Gslb : ResolveGslbSpec(g) \/ UpdateFails(g) \/ Edit(g) \/ CacheSync(g)

Spec == Init /\ [][Next]_vars

(* Every Gslb is requeued after every reconcile, and watches deliver. *)
FairSpec == Spec /\ \A g \in Gslb : WF_vars(ResolveGslbSpec(g)) /\ WF_vars(CacheSync(g))

-----------------------------------------------------------------------------
(* A reconcile goes on only with positive durations: the defaults are set     *)
(* and no negative value is let through, also when the answer comes from the *)
(* memory of another Gslb (depresolver_spec.go:41-55).                       *)
AcceptedIsResolved ==
    \A g \in Gslb : outcome[g] = "nil" =>
        resolved[g].ttl > 0 /\ resolved[g].splitBrain > 0

(* The resolver as a Gslb sees it that knows nothing of the others. *)
Verdict == INSTANCE GslbSpecVerdict WITH shown <- cached

(* Each Gslb gets the verdict on its own spec as the cache shows it, one that *)
(* is accepted is stored as it is used unless it was complete, and no call    *)
(* writes over an edit it has not seen: the memory, which all Gslbs share and *)
(* failed updates write, never shows but in an update error that is repeated  *)
(* (depresolver_spec.go:35-57).                                               *)
ImplementsVerdict == Verdict!Spec

(* A spec that stays valid is accepted again and again, whatever updates      *)
(* failed and whatever the other Gslbs of the cluster contain.               *)
ValidIsAccepted ==
    \A g \in Gslb :
        <>[](stored[g].ttl >= 0 /\ stored[g].splitBrain >= 0) => []<>(outcome[g] = "nil")

(* What the code does guarantee: a valid spec is accepted again and again if  *)
(* some other Gslb of the cluster, valid or not, has another ingress: its    *)
(* reconciles overwrite the memory and with it an error of a failed update.  *)
EvictedIsAccepted ==
    \A g, h \in Gslb :
        <>[](/\ stored[g].ttl >= 0 /\ stored[g].splitBrain >= 0
             /\ stored[h].ingress # stored[g].ingress) => []<>(outcome[g] = "nil")

(* Why AcceptedIsResolved holds: what is remembered without an error has      *)
(* been through the defaults and the validation.                             *)
MemoryInv ==
    errorSpec = "nil" /\ spec # NoSpec => spec.ttl > 0 /\ spec.splitBrain > 0

=============================================================================
