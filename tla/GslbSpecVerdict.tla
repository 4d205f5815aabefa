-------------------------- MODULE GslbSpecVerdict --------------------------
(***************************************************************************)
(* What a Gslb may expect of the resolver of its spec, as if the resolver  *)
(* served no other Gslb and remembered nothing: each call judges the spec  *)
(* as it is shown to it, which is as it was stored a while ago, completes  *)
(* it if it is valid, and says why if it is not accepted.                  *)
(***************************************************************************)
EXTENDS Integers

CONSTANTS Gslb, GslbSpec, NoSpec

VARIABLES
    stored,    \* stored[g]: the spec of g
    shown,     \* shown[g]: the spec of g a call gets to see
    resolved,  \* resolved[g]: the spec the last accepted call for g used
    outcome    \* outcome[g]: the verdict of the last call for g

vars == <<stored, shown, resolved, outcome>>

Negative(s) == s.ttl < 0 \/ s.splitBrain < 0

(* t has both durations, and all that s has. *)
Completes(t, s) ==
    /\ t.ingress = s.ingress
    /\ t.ttl > 0 /\ (s.ttl # 0 => t.ttl = s.ttl)
    /\ t.splitBrain > 0 /\ (s.splitBrain # 0 => t.splitBrain = s.splitBrain)

Init ==
    /\ stored \in [Gslb -> GslbSpec]
    /\ shown = stored
    /\ resolved = [g \in Gslb |-> NoSpec]
    /\ outcome = [g \in Gslb |-> "none"]

(* The spec is stored as it is used, unless it was complete before; it never  *)
(* replaces one that was not shown.                                           *)
Accept(g) ==
    /\ \E t \in GslbSpec :
          /\ Completes(t, shown[g])
          /\ \/ shown[g] = stored[g] /\ stored' = [stored EXCEPT ![g] = t]
             \/ shown[g] = t /\ UNCHANGED stored
          /\ resolved' = [resolved EXCEPT ![g] = t]
    /\ outcome' = [outcome EXCEPT ![g] = "nil"]
    /\ UNCHANGED shown

Reject(g) ==
    /\ Negative(shown[g])
    /\ outcome' = [outcome EXCEPT ![g] = "invalid"]
    /\ UNCHANGED <<stored, shown, resolved>>

(* The completed spec cannot be stored now. *)
Fail(g) ==
    /\ ~Negative(shown[g])
    /\ outcome' = [outcome EXCEPT ![g] = "update"]
    /\ UNCHANGED <<stored, shown, resolved>>

Edit(g) ==
    /\ \E s \in GslbSpec : stored' = [stored EXCEPT ![g] = s]
    /\ UNCHANGED <<shown, resolved, outcome>>

Show(g) ==
    /\ shown' = [shown EXCEPT ![g] = stored[g]]
    /\ UNCHANGED <<stored, resolved, outcome>>

Next == \E g \in Gslb : Accept(g) \/ Reject(g) \/ Fail(g) \/ Edit(g) \/ Show(g)

Spec == Init /\ [][Next]_vars
=============================================================================
