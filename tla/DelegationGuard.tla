-------------------------- MODULE DelegationGuard --------------------------
(***************************************************************************)
(* What the finalizer is for.  All Gslbs of a cluster share one delegation *)
(* of their zone.  A Gslb is guarded while it has a finalizer, and doomed  *)
(* from the request to delete it until it is gone.  The zone is delegated  *)
(* for guarded Gslbs only, the delegation is removed for doomed ones only, *)
(* and no Gslb gives up its guard while the delegation is held.            *)
(*                                                                         *)
(* Whoever is to remove the delegation may not see it, though; it is then  *)
(* lost, until somebody delegates the zone again or sees it after all.     *)
(***************************************************************************)

CONSTANT Gslb

VARIABLES guarded, doomed, delegation

vars == <<guarded, doomed, delegation>>

Init ==
    /\ guarded \in SUBSET Gslb
    /\ doomed \in SUBSET guarded
    /\ delegation \in {"none", "held"}
    /\ delegation = "held" => guarded # {}

(* Nobody is guarded once it is doomed. *)
Guard(g) ==
    /\ g \notin doomed
    /\ guarded' = guarded \union {g}
    /\ UNCHANGED <<doomed, delegation>>

(* What is not guarded need not be doomed: it just goes. *)
Doom(g) ==
    /\ g \in guarded
    /\ doomed' = doomed \union {g}
    /\ UNCHANGED <<guarded, delegation>>

Delegate ==
    /\ guarded # {}
    /\ delegation' = "held"
    /\ UNCHANGED <<guarded, doomed>>

Undelegate ==
    /\ doomed # {}
    /\ delegation' = "none"
    /\ UNCHANGED <<guarded, doomed>>

(* The delegation is taken for removed. *)
Overlook ==
    /\ doomed # {}
    /\ delegation = "held"
    /\ delegation' = "lost"
    /\ UNCHANGED <<guarded, doomed>>

(* The guard is given up, and the Gslb goes with it. *)
Release(g) ==
    /\ g \in doomed
    /\ delegation # "held"
    /\ guarded' = guarded \ {g}
    /\ doomed' = doomed \ {g}
    /\ UNCHANGED delegation

Next ==
    \/ \E g \in Gslb : Guard(g) \/ Doom(g) \/ Release(g)
    \/ Delegate \/ Undelegate \/ Overlook

Spec == Init /\ [][Next]_vars
=============================================================================
