----------------------------- MODULE MCGslbDNS -----------------------------
(* Small instances of GslbDNS for TLC. *)
EXTENDS GslbDNS, TLC

CONSTANTS a, b, c,       \* geo tags
          a1, a2, b1     \* addresses

(* Cluster a has two addresses, b has one. *)
OwnerOfTwo == a1 :> a @@ a2 :> a @@ b1 :> b

(* One address per cluster, named like the cluster. *)
OwnerIsSelf == [x \in Addr |-> x]
=============================================================================
