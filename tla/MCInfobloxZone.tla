--------------------------- MODULE MCInfobloxZone ---------------------------
(* Small instances of InfobloxZone for TLC. *)
EXTENDS InfobloxZone, TLC

CONSTANTS a, b, c,       \* geo tags
          a1, a2, b1,    \* addresses
          g1, g2         \* Gslbs

OwnerOfTwo == a1 :> a @@ a2 :> a @@ b1 :> b
OwnerIsSelf == [x \in Addr |-> x]

(* Every cluster has every Gslb; or only the others have the second one. *)
DeployedEverywhere == [x \in Cluster |-> Gslb]
DeployedNotOnA == [x \in Cluster |-> IF x = a THEN Gslb \ {g2} ELSE Gslb]

=============================================================================
