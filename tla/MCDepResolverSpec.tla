------------------------ MODULE MCDepResolverSpec --------------------------
(* Small instances of DepResolverSpec for TLC. *)
EXTENDS DepResolverSpec

CONSTANTS g1, g2

(* An invalid and an omitted duration; completed ones come of the latter. *)
SecondsMC == {-1, 0}
SecondsStated == {5}
=============================================================================
