-------------------------- MODULE MCGslbLifecycle --------------------------
(* A small instance of GslbLifecycle for TLC. *)
EXTENDS GslbLifecycle

CONSTANTS g1, g2
=============================================================================
