---------------------------- MODULE MCGslbStatus ----------------------------
(* A small instance of GslbStatus for TLC: the own cluster has two addresses, *)
(* the others one.                                                            *)
EXTENDS GslbStatus

CONSTANTS h1, h2, own1, own2, ext
=============================================================================
