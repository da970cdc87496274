------------------------- MODULE MCHostSettlement -------------------------
(* Instance of HostSettlement for TLC. *)
EXTENDS HostSettlement
=============================================================================
