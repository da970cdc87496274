------------------------- MODULE MCAppchainBridge -------------------------
(* Instance of AppchainBridge for TLC. *)
EXTENDS AppchainBridge
=============================================================================
