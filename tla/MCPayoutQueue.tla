--------------------------- MODULE MCPayoutQueue ---------------------------
(* Instance of PayoutQueue for TLC. *)
EXTENDS PayoutQueue
=============================================================================
