------------------------- MODULE MCPayoutAnonymizer -------------------------
(* TLC instance of PayoutAnonymizer for two players.                       *)
EXTENDS PayoutAnonymizer

CONSTANTS alice, bob

MCPlayers == {alice, bob}

MCResults == {[p \in Players |-> IF p = alice THEN 1 ELSE -1]}
=============================================================================
