-------------------------- MODULE MCSettlementPlan --------------------------
(* TLC instance of SettlementPlan.                                         *)
EXTENDS SettlementPlan

\* One ranking for every weak order of the seats.
WeakOrders == {r \in [Seats -> 1..MaxPlayers] : Range(r) = 1 .. Max(Range(r))}
=============================================================================
