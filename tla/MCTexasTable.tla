---------------------------- MODULE MCTexasTable ----------------------------
(* TLC instance of TexasTable.                                             *)
EXTENDS TexasTable

\* One ranking for every weak order of the seats.
WeakOrders == {r \in [Seats -> 1..MaxPlayers] : Range(r) = 1 .. Max(Range(r))}
=============================================================================
