-------------------------- MODULE MCDualSettlement --------------------------
(* TLC instances of PokerDualSettlement for two players.                   *)
EXTENDS PokerDualSettlement, TLC

CONSTANTS alice, bob

MCPlayers == {alice, bob}

Win(x, y) == [p \in Players |-> IF p = alice THEN x ELSE y]

\* A win, its mirror image, and a vector that is not zero-sum, which the
\* settlement must refuse.
MCResults == {Win(1, -1), Win(-2, 2), Win(1, 0)}
OneResult == {Win(1, -1)}

\* Hands differ in nothing but their name.
HandSymmetry == Permutations(Hands)
=============================================================================
