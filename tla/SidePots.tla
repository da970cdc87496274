------------------------------ MODULE SidePots ------------------------------
(***************************************************************************)
(* The settlement of a showdown as a pure function: the contributions of a *)
(* hand are cut into layers at the all-in amounts (core/side_pot.rs), each *)
(* contested layer is raked, split over the runouts and paid to the best   *)
(* hands among the seats eligible for it (core/settlement.rs).             *)
(* A hand evaluation is a ranking: a number per seat, higher is better.    *)
(***************************************************************************)
EXTENDS Integers, Sequences, FiniteSets, FiniteSetsExt, SequencesExt, Functions

CONSTANTS
  MaxPlayers,   \* seats of the table, numbered from 0
  RakeBps,      \* rake_bps: basis points taken from a contested layer
  RakeCap       \* rake_cap: most that is taken from one hand

ASSUME SidePotsAssumption ==
  /\ MaxPlayers \in 2..9
  /\ RakeBps \in 0..10000
  /\ RakeCap \in Nat

Seats == 0 .. MaxPlayers - 1

\* Seats passed when walking clockwise from a seat to i: 0 for the next
\* seat, MaxPlayers - 1 for the seat itself.
Clockwise(from, i) == (i - from - 1 + MaxPlayers) % MaxPlayers

\* Mutant: the excess over a level is counted in its layer.
slice_layer_uncapped(bets, folded, prev_level, level) ==
  [amount |-> SumFunction([j \in Seats |-> IF bets[j] > prev_level THEN bets[j] - prev_level ELSE 0]),
   eligible |-> {j \in Seats : bets[j] > prev_level /\ j \notin folded}]

\* What the seats put in between two levels, and who can win it.
slice_layer(bets, folded, prev_level, level) ==
  [amount |-> SumFunction([j \in Seats |->
                 IF bets[j] > prev_level THEN Min({bets[j], level}) - prev_level ELSE 0]),
   eligible |-> {j \in Seats : bets[j] > prev_level /\ j \notin folded}]

\* Mutant: a layer nobody can win is dropped.
record_layer_dropped(pots, layer) ==
  IF layer.amount = 0 \/ layer.eligible = {} THEN pots ELSE Append(pots, layer)

\* A layer nobody can win is added to the layer below it.
record_layer(pots, layer) ==
  IF layer.amount = 0 THEN pots
  ELSE IF layer.eligible = {} /\ pots # <<>>
       THEN [pots EXCEPT ![Len(pots)].amount = @ + layer.amount]
       ELSE Append(pots, layer)

\* The all-in amounts in ascending order, then everything above them: the k-th
\* level has k - 1 levels below it.
levels(bets, all_in) ==
  LET L == ({bets[j] : j \in all_in} \cup {Max(Range(bets))}) \ {0}
  IN  [k \in 1 .. Cardinality(L) |-> CHOOSE x \in L : Cardinality({y \in L : y < x}) = k - 1]

calculate_side_pots(bets, folded, all_in) ==
  LET lv == levels(bets, all_in)
      layer(k) == slice_layer(bets, folded, IF k = 1 THEN 0 ELSE lv[k - 1], lv[k])
      pots[k \in 0 .. Len(lv)] == IF k = 0 THEN <<>> ELSE record_layer(pots[k - 1], layer(k))
  IN  pots[Len(lv)]

\* Mutant: a layer with a single claimant is raked and played for like the others.
contested_alone(pot) == Cardinality(pot.eligible) >= 1

contested(pot) == Cardinality(pot.eligible) >= 2

\* Mutant: every layer may take the whole cap.
allocate_rake_uncapped(pots) ==
  [k \in DOMAIN pots |->
     IF contested(pots[k]) THEN Min({(pots[k].amount * RakeBps) \div 10000, RakeCap}) ELSE 0]

\* Each contested layer pays its rate until the cap of the hand is used up.
allocate_rake_fixed_rate(pots) ==
  LET raw(k) == IF contested(pots[k]) THEN (pots[k].amount * RakeBps) \div 10000 ELSE 0
      upto[k \in 0 .. Len(pots)] == IF k = 0 THEN 0 ELSE Min({RakeCap, upto[k - 1] + raw(k)})
  IN  [k \in DOMAIN pots |-> upto[k] - upto[k - 1]]

\* The first board receives the odd chip.
split_across_runouts(amount, runouts) ==
  IF runouts = 1 THEN <<amount>> ELSE <<(amount \div 2) + (amount % 2), amount \div 2>>

find_winners(eligible, ranking) ==
  {i \in eligible : \A j \in eligible : ranking[j] <= ranking[i]}

\* Mutant: the odd chips are lost.
split_among_winners_even(amount, winners, button) ==
  [i \in Seats |-> IF i \in winners THEN amount \div Cardinality(winners) ELSE 0]

\* Odd chips go to the winners closest after the button.
split_among_winners(amount, winners, button) ==
  LET n == Cardinality(winners)
      position(i) == Cardinality({j \in winners : Clockwise(button, j) < Clockwise(button, i)})
  IN  [i \in Seats |-> IF i \notin winners THEN 0
                       ELSE (amount \div n) + (IF position(i) < amount % n THEN 1 ELSE 0)]

\* The awards of one layer, on every board if it is contested.
pot_awards(pot, net, button, rankings) ==
  IF contested(pot)
  THEN LET amounts == split_across_runouts(net, Len(rankings))
           board(r) == split_among_winners(amounts[r], find_winners(pot.eligible, rankings[r]), button)
       IN  [i \in Seats |-> SumFunction([r \in DOMAIN rankings |-> board(r)[i]])]
  ELSE split_among_winners(net, pot.eligible, button)

\* The settlement plan: total rake and the award of every seat.  rankings
\* has one ranking per board.
derive_settlement_plan(bets, folded, all_in, button, rankings) ==
  LET pots == calculate_side_pots(bets, folded, all_in)
      rakes == allocate_rake_fixed_rate(pots)
      award(k) == pot_awards(pots[k], pots[k].amount - rakes[k], button, rankings)
  IN  [rake |-> SumFunction(rakes),
       awards |-> [i \in Seats |-> SumFunction([k \in DOMAIN pots |-> award(k)[i]])]]
=============================================================================
