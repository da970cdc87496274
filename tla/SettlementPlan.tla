--------------------------- MODULE SettlementPlan ---------------------------
(***************************************************************************)
(* The settlement of every showdown a table can reach within small bounds: *)
(* a showdown is drawn, its plan is derived, and the plan is compared with *)
(* what each seat put in.                                                  *)
(***************************************************************************)
EXTENDS SidePots

CONSTANTS
  Contributions,   \* what a seat may have put into the hand
  Rankings,        \* evaluations of the seats' hands on one board
  Buttons,         \* button positions
  NoPlan           \* plan not derived yet

ASSUME PlanAssumption ==
  /\ Contributions \subseteq Nat
  /\ Rankings \subseteq [Seats -> Nat]
  /\ Buttons \subseteq Seats

VARIABLES
  showdown,   \* total_bet and status of every seat, the button, the boards
  plan        \* the settlement plan or NoPlan

vars == <<showdown, plan>>

With(h, k) == {i \in Seats : h.kind[i] = k}
InHand(h) == With(h, "active") \cup With(h, "allin")

\* Betting was closed: the seats that still have chips matched each other and
\* covered every all-in.  A seat that is out (folded or departed) may have
\* put in anything, more than the seats it leaves behind too.
Closed(h) ==
  /\ Cardinality(InHand(h)) >= 2
  /\ \A i \in InHand(h) : h.bets[i] > 0
  /\ \A i \in With(h, "active"), j \in InHand(h) : h.bets[j] <= h.bets[i]

Boards == {<<r>> : r \in Rankings} \cup (Rankings \X Rankings)

Init ==
  /\ showdown \in [bets : [Seats -> Contributions], kind : [Seats -> {"active", "allin", "out"}],
                   button : Buttons, boards : Boards]
  /\ Closed(showdown)
  /\ plan = NoPlan

settle_hand ==
  /\ plan = NoPlan
  /\ plan' = derive_settlement_plan(showdown.bets, With(showdown, "out"), With(showdown, "allin"),
                                    showdown.button, showdown.boards)
  /\ UNCHANGED showdown

Next == settle_hand

Spec == Init /\ [][Next]_vars

-----------------------------------------------------------------------------
Settled == plan # NoPlan
bet(i) == showdown.bets[i]

\* The plan pays out the pot: awards and rake add up to what was put in
\* (settle_hand empties the pot and takes the rake out of the vault).
PlanConserves ==
  Settled => SumFunction(plan.awards) + plan.rake = SumFunction(showdown.bets)

\* Reference for calculate_side_pots, chip by chip: the n-th chip of every
\* seat is contested by the seats still in the hand that put in n chips, or,
\* if there is none, by those that contest the highest chip that is contested.
Heights == 1 .. Max(Range(showdown.bets))
Contenders(n) ==
  LET top == Max({bet(i) : i \in InHand(showdown)})
  IN  {i \in InHand(showdown) : bet(i) >= Min({n, top})}
ReferencePots ==
  {[eligible |-> E, amount |-> Cardinality({c \in Seats \X Heights : c[2] <= bet(c[1]) /\ Contenders(c[2]) = E})]
     : E \in {Contenders(n) : n \in Heights}}

\* The layers of calculate_side_pots are exactly the groups of chips that the
\* same seats compete for.
PotsMatchReference ==
  LET pots == calculate_side_pots(showdown.bets, With(showdown, "out"), With(showdown, "allin"))
  IN  /\ Range(pots) = ReferencePots
      /\ IsInjective(pots)

\* What was put in above everything the seats in the hand put in.
Orphaned ==
  LET top == Max({bet(i) : i \in InHand(showdown)})
  IN  SumFunction([j \in Seats |-> Max({bet(j) - top, 0})])

\* An all-in seat never wins more than it matched from every other seat; only
\* chips that nobody else in the hand can claim may come on top.
WinsWhatItMatched ==
  Settled => \A i \in Seats :
    plan.awards[i] <= SumFunction([j \in Seats |-> Min({bet(i), bet(j)})]) + Orphaned

\* A bet nobody matched returns to its owner in full: the seat with the most
\* chips gets at least its lead over the second back, whatever its hand, and
\* no rake is taken from it.
UncalledBetReturned ==
  Settled => \A i \in InHand(showdown) :
    plan.awards[i] >= bet(i) - Max({bet(j) : j \in Seats \ {i}})

\* The rake of a hand stays within the cap and within the rate, over all
\* layers together.
RakeBounded ==
  Settled => /\ plan.rake <= RakeCap
             /\ plan.rake * 10000 <= RakeBps * SumFunction(showdown.bets)
=============================================================================
