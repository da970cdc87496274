----------------------------- MODULE ChipLedger -----------------------------
(***************************************************************************)
(* What the chain promises the players, whatever contracts, escrows and    *)
(* settlement entries it is built from: chips are bought and cashed in one *)
(* for one, the result of a hand is fixed once and takes effect at most    *)
(* once, then what the losers pay is what the winners get, as chips or as  *)
(* claims, or no chip moves at all, and a claim is paid once.              *)
(***************************************************************************)
EXTENDS Integers, Functions

CONSTANTS
  Players,
  Hands,
  Results,    \* what a hand may do to the players' chips
  NoResult    \* not known yet

VARIABLES
  balance,    \* player -> chips
  owed,       \* hand -> player -> winnings not collected yet
  custody,    \* tokens held for the players
  result,     \* hand -> result
  closed      \* hands that took effect

ledgerVars == <<balance, owed, custody, result, closed>>

LedgerInit ==
  /\ balance = [p \in Players |-> 0]
  /\ owed = [h \in Hands |-> [p \in Players |-> 0]]
  /\ custody = 0
  /\ result = [h \in Hands |-> NoResult]
  /\ closed = {}

BuyIn(p) ==
  /\ custody' > custody
  /\ balance' = [balance EXCEPT ![p] = @ + (custody' - custody)]
  /\ UNCHANGED <<owed, result, closed>>

CashOut(p) ==
  \E amount \in 1 .. balance[p] :
    /\ balance' = [balance EXCEPT ![p] = @ - amount]
    /\ custody' = custody - amount
    /\ UNCHANGED <<owed, result, closed>>

\* Chips are given up, the tokens stay.
Burn(p) ==
  \E amount \in 1 .. balance[p] :
    /\ balance' = [balance EXCEPT ![p] = @ - amount]
    /\ UNCHANGED <<owed, custody, result, closed>>

Record(h) ==
  /\ result[h] = NoResult
  /\ \E d \in Results : result' = [result EXCEPT ![h] = d]
  /\ UNCHANGED <<balance, owed, custody, closed>>

Close(h) ==
  /\ h \notin closed
  /\ result[h] # NoResult
  /\ closed' = closed \cup {h}
  /\ UNCHANGED <<custody, result>>

\* Nobody pays what he does not have, and nothing is made or lost.
Affordable(d) ==
  /\ SumFunction(d) = 0
  /\ \A p \in Players : balance[p] + d[p] >= 0

Gain(d) == [p \in Players |-> IF d[p] > 0 THEN d[p] ELSE 0]
Loss(d) == [p \in Players |-> IF d[p] < 0 THEN d[p] ELSE 0]

\* The winners get chips.
Transfer(h) ==
  /\ Close(h)
  /\ Affordable(result[h])
  /\ balance' = [p \in Players |-> balance[p] + result[h][p]]
  /\ UNCHANGED owed

\* The winners get claims.
Promise(h) ==
  /\ Close(h)
  /\ Affordable(result[h])
  /\ balance' = [p \in Players |-> balance[p] + Loss(result[h])[p]]
  /\ owed' = [owed EXCEPT ![h] = Gain(result[h])]

\* The hand ends here and moves no chips: what it owes is settled elsewhere.
Conceal(h) ==
  /\ Close(h)
  /\ UNCHANGED <<balance, owed>>

Collect(h, p) ==
  /\ owed[h][p] > 0
  /\ owed' = [owed EXCEPT ![h][p] = 0]
  /\ custody' = custody - owed[h][p]
  /\ UNCHANGED <<balance, result, closed>>

LedgerNext ==
  \/ \E p \in Players : BuyIn(p) \/ CashOut(p) \/ Burn(p)
  \/ \E h \in Hands :
       \/ Record(h) \/ Transfer(h) \/ Promise(h) \/ Conceal(h)
       \/ \E p \in Players : Collect(h, p)

LedgerSpec == LedgerInit /\ [][LedgerNext]_ledgerVars

-----------------------------------------------------------------------------
(* What follows from it.                                                   *)

LedgerTypeOK ==
  /\ balance \in [Players -> Nat]
  /\ owed \in [Hands -> [Players -> Nat]]
  /\ custody \in Int
  /\ result \in [Hands -> Results \cup {NoResult}]
  /\ closed \subseteq Hands

\* The custody covers all chips and all claims together.
Covered ==
  SumFunction(balance) + SumFunction([h \in Hands |-> SumFunction(owed[h])]) <= custody
=============================================================================
