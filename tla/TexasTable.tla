----------------------------- MODULE TexasTable -----------------------------
(***************************************************************************)
(* One Texas hold'em table of the VM (core/state_machine.rs, driven by     *)
(* runtime/dispatch.rs): seats, chips, the shuffle / reveal / reconstruct  *)
(* protocol among the seats, the betting rounds and the settlement.        *)
(*                                                                         *)
(* Every command runs its handler and then normalizes the table until it   *)
(* waits for somebody again.  A refused command leaves the table as it is; *)
(* a command whose normalization fails leaves what its handler wrote.      *)
(* advance_deadline is the permissionless timeout; when it is due is left  *)
(* open.  Cards, keys and proofs are abstracted to who still owes a        *)
(* contribution, which cards are readable and whose keys make up the deck  *)
(* key: a submission is a valid one, and cards that do not decode (a layer *)
(* of a kicked seat, a layer removed by a fold and again by its token, a   *)
(* card dealt twice, a deck key of other seats than those that shuffled)   *)
(* make the code refuse the submission, which here never comes.            *)
(***************************************************************************)
EXTENDS SidePots

CONSTANTS
  SmallBlind, BigBlind,
  AnteMode,        \* "none", "normal" or "bba" (only the big blind pays)
  AnteAmount,
  RunItTwice,      \* rit_mode = RIT_MODE_TWICE
  TimeBank,        \* DEFAULT_TIME_BANK_MS, in units of the betting timeout
  TimeBankRefill,  \* TIME_BANK_REFILL_PER_HAND_MS
  BettingTimeout,  \* betting_timeout_ms
  MaxTotalBet,     \* MAX_TOTAL_BET: most chips at a table
  MaxSteps,        \* MAX_NORMALIZATION_STEPS
  BuyIns,          \* buy-ins players bring
  FundAmounts,     \* addon and rebuy amounts players use
  Kickable,        \* seats the creator may kick
  Leavers,         \* seats that may set leave_after_hand
  Rankings,        \* evaluations of the seats' hands on one board
  MaxHands         \* bound: hands started

ASSUME TableAssumption ==
  /\ SmallBlind \in Nat /\ BigBlind \in Nat \ {0} /\ SmallBlind <= BigBlind
  /\ AnteMode \in {"none", "normal", "bba"} /\ AnteAmount \in Nat
  /\ RunItTwice \in BOOLEAN
  /\ TimeBank \in Nat /\ TimeBankRefill \in Nat /\ BettingTimeout \in Nat \ {0}
  /\ MaxTotalBet \in Nat /\ MaxSteps \in Nat \ {0} /\ MaxHands \in Nat
  /\ BuyIns \subseteq Nat /\ FundAmounts \subseteq Nat \ {0}
  /\ Kickable \subseteq Seats /\ Leavers \subseteq Seats
  /\ Rankings \subseteq [Seats -> Nat]

\* Nobody sits down without chips: join_table itself does not refuse it, the
\* game layer does (SIT_DOWN_V2 wants a big blind, broke seats are cleared).
ASSUME BuyInAssumption == 0 \notin BuyIns

VARIABLE table

\* Streets (round_state).
WAITING == 0
PREFLOP == 1
FLOP == 2
RIVER == 4
SHOWDOWN == 5
NO_SEAT == 15
BOARD == MaxPlayers   \* the reveal target of a community card

-----------------------------------------------------------------------------
\* Seats

VacantSeat == [kind |-> "vacant", stack |-> 0, bet |-> 0, total |-> 0, addon |-> 0, bank |-> TimeBank]

of_kind(t, kinds) == {i \in Seats : t.seats[i].kind \in kinds}
occupied_seats(t) == of_kind(t, {"waiting", "active", "folded", "allin"})
active_seats(t) == of_kind(t, {"active", "folded", "allin"})    \* get_active_seat_mask
live_seats(t) == of_kind(t, {"active", "allin"})                \* count_active_players
actionable_seats(t) == of_kind(t, {"active"})                   \* count_actionable_players

few_live(t, n) == Cardinality(live_seats(t)) <= n

\* The first seat of S clockwise after a seat, which itself comes last.
next_seat(S, from) ==
  IF S = {} THEN NO_SEAT
  ELSE CHOOSE i \in S : \A j \in S : Clockwise(from, i) <= Clockwise(from, j)

Stacks(t) == SumFunction([i \in Seats |-> t.seats[i].stack])
Addons(t) == SumFunction([i \in Seats |-> t.seats[i].addon])
Bets(t) == SumFunction([i \in Seats |-> t.seats[i].bet])
Totals(t) == SumFunction([i \in Seats |-> t.seats[i].total])

\* A seat puts x chips of its stack into the hand.
pay(s, x) ==
  [s EXCEPT !.stack = @ - x, !.total = @ + x, !.kind = IF s.stack = x THEN "allin" ELSE @]

-----------------------------------------------------------------------------
\* Phases (HandPhase): each carries its own payload.

Waiting == [tag |-> "waiting"]
Shuffling(purpose, street, pending) ==
  [tag |-> "shuffling", purpose |-> purpose, street |-> street, pending |-> pending]
Revealing(street, purpose, assign) ==
  [tag |-> "revealing", street |-> street, purpose |-> purpose, assign |-> assign]
Reconstructing(street, pending, contributed) ==
  [tag |-> "reconstructing", street |-> street, pending |-> pending, contributed |-> contributed]
Betting(street, current_bet, min_raise, turn) ==
  [tag |-> "betting", street |-> street, current_bet |-> current_bet, min_raise |-> min_raise, turn |-> turn]
ShowdownDisplay == [tag |-> "showdown"]

in_phase(t, tag) == t.phase.tag = tag
round_state(t) ==
  CASE in_phase(t, "waiting") -> WAITING
    [] in_phase(t, "showdown") -> SHOWDOWN
    [] OTHER -> t.phase.street

\* The result of a handler or a normalization that returns an error.
failed(t) == [t EXCEPT !.phase = [tag |-> "error"]]
is_error(t) == in_phase(t, "error")

\* Table flags on an empty seat are not a valid table,
\* nor is a deck key of seats that are gone.
valid_schema(t) ==
  /\ (t.leave \cup t.acted) \cap of_kind(t, {"vacant"}) = {}
  /\ t.contributors \subseteq occupied_seats(t)

current_turn(t) == IF in_phase(t, "betting") THEN t.phase.turn ELSE NO_SEAT
current_shuffler(t) ==
  IF in_phase(t, "shuffling") /\ t.phase.pending # {} THEN Min(t.phase.pending) ELSE NO_SEAT
pending_revealers(t) == UNION Range(t.phase.assign)

\* A seat that is gone owes nothing to the running phase.
remove_seat_from_phase(phase, i) ==
  CASE phase.tag \in {"shuffling", "reconstructing"} -> [phase EXCEPT !.pending = @ \ {i}]
    [] phase.tag = "revealing" -> [phase EXCEPT !.assign = [a \in DOMAIN @ |-> @[a] \ {i}]]
    [] OTHER -> phase

-----------------------------------------------------------------------------
\* End of a hand

collect_bets_to_pot(t) ==
  [t EXCEPT !.pot = @ + Bets(t), !.seats = [i \in Seats |-> [t.seats[i] EXCEPT !.bet = 0]]]

\* Mutant: reset also clears the pending addon of a seat it keeps.
reset_seat_addon_lost(t, i) ==
  LET s == t.seats[i]
  IN  IF i \notin occupied_seats(t) \ t.leave \/ s.stack = 0 THEN VacantSeat
      ELSE [s EXCEPT !.kind = IF @ = "waiting" THEN @ ELSE "active",
                     !.bet = 0, !.total = 0, !.addon = 0, !.bank = Min({@ + TimeBankRefill, TimeBank})]

\* The seat after the hand: the addon is credited, departed seats, leavers and
\* seats without chips are vacated.
reset_seat(t, i) ==
  LET s == t.seats[i]
  IN  IF i \notin occupied_seats(t) \ t.leave \/ s.stack + s.addon = 0 THEN VacantSeat
      ELSE [s EXCEPT !.kind = IF @ = "waiting" THEN @ ELSE "active", !.stack = @ + s.addon,
                     !.bet = 0, !.total = 0, !.addon = 0, !.bank = Min({@ + TimeBankRefill, TimeBank})]

\* The deck key of the next hand: every seat that stays contributes to it, unless
\* only waiting seats stay.
next_contributors(t) ==
  LET kept == {i \in Seats : reset_seat(t, i).kind # "vacant"}
  IN  IF \A i \in kept : reset_seat(t, i).kind = "waiting" THEN {} ELSE kept

reset_for_next_hand(t) ==
  LET leavers == occupied_seats(t) \cap t.leave
      refund(i) == IF i \in leavers THEN t.seats[i].stack + t.seats[i].addon ELSE 0
  IN  [t EXCEPT !.seats = [i \in Seats |-> reset_seat(t, i)],
                !.chip_pool = @ - SumFunction([i \in Seats |-> refund(i)]),
                !.pot = 0, !.board = 0, !.acted = {}, !.leave = {}, !.ledger = {}, !.shown = {},
                !.rit = FALSE, !.contributors = next_contributors(t), !.phase = Waiting]

\* Mutant: the bets of the running round are not collected first.
end_without_showdown_uncollected(t) ==
  reset_for_next_hand(IF live_seats(t) = {} THEN t
                      ELSE [t EXCEPT !.seats[Min(live_seats(t))].stack = @ + t.pot])

\* The lowest seat still in the hand takes the pot.
end_without_showdown(t) ==
  LET winners == live_seats(t)
      c == collect_bets_to_pot(t)
  IN  reset_for_next_hand(IF winners = {} THEN c
                          ELSE [c EXCEPT !.seats[Min(winners)].stack = @ + c.pot, !.pot = 0])

\* The error paths return what the seats that did not fold put in.
refund_all_bets(t) ==
  LET refund(i) == IF i \in live_seats(t) THEN t.seats[i].total ELSE 0
  IN  [t EXCEPT !.pot = 0,
                !.seats = [i \in Seats |-> [t.seats[i] EXCEPT !.stack = @ + refund(i), !.bet = 0, !.total = 0]]]

-----------------------------------------------------------------------------
\* Reveal phases: who still has to contribute to which card

\* Every seat opens the hole cards of the others.
start_preflop_reveal_phase(t) ==
  [t EXCEPT !.phase = Revealing(PREFLOP, "hole", [i \in active_seats(t) |-> active_seats(t) \ {i}])]

\* Every seat opens the community cards of the street, on both boards when
\* the hand runs twice.
start_community_reveal_phase(t, street) ==
  [t EXCEPT !.phase = Revealing(street, "board", [b \in {BOARD} |-> active_seats(t)])]

\* Every owner opens its own hole cards.
start_showdown_reveal_phase(t) ==
  [t EXCEPT !.phase = Revealing(SHOWDOWN, "owner", [i \in active_seats(t) \cap t.ledger |-> {i}])]

-----------------------------------------------------------------------------
\* Betting

no_further_betting_possible(t) ==
  /\ in_phase(t, "betting")
  /\ ~few_live(t, 1)
  /\ Cardinality(actionable_seats(t)) <= 1
  /\ \A i \in actionable_seats(t) : t.seats[i].bet = t.phase.current_bet

\* Mutant: a seat that acted need not match the bet.
is_betting_complete_unmatched(t) ==
  actionable_seats(t) \subseteq t.acted

is_betting_complete(t) ==
  \A i \in actionable_seats(t) : i \in t.acted /\ t.seats[i].bet = t.phase.current_bet

\* Mutant: the second board is dealt although bets are still possible.
maybe_trigger_run_it_twice_early(t) ==
  IF RunItTwice /\ t.board < 5 THEN [t EXCEPT !.rit = TRUE] ELSE t

\* Called after the bets were collected: a seat that is not all-in counts as
\* owing the whole current bet then.
maybe_trigger_run_it_twice(t) ==
  IF RunItTwice /\ t.board < 5 /\ no_further_betting_possible(t) THEN [t EXCEPT !.rit = TRUE] ELSE t

advance_round(t) ==
  IF few_live(t, 1) THEN end_without_showdown(t)
  ELSE LET u == maybe_trigger_run_it_twice(t)
       IN  IF round_state(t) = RIVER THEN start_showdown_reveal_phase(u)
           ELSE start_community_reveal_phase(u, round_state(t) + 1)

close_round(t) == advance_round(collect_bets_to_pot(t))

\* Mutant: the turn moves to the next seat in the hand, all-in or not.
advance_turn_any(t) ==
  IF is_betting_complete(t) THEN close_round([t EXCEPT !.phase.turn = NO_SEAT])
  ELSE [t EXCEPT !.phase.turn = next_seat(live_seats(t), IF @ = NO_SEAT THEN 0 ELSE @)]

advance_turn(t) ==
  IF is_betting_complete(t) THEN close_round([t EXCEPT !.phase.turn = NO_SEAT])
  ELSE [t EXCEPT !.phase.turn = next_seat(actionable_seats(t), IF @ = NO_SEAT THEN 0 ELSE @)]

rotation_base(t) == IF t.last_bb_seat # NO_SEAT THEN t.last_bb_seat ELSE t.button

\* The big blind rotates; the previous big blind pays the small blind if it
\* still takes part (dead small blind otherwise), heads-up the other seat.
post_blinds(t) ==
  LET base == rotation_base(t)
      active == active_seats(t)
      bb == next_seat(active, base)
      sb == IF Cardinality(active) = 2 THEN next_seat(active, bb)
            ELSE IF base \in active \ {bb} THEN base ELSE NO_SEAT
      blind(i) == Min({IF i = bb THEN BigBlind ELSE SmallBlind, t.seats[i].stack})
  IN  [t EXCEPT !.last_bb_seat = bb,
                !.seats = [i \in Seats |-> IF i \in {sb, bb}
                                           THEN [pay(t.seats[i], blind(i)) EXCEPT !.bet = blind(i)] ELSE t.seats[i]]]

\* Mutant: the ante is not recorded as the seat's contribution to the hand.
collect_ante_unrecorded(t) ==
  LET payers == CASE AnteMode = "bba" /\ AnteAmount > 0 -> {t.last_bb_seat}
                  [] AnteMode = "normal" /\ AnteAmount > 0 -> active_seats(t)
                  [] OTHER -> {}
      ante(i) == IF i \in payers THEN Min({AnteAmount, t.seats[i].stack}) ELSE 0
  IN  [t EXCEPT !.pot = @ + SumFunction([i \in Seats |-> ante(i)]),
                !.seats = [i \in Seats |-> [t.seats[i] EXCEPT !.stack = @ - ante(i)]]]

\* Antes go straight to the pot and do not lower the price of a call.
collect_ante(t) ==
  LET payers == CASE AnteMode = "bba" /\ AnteAmount > 0 -> {t.last_bb_seat}
                  [] AnteMode = "normal" /\ AnteAmount > 0 -> active_seats(t)
                  [] OTHER -> {}
      ante(i) == IF i \in payers THEN Min({AnteAmount, t.seats[i].stack}) ELSE 0
  IN  [t EXCEPT !.pot = @ + SumFunction([i \in Seats |-> ante(i)]),
                !.seats = [i \in Seats |-> IF i \in payers THEN pay(t.seats[i], ante(i)) ELSE t.seats[i]]]

\* Who speaks first: preflop the seat after the big blind, later the big
\* blind itself heads-up and otherwise the seat after the button.
first_to_act(t, street) ==
  LET base == rotation_base(t)
      heads_up == Cardinality(active_seats(t)) = 2
  IN  CASE street = PREFLOP -> next_seat(actionable_seats(t), t.last_bb_seat)
        [] street # PREFLOP /\ heads_up /\ base \in actionable_seats(t) -> base
        [] street # PREFLOP /\ heads_up /\ base \notin actionable_seats(t) -> next_seat(actionable_seats(t), base)
        [] OTHER -> next_seat(actionable_seats(t), t.button)

start_betting_round(t, street) ==
  LET price == IF street = PREFLOP THEN Max({BigBlind} \cup {t.seats[i].bet : i \in Seats}) ELSE 0
      u == [t EXCEPT !.seats = [i \in Seats |-> IF street = PREFLOP THEN t.seats[i] ELSE [t.seats[i] EXCEPT !.bet = 0]],
                     !.acted = of_kind(t, {"allin", "folded"}),
                     !.phase = Betting(street, price, BigBlind, first_to_act(t, street))]
  IN  IF no_further_betting_possible(u) THEN close_round(u) ELSE u

check_reveal_phase_complete(t) ==
  IF DOMAIN t.phase.assign # {} THEN t
  ELSE CASE t.phase.purpose = "hole" -> start_betting_round(collect_ante(post_blinds(t)), PREFLOP)
         [] t.phase.purpose = "board" -> start_betting_round(t, t.phase.street)
         [] t.phase.purpose = "owner" -> [t EXCEPT !.phase = ShowdownDisplay]

-----------------------------------------------------------------------------
\* Shuffles and the reconstruction of the deck

\* After a reconstruction the reveal of the street starts again.
restart_reveal_after_reconstruct(t) ==
  CASE t.phase.street = PREFLOP -> start_preflop_reveal_phase([t EXCEPT !.ledger = {}])
    [] t.phase.street \in FLOP..RIVER /\ t.board < t.phase.street + 1 ->
         start_community_reveal_phase(t, t.phase.street)
    [] t.phase.street = SHOWDOWN -> start_showdown_reveal_phase(t)
    [] OTHER -> t

advance_shuffle(t) ==
  CASE t.phase.pending # {} -> t
    [] t.phase.pending = {} /\ t.phase.purpose = "initial" -> start_preflop_reveal_phase(t)
    [] OTHER -> restart_reveal_after_reconstruct(t)

\* Mutant: the seats that were just kicked are asked to contribute too.
start_reconstruct_departed(t) ==
  [t EXCEPT !.phase = Reconstructing(t.phase.street, active_seats(t) \cup of_kind(t, {"departed"}), FALSE)]

\* The reveal that timed out has nothing left to collect; only its street
\* survives the reconstruction.
start_reconstruct(t) ==
  [t EXCEPT !.phase = Reconstructing(t.phase.street, active_seats(t), FALSE)]

\* Fails when the hand was reset in between: there is no reveal to resume.
on_complete_reconstruct(t) ==
  IF ~in_phase(t, "reconstructing") THEN failed(t)
  ELSE advance_shuffle([t EXCEPT !.phase = Shuffling("reconstruct", @.street, active_seats(t))])

\* The deck is replaced by the initial one, and the readable hole cards with it.
rebuild_deck_and_shuffle_on_timeout(t) ==
  [t EXCEPT !.ledger = {}, !.phase.pending = active_seats(t)]

-----------------------------------------------------------------------------
\* Kicks

\* Mutant: the bet of the kicked seat does not reach the pot.
kick_seat_raw_bet_lost(t, i) ==
  LET s == t.seats[i]
  IN  IF i \notin occupied_seats(t) THEN t
      ELSE [t EXCEPT !.chip_pool = @ - s.stack - s.addon,
                     !.seats[i] = [VacantSeat EXCEPT !.kind = "departed", !.total = s.total],
                     !.acted = @ \ {i}, !.leave = @ \ {i}, !.shown = @ \ {i}, !.contributors = @ \ {i},
                     !.phase = remove_seat_from_phase(@, i)]

\* The seat is paid out; its bet goes to the pot and what it put into the
\* hand stays on record for the side pots.
kick_seat_raw(t, i) ==
  LET s == t.seats[i]
  IN  IF i \notin occupied_seats(t) THEN t
      ELSE [t EXCEPT !.pot = @ + s.bet, !.chip_pool = @ - s.stack - s.addon,
                     !.seats[i] = [VacantSeat EXCEPT !.kind = "departed", !.total = s.total],
                     !.acted = @ \ {i}, !.leave = @ \ {i}, !.shown = @ \ {i}, !.contributors = @ \ {i},
                     !.phase = remove_seat_from_phase(@, i)]

\* With a single seat left, betting ends the hand; any other phase resets it.
low_player_cascade(t) ==
  CASE ~few_live(t, 1) -> t
    [] Cardinality(live_seats(t)) = 1 /\ in_phase(t, "betting") -> end_without_showdown(t)
    [] OTHER -> reset_for_next_hand(t)

\* The seat i of t was kicked, which gave k: the table goes on without it.
kick_cascades(t, i, k) ==
  CASE current_shuffler(t) = i -> low_player_cascade(advance_shuffle(k))
    [] current_turn(t) = i -> IF few_live(k, 1) THEN end_without_showdown(k)
                              ELSE low_player_cascade(advance_turn(k))
    [] OTHER -> low_player_cascade(k)

kick_player_internal(t, i) == kick_cascades(t, i, kick_seat_raw(t, i))

-----------------------------------------------------------------------------
\* Timeouts

give_up(t) == reset_for_next_hand(refund_all_bets(t))

\* The silent seats were kicked, which gave k: without two players the hand
\* ends, otherwise it goes on as next says.
after_timeout(k, next) ==
  CASE live_seats(k) = {} -> give_up(k)
    [] Cardinality(live_seats(k)) = 1 -> end_without_showdown(k)
    [] OTHER -> next

restart_shuffle(k) ==
  after_timeout(k, IF in_phase(k, "shuffling") THEN advance_shuffle(rebuild_deck_and_shuffle_on_timeout(k)) ELSE k)
on_shuffle_timeout(t) == restart_shuffle(kick_player_internal(t, current_shuffler(t)))

restart_reveal(k) ==
  after_timeout(k, IF k.phase.purpose = "hole" THEN reset_for_next_hand(k) ELSE start_reconstruct(k))

\* The seats of S are kicked in ascending order.
kick_all_raw(t, S) ==
  LET kicked[n \in 0..MaxPlayers] ==
        IF n = 0 THEN t ELSE IF n - 1 \in S THEN kick_seat_raw(kicked[n - 1], n - 1) ELSE kicked[n - 1]
  IN  kicked[MaxPlayers]

\* Every silent seat is kicked first, then the hand is decided once.
on_reveal_timeout(t) == restart_reveal(kick_all_raw(t, pending_revealers(t)))

restart_deck(k, contributed) ==
  after_timeout(k, IF contributed THEN on_complete_reconstruct(k) ELSE give_up(k))

\* The seats of S are kicked with all consequences, in ascending order.
kick_all(t, S) ==
  LET kicked[n \in 0..MaxPlayers] ==
        IF n = 0 THEN t ELSE IF n - 1 \in S THEN kick_player_internal(kicked[n - 1], n - 1) ELSE kicked[n - 1]
  IN  kicked[MaxPlayers]

on_reconstruct_timeout(t) == restart_deck(kick_all(t, t.phase.pending), t.phase.contributed)

apply_fold(t, i) ==
  LET f == [t EXCEPT !.seats[i].kind = "folded", !.acted = @ \cup {i}]
  IN  IF few_live(f, 1) THEN end_without_showdown(f) ELSE advance_turn(f)

\* The seat also takes its layer off the deck and its key out of the deck key.
\* It stays a seat of the hand: later reveals ask it like any other.
apply_fold_with_proof(t, i) == apply_fold([t EXCEPT !.contributors = @ \ {i}], i)

\* Mutant: the deadline is extended even when the time bank is used up.
on_betting_timeout_extended(t) ==
  [t EXCEPT !.seats[t.phase.turn].bank = @ - Min({@, BettingTimeout})]

\* The time bank of the seat is used before the seat is folded.
on_betting_timeout(t) ==
  LET i == t.phase.turn
  IN  IF t.seats[i].bank > 0 THEN [t EXCEPT !.seats[i].bank = @ - Min({@, BettingTimeout})]
      ELSE apply_fold(t, i)

-----------------------------------------------------------------------------
\* Normalization: steps nobody has to authorize

\* The table waits for somebody.
blocked(t) ==
  CASE t.phase.tag \in {"shuffling", "reconstructing"} -> t.phase.pending # {}
    [] in_phase(t, "revealing") -> pending_revealers(t) # {}
    [] in_phase(t, "betting") -> /\ ~few_live(t, 1)
                                 /\ t.phase.turn # NO_SEAT
                                 /\ ~is_betting_complete(t)
                                 /\ ~no_further_betting_possible(t)
    [] OTHER -> TRUE

normalize_step(t) ==
  CASE in_phase(t, "shuffling") -> advance_shuffle(t)
    [] in_phase(t, "revealing") -> check_reveal_phase_complete(t)
    [] in_phase(t, "reconstructing") -> IF t.phase.contributed THEN on_complete_reconstruct(t) ELSE failed(t)
    [] in_phase(t, "betting") -> IF few_live(t, 1) THEN end_without_showdown(t) ELSE close_round(t)

\* A step that changes nothing or leaves an invalid table is an error.
checked(t, u) == IF u = t \/ ~valid_schema(u) THEN failed(t) ELSE u

\* An invalid table, or one that never waits for anybody, is an error.
quiescent(t, u) == IF valid_schema(t) /\ blocked(u) THEN u ELSE failed(t)

advance_once(t) == IF blocked(t) THEN t ELSE checked(t, normalize_step(t))

normalize_until_blocked(t) ==
  LET after[n \in 0 .. MaxSteps - 1] == IF n = 0 THEN t ELSE advance_once(after[n - 1])
  IN  quiescent(t, after[MaxSteps - 1])

\* A handler's result is kept although the normalization fails.
kept(t, n) == IF is_error(n) THEN t ELSE n

\* A command that was accepted: its handler produced t.
dispatch(t) == table' = kept(t, normalize_until_blocked(t))

-----------------------------------------------------------------------------
\* Commands

Init ==
  table = [seats |-> [i \in Seats |-> VacantSeat], pot |-> 0, chip_pool |-> 0,
           button |-> 0, last_bb_seat |-> NO_SEAT, acted |-> {}, leave |-> {},
           phase |-> Waiting, board |-> 0, rit |-> FALSE, ledger |-> {}, shown |-> {}, hand_id |-> 0,
           contributors |-> {}]

\* Mutant: the buy-in is not added to the vault.
join_table_unfunded(buy_in) ==
  LET vacant == of_kind(table, {"vacant"})
  IN  /\ round_state(table) = WAITING
      /\ vacant # {}
      /\ table.chip_pool + buy_in <= MaxTotalBet
      /\ dispatch([table EXCEPT
           !.seats[Min(vacant)] = [VacantSeat EXCEPT !.kind = "waiting", !.stack = buy_in],
           !.acted = @ \ {Min(vacant)}, !.leave = @ \ {Min(vacant)},
           !.contributors = @ \cup {Min(vacant)}])

\* Also possible while the initial shuffle runs, whose street is still WAITING.
join_table(buy_in) ==
  LET vacant == of_kind(table, {"vacant"})
  IN  /\ round_state(table) = WAITING
      /\ vacant # {}
      /\ table.chip_pool + buy_in <= MaxTotalBet
      /\ dispatch([table EXCEPT
           !.seats[Min(vacant)] = [VacantSeat EXCEPT !.kind = "waiting", !.stack = buy_in],
           !.acted = @ \ {Min(vacant)}, !.leave = @ \ {Min(vacant)}, !.chip_pool = @ + buy_in,
           !.contributors = @ \cup {Min(vacant)}])

\* Leaves the leave_after_hand bit and a shuffle turn of the seat behind.
leave_table(i) ==
  /\ round_state(table) = WAITING
  /\ i \in occupied_seats(table)
  /\ dispatch([table EXCEPT !.seats[i] = VacantSeat, !.contributors = @ \ {i},
                            !.chip_pool = @ - table.seats[i].stack - table.seats[i].addon])

\* A new table seats everybody; later a waiting seat enters when the big blind
\* reaches it, or when there are fewer than two players.
promote_waiting_for_big_blind(t) ==
  LET waiting == of_kind(t, {"waiting"})
      due == waiting \cap (IF active_seats(t) = {} THEN waiting
                           ELSE {next_seat(occupied_seats(t), rotation_base(t))})
      entered == Cardinality(active_seats(t) \cup due)
      ahead(i) == {j \in waiting \ due : Clockwise(t.button, j) < Clockwise(t.button, i)}
      filled == {i \in waiting \ due : entered + Cardinality(ahead(i)) < 2}
  IN  [t EXCEPT !.seats = [i \in Seats |-> IF i \in due \cup filled
                                           THEN [t.seats[i] EXCEPT !.kind = "active"] ELSE t.seats[i]]]

start_hand ==
  LET p == promote_waiting_for_big_blind([table EXCEPT !.button = (@ + 1) % MaxPlayers])
      t == [p EXCEPT !.ledger = {}, !.phase = Shuffling("initial", WAITING, active_seats(p))]
  IN  /\ table.hand_id < MaxHands
      /\ round_state(table) = WAITING
      /\ Cardinality(active_seats(p)) >= 2
      /\ dispatch([t EXCEPT !.hand_id = IF is_error(normalize_until_blocked(t)) THEN @ ELSE @ + 1])

submit_shuffle_v2(i) ==
  /\ current_shuffler(table) = i
  /\ i \in occupied_seats(table)
  /\ dispatch(advance_shuffle([table EXCEPT !.phase.pending = @ \ {i}]))

\* A hole card is readable by its owner once all others opened it.
materialize_hole(t, done) == [t EXCEPT !.ledger = @ \cup done]

\* The community cards of a street are public once everybody opened them.
materialize_community(t, done) == [t EXCEPT !.board = IF done = {} THEN @ ELSE t.phase.street + 1]

\* A hole card its owner opened is public.
materialize_showdown(t, done) == [t EXCEPT !.ledger = @ \ done, !.shown = @ \cup done]

materialize(t, done) ==
  CASE t.phase.purpose = "hole" -> materialize_hole(t, done)
    [] t.phase.purpose = "board" -> materialize_community(t, done)
    [] t.phase.purpose = "owner" -> materialize_showdown(t, done)

submit_player_reveal_tokens(i) ==
  /\ in_phase(table, "revealing")
  /\ i \in occupied_seats(table) \cap pending_revealers(table)
  /\ LET assign == [a \in DOMAIN table.phase.assign |-> table.phase.assign[a] \ {i}]
         done == {a \in DOMAIN assign : assign[a] = {}}
         t == materialize([table EXCEPT !.phase.assign = [a \in DOMAIN assign \ done |-> assign[a]]], done)
     IN  /\ table.phase.purpose = "owner" => done \subseteq active_seats(table)
         /\ dispatch(check_reveal_phase_complete(t))

submit_reconstruct_deck(i) ==
  /\ in_phase(table, "reconstructing")
  /\ i \in occupied_seats(table) \cap table.phase.pending
  /\ table.contributors # {}
  /\ LET t == [table EXCEPT !.phase.pending = @ \ {i}, !.phase.contributed = TRUE]
     IN  dispatch(IF t.phase.pending = {} THEN on_complete_reconstruct(t) ELSE t)

\* By the player or forced by the creator.
fold(i) ==
  /\ current_turn(table) = i
  /\ dispatch(apply_fold(table, i))

fold_with_proof(i) ==
  /\ current_turn(table) = i
  /\ dispatch(apply_fold_with_proof(table, i))

\* Mutant: a seat that cannot pay the call pays it all the same.
match_bet_overdrawn(i) ==
  /\ current_turn(table) = i
  /\ LET s == table.seats[i]
         call == table.phase.current_bet - s.bet
     IN  dispatch(advance_turn([table EXCEPT
           !.seats[i] = IF call > 0 THEN [pay(s, call) EXCEPT !.bet = s.bet + call] ELSE @,
           !.acted = @ \cup {i}]))

\* check and call.
match_bet(i) ==
  /\ current_turn(table) = i
  /\ LET s == table.seats[i]
         call == Min({table.phase.current_bet - s.bet, s.stack})
     IN  dispatch(advance_turn([table EXCEPT
           !.seats[i] = IF call > 0 THEN [pay(s, call) EXCEPT !.bet = s.bet + call] ELSE @,
           !.acted = @ \cup {i}]))

\* Seats that may act again after a raise: only a full raise reopens betting.
reopened(t, i, total_bet) ==
  IF total_bet - t.phase.current_bet >= t.phase.min_raise THEN actionable_seats(t) \ {i} ELSE {}

\* raise and bet.
raise_to(i, total_bet) ==
  LET s == table.seats[i]
      needed == total_bet - s.bet
      raised == total_bet - table.phase.current_bet
  IN  /\ current_turn(table) = i
      /\ i \notin table.acted
      /\ raised > 0 /\ needed > 0 /\ needed <= s.stack
      /\ raised >= table.phase.min_raise \/ needed = s.stack
      /\ dispatch(advance_turn([table EXCEPT
           !.seats[i] = [pay(s, needed) EXCEPT !.bet = total_bet],
           !.acted = (@ \ reopened(table, i, total_bet)) \cup {i},
           !.phase.current_bet = total_bet,
           !.phase.min_raise = Max({@, raised})]))

addon(i, amount) ==
  /\ i \in occupied_seats(table)
  /\ table.chip_pool + amount <= MaxTotalBet
  /\ dispatch([table EXCEPT !.seats[i].addon = @ + amount, !.chip_pool = @ + amount])

rebuy(i, amount) ==
  /\ i \in occupied_seats(table)
  /\ table.chip_pool + amount <= MaxTotalBet
  /\ dispatch([table EXCEPT !.seats[i].stack = @ + amount, !.chip_pool = @ + amount])

set_leave_after_hand(i, want_leave) ==
  /\ i \in occupied_seats(table)
  /\ want_leave # (i \in table.leave)
  /\ dispatch([table EXCEPT !.leave = IF want_leave THEN @ \cup {i} ELSE @ \ {i}])

kick_player(i) == dispatch(kick_player_internal(table, i))

\* What follows when the deadline of the running phase has passed.
on_timeout(t) ==
  CASE in_phase(t, "shuffling") -> on_shuffle_timeout(t)
    [] in_phase(t, "revealing") -> on_reveal_timeout(t)
    [] in_phase(t, "reconstructing") -> on_reconstruct_timeout(t)
    [] in_phase(t, "betting") -> on_betting_timeout(t)
    [] OTHER -> failed(t)

\* The table is normalized before and after the handler.
normalized(t) == IF is_error(t) THEN t ELSE normalize_until_blocked(t)
on_deadline(t) == normalized(on_timeout(normalize_until_blocked(t)))

\* Nothing happens unless the handler and the normalizations around it succeed.
advance_deadline ==
  /\ table' = kept(table, on_deadline(table))
  /\ table' # table

\* The settlement needs five cards on the board, the hole cards of every seat
\* in the hand and a pot equal to the contributions.
settleable(t) ==
  /\ in_phase(t, "showdown")
  /\ t.board = 5
  /\ live_seats(t) \subseteq t.shown
  /\ t.pot = Totals(t)

\* Mutant: the rake stays in the vault.
settle_hand_unraked(t, boards) ==
  LET plan == derive_settlement_plan([i \in Seats |-> t.seats[i].total], of_kind(t, {"folded", "departed"}),
                                     of_kind(t, {"allin"}), t.button, boards)
  IN  reset_for_next_hand([t EXCEPT !.pot = 0,
                                    !.seats = [i \in Seats |-> [t.seats[i] EXCEPT !.stack = @ + plan.awards[i]]]])

settle_hand(t, boards) ==
  LET plan == derive_settlement_plan([i \in Seats |-> t.seats[i].total], of_kind(t, {"folded", "departed"}),
                                     of_kind(t, {"allin"}), t.button, boards)
  IN  reset_for_next_hand([t EXCEPT !.pot = 0, !.chip_pool = @ - plan.rake,
                                    !.seats = [i \in Seats |-> [t.seats[i] EXCEPT !.stack = @ + plan.awards[i]]]])

\* advance_deadline in the showdown display phase.
advance_deadline_showdown ==
  /\ valid_schema(table) /\ settleable(table)
  /\ \E boards \in (IF table.rit THEN Rankings \X Rankings ELSE {<<r>> : r \in Rankings}) :
       table' = settle_hand(table, boards)

Next ==
  \/ \E buy_in \in BuyIns : join_table(buy_in)
  \/ \E i \in Seats : leave_table(i)
  \/ start_hand
  \/ \E i \in Seats : submit_shuffle_v2(i)
  \/ \E i \in Seats : submit_player_reveal_tokens(i)
  \/ \E i \in Seats : submit_reconstruct_deck(i)
  \/ \E i \in Seats : fold(i)
  \/ \E i \in Seats : fold_with_proof(i)
  \/ \E i \in Seats : match_bet(i)
  \/ \E i \in Seats, total_bet \in 1..MaxTotalBet : raise_to(i, total_bet)
  \/ \E i \in Seats, amount \in FundAmounts : addon(i, amount)
  \/ \E i \in Seats, amount \in FundAmounts : rebuy(i, amount)
  \/ \E i \in Leavers, want_leave \in BOOLEAN : set_leave_after_hand(i, want_leave)
  \/ \E i \in Kickable : kick_player(i)
  \/ advance_deadline
  \/ advance_deadline_showdown

\* Anyone may call advance_deadline, so a deadline is not ignored forever:
\* weak fairness of both actions, with their enabling conditions spelled out.
Fairness ==
  /\ []<>(kept(table, on_deadline(table)) = table) \/ []<><<advance_deadline>>_table
  /\ []<>~(valid_schema(table) /\ settleable(table)) \/ []<><<advance_deadline_showdown>>_table

Spec == Init /\ [][Next]_table
FairSpec == Spec /\ Fairness

-----------------------------------------------------------------------------
\* Chips the table owes somebody: stacks, pending addons, the pot and the bets.
accounted(t) == Stacks(t) + Addons(t) + t.pot + Bets(t)
slack(t) == t.chip_pool - accounted(t)

PhaseTags == {"waiting", "shuffling", "revealing", "reconstructing", "betting", "showdown"}

TypeOK ==
  /\ \A i \in Seats : LET s == table.seats[i] IN
       /\ s.kind \in {"vacant", "waiting", "active", "folded", "allin", "departed"}
       /\ {s.stack, s.bet, s.total, s.addon} \subseteq Nat /\ s.bank \in 0..TimeBank
  /\ {table.pot, table.board, table.hand_id} \subseteq Nat
  /\ table.chip_pool \in 0..MaxTotalBet
  /\ table.button \in Seats /\ table.last_bb_seat \in Seats \cup {NO_SEAT}
  /\ table.acted \cup table.leave \cup table.ledger \cup table.shown \cup table.contributors \subseteq Seats
  /\ table.rit \in BOOLEAN
  /\ table.phase.tag \in PhaseTags

\* During a hand the pot and the bets on the table are exactly what the seats
\* put into the hand, whoever folded, was kicked or went all-in: the equation
\* validate_and_derive requires before it settles (else the hand is stuck).
WagerLedger == table.pot + Bets(table) = Totals(table)

\* The vault covers every chip the table shows.
CustodyCovered == accounted(table) <= table.chip_pool

\* Whoever has the turn can act and still owes a decision.
TurnOwesDecision ==
  LET i == current_turn(table)
  IN  in_phase(table, "betting") =>
        /\ i \in actionable_seats(table)
        /\ i \notin table.acted \/ table.seats[i].bet < table.phase.current_bet

\* No street is dealt and no hand is shown before the betting is settled: the
\* seats that still have chips put in the same amount, and no all-in more (a
\* big blind ante, which only one seat pays, aside).
BettingClosedProperly ==
  (/\ in_phase(table, "revealing") /\ table.phase.purpose # "hole"
   \/ in_phase(table, "showdown")) =>
     \A i \in actionable_seats(table), j \in live_seats(table) :
       table.seats[j].total <= table.seats[i].total + (IF AnteMode = "bba" THEN AnteAmount ELSE 0)

\* Once a second board is dealt nobody bets any more.
RitNoMoreBetting == table.rit => ~in_phase(table, "betting")

\* The table only waits for seats that were dealt in and are still at the table,
\* folded ones included, and the deck key holds keys of seats still at the table
\* only.  (What the comments promise a folded seat is FoldEndsRevealDuty below.)
WaitsForParticipants ==
  /\ table.contributors \subseteq occupied_seats(table)
  /\ in_phase(table, "revealing") => pending_revealers(table) \subseteq active_seats(table)
  /\ in_phase(table, "reconstructing") => table.phase.pending \subseteq active_seats(table)
  /\ in_phase(table, "shuffling") /\ table.phase.purpose = "reconstruct" =>
        table.phase.pending \subseteq active_seats(table)

\* Joining, leaving, funding, betting, folding and being kicked between hands
\* or in a betting round move chips without losing or making any: what the
\* vault holds beyond the chips on the table does not change.
CustodyKept ==
  [][table.phase.tag \in {"waiting", "betting"} => slack(table') = slack(table)]_table

\* A showdown that pays anybody pays the whole pot, to the seats and the rake
\* (a kick that leaves too few seats clears the pot and pays nobody).
SettlementPaysOut ==
  [][/\ in_phase(table, "showdown")
     /\ \E i \in Seats : table'.seats[i].stack > table.seats[i].stack + table.seats[i].addon
     => slack(table') = slack(table)]_table

\* Once the blinds are posted the hand comes to an end, whoever goes silent in
\* whatever phase (the deadlines of advance_deadline_in_place).
HandEnds == in_phase(table, "betting") ~> in_phase(table, "waiting")

\* state_machine.rs:284, "the actual locked value is represented exactly once
\* by seat stacks, pending addons, current-round bets and the collected pot".
\* Refuted: refund_all_bets skips kicked seats, and the pot is cleared.
CustodyExact == slack(table) = 0

\* state_machine.rs:1061, a reconstruction keeps the hole cards that are already
\* readable, so a hand on display can be settled.  Refuted: a timeout in the
\* reshuffle after it clears them (set_initial_encrypted_deck).
ShowdownSettleable == in_phase(table, "showdown") => settleable(table)

\* Folded seats whose key is not in the deck key: those that folded with a proof
\* (and those a reset forgot, see DeckKeyOfShufflers).
folded_with_proof(t) == of_kind(t, {"folded"}) \ t.contributors

\* state_machine.rs:2270 and :2280, after a fold with a proof later reveals do not
\* need the seat and do not punish it.  Refuted: start_community_reveal_phase asks
\* every seat that was dealt in.
FoldEndsRevealDuty ==
  in_phase(table, "revealing") => pending_revealers(table) \cap folded_with_proof(table) = {}

\* state_machine.rs:1264, the showdown reveal asks the seats that did not fold.
\* Refuted: start_showdown_reveal_phase asks every seat that was dealt in.
FoldedDoNotShow ==
  in_phase(table, "revealing") /\ table.phase.purpose = "owner" =>
    pending_revealers(table) \subseteq live_seats(table)

\* types.rs:2045, the contributors are the seats whose key is still a layer of the
\* deck, which are the seats that shuffled it.  Refuted: join_table adds a seat that
\* waits for the big blind, and a reset that keeps only waiting seats forgets all.
DeckKeyOfShufflers ==
  in_phase(table, "revealing") /\ table.phase.purpose = "hole" =>
    table.contributors = active_seats(table)

\* runtime/dispatch.rs:91, advance_deadline is the permissionless timeout entry:
\* a hand in progress can always be moved on by it.  Refuted: the creator kicks
\* the last seat that owes a reveal, or a seat leaves during the first shuffle.
DeadlineAccepted ==
  table.phase.tag \notin {"waiting", "showdown"} => ~is_error(on_deadline(table))
=============================================================================
