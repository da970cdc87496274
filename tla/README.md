# A verification project for poker_texas_air

TLA+ modules, TLC configurations and TLAPS proofs for the part of the
repository that keeps the players' chips: the Texas hold'em table of the VM
library (`poker_l1`) and its command inbox, the settlement of a showdown, the
host's pipeline that carries a hand to the chain, the bridge to the appchain,
the payout sidecar, and the Cairo contracts that hold the chips and apply the
results (`poker_contracts`). All paths are
relative to the repository root; `PROJECT.json` maps every definition to the
lines it models.

## 1. The system

A hand is played on a *table* run by a deterministic VM. Cards are encrypted by
all seats together: each seat shuffles, and a card is opened when every seat
(or every other seat) has contributed a token. The host (`texas/`) feeds player
commands to the VM, proves the run, and settles the result on Starknet, where a
*vault* holds the chips and a *settlement contract* applies the deltas of a
verified hand.

| component | state | operations | talks to |
|---|---|---|---|
| chip vault (`poker_vault.cairo`) | balances, locks, session clocks, payout commitments, roles, pause | deposit, withdraw, burn, lock, refresh, unlock, settlement entry, escrow funding, owner configuration | STRK token, settlement contract, anonymizers |
| dual settlement (`poker_dual_settlement.cairo`) | registered results, settled bindings, facts, claims, provers, program hashes | register, five settlement entries, fact registration, claim consumption, configuration | vault, claim helper |
| anonymizers (`poker_vault_anonymizer.cairo`, `settlement_payout_anonymizer.cairo`) | escrowed STRK | private buy-in, unshield, private claim | privacy pool (external), vault, settlement contract |
| VM table (`core/state_machine.rs`, `core/types.rs`, `core/betting.rs`, `runtime/dispatch.rs`) | seats, pot, chip pool, board, phase, masks of pending contributors | join, leave, start, shuffle, reveal, reconstruct, betting, funding, leave reservation, kick, deadlines | side pots, settlement plan |
| side pots and settlement plan (`core/side_pot.rs`, `core/settlement.rs`) | none | layers, rake, split over boards, winners, odd chips | the table |
| table runtime (`runtime/table_runtime.rs`, `runtime/pending.rs`) | nonce watermarks, held reveal tokens | signed submission, flush | dispatch |
| host: lock and release (`texas/src/starknet/lock.rs`) | pending releases, failed hands | schedule, flush, abort | settlement pipeline, vault |
| host: settlement pipeline (`hooks.rs`, `submit.rs`, `dual_settle.rs`, ...) | pending snapshot, settled marks, receipts | queue, attempt, retry, drop, refuse | game loop, lock and release, contracts |
| game server (`game_loop.rs`, `handlers.rs`) | seats, hand, phase, the loop | sit, leave, kick, start, abort, end, clean up | settlement pipeline |
| appchain bridge (`texas/src/starknet/appchain/bridge.rs`) | deposit cursor, pay attempts, paid total | mint deposits, pay withdrawals, reconcile | sequencer and custody book (external), chain |
| payout sidecar (`payout-sidecar/src/queue.mjs`) | queue of payouts, timers | enqueue, deliver, retry | privacy pool |
| client, AIR proving, on-chain verifiers | see section 8 | | |

What is hard here:

* *Ordering on chain.* Anyone may register, settle, claim, withdraw or unlock in
  any order, several entries settle the same hand, configuration changes in
  between, and each transaction reverts as a whole.
* *Silence at the table.* A seat may stop answering in every phase. Deadlines,
  time banks, kicks, deck reconstruction and reshuffles then act on state that
  was set up for more players.
* *Cascades.* One command may close a round, open a street, run out the board,
  end the hand and reset the table, in one normalization.
* *Money arithmetic.* Side pots, rake caps, odd chips, two boards, antes and
  addons must conserve chips.
* *Retries.* Lost answers, restarts and bounded retries in the host, the bridge
  and the sidecar, where "refused" may mean "done and not reported".
* *Tasks.* The loop, the socket handlers and the spawned settlement and release
  tasks share maps and interleave at every await.
* *Delivery.* Signed commands come late, twice and out of order.

What makes each part correct: the vault always backs its chips and lets players
out; a hand is settled once and pays what was registered; the table never waits
for somebody who owes nothing, ends every hand, and neither creates nor loses
chips; the plan pays out exactly the pot to those who contested it; the host
submits a hand once at a time and frees a leaver's lock only when the leaver's
last hand cannot debit it any more; a command takes effect in nonce order and
once; bridge and sidecar pay a bounded number of times and get done.

## 2. Modules

| module | models | notes |
|---|---|---|
| `PokerVault` | the vault, the vault anonymizer, the block clock | one action per entry point; an assert is a guard |
| `PokerDualSettlement` | the settlement contract composed with the vault (EXTENDS) | results stand for the digests that commit to them; proofs are valid or absent |
| `PayoutAnonymizer` | the claim helper that pays through the privacy pool | refines who may consume a claim in `PokerDualSettlement` |
| `ChipLedger` | what vault, settlement contract and escrows promise the players | abstract specification, implemented by `PokerDualSettlement` |
| `FiniteSums` | facts about sums and ranks over finite sets | TLAPS; used by the other proofs |
| `PokerDualSettlementProofs` | theorems about the two contracts, the refinement of the ledger included | TLAPS |
| `SidePots` | `side_pot.rs` and the plan of `settlement.rs` as operators | no state, used by the next two |
| `SettlementPlan` | every bounded showdown, settled | compares the operators with a chip-by-chip reference |
| `SettlementPlanProofs` | theorems about the layers, the rake and the awards | TLAPS |
| `TexasTable` | the table: commands, normalization, timeouts, settlement | settles with `SidePots` |
| `TexasTableProofs` | theorems about the table, its chips and its hands | TLAPS |
| `HostSettlement` | `hooks.rs`, `lock.rs` and the parts of `game_loop.rs`, `handlers.rs` and `table.rs` that feed them | composes game loop, settlement tasks, release tasks and an abstract contract |
| `HostSettlementProofs` | theorems about the pipeline | TLAPS |
| `TableRuntime` | `table_runtime.rs`, `pending.rs` | over a table cut down to its reveal windows |
| `CommandInbox` | what the runtime promises | abstract specification, implemented by `TableRuntime` |
| `TableRuntimeProofs` | the refinement, proved | TLAPS |
| `AppchainBridge` | `appchain/bridge.rs` with both providers | sequencer and custody book external |
| `AppchainBridgeProofs` | theorems about the bridge | TLAPS |
| `PayoutQueue` | `queue.mjs` | the delivery SDK external |
| `PayoutQueueProofs` | theorems about the sidecar | TLAPS |
| `MC...` | instances for TLC | rankings, results, players |

### The contracts

`chip_balances`, `locked`, `session_*`, `payout_commitments`, `digest`,
`settled_bindings`, `claim_*`, ... are the storage variables of the same name.
`wallet`, `vault_tokens`, `pool_tokens` and `escrow_tokens` stand for the STRK
token and are external. A transaction is one step: the nested calls of a
settlement (one `apply_settlement` per player, the escrow funding) happen
together or not at all, as on Starknet. A digest or a commitment is represented
by what it commits to (a hash without collisions); a *segment* is the record of the fields the
contract reads from it.

Two gates let a segment through. The fact registry (v2, the proved entry, v3's fallback)
knows segments a prover or the owner registered, and `register_settlement_fact`
accepts any felt: that they register only facts of proofs that exist, so that `Segment(h)` is what the
private settlement circuit outputs for the registered result, is an assumption of the
model. v3's other gate takes a SNIP-36 proof, and that one shows only that
`emit_settlement_proof_message` ran: anybody may call it, and the
`validate_settlement_segment` it runs compares hand, digest and action log but
neither the total nor the commitments. `MessageSegments(h)` is therefore every segment with
the registered hand and digest, any commitments and any total the vault can
pay, the circuit's own among them; `via_snip36` keeps the gate a hand came through (the event
`DualProofSettledSnip36`), and what is said of the content of a segment says it of
the other hands only.

`ChipLedger` knows balances, open claims per hand, the tokens held, the results and
the closed hands, and none of the entries, helpers, facts and locks. The mapping
sends `digest` to `result`, the settled bindings to `closed`, stored claims that are not
consumed to `owed`, and the vault's and all escrows' tokens together to `custody`.
Deposits of all three kinds are `BuyIn`, `withdraw` and `withdraw_to` are `CashOut`,
`burn_chips` is `Burn`; the linear entry is `Transfer`, the plain private
one `Promise`, and the three segment entries `Conceal`: they close the hand and move
no chips, their claims are no claims of the ledger. That is what the code does;
section 6 (`anchored_one_to_one`, `hidden_claims`) has what it contradicts.

### The table

`table` is one record: `seats` (kind, stack, bet, total, addon, time bank),
`pot`, `chip_pool`, `button`, `last_bb_seat`, `acted`, `leave`, `board` (number
of community cards), `contributors` (the `contributor_mask`: seats whose keys make up
the deck key), `ledger` (owners whose hole cards are readable to them),
`shown` (public hole cards), `rit` (two boards) and `phase`, the tagged union
`HandPhase`. Operators on tables keep the names of the Rust functions:
`advance_turn(t)` is the table after `advance_turn`.

Every command is `dispatch(handler(table))`: the handler's table is normalized
until it waits for somebody (`normalize_until_blocked`, a recursion of at most
`MaxSteps` steps; the code's limit is 32; 4, 8 and 12 give `table_hand` the same
states). A refused command leaves the table alone. A normalization that fails
leaves what the handler wrote, as `dispatch` does (`kept`). `advance_deadline`
needs both its normalizations to succeed. *When* a deadline passes is left
open: the model lets it pass at any moment, which covers every clock.

Abstractions: a submission is valid (signatures and proofs are checked before
the state changes, and a refused one changes nothing); cards have no values, a
showdown draws a ranking of the seats for each board; a ciphertext is the set of
seats that still owe a contribution. Cards that fail to decode (after a kick, or
when a layer that `fold_with_proof` removed is removed again by the seat's token) make the code
refuse the submission, in the model such a submission does not come. `fold` and
`fold_with_proof` are two actions: the second also takes the seat's key out of the
deck key, and neither takes the seat out of the masks of later reveals.

### The host

`HostSettlement` follows one table. Each action is one stretch of code between
two awaits. `pending` is the table's slot of `PENDING_SETTLE`, `settleOk` is
`SETTLE_OK`, `failed` is `failed_hands`, `releases` is
`pending_leave_releases`. `task[h]` says where the settlement task spawned for
hand `h` stands, `attempt[h]` which legacy attempt is on its way, `leaving` and
`freeing` are the spawned release tasks. `mode` is the configuration: no chain,
the appchain exit, the legacy contract, and the dual contract driven linearly,
with a proof or through SNIP-36. A send is accepted or refused and, apart from that,
takes effect or not. The contract is abstract: `registered` and `settled`; the legacy one registers
hands in ascending order (`CanRegister`).
What the calldata says, the comparison with the VM mirror and the proofs are
verdicts that may go either way.

### The inbox

`TableRuntime`'s `nonces`, `entries`, `dead` and `deadDropped` are the fields of
the runtime and its queue; `flushing` is the position of the loop in
`flush_pending`, which cannot be interrupted, and is spread over several steps
so that each is one step of `CommandInbox`. The refinement mapping
sends the entries to their commands (`Waiting`) and the history of applied
commands to `log`. The network brings anything a player may have signed, late,
again, out of order, and two commands with one nonce.

### The bridge and the sidecar

`AppchainBridge`: `pc` and `todo` are the loop of `process_deposits_once` and
`process_withdrawals_once`, `audit` is `reconcile_once`, which runs beside it and
reads its three numbers at different times. `minted`, `live`, `issued` survive
`Restart` (they are in the sequencer's write-ahead log), nothing else of the
process does. Amounts are one unit: the code compares totals only. The custody
book lists the withdrawals in an order of its own, so `ListWithdrawals` takes any.
A Starknet payment counts when it is sent, whatever becomes of the transaction.

`PayoutQueue`: `pending` is the map of `queue.mjs`, `timers` its `setTimeout`s,
`calls` the deliveries it awaits. Delays are left open.

## 3. Runs

| run | instance | shows |
|---|---|---|
| `settlement_linear` | 2 players, 1 hand, 3 possible results (one not zero-sum), 2 escrows | linear and private settlement interleaved with deposits, exits, locks, claims and claim-helper replacement: the contracts implement `ChipLedger` (refinement), chips are counted, escrows cover claims, locks are respected |
| `vault_locks` | 2 players, clock 1..3, TTL 0 or 1, fairness | locks, deadlines, pause and disconnection: locked chips come free without the operator |
| `settlement_segment` | 2 hands (symmetric), one program hash per program, messages with any total and commitments | the three segment entries, their facts and v3's SNIP-36 gate beside the other two: claims of hands that did not come through that gate match their results, finality, the shortfall is bounded by the hidden payouts while no hand came through it, and vault and escrow together cover chips and open claims in every case |
| `settlement_plan` | all showdowns of 3 seats, contributions 0,1,2,3,5, one or two boards, every weak order of hands | conservation, layers equal to the reference, no all-in wins more than it matched, uncalled bets return, rake within rate and cap |
| `table_hand` | 3 seats, buy-ins 3 and 5, blinds 1/2, two hands, run it twice, the creator may kick seat 1 | betting, turn, collection and protocol phases under silence, all-ins and folds |
| `table_custody` | 2 seats, big blind ante, addons, rebuys, reserved leave, kicks in any phase, time bank, fairness | custody and the end of every hand |
| `host_settlement` | 2 wallets, 2 hands, 2 seatings, 3 attempts, all six modes, fairness | one submission of a hand at a time, no hand settles after its leavers were freed, redelivery ends |
| `table_runtime` | 2 accounts, two streets, queue of 2, 2 holds, 1 dead letter, 2 nonces, 3 deliveries, 2 hands, fairness | the runtime implements `CommandInbox` (refinement), and the queue empties when no more commands come |
| `appchain_bridge` | 3 deposits, one without amount, 2 pay attempts, 2 events, 1 restart, both providers, fairness | payments bounded, marked payments final, a quiet report balances, reported deposits are minted |
| `payout_queue` | 2 payouts, 3 retries, 3 requests each, 1 restart, fairness | one attempt at a time, transfers bounded, every entry resolves |
| `claim_secret`, `vault_deposits` | small instances of the above | each refutes one sentence of the repository, section 6 |

Bounds. Two players are enough for the contracts: properties speak of one
player, or of a transfer between two. A purse of 1 or 2 makes locks, losses and
exits collide; amounts 1 and 2 give a partial and a full exit. One hand is
enough for replays across entries, two for facts of one hand used for another. The hands of
`settlement_segment` differ in nothing but their names, so they are symmetric (safety only).
`settlement_linear` takes every step of the ledger but `Burn`, which needs a helper,
and `Conceal`, which needs a program hash; `chip_ledger.cfg` (`MCDualSettlement`, purse 1, one hash, no
locks, 468,720 states) is kept to run by hand and checks `ImplementsLedger` and
`CustodyCovers` with all five entries. One hand is enough there, since the steps of two
hands only meet in the balances and in sums, and the proof is for any number.
The plan uses 3 seats because two all-ins below a third give three layers, with
folded excess above all of them (5 after 3); 25 % with a cap of 2 reaches both
the rate and the cap. The table uses 3 seats so that a fold, an all-in and a
live seat coexist and a hand survives a kick; stacks 3 and 5 over a big blind of
2 give a short all-in and a full raise. `MaxHands` is 2 so that button, blinds,
time bank and leftovers of the first hand reach the second. `MaxTotalBet` caps
the chips at a table as the code's constant does. Only the positions of the
seats, not their names, matter, but button and blinds break the symmetry, so no
symmetry set is declared.

In the host two hands are enough for an older task to meet a newer hand's slot
and the two wallets for a leaver beside a player; with 3 attempts (8 in the
code) a hand is tried, retried, and dropped. Two nonces and three deliveries let a
command arrive again after a later one; a queue of 2 fills, two holds exhaust
an entry and one dead letter fills that list; with two streets a token comes
before its window and is replayed when it opens. In the bridge two events make a
page in which the first fails or is reported twice, and 2 attempts (5 in the
code) separate a retry from the limit. One restart shows what is
forgotten and what survives.

Deadlock is checked in `settlement_linear` and `settlement_segment`. In
`vault_locks` the bounded clock stops, in the table runs the bound on hands
stops the table in `Waiting`, a settled plan is final, and the host, the
inbox, the bridge and the sidecar rest when the bounds on hands, deliveries,
events and requests are used up: there `CHECK_DEADLOCK FALSE`.

## 4. Fairness

* `vault_locks`: blocks keep coming (`ClockStep`) and a player who may call
  `unlock_after_deadline` eventually does; the call is permissionless. Nothing
  is assumed of the operator, who may stop, pause or disconnect.
* `table_custody`: `advance_deadline` is "the canonical permissionless timeout
  entry" (`runtime/dispatch.rs:91`) and the host drives it as well
  (`vm_session.rs:460`), so a deadline that stays due is eventually taken. No player is
  assumed to act. The condition is weak fairness of the two deadline actions,
  written with their enabling conditions spelled out, which TLC evaluates faster.

* `host_settlement`: spawned tasks run to their end (the runtime polls each task
  that is ready and every send has a time limit), a loop that runs keeps ticking
  (`TickRetry`), and the timers of its phases end a hand nobody plays on. Nothing is
  assumed of players, of the chain's verdicts, or of a loop that has stopped;
  `RedeliveryEnds` therefore speaks of tables whose loop runs and which have a seated player.
* `table_runtime`: the host flushes on every turn of its loop, a flush runs to its end.
* `appchain_bridge`: the ticker fires for ever; a mint that is tried again and
  again is accepted in the end (strong fairness of `MintDeposit`). Without the
  second, a sequencer that refuses for ever would starve every deposit.
* `payout_queue`: timers fire, and `deliver` returns or throws.

## 5. Proofs

The theorems hold for every value of the constants. They rest on the assumptions
the modules name, which TLC evaluates in every run: `VaultAssumption` and
`DualAssumption` (types; finitely many players, escrows and hands),
`HostAssumption`, `BridgeAssumption` (finitely many deposits and requests),
`QueueAssumption`, `RuntimeAssumption`, `StreetsAssumption`, `SidePotsAssumption`,
`PlanAssumption` and `TableAssumption` (types and ranges of the parameters), and
`BuyInAssumption`: nobody sits down without chips. The last is the only one that
is not a matter of types. `join_table` does not check it, the game layer does
(`texas/src/socket/handlers.rs:173` and `:188`); without it a seat with an empty
stack is dealt in, its call moves no chips and does not make it all-in, and the
round it owes in never closes. Only `RitNeverBets`, `TurnOwes`, `BettingIsClosed`
and `CustodyIsKept` use it.

### Sums and ranks

`FiniteSums` has what the other proofs need of `SumFunction`: how a sum changes
with one summand (`SumFunctionUpdate`), that it is additive, monotone and may be
taken by rows or by columns (`SumFunctionPlus`, `SumFunctionMonotone`,
`SumFunctionSwap`), that a characteristic function sums to the size of its set
(`SumFunctionIndicator`), and that among `n` distinct numbers exactly `k` have rank
below `k` (`Ranks`, `FirstRanks`). The induction schemata of the library take an
operator as a parameter, which the provers cannot instantiate; the lemmas argue with
the smallest counterexample instead: the set of sizes at which the statement fails has a
least element, and the set of that size less one member already contradicts it.

### The contracts

`PokerDualSettlementProofs`, for any players, hands, escrows, results and bounds:

* `TypeCorrect`: balances, locks, escrows and totals stay natural numbers. One
  lemma per group of actions.
* `Backing`: `vault_tokens >= total_chips` until a hand is settled from a
  segment. The difference never shrinks: vault steps move both sides
  (`VaultStepBacking`), a settlement moves as much STRK as chips
  (`CalldataSettlementBacking`), which is where `assert_zero_sum` is needed. No run lists
  `ChipsBacked`: `ShortfallIsHiddenPayout` implies it, with no hidden hand
  (a hand that came through the SNIP-36 gate is hidden too).
* `LockSessions`, `ExitsRespectLocks`, `LocksGoToLosses`: locks have a clock, no
  exit reaches into a lock, and a lock shrinks only with its owner's loss or
  with the session. Each step is a vault step, a settlement or harmless
  (`NextCases`), and settlements treat locks alike (`SettlesEffect`).
* `Finality`: first registration wins; a settled hand and a consumed claim stay.
* `ClaimsFaithful`: claims equal the registered result; the commitments of a hand that
  v3 settled on a SNIP-36 message are excepted, since nothing in the code ties them to it
  (`snip36_segment`, section 6). `ClaimsMatchResult` alone
  is not inductive: the segment entries publish claims from facts registered
  earlier. The inductive invariant `ClaimInv` adds `FactsMatchResult`: a
  registered fact speaks of the result its hand has now, which survives because
  results are never replaced.
* `TotalCorrect`: `total_chips` is the sum of the balances. `VaultStepMoves`
  says which balances a step moves and by how much in all.
* `TransfersNeedSettlement`: chips pass between players only in a transaction that
  marks a hand settled (`OnlySettlementTransfers`; the steps of `ChipLedger` say so too).
* `ShortfallBounded`: as long as no hand came through the SNIP-36 gate, what the vault lacks is at
  most what hidden hands paid out. `HiddenInv`: a hidden hand is registered and settled, and a segment
  fact asks for the credits of its result; a settlement from a fact then adds the same to both sides
  (`SegmentPaysHidden`). A message may ask for any total; what holds then as well is `CustodyCoversAll`.
* `EscrowSolvent`: an escrow holds the STRK of all open claims on it. It is
  inductive once claims are summed per hand (`OpenTotals`): a private settlement funds what it opens, a
  claim takes what it closes, nothing else touches either.
* `ContractsImplementLedger`: `Spec => ImplementsLedger`. One lemma per kind of
  transaction says which step of the ledger it is (`CreditIsBuyIn`, `DebitIsExit`,
  `LinearIsTransfer`, `PrivateIsPromise`, `SegmentIsConceal`, `ClaimIsCollect`,
  `RegistrationIsRecord`); the rest is `Unnoticed`. The mapping needs two invariants: the types, and
  `ClaimsMatchResult`, since a promise replaces what the ledger owes for the hand and that must be
  nothing before. `LedgerSum` is there because the instance of `ChipLedger` has its own
  copy of `SumFunction`.
* `CustodyCoversAll`: vault and escrows together hold a token for each chip and each open claim,
  without the exception that `Backing` makes for segment hands: what the vault lacks after
  one is in an escrow. A withdrawal may still find the vault itself short. The proof
  (`LedgerCovers`) looks at steps of the ledger only: it is what the refinement is good for.

### The settlement plan

`SettlementPlanProofs`, for any number of seats, contributions, rankings, rake and
one or two boards:

* `PlanConserved`: awards and rake are exactly what was put in.
* `RakeWithinBounds`: the rake of all layers together stays within cap and rate.
* `AllInWinsItsMatch`: no seat wins more than it matched of every other seat,
  plus what is left above every live seat.
* `UncalledReturned`: a bet nobody matched goes back in full and without rake.
* `PotsAreReference`: the pots are exactly the groups of chips that the same
  seats compete for, each once.

`Planned` says that a computed plan is the plan of its showdown; the rest is
about the operators. `LevelsAscend` and `Slices` say what the levels are and what
a level takes of each seat, `RecordLayer` and `SidePotsHold` what one level adds to the
layers and that in the end they hold everything, merged layers and the one
nobody is eligible for included; `UncalledLayer` and `ShareBound` bound what one seat can reach.
`RakeIs` follows the running cap by a telescoping sum. `SplitIs` needs `FirstRanks` to hand
out the odd chips, and `PlanIs`, `PlanPays`, `WinsAtMost` and `LeadReturned` put the pieces together.
What `FoldSeq` and the recursive functions compute is stated through their
sequence of intermediate results (`RecordsExist`, `TakesExist`).

`PotsAreReference` compares a recursion over levels with a set counted chip by chip.
Both get a closed form. When betting was closed every layer holds something and
only the last may have nobody to win it (`ClosedLayers`), so the recursion
appends each layer (`OneByOne`) except that the last may be added to the one
below: `PotsCut` states the result as a sequence of cuts with one pot between two of
them. On the other side the contenders of a chip are the seats of the pot its height lies
in (`ContendersAre`), pots differ because a seat is all-in at every cut but the last
(`PotsDiffer`), and the chips between two heights are as many as what was put in
between them (`ChipsCount`).

### The table

`TexasTableProofs`, for any number of seats, stakes, ante mode, time bank, rankings and limits:

* `TableTypeCorrect`, `WagersAreRecorded`, `CustodyIsCovered`,
  `OnlyParticipantsAwaited`: types; pot and bets are what the seats put in;
  the table never owes more than its vault holds, however a hand ends; only seats that
  were dealt in and are still there are waited for, folded ones included, and no other key is in the deck key
  than that of a seat at the table.
* `ShowdownPays`: a step from the showdown that pays anybody pays the whole pot,
  to the seats and the rake.
* `RitNeverBets`, `TurnOwes`, `BettingIsClosed`: after running it twice nobody
  bets; the seat whose turn it is owes a decision; cards are dealt only when all bets are matched.
* `CustodyIsKept`: a step between hands or from a betting round neither adds to
  nor takes from the chips nobody owns.

A command is a composition of operators on tables, so the inductive invariants
are predicates of a table, and there is one lemma per operator, named after it.
`AtRest` is the conjunction of types, `Ledger`, `Covered`, `Capped`, `Vacated` (an
empty seat has no chips and no key in the deck key), `Quiet` (no bets where none can be) and
`Owed` (who may be waited for). Inside a normalization a table may be an error;
`dispatch` then keeps what the handler wrote, so the lemmas allow error tables and say
what they keep (`KeptAtRest`). Kicks and `normalize_until_blocked` recurse:
`IteratesExist` and `StepByStep` turn the recursion into a sequence of tables, `KickAllIn`
and `NormalizeIn` carry any set of tables through it. A settlement is
`SettlementPlanProofs` with `SidePots` of the table (`PlanOf`, `PaidIs`).

The hand itself needs more, `Steady`. `Fresh` says that nobody folded or went
all-in before the blinds, `Solvent` that a seat that may act has chips,
`Twice` that two boards leave at most one seat able to act, `Closed` that bets are
level when cards are dealt, `Contested` and `Played` that a hand that goes on has
two live seats and a turn. `Round` is the turn argument: in a betting round every
seat that owes a decision comes, clockwise from the turn, before the seats that owe
none (`InLine`), so `advance_turn` skips nobody and the round is over when it comes to one that owes none.
None of this holds at every line of the code: while several seats are kicked
only `Loose` does, during a normalization `Regular`, and `Steady` again once the table is blocked.

For `CustodyIsKept`, `Surplus` is what the vault holds beyond what the table
owes. `Calm` tables change it in no operator (`NormalizeExact`, `FoldExact`, `KickExact`), and `Keeps`
says that of each command. `Settled` records that a table
between commands is blocked, or fails to normalize, so that the normalization a command begins with
adds nothing.

### The host

`HostSettlementProofs`, for any wallets, hands, seatings and attempts:

* `HostTypeCorrect`, `OneSubmission` (`OneSubmissionAtATime`): from `HostInv`, that is
  `TypeOK`, `ControlInv` (hand in play, proof log and mirror belong together, and no
  task runs for a hand that is still played) and `QueueInv` (a hand is queued, in
  flight or accepted, never two of these).
* `FreedLeavers` (`FreedLeaversOweNothing`): from `FreedInv`. `MaySettle(h)` says that
  something is still under way that could settle `h`, `Closed(h)` that nothing is
  or that the hand was refused; a wallet is freed on account of closed hands only, and a closed
  hand is never opened again (`ClosedStep`).

### The inbox

`TableRuntimeProofs` proves `RuntimeImplementsInbox`, that is `Spec =>
ImplementsInbox`, for any accounts, streets, capacities and bounds. The mapping
alone is not enough: that a command is new to the inbox follows from the
watermark only because of `Watermark`, the invariant that no account has a command in the
log above its watermark. `QueueInv` bounds the queue. One lemma per
action says which step of the inbox it is: a submission is `Apply`, `Wait` or
nothing, a flushed entry `Replay`, `GiveUp` or nothing, the reset `HandOver`.
The lemmas before them say that taking the commands of a queue commutes with
`Append` and `RemoveAt`. `RuntimeTypeCorrect` has the types and the limits of queue, holds and dead
letters.

### The bridge and the sidecar

`AppchainBridgeProofs`, for any deposits, requests, attempts and restarts:
`BridgeTypeCorrect`, `PaymentsAreBounded`, `MarkedFinal` and `QuietReport`.
`BridgeInv` adds to the types `LoopInv` (the loop still has to do events it
read and queued requests, each once), `PaidInv` (a queued request was never paid more
often than it was tried, and no request more often than the limit, also across restarts), `BookInv`
(what the books sum to) and `AuditInv`: the three numbers of a report were read
at three times, and each lies between what the book held when the audit began
and what it holds now; if nothing happened in between they agree.

`PayoutQueueProofs` proves, for any payouts and bounds, `QueueTypeCorrect`,
`OneAttempt` (`OneAttemptPending`) and `BoundedTransfers` (`TransfersBounded`). The
bound on transfers is not inductive by itself: `TransferInv` counts what each
accepted request has left: the transfers made so far plus the attempts the current
entry may still make stay within `MaxRetries` per accepted request, and it
needs `OneAttemptPending`, since two attempts at once would spend the same allowance twice.

### Only model-checked

* Liveness: `SelfUnlock`, `HandEnds`, `RedeliveryEnds`, `HeldNotForever`,
  `DepositsMinted`, `EntriesResolve`. The provers have neither fairness nor ENABLED.
* The claim helper (`PayoutAnonymizer`), which is a run about one call, and whatever a run refutes (section 6).

## 6. What the runs refute

Two runs refute a sentence of the repository, and `PROJECT.json` quotes both:

* `claim_secret`: `privacy_claim` compares the hash of the secret with the hash of
  commitment and note, never with the registered payout commitment.
* `vault_deposits`: the Starknet provider looks up the members of an event's data,
  a JSON array, by string key; every event is passed over and no deposit into
  the vault is minted.

Others are kept as configurations to run by hand (`tlc -config X.cfg <module>`);
each finds its property violated.

* `locked_within_balance` (`MCDualSettlement`): `lock` checks each amount alone and
  accumulates, so a lock can exceed the balance it is said to be part of.
* `anchored_one_to_one` (`MCDualSettlement`): the segment entries pay winners
  without debiting losers; the chips are then no longer anchored 1:1.
  `ShortfallIsHiddenPayout` says by how much.
* `hidden_claims` (`MCDualSettlement`): a claim of a hidden hand has no stored
  amount, so `consume_claim` refuses it.
* `snip36_segment` (`MCDualSettlement`): the comments call the segment what the
  `settlement_private` circuit outputs, with a zero sum "proved by the circuit"
  (`poker_dual_settlement.cairo:115`, and v3 is said to pay out as v2 does), but a SNIP-36 proof is about
  `emit_settlement_proof_message` ("not our circuit", in the comment at `:1138`), so
  the total and the commitments are the caller's. `EveryClaimMatches` is
  `ClaimsMatchResult` without the exception for such hands.
* `fold_reveal_duty` (`MCTexasTable`): after `fold_with_proof` later reveals need the seat
  no more and do not punish it (`state_machine.rs:2270`, `:2280`), but
  `start_community_reveal_phase` asks every seat that was dealt in.
* `folded_showdown` (`MCTexasTable`): the showdown reveal is for the seats that did not fold
  (`state_machine.rs:1264`), but `start_showdown_reveal_phase` asks all of them.
  `WaitsForParticipants` says what does hold: nobody is waited for who is gone.
* `deck_key` (`MCTexasTable`): the contributors are the seats whose key is a layer of the
  deck (`types.rs:2045`), but `join_table` adds the key of a seat that is not dealt in, also
  in the middle of the first shuffle, and a reset that leaves only waiting seats at
  the table clears the mask although it was just rebuilt from their keys.
* `custody_exact` (`MCTexasTable`): when everybody is kicked in one reveal timeout,
  `refund_all_bets` finds nobody to refund and the pot is cleared; `chip_pool`
  keeps chips no seat owns. A kick by the creator that leaves fewer than two
  seats outside a betting round has the same effect. `CustodyKept` says where
  chips are kept: between hands, in betting rounds, and (`SettlementPaysOut`) at
  the showdown.
* `showdown_settleable` (`MCTexasTable`): a shuffle timeout while a reconstructed
  deck is reshuffled clears the readable hole cards; the showdown then cannot be
  settled.
* `stuck_hand` (`MCTexasTable`): `advance_deadline`, "canonical permissionless timeout
  entry" (`runtime/dispatch.rs:91`), does not move every hand on; see below.
* `refused_hand` (`MCHostSettlement`): a shuffle that times out before the next
  hand is dealt ends that hand, `on_hand_complete` reads the proof log of the hand
  before, whose settlement is still under way; that one is refused, and settles.
* `flushed_leaver` (`MCHostSettlement`): a leaver whose release task read "not
  settled" before the bundle and registered after the flush stays in the map of
  a hand that will not be flushed again.
* `held_token` (`MCTableRuntime`): a later command of the same account raises the
  watermark above a token that waits; the token is a dead letter from then on.
* `payout_once` (`MCPayoutQueue`): a request repeated after its delivery is
  queued and paid again (`queue.mjs:34` calls it idempotent).

`HandEnds` is checked at a table of two and from the first betting round on. At
larger tables two situations end it: the showdown above, and a kick by the
creator of the last seat that owes a reveal. In the second, the
card's pending set is empty but the card was never opened, so the
normalization makes no progress, and `advance_deadline` and all commands, which
normalize first, fail. Before the blinds, a seat that
leaves during the initial shuffle can leave its turn behind.
`DeadlineAccepted` states that neither happens; `stuck_hand` shows the leave, and
the kick when the property is narrowed to hands whose blinds are posted.
`PROJECT.json` lists both under hazards.

## 7. Mutants

Each property of a passing run has a mutant: a definition named after the
original (`lock_after_dropped`, `advance_turn_any`, `slice_layer_uncapped`, ...)
that changes it as a plausible slip in the code would. With the mutant in its
place TLC finds the property violated.

## 8. Not modelled

* AIR constraints, orchestrator, canonical trace, Poseidon, provers and on-chain
  verifiers (`src/`, most of the repository's lines): pure functions over field
  elements. They have no interleavings, and their domains are out of TLC's reach;
  the models take their verdicts. The share of the source these
  models cover is small for this reason, and because vendored and generated
  code is counted with it.
* State codec and prove tasks: serialization, no control state.
* Hand evaluator: a pure function, replaced by arbitrary rankings.
* Betting and card ceremonies of the game server: an older copy of the table of
  the VM library, which is modelled; what is settled is the VM's result.
* `dual_settle.rs` and `submit.rs` beyond the order of their sends: they build
  calldata. Buy-in locks (`chips.rs`): they touch nothing the pipeline reads.
* The proof queue of the appchain (`prover.rs`) and the exit's encoding.
* Session-key registry of the vault, table registry and legacy settlement
  contract: independent of the chips or subsumed by the dual contract.
* Client and wasm: presentation.

## 9. Plan

Done: contracts with their ledger, table, side pots and settlement plan, host
pipeline, inbox with its refinement, bridge and sidecar, each model-checked, and
each safety invariant, action property and refinement of the passing runs proved.

Next, in this order:

1. The session-key registry of the vault and the exit of the appchain, as
   modules of their own.
2. An abstract specification of a hand (dealt, bet, shown, paid) implemented by
   `TexasTable`, along the lines of `ChipLedger`.
3. The betting and card phases of the game server, if they are kept beside the VM's.
