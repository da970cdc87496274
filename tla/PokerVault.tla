----------------------------- MODULE PokerVault -----------------------------
(***************************************************************************)
(* The chip vault (poker_contracts/src/poker_vault.cairo): players deposit *)
(* STRK for chips, withdraw chips for STRK, the operator locks the chips a *)
(* player takes to a table, and the settlement contract applies the result *)
(* of a verified hand.  Every entry point is one action; a failed assert   *)
(* of the contract is a false guard (the transaction reverts).             *)
(*                                                                         *)
(* External, modelled from how the vault uses it: the STRK token (the      *)
(* variables wallet, vault_tokens, pool_tokens, escrow_tokens), the        *)
(* privacy pool and the block clock.                                       *)
(***************************************************************************)
EXTENDS Integers, FiniteSets, Functions

CONSTANTS
  Players,          \* player addresses
  Escrows,          \* addresses that can be named claim helper (hold escrow)
  Settlements,      \* contracts the owner may connect as settlement contract
  Helpers,          \* addresses the owner may authorize as vault helpers
  Commitments,      \* payout commitments a player can register (non-zero felts)
  NoCommitment,     \* the zero felt: no commitment registered
  Amounts,          \* amounts a caller may pass (u256, > 0 is asserted)
  TTLs,             \* lock TTLs the owner may choose (0 disables self unlock)
  Purse,            \* STRK each player's wallet holds at deployment
  PoolFloat,        \* STRK in the privacy pool at deployment
  InitialTTL,       \* lock_ttl written by the constructor (12h in the code)
  U64Max,           \* largest u64: session clock arithmetic is checked
  StartTime,        \* block timestamp at deployment
  LastOwnerTime,    \* bound: the operator acts no later than this
  MaxTime,          \* bound: the clock stops here
  MaxLocked         \* bound: no lock takes a player's lock above this

VaultSelf == "vault"            \* the vault's own address
Nobody == "nobody"              \* the zero address
Dual == "dual"                  \* the PokerDualSettlement deployment

ASSUME VaultAssumption ==
  /\ IsFiniteSet(Players)
  /\ IsFiniteSet(Escrows)
  /\ NoCommitment \notin Commitments
  /\ Dual \in Settlements
  /\ Amounts \subseteq Nat
  /\ TTLs \subseteq Nat
  /\ InitialTTL \in Nat
  /\ Purse \in Nat
  /\ PoolFloat \in Nat
  /\ U64Max \in Nat
  /\ StartTime \in Nat
  /\ LastOwnerTime \in Nat
  /\ MaxTime \in Nat
  /\ MaxLocked \in Nat

VARIABLES
  chip_balances,          \* player -> chips
  total_chips,            \* chips in circulation
  locked,                 \* player -> chips locked at a table
  session_last_activity,  \* player -> seconds, base of the unlock deadline
  session_active,         \* player -> BOOLEAN
  lock_ttl,               \* seconds; 0 = no self unlock
  payout_commitments,     \* player -> commitment or NoCommitment
  paused,                 \* Pausable
  authorized_helper,      \* may burn_chips
  unshield_helper,        \* may withdraw_to
  settlement_contract,    \* may apply_settlement and settlement_fund_escrow
  wallet,                 \* external: player -> STRK in the public wallet
  vault_tokens,           \* external: STRK held by the vault
  pool_tokens,            \* external: STRK held by the privacy pool
  escrow_tokens,          \* external: claim helper -> STRK held
  block_timestamp         \* external: the block clock

chips   == <<chip_balances, total_chips>>
session == <<locked, session_last_activity, session_active>>
roles   == <<authorized_helper, unshield_helper, settlement_contract>>
config  == <<lock_ttl, paused, roles>>
vaultVars ==
  <<chips, session, config, payout_commitments, wallet, vault_tokens,
    pool_tokens, escrow_tokens, block_timestamp>>

VaultInit ==
  /\ chip_balances = [p \in Players |-> 0]
  /\ total_chips = 0
  /\ locked = [p \in Players |-> 0]
  /\ session_last_activity = [p \in Players |-> 0]
  /\ session_active = [p \in Players |-> FALSE]
  /\ lock_ttl = InitialTTL
  /\ payout_commitments = [p \in Players |-> NoCommitment]
  /\ paused = FALSE
  /\ authorized_helper = VaultSelf
  /\ unshield_helper = Nobody
  /\ settlement_contract = Dual
  /\ wallet = [p \in Players |-> Purse]
  /\ vault_tokens = 0
  /\ pool_tokens = PoolFloat
  /\ escrow_tokens = [e \in Escrows |-> 0]
  /\ block_timestamp = StartTime

-----------------------------------------------------------------------------
(* Deposits.                                                               *)

\* Credit side of pull_and_credit: the token pull is the caller's conjunct.
credit(p, amount) ==
  /\ vault_tokens' = vault_tokens + amount
  /\ chip_balances' = [chip_balances EXCEPT ![p] = @ + amount]
  /\ total_chips' = total_chips + amount
  /\ UNCHANGED <<session, config, payout_commitments, escrow_tokens,
                 block_timestamp>>

pull_and_credit(caller, p, amount) ==
  /\ wallet[caller] >= amount
  /\ wallet' = [wallet EXCEPT ![caller] = @ - amount]
  /\ credit(p, amount)
  /\ UNCHANGED pool_tokens

deposit(caller, amount) ==
  /\ ~paused
  /\ amount > 0
  /\ pull_and_credit(caller, caller, amount)

deposit_for(caller, p, amount) ==
  /\ ~paused
  /\ amount > 0
  /\ pull_and_credit(caller, p, amount)

\* PokerVaultAnonymizer OP_BUY_IN: the pool pays, the player is credited.
\* The pool takes the helper's change back inside the same transaction.
privacy_buy_in(p, amount) ==
  /\ ~paused
  /\ amount > 0
  /\ pool_tokens >= amount
  /\ pool_tokens' = pool_tokens - amount
  /\ credit(p, amount)
  /\ UNCHANGED wallet

-----------------------------------------------------------------------------
(* Withdrawals.                                                            *)

\* Mutant: the in-hand lock is forgotten.
assert_spendable_unlocked(p, amount) == chip_balances[p] >= amount

\* Mutant: a sanity check that never fails.
assert_spendable_never(p, amount) == TRUE

assert_spendable(p, amount) ==
  /\ chip_balances[p] >= amount
  /\ chip_balances[p] - amount >= locked[p]

\* The debit every player-side exit performs; u256 subtraction is checked.
debit(p, amount) ==
  /\ ~paused
  /\ amount > 0
  /\ assert_spendable(p, amount)
  /\ total_chips >= amount
  /\ chip_balances' = [chip_balances EXCEPT ![p] = @ - amount]
  /\ total_chips' = total_chips - amount
  /\ UNCHANGED <<session, config, payout_commitments, escrow_tokens,
                 block_timestamp>>

withdraw(p, amount) ==
  /\ debit(p, amount)
  /\ vault_tokens >= amount
  /\ vault_tokens' = vault_tokens - amount
  /\ wallet' = [wallet EXCEPT ![p] = @ + amount]
  /\ UNCHANGED pool_tokens

\* withdraw_to called by PokerVaultAnonymizer OP_WITHDRAW: the STRK goes to
\* the helper and from there into the caller's pool note.
withdraw_to(caller, p, amount) ==
  /\ caller = unshield_helper
  /\ debit(p, amount)
  /\ vault_tokens >= amount
  /\ vault_tokens' = vault_tokens - amount
  /\ pool_tokens' = pool_tokens + amount
  /\ UNCHANGED wallet

\* Chips disappear, the STRK behind them stays in the vault.
burn_chips(caller, p, amount) ==
  /\ caller = authorized_helper
  /\ debit(p, amount)
  /\ UNCHANGED <<wallet, vault_tokens, pool_tokens>>

-----------------------------------------------------------------------------
(* In-hand locks (owner = the operator's backend).                         *)

OwnerActs == block_timestamp <= LastOwnerTime

\* Mutant: the session flag is not raised.
lock_without_session(p, amount) ==
  /\ OwnerActs
  /\ amount > 0
  /\ chip_balances[p] >= amount
  /\ locked[p] + amount <= MaxLocked
  /\ locked' = [locked EXCEPT ![p] = @ + amount]
  /\ session_last_activity' = [session_last_activity EXCEPT ![p] = block_timestamp]
  /\ UNCHANGED <<chips, session_active, config, payout_commitments, wallet,
                 vault_tokens, pool_tokens, escrow_tokens, block_timestamp>>

lock(p, amount) ==
  /\ OwnerActs
  /\ amount > 0
  /\ chip_balances[p] >= amount
  /\ locked[p] + amount <= MaxLocked
  /\ locked' = [locked EXCEPT ![p] = @ + amount]
  /\ session_last_activity' = [session_last_activity EXCEPT ![p] = block_timestamp]
  /\ session_active' = [session_active EXCEPT ![p] = TRUE]
  /\ UNCHANGED <<chips, config, payout_commitments, wallet, vault_tokens,
                 pool_tokens, escrow_tokens, block_timestamp>>

refresh_session(p) ==
  /\ OwnerActs
  /\ session_last_activity[p] # 0
  /\ session_last_activity' = [session_last_activity EXCEPT ![p] = block_timestamp]
  /\ session_active' = [session_active EXCEPT ![p] = TRUE]
  /\ UNCHANGED <<chips, locked, config, payout_commitments, wallet,
                 vault_tokens, pool_tokens, escrow_tokens, block_timestamp>>

\* Mutant: the session ends and the lock stays.
clear_session_keeping_lock(p) ==
  /\ session_last_activity' = [session_last_activity EXCEPT ![p] = 0]
  /\ session_active' = [session_active EXCEPT ![p] = FALSE]
  /\ UNCHANGED <<chips, locked, config, payout_commitments, wallet,
                 vault_tokens, pool_tokens, escrow_tokens, block_timestamp>>

clear_session(p) ==
  /\ locked' = [locked EXCEPT ![p] = 0]
  /\ session_last_activity' = [session_last_activity EXCEPT ![p] = 0]
  /\ session_active' = [session_active EXCEPT ![p] = FALSE]
  /\ UNCHANGED <<chips, config, payout_commitments, wallet, vault_tokens,
                 pool_tokens, escrow_tokens, block_timestamp>>

\* Mutant: the exit is closed while the vault is paused.
unlock_unless_paused(p) ==
  /\ ~paused
  /\ session_active[p]
  /\ lock_ttl # 0
  /\ session_last_activity[p] + lock_ttl <= U64Max
  /\ block_timestamp >= session_last_activity[p] + lock_ttl
  /\ clear_session(p)

\* Anyone may call it; last + ttl is a checked u64 addition.
unlock_after_deadline(p) ==
  /\ session_active[p]
  /\ lock_ttl # 0
  /\ session_last_activity[p] + lock_ttl <= U64Max
  /\ block_timestamp >= session_last_activity[p] + lock_ttl
  /\ clear_session(p)

force_unlock(p) ==
  /\ OwnerActs
  /\ clear_session(p)

-----------------------------------------------------------------------------
(* Settlement-gated entry points, called by the contract c.  Neither is    *)
(* gated by pause.                                                         *)

\* What the winners of d gain and the losers lose (u64 magnitudes).
Credits(d) == SumFunction([p \in Players |-> IF d[p] > 0 THEN d[p] ELSE 0])
Debits(d) == SumFunction([p \in Players |-> IF d[p] < 0 THEN -d[p] ELSE 0])

\* Mutant: any loss frees the whole lock.
lock_after_dropped(p, delta) == IF delta >= 0 THEN locked[p] ELSE 0

\* A loss consumes the locked chips first.
lock_after(p, delta) ==
  IF delta >= 0 THEN locked[p]
  ELSE IF locked[p] < -delta THEN 0 ELSE locked[p] + delta

\* Mutant: the counter of chips in circulation is not maintained.
apply_settlement_uncounted(c, d) ==
  /\ c = settlement_contract
  /\ \A p \in Players : chip_balances[p] + d[p] >= 0
  /\ locked' = [p \in Players |-> lock_after(p, d[p])]
  /\ chip_balances' = [p \in Players |-> chip_balances[p] + d[p]]
  /\ UNCHANGED <<total_chips, session_last_activity, session_active, config,
                 payout_commitments, wallet, pool_tokens, block_timestamp>>

\* The apply_settlement calls of one settlement transaction, one per player:
\* one insufficient balance reverts all of them.
apply_settlement(c, d) ==
  /\ c = settlement_contract
  /\ \A p \in Players : chip_balances[p] + d[p] >= 0
  /\ total_chips + Credits(d) >= Debits(d)
  /\ locked' = [p \in Players |-> lock_after(p, d[p])]
  /\ chip_balances' = [p \in Players |-> chip_balances[p] + d[p]]
  /\ total_chips' = (total_chips + Credits(d)) - Debits(d)
  /\ UNCHANGED <<session_last_activity, session_active, config,
                 payout_commitments, wallet, pool_tokens, block_timestamp>>

\* Mutant: the token transfer's own balance check is missing.
fund_escrow_unchecked(c, escrow, amount) ==
  /\ c = settlement_contract
  /\ amount > 0
  /\ vault_tokens' = vault_tokens - amount
  /\ escrow_tokens' = [escrow_tokens EXCEPT ![escrow] = @ + amount]

\* STRK leaves the vault for the claim escrow; chips are not touched.
settlement_fund_escrow(c, escrow, amount) ==
  /\ c = settlement_contract
  /\ amount > 0
  /\ vault_tokens >= amount
  /\ vault_tokens' = vault_tokens - amount
  /\ escrow_tokens' = [escrow_tokens EXCEPT ![escrow] = @ + amount]

-----------------------------------------------------------------------------
(* Registry and owner configuration.                                       *)

register_payout_commitment(p, c) ==
  /\ c # NoCommitment
  /\ payout_commitments' = [payout_commitments EXCEPT ![p] = c]
  /\ UNCHANGED <<chips, session, config, wallet, vault_tokens, pool_tokens,
                 escrow_tokens, block_timestamp>>

\* What every owner-only configuration entry leaves alone.
OwnerConfig ==
  /\ OwnerActs
  /\ UNCHANGED <<chips, session, payout_commitments, wallet, vault_tokens,
                 pool_tokens, escrow_tokens, block_timestamp>>

set_lock_ttl(ttl) ==
  /\ OwnerConfig
  /\ lock_ttl' = ttl
  /\ UNCHANGED <<paused, roles>>

set_authorized_helper(h) ==
  /\ OwnerConfig
  /\ authorized_helper' = h
  /\ UNCHANGED <<lock_ttl, paused, unshield_helper, settlement_contract>>

set_unshield_helper(h) ==
  /\ OwnerConfig
  /\ unshield_helper' = h
  /\ UNCHANGED <<lock_ttl, paused, authorized_helper, settlement_contract>>

set_settlement_contract(c) ==
  /\ OwnerConfig
  /\ settlement_contract' = c
  /\ UNCHANGED <<lock_ttl, paused, authorized_helper, unshield_helper>>

pause ==
  /\ OwnerConfig
  /\ ~paused
  /\ paused' = TRUE
  /\ UNCHANGED <<lock_ttl, roles>>

unpause ==
  /\ OwnerConfig
  /\ paused
  /\ paused' = FALSE
  /\ UNCHANGED <<lock_ttl, roles>>

\* External: the sequencer's clock.
Tick ==
  /\ block_timestamp < MaxTime
  /\ block_timestamp' = block_timestamp + 1
  /\ UNCHANGED <<chips, session, config, payout_commitments, wallet,
                 vault_tokens, pool_tokens, escrow_tokens>>

-----------------------------------------------------------------------------
PlayerStep(p) ==
  \/ \E a \in Amounts :
       \/ deposit(p, a)
       \/ \E q \in Players \ {p} : deposit_for(p, q, a)
       \/ privacy_buy_in(p, a)
       \/ withdraw(p, a)
       \/ \E h \in Helpers : withdraw_to(h, p, a) \/ burn_chips(h, p, a)
  \/ \E c \in Commitments : register_payout_commitment(p, c)
  \/ unlock_after_deadline(p)

OwnerStep ==
  \/ \E p \in Players :
       \/ \E a \in Amounts : lock(p, a)
       \/ refresh_session(p)
       \/ force_unlock(p)
  \/ \E ttl \in TTLs : set_lock_ttl(ttl)
  \/ \E h \in Helpers : set_authorized_helper(h) \/ set_unshield_helper(h)
  \/ \E c \in Settlements : set_settlement_contract(c)
  \/ pause
  \/ unpause

VaultStep == (\E p \in Players : PlayerStep(p)) \/ OwnerStep \/ Tick

-----------------------------------------------------------------------------
VaultTypeOK ==
  /\ chip_balances \in [Players -> Nat]
  /\ total_chips \in Nat
  /\ locked \in [Players -> Nat]
  /\ session_last_activity \in [Players -> Nat]
  /\ session_active \in [Players -> BOOLEAN]
  /\ lock_ttl \in Nat
  /\ payout_commitments \in [Players -> Commitments \cup {NoCommitment}]
  /\ paused \in BOOLEAN
  /\ authorized_helper \in Helpers \cup {VaultSelf}
  /\ unshield_helper \in Helpers \cup {Nobody}
  /\ settlement_contract \in Settlements
  /\ wallet \in [Players -> Nat]
  /\ vault_tokens \in Nat
  /\ pool_tokens \in Nat
  /\ escrow_tokens \in [Escrows -> Nat]
  /\ block_timestamp \in Nat
=============================================================================
