--------------------- MODULE PokerDualSettlementProofs ----------------------
(***************************************************************************)
(* Proofs about the vault and the settlement contract, for every number of *)
(* players, hands, amounts and every bound.                                *)
(***************************************************************************)
EXTENDS PokerDualSettlement, FiniteSums, TLAPS

USE VaultAssumption, DualAssumption

\* The initial state has the declared types.
LEMMA InitTypeOK == Init => TypeOK
<1>1. VaultInit => VaultTypeOK
  <2>1. VaultInit => /\ chip_balances \in [Players -> Nat]
                     /\ total_chips \in Nat
                     /\ locked \in [Players -> Nat]
                     /\ session_last_activity \in [Players -> Nat]
    BY DEF VaultInit
  <2>2. VaultInit => /\ session_active \in [Players -> BOOLEAN]
                     /\ paused \in BOOLEAN
                     /\ lock_ttl \in Nat
                     /\ payout_commitments \in [Players -> Commitments \cup {NoCommitment}]
    BY DEF VaultInit
  <2>3. VaultInit => /\ authorized_helper \in Helpers \cup {VaultSelf}
                     /\ unshield_helper \in Helpers \cup {Nobody}
                     /\ settlement_contract \in Settlements
    BY DEF VaultInit
  <2>4. VaultInit => /\ wallet \in [Players -> Nat]
                     /\ vault_tokens \in Nat
                     /\ pool_tokens \in Nat
                     /\ escrow_tokens \in [Escrows -> Nat]
                     /\ block_timestamp \in Nat
    BY DEF VaultInit
  <2>5. QED
    BY <2>1, <2>2, <2>3, <2>4 DEF VaultTypeOK
<1>2. Init => DualTypeOK
  BY DEF Init, DualTypeOK
<1>3. QED
  BY <1>1, <1>2 DEF Init, TypeOK

\* Every player-side entry point of the vault (deposits, exits, registration,
\* self unlock) preserves the vault's types.
LEMMA PlayerStepType ==
  ASSUME VaultTypeOK, NEW p \in Players, PlayerStep(p)
  PROVE  VaultTypeOK'
<1>1. CASE \E a \in Amounts : deposit(p, a)
  BY <1>1 DEF VaultTypeOK, deposit, pull_and_credit, credit, session, config, roles
<1>2. CASE \E a \in Amounts : \E q \in Players \ {p} : deposit_for(p, q, a)
  BY <1>2 DEF VaultTypeOK, deposit_for, pull_and_credit, credit, session, config, roles
<1>3. CASE \E a \in Amounts : privacy_buy_in(p, a)
  BY <1>3 DEF VaultTypeOK, privacy_buy_in, credit, session, config, roles
<1>4. CASE \E a \in Amounts : withdraw(p, a)
  BY <1>4 DEF VaultTypeOK, withdraw, debit, assert_spendable, session, config, roles
<1>5. CASE \E a \in Amounts : \E h \in Helpers : withdraw_to(h, p, a)
  BY <1>5 DEF VaultTypeOK, withdraw_to, debit, assert_spendable, session, config, roles
<1>6. CASE \E a \in Amounts : \E h \in Helpers : burn_chips(h, p, a)
  BY <1>6 DEF VaultTypeOK, burn_chips, debit, assert_spendable, session, config, roles
<1>7. CASE \E c \in Commitments : register_payout_commitment(p, c)
  BY <1>7 DEF VaultTypeOK, register_payout_commitment, chips, session, config, roles
<1>8. CASE unlock_after_deadline(p)
  BY <1>8 DEF VaultTypeOK, unlock_after_deadline, clear_session, chips, config, roles
<1>9. QED
  BY <1>1, <1>2, <1>3, <1>4, <1>5, <1>6, <1>7, <1>8 DEF PlayerStep

\* Every owner-side entry point of the vault preserves the vault's types.
LEMMA OwnerStepType ==
  ASSUME VaultTypeOK, OwnerStep
  PROVE  VaultTypeOK'
<1>1. CASE \E p \in Players : \E a \in Amounts : lock(p, a)
  BY <1>1 DEF VaultTypeOK, lock, chips, config, roles
<1>2. CASE \E p \in Players : refresh_session(p)
  BY <1>2 DEF VaultTypeOK, refresh_session, chips, config, roles
<1>3. CASE \E p \in Players : force_unlock(p)
  BY <1>3 DEF VaultTypeOK, force_unlock, clear_session, chips, config, roles
<1>4. CASE \E ttl \in TTLs : set_lock_ttl(ttl)
  BY <1>4 DEF VaultTypeOK, set_lock_ttl, OwnerConfig, chips, session, roles
<1>5. CASE \E h \in Helpers : set_authorized_helper(h) \/ set_unshield_helper(h)
  BY <1>5 DEF VaultTypeOK, set_authorized_helper, set_unshield_helper,
              OwnerConfig, chips, session
<1>6. CASE \E c \in Settlements : set_settlement_contract(c)
  BY <1>6 DEF VaultTypeOK, set_settlement_contract, OwnerConfig, chips, session
<1>7. CASE pause \/ unpause
  BY <1>7 DEF VaultTypeOK, pause, unpause, OwnerConfig, chips, session, roles
<1>8. QED
  BY <1>1, <1>2, <1>3, <1>4, <1>5, <1>6, <1>7 DEF OwnerStep

\* A settlement's chip movements keep balances, locks and the total natural:
\* the contract reverts when one balance is insufficient.
LEMMA ApplySettlementType ==
  ASSUME VaultTypeOK, NEW c, NEW d \in [Players -> Int], apply_settlement(c, d),
         Credits(d) \in Nat, Debits(d) \in Nat
  PROVE  /\ chip_balances' \in [Players -> Nat]
         /\ total_chips' \in Nat
         /\ locked' \in [Players -> Nat]
<1>1. \A p \in Players : chip_balances[p] + d[p] \in Nat
  BY DEF VaultTypeOK, apply_settlement
<1>2. \A p \in Players : lock_after(p, d[p]) \in Nat
  BY DEF VaultTypeOK, lock_after
<1>3. QED
  BY <1>1, <1>2 DEF apply_settlement, VaultTypeOK

\* A delta vector splits into what its winners gain and its losers lose.
LEMMA DeltaSums ==
  ASSUME NEW d \in [Players -> Int]
  PROVE  /\ Credits(d) \in Nat
         /\ Debits(d) \in Nat
         /\ SumFunction(d) = Credits(d) - Debits(d)
<1> DEFINE gains  == [p \in Players |-> IF d[p] > 0 THEN d[p] ELSE 0]
           losses == [p \in Players |-> IF d[p] < 0 THEN -d[p] ELSE 0]
<1>1. gains \in [Players -> Nat] /\ losses \in [Players -> Nat]
  OBVIOUS
<1>2. Credits(d) \in Nat /\ Debits(d) \in Nat
  BY <1>1, SumFunctionType DEF Credits, Debits
<1>3. /\ gains \in [Players -> Int] /\ losses \in [Players -> Int]
      /\ \A p \in Players : gains[p] = d[p] + losses[p]
  OBVIOUS
<1> HIDE DEF gains, losses
<1>4. SumFunction(gains) = SumFunction(d) + SumFunction(losses)
  BY <1>3, SumFunctionPlus
<1>5. Credits(d) = SumFunction(d) + Debits(d)
  BY <1>4 DEF Credits, Debits, gains, losses
<1>6. SumFunction(d) \in Int
  BY SumFunctionType
<1>7. QED
  BY <1>2, <1>5, <1>6

\* Losses(d) only debits: it credits nothing and debits what d debits.
LEMMA LossesSums ==
  ASSUME NEW d \in [Players -> Int]
  PROVE  /\ Losses(d) \in [Players -> Int]
         /\ Credits(Losses(d)) = 0
         /\ Debits(Losses(d)) = Debits(d)
<1>1. Losses(d) \in [Players -> Int]
  BY DEF Losses
<1>2. [p \in Players |-> IF Losses(d)[p] < 0 THEN -Losses(d)[p] ELSE 0]
        = [p \in Players |-> IF d[p] < 0 THEN -d[p] ELSE 0]
  BY DEF Losses
<1>3. [p \in Players |-> IF Losses(d)[p] > 0 THEN Losses(d)[p] ELSE 0]
        = [p \in Players |-> 0]
  BY DEF Losses
<1>4. QED
  BY <1>1, <1>2, <1>3, SumFunctionZero DEF Debits, Credits

\* Claim commitments and segments the prover builds are well typed.
LEMMA SegmentType ==
  ASSUME TypeOK, NEW h \in Hands, Provable(h)
  PROVE  Segment(h) \in Segments
<1> DEFINE d == digest[h]
<1>1. d \in Results /\ d \in [Players -> Int] /\ Credits(d) \in Nat
  BY DeltaSums DEF Provable, TypeOK, DualTypeOK
<1>2. ASSUME NEW p \in Players, p \in Winners(d)
      PROVE  Cm(payout_commitments[p], h, d[p]) \in ClaimCms
  BY <1>1, <1>2 DEF Cm, ClaimCms, Winners, Provable, TypeOK, VaultTypeOK
<1>3. [p \in Players |-> IF p \in Winners(d) THEN Cm(payout_commitments[p], h, d[p])
                         ELSE NoCm] \in [Players -> ClaimCms \cup {NoCm}]
  BY <1>2
<1>4. QED
  BY <1>1, <1>3 DEF Segment, Segments

\* The segments some entry of the contract accepts for a hand, and what the
\* entry records of its gate.
KnownSegments(h) == FactSegments \cup MessageSegments(h)
GateRecorded(h, seg) ==
  \/ /\ seg \in FactSegments
     /\ via_snip36' = via_snip36 \/ via_snip36' = [via_snip36 EXCEPT ![h] = FALSE]
  \/ via_snip36' = [via_snip36 EXCEPT ![h] = TRUE]

\* Settling from a segment, by any of the three entries.
SettlesFromSegment(h) ==
  \E seg \in KnownSegments(h) : pay_segment(h, seg) /\ GateRecorded(h, seg)

\* Every segment entry pays a known segment and records its gate.
LEMMA SegmentEntries ==
  ASSUME NEW h \in Hands, HandStep(h)
  PROVE  \/ \E o \in Operators, d \in Results :
              register_hand(o, h, d) \/ register_hand_proved(o, h, d)
         \/ verify_and_settle_dapv_stark(h)
         \/ verify_and_settle_dapv_stark_private(h)
         \/ register_settlement_fact(h)
         \/ SettlesFromSegment(h)
         \/ \E e \in Escrows, p \in Players, a \in Amounts : claim(e, h, p, a)
<1>1. ASSUME NEW seg \in FactSegments,
             \/ verify_and_settle_dapv_stark_private_v2(h, seg)
             \/ verify_and_settle_dapv_stark_private_v3(h, seg, FALSE)
             \/ verify_and_settle_dapv_proved_private(h, seg)
      PROVE  SettlesFromSegment(h)
  BY <1>1 DEF SettlesFromSegment, KnownSegments, GateRecorded,
     verify_and_settle_dapv_stark_private_v2, verify_and_settle_dapv_stark_private_v3,
     verify_and_settle_dapv_proved_private
<1>2. ASSUME NEW seg \in MessageSegments(h),
             verify_and_settle_dapv_stark_private_v3(h, seg, TRUE)
      PROVE  SettlesFromSegment(h)
  BY <1>2 DEF SettlesFromSegment, KnownSegments, GateRecorded,
     verify_and_settle_dapv_stark_private_v3
<1>3. QED
  BY <1>1, <1>2 DEF HandStep

\* A segment a settlement entry accepts is a well-typed one.
LEMMA KnownSegmentType ==
  ASSUME TypeOK, NEW h \in Hands, NEW seg \in KnownSegments(h)
  PROVE  seg \in Segments
<1>1. CASE Provable(h) /\ seg = Segment(h)
  BY <1>1, SegmentType
<1>2. CASE seg \in FactSegments
  BY <1>2 DEF FactSegments, TypeOK, DualTypeOK, Facts
<1>3. CASE /\ validate_settlement_segment(h, seg)
           /\ seg \in [hand : {h}, digest : {digest[h]}, total : 1..vault_tokens,
                       cms : [Players -> {Cm(c, g, a) : c \in Commitments, g \in Hands, a \in Amounts}
                                         \cup {NoCm}]]
  <2>1. digest[h] \in Results
    BY <1>3 DEF validate_settlement_segment, TypeOK, DualTypeOK
  <2>2. 1..vault_tokens \subseteq Nat
    OBVIOUS
  <2>3. \A c \in Commitments, g \in Hands, a \in Amounts : Cm(c, g, a) \in ClaimCms
    BY DEF Cm, ClaimCms
  <2>4. seg.cms \in [Players -> ClaimCms \cup {NoCm}]
    BY <1>3, <2>3
  <2>5. QED
    BY <1>3, <2>1, <2>2, <2>4 DEF Segments
<1>4. QED
  BY <1>1, <1>2, <1>3 DEF KnownSegments, MessageSegments

\* Each step on a hand (registration, the five settlements, facts, claims)
\* preserves the types.
LEMMA HandStepType ==
  ASSUME TypeOK, NEW h \in Hands, HandStep(h)
  PROVE  TypeOK'
<1> USE DEF TypeOK
<1>1. CASE \E o \in Operators, d \in Results :
             register_hand(o, h, d) \/ register_hand_proved(o, h, d)
  <2>1. VaultTypeOK'
    BY <1>1 DEF register_hand, register_hand_proved, write_registration,
       VaultTypeOK, vaultVars, chips, session, config, roles
  <2>2. digest' \in [Hands -> Results \cup {NoDigest}]
    <3>1. PICK d \in Results : write_registration(h, d)
      BY <1>1 DEF register_hand, register_hand_proved
    <3>2. QED
      BY <3>1 DEF write_registration, DualTypeOK
  <2>3. p_batch' \in [Hands -> BOOLEAN]
    BY <1>1 DEF register_hand, register_hand_proved, DualTypeOK
  <2>4. DualTypeOK'
    BY <1>1, <2>2, <2>3 DEF register_hand, register_hand_proved,
       write_registration, DualTypeOK, claims, dualConfig
  <2>5. QED
    BY <2>1, <2>4
<1>2. CASE verify_and_settle_dapv_stark(h)
  <2>1. digest[h] \in Results /\ digest[h] \in [Players -> Int]
    BY <1>2 DEF verify_and_settle_dapv_stark, dapv_prelude, DualTypeOK
  <2>2. apply_settlement(Dual, digest[h])
    BY <1>2 DEF verify_and_settle_dapv_stark
  <2>3. /\ chip_balances' \in [Players -> Nat]
        /\ total_chips' \in Nat
        /\ locked' \in [Players -> Nat]
    BY <2>1, <2>2, ApplySettlementType, DeltaSums
  <2>4. VaultTypeOK'
    BY <1>2, <2>3 DEF verify_and_settle_dapv_stark, apply_settlement,
       VaultTypeOK, config, roles
  <2>5. DualTypeOK'
    BY <1>2 DEF verify_and_settle_dapv_stark, DualTypeOK, claims, dualConfig
  <2>6. QED
    BY <2>4, <2>5
<1>3. CASE verify_and_settle_dapv_stark_private(h)
  <2> DEFINE d == digest[h]
  <2>1. d \in Results /\ d \in [Players -> Int] /\ Credits(d) \in Nat
    BY <1>3, DeltaSums
       DEF verify_and_settle_dapv_stark_private, dapv_prelude, DualTypeOK
  <2>2. apply_settlement(Dual, Losses(d))
    BY <1>3 DEF verify_and_settle_dapv_stark_private
  <2>3. Credits(Losses(d)) \in Nat /\ Debits(Losses(d)) \in Nat
    BY <2>1, LossesSums, DeltaSums
  <2>4. /\ chip_balances' \in [Players -> Nat]
        /\ total_chips' \in Nat
        /\ locked' \in [Players -> Nat]
    BY <2>1, <2>2, <2>3, LossesSums, ApplySettlementType
  <2>5. VaultTypeOK'
    BY <1>3, <2>1, <2>4
       DEF verify_and_settle_dapv_stark_private, apply_settlement,
           settlement_fund_escrow, VaultTypeOK, DualTypeOK, config, roles
  <2>6. \A p \in Winners(d) : Cm(payout_commitments[p], h, d[p]) \in ClaimCms
    BY <1>3, <2>1 DEF verify_and_settle_dapv_stark_private, Cm, ClaimCms,
       Winners, VaultTypeOK
  <2>7. claim_cms' \in [Hands -> [Players -> ClaimCms \cup {NoCm}]]
    BY <1>3, <2>6 DEF verify_and_settle_dapv_stark_private, DualTypeOK
  <2>8. claim_amounts' \in [Hands -> [Players -> Nat]]
    <3>1. \A p \in Winners(d) : d[p] \in Nat
      BY <2>1 DEF Winners
    <3>2. QED
      BY <1>3, <3>1 DEF verify_and_settle_dapv_stark_private, DualTypeOK
  <2>9. claims_consumed' \in [Hands -> [Players -> BOOLEAN]]
    BY <1>3 DEF verify_and_settle_dapv_stark_private, DualTypeOK
  <2>10. DualTypeOK'
    BY <1>3, <2>7, <2>8, <2>9
       DEF verify_and_settle_dapv_stark_private, DualTypeOK, dualConfig
  <2>11. QED
    BY <2>5, <2>10
<1>4. CASE register_settlement_fact(h)
  <2>1. settlement_facts' \subseteq Facts
    <3>1. CASE /\ Provable(h)
               /\ settlement_facts' = settlement_facts \cup {fact_for_segment(Segment(h))}
      BY <3>1, SegmentType DEF DualTypeOK, Facts, fact_for_segment, Programs
    <3>2. CASE settlement_facts' = settlement_facts \cup {hand_verify_fact(h)}
      BY <3>2 DEF DualTypeOK, Facts, hand_verify_fact, Programs
    <3>3. QED
      BY <1>4, <3>1, <3>2 DEF register_settlement_fact
  <2>2. VaultTypeOK'
    BY <1>4 DEF register_settlement_fact, VaultTypeOK, vaultVars, chips,
       session, config, roles
  <2>3. DualTypeOK'
    BY <1>4, <2>1 DEF register_settlement_fact, DualTypeOK, hands, claims,
       dualConfig
  <2>4. QED
    BY <2>2, <2>3
<1>5. ASSUME NEW seg \in KnownSegments(h), pay_segment(h, seg), GateRecorded(h, seg)
      PROVE  TypeOK'
  <2>1. seg \in Segments
    BY KnownSegmentType
  <2>2. VaultTypeOK'
    BY <1>5, <2>1 DEF pay_segment, settlement_fund_escrow, VaultTypeOK,
       chips, session, config, roles, Segments, DualTypeOK
  <2>3. DualTypeOK'
    <3>1. via_snip36' \in [Hands -> BOOLEAN]
      BY <1>5 DEF GateRecorded, DualTypeOK
    <3>2. QED
      BY <1>5, <2>1, <3>1 DEF pay_segment, DualTypeOK, dualConfig, Segments
  <2>4. QED
    BY <2>2, <2>3
<1>6. CASE \E e \in Escrows, p \in Players, a \in Amounts : claim(e, h, p, a)
  BY <1>6 DEF claim, consume_claim, VaultTypeOK, DualTypeOK, chips, session,
     config, roles, hands, dualConfig
<1>7. QED
  BY <1>1, <1>2, <1>3, <1>4, <1>5, <1>6, SegmentEntries DEF SettlesFromSegment

\* Configuration of the settlement contract preserves the types.
LEMMA DualOwnerStepType ==
  ASSUME TypeOK, DualOwnerStep
  PROVE  TypeOK'
<1>1. VaultTypeOK'
  BY DEF TypeOK, DualOwnerStep, DualOwnerConfig, set_prover, remove_prover,
     set_claim_helper, set_program_hash, VaultTypeOK, vaultVars, chips,
     session, config, roles
<1>2. DualTypeOK'
  BY DEF TypeOK, DualOwnerStep, DualOwnerConfig, set_prover, remove_prover,
     set_claim_helper, set_program_hash, DualTypeOK, hands, claims
<1>3. QED
  BY <1>1, <1>2 DEF TypeOK

\* Every step preserves the types.
LEMMA TypeCorrectStep ==
  ASSUME TypeOK, [Next]_vars
  PROVE  TypeOK'
<1>1. CASE VaultStep /\ UNCHANGED dualVars
  <2>1. VaultTypeOK'
    <3>1. CASE Tick
      BY <3>1 DEF TypeOK, Tick, VaultTypeOK, chips, session, config, roles
    <3>2. QED
      BY <1>1, <3>1, PlayerStepType, OwnerStepType DEF VaultStep, TypeOK
  <2>2. DualTypeOK'
    BY <1>1 DEF TypeOK, DualTypeOK, dualVars, hands, claims, dualConfig
  <2>3. QED
    BY <2>1, <2>2 DEF TypeOK
<1>2. CASE \E h \in Hands : HandStep(h)
  BY <1>2, HandStepType
<1>3. CASE DualOwnerStep
  BY <1>3, DualOwnerStepType
<1>4. CASE UNCHANGED vars
  <2>1. VaultTypeOK'
    BY <1>4 DEF TypeOK, VaultTypeOK, vars, vaultVars, chips, session, config, roles
  <2>2. DualTypeOK'
    BY <1>4 DEF TypeOK, DualTypeOK, vars, dualVars, hands, claims, dualConfig
  <2>3. QED
    BY <2>1, <2>2 DEF TypeOK
<1>5. QED
  BY <1>1, <1>2, <1>3, <1>4 DEF Next

\* The contracts never leave their types: balances, locks, escrows and totals
\* stay natural numbers under every interleaving of players, operator,
\* provers and claim helpers.
THEOREM TypeCorrect == Spec => []TypeOK
  BY InitTypeOK, TypeCorrectStep, PTL DEF Spec

-----------------------------------------------------------------------------
(* Backing: the STRK in the vault covers the chips in circulation.         *)

\* No vault entry point outside settlement lets chips outgrow the STRK held:
\* deposits and withdrawals move both, a burn leaves STRK behind.
LEMMA VaultStepBacking ==
  ASSUME VaultTypeOK, VaultStep
  PROVE  vault_tokens' - total_chips' >= vault_tokens - total_chips
<1>1. ASSUME NEW p \in Players, PlayerStep(p)
      PROVE  vault_tokens' - total_chips' >= vault_tokens - total_chips
  <2>1. ASSUME NEW q \in Players, NEW a \in Amounts, credit(q, a)
        PROVE  vault_tokens' - total_chips' = vault_tokens - total_chips
    BY <2>1 DEF credit, VaultTypeOK
  <2>2. CASE \E a \in Amounts : withdraw(p, a)
    BY <2>2 DEF withdraw, debit, VaultTypeOK
  <2>3. CASE \E a \in Amounts, h \in Helpers : withdraw_to(h, p, a)
    BY <2>3 DEF withdraw_to, debit, VaultTypeOK
  <2>4. CASE \E a \in Amounts, h \in Helpers : burn_chips(h, p, a)
    BY <2>4 DEF burn_chips, debit, VaultTypeOK
  <2>5. CASE \/ \E c \in Commitments : register_payout_commitment(p, c)
             \/ unlock_after_deadline(p)
    BY <2>5 DEF register_payout_commitment, unlock_after_deadline,
       clear_session, chips, VaultTypeOK
  <2>6. CASE \E a \in Amounts : \/ deposit(p, a)
                                \/ privacy_buy_in(p, a)
                                \/ \E q \in Players \ {p} : deposit_for(p, q, a)
    <3>1. \E a \in Amounts : \E q \in Players : credit(q, a)
      BY <2>6 DEF deposit, deposit_for, privacy_buy_in, pull_and_credit
    <3>2. QED
      BY <2>1, <3>1 DEF VaultTypeOK
  <2>7. QED
    BY <1>1, <2>2, <2>3, <2>4, <2>5, <2>6 DEF PlayerStep
<1>2. CASE OwnerStep \/ Tick
  BY <1>2 DEF OwnerStep, Tick, lock, refresh_session, force_unlock,
     clear_session, set_lock_ttl, set_authorized_helper, set_unshield_helper,
     set_settlement_contract, pause, unpause, OwnerConfig, chips, VaultTypeOK
<1>3. QED
  BY <1>1, <1>2 DEF VaultStep

\* A settlement with the deltas in calldata moves as much STRK out of the
\* vault as it removes chips: nothing in linear mode, the losers' chips and
\* the winners' pot in private mode.
LEMMA CalldataSettlementBacking ==
  ASSUME TypeOK, NEW h \in Hands,
         \/ verify_and_settle_dapv_stark(h)
         \/ verify_and_settle_dapv_stark_private(h)
  PROVE  vault_tokens' - total_chips' = vault_tokens - total_chips
<1> DEFINE d == digest[h]
<1>1. /\ d \in Results
      /\ SumFunction(d) = 0
  BY DEF verify_and_settle_dapv_stark, verify_and_settle_dapv_stark_private,
     dapv_prelude, assert_zero_sum, TypeOK, DualTypeOK
<1>2. Credits(d) \in Nat /\ Debits(d) \in Nat /\ Credits(d) = Debits(d)
  BY <1>1, DeltaSums
<1>3. CASE verify_and_settle_dapv_stark(h)
  BY <1>2, <1>3 DEF verify_and_settle_dapv_stark, apply_settlement, TypeOK, VaultTypeOK
<1>4. CASE verify_and_settle_dapv_stark_private(h)
  BY <1>1, <1>2, <1>4, LossesSums
     DEF verify_and_settle_dapv_stark_private, apply_settlement,
         settlement_fund_escrow, TypeOK, VaultTypeOK
<1>5. QED
  BY <1>3, <1>4

\* Chips stay backed 1:1 by STRK in the vault under every interleaving, until
\* a hand is settled from a public segment (v2, v3 or proved entry).
THEOREM Backing == Spec => []ChipsBacked
<1>1. Init => ChipsBacked
  BY DEF Init, VaultInit, ChipsBacked
<1>2. TypeOK /\ ChipsBacked /\ [Next]_vars => ChipsBacked'
  <2> SUFFICES ASSUME TypeOK, ChipsBacked, [Next]_vars,
                      \A h \in Hands : ~amounts_hidden'[h]
               PROVE  vault_tokens' >= total_chips'
    BY DEF ChipsBacked
  <2>1. CASE VaultStep /\ UNCHANGED dualVars
    <3>1. vault_tokens >= total_chips
      BY <2>1 DEF ChipsBacked, dualVars, hands
    <3>2. QED
      BY <2>1, <3>1, VaultStepBacking, TypeCorrectStep DEF TypeOK, VaultTypeOK
  <2>2. ASSUME NEW h \in Hands, HandStep(h)
        PROVE  vault_tokens' >= total_chips'
    <3>1. CASE verify_and_settle_dapv_stark(h) \/ verify_and_settle_dapv_stark_private(h)
      <4>1. vault_tokens >= total_chips
        BY <3>1 DEF ChipsBacked, verify_and_settle_dapv_stark,
           verify_and_settle_dapv_stark_private
      <4>2. QED
        BY <2>2, <3>1, <4>1, CalldataSettlementBacking, HandStepType
           DEF TypeOK, VaultTypeOK
    <3>2. ASSUME NEW seg, pay_segment(h, seg)
          PROVE  FALSE
      BY <3>2 DEF pay_segment, TypeOK, DualTypeOK
    <3>3. CASE \/ \E o \in Operators, r \in Results :
                    register_hand(o, h, r) \/ register_hand_proved(o, h, r)
               \/ register_settlement_fact(h)
               \/ \E e \in Escrows, p \in Players, a \in Amounts : claim(e, h, p, a)
      <4>1. UNCHANGED <<vault_tokens, total_chips, amounts_hidden>>
        BY <3>3 DEF register_hand, register_hand_proved, write_registration,
           register_settlement_fact, claim, vaultVars, chips, hands
      <4>2. QED
        BY <4>1 DEF ChipsBacked
    <3>4. QED
      BY <2>2, <3>1, <3>2, <3>3, SegmentEntries DEF SettlesFromSegment
  <2>3. CASE DualOwnerStep
    BY <2>3 DEF ChipsBacked, DualOwnerStep, DualOwnerConfig, set_prover,
       remove_prover, set_claim_helper, set_program_hash, vaultVars, chips, hands
  <2>4. CASE UNCHANGED vars
    BY <2>4 DEF ChipsBacked, vars, vaultVars, chips, dualVars, hands
  <2>5. QED
    BY <2>1, <2>2, <2>3, <2>4 DEF Next
<1>3. QED
  BY <1>1, <1>2, TypeCorrect, PTL DEF Spec

-----------------------------------------------------------------------------
(* Locks.                                                                  *)

\* A settlement step: the only kind that changes settled_bindings.
Settles(h) ==
  \/ verify_and_settle_dapv_stark(h)
  \/ verify_and_settle_dapv_stark_private(h)
  \/ \E seg \in KnownSegments(h) : pay_segment(h, seg)

\* A step on a hand either settles it or leaves chips, locks and sessions alone.
LEMMA HandStepCases ==
  ASSUME NEW h \in Hands, HandStep(h)
  PROVE  \/ Settles(h)
         \/ UNCHANGED <<chips, session, settled_bindings>>
<1>1. CASE \E o \in Operators, d \in Results :
             register_hand(o, h, d) \/ register_hand_proved(o, h, d)
  BY <1>1 DEF register_hand, register_hand_proved, write_registration, vaultVars
<1>2. CASE register_settlement_fact(h)
  BY <1>2 DEF register_settlement_fact, vaultVars, hands
<1>3. CASE \E e \in Escrows, p \in Players, a \in Amounts : claim(e, h, p, a)
  BY <1>3 DEF claim, hands
<1>4. QED
  BY <1>1, <1>2, <1>3, SegmentEntries DEF Settles, SettlesFromSegment

\* A settlement marks its hand; it never grows a lock and takes from a lock no
\* more than its owner loses; it leaves the session clocks alone.
LEMMA SettlesEffect ==
  ASSUME TypeOK, NEW h \in Hands, Settles(h)
  PROVE  /\ settled_bindings' # settled_bindings
         /\ UNCHANGED session_active
         /\ \A p \in Players : locked'[p] <= locked[p]
         /\ \A p \in Players : locked'[p] < locked[p] =>
              locked[p] - locked'[p] <= chip_balances[p] - chip_balances'[p]
<1>1. ASSUME NEW d \in [Players -> Int], apply_settlement(Dual, d)
      PROVE  /\ UNCHANGED session_active
             /\ \A p \in Players : locked'[p] <= locked[p]
             /\ \A p \in Players : locked'[p] < locked[p] =>
                  locked[p] - locked'[p] <= chip_balances[p] - chip_balances'[p]
  BY <1>1 DEF apply_settlement, lock_after, TypeOK, VaultTypeOK
<1>2. CASE verify_and_settle_dapv_stark(h)
  <2>1. digest[h] \in [Players -> Int]
    BY <1>2 DEF verify_and_settle_dapv_stark, dapv_prelude, TypeOK, DualTypeOK
  <2>2. settled_bindings' # settled_bindings
    BY <1>2 DEF verify_and_settle_dapv_stark, dapv_prelude, TypeOK, DualTypeOK
  <2>3. QED
    BY <1>1, <1>2, <2>1, <2>2 DEF verify_and_settle_dapv_stark
<1>3. CASE verify_and_settle_dapv_stark_private(h)
  <2>1. Losses(digest[h]) \in [Players -> Int]
    BY <1>3, LossesSums
       DEF verify_and_settle_dapv_stark_private, dapv_prelude, TypeOK, DualTypeOK
  <2>2. settled_bindings' # settled_bindings
    BY <1>3 DEF verify_and_settle_dapv_stark_private, dapv_prelude, TypeOK, DualTypeOK
  <2>3. QED
    BY <1>1, <1>3, <2>1, <2>2 DEF verify_and_settle_dapv_stark_private
<1>4. CASE \E seg \in KnownSegments(h) : pay_segment(h, seg)
  <2>1. settled_bindings' # settled_bindings
    BY <1>4 DEF pay_segment, TypeOK, DualTypeOK
  <2>2. UNCHANGED session
    BY <1>4 DEF pay_segment
  <2>3. QED
    BY <2>1, <2>2 DEF session, TypeOK, VaultTypeOK
<1>5. QED
  BY <1>2, <1>3, <1>4 DEF Settles

\* Locked chips always have a running session clock, so the permissionless
\* unlock_after_deadline exists for them.
THEOREM LockSessions == Spec => []LockHasSession
<1>1. Init => LockHasSession
  BY DEF Init, VaultInit, LockHasSession
<1>2. ASSUME TypeOK, LockHasSession, [Next]_vars
      PROVE  LockHasSession'
  <2>1. CASE UNCHANGED session
    BY <1>2, <2>1 DEF LockHasSession, session
  <2>2. CASE \E p \in Players : \/ \E a \in Amounts : lock(p, a)
                                \/ refresh_session(p)
                                \/ force_unlock(p)
                                \/ unlock_after_deadline(p)
    BY <1>2, <2>2 DEF LockHasSession, lock, refresh_session, force_unlock,
       unlock_after_deadline, clear_session, TypeOK, VaultTypeOK
  <2>3. CASE \E h \in Hands : Settles(h)
    BY <1>2, <2>3, SettlesEffect, TypeCorrectStep
       DEF LockHasSession, TypeOK, VaultTypeOK
  <2>4. ASSUME NEW p \in Players, PlayerStep(p), ~unlock_after_deadline(p)
        PROVE  UNCHANGED session
    BY <2>4 DEF PlayerStep, deposit, deposit_for, privacy_buy_in,
       pull_and_credit, credit, withdraw, withdraw_to, burn_chips, debit,
       register_payout_commitment
  <2>5. ASSUME OwnerStep,
               ~ \E p \in Players : \/ \E a \in Amounts : lock(p, a)
                                    \/ refresh_session(p)
                                    \/ force_unlock(p)
        PROVE  UNCHANGED session
    BY <2>5 DEF OwnerStep, set_lock_ttl, set_authorized_helper,
       set_unshield_helper, set_settlement_contract, pause, unpause, OwnerConfig
  <2>6. CASE VaultStep
    BY <2>1, <2>2, <2>4, <2>5, <2>6 DEF VaultStep, Tick
  <2>7. CASE \E h \in Hands : HandStep(h)
    BY <2>1, <2>3, <2>7, HandStepCases
  <2>8. CASE DualOwnerStep
    BY <2>1, <2>8 DEF DualOwnerStep, DualOwnerConfig, set_prover,
       remove_prover, set_claim_helper, set_program_hash, vaultVars
  <2>9. QED
    BY <1>2, <2>1, <2>6, <2>7, <2>8 DEF Next, vars, vaultVars
<1>3. QED
  BY <1>1, <1>2, TypeCorrect, PTL DEF Spec

\* The vault's own steps: which of them can lower a balance or a lock.
LEMMA VaultStepChips ==
  ASSUME VaultTypeOK, VaultStep, NEW p \in Players
  PROVE  /\ chip_balances'[p] < chip_balances[p] => chip_balances'[p] >= locked'[p]
         /\ locked'[p] < locked[p] => locked'[p] = 0 /\ ~session_active'[p]
<1> DEFINE Goal == /\ chip_balances'[p] < chip_balances[p] => chip_balances'[p] >= locked'[p]
                   /\ locked'[p] < locked[p] => locked'[p] = 0 /\ ~session_active'[p]
<1>1. ASSUME NEW q \in Players, NEW a \in Amounts, credit(q, a)
      PROVE  Goal
  BY <1>1 DEF credit, session, VaultTypeOK
<1>2. ASSUME NEW q \in Players, NEW a \in Amounts, debit(q, a)
      PROVE  Goal
  BY <1>2 DEF debit, assert_spendable, session, VaultTypeOK
<1>3. ASSUME NEW q \in Players, clear_session(q)
      PROVE  Goal
  BY <1>3 DEF clear_session, chips, VaultTypeOK
<1>4. ASSUME NEW q \in Players, NEW a \in Amounts, lock(q, a)
      PROVE  Goal
  BY <1>4 DEF lock, chips, VaultTypeOK
<1>5. CASE UNCHANGED <<chips, locked>>
  BY <1>5 DEF chips, VaultTypeOK
<1>6. ASSUME NEW q \in Players, PlayerStep(q)
      PROVE  Goal
  <2>1. \/ \E r \in Players, a \in Amounts : credit(r, a)
        \/ \E a \in Amounts : debit(q, a)
        \/ clear_session(q)
        \/ UNCHANGED <<chips, locked>>
    BY <1>6 DEF PlayerStep, deposit, deposit_for, privacy_buy_in,
       pull_and_credit, withdraw, withdraw_to, burn_chips,
       register_payout_commitment, unlock_after_deadline, session
  <2>2. QED
    BY <1>1, <1>2, <1>3, <1>5, <2>1
<1>7. CASE OwnerStep
  <2>1. \/ \E q \in Players, a \in Amounts : lock(q, a)
        \/ \E q \in Players : clear_session(q)
        \/ UNCHANGED <<chips, locked>>
    BY <1>7 DEF OwnerStep, refresh_session, force_unlock, set_lock_ttl,
       set_authorized_helper, set_unshield_helper, set_settlement_contract,
       pause, unpause, OwnerConfig, session
  <2>2. QED
    BY <1>3, <1>4, <1>5, <2>1
<1>8. QED
  BY <1>5, <1>6, <1>7 DEF VaultStep, Tick, session

\* Every step either is a vault step, settles a hand, or leaves chips, locks
\* and the settled flags alone.
LEMMA NextCases ==
  ASSUME [Next]_vars
  PROVE  \/ VaultStep /\ UNCHANGED dualVars
         \/ \E h \in Hands : Settles(h)
         \/ UNCHANGED <<chips, session, settled_bindings>>
<1>1. CASE DualOwnerStep
  BY <1>1 DEF DualOwnerStep, DualOwnerConfig, set_prover, remove_prover,
     set_claim_helper, set_program_hash, vaultVars, hands
<1>2. CASE UNCHANGED vars
  BY <1>2 DEF vars, vaultVars, dualVars, hands
<1>3. QED
  BY <1>1, <1>2, HandStepCases DEF Next

\* No exit path (withdraw, withdraw_to, burn_chips) lets a player take chips
\* that are locked at a table; only a settlement can.
THEOREM ExitsRespectLocks == Spec => ExitsSpareLocked
<1> DEFINE A == settled_bindings' = settled_bindings =>
                  \A p \in Players : chip_balances'[p] < chip_balances[p] =>
                                        chip_balances'[p] >= locked'[p]
<1>1. ASSUME TypeOK, [Next]_vars
      PROVE  A
  <2>1. CASE VaultStep
    BY <1>1, <2>1, VaultStepChips DEF TypeOK
  <2>2. CASE \E h \in Hands : Settles(h)
    BY <1>1, <2>2, SettlesEffect
  <2>3. CASE UNCHANGED <<chips, session, settled_bindings>>
    BY <1>1, <2>3 DEF chips, TypeOK, VaultTypeOK
  <2>4. QED
    BY <1>1, <2>1, <2>2, <2>3, NextCases
<1>2. QED
  BY <1>1, TypeCorrect, PTL DEF Spec, ExitsSpareLocked

\* Locked chips disappear only into the owner's own loss or with the end of
\* the whole session.
THEOREM LocksGoToLosses == Spec => LocksConsumedByLosses
<1> DEFINE A == \A p \in Players : locked'[p] < locked[p] =>
                  \/ /\ settled_bindings' # settled_bindings
                     /\ locked[p] - locked'[p] <= chip_balances[p] - chip_balances'[p]
                  \/ locked'[p] = 0 /\ ~session_active'[p]
<1>1. ASSUME TypeOK, [Next]_vars
      PROVE  A
  <2>1. CASE VaultStep
    BY <1>1, <2>1, VaultStepChips DEF TypeOK
  <2>2. CASE \E h \in Hands : Settles(h)
    BY <1>1, <2>2, SettlesEffect
  <2>3. CASE UNCHANGED <<chips, session, settled_bindings>>
    BY <1>1, <2>3 DEF session, TypeOK, VaultTypeOK
  <2>4. QED
    BY <1>1, <2>1, <2>2, <2>3, NextCases
<1>2. QED
  BY <1>1, TypeCorrect, PTL DEF Spec, LocksConsumedByLosses

-----------------------------------------------------------------------------
(* Hands and claims.                                                       *)

\* A binding's result is fixed by its first registration; a settled hand stays
\* settled, its claims never change and a consumed claim stays consumed.
THEOREM Finality == Spec => HandFinality
<1> DEFINE A == \A h \in Hands :
       /\ digest[h] # NoDigest => digest'[h] = digest[h]
       /\ settled_bindings[h] =>
            /\ settled_bindings'[h]
            /\ claim_cms'[h] = claim_cms[h]
            /\ claim_amounts'[h] = claim_amounts[h]
            /\ \A p \in Players : claims_consumed[h][p] => claims_consumed'[h][p]
<1>1. ASSUME TypeOK, [Next]_vars
      PROVE  A
  <2>1. CASE UNCHANGED <<hands, claims>>
    BY <2>1 DEF hands, claims
  <2>2. ASSUME NEW g \in Hands, NEW o \in Operators, NEW d \in Results,
               register_hand(o, g, d) \/ register_hand_proved(o, g, d)
        PROVE  A
    BY <1>1, <2>2 DEF register_hand, register_hand_proved, write_registration,
       claims, TypeOK, DualTypeOK
  <2>3. ASSUME NEW g \in Hands, verify_and_settle_dapv_stark(g)
        PROVE  A
    BY <1>1, <2>3 DEF verify_and_settle_dapv_stark, dapv_prelude, claims,
       TypeOK, DualTypeOK
  <2>4. ASSUME NEW g \in Hands, verify_and_settle_dapv_stark_private(g)
        PROVE  A
    BY <1>1, <2>4 DEF verify_and_settle_dapv_stark_private, dapv_prelude,
       TypeOK, DualTypeOK
  <2>5. ASSUME NEW g \in Hands, NEW seg, pay_segment(g, seg)
        PROVE  A
    BY <1>1, <2>5 DEF pay_segment, TypeOK, DualTypeOK
  <2>6. ASSUME NEW g \in Hands, NEW e \in Escrows, NEW p \in Players,
               NEW a \in Amounts, claim(e, g, p, a)
        PROVE  A
    BY <1>1, <2>6 DEF claim, consume_claim, hands, TypeOK, DualTypeOK
  <2>7. ASSUME NEW g \in Hands, HandStep(g)
        PROVE  A
    BY <2>1, <2>2, <2>3, <2>4, <2>5, <2>6, <2>7, SegmentEntries
       DEF SettlesFromSegment, register_settlement_fact
  <2>8. CASE DualOwnerStep
    BY <2>1, <2>8 DEF DualOwnerStep, DualOwnerConfig, set_prover,
       remove_prover, set_claim_helper, set_program_hash
  <2>9. CASE UNCHANGED dualVars
    BY <2>1, <2>9 DEF dualVars
  <2>10. QED
    BY <1>1, <2>7, <2>8, <2>9 DEF Next, vars
<1>2. QED
  BY <1>1, TypeCorrect, PTL DEF Spec, HandFinality

\* The inductive form of ClaimsMatchResult: the facts a segment settlement
\* draws on match the registered results too.
ClaimInv == ClaimsMatchResult /\ FactsMatchResult

\* A segment that a registered fact speaks of matches its hand's result.
LEMMA FactSegmentMatches ==
  ASSUME FactsMatchResult, NEW seg \in FactSegments
  PROVE  SegmentMatches(seg)
BY DEF FactsMatchResult, FactSegments

\* Registered results are never replaced, so facts keep matching them.
LEMMA FactsKeepMatching ==
  ASSUME TypeOK, FactsMatchResult, UNCHANGED settlement_facts,
         \A h \in Hands : digest[h] # NoDigest => digest'[h] = digest[h]
  PROVE  FactsMatchResult'
<1> SUFFICES ASSUME NEW f \in settlement_facts, f[1] = "segment"
             PROVE  SegmentMatches(f[3])'
  BY DEF FactsMatchResult
<1>1. SegmentMatches(f[3])
  BY DEF FactsMatchResult
<1>2. f[3].hand \in Hands /\ f[3].digest \in Results
  BY DEF TypeOK, DualTypeOK, Facts, Segments
<1>3. QED
  BY <1>1, <1>2 DEF SegmentMatches

\* A claim promises what the registered result says its holder won: a stored
\* amount whichever entry settled the hand, a commitment unless the hand was
\* settled on a SNIP-36 message, whose commitments nothing checks.  Holds however
\* registrations, facts, messages and settlements of different hands interleave.
THEOREM ClaimsFaithful == Spec => []ClaimsMatchResult
<1>1. Init => ClaimInv
  BY DEF Init, ClaimInv, ClaimsMatchResult, FactsMatchResult
<1>2. ASSUME TypeOK, ClaimInv, [Next]_vars
      PROVE  ClaimInv'
  <2> USE <1>2
  <2>1. CASE UNCHANGED <<hands, claims, settlement_facts>>
    BY <2>1 DEF ClaimInv, ClaimsMatchResult, MatchedCm, FactsMatchResult,
       SegmentMatches, hands, claims
  <2>2. ASSUME NEW g \in Hands, NEW o \in Operators, NEW d \in Results,
               register_hand(o, g, d) \/ register_hand_proved(o, g, d)
        PROVE  ClaimInv'
    <3>1. \A h \in Hands : digest[h] # NoDigest => digest'[h] = digest[h]
      BY <2>2 DEF register_hand, register_hand_proved, write_registration,
         TypeOK, DualTypeOK
    <3>2. UNCHANGED <<claims, settled_bindings, via_snip36, settlement_facts>>
      BY <2>2 DEF register_hand, register_hand_proved, write_registration
    <3>3. ClaimsMatchResult'
      BY <3>1, <3>2 DEF ClaimInv, ClaimsMatchResult, MatchedCm, claims
    <3>4. QED
      BY <3>1, <3>2, <3>3, FactsKeepMatching DEF ClaimInv
  <2>3. ASSUME NEW g \in Hands, verify_and_settle_dapv_stark(g)
        PROVE  ClaimInv'
    <3>1. UNCHANGED <<claims, digest, via_snip36, settlement_facts>>
      BY <2>3 DEF verify_and_settle_dapv_stark
    <3>2. \A h \in Hands : settled_bindings[h] => settled_bindings'[h]
      BY <2>3 DEF verify_and_settle_dapv_stark, TypeOK, DualTypeOK
    <3>3. ClaimsMatchResult'
      BY <3>1, <3>2 DEF ClaimInv, ClaimsMatchResult, MatchedCm, claims
    <3>4. QED
      BY <3>1, <3>3, FactsKeepMatching DEF ClaimInv
  <2>4. ASSUME NEW g \in Hands, verify_and_settle_dapv_stark_private(g)
        PROVE  ClaimInv'
    <3> DEFINE d == digest[g]
    <3>1. UNCHANGED <<digest, via_snip36, settlement_facts>>
      BY <2>4 DEF verify_and_settle_dapv_stark_private
    <3>2. /\ ~settled_bindings[g]
          /\ d # NoDigest
          /\ settled_bindings' = [settled_bindings EXCEPT ![g] = TRUE]
      BY <2>4 DEF verify_and_settle_dapv_stark_private, dapv_prelude
    <3>3. \A p \in Players :
            /\ claim_amounts'[g][p] = IF p \in Winners(d) THEN d[p] ELSE claim_amounts[g][p]
            /\ claim_cms'[g][p] = IF p \in Winners(d)
                 THEN Cm(payout_commitments[p], g, d[p]) ELSE claim_cms[g][p]
      BY <2>4 DEF verify_and_settle_dapv_stark_private, TypeOK, DualTypeOK
    <3>4. \A h \in Hands \ {g} : /\ claim_amounts'[h] = claim_amounts[h]
                                  /\ claim_cms'[h] = claim_cms[h]
      BY <2>4 DEF verify_and_settle_dapv_stark_private, TypeOK, DualTypeOK
    <3>5. \A p \in Players : ~(claim_amounts[g][p] > 0) /\ claim_cms[g][p] = NoCm
      BY <3>2 DEF ClaimInv, ClaimsMatchResult
    <3>6. \A h \in Hands : settled_bindings[h] => settled_bindings'[h]
      BY <3>2 DEF TypeOK, DualTypeOK
    <3>7. settled_bindings'[g]
      BY <3>2 DEF TypeOK, DualTypeOK
    <3>8. ASSUME NEW h \in Hands, NEW p \in Players
          PROVE  /\ claim_amounts'[h][p] > 0 =>
                      /\ settled_bindings'[h]
                      /\ digest'[h] # NoDigest
                      /\ claim_amounts'[h][p] = digest'[h][p]
                 /\ claim_cms'[h][p] # NoCm =>
                      /\ settled_bindings'[h]
                      /\ digest'[h] # NoDigest
                      /\ ~via_snip36'[h] => MatchedCm(h, p)'
      <4>1. CASE h = g /\ p \in Winners(d)
        <5>1. /\ claim_amounts'[h][p] = d[p]
              /\ claim_cms'[h][p] = Cm(payout_commitments[p], g, d[p])
          BY <3>3, <4>1
        <5>2. claim_cms'[h][p].hand = h /\ claim_cms'[h][p].amount = d[p]
          BY <4>1, <5>1 DEF Cm
        <5>3. settled_bindings'[h] /\ digest'[h] # NoDigest /\ digest'[h] = d
          BY <3>1, <3>2, <3>7, <4>1
        <5>4. QED
          BY <5>1, <5>2, <5>3 DEF MatchedCm
      <4>2. CASE h = g /\ p \notin Winners(d)
        <5>1. /\ claim_amounts'[h][p] = claim_amounts[g][p]
              /\ claim_cms'[h][p] = claim_cms[g][p]
          BY <3>3, <4>2
        <5>2. QED
          BY <3>5, <5>1
      <4>3. CASE h # g
        BY <3>1, <3>4, <3>6, <4>3 DEF ClaimInv, ClaimsMatchResult, MatchedCm
      <4>4. QED
        BY <4>1, <4>2, <4>3
    <3>9. ClaimsMatchResult'
      BY <3>8 DEF ClaimsMatchResult
    <3>10. QED
      BY <3>1, <3>9, FactsKeepMatching DEF ClaimInv
  <2>5. ASSUME NEW g \in Hands, NEW seg \in KnownSegments(g), pay_segment(g, seg),
               GateRecorded(g, seg)
        PROVE  ClaimInv'
    <3>1. seg.hand = g
      BY <2>5 DEF pay_segment, validate_settlement_segment
    <3>2. /\ UNCHANGED <<digest, claim_amounts, settlement_facts>>
          /\ digest[g] # NoDigest
          /\ settled_bindings'[g]
          /\ claim_cms'[g] = seg.cms
          /\ \A h \in Hands : settled_bindings[h] => settled_bindings'[h]
          /\ \A h \in Hands \ {g} : claim_cms'[h] = claim_cms[h]
      BY <2>5 DEF pay_segment, validate_settlement_segment, TypeOK, DualTypeOK
    <3>3. \A h \in Hands \ {g} : via_snip36'[h] = via_snip36[h]
      BY <2>5 DEF GateRecorded, TypeOK, DualTypeOK
    <3>4. CASE seg \in FactSegments
      <4>1. SegmentMatches(seg)
        BY <3>4, FactSegmentMatches DEF ClaimInv
      <4>2. ClaimsMatchResult'
        BY <3>1, <3>2, <3>3, <4>1 DEF ClaimInv, ClaimsMatchResult, MatchedCm, SegmentMatches
      <4>3. QED
        BY <3>2, <4>2, FactsKeepMatching DEF ClaimInv
    <3>5. CASE via_snip36' = [via_snip36 EXCEPT ![g] = TRUE]
      <4>1. via_snip36'[g]
        BY <3>5 DEF TypeOK, DualTypeOK
      <4>2. ClaimsMatchResult'
        BY <3>2, <3>3, <4>1 DEF ClaimInv, ClaimsMatchResult, MatchedCm
      <4>3. QED
        BY <3>2, <4>2, FactsKeepMatching DEF ClaimInv
    <3>6. QED
      BY <2>5, <3>4, <3>5 DEF GateRecorded
  <2>6. ASSUME NEW g \in Hands, register_settlement_fact(g)
        PROVE  ClaimInv'
    <3>1. UNCHANGED <<hands, claims>>
      BY <2>6 DEF register_settlement_fact
    <3>2. \A f \in settlement_facts' :
            \/ f \in settlement_facts
            \/ Provable(g) /\ f = <<"segment", program_hash["circuit"], Segment(g)>>
            \/ f = <<"p_batch", program_hash["hand_verify"], g>>
      BY <2>6 DEF register_settlement_fact, fact_for_segment, hand_verify_fact
    <3>3. SegmentMatches(Segment(g))
      BY DEF SegmentMatches, Segment, Cm
    <3>4. FactsMatchResult'
      BY <3>1, <3>2, <3>3 DEF ClaimInv, FactsMatchResult, SegmentMatches, hands
    <3>5. QED
      BY <3>1, <3>4 DEF ClaimInv, ClaimsMatchResult, MatchedCm, hands, claims
  <2>7. ASSUME NEW g \in Hands, NEW e \in Escrows, NEW p \in Players,
               NEW a \in Amounts, claim(e, g, p, a)
        PROVE  ClaimInv'
    BY <2>7 DEF claim, hands, ClaimInv, ClaimsMatchResult, MatchedCm, FactsMatchResult,
       SegmentMatches
  <2>8. ASSUME NEW g \in Hands, HandStep(g)
        PROVE  ClaimInv'
    BY <2>2, <2>3, <2>4, <2>5, <2>6, <2>7, <2>8, SegmentEntries DEF SettlesFromSegment
  <2>9. CASE DualOwnerStep
    BY <2>1, <2>9 DEF DualOwnerStep, DualOwnerConfig, set_prover,
       remove_prover, set_claim_helper, set_program_hash
  <2>10. CASE UNCHANGED dualVars
    BY <2>1, <2>10 DEF dualVars
  <2>11. QED
    BY <2>8, <2>9, <2>10 DEF Next, vars
<1>3. QED
  BY <1>1, <1>2, TypeCorrect, PTL DEF Spec, ClaimInv

-----------------------------------------------------------------------------
(* Sums over the players: the counter of chips.                            *)

\* Deposits and exits move one balance and the counter by the same amount.
LEMMA OneBalanceMoves ==
  ASSUME TypeOK, TypeOK', TotalIsSum, NEW p \in Players, NEW a \in Amounts,
         credit(p, a) \/ debit(p, a)
  PROVE  TotalIsSum'
<1>1. /\ chip_balances \in [Players -> Int] /\ chip_balances' \in [Players -> Int]
      /\ a \in Int /\ total_chips = SumFunction(chip_balances)
      /\ SumFunction(chip_balances) \in Int /\ SumFunction(chip_balances') \in Int
  BY SumFunctionType DEF TypeOK, VaultTypeOK, TotalIsSum
<1>2. /\ \A q \in Players \ {p} : chip_balances'[q] = chip_balances[q]
      /\ total_chips' - total_chips = chip_balances'[p] - chip_balances[p]
  BY <1>1 DEF credit, debit, TypeOK, VaultTypeOK
<1>3. SumFunction(chip_balances')
        = SumFunction(chip_balances) - chip_balances[p] + chip_balances'[p]
  BY <1>1, <1>2, SumFunctionUpdate
<1>4. chip_balances[p] \in Int /\ chip_balances'[p] \in Int /\ total_chips' \in Int
  BY <1>1 DEF TypeOK, VaultTypeOK
<1>5. QED
  BY <1>1, <1>2, <1>3, <1>4 DEF TotalIsSum

\* A settlement moves many balances and the counter by their sum.
LEMMA ManyBalancesMove ==
  ASSUME TypeOK, TypeOK', TotalIsSum, NEW c, NEW d \in [Players -> Int],
         apply_settlement(c, d)
  PROVE  TotalIsSum'
<1>1. /\ chip_balances \in [Players -> Int] /\ chip_balances' \in [Players -> Int]
      /\ total_chips = SumFunction(chip_balances)
      /\ SumFunction(chip_balances) \in Int /\ SumFunction(d) \in Int
  BY SumFunctionType DEF TypeOK, VaultTypeOK, TotalIsSum
<1>2. /\ \A p \in Players : chip_balances'[p] = chip_balances[p] + d[p]
      /\ total_chips' = (total_chips + Credits(d)) - Debits(d)
  BY DEF apply_settlement
<1>3. SumFunction(chip_balances') = SumFunction(chip_balances) + SumFunction(d)
  BY <1>1, <1>2, SumFunctionPlus
<1>4. QED
  BY <1>1, <1>2, <1>3, DeltaSums DEF TotalIsSum

\* What a vault step does to the chips.
LEMMA VaultStepMoves ==
  ASSUME VaultStep
  PROVE  \/ \E p \in Players, a \in Amounts : credit(p, a) \/ debit(p, a)
         \/ UNCHANGED chips
<1>1. ASSUME NEW p \in Players, PlayerStep(p)
      PROVE  \/ \E q \in Players, a \in Amounts : credit(q, a) \/ debit(q, a)
             \/ UNCHANGED chips
  BY <1>1 DEF PlayerStep, deposit, deposit_for, privacy_buy_in,
     pull_and_credit, withdraw, withdraw_to, burn_chips,
     register_payout_commitment, unlock_after_deadline, clear_session
<1>2. CASE OwnerStep
  BY <1>2 DEF OwnerStep, lock, refresh_session, force_unlock, clear_session,
     set_lock_ttl, set_authorized_helper, set_unshield_helper,
     set_settlement_contract, pause, unpause, OwnerConfig
<1>3. QED
  BY <1>1, <1>2 DEF VaultStep, Tick

\* The counter the vault keeps beside the balances is their sum after every
\* deposit, exit and settlement, in every order.
THEOREM TotalCorrect == Spec => []TotalIsSum
<1>1. Init => TotalIsSum
  BY SumFunctionZero DEF Init, VaultInit, TotalIsSum
<1>2. ASSUME TypeOK, TotalIsSum, [Next]_vars
      PROVE  TotalIsSum'
  <2> USE <1>2, TypeCorrectStep
  <2>1. CASE UNCHANGED chips
    BY <1>2, <2>1 DEF TotalIsSum, chips
  <2>2. CASE VaultStep
    BY <1>2, <2>1, <2>2, VaultStepMoves, OneBalanceMoves
  <2>3. ASSUME NEW h \in Hands, Settles(h)
        PROVE  TotalIsSum'
    <3>1. CASE verify_and_settle_dapv_stark(h)
      BY <1>2, <3>1, ManyBalancesMove
         DEF verify_and_settle_dapv_stark, dapv_prelude, TypeOK, DualTypeOK
    <3>2. CASE verify_and_settle_dapv_stark_private(h)
      <4>1. digest[h] \in [Players -> Int]
        BY <1>2, <3>2
           DEF verify_and_settle_dapv_stark_private, dapv_prelude, TypeOK, DualTypeOK
      <4>2. apply_settlement(Dual, Losses(digest[h]))
        BY <3>2 DEF verify_and_settle_dapv_stark_private
      <4>3. QED
        BY <1>2, <4>1, <4>2, LossesSums, ManyBalancesMove
    <3>3. CASE \E seg \in KnownSegments(h) : pay_segment(h, seg)
      BY <2>1, <3>3 DEF pay_segment
    <3>4. QED
      BY <2>3, <3>1, <3>2, <3>3 DEF Settles
  <2>4. QED
    BY <1>2, <2>1, <2>2, <2>3, NextCases
<1>3. QED
  BY <1>1, <1>2, TypeCorrect, PTL DEF Spec

\* Outside a settlement no step changes two balances: chips pass from player to
\* player only with the hand that becomes settled in the same transaction.
THEOREM TransfersNeedSettlement == Spec => OnlySettlementTransfers
<1> DEFINE A == settled_bindings' = settled_bindings =>
       \A p, q \in Players :
         chip_balances'[p] # chip_balances[p] /\ chip_balances'[q] # chip_balances[q]
           => p = q
<1>1. ASSUME TypeOK, [Next]_vars
      PROVE  A
  <2>1. CASE UNCHANGED chips
    BY <2>1 DEF chips
  <2>2. ASSUME NEW r \in Players, NEW a \in Amounts, credit(r, a) \/ debit(r, a)
        PROVE  A
    BY <1>1, <2>2 DEF credit, debit, TypeOK, VaultTypeOK
  <2>3. CASE VaultStep
    BY <2>1, <2>2, <2>3, VaultStepMoves
  <2>4. CASE \E h \in Hands : Settles(h)
    BY <1>1, <2>4, SettlesEffect
  <2>5. QED
    BY <1>1, <2>1, <2>3, <2>4, NextCases
<1>2. QED
  BY <1>1, TypeCorrect, PTL DEF Spec, OnlySettlementTransfers

-----------------------------------------------------------------------------
(* Sums over the hands: what segment settlements paid out without a debit. *)

HiddenPayout ==
  [h \in Hands |-> IF amounts_hidden[h] THEN Credits(digest[h]) ELSE 0]

\* A hand settled from a segment is a registered and settled one, and every
\* segment fact asks for what the winners of its result gain.
HiddenInv ==
  /\ \A h \in Hands : amounts_hidden[h] => digest[h] \in Results /\ settled_bindings[h]
  /\ \A h \in Hands : via_snip36[h] => settled_bindings[h]
  /\ \A f \in settlement_facts : f[1] = "segment" => f[3].total = Credits(f[3].digest)

\* What a settlement from a registered fact moves into the escrow.
LEMMA FactSegmentTotal ==
  ASSUME HiddenInv, NEW seg \in FactSegments
  PROVE  seg.total = Credits(seg.digest)
BY DEF HiddenInv, FactSegments

\* HiddenInv is inductive.
LEMMA HiddenInvStep ==
  ASSUME TypeOK, HiddenInv, [Next]_vars
  PROVE  HiddenInv'
<1>1. CASE UNCHANGED <<hands, settlement_facts>>
  BY <1>1 DEF HiddenInv, hands
<1>2. ASSUME NEW g \in Hands, HandStep(g)
      PROVE  HiddenInv'
  <2>1. CASE \E o \in Operators, d \in Results :
               register_hand(o, g, d) \/ register_hand_proved(o, g, d)
    BY <2>1 DEF register_hand, register_hand_proved, write_registration,
       HiddenInv, TypeOK, DualTypeOK
  <2>2. CASE verify_and_settle_dapv_stark(g)
    BY <2>2 DEF verify_and_settle_dapv_stark, HiddenInv, TypeOK, DualTypeOK
  <2>3. CASE verify_and_settle_dapv_stark_private(g)
    BY <2>3 DEF verify_and_settle_dapv_stark_private, HiddenInv, TypeOK, DualTypeOK
  <2>4. CASE register_settlement_fact(g)
    <3>1. UNCHANGED hands
      BY <2>4 DEF register_settlement_fact
    <3>2. \A f \in settlement_facts' :
            \/ f \in settlement_facts
            \/ f = <<"segment", program_hash["circuit"], Segment(g)>>
            \/ f = <<"p_batch", program_hash["hand_verify"], g>>
      BY <2>4 DEF register_settlement_fact, fact_for_segment, hand_verify_fact
    <3>3. Segment(g).total = Credits(Segment(g).digest)
      BY DEF Segment
    <3>4. \A f \in settlement_facts' : f[1] = "segment" => f[3].total = Credits(f[3].digest)
      BY <3>2, <3>3 DEF HiddenInv
    <3>5. QED
      BY <3>1, <3>4 DEF HiddenInv, hands
  <2>5. CASE SettlesFromSegment(g)
    BY <2>5 DEF SettlesFromSegment, GateRecorded, pay_segment, validate_settlement_segment,
       HiddenInv, TypeOK, DualTypeOK
  <2>6. CASE \E e \in Escrows, p \in Players, a \in Amounts : claim(e, g, p, a)
    BY <1>1, <2>6 DEF claim
  <2>7. QED
    BY <1>2, <2>1, <2>2, <2>3, <2>4, <2>5, <2>6, SegmentEntries
<1>3. CASE DualOwnerStep
  BY <1>1, <1>3 DEF DualOwnerStep, DualOwnerConfig, set_prover,
     remove_prover, set_claim_helper, set_program_hash
<1>4. CASE UNCHANGED dualVars
  BY <1>1, <1>4 DEF dualVars
<1>5. QED
  BY <1>2, <1>3, <1>4 DEF Next, vars

\* Every hidden payout is a natural number.
LEMMA HiddenPayoutType ==
  ASSUME TypeOK, HiddenInv
  PROVE  /\ HiddenPayout \in [Hands -> Int]
         /\ SumFunction(HiddenPayout) \in Int
<1>1. HiddenPayout \in [Hands -> Int]
  BY DeltaSums DEF HiddenPayout, HiddenInv
<1>2. QED
  BY <1>1, SumFunctionType

\* Only a segment settlement changes the hidden payouts, and no other step lets
\* the chips outgrow the STRK.
LEMMA BackedStep ==
  ASSUME TypeOK, HiddenInv, [Next]_vars,
         ~ \E h \in Hands : SettlesFromSegment(h)
  PROVE  /\ HiddenPayout' = HiddenPayout
         /\ UNCHANGED via_snip36
         /\ vault_tokens' - total_chips' >= vault_tokens - total_chips
<1>0. vault_tokens \in Int /\ total_chips \in Int
  BY DEF TypeOK, VaultTypeOK
<1>1. CASE VaultStep /\ UNCHANGED dualVars
  BY <1>1, VaultStepBacking DEF TypeOK, HiddenPayout, dualVars, hands
<1>2. ASSUME NEW g \in Hands, HandStep(g)
      PROVE  /\ HiddenPayout' = HiddenPayout
             /\ UNCHANGED via_snip36
             /\ vault_tokens' - total_chips' >= vault_tokens - total_chips
  <2>1. CASE \E o \in Operators, d \in Results :
               register_hand(o, g, d) \/ register_hand_proved(o, g, d)
    <3>1. /\ UNCHANGED <<amounts_hidden, via_snip36, vault_tokens, total_chips>>
          /\ digest[g] = NoDigest
          /\ \A h \in Hands \ {g} : digest'[h] = digest[h]
      BY <2>1 DEF register_hand, register_hand_proved, write_registration,
         vaultVars, chips, TypeOK, DualTypeOK
    <3>2. \A h \in Hands : amounts_hidden[h] => digest'[h] = digest[h]
      BY <3>1 DEF HiddenInv
    <3>3. HiddenPayout' = HiddenPayout
      BY <3>1, <3>2 DEF HiddenPayout
    <3>4. QED
      BY <1>0, <3>1, <3>3
  <2>2. CASE verify_and_settle_dapv_stark(g) \/ verify_and_settle_dapv_stark_private(g)
    <3>1. UNCHANGED <<amounts_hidden, via_snip36, digest>>
      BY <2>2 DEF verify_and_settle_dapv_stark, verify_and_settle_dapv_stark_private
    <3>2. vault_tokens' - total_chips' = vault_tokens - total_chips
      BY <2>2, CalldataSettlementBacking
    <3>3. QED
      BY <1>0, <3>1, <3>2 DEF HiddenPayout
  <2>3. CASE \/ register_settlement_fact(g)
             \/ \E e \in Escrows, p \in Players, a \in Amounts : claim(e, g, p, a)
    BY <1>0, <2>3 DEF register_settlement_fact, claim, vaultVars, chips, hands, HiddenPayout
  <2>4. QED
    BY <1>2, <2>1, <2>2, <2>3, SegmentEntries
<1>3. CASE DualOwnerStep
  BY <1>0, <1>3 DEF HiddenPayout, DualOwnerStep, DualOwnerConfig, set_prover,
     remove_prover, set_claim_helper, set_program_hash, vaultVars, chips, hands
<1>4. CASE UNCHANGED vars
  BY <1>0, <1>4 DEF HiddenPayout, vars, vaultVars, chips, dualVars, hands
<1>5. QED
  BY <1>1, <1>2, <1>3, <1>4 DEF Next

\* A settlement from a fact pays the winners of a hand that was not settled before.
LEMMA SegmentPaysHidden ==
  ASSUME TypeOK, TypeOK', HiddenInv, HiddenInv',
         NEW g \in Hands, NEW seg \in FactSegments, pay_segment(g, seg)
  PROVE  /\ SumFunction(HiddenPayout') = SumFunction(HiddenPayout) + seg.total
         /\ seg.total \in Nat
         /\ vault_tokens' = vault_tokens - seg.total
         /\ UNCHANGED total_chips
<1>1. /\ seg.total = Credits(digest[g]) /\ digest[g] \in Results /\ digest[g] # NoDigest
  BY FactSegmentTotal
     DEF pay_segment, validate_settlement_segment, TypeOK, DualTypeOK
<1>2. seg.total \in Nat
  BY <1>1, DeltaSums
<1>3. /\ vault_tokens' = vault_tokens - seg.total /\ UNCHANGED <<total_chips, digest>>
      /\ amounts_hidden' = [amounts_hidden EXCEPT ![g] = TRUE]
      /\ ~settled_bindings[g]
  BY DEF pay_segment, settlement_fund_escrow, chips
<1>4. ~amounts_hidden[g]
  BY <1>3 DEF HiddenInv
<1>5. /\ HiddenPayout[g] = 0 /\ HiddenPayout'[g] = seg.total
      /\ \A h \in Hands \ {g} : HiddenPayout'[h] = HiddenPayout[h]
  BY <1>1, <1>3, <1>4 DEF HiddenPayout, TypeOK, DualTypeOK
<1>6. /\ HiddenPayout \in [Hands -> Int] /\ HiddenPayout' \in [Hands -> Int]
      /\ SumFunction(HiddenPayout) \in Int
  <2>1. HiddenPayout \in [Hands -> Int] /\ SumFunction(HiddenPayout) \in Int
    BY HiddenPayoutType
  <2>2. HiddenPayout' \in [Hands -> Int]
    BY DeltaSums DEF HiddenPayout, HiddenInv
  <2>3. QED
    BY <2>1, <2>2
<1>7. SumFunction(HiddenPayout') = SumFunction(HiddenPayout) - HiddenPayout[g] + HiddenPayout'[g]
  BY <1>5, <1>6, SumFunctionUpdate
<1>8. QED
  BY <1>2, <1>3, <1>5, <1>6, <1>7

\* Settlements from a registered segment fact pay winners without debiting
\* losers: the STRK missing behind the chips never exceeds what the registered
\* results of those hands paid out, as long as no hand was settled on a SNIP-36
\* message, which may ask for any total.
THEOREM ShortfallBounded == Spec => []ShortfallIsHiddenPayout
<1> DEFINE Inv == /\ HiddenInv
                  /\ (\A h \in Hands : ~via_snip36[h]) =>
                        vault_tokens + SumFunction(HiddenPayout) >= total_chips
<1>1. Init => Inv
  <2> SUFFICES ASSUME Init PROVE Inv
    OBVIOUS
  <2>1. HiddenInv
    BY DEF Init, HiddenInv
  <2>2. HiddenPayout = [h \in Hands |-> 0]
    BY DEF Init, HiddenPayout
  <2>3. SumFunction(HiddenPayout) = 0
    BY <2>2, SumFunctionZero
  <2>4. vault_tokens = 0 /\ total_chips = 0
    BY DEF Init, VaultInit
  <2>5. QED
    BY <2>1, <2>3, <2>4
<1>2. ASSUME TypeOK, Inv, [Next]_vars
      PROVE  Inv'
  <2>1. TypeOK' /\ HiddenInv /\ HiddenInv'
    BY <1>2, TypeCorrectStep, HiddenInvStep
  <2> SUFFICES ASSUME \A h \in Hands : ~via_snip36'[h]
               PROVE  vault_tokens' + SumFunction(HiddenPayout') >= total_chips'
    BY <2>1
  <2>2. /\ vault_tokens \in Int /\ total_chips \in Int
        /\ vault_tokens' \in Int /\ total_chips' \in Int
        /\ SumFunction(HiddenPayout) \in Int
    BY <1>2, <2>1, HiddenPayoutType DEF TypeOK, VaultTypeOK
  <2>3. CASE \E h \in Hands : SettlesFromSegment(h)
    <3>1. PICK h \in Hands : SettlesFromSegment(h)
      BY <2>3
    <3>2. PICK seg \in KnownSegments(h) : pay_segment(h, seg) /\ GateRecorded(h, seg)
      BY <3>1 DEF SettlesFromSegment
    <3>3. /\ seg \in FactSegments
          /\ via_snip36' = via_snip36 \/ via_snip36' = [via_snip36 EXCEPT ![h] = FALSE]
      BY <1>2, <3>2 DEF GateRecorded, TypeOK, DualTypeOK
    <3>4. ~via_snip36[h]
      BY <2>1, <3>2 DEF HiddenInv, pay_segment
    <3>5. \A g \in Hands : ~via_snip36[g]
      BY <1>2, <3>3, <3>4 DEF TypeOK, DualTypeOK
    <3>6. vault_tokens + SumFunction(HiddenPayout) >= total_chips
      BY <1>2, <3>5
    <3>7. /\ SumFunction(HiddenPayout') = SumFunction(HiddenPayout) + seg.total
          /\ seg.total \in Nat
          /\ vault_tokens' = vault_tokens - seg.total
          /\ UNCHANGED total_chips
      BY <1>2, <2>1, <3>2, <3>3, SegmentPaysHidden
    <3>8. QED
      BY <2>2, <3>6, <3>7
  <2>4. CASE ~ \E h \in Hands : SettlesFromSegment(h)
    <3>1. /\ HiddenPayout' = HiddenPayout
          /\ UNCHANGED via_snip36
          /\ vault_tokens' - total_chips' >= vault_tokens - total_chips
      BY <1>2, <2>1, <2>4, BackedStep
    <3>2. vault_tokens + SumFunction(HiddenPayout) >= total_chips
      BY <1>2, <3>1
    <3>3. \A v, t, w, u, s \in Int : v + s >= t /\ w - u >= v - t => w + s >= u
      OBVIOUS
    <3>4. vault_tokens' + SumFunction(HiddenPayout) >= total_chips'
      BY <2>2, <3>1, <3>2, <3>3
    <3>5. QED
      BY <3>1, <3>4
  <2>5. QED
    BY <2>3, <2>4
<1>3. Inv => ShortfallIsHiddenPayout
  BY DEF ShortfallIsHiddenPayout, HiddenPayout
<1>4. QED
  BY <1>1, <1>2, <1>3, TypeCorrect, PTL DEF Spec

-----------------------------------------------------------------------------
(* Sums over hands and players: what the escrows still owe.                *)

OpenTotals == [h \in Hands |-> SumFunction(OpenClaims(h))]

\* What is open is a natural number, per claim, per hand and in all.
LEMMA OpenTypes ==
  ASSUME TypeOK
  PROVE  /\ \A h \in Hands : OpenClaims(h) \in [Players -> Nat]
         /\ OpenTotals \in [Hands -> Nat]
         /\ SumFunction(OpenTotals) \in Nat
         /\ SumFunction(escrow_tokens) \in Nat
<1>1. \A h \in Hands : OpenClaims(h) \in [Players -> Nat]
  BY DEF OpenClaims, TypeOK, DualTypeOK
<1>2. OpenTotals \in [Hands -> Nat]
  BY <1>1, SumFunctionType DEF OpenTotals
<1>3. escrow_tokens \in [Escrows -> Nat]
  BY DEF TypeOK, VaultTypeOK
<1>4. QED
  BY <1>1, <1>2, <1>3, SumFunctionType

\* One escrow gains or loses a: so does their sum.
LEMMA EscrowMoves ==
  ASSUME TypeOK, TypeOK', NEW e \in Escrows, NEW a \in Int,
         escrow_tokens'[e] = escrow_tokens[e] + a,
         \A f \in Escrows \ {e} : escrow_tokens'[f] = escrow_tokens[f]
  PROVE  SumFunction(escrow_tokens') = SumFunction(escrow_tokens) + a
<1>1. escrow_tokens \in [Escrows -> Int] /\ escrow_tokens' \in [Escrows -> Int]
  BY DEF TypeOK, VaultTypeOK
<1>2. SumFunction(escrow_tokens')
        = SumFunction(escrow_tokens) - escrow_tokens[e] + escrow_tokens'[e]
  BY <1>1, SumFunctionUpdate
<1>3. SumFunction(escrow_tokens) \in Int /\ escrow_tokens[e] \in Int
  BY <1>1, SumFunctionType
<1>4. QED
  BY <1>2, <1>3

\* A private settlement opens claims for what it moves into the escrow.
LEMMA PrivateOpensWhatItFunds ==
  ASSUME TypeOK, TypeOK', ClaimsMatchResult, NEW g \in Hands,
         verify_and_settle_dapv_stark_private(g)
  PROVE  /\ OpenTotals'[g] = Credits(digest[g])
         /\ \A h \in Hands \ {g} : OpenTotals'[h] = OpenTotals[h]
         /\ Credits(digest[g]) \in Nat
         /\ SumFunction(escrow_tokens') = SumFunction(escrow_tokens) + Credits(digest[g])
<1> DEFINE d == digest[g]
<1>1. d \in [Players -> Int] /\ ~settled_bindings[g] /\ claim_helper \in Escrows
  BY DEF verify_and_settle_dapv_stark_private, dapv_prelude, TypeOK, DualTypeOK
<1>2. Credits(d) \in Nat
  BY <1>1, DeltaSums
<1>3. \A p \in Players : claim_amounts[g][p] = 0
  BY <1>1 DEF ClaimsMatchResult, TypeOK, DualTypeOK
<1>4. \A p \in Players :
        /\ claim_amounts'[g][p] = IF p \in Winners(d) THEN d[p] ELSE claim_amounts[g][p]
        /\ claims_consumed'[g][p] = IF p \in Winners(d) THEN FALSE ELSE claims_consumed[g][p]
  BY DEF verify_and_settle_dapv_stark_private, TypeOK, DualTypeOK
<1>5. OpenClaims(g)' = [p \in Players |-> IF d[p] > 0 THEN d[p] ELSE 0]
  BY <1>3, <1>4 DEF OpenClaims, Winners
<1>6. OpenTotals'[g] = Credits(d)
  BY <1>5 DEF OpenTotals, Credits
<1>7. \A h \in Hands \ {g} : OpenClaims(h)' = OpenClaims(h)
  BY DEF verify_and_settle_dapv_stark_private, OpenClaims, TypeOK, DualTypeOK
<1>8. \A h \in Hands \ {g} : OpenTotals'[h] = OpenTotals[h]
  BY <1>7 DEF OpenTotals
<1>9. /\ escrow_tokens'[claim_helper] = escrow_tokens[claim_helper] + Credits(d)
      /\ \A f \in Escrows \ {claim_helper} : escrow_tokens'[f] = escrow_tokens[f]
  BY <1>1 DEF verify_and_settle_dapv_stark_private, settlement_fund_escrow,
     TypeOK, VaultTypeOK
<1>10. SumFunction(escrow_tokens') = SumFunction(escrow_tokens) + Credits(d)
  BY <1>1, <1>2, <1>9, EscrowMoves
<1>11. QED
  BY <1>2, <1>6, <1>8, <1>10

\* A claim pays what it closes.
LEMMA ClaimClosesWhatItPays ==
  ASSUME TypeOK, TypeOK', NEW g \in Hands, NEW e \in Escrows, NEW p \in Players,
         NEW a \in Amounts, claim(e, g, p, a)
  PROVE  /\ OpenTotals'[g] = OpenTotals[g] - a
         /\ \A h \in Hands \ {g} : OpenTotals'[h] = OpenTotals[h]
         /\ SumFunction(escrow_tokens') = SumFunction(escrow_tokens) - a
<1>1. a \in Int /\ -a \in Int
  OBVIOUS
<1>2. /\ claim_amounts[g][p] = a /\ ~claims_consumed[g][p]
      /\ claims_consumed' = [claims_consumed EXCEPT ![g][p] = TRUE]
      /\ UNCHANGED claim_amounts
  BY DEF claim, consume_claim
<1>3. /\ OpenClaims(g)[p] = a /\ OpenClaims(g)'[p] = 0
      /\ \A q \in Players \ {p} : OpenClaims(g)'[q] = OpenClaims(g)[q]
  BY <1>2 DEF OpenClaims, TypeOK, DualTypeOK
<1>4. OpenClaims(g) \in [Players -> Int] /\ OpenClaims(g)' \in [Players -> Int]
  BY DEF OpenClaims, TypeOK, DualTypeOK
<1>5. SumFunction(OpenClaims(g)') = SumFunction(OpenClaims(g)) - OpenClaims(g)[p] + OpenClaims(g)'[p]
  BY <1>3, <1>4, SumFunctionUpdate
<1>6. SumFunction(OpenClaims(g)) \in Int
  BY <1>4, SumFunctionType
<1>7. SumFunction(OpenClaims(g)') = SumFunction(OpenClaims(g)) - a
  BY <1>1, <1>3, <1>5, <1>6
<1>8. OpenTotals'[g] = OpenTotals[g] - a
  BY <1>7 DEF OpenTotals
<1>9. \A h \in Hands \ {g} : OpenClaims(h)' = OpenClaims(h)
  BY <1>2 DEF OpenClaims, TypeOK, DualTypeOK
<1>10. \A h \in Hands \ {g} : OpenTotals'[h] = OpenTotals[h]
  BY <1>9 DEF OpenTotals
<1>11. /\ escrow_tokens'[e] = escrow_tokens[e] + (-a)
       /\ \A f \in Escrows \ {e} : escrow_tokens'[f] = escrow_tokens[f]
  BY DEF claim, TypeOK, VaultTypeOK
<1>12. SumFunction(escrow_tokens') = SumFunction(escrow_tokens) + (-a)
  BY <1>1, <1>11, EscrowMoves
<1>13. SumFunction(escrow_tokens) \in Int
  BY OpenTypes
<1>14. QED
  BY <1>1, <1>8, <1>10, <1>12, <1>13

\* A segment settlement funds the escrow and opens no stored claim.
LEMMA SegmentFundsEscrow ==
  ASSUME TypeOK, TypeOK', NEW g \in Hands, NEW seg \in KnownSegments(g), pay_segment(g, seg)
  PROVE  /\ OpenTotals' = OpenTotals
         /\ SumFunction(escrow_tokens') >= SumFunction(escrow_tokens)
<1>1. seg.total \in Nat /\ claim_helper \in Escrows
  BY KnownSegmentType DEF Segments, pay_segment, TypeOK, DualTypeOK
<1>2. /\ escrow_tokens'[claim_helper] = escrow_tokens[claim_helper] + seg.total
      /\ \A f \in Escrows \ {claim_helper} : escrow_tokens'[f] = escrow_tokens[f]
  BY <1>1 DEF pay_segment, settlement_fund_escrow, TypeOK, VaultTypeOK
<1>3. SumFunction(escrow_tokens') = SumFunction(escrow_tokens) + seg.total
  BY <1>1, <1>2, EscrowMoves
<1>4. SumFunction(escrow_tokens') >= SumFunction(escrow_tokens)
  BY <1>1, <1>3, OpenTypes
<1>5. OpenTotals' = OpenTotals
  BY DEF pay_segment, OpenTotals, OpenClaims
<1>6. QED
  BY <1>4, <1>5

\* Every other step leaves escrows and stored claims alone.
LEMMA EscrowUntouched ==
  ASSUME [Next]_vars,
         ~ \E g \in Hands :
             \/ verify_and_settle_dapv_stark_private(g)
             \/ \E seg \in KnownSegments(g) : pay_segment(g, seg)
             \/ \E e \in Escrows, p \in Players, a \in Amounts : claim(e, g, p, a)
  PROVE  UNCHANGED <<escrow_tokens, claim_amounts, claims_consumed>>
<1>1. CASE VaultStep /\ UNCHANGED dualVars
  <2>1. ASSUME NEW p \in Players, PlayerStep(p)
        PROVE  UNCHANGED escrow_tokens
    BY <2>1 DEF PlayerStep, deposit, deposit_for, privacy_buy_in,
       pull_and_credit, credit, withdraw, withdraw_to, burn_chips, debit,
       register_payout_commitment, unlock_after_deadline, clear_session
  <2>2. ASSUME OwnerStep \/ Tick
        PROVE  UNCHANGED escrow_tokens
    BY <2>2 DEF OwnerStep, Tick, lock, refresh_session, force_unlock,
       clear_session, set_lock_ttl, set_authorized_helper, set_unshield_helper,
       set_settlement_contract, pause, unpause, OwnerConfig
  <2>3. QED
    BY <1>1, <2>1, <2>2 DEF VaultStep, dualVars, claims
<1>2. ASSUME NEW g \in Hands, HandStep(g)
      PROVE  UNCHANGED <<escrow_tokens, claim_amounts, claims_consumed>>
  BY <1>2, SegmentEntries DEF SettlesFromSegment, register_hand, register_hand_proved,
     write_registration, verify_and_settle_dapv_stark, register_settlement_fact,
     vaultVars, claims
<1>3. CASE DualOwnerStep
  BY <1>3 DEF DualOwnerStep, DualOwnerConfig, set_prover, remove_prover,
     set_claim_helper, set_program_hash, vaultVars, claims
<1>4. CASE UNCHANGED vars
  BY <1>4 DEF vars, vaultVars, dualVars, claims
<1>5. QED
  BY <1>1, <1>2, <1>3, <1>4 DEF Next

\* The escrows hold the STRK for every published amount that is not consumed
\* yet, however settlements, claims and changes of the claim helper interleave.
THEOREM EscrowSolvent == Spec => []EscrowCoversClaims
<1> DEFINE Inv == SumFunction(OpenTotals) <= SumFunction(escrow_tokens)
<1>1. Init => Inv
  <2> SUFFICES ASSUME Init PROVE Inv
    OBVIOUS
  <2>1. \A h \in Hands : OpenClaims(h) = [p \in Players |-> 0]
    BY DEF Init, OpenClaims
  <2>2. OpenTotals = [h \in Hands |-> 0]
    BY <2>1, SumFunctionZero DEF OpenTotals
  <2>3. escrow_tokens = [e \in Escrows |-> 0]
    BY DEF Init, VaultInit
  <2>4. SumFunction(OpenTotals) = 0 /\ SumFunction(escrow_tokens) = 0
    BY <2>2, <2>3, SumFunctionZero
  <2>5. QED
    BY <2>4
<1>2. ASSUME TypeOK, ClaimsMatchResult, Inv, [Next]_vars
      PROVE  Inv'
  <2>1. TypeOK'
    BY <1>2, TypeCorrectStep
  <2>2. /\ OpenTotals \in [Hands -> Int] /\ OpenTotals' \in [Hands -> Int]
        /\ SumFunction(OpenTotals) \in Int
        /\ SumFunction(escrow_tokens) \in Int
        /\ SumFunction(OpenTotals) <= SumFunction(escrow_tokens)
    <3>1. OpenTotals \in [Hands -> Nat] /\ SumFunction(OpenTotals) \in Nat
          /\ SumFunction(escrow_tokens) \in Nat
      BY <1>2, OpenTypes
    <3>2. \A h \in Hands : OpenClaims(h)' \in [Players -> Nat]
      BY <2>1 DEF OpenClaims, TypeOK, DualTypeOK
    <3>3. OpenTotals' \in [Hands -> Int]
      BY <3>2, SumFunctionType DEF OpenTotals
    <3>4. QED
      BY <1>2, <3>1, <3>3
  <2>3. ASSUME NEW g \in Hands, \A h \in Hands \ {g} : OpenTotals'[h] = OpenTotals[h]
        PROVE  SumFunction(OpenTotals') = SumFunction(OpenTotals) - OpenTotals[g] + OpenTotals'[g]
    BY <2>2, <2>3, SumFunctionUpdate
  <2>4. ASSUME NEW g \in Hands, verify_and_settle_dapv_stark_private(g)
        PROVE  Inv'
    <3>1. /\ OpenTotals'[g] = Credits(digest[g])
          /\ \A h \in Hands \ {g} : OpenTotals'[h] = OpenTotals[h]
          /\ Credits(digest[g]) \in Nat
          /\ SumFunction(escrow_tokens') = SumFunction(escrow_tokens) + Credits(digest[g])
      BY <1>2, <2>1, <2>4, PrivateOpensWhatItFunds
    <3>2. OpenTotals[g] \in Nat
      BY <1>2, OpenTypes
    <3>3. SumFunction(OpenTotals') = SumFunction(OpenTotals) - OpenTotals[g] + OpenTotals'[g]
      BY <2>3, <3>1
    <3>4. QED
      BY <2>2, <3>1, <3>2, <3>3
  <2>5. ASSUME NEW g \in Hands, NEW seg \in KnownSegments(g), pay_segment(g, seg)
        PROVE  Inv'
    <3>1. /\ OpenTotals' = OpenTotals
          /\ SumFunction(escrow_tokens') >= SumFunction(escrow_tokens)
      BY <1>2, <2>1, <2>5, SegmentFundsEscrow
    <3>2. SumFunction(escrow_tokens') \in Int
      BY <2>1, SumFunctionType DEF TypeOK, VaultTypeOK
    <3>3. QED
      BY <2>2, <3>1, <3>2
  <2>6. ASSUME NEW g \in Hands, NEW e \in Escrows, NEW p \in Players,
               NEW a \in Amounts, claim(e, g, p, a)
        PROVE  Inv'
    <3>1. /\ OpenTotals'[g] = OpenTotals[g] - a
          /\ \A h \in Hands \ {g} : OpenTotals'[h] = OpenTotals[h]
          /\ SumFunction(escrow_tokens') = SumFunction(escrow_tokens) - a
      BY <1>2, <2>1, <2>6, ClaimClosesWhatItPays
    <3>2. OpenTotals[g] \in Int /\ a \in Int
      BY <2>2
    <3>3. SumFunction(OpenTotals') = SumFunction(OpenTotals) - OpenTotals[g] + OpenTotals'[g]
      BY <2>3, <3>1
    <3>4. QED
      BY <2>2, <3>1, <3>2, <3>3
  <2>7. CASE UNCHANGED <<escrow_tokens, claim_amounts, claims_consumed>>
    <3>1. OpenTotals' = OpenTotals
      BY <2>7 DEF OpenTotals, OpenClaims
    <3>2. QED
      BY <2>2, <2>7, <3>1
  <2>8. QED
    BY <1>2, <2>4, <2>5, <2>6, <2>7, EscrowUntouched
<1>3. Inv <=> EscrowCoversClaims
  BY DEF EscrowCoversClaims, OpenTotals, OpenClaims
<1>4. QED
  BY <1>1, <1>2, <1>3, TypeCorrect, ClaimsFaithful, PTL DEF Spec

-----------------------------------------------------------------------------
(* The contracts implement the ledger.                                     *)

Custody == vault_tokens + SumFunction(escrow_tokens)
Owed == [h \in Hands |-> OpenClaims(h)]
Effected == {h \in Hands : settled_bindings[h]}

\* The ledger adds up the way the contracts do.
LEMMA LedgerSum ==
  ASSUME NEW f
  PROVE  Ledger!SumFunction(f) = SumFunction(f)
BY DEF Ledger!SumFunction, SumFunction, Ledger!SumFunctionOnSet, SumFunctionOnSet,
   Ledger!FoldFunctionOnSet, FoldFunctionOnSet, Ledger!MapThenFoldSet, MapThenFoldSet

\* Custody is a natural number that follows the vault where no escrow moves.
LEMMA CustodyMoves ==
  ASSUME TypeOK
  PROVE  /\ Custody \in Nat
         /\ \A a \in Int : UNCHANGED escrow_tokens /\ vault_tokens' = vault_tokens + a
                             => Custody' = Custody + a
<1>1. vault_tokens \in Nat /\ SumFunction(escrow_tokens) \in Nat
  BY OpenTypes DEF TypeOK, VaultTypeOK
<1>2. QED
  BY <1>1 DEF Custody

\* A deposit in any of its forms is a buy-in.
LEMMA CreditIsBuyIn ==
  ASSUME TypeOK, NEW p \in Players, NEW a \in Amounts, a > 0, credit(p, a), UNCHANGED dualVars
  PROVE  Ledger!BuyIn(p)
<1>1. a \in Nat /\ UNCHANGED escrow_tokens /\ vault_tokens' = vault_tokens + a
  BY VaultAssumption DEF credit
<1>2. Custody \in Nat /\ Custody' = Custody + a
  BY <1>1, CustodyMoves
<1>3. Custody' > Custody /\ Custody' - Custody = a
  BY <1>1, <1>2
<1>4. chip_balances' = [chip_balances EXCEPT ![p] = @ + (Custody' - Custody)]
  BY <1>3 DEF credit
<1>5. UNCHANGED <<Owed, digest, Effected>>
  BY DEF dualVars, hands, claims, Owed, OpenClaims, Effected
<1>6. QED
  BY <1>3, <1>4, <1>5 DEF Ledger!BuyIn, Custody, Owed, Effected

\* Every exit is a cash-out or, when the STRK stays, a burn.
LEMMA DebitIsExit ==
  ASSUME TypeOK, NEW p \in Players, NEW a \in Amounts, debit(p, a), UNCHANGED dualVars
  PROVE  /\ vault_tokens' = vault_tokens - a => Ledger!CashOut(p)
         /\ UNCHANGED vault_tokens => Ledger!Burn(p)
<1>1. /\ a \in Nat /\ -a \in Int /\ a \in 1..chip_balances[p] /\ UNCHANGED escrow_tokens
      /\ chip_balances' = [chip_balances EXCEPT ![p] = @ - a]
  BY VaultAssumption DEF debit, assert_spendable, TypeOK, VaultTypeOK
<1>2. UNCHANGED <<Owed, digest, Effected>>
  BY DEF dualVars, hands, claims, Owed, OpenClaims, Effected
<1>3. ASSUME vault_tokens' = vault_tokens - a PROVE Ledger!CashOut(p)
  <2>1. vault_tokens \in Int
    BY DEF TypeOK, VaultTypeOK
  <2>2. vault_tokens' = vault_tokens + (-a)
    BY <1>1, <1>3, <2>1
  <2>3. Custody \in Nat /\ Custody' = Custody + (-a)
    BY <1>1, <2>2, CustodyMoves
  <2>4. Custody' = Custody - a
    BY <1>1, <2>3
  <2>5. QED
    BY <1>1, <1>2, <2>4 DEF Ledger!CashOut, Custody, Owed, Effected
<1>4. ASSUME UNCHANGED vault_tokens PROVE Ledger!Burn(p)
  <2>1. UNCHANGED Custody
    BY <1>1, <1>4 DEF Custody
  <2>2. QED
    BY <1>1, <1>2, <2>1 DEF Ledger!Burn, Custody, Owed, Effected
<1>5. QED
  BY <1>3, <1>4

\* What a step that touches neither chips nor tokens nor hands nor claims is
\* to the ledger.
LEMMA Unnoticed ==
  ASSUME UNCHANGED <<chips, vault_tokens, escrow_tokens, claim_amounts, claims_consumed,
                     digest, settled_bindings>>
  PROVE  UNCHANGED Ledger!ledgerVars
<1>1. UNCHANGED <<Owed, Custody, Effected, chip_balances, digest>>
  BY DEF Owed, OpenClaims, Custody, Effected, chips
<1>2. QED
  BY <1>1 DEF Ledger!ledgerVars, Owed, Custody, Effected

\* The vault's own entries.
LEMMA VaultStepOfLedger ==
  ASSUME TypeOK, VaultStep, UNCHANGED dualVars
  PROVE  \/ \E p \in Players : Ledger!BuyIn(p) \/ Ledger!CashOut(p) \/ Ledger!Burn(p)
         \/ UNCHANGED Ledger!ledgerVars
<1>1. ASSUME NEW p \in Players, PlayerStep(p)
      PROVE  \/ \E q \in Players, a \in Amounts : a > 0 /\ credit(q, a)
             \/ \E a \in Amounts : debit(p, a) /\ (vault_tokens' = vault_tokens - a \/ UNCHANGED vault_tokens)
             \/ UNCHANGED <<chips, vault_tokens, escrow_tokens>>
  BY <1>1 DEF PlayerStep, deposit, deposit_for, privacy_buy_in, pull_and_credit, withdraw,
     withdraw_to, burn_chips, register_payout_commitment, unlock_after_deadline, clear_session
<1>2. ASSUME OwnerStep \/ Tick
      PROVE  UNCHANGED <<chips, vault_tokens, escrow_tokens>>
  BY <1>2 DEF OwnerStep, Tick, lock, refresh_session, force_unlock, clear_session,
     set_lock_ttl, set_authorized_helper, set_unshield_helper,
     set_settlement_contract, pause, unpause, OwnerConfig
<1>3. CASE UNCHANGED <<chips, vault_tokens, escrow_tokens>>
  BY <1>3, Unnoticed DEF dualVars, hands, claims
<1>4. QED
  BY <1>1, <1>2, <1>3, CreditIsBuyIn, DebitIsExit DEF VaultStep

\* A settlement marks one hand and leaves registrations alone.
LEMMA SettlesCloses ==
  ASSUME TypeOK, NEW h \in Hands, Settles(h)
  PROVE  /\ ~settled_bindings[h] /\ digest[h] # NoDigest /\ digest[h] \in [Players -> Int]
         /\ UNCHANGED digest
         /\ h \notin Effected /\ Effected' = Effected \cup {h}
<1>1. /\ ~settled_bindings[h] /\ digest[h] # NoDigest /\ UNCHANGED digest
      /\ settled_bindings' = [settled_bindings EXCEPT ![h] = TRUE]
  BY DEF Settles, verify_and_settle_dapv_stark, verify_and_settle_dapv_stark_private,
     dapv_prelude, pay_segment, validate_settlement_segment
<1>2. digest[h] \in [Players -> Int] /\ settled_bindings \in [Hands -> BOOLEAN]
  BY <1>1, DualAssumption DEF TypeOK, DualTypeOK
<1>3. QED
  BY <1>1, <1>2 DEF Effected

\* The linear entry transfers chips.
LEMMA LinearIsTransfer ==
  ASSUME TypeOK, NEW h \in Hands, verify_and_settle_dapv_stark(h)
  PROVE  Ledger!Transfer(h)
<1>1. /\ digest[h] # NoDigest /\ h \notin Effected /\ Effected' = Effected \cup {h}
      /\ UNCHANGED digest
  BY SettlesCloses DEF Settles
<1>2. /\ SumFunction(digest[h]) = 0
      /\ \A p \in Players : chip_balances[p] + digest[h][p] >= 0
      /\ chip_balances' = [p \in Players |-> chip_balances[p] + digest[h][p]]
  BY DEF verify_and_settle_dapv_stark, assert_zero_sum, apply_settlement
<1>3. UNCHANGED <<Custody, Owed>>
  BY DEF verify_and_settle_dapv_stark, claims, Custody, Owed, OpenClaims
<1>4. Ledger!Close(h)
  BY <1>1, <1>3 DEF Ledger!Close, Custody, Effected
<1>5. QED
  BY <1>2, <1>3, <1>4, LedgerSum DEF Ledger!Transfer, Ledger!Affordable, Owed

\* The private entry promises: what leaves the vault is in the escrow.
LEMMA PrivateIsPromise ==
  ASSUME TypeOK, TypeOK', ClaimsMatchResult, NEW h \in Hands,
         verify_and_settle_dapv_stark_private(h)
  PROVE  Ledger!Promise(h)
<1> DEFINE d == digest[h]
<1>1. /\ ~settled_bindings[h] /\ d # NoDigest /\ d \in [Players -> Int]
      /\ h \notin Effected /\ Effected' = Effected \cup {h} /\ UNCHANGED digest
  BY SettlesCloses DEF Settles
<1>2. /\ SumFunction(d) = 0 /\ claim_helper \in Escrows
      /\ apply_settlement(Dual, Losses(d)) /\ settlement_fund_escrow(Dual, claim_helper, Credits(d))
  BY DEF verify_and_settle_dapv_stark_private, assert_zero_sum, TypeOK, DualTypeOK
<1>3. /\ chip_balances' = [p \in Players |-> chip_balances[p] + Losses(d)[p]]
      /\ \A p \in Players : chip_balances[p] + Losses(d)[p] >= 0
  BY <1>2 DEF apply_settlement
<1>4. \A p \in Players : chip_balances[p] + d[p] >= 0
  BY <1>1, <1>3 DEF Losses, TypeOK, VaultTypeOK
<1>5. UNCHANGED Custody
  <2>1. /\ Credits(d) \in Nat
        /\ SumFunction(escrow_tokens') = SumFunction(escrow_tokens) + Credits(d)
    BY PrivateOpensWhatItFunds
  <2>2. vault_tokens' = vault_tokens - Credits(d)
    BY <1>2 DEF settlement_fund_escrow
  <2>3. vault_tokens \in Int /\ SumFunction(escrow_tokens) \in Int
    BY OpenTypes DEF TypeOK, VaultTypeOK
  <2>4. QED
    BY <2>1, <2>2, <2>3 DEF Custody
<1>6. Owed' = [Owed EXCEPT ![h] = Ledger!Gain(d)]
  <2>1. \A p \in Players : claim_amounts[h][p] = 0
    BY <1>1 DEF ClaimsMatchResult, TypeOK, DualTypeOK
  <2>2. \A p \in Players :
          /\ claim_amounts'[h][p] = IF p \in Winners(d) THEN d[p] ELSE claim_amounts[h][p]
          /\ claims_consumed'[h][p] = IF p \in Winners(d) THEN FALSE ELSE claims_consumed[h][p]
    BY DEF verify_and_settle_dapv_stark_private, TypeOK, DualTypeOK
  <2>3. OpenClaims(h)' = Ledger!Gain(d)
    BY <2>1, <2>2 DEF OpenClaims, Winners, Ledger!Gain
  <2>4. \A g \in Hands \ {h} : OpenClaims(g)' = OpenClaims(g)
    BY DEF verify_and_settle_dapv_stark_private, OpenClaims, TypeOK, DualTypeOK
  <2>5. QED
    BY <2>3, <2>4 DEF Owed
<1>7. \A p \in Players : Losses(d)[p] = Ledger!Loss(d)[p]
  BY DEF Losses, Ledger!Loss
<1>8. chip_balances' = [p \in Players |-> chip_balances[p] + Ledger!Loss(d)[p]]
  BY <1>3, <1>7
<1>9. Ledger!Close(h)
  BY <1>1, <1>5 DEF Ledger!Close, Custody, Effected
<1>10. QED
  BY <1>2, <1>4, <1>6, <1>8, <1>9, LedgerSum DEF Ledger!Promise, Ledger!Affordable, Owed

\* The segment entries end a hand without moving a chip.
LEMMA SegmentIsConceal ==
  ASSUME TypeOK, TypeOK', NEW h \in Hands, NEW seg \in KnownSegments(h), pay_segment(h, seg)
  PROVE  Ledger!Conceal(h)
<1>1. /\ digest[h] # NoDigest /\ h \notin Effected /\ Effected' = Effected \cup {h}
      /\ UNCHANGED digest
  BY SettlesCloses DEF Settles
<1>2. seg.total \in Nat /\ claim_helper \in Escrows
  BY KnownSegmentType DEF Segments, pay_segment, TypeOK, DualTypeOK
<1>3. UNCHANGED Custody
  <2>1. /\ escrow_tokens'[claim_helper] = escrow_tokens[claim_helper] + seg.total
        /\ \A f \in Escrows \ {claim_helper} : escrow_tokens'[f] = escrow_tokens[f]
        /\ vault_tokens' = vault_tokens - seg.total
    BY <1>2 DEF pay_segment, settlement_fund_escrow, TypeOK, VaultTypeOK
  <2>2. SumFunction(escrow_tokens') = SumFunction(escrow_tokens) + seg.total
    BY <1>2, <2>1, EscrowMoves
  <2>3. vault_tokens \in Int /\ SumFunction(escrow_tokens) \in Int
    BY OpenTypes DEF TypeOK, VaultTypeOK
  <2>4. QED
    BY <1>2, <2>1, <2>2, <2>3 DEF Custody
<1>4. UNCHANGED <<chip_balances, Owed>>
  BY DEF pay_segment, chips, Owed, OpenClaims
<1>5. QED
  BY <1>1, <1>3, <1>4 DEF Ledger!Conceal, Ledger!Close, Custody, Owed, Effected

\* A claim collects.
LEMMA ClaimIsCollect ==
  ASSUME TypeOK, TypeOK', NEW h \in Hands, NEW e \in Escrows, NEW p \in Players,
         NEW a \in Amounts, claim(e, h, p, a)
  PROVE  Ledger!Collect(h, p)
<1>1. /\ a \in Nat /\ a > 0 /\ claim_amounts[h][p] = a /\ ~claims_consumed[h][p]
      /\ claims_consumed' = [claims_consumed EXCEPT ![h][p] = TRUE]
      /\ UNCHANGED <<claim_amounts, vault_tokens, chips, digest, settled_bindings>>
  BY VaultAssumption DEF claim, consume_claim, hands
<1>2. Owed[h][p] = a
  BY <1>1 DEF Owed, OpenClaims
<1>3. Owed' = [Owed EXCEPT ![h][p] = 0]
  <2>1. \A g \in Hands, q \in Players :
          OpenClaims(g)'[q] = IF g = h /\ q = p THEN 0 ELSE OpenClaims(g)[q]
    BY <1>1 DEF OpenClaims, TypeOK, DualTypeOK
  <2>2. \A g \in Hands : /\ DOMAIN OpenClaims(g) = Players /\ DOMAIN OpenClaims(g)' = Players
                         /\ OpenClaims(g) = [q \in Players |-> OpenClaims(g)[q]]
                         /\ OpenClaims(g)' = [q \in Players |-> OpenClaims(g)'[q]]
    BY DEF OpenClaims
  <2>3. \A g \in Hands \ {h} : OpenClaims(g)' = OpenClaims(g)
    BY <2>1, <2>2
  <2>4. OpenClaims(h)' = [OpenClaims(h) EXCEPT ![p] = 0]
    BY <2>1, <2>2
  <2>5. QED
    BY <2>3, <2>4 DEF Owed
<1>4. Custody' = Custody - a
  <2>1. SumFunction(escrow_tokens') = SumFunction(escrow_tokens) - a
    BY ClaimClosesWhatItPays
  <2>2. vault_tokens \in Int /\ SumFunction(escrow_tokens) \in Int
    BY OpenTypes DEF TypeOK, VaultTypeOK
  <2>3. QED
    BY <1>1, <2>1, <2>2 DEF Custody
<1>5. UNCHANGED <<chip_balances, digest, Effected>>
  BY <1>1 DEF chips, Effected
<1>6. QED
  BY <1>1, <1>2, <1>3, <1>4, <1>5 DEF Ledger!Collect, Owed, Custody, Effected

\* A registration is recorded.
LEMMA RegistrationIsRecord ==
  ASSUME TypeOK, NEW h \in Hands, NEW d \in Results, write_registration(h, d)
  PROVE  Ledger!Record(h)
<1>1. /\ digest[h] = NoDigest /\ digest' = [digest EXCEPT ![h] = d]
      /\ UNCHANGED <<chip_balances, vault_tokens, escrow_tokens, settled_bindings,
                     claim_amounts, claims_consumed>>
  BY DEF write_registration, vaultVars, chips, claims
<1>2. UNCHANGED <<Owed, Custody, Effected>>
  BY <1>1 DEF Owed, OpenClaims, Custody, Effected
<1>3. QED
  BY <1>1, <1>2 DEF Ledger!Record, Owed, Custody, Effected

LEMMA LedgerStep ==
  ASSUME TypeOK, ClaimsMatchResult, [Next]_vars
  PROVE  [Ledger!LedgerNext]_(Ledger!ledgerVars)
<1>1. TypeOK'
  BY TypeCorrectStep
<1>2. CASE VaultStep /\ UNCHANGED dualVars
  BY <1>2, VaultStepOfLedger DEF Ledger!LedgerNext
<1>3. ASSUME NEW h \in Hands, HandStep(h)
      PROVE  [Ledger!LedgerNext]_(Ledger!ledgerVars)
  <2>1. CASE \E o \in Operators, d \in Results :
               register_hand(o, h, d) \/ register_hand_proved(o, h, d)
    BY <2>1, RegistrationIsRecord DEF register_hand, register_hand_proved, Ledger!LedgerNext
  <2>2. CASE register_settlement_fact(h)
    BY <2>2, Unnoticed DEF register_settlement_fact, vaultVars, hands, claims
  <2>3. CASE \E e \in Escrows, p \in Players, a \in Amounts : claim(e, h, p, a)
    BY <1>1, <2>3, ClaimIsCollect DEF Ledger!LedgerNext
  <2>4. CASE verify_and_settle_dapv_stark(h)
    BY <2>4, LinearIsTransfer DEF Ledger!LedgerNext
  <2>5. CASE verify_and_settle_dapv_stark_private(h)
    BY <1>1, <2>5, PrivateIsPromise DEF Ledger!LedgerNext
  <2>6. CASE \E seg \in KnownSegments(h) : pay_segment(h, seg)
    BY <1>1, <2>6, SegmentIsConceal DEF Ledger!LedgerNext
  <2>7. QED
    BY <1>3, <2>1, <2>2, <2>3, <2>4, <2>5, <2>6, SegmentEntries DEF SettlesFromSegment
<1>4. CASE DualOwnerStep
  BY <1>4, Unnoticed DEF DualOwnerStep, DualOwnerConfig, set_prover, remove_prover,
     set_claim_helper, set_program_hash, vaultVars, hands, claims
<1>5. CASE UNCHANGED vars
  BY <1>5, Unnoticed DEF vars, vaultVars, dualVars, hands, claims
<1>6. QED
  BY <1>2, <1>3, <1>4, <1>5 DEF Next

LEMMA LedgerStart ==
  ASSUME Init
  PROVE  Ledger!LedgerInit
<1>1. /\ chip_balances = [p \in Players |-> 0] /\ vault_tokens = 0
      /\ escrow_tokens = [e \in Escrows |-> 0]
      /\ digest = [h \in Hands |-> NoDigest]
  BY DEF Init, VaultInit
<1>2. Custody = 0
  BY <1>1, SumFunctionZero, VaultAssumption DEF Custody
<1>3. Owed = [h \in Hands |-> [p \in Players |-> 0]]
  BY DEF Init, Owed, OpenClaims
<1>4. Effected = {}
  BY DEF Init, Effected
<1>5. QED
  BY <1>1, <1>2, <1>3, <1>4 DEF Ledger!LedgerInit, Owed, Custody, Effected

\* Vault, settlement contract and escrows together implement the ledger: every
\* transaction is a buy-in, a cash-out, a burn, a first registration, one of
\* the three ways a hand takes effect, a collected claim, or nothing.
THEOREM ContractsImplementLedger == Spec => ImplementsLedger
<1>1. Init => Ledger!LedgerInit
  BY LedgerStart
<1>2. TypeOK /\ ClaimsMatchResult /\ [Next]_vars => [Ledger!LedgerNext]_(Ledger!ledgerVars)
  BY LedgerStep
<1>3. QED
  BY <1>1, <1>2, TypeCorrect, ClaimsFaithful, PTL DEF Spec, ImplementsLedger, Ledger!LedgerSpec

-----------------------------------------------------------------------------
(* The custody covers what the ledger owes.                                *)

Chips == SumFunction(chip_balances)
Claims == SumFunction(OpenTotals)
Covers == Chips + Claims <= Custody

\* Both sides are natural numbers, before and after a step.
LEMMA CoverTypes ==
  ASSUME TypeOK
  PROVE  /\ chip_balances \in [Players -> Int] /\ Chips \in Nat
         /\ OpenTotals \in [Hands -> Nat] /\ OpenTotals \in [Hands -> Int] /\ Claims \in Nat
         /\ Custody \in Nat
<1>1. chip_balances \in [Players -> Nat]
  BY DEF TypeOK, VaultTypeOK
<1>2. Chips \in Nat
  BY <1>1, SumFunctionType, VaultAssumption DEF Chips
<1>3. OpenTotals \in [Hands -> Nat] /\ Claims \in Nat
  BY OpenTypes DEF Claims
<1>4. QED
  BY <1>1, <1>2, <1>3, CustodyMoves

\* What a step writes is typed the same.
LEMMA CoverTypesNext ==
  ASSUME TypeOK'
  PROVE  /\ chip_balances' \in [Players -> Int] /\ Chips' \in Nat
         /\ OpenTotals' \in [Hands -> Int] /\ Claims' \in Nat
         /\ Custody' \in Nat
<1>1. chip_balances' \in [Players -> Nat] /\ \A h \in Hands : OpenClaims(h)' \in [Players -> Nat]
  BY DEF TypeOK, VaultTypeOK, DualTypeOK, OpenClaims
<1>2. OpenTotals' \in [Hands -> Nat]
  BY <1>1, SumFunctionType, VaultAssumption DEF OpenTotals
<1>3. Chips' \in Nat /\ Claims' \in Nat
  BY <1>1, <1>2, SumFunctionType, VaultAssumption, DualAssumption DEF Chips, Claims
<1>4. vault_tokens' \in Nat /\ escrow_tokens' \in [Escrows -> Nat]
  BY DEF TypeOK, VaultTypeOK
<1>5. Custody' \in Nat
  BY <1>4, SumFunctionType, VaultAssumption DEF Custody
<1>6. QED
  BY <1>1, <1>2, <1>3, <1>5

\* One player's chips move: so do the chips in all.
LEMMA OnePlayerMoves ==
  ASSUME TypeOK, TypeOK', NEW p \in Players, NEW a \in Int,
         chip_balances' = [chip_balances EXCEPT ![p] = @ + a]
  PROVE  Chips' = Chips + a
<1>1. /\ chip_balances'[p] = chip_balances[p] + a
      /\ \A q \in Players \ {p} : chip_balances'[q] = chip_balances[q]
      /\ chip_balances[p] \in Int
  BY CoverTypes
<1>2. /\ chip_balances \in [Players -> Int] /\ chip_balances' \in [Players -> Int]
      /\ IsFiniteSet(Players)
  BY CoverTypes, CoverTypesNext, VaultAssumption
<1>3. SumFunction(chip_balances') = SumFunction(chip_balances) - chip_balances[p] + chip_balances'[p]
  BY ONLY <1>1, <1>2, SumFunctionUpdate, p \in Players
<1>4. QED
  BY <1>1, <1>3, CoverTypes DEF Chips

\* One hand's claims move: so do the claims in all.
LEMMA OneHandMoves ==
  ASSUME TypeOK, TypeOK', NEW h \in Hands, \A g \in Hands \ {h} : Owed'[g] = Owed[g]
  PROVE  /\ Claims' = Claims - OpenTotals[h] + OpenTotals'[h]
         /\ OpenTotals[h] \in Nat /\ OpenTotals'[h] \in Int
<1>1. \A g \in Hands \ {h} : OpenTotals'[g] = OpenTotals[g]
  BY DEF OpenTotals, Owed
<1>2. QED
  BY <1>1, CoverTypes, CoverTypesNext, SumFunctionUpdate, DualAssumption DEF Claims

\* Claims that do not move count the same.
LEMMA SameOwed ==
  ASSUME UNCHANGED Owed
  PROVE  Claims' = Claims
<1>1. \A h \in Hands : OpenClaims(h)' = OpenClaims(h)
  BY DEF Owed
<1>2. QED
  BY <1>1 DEF Claims, OpenTotals

\* Gains and losses of a result add up to it.
LEMMA GainsAndLosses ==
  ASSUME NEW d \in [Players -> Int]
  PROVE  /\ Ledger!Gain(d) \in [Players -> Int] /\ Ledger!Loss(d) \in [Players -> Int]
         /\ SumFunction(Ledger!Gain(d)) \in Int /\ SumFunction(Ledger!Loss(d)) \in Int
         /\ SumFunction(d) = SumFunction(Ledger!Gain(d)) + SumFunction(Ledger!Loss(d))
<1>1. /\ Ledger!Gain(d) \in [Players -> Int] /\ Ledger!Loss(d) \in [Players -> Int]
      /\ \A p \in Players : d[p] = Ledger!Gain(d)[p] + Ledger!Loss(d)[p]
  BY DEF Ledger!Gain, Ledger!Loss
<1>2. QED
  BY <1>1, SumFunctionPlus, SumFunctionType, VaultAssumption

\* No step of the ledger owes more than it holds.
LEMMA LedgerCovers ==
  ASSUME TypeOK, TypeOK', Covers, [Ledger!LedgerNext]_(Ledger!ledgerVars)
  PROVE  Covers'
<1> USE CoverTypes, CoverTypesNext
<1>1. ASSUME NEW p \in Players, Ledger!BuyIn(p) PROVE Covers'
  <2>1. /\ Custody' > Custody /\ UNCHANGED Owed
        /\ chip_balances' = [chip_balances EXCEPT ![p] = @ + (Custody' - Custody)]
    BY <1>1 DEF Ledger!BuyIn, Custody, Owed
  <2>2. Custody' - Custody \in Int /\ Custody' \in Nat
    OBVIOUS
  <2>3. Chips' = Chips + (Custody' - Custody)
    BY ONLY TypeOK, TypeOK', <2>1, <2>2, OnePlayerMoves
  <2>4. QED
    BY <2>1, <2>2, <2>3, SameOwed DEF Covers
<1>2. ASSUME NEW p \in Players, Ledger!CashOut(p) \/ Ledger!Burn(p) PROVE Covers'
  <2>1. PICK a \in 1..chip_balances[p] :
          /\ UNCHANGED Owed /\ chip_balances' = [chip_balances EXCEPT ![p] = @ - a]
          /\ Custody' = Custody - a \/ Custody' = Custody
    BY <1>2 DEF Ledger!CashOut, Ledger!Burn, Custody, Owed
  <2>2. a \in Int /\ a > 0 /\ -a \in Int /\ chip_balances[p] \in Int
    OBVIOUS
  <2>3. chip_balances' = [chip_balances EXCEPT ![p] = @ + (-a)]
    BY <2>1, <2>2
  <2>4. Chips' = Chips + (-a)
    BY <2>2, <2>3, OnePlayerMoves
  <2>5. QED
    BY <2>1, <2>2, <2>4, SameOwed DEF Covers
<1>3. ASSUME NEW h \in Hands, Ledger!Record(h) \/ Ledger!Conceal(h) PROVE Covers'
  <2>1. UNCHANGED <<chip_balances, Owed, Custody>>
    BY <1>3 DEF Ledger!Record, Ledger!Conceal, Ledger!Close, Custody, Owed
  <2>2. QED
    BY <2>1, SameOwed DEF Covers, Chips
<1>4. ASSUME NEW h \in Hands, Ledger!Transfer(h) PROVE Covers'
  <2>1. /\ digest[h] # NoDigest /\ SumFunction(digest[h]) = 0
        /\ chip_balances' = [p \in Players |-> chip_balances[p] + digest[h][p]]
        /\ UNCHANGED <<Owed, Custody>>
    BY <1>4, LedgerSum DEF Ledger!Transfer, Ledger!Close, Ledger!Affordable, Custody, Owed
  <2>2. digest[h] \in [Players -> Int]
    BY <2>1, DualAssumption DEF TypeOK, DualTypeOK
  <2>3. Chips' = Chips + SumFunction(digest[h])
    BY <2>1, <2>2, SumFunctionPlus, VaultAssumption DEF Chips
  <2>4. QED
    BY <2>1, <2>3, SameOwed DEF Covers
<1>5. ASSUME NEW h \in Hands, Ledger!Promise(h) PROVE Covers'
  <2> DEFINE d == digest[h]
  <2>1. /\ d # NoDigest /\ SumFunction(d) = 0
        /\ chip_balances' = [p \in Players |-> chip_balances[p] + Ledger!Loss(d)[p]]
        /\ Owed' = [Owed EXCEPT ![h] = Ledger!Gain(d)]
        /\ UNCHANGED Custody
    BY <1>5, LedgerSum DEF Ledger!Promise, Ledger!Close, Ledger!Affordable, Custody, Owed
  <2>2. d \in [Players -> Int]
    BY <2>1, DualAssumption DEF TypeOK, DualTypeOK
  <2>3. Chips' = Chips + SumFunction(Ledger!Loss(d))
    BY <2>1, <2>2, GainsAndLosses, SumFunctionPlus, VaultAssumption DEF Chips
  <2>4. OpenTotals'[h] = SumFunction(Ledger!Gain(d)) /\ \A g \in Hands \ {h} : Owed'[g] = Owed[g]
    BY <2>1 DEF OpenTotals, Owed
  <2>5. /\ Claims' = Claims - OpenTotals[h] + OpenTotals'[h]
        /\ OpenTotals[h] \in Nat
    BY <2>4, OneHandMoves
  <2>6. /\ SumFunction(Ledger!Gain(d)) \in Int /\ SumFunction(Ledger!Loss(d)) \in Int
        /\ SumFunction(Ledger!Gain(d)) + SumFunction(Ledger!Loss(d)) = 0
    BY <2>1, <2>2, GainsAndLosses
  <2>7. QED
    BY <2>1, <2>3, <2>4, <2>5, <2>6 DEF Covers
<1>6. ASSUME NEW h \in Hands, NEW p \in Players, Ledger!Collect(h, p) PROVE Covers'
  <2>1. /\ Owed[h][p] > 0 /\ Owed' = [Owed EXCEPT ![h][p] = 0]
        /\ Custody' = Custody - Owed[h][p] /\ UNCHANGED chip_balances
    BY <1>6 DEF Ledger!Collect, Custody, Owed
  <2>2. /\ OpenClaims(h) \in [Players -> Int] /\ Owed[h] = OpenClaims(h)
        /\ OpenClaims(h)' = Owed'[h]
    BY OpenTypes DEF Owed
  <2>3. OpenClaims(h)' = [OpenClaims(h) EXCEPT ![p] = 0]
    BY <2>1, <2>2 DEF Owed
  <2>4. OpenClaims(h)' \in [Players -> Int] /\ OpenClaims(h)'[p] = 0
        /\ \A q \in Players \ {p} : OpenClaims(h)'[q] = OpenClaims(h)[q]
    BY <2>2, <2>3
  <2>5. SumFunction(OpenClaims(h)') = SumFunction(OpenClaims(h)) - OpenClaims(h)[p] + 0
    BY <2>2, <2>4, SumFunctionUpdate, VaultAssumption
  <2>6. OpenTotals[h] = SumFunction(OpenClaims(h)) /\ OpenTotals'[h] = SumFunction(OpenClaims(h)')
    BY DEF OpenTotals
  <2>7. \A g \in Hands \ {h} : Owed'[g] = Owed[g]
    BY <2>1 DEF Owed
  <2>8. /\ Claims' = Claims - OpenTotals[h] + OpenTotals'[h]
        /\ OpenTotals[h] \in Nat /\ OpenTotals'[h] \in Int
    BY <2>7, OneHandMoves
  <2>9. OpenClaims(h)[p] \in Int /\ Chips' = Chips
    BY <2>1, <2>2 DEF Chips
  <2>10. QED
    BY <2>1, <2>2, <2>5, <2>6, <2>8, <2>9 DEF Covers
<1>7. CASE UNCHANGED Ledger!ledgerVars
  <2>1. UNCHANGED <<chip_balances, Owed, Custody>>
    BY <1>7 DEF Ledger!ledgerVars, Custody, Owed
  <2>2. QED
    BY <2>1, SameOwed DEF Covers, Chips
<1>8. QED
  BY <1>1, <1>2, <1>3, <1>4, <1>5, <1>6, <1>7 DEF Ledger!LedgerNext

\* Vault and escrows together hold a token for every chip and for every
\* published claim that is still open, whatever settlements of all three kinds,
\* claims, deposits and withdrawals come in between.
THEOREM CustodyCoversAll == Spec => []CustodyCovers
<1>1. Init => Covers
  <2> SUFFICES ASSUME Init PROVE Covers
    OBVIOUS
  <2>1. /\ chip_balances = [p \in Players |-> 0] /\ vault_tokens = 0
        /\ escrow_tokens = [e \in Escrows |-> 0]
    BY DEF Init, VaultInit
  <2>2. \A h \in Hands : OpenClaims(h) = [p \in Players |-> 0]
    BY DEF Init, OpenClaims
  <2>3. OpenTotals = [h \in Hands |-> 0]
    BY <2>2, SumFunctionZero, VaultAssumption DEF OpenTotals
  <2>4. Chips = 0 /\ Claims = 0 /\ Custody = 0
    BY <2>1, <2>3, SumFunctionZero, VaultAssumption, DualAssumption DEF Chips, Claims, Custody
  <2>5. QED
    BY <2>4 DEF Covers
<1>2. TypeOK /\ ClaimsMatchResult /\ Covers /\ [Next]_vars => Covers'
  BY TypeCorrectStep, LedgerStep, LedgerCovers
<1>3. Covers => CustodyCovers
  BY LedgerSum DEF Covers, Chips, Claims, Custody, OpenTotals, CustodyCovers, Ledger!Covered
<1>4. QED
  BY <1>1, <1>2, <1>3, TypeCorrect, ClaimsFaithful, PTL DEF Spec
=============================================================================
