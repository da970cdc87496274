------------------------ MODULE PokerDualSettlement -------------------------
(***************************************************************************)
(* The settlement contract (poker_dual_settlement.cairo) composed with the *)
(* vault it drives.  A prover registers the result of a hand under its     *)
(* binding; one of five entries then settles the binding once:             *)
(*   - linear: every delta is applied to the players' chips;               *)
(*   - private: losers are debited, each winner gets a claim on the escrow;*)
(*   - v2, v3, proved: the escrow is funded from a public segment and the  *)
(*     claims carry their amounts only inside a commitment.                *)
(* A digest (Poseidon, collision free) is represented by the deltas it     *)
(* commits to, a segment by the fields the contract reads.                 *)
(***************************************************************************)
EXTENDS PokerVault

CONSTANTS
  Hands,          \* hand bindings (non-zero felts)
  Results,        \* delta vectors a prover may register
  Operators,      \* accounts the owner may whitelist as provers
  ProgramHashes,  \* program hashes the owner may pin
  NoHash,         \* the zero felt: program hash not set
  NoDigest,       \* binding not registered
  NoCm            \* the zero felt: no claim commitment

\* cm = poseidon(commitment, hand_binding, amount): injective in its inputs.
Cm(c, h, amount) == [commitment |-> c, hand |-> h, amount |-> amount]
ClaimCms == [commitment : Commitments, hand : Hands, amount : Nat]

ASSUME DualAssumption ==
  /\ IsFiniteSet(Hands)
  /\ Results \subseteq [Players -> Int]
  /\ NoDigest \notin Results
  /\ NoHash \notin ProgramHashes
  /\ NoCm \notin ClaimCms
  /\ Nobody \notin Escrows

\* Mutant: losers are not debited in private mode.
Losses_spared(d) == [p \in Players |-> 0]

\* The part of d that is applied to chips in private mode.
Losses(d) == [p \in Players |-> IF d[p] < 0 THEN d[p] ELSE 0]

VARIABLES
  provers,           \* whitelisted operators
  digest,            \* binding -> registered result or NoDigest
  p_batch,           \* binding -> BOOLEAN: registered with a p_batch commitment
  settled_bindings,  \* binding -> BOOLEAN
  claim_helper,      \* escrow that receives winners' pots, or Nobody
  claim_cms,         \* binding -> player -> claim commitment or NoCm
  claim_amounts,     \* binding -> player -> claimable amount (0 = none)
  claims_consumed,   \* binding -> player -> BOOLEAN
  amounts_hidden,    \* binding -> BOOLEAN
  via_snip36,        \* event DualProofSettledSnip36: binding -> BOOLEAN
  program_hash,      \* circuit / hand_verify / virtual_snos -> hash or NoHash
  settlement_facts   \* registered facts, <<program hash, statement>>

hands == <<digest, p_batch, settled_bindings, amounts_hidden, via_snip36>>
claims == <<claim_cms, claim_amounts, claims_consumed>>
dualConfig == <<provers, claim_helper, program_hash>>
dualVars == <<hands, claims, dualConfig, settlement_facts>>
vars == <<vaultVars, dualVars>>

Programs == {"circuit", "hand_verify", "virtual_snos"}

Init ==
  /\ VaultInit
  /\ provers = Operators
  /\ digest = [h \in Hands |-> NoDigest]
  /\ p_batch = [h \in Hands |-> FALSE]
  /\ settled_bindings = [h \in Hands |-> FALSE]
  /\ claim_helper = Nobody
  /\ claim_cms = [h \in Hands |-> [p \in Players |-> NoCm]]
  /\ claim_amounts = [h \in Hands |-> [p \in Players |-> 0]]
  /\ claims_consumed = [h \in Hands |-> [p \in Players |-> FALSE]]
  /\ amounts_hidden = [h \in Hands |-> FALSE]
  /\ via_snip36 = [h \in Hands |-> FALSE]
  /\ program_hash = [k \in Programs |-> NoHash]
  /\ settlement_facts = {}

-----------------------------------------------------------------------------
(* Registration.                                                           *)

\* Mutant: a later registration overwrites the first.
write_registration_again(h, d) ==
  /\ digest' = [digest EXCEPT ![h] = d]
  /\ UNCHANGED <<vaultVars, settled_bindings, amounts_hidden, via_snip36,
                 claims, dualConfig, settlement_facts>>

\* The first registration of a binding, linear or proved, locks it.
write_registration(h, d) ==
  /\ digest[h] = NoDigest
  /\ digest' = [digest EXCEPT ![h] = d]
  /\ UNCHANGED <<vaultVars, settled_bindings, amounts_hidden, via_snip36,
                 claims, dualConfig, settlement_facts>>

register_hand(caller, h, d) ==
  /\ caller \in provers
  /\ write_registration(h, d)
  /\ UNCHANGED p_batch

register_hand_proved(caller, h, d) ==
  /\ caller \in provers
  /\ write_registration(h, d)
  /\ p_batch' = [p_batch EXCEPT ![h] = TRUE]

-----------------------------------------------------------------------------
(* Settlement with the deltas in calldata.                                 *)

\* Mutant: the conservation check is skipped.
assert_zero_sum_skipped(d) == TRUE

assert_zero_sum(d) == SumFunction(d) = 0

\* Mutant: a settled binding is not refused.
dapv_prelude_replayable(h) == digest[h] # NoDigest

\* dapv_prelude: not settled, registered, and the calldata hashes to the
\* registered digest, so it is the registered result.
dapv_prelude(h) ==
  /\ ~settled_bindings[h]
  /\ digest[h] # NoDigest

verify_and_settle_dapv_stark(h) ==
  /\ dapv_prelude(h)
  /\ assert_zero_sum(digest[h])
  /\ apply_settlement(Dual, digest[h])
  /\ settled_bindings' = [settled_bindings EXCEPT ![h] = TRUE]
  /\ UNCHANGED <<vault_tokens, escrow_tokens, digest, p_batch,
                 amounts_hidden, via_snip36, claims, dualConfig, settlement_facts>>

Winners(d) == {p \in Players : d[p] > 0}

verify_and_settle_dapv_stark_private(h) ==
  LET d == digest[h] IN
  /\ dapv_prelude(h)
  /\ assert_zero_sum(d)
  /\ claim_helper # Nobody
  /\ \A p \in Winners(d) : payout_commitments[p] # NoCommitment
  /\ claim_cms' = [claim_cms EXCEPT ![h] =
       [p \in Players |-> IF p \in Winners(d)
                          THEN Cm(payout_commitments[p], h, d[p]) ELSE @[p]]]
  /\ claim_amounts' = [claim_amounts EXCEPT ![h] =
       [p \in Players |-> IF p \in Winners(d) THEN d[p] ELSE @[p]]]
  /\ claims_consumed' = [claims_consumed EXCEPT ![h] =
       [p \in Players |-> IF p \in Winners(d) THEN FALSE ELSE @[p]]]
  /\ apply_settlement(Dual, Losses(d))
  /\ settlement_fund_escrow(Dual, claim_helper, Credits(d))
  /\ settled_bindings' = [settled_bindings EXCEPT ![h] = TRUE]
  /\ UNCHANGED <<digest, p_batch, amounts_hidden, via_snip36, dualConfig,
                 settlement_facts>>

-----------------------------------------------------------------------------
(* Settlement from a public segment.                                       *)

\* External: the public segment the settlement_private circuit outputs for
\* the registered result and the winners' commitments in the vault.
Segment(h) ==
  [hand |-> h, digest |-> digest[h], total |-> Credits(digest[h]),
   cms |-> [p \in Players |->
              IF p \in Winners(digest[h])
              THEN Cm(payout_commitments[p], h, digest[h][p]) ELSE NoCm]]

\* The prover refuses a winner without a commitment.
Provable(h) ==
  /\ digest[h] # NoDigest
  /\ \A p \in Winners(digest[h]) : payout_commitments[p] # NoCommitment

\* fact = poseidon(program_hash, segment) or poseidon(hand_verify, p_batch).
fact_for_segment(seg) == <<"segment", program_hash["circuit"], seg>>
hand_verify_fact(h) == <<"p_batch", program_hash["hand_verify"], h>>

register_settlement_fact(h) ==
  /\ provers # {} \/ OwnerActs
  /\ \/ Provable(h) /\ program_hash["circuit"] # NoHash
        /\ settlement_facts' = settlement_facts \cup {fact_for_segment(Segment(h))}
     \/ p_batch[h] /\ program_hash["hand_verify"] # NoHash
        /\ settlement_facts' = settlement_facts \cup {hand_verify_fact(h)}
  /\ UNCHANGED <<vaultVars, hands, claims, dualConfig>>

\* Mutant: a segment proved for another hand is accepted.
validate_any_hand(h, seg) ==
  /\ digest[h] # NoDigest
  /\ seg.digest = digest[h]

validate_settlement_segment(h, seg) ==
  /\ digest[h] # NoDigest
  /\ seg.hand = h
  /\ seg.digest = digest[h]

\* Payout leg shared by v2, v3 and proved: fund the escrow with the segment's
\* total, publish its commitments.  No chip balance changes.
pay_segment(h, seg) ==
  /\ ~settled_bindings[h]
  /\ validate_settlement_segment(h, seg)
  /\ claim_helper # Nobody
  /\ settlement_fund_escrow(Dual, claim_helper, seg.total)
  /\ claim_cms' = [claim_cms EXCEPT ![h] = seg.cms]
  /\ amounts_hidden' = [amounts_hidden EXCEPT ![h] = TRUE]
  /\ settled_bindings' = [settled_bindings EXCEPT ![h] = TRUE]
  /\ UNCHANGED <<chips, session, config, payout_commitments, wallet,
                 pool_tokens, block_timestamp, digest, p_batch,
                 claim_amounts, claims_consumed, dualConfig,
                 settlement_facts>>

SegmentFactRegistered(seg) ==
  /\ program_hash["circuit"] # NoHash
  /\ fact_for_segment(seg) \in settlement_facts

\* Segments a registered fact speaks of.
FactSegments ==
  {f[3] : f \in {g \in settlement_facts :
                     g[1] = "segment" /\ g[2] = program_hash["circuit"]}}

verify_and_settle_dapv_stark_private_v2(h, seg) ==
  /\ SegmentFactRegistered(seg)
  /\ pay_segment(h, seg)
  /\ UNCHANGED via_snip36

\* Segments a SNIP-36 proof can speak of: it shows that
\* emit_settlement_proof_message ran, which anyone may call and which only runs
\* validate_settlement_segment.  Hand and digest are those registered; the total
\* and the commitments are whatever the caller put there.
MessageSegments(h) ==
  (IF Provable(h) THEN {Segment(h)} ELSE {})
  \cup {seg \in [hand : {h}, digest : {digest[h]}, total : 1..vault_tokens,
                 cms : [Players -> {Cm(c, g, a) : c \in Commitments, g \in Hands, a \in Amounts}
                                   \cup {NoCm}]] :
          validate_settlement_segment(h, seg)}

\* Two gates: a proof of the message the transaction carries, else the fact
\* registry.
verify_and_settle_dapv_stark_private_v3(h, seg, snip36) ==
  /\ program_hash["virtual_snos"] # NoHash
  /\ IF snip36 THEN seg \in MessageSegments(h) ELSE SegmentFactRegistered(seg)
  /\ pay_segment(h, seg)
  /\ via_snip36' = [via_snip36 EXCEPT ![h] = snip36]

verify_and_settle_dapv_proved_private(h, seg) ==
  /\ p_batch[h]
  /\ program_hash["hand_verify"] # NoHash
  /\ hand_verify_fact(h) \in settlement_facts
  /\ SegmentFactRegistered(seg)
  /\ pay_segment(h, seg)
  /\ UNCHANGED via_snip36

-----------------------------------------------------------------------------
(* Claims.                                                                 *)

\* Mutant: the claim is paid and not marked.
consume_claim_unmarked(caller, h, p, amount) ==
  /\ caller = claim_helper
  /\ claim_amounts[h][p] = amount
  /\ ~claims_consumed[h][p]
  /\ UNCHANGED claims_consumed

consume_claim(caller, h, p, amount) ==
  /\ caller = claim_helper
  /\ claim_amounts[h][p] = amount
  /\ ~claims_consumed[h][p]
  /\ claims_consumed' = [claims_consumed EXCEPT ![h][p] = TRUE]

\* A claim helper consumes a claim and hands the escrowed STRK to the pool
\* in the same transaction.
claim(helper, h, p, amount) ==
  /\ amount > 0
  /\ consume_claim(helper, h, p, amount)
  /\ escrow_tokens[helper] >= amount
  /\ escrow_tokens' = [escrow_tokens EXCEPT ![helper] = @ - amount]
  /\ pool_tokens' = pool_tokens + amount
  /\ UNCHANGED <<chips, session, config, payout_commitments, wallet,
                 vault_tokens, block_timestamp, hands, claim_cms,
                 claim_amounts, dualConfig, settlement_facts>>

-----------------------------------------------------------------------------
(* Owner configuration of the settlement contract.                         *)

DualOwnerConfig ==
  /\ OwnerActs
  /\ UNCHANGED <<vaultVars, hands, claims, settlement_facts>>

set_prover(o) ==
  /\ DualOwnerConfig
  /\ provers' = provers \cup {o}
  /\ UNCHANGED <<claim_helper, program_hash>>

remove_prover(o) ==
  /\ DualOwnerConfig
  /\ provers' = provers \ {o}
  /\ UNCHANGED <<claim_helper, program_hash>>

set_claim_helper(e) ==
  /\ DualOwnerConfig
  /\ claim_helper' = e
  /\ UNCHANGED <<provers, program_hash>>

set_program_hash(k, v) ==
  /\ DualOwnerConfig
  /\ k # "hand_verify" => v # NoHash
  /\ program_hash' = [program_hash EXCEPT ![k] = v]
  /\ UNCHANGED <<provers, claim_helper>>

-----------------------------------------------------------------------------
HandStep(h) ==
  \/ \E o \in Operators, d \in Results :
       register_hand(o, h, d) \/ register_hand_proved(o, h, d)
  \/ verify_and_settle_dapv_stark(h)
  \/ verify_and_settle_dapv_stark_private(h)
  \/ register_settlement_fact(h)
  \/ \E seg \in FactSegments :
       \/ verify_and_settle_dapv_stark_private_v2(h, seg)
       \/ verify_and_settle_dapv_stark_private_v3(h, seg, FALSE)
       \/ verify_and_settle_dapv_proved_private(h, seg)
  \/ \E seg \in MessageSegments(h) : verify_and_settle_dapv_stark_private_v3(h, seg, TRUE)
  \/ \E e \in Escrows, p \in Players, a \in Amounts : claim(e, h, p, a)

DualOwnerStep ==
  \/ \E o \in Operators : set_prover(o) \/ remove_prover(o)
  \/ \E e \in Escrows : set_claim_helper(e)
  \/ \E k \in Programs, v \in ProgramHashes \cup {NoHash} : set_program_hash(k, v)

Next ==
  \/ VaultStep /\ UNCHANGED dualVars
  \/ \E h \in Hands : HandStep(h)
  \/ DualOwnerStep

Spec == Init /\ [][Next]_vars

\* The chain keeps producing blocks and a player who may unlock eventually
\* does (the call is permissionless).  Nothing is assumed of the operator.
UnlockStep(p) == unlock_after_deadline(p) /\ UNCHANGED dualVars
ClockStep == Tick /\ UNCHANGED dualVars
FairSpec == Spec /\ WF_vars(ClockStep) /\ \A p \in Players : WF_vars(UnlockStep(p))

-----------------------------------------------------------------------------
(* Properties.                                                             *)

Segments ==
  [hand : Hands, digest : Results, total : Nat,
   cms : [Players -> ClaimCms \cup {NoCm}]]

Facts ==
  ({"segment"} \X (ProgramHashes \cup {NoHash}) \X Segments)
  \cup ({"p_batch"} \X (ProgramHashes \cup {NoHash}) \X Hands)

DualTypeOK ==
  /\ provers \subseteq Operators
  /\ digest \in [Hands -> Results \cup {NoDigest}]
  /\ p_batch \in [Hands -> BOOLEAN]
  /\ settled_bindings \in [Hands -> BOOLEAN]
  /\ claim_helper \in Escrows \cup {Nobody}
  /\ claim_cms \in [Hands -> [Players -> ClaimCms \cup {NoCm}]]
  /\ claim_amounts \in [Hands -> [Players -> Nat]]
  /\ claims_consumed \in [Hands -> [Players -> BOOLEAN]]
  /\ amounts_hidden \in [Hands -> BOOLEAN]
  /\ via_snip36 \in [Hands -> BOOLEAN]
  /\ program_hash \in [Programs -> ProgramHashes \cup {NoHash}]
  /\ settlement_facts \subseteq Facts

\* Type invariant of the two contracts and the tokens they move.
TypeOK == VaultTypeOK /\ DualTypeOK

\* total_chips is the sum of the balances after every settlement, deposit and
\* exit (poker_vault.cairo keeps the counter separately from the map).
TotalIsSum == total_chips = SumFunction(chip_balances)

\* Chips are backed 1:1 by STRK in the vault as long as no hand was settled
\* from a public segment, whatever mix of linear and private settlements,
\* escrow funding, burns and exits happened.
ChipsBacked ==
  (\A h \in Hands : ~amounts_hidden[h]) => vault_tokens >= total_chips

\* Hands settled from a public segment pay winners without debiting losers: the
\* STRK missing behind the chips never exceeds what the registered results of
\* those hands paid out, as long as the segments came through the fact registry.
\* (What a hand settled on a SNIP-36 message moves is the total of the message.)
ShortfallIsHiddenPayout ==
  (\A h \in Hands : ~via_snip36[h]) =>
    vault_tokens + SumFunction([h \in Hands |-> IF amounts_hidden[h]
                                                THEN Credits(digest[h]) ELSE 0])
      >= total_chips

\* What the winners of a hand may still claim.
OpenClaims(h) ==
  [p \in Players |-> IF claims_consumed[h][p] THEN 0 ELSE claim_amounts[h][p]]

\* The escrows hold enough STRK for every published claim that is not
\* consumed yet, across replacements of the claim helper.
EscrowCoversClaims ==
  SumFunction([h \in Hands |-> SumFunction(OpenClaims(h))]) <= SumFunction(escrow_tokens)

\* The chips, the open claims and all the STRK the contracts hold, as a ledger.
Ledger ==
  INSTANCE ChipLedger WITH
    NoResult <- NoDigest,
    balance <- chip_balances,
    owed <- [h \in Hands |-> OpenClaims(h)],
    custody <- vault_tokens + SumFunction(escrow_tokens),
    result <- digest,
    closed <- {h \in Hands : settled_bindings[h]}

\* Vault, settlement contract and escrows together keep the ledger's promises:
\* every transaction is one step of ChipLedger or none.  In particular a hand
\* takes effect at most once over all five entries, with the result registered
\* first, and what its losers pay is what its winners get, except that a segment
\* entry closes the hand and leaves the chips of both alone.
ImplementsLedger == Ledger!LedgerSpec

\* The vault and the escrows together hold the STRK for all chips and all open
\* claims, also after hands were settled from a segment: what the vault lacks
\* then is in an escrow.
CustodyCovers == Ledger!Covered

MatchedCm(h, p) == claim_cms[h][p].hand = h /\ claim_cms[h][p].amount = digest[h][p]

\* A claim promises exactly what the registered result says its holder won, in
\* the stored amount and, unless the hand was settled on a SNIP-36 message, inside
\* the commitment, whatever facts and messages of other hands and other
\* program hashes are around.
ClaimsMatchResult ==
  \A h \in Hands, p \in Players :
    /\ claim_amounts[h][p] > 0 => /\ settled_bindings[h]
                                  /\ digest[h] # NoDigest
                                  /\ claim_amounts[h][p] = digest[h][p]
    /\ claim_cms[h][p] # NoCm =>
         /\ settled_bindings[h]
         /\ digest[h] # NoDigest
         /\ ~via_snip36[h] => MatchedCm(h, p)

\* The same of every hand, as the comments on the entries describe the segment
\* (what the settlement_private circuit proves): a message does not warrant it.
EveryClaimMatches ==
  \A h \in Hands, p \in Players : claim_cms[h][p] # NoCm => MatchedCm(h, p)

\* Every registered segment fact speaks of the result registered for its hand;
\* with ClaimsMatchResult it is inductive.
SegmentMatches(seg) ==
  /\ digest[seg.hand] = seg.digest
  /\ \A p \in Players : seg.cms[p] # NoCm =>
       seg.cms[p].hand = seg.hand /\ seg.cms[p].amount = seg.digest[p]

FactsMatchResult ==
  \A f \in settlement_facts : f[1] = "segment" => SegmentMatches(f[3])

\* Locked chips always have a running session clock, so that the self-unlock
\* exit exists for them.
LockHasSession == \A p \in Players : locked[p] > 0 => session_active[p]

\* Player-side exits never reach into the locked chips: outside a settlement a
\* balance only falls to a value that still covers the lock.
ExitsSpareLocked ==
  [][settled_bindings' = settled_bindings =>
       \A p \in Players : chip_balances'[p] < chip_balances[p] =>
                             chip_balances'[p] >= locked'[p]]_vars

\* A lock shrinks only because its owner lost at least that much in a
\* settlement, or because the whole session ended.
LocksConsumedByLosses ==
  [][\A p \in Players : locked'[p] < locked[p] =>
       \/ /\ settled_bindings' # settled_bindings
          /\ locked[p] - locked'[p] <= chip_balances[p] - chip_balances'[p]
       \/ locked'[p] = 0 /\ ~session_active'[p]]_vars

\* A binding's result is fixed by its first registration, and a settled hand
\* is final: its claims never change and a consumed claim stays consumed.
HandFinality ==
  [][\A h \in Hands :
       /\ digest[h] # NoDigest => digest'[h] = digest[h]
       /\ settled_bindings[h] =>
            /\ settled_bindings'[h]
            /\ claim_cms'[h] = claim_cms[h]
            /\ claim_amounts'[h] = claim_amounts[h]
            /\ \A p \in Players : claims_consumed[h][p] => claims_consumed'[h][p]]_vars

\* Chips move between players only with the hand that becomes settled in the
\* same transaction: every other step changes at most one balance.
OnlySettlementTransfers ==
  [][settled_bindings' = settled_bindings =>
       \A p, q \in Players :
         chip_balances'[p] # chip_balances[p] /\ chip_balances'[q] # chip_balances[q]
           => p = q]_vars

\* unlock_after_deadline is an exit that needs no operator: locked chips come
\* free even if the backend stops refreshing, the vault is paused or the
\* settlement contract is disconnected, unless the owner disabled self unlock.
SelfUnlock ==
  \A p \in Players : locked[p] > 0 ~> (locked[p] = 0 \/ lock_ttl = 0)

-----------------------------------------------------------------------------
(* What the repository's texts say of the contracts; each is refuted by a  *)
(* run of its own.                                                         *)

\* README.md:188, "anchored 1:1 in the vault": refuted by the segment entries,
\* which pay winners without debiting losers.
AnchoredOneToOne == vault_tokens >= total_chips

\* poker_vault.cairo:655, "the locked part is part of the balance": refuted by
\* lock, which checks each amount alone and accumulates.
LockedWithinBalance == \A p \in Players : locked[p] <= chip_balances[p]

\* poker_dual_settlement.cairo:526, "consume_claim takes the hidden mode":
\* refuted, no amount is ever stored for a hidden claim, so the amount check
\* of consume_claim refuses every payout.
HiddenClaimsPayable ==
  \A h \in Hands, p \in Players :
    amounts_hidden[h] /\ claim_cms[h][p] # NoCm /\ ~claims_consumed[h][p]
      => claim_amounts[h][p] = claim_cms[h][p].amount
=============================================================================
