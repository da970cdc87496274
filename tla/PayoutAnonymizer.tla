-------------------------- MODULE PayoutAnonymizer --------------------------
(***************************************************************************)
(* SettlementPayoutAnonymizer (settlement_payout_anonymizer.cairo): the    *)
(* claim helper through which the privacy pool pays a winner's claim.      *)
(* PokerDualSettlement leaves open what a claim helper verifies; here the  *)
(* helper Anonymizer verifies a claim the way privacy_claim does.          *)
(***************************************************************************)
EXTENDS PokerDualSettlement, Sequences

CONSTANTS
  Secrets,      \* payout secrets the players draw
  NoteIds,      \* pool notes a claim may be paid into (non-zero)
  Anonymizer    \* the helper's address, one of Escrows

\* Poseidon hash of a list of felts, free of collisions.
Poseidon(felts) == <<"poseidon", felts>>

\* A player registers the hash of a secret that never leaves the client.
SecretCommitments == {Poseidon(<<s>>) : s \in Secrets}

\* Everything privacy_claim asserts before it consumes the claim of seat.
verify_claim(player, h, seat, amount, note, secret) ==
  LET commitment == payout_commitments[player]
      cm == claim_cms[h][seat]
  IN /\ amount > 0
     /\ commitment # NoCommitment
     /\ cm = Cm(commitment, h, amount)
     /\ amounts_hidden[h] \/ claim_amounts[h][seat] = amount
     /\ Poseidon(<<secret>>) = Poseidon(<<cm, note>>)

privacy_claim(player, h, seat, amount, note, secret) ==
  /\ verify_claim(player, h, seat, amount, note, secret)
  /\ claim(Anonymizer, h, seat, amount)

\* Claims are consumed through this helper only.
AnonymizerNext ==
  \/ Next /\ UNCHANGED claims_consumed
  \/ \E player, seat \in Players, h \in Hands, a \in Amounts, note \in NoteIds,
        secret \in Secrets : privacy_claim(player, h, seat, a, note, secret)

AnonymizerSpec == Init /\ [][AnonymizerNext]_vars

\* settlement_payout_anonymizer.cairo:64, "this entry verifies the secret
\* preimage of the player's registered payout commitment": a winner whose claim
\* is open, funded and still under the commitment registered now can present
\* the secret behind it.  Refuted: privacy_claim compares poseidon(secret) with
\* poseidon(cm, note_id), which no secret satisfies.
SecretOpensClaim ==
  \A h \in Hands, p \in Players, s \in Secrets, note \in NoteIds :
    LET amount == claim_amounts[h][p] IN
    /\ amount > 0
    /\ ~claims_consumed[h][p]
    /\ claim_helper = Anonymizer
    /\ escrow_tokens[Anonymizer] >= amount
    /\ payout_commitments[p] = Poseidon(<<s>>)
    /\ claim_cms[h][p] = Cm(payout_commitments[p], h, amount)
    => verify_claim(p, h, p, amount, note, s)
=============================================================================
