--------------------------- MODULE HostSettlement ---------------------------
(***************************************************************************)
(* The game server's settlement pipeline for one table: what happens to a  *)
(* hand between its last card and its transaction, and when a player who   *)
(* left the table gets the chips it had locked in the vault back.          *)
(*                                                                         *)
(* Every step here is one stretch of code between two awaits: the game     *)
(* loop, the socket handlers and the spawned settlement and release tasks  *)
(* interleave freely, and share the maps of hooks.rs and lock.rs.  A send  *)
(* to the chain is accepted or refused, and independently takes effect or  *)
(* not: an accepted transaction may revert, the answer to one that takes   *)
(* effect may be lost.                                                     *)
(***************************************************************************)
EXTENDS Naturals, FiniteSets

CONSTANTS
    Wallets,      \* the players of the table
    MaxHand,      \* bound: hands are numbered 1..MaxHand
    MaxSeatings,  \* bound: how often somebody sits down
    MaxAttempts,  \* MAX_SETTLE_ATTEMPTS of hooks.rs (8 in the code)
    Modes         \* the deployments considered, a subset of AllModes

\* How the server is configured: no chain or no contract address ("dev"), the
\* appchain exit with the two-step legacy contract behind it, the legacy
\* contract alone, and the three ways the dual contract is driven.
AllModes == {"dev", "appchain", "legacy", "linear", "proved", "snip36"}

ASSUME HostAssumption ==
    /\ MaxHand \in Nat \ {0}
    /\ MaxSeatings \in Nat
    /\ MaxAttempts \in Nat \ {0}
    /\ Modes \subseteq AllModes

VARIABLES
    mode,      \* the configuration, fixed for the process's life
    hand,      \* table.current_hand_id, 0 before the first hand
    phase,     \* "waiting", "shuffle" (before preflop, still RoundState::Waiting), "playing"
    ended,     \* hand_complete_at is set: the loop's cleanup has still to run
    start,     \* hand_proof_log.start's hand id, 0 for None
    mirror,    \* table.vm_session: "none", "live", or "stale": left by an aborted hand
    looping,   \* the game loop of the table is running
    seated,    \* wallets with a seat
    seatings,  \* times somebody sat down (only to bound the model)
    out,       \* seated wallets marked sitting_out
    task,      \* per hand, where its spawned settlement task stands
    departed,  \* per hand, the leavers its task took to release in its bundle
    pending,   \* PENDING_SETTLE of the table: snapshot and attempts made
    attempt,   \* per hand, 0 or the number of the attempt now being sent
    settleOk,  \* SETTLE_OK
    failed,    \* failed_hands of lock.rs
    receipt,   \* per hand, the status last recorded for its clients
    releases,  \* pending_leave_releases: wallet -> hand, or None
    leaving,   \* spawned schedule_leave_release tasks
    freeing,   \* spawned release_player_lock tasks, with the hand they act for
    settled,   \* chain: hands whose settlement took effect
    registered,\* chain: hands registered with the settlement contract
    freed      \* history: releases that took effect before their hand's settlement

gameVars    == <<mode, hand, phase, ended, start, mirror, looping, seated, out, seatings>>
taskVars    == <<task, departed, pending, attempt>>
resultVars  == <<settleOk, failed, receipt>>
releaseVars == <<releases, leaving, freeing>>
chainVars   == <<settled, registered, freed>>
vars == <<gameVars, taskVars, resultVars, releaseVars, chainVars>>

Hands == 1..MaxHand
None == MaxHand + 1
NoSnapshot == [hand |-> 0, attempts |-> 0]
DualMode == mode \in {"linear", "proved", "snip36"}

TypeOK ==
    /\ mode \in Modes
    /\ hand \in 0..MaxHand
    /\ phase \in {"waiting", "shuffle", "playing"}
    /\ ended \in BOOLEAN
    /\ start \in 0..MaxHand
    /\ mirror \in {"none", "live", "stale"}
    /\ looping \in BOOLEAN
    /\ seated \subseteq Wallets
    /\ out \subseteq seated
    /\ seatings \in 0..MaxSeatings
    /\ task \in [Hands -> {"idle", "build", "diverged", "run", "prove", "send",
                           "proved", "bundle", "flush", "done", "lost"}]
    /\ departed \in [Hands -> SUBSET Wallets]
    /\ pending \in [hand : 0..MaxHand, attempts : 0..MaxAttempts]
    /\ attempt \in [Hands -> 0..MaxAttempts]
    /\ settleOk \subseteq Hands
    /\ failed \subseteq Hands
    /\ receipt \in [Hands -> {"none", "settled", "failed", "refused"}]
    /\ releases \in [Wallets -> 0..None]
    /\ leaving \subseteq [wallet : Wallets, hand : 0..MaxHand, settled : BOOLEAN]
    /\ freeing \subseteq Wallets \X (0..MaxHand)
    /\ settled \subseteq Hands
    /\ registered \subseteq Hands
    /\ freed \subseteq Wallets \X Hands

Init ==
    /\ mode \in Modes
    /\ hand = 0 /\ phase = "waiting" /\ ended = FALSE
    /\ start = 0 /\ mirror = "none"
    /\ looping = FALSE /\ seated = {} /\ out = {} /\ seatings = 0
    /\ task = [h \in Hands |-> "idle"]
    /\ departed = [h \in Hands |-> {}]
    /\ pending = NoSnapshot
    /\ attempt = [h \in Hands |-> 0]
    /\ settleOk = {} /\ failed = {}
    /\ receipt = [h \in Hands |-> "none"]
    /\ releases = [w \in Wallets |-> None]
    /\ leaving = {} /\ freeing = {}
    /\ settled = {} /\ registered = {} /\ freed = {}

-----------------------------------------------------------------------------
(* lock.rs: the map of leavers waiting for their last hand.                *)

\* take_pending_releases_for: exact match on the hand.
Due(h) == {w \in Wallets : releases[w] = h}
Untake(h) == [w \in Wallets |-> IF releases[w] = h THEN None ELSE releases[w]]

\* abort_flush_leave_releases: take the hand's leavers and free each in a task.
AbortFlush(h) ==
    /\ releases' = Untake(h)
    /\ freeing' = freeing \cup (Due(h) \X {h})

\* refuse_settlement, and the two failures of the settlement build: the hand is
\* recorded as never going to settle, its leavers are freed now.
GiveUp(h, status) ==
    /\ receipt' = [receipt EXCEPT ![h] = status]
    /\ failed' = failed \cup {h}
    /\ AbortFlush(h)

\* Mutant: the release does not wait for the last hand.
ScheduleLeaveReleaseAtOnce ==
    \E l \in leaving :
      /\ leaving' = leaving \ {l}
      /\ freeing' = freeing \cup {<<l.wallet, l.hand>>}
      /\ UNCHANGED <<gameVars, taskVars, resultVars, releases, chainVars>>

\* schedule_leave_release: free at once when the last hand has settled (as read
\* when the task was spawned) or has failed, otherwise wait for it.
ScheduleLeaveRelease ==
    \E l \in leaving :
      /\ leaving' = leaving \ {l}
      /\ IF l.settled \/ l.hand \in failed
           THEN /\ freeing' = freeing \cup {<<l.wallet, l.hand>>}
                /\ UNCHANGED releases
           ELSE /\ releases' = [releases EXCEPT ![l.wallet] = l.hand]
                /\ UNCHANGED freeing
      /\ UNCHANGED <<gameVars, taskVars, resultVars, chainVars>>

\* What a force_unlock on account of hand h means for the history.
FreedEarly(ws, h) == {<<w, h>> : w \in IF h \in Hands \ settled THEN ws ELSE {}}

\* release_player_lock: reads the locked balance and sends force_unlock, which
\* takes effect or is only logged as failed.
ReleasePlayerLock ==
    \E f \in freeing, lands \in BOOLEAN :
      /\ freeing' = freeing \ {f}
      /\ freed' = freed \cup (IF lands THEN FreedEarly({f[1]}, f[2]) ELSE {})
      /\ UNCHANGED <<gameVars, taskVars, resultVars, releases, leaving,
                     settled, registered>>

-----------------------------------------------------------------------------
(* The table: seats, hands, and the calls the game layer makes into hooks.rs. *)

\* The seat is taken and the game loop made to run.
SitDown ==
    \E w \in Wallets \ seated :
      /\ seatings < MaxSeatings
      /\ seatings' = seatings + 1
      /\ seated' = seated \cup {w}
      /\ looping' = TRUE
      /\ UNCHANGED <<mode, hand, phase, ended, start, mirror, out, taskVars,
                     resultVars, releaseVars, chainVars>>

\* SITTING_OUT, a connection lost between hands, and a LEAVE_TABLE or STAND_UP
\* that a running hand defers.
SitOut ==
    \E w \in seated \ out :
      /\ out' = out \cup {w}
      /\ UNCHANGED <<mode, hand, phase, ended, start, mirror, looping, seated, seatings,
                     taskVars, resultVars, releaseVars, chainVars>>

\* SITTING_IN, and a player who reconnects: with two players ready the former
\* starts the loop.
SitIn ==
    \E w \in out :
      /\ out' = out \ {w}
      /\ looping' \in {looping, looping \/ (phase # "playing" /\ Cardinality(seated \ out') = 2)}
      /\ UNCHANGED <<mode, hand, phase, ended, start, mirror, seated, seatings,
                     taskVars, resultVars, releaseVars, chainVars>>

\* A seat is given up between hands.  With one active player left the handler
\* stops the loop; which of the others are still waiting for their first hand,
\* and do not count as active, is left open.
GiveUpSeat(w) ==
    /\ phase # "playing"
    /\ seated' = seated \ {w}
    /\ out' = out \ {w}
    /\ looping' \in {looping, looping /\ seated' \subseteq out'}
    /\ UNCHANGED <<mode, hand, phase, ended, start, mirror, seatings, taskVars,
                   resultVars, releases, freeing, chainVars>>

\* LEAVE_TABLE: a release is scheduled for the table's current hand, with the
\* flag read here.
LeaveTable ==
    \E w \in seated :
      /\ GiveUpSeat(w)
      /\ leaving' = leaving \cup
           {[wallet |-> w, hand |-> hand, settled |-> hand \in settleOk]}

\* STAND_UP: no release is scheduled.
StandUp ==
    \E w \in seated :
      /\ GiveUpSeat(w)
      /\ UNCHANGED leaving

\* process_tick finds an empty table.
LoopEnds ==
    /\ looping /\ seated = {}
    /\ looping' = FALSE
    /\ UNCHANGED <<mode, hand, phase, ended, start, mirror, seated, out, seatings,
                   taskVars, resultVars, releaseVars, chainVars>>

\* start_hand: assigns the hand id and enters the preflop shuffle.
StartHand ==
    /\ looping /\ phase = "waiting" /\ ~ended /\ hand < MaxHand
    /\ Cardinality(seated \ out) >= 2
    /\ hand' = hand + 1
    /\ phase' = "shuffle"
    /\ UNCHANGED <<mode, seatings, ended, start, mirror, looping, seated, out, taskVars,
                   resultVars, releaseVars, chainVars>>

\* record_hand_start at the end of the shuffle: the hand can be proved.
RecordHandStart ==
    /\ phase = "shuffle" /\ Cardinality(seated \ out) >= 2
    /\ phase' = "playing"
    /\ start' = hand
    /\ mirror' = "live"
    /\ UNCHANGED <<mode, seatings, hand, ended, looping, seated, out, taskVars, resultVars,
                   releaseVars, chainVars>>

\* abort_unprovable_hand: no mirror could be mounted.  The proof log was reset
\* before, unless it was the bootstrap that failed.
AbortUnprovableHand ==
    /\ phase = "shuffle"
    /\ phase' = "waiting"
    /\ start' \in {0, hand}
    /\ mirror' = "none"
    /\ \E offender \in SUBSET seated :
         /\ Cardinality(offender) <= 1
         /\ out' = out \cup offender
    /\ AbortFlush(hand)
    /\ UNCHANGED <<mode, seatings, hand, ended, looping, seated, taskVars, resultVars,
                   leaving, chainVars>>

\* Seats lost without a release: those kicked in a hand go when reset_for_next_hand
\* drops the seats without chips, those kicked in the shuffle go at once.
DropKicked(kicked) ==
    /\ seated' = seated \ kicked
    /\ out' = out \ kicked

\* refund_all_bets and reset_for_next_hand: a reveal or a reconstruction that
\* failed.  The proof log stays, and so does the mirror of a hand that has no
\* outcome.
AbortHand ==
    /\ phase = "playing"
    /\ phase' = "waiting"
    /\ mirror' = "stale"
    /\ \E kicked \in SUBSET seated : DropKicked(kicked)
    /\ AbortFlush(hand)
    /\ UNCHANGED <<mode, seatings, hand, ended, looping, start, taskVars,
                   resultVars, leaving, chainVars>>

\* kick_player_internal with too few players who have not sat out: the hand is
\* reset at once, without a refund and without a flush.
KickResetsHand ==
    /\ looping /\ phase = "playing" /\ Cardinality(seated \ out) < 2
    /\ phase' = "waiting"
    /\ mirror' = "stale"
    /\ \E kicked \in SUBSET seated \ {{}} : DropKicked(kicked)
    /\ UNCHANGED <<mode, seatings, hand, ended, looping, start, taskVars, resultVars,
                   releaseVars, chainVars>>

\* on_hand_complete: skipped while an earlier snapshot is queued, refused when
\* the hand of the proof log has no mirror, else handed to a settlement task.
OnHandComplete ==
    \/ /\ pending # NoSnapshot \/ start = 0
       /\ UNCHANGED <<mirror, task, resultVars, releases, freeing>>
    \/ /\ pending = NoSnapshot /\ start # 0 /\ mirror = "none"
       /\ GiveUp(start, "refused")
       /\ UNCHANGED <<mirror, task, settleOk>>
    \/ /\ pending = NoSnapshot /\ start # 0 /\ mirror # "none"
       /\ mirror' = "none"
       /\ task' = [task EXCEPT ![start] = IF mirror = "live" THEN "build" ELSE "diverged"]
       /\ UNCHANGED <<resultVars, releases, freeing>>

\* A played hand ends, by showdown or by folds; a kick may have reset it first.
HandEnds ==
    /\ phase = "playing"
    /\ phase' = "waiting" /\ ended' = TRUE
    /\ OnHandComplete
    /\ \/ UNCHANGED <<seated, out>>
       \/ /\ Cardinality(seated \ out) < 2
          /\ \E kicked \in SUBSET seated : DropKicked(kicked)
    /\ UNCHANGED <<mode, seatings, hand, start, looping, departed, pending, attempt,
                   leaving, chainVars>>

\* on_shuffle_timeout before preflop: the one that does not shuffle loses its
\* seat (no release is scheduled for it).  With one player left the hand that was
\* never dealt ends "without showdown", and on_hand_complete sees the proof log of
\* the hand before; with none it is aborted, with more the shuffle starts again.
ShuffleTimeout ==
    /\ looping /\ phase = "shuffle"
    /\ \E w \in seated :
         LET left == Cardinality(seated \ (out \cup {w})) IN
         /\ DropKicked({w})
         /\ phase' = IF left < 2 THEN "waiting" ELSE "shuffle"
         /\ ended' = (left = 1)
         /\ IF left = 1
              THEN OnHandComplete
              ELSE /\ IF left = 0 THEN AbortFlush(hand) ELSE UNCHANGED <<releases, freeing>>
                   /\ UNCHANGED <<mirror, task, resultVars>>
    /\ UNCHANGED <<mode, seatings, hand, start, looping, departed, pending, attempt,
                   leaving, chainVars>>

\* The game loop's cleanup after a hand: the broke and the sitting-out lose
\* their seats, a release is scheduled for each.
CleanupAfterHand ==
    /\ looping /\ ended /\ phase = "waiting"
    /\ ended' = FALSE
    /\ \E broke \in SUBSET seated :
         LET gone == broke \cup out IN
         /\ seated' = seated \ gone
         /\ leaving' = leaving \cup
              {[wallet |-> w, hand |-> hand, settled |-> hand \in settleOk] : w \in gone}
    /\ out' = {}
    /\ UNCHANGED <<mode, seatings, hand, phase, start, mirror, looping, taskVars,
                   resultVars, releases, freeing, chainVars>>

-----------------------------------------------------------------------------
(* settle_from_live_mirror: compare, build, and hand over to an exit.      *)

Done(h) == task' = [task EXCEPT ![h] = "done"]

\* The mirror and the game layer disagree (a mirror without an outcome always
\* does), or the build fails.
SettlementRefused(h) ==
    /\ task[h] \in {"build", "diverged"}
    /\ Done(h)
    /\ \E status \in {"refused", "failed"} : GiveUp(h, status)
    /\ UNCHANGED <<gameVars, departed, pending, attempt, settleOk, leaving, chainVars>>

\* The appchain exit takes the hand: it is settled there, and nothing is flushed.
AppchainSettles(h) ==
    /\ mode = "appchain" /\ task[h] = "build"
    /\ Done(h)
    /\ settleOk' = settleOk \cup {h}
    /\ receipt' = [receipt EXCEPT ![h] = "settled"]
    /\ settled' = settled \cup {h}
    /\ UNCHANGED <<gameVars, departed, pending, attempt, failed, releaseVars,
                   registered, freed>>

\* The legacy exit: the snapshot replaces whatever is queued.  An appchain exit
\* that fails falls back to it, also when its settle frame was accepted and only
\* the proof job was refused.
QueueSnapshot(h) ==
    /\ ~DualMode /\ task[h] = "build"
    /\ pending' = [hand |-> h, attempts |-> 0]
    /\ task' = [task EXCEPT ![h] = "run"]
    /\ \/ UNCHANGED settled
       \/ mode = "appchain" /\ settled' = settled \cup {h}
    /\ UNCHANGED <<gameVars, departed, attempt, resultVars, releaseVars,
                   registered, freed>>

\* The dual exit: prove in the background, whatever comes of the proof.
StartProof(h) ==
    /\ DualMode /\ task[h] = "build"
    /\ task' = [task EXCEPT ![h] = "prove"]
    /\ UNCHANGED <<gameVars, departed, pending, attempt, resultVars, releaseVars, chainVars>>

-----------------------------------------------------------------------------
(* The legacy exit: one snapshot, bounded attempts.                        *)

\* Mutant: the snapshot is copied and stays queued.
TakeSnapshotCopy ==
    /\ attempt' = IF pending = NoSnapshot THEN attempt
                  ELSE [attempt EXCEPT ![pending.hand] = pending.attempts + 1]
    /\ UNCHANGED pending

\* Mutant: the attempts are not counted.
TakeSnapshotUncounted ==
    IF pending = NoSnapshot
      THEN UNCHANGED <<pending, attempt>>
      ELSE /\ pending' = NoSnapshot
           /\ attempt' = [attempt EXCEPT ![pending.hand] = 1]

\* run_settle_attempt up to its await: take the queued snapshot, if there is
\* one; without a configured contract it is dropped.
TakeSnapshot ==
    IF pending = NoSnapshot
      THEN UNCHANGED <<pending, attempt>>
      ELSE /\ pending' = NoSnapshot
           /\ attempt' = IF mode = "dev" THEN attempt
                         ELSE [attempt EXCEPT ![pending.hand] = pending.attempts + 1]

FirstAttempt(h) ==
    /\ task[h] = "run"
    /\ Done(h)
    /\ TakeSnapshot
    /\ UNCHANGED <<gameVars, departed, resultVars, releaseVars, chainVars>>

\* retry_pending_settlement, from the loop of a table with players between hands.
TickRetry ==
    /\ looping /\ seated # {} /\ phase # "playing"
    /\ pending # NoSnapshot
    /\ TakeSnapshot
    /\ UNCHANGED <<gameVars, task, departed, resultVars, releaseVars, chainVars>>

\* retry_pending_settlement, from any client that enters the table's room.
JoinTableRetry ==
    /\ pending # NoSnapshot
    /\ TakeSnapshot
    /\ UNCHANGED <<gameVars, task, departed, resultVars, releaseVars, chainVars>>

\* The legacy contract takes hands in ascending order only.
CanRegister(h) == h \in registered \/ \A g \in registered : g < h

\* submit_settlement succeeds, or reports that the hand has settled already:
\* only the sends were accepted, the transactions may still revert.
AttemptAccepted(h) ==
    /\ attempt[h] # 0 /\ CanRegister(h)
    /\ attempt' = [attempt EXCEPT ![h] = 0]
    /\ settleOk' = settleOk \cup {h}
    /\ receipt' = [receipt EXCEPT ![h] = "settled"]
    /\ registered' = registered \cup {h}
    /\ settled' \in {settled, settled \cup {h}}
    /\ UNCHANGED <<gameVars, task, departed, pending, failed, releaseVars, freed>>

\* retry_later: back into the queue, over anything queued since, or dropped.
RetryLater(h, n) ==
    IF n >= MaxAttempts
      THEN /\ receipt' = [receipt EXCEPT ![h] = "failed"]
           /\ UNCHANGED pending
      ELSE /\ pending' = [hand |-> h, attempts |-> n]
           /\ UNCHANGED receipt

\* submit_settlement fails, before or after its transactions took effect.
AttemptFails(h) ==
    /\ attempt[h] # 0
    /\ attempt' = [attempt EXCEPT ![h] = 0]
    /\ RetryLater(h, attempt[h])
    /\ \/ UNCHANGED <<registered, settled>>
       \/ /\ CanRegister(h)
          /\ registered' = registered \cup {h}
          /\ settled' \in {settled, settled \cup {h}}
    /\ UNCHANGED <<gameVars, task, departed, settleOk, failed, releaseVars, freed>>

-----------------------------------------------------------------------------
(* The dual exit: submit_dual_fallback and submit_dual_settlement.         *)

\* The leavers that wait for this hand travel with its transaction.
TakeDeparted(h) ==
    /\ task[h] = "prove"
    /\ departed' = [departed EXCEPT ![h] = Due(h)]
    /\ releases' = Untake(h)
    /\ task' = [task EXCEPT ![h] = IF mode = "linear" THEN "bundle" ELSE "send"]
    /\ UNCHANGED <<gameVars, pending, attempt, resultVars, leaving, freeing, chainVars>>

\* build_dual_settlement_with fails: the task ends without a trace.
DualBuildFails(h) ==
    /\ task[h] = "prove"
    /\ task' = [task EXCEPT ![h] = "lost"]
    /\ UNCHANGED <<gameVars, departed, pending, attempt, resultVars, releaseVars, chainVars>>

\* The register transaction of the two-step entries, then the wait for it.
DualRegisters(h) ==
    /\ task[h] = "send"
    /\ registered' = registered \cup {h}
    /\ task' = [task EXCEPT ![h] = "proved"]
    /\ UNCHANGED <<gameVars, departed, pending, attempt, resultVars, releaseVars,
                   settled, freed>>

\* settle_ok_once right after the accepted send.
Accepted(h) ==
    /\ task' = [task EXCEPT ![h] = "flush"]
    /\ settleOk' = settleOk \cup {h}
    /\ receipt' = [receipt EXCEPT ![h] = "settled"]

\* The proved settle is accepted: the leavers taken with it are not released.
ProvedSettleAccepted(h) ==
    /\ task[h] = "proved"
    /\ Accepted(h)
    /\ departed' = [departed EXCEPT ![h] = {}]
    /\ settled' \in {settled, settled \cup {h}}
    /\ UNCHANGED <<gameVars, pending, attempt, failed, releaseVars,
                   registered, freed>>

\* The in-protocol proof fails, or its answer is lost: the public linear bundle
\* carries the hand.  Over a settled hand it is refused, which counts as success.
FallBackToBundle(h) ==
    /\ mode = "snip36" /\ task[h] = "proved"
    /\ task' = [task EXCEPT ![h] = "bundle"]
    /\ settled' \in {settled, settled \cup {h}}
    /\ UNCHANGED <<gameVars, departed, pending, attempt, resultVars, releaseVars,
                   registered, freed>>

\* The bundle executed: register, settle, lock the winnings, free the departed.
BundleExecutes(h) ==
    /\ settled' = settled \cup {h}
    /\ registered' = registered \cup {h}

BundleAccepted(h) ==
    /\ task[h] = "bundle"
    /\ Accepted(h)
    /\ \/ BundleExecutes(h)
       \/ UNCHANGED <<settled, registered>>
    /\ departed' = [departed EXCEPT ![h] = {}]
    /\ UNCHANGED <<gameVars, pending, attempt, failed, releaseVars, freed>>

\* An error of any of the sends: the departed go back, nothing is tried again.
\* The bundle, or the last of the two transactions, may have taken effect.
SubmitFails(h) ==
    /\ task[h] \in {"send", "proved", "bundle"}
    /\ ~(mode = "snip36" /\ task[h] = "proved")
    /\ task' = [task EXCEPT ![h] = "lost"]
    /\ releases' = [w \in Wallets |-> IF w \in departed[h] THEN h ELSE releases[w]]
    /\ \/ UNCHANGED <<settled, registered>>
       \/ /\ registered' = registered \cup {h}
          /\ settled' = IF task[h] = "send" THEN settled ELSE settled \cup {h}
    /\ departed' = [departed EXCEPT ![h] = {}]
    /\ UNCHANGED <<gameVars, pending, attempt, resultVars, leaving,
                   freeing, freed>>

\* flush_leave_releases after the accepted send: the leavers registered since.
FlushLeaveReleases(h) ==
    /\ task[h] = "flush"
    /\ Done(h)
    /\ AbortFlush(h)
    /\ UNCHANGED <<gameVars, departed, pending, attempt, resultVars, leaving, chainVars>>

-----------------------------------------------------------------------------
Table ==
    \/ SitDown \/ SitOut \/ SitIn \/ LeaveTable \/ StandUp \/ LoopEnds
    \/ StartHand \/ RecordHandStart \/ AbortUnprovableHand \/ AbortHand
    \/ KickResetsHand \/ HandEnds \/ ShuffleTimeout \/ CleanupAfterHand

Legacy(h) == FirstAttempt(h) \/ AttemptAccepted(h) \/ AttemptFails(h)

Dual(h) ==
    \/ TakeDeparted(h) \/ DualBuildFails(h) \/ DualRegisters(h)
    \/ ProvedSettleAccepted(h) \/ FallBackToBundle(h) \/ BundleAccepted(h)
    \/ SubmitFails(h) \/ FlushLeaveReleases(h)

Build(h) ==
    SettlementRefused(h) \/ AppchainSettles(h) \/ QueueSnapshot(h) \/ StartProof(h)

SettleTask(h) == Build(h) \/ Legacy(h) \/ Dual(h)

Next ==
    \/ Table
    \/ \E h \in Hands : SettleTask(h)
    \/ TickRetry \/ JoinTableRetry
    \/ ScheduleLeaveRelease \/ ReleasePlayerLock

Spec == Init /\ [][Next]_vars

\* Spawned tasks run to their end (the runtime polls every task that is ready,
\* and every send has a time limit).  A loop that is running keeps ticking, and
\* ends, by the timers of its phases, a hand that nobody plays on.
FairSpec ==
    /\ Spec
    /\ \A h \in Hands : WF_vars(SettleTask(h))
    /\ WF_vars(TickRetry)
    /\ WF_vars(looping /\ (HandEnds \/ AbortHand))
    /\ WF_vars(ScheduleLeaveRelease)

-----------------------------------------------------------------------------
(* Properties.                                                             *)

\* A snapshot has one owner: while an attempt to submit a hand is in flight,
\* neither the retry queue nor a second attempt holds the same hand, although
\* the loop's tick, the task that queued it and any client entering the room
\* all run run_settle_attempt on the same queue.
OneSubmissionAtATime ==
    \A h \in Hands : attempt[h] # 0 =>
        /\ pending.hand # h
        /\ task[h] \notin {"build", "prove", "send", "proved", "bundle"}
        /\ h \notin settleOk

\* A hand on whose account the server freed a leaver's lock does not settle on
\* chain afterwards: the loser could have withdrawn what the settlement debits.
\* The exception is a hand that was refused while its settlement was in flight
\* (RefusedNeverSettles is about those).
FreedLeaversOweNothing ==
    [][\A h \in settled' \ settled :
          receipt[h] = "refused" \/ \A w \in Wallets : <<w, h>> \notin freed]_vars

\* Bounded redelivery: as long as the table's loop runs, a snapshot is not queued
\* and sent for ever: it is accepted, replaced, or dropped at MAX_SETTLE_ATTEMPTS.
Redelivered(h) == pending.hand = h \/ attempt[h] # 0
RedeliveryEnds == \A h \in Hands : []<>(~Redelivered(h) \/ ~looping \/ seated = {})

\* refuse_settlement records of the hand it is called with that it never
\* settles: no refused hand has settled or settles later.
RefusedNeverSettles == \A h \in settled : receipt[h] # "refused"

\* flush_leave_releases covers the leavers that registered too late for the
\* bundle, whatever the order: once a hand has been accepted and flushed nobody
\* waits for it in the map any more.
NobodyWaitsForSettledHand ==
    DualMode => \A w \in Wallets, h \in Hands :
        releases[w] = h => ~(h \in settleOk /\ task[h] = "done")
=============================================================================
