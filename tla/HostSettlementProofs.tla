------------------------ MODULE HostSettlementProofs -------------------------
(***************************************************************************)
(* Proofs about the game server's settlement pipeline, for any wallets,    *)
(* hands, seatings, attempts and deployments.                              *)
(***************************************************************************)
EXTENDS HostSettlement, TLAPS

\* The hand in play, the proof log and the mirror belong together, and no task
\* runs for a hand that is still being played.
ControlInv ==
  /\ \A h \in Hands : task[h] # "idle" => h <= hand
  /\ start <= hand
  /\ phase = "shuffle" => /\ hand \in Hands /\ start < hand
                          /\ task[hand] = "idle"
  /\ phase = "playing" => /\ hand \in Hands /\ start = hand
                          /\ task[hand] = "idle" /\ mirror = "live"
  /\ mirror # "none" => start \in Hands /\ task[start] = "idle"

\* A hand is queued, in flight or accepted, never two of these, and only after
\* its task handed it to the legacy exit.
QueueInv ==
  /\ pending.hand = 0 => pending.attempts = 0
  /\ pending.attempts < MaxAttempts
  /\ \A h \in Hands :
       /\ pending.hand = h => attempt[h] = 0
       /\ pending.hand = h \/ attempt[h] # 0 => task[h] \in {"run", "done"}
       /\ h \in settleOk => /\ pending.hand # h /\ attempt[h] = 0
                            /\ task[h] \in {"run", "done", "flush"}

HostInv == TypeOK /\ ControlInv /\ QueueInv

\* A hand may still settle: its submission is queued, in flight or being built,
\* or it is not over and can still be handed to a task that builds one.
MaySettle(h) ==
  \/ attempt[h] # 0
  \/ pending.hand = h
  \/ task[h] \in {"build", "prove", "send", "proved", "bundle"}
  \/ /\ task[h] = "idle"
     /\ \/ h > hand
        \/ h = hand /\ phase = "shuffle"
        \/ h = start /\ mirror = "live"

\* Nothing settles this hand any more, unless it was refused in the meantime.
Closed(h) == receipt[h] = "refused" \/ ~MaySettle(h)

\* Of a hand on whose account a lock was freed, is being freed or would be freed
\* at once, nothing settles any more, unless the hand was refused.
FreedInv ==
  /\ \A w \in Wallets, h \in Hands : <<w, h>> \in freeing \cup freed => Closed(h)
  /\ \A h \in failed : Closed(h)
  /\ \A l \in leaving : l.settled => l.hand \in settleOk

-----------------------------------------------------------------------------
(* Types.                                                                  *)

USE HostAssumption DEF Hands, None, NoSnapshot

\* The parts of the state the table, the tasks and the chain keep have their
\* types; grouped like the variables.
GameType ==
  /\ mode \in Modes
  /\ hand \in 0..MaxHand
  /\ phase \in {"waiting", "shuffle", "playing"}
  /\ ended \in BOOLEAN
  /\ start \in 0..MaxHand
  /\ mirror \in {"none", "live", "stale"}
  /\ looping \in BOOLEAN
  /\ seated \subseteq Wallets
  /\ out \subseteq seated
  /\ seatings \in 0..MaxSeatings
TaskType ==
  /\ task \in [Hands -> {"idle", "build", "diverged", "run", "prove", "send",
                         "proved", "bundle", "flush", "done", "lost"}]
  /\ departed \in [Hands -> SUBSET Wallets]
  /\ pending \in [hand : 0..MaxHand, attempts : 0..MaxAttempts]
  /\ attempt \in [Hands -> 0..MaxAttempts]
ResultType ==
  /\ settleOk \subseteq Hands
  /\ failed \subseteq Hands
  /\ receipt \in [Hands -> {"none", "settled", "failed", "refused"}]
ReleaseType ==
  /\ releases \in [Wallets -> 0..None]
  /\ leaving \subseteq [wallet : Wallets, hand : 0..MaxHand, settled : BOOLEAN]
  /\ freeing \subseteq Wallets \X (0..MaxHand)
ChainType ==
  /\ settled \subseteq Hands
  /\ registered \subseteq Hands
  /\ freed \subseteq Wallets \X Hands

LEMMA TypeParts ==
  TypeOK <=> GameType /\ TaskType /\ ResultType /\ ReleaseType /\ ChainType
BY DEF TypeOK, GameType, TaskType, ResultType, ReleaseType, ChainType

LEMMA TypePartsNext ==
  TypeOK' <=> GameType' /\ TaskType' /\ ResultType' /\ ReleaseType' /\ ChainType'
BY DEF TypeOK, GameType, TaskType, ResultType, ReleaseType, ChainType

\* The steps of the table keep the types of what it owns.
LEMMA TableGameType ==
  ASSUME GameType, Table
  PROVE  GameType'
<1>1. CASE SitDown
  BY <1>1 DEF SitDown, GameType
<1>2. CASE SitOut
  BY <1>2 DEF SitOut, GameType
<1>3. CASE SitIn
  BY <1>3 DEF SitIn, GameType
<1>4. CASE LeaveTable \/ StandUp
  BY <1>4 DEF LeaveTable, StandUp, GiveUpSeat, GameType
<1>5. CASE LoopEnds
  BY <1>5 DEF LoopEnds, GameType
<1>6. CASE StartHand
  BY <1>6 DEF StartHand, GameType
<1>7. CASE RecordHandStart
  BY <1>7 DEF RecordHandStart, GameType
<1>8. CASE AbortUnprovableHand
  BY <1>8 DEF AbortUnprovableHand, GameType
<1>9. CASE AbortHand
  BY <1>9 DEF AbortHand, DropKicked, GameType
<1>10. CASE KickResetsHand
  BY <1>10 DEF KickResetsHand, DropKicked, GameType
<1>11. CASE HandEnds
  BY <1>11 DEF HandEnds, OnHandComplete, DropKicked, GameType
<1>12. CASE ShuffleTimeout
  BY <1>12 DEF ShuffleTimeout, OnHandComplete, DropKicked, GameType
<1>13. CASE CleanupAfterHand
  BY <1>13 DEF CleanupAfterHand, GameType
<1>14. QED
  BY <1>1, <1>2, <1>3, <1>4, <1>5, <1>6, <1>7, <1>8, <1>9, <1>10, <1>11,
     <1>12, <1>13 DEF Table

\* The map of leavers and the two kinds of release tasks keep their types.
LEMMA AbortFlushType ==
  ASSUME ReleaseType, NEW h \in 0..MaxHand, AbortFlush(h), leaving' = leaving
  PROVE  ReleaseType'
BY DEF AbortFlush, Untake, Due, ReleaseType

LEMMA GiveUpType ==
  ASSUME ResultType, NEW h \in Hands, NEW status \in {"refused", "failed"},
         GiveUp(h, status), settleOk' = settleOk
  PROVE  ResultType'
BY DEF GiveUp, ResultType

\* The steps of the table keep the types of what they share with the tasks.
LEMMA CompleteType ==
  ASSUME GameType, TaskType, ResultType, ReleaseType, OnHandComplete,
         UNCHANGED <<departed, pending, attempt, leaving>>
  PROVE  TaskType' /\ ResultType' /\ ReleaseType'
<1>1. CASE UNCHANGED <<mirror, task, resultVars, releases, freeing>>
  BY <1>1 DEF TaskType, ResultType, ReleaseType, resultVars
<1>2. CASE /\ start # 0
           /\ GiveUp(start, "refused")
           /\ UNCHANGED <<mirror, task, settleOk>>
  <2>1. start \in Hands /\ start \in 0..MaxHand
    BY <1>2 DEF GameType
  <2>2. ResultType'
    BY <1>2, <2>1, GiveUpType
  <2>3. ReleaseType'
    BY <1>2, <2>1, AbortFlushType DEF GiveUp
  <2>4. QED
    BY <1>2, <2>2, <2>3 DEF TaskType
<1>3. CASE /\ start # 0
           /\ task' = [task EXCEPT ![start] = IF mirror = "live" THEN "build" ELSE "diverged"]
           /\ UNCHANGED <<resultVars, releases, freeing>>
  BY <1>3 DEF TaskType, GameType, ResultType, ReleaseType, resultVars
<1>4. QED
  BY <1>1, <1>2, <1>3 DEF OnHandComplete

LEMMA TableType ==
  ASSUME TypeOK, Table
  PROVE  TypeOK'
<1>0. GameType /\ TaskType /\ ResultType /\ ReleaseType /\ ChainType
  BY TypeParts
<1>1. GameType'
  BY <1>0, TableGameType
<1>2. ChainType'
  BY <1>0 DEF Table, ChainType, SitDown, SitOut, SitIn, LeaveTable, StandUp, GiveUpSeat,
     LoopEnds, StartHand, RecordHandStart, AbortUnprovableHand, AbortHand, KickResetsHand,
     HandEnds, ShuffleTimeout, CleanupAfterHand, chainVars
<1>3. CASE UNCHANGED <<taskVars, resultVars, releaseVars>>
  BY <1>0, <1>1, <1>2, <1>3, TypePartsNext
     DEF TaskType, ResultType, ReleaseType, taskVars, resultVars, releaseVars
<1>4. CASE LeaveTable \/ StandUp \/ CleanupAfterHand
  <2>1. UNCHANGED <<taskVars, resultVars, releases, freeing>>
    BY <1>4 DEF LeaveTable, StandUp, GiveUpSeat, CleanupAfterHand
  <2>2. leaving' \subseteq [wallet : Wallets, hand : 0..MaxHand, settled : BOOLEAN]
    <3> DEFINE l(w) == [wallet |-> w, hand |-> hand, settled |-> hand \in settleOk]
    <3>1. PICK ws \in SUBSET Wallets : leaving' = leaving \cup {l(w) : w \in ws}
      <4>1. seated \subseteq Wallets /\ out \subseteq Wallets
        BY <1>0 DEF GameType
      <4>2. CASE LeaveTable
        <5>1. PICK w \in seated : leaving' = leaving \cup {l(w)}
          BY <4>2 DEF LeaveTable
        <5>2. {w} \in SUBSET Wallets /\ {l(w)} = {l(x) : x \in {w}}
          BY <4>1
        <5>3. QED
          BY <5>1, <5>2
      <4>3. CASE StandUp
        <5>1. leaving' = leaving \cup {l(w) : w \in {}}
          BY <4>3 DEF StandUp
        <5>2. QED
          BY <5>1
      <4>4. CASE CleanupAfterHand
        <5>1. PICK broke \in SUBSET seated : leaving' = leaving \cup {l(w) : w \in broke \cup out}
          BY <4>4 DEF CleanupAfterHand
        <5>2. broke \cup out \in SUBSET Wallets
          BY <4>1
        <5>3. QED
          BY <5>1, <5>2
      <4>5. QED
        BY <1>4, <4>2, <4>3, <4>4
    <3>2. ASSUME NEW w \in Wallets
          PROVE  l(w) \in [wallet : Wallets, hand : 0..MaxHand, settled : BOOLEAN]
      <4>1. \A b \in BOOLEAN : [wallet |-> w, hand |-> hand, settled |-> b]
                              \in [wallet : Wallets, hand : 0..MaxHand, settled : BOOLEAN]
        BY <1>0 DEF GameType
      <4>2. (hand \in settleOk) \in BOOLEAN
        OBVIOUS
      <4>3. QED
        BY <4>1, <4>2, Zenon
    <3>3. leaving \subseteq [wallet : Wallets, hand : 0..MaxHand, settled : BOOLEAN]
      BY <1>0 DEF ReleaseType
    <3> HIDE DEF l
    <3>4. QED
      BY <3>1, <3>2, <3>3
  <2>3. QED
    BY <1>0, <1>1, <1>2, <2>1, <2>2, TypePartsNext
    DEF TaskType, ResultType, ReleaseType, taskVars, resultVars
<1>5. CASE AbortHand \/ AbortUnprovableHand
  <2>1. hand \in 0..MaxHand /\ leaving' = leaving /\ UNCHANGED <<taskVars, resultVars>>
    BY <1>0, <1>5 DEF AbortHand, AbortUnprovableHand, GameType
  <2>2. AbortFlush(hand)
    BY <1>5 DEF AbortHand, AbortUnprovableHand
  <2>3. ReleaseType'
    BY <1>0, <2>1, <2>2, AbortFlushType
  <2>4. QED
    BY <1>0, <1>1, <1>2, <2>1, <2>3, TypePartsNext
    DEF TaskType, ResultType, taskVars, resultVars
<1>6. CASE HandEnds
  <2>1. OnHandComplete /\ UNCHANGED <<departed, pending, attempt, leaving>>
    BY <1>6 DEF HandEnds
  <2>2. QED
    BY <1>0, <1>1, <1>2, <2>1, CompleteType, TypePartsNext
<1>7. CASE ShuffleTimeout
  <2>1. /\ UNCHANGED <<departed, pending, attempt, leaving>>
        /\ \/ OnHandComplete
           \/ /\ AbortFlush(hand) \/ UNCHANGED <<releases, freeing>>
              /\ UNCHANGED <<task, resultVars>>
    BY <1>7 DEF ShuffleTimeout
  <2>2. CASE OnHandComplete
    BY <1>0, <1>1, <1>2, <2>1, <2>2, CompleteType, TypePartsNext
  <2>3. CASE /\ AbortFlush(hand) \/ UNCHANGED <<releases, freeing>>
             /\ UNCHANGED <<task, resultVars>>
    <3>1. hand \in 0..MaxHand
      BY <1>0 DEF GameType
    <3>2. ReleaseType'
      BY <1>0, <2>1, <2>3, <3>1, AbortFlushType DEF ReleaseType
    <3>3. QED
      BY <1>0, <1>1, <1>2, <2>1, <2>3, <3>2, TypePartsNext
      DEF TaskType, ResultType, resultVars
  <2>4. QED
    BY <2>1, <2>2, <2>3
<1>8. QED
  BY <1>3, <1>4, <1>5, <1>6, <1>7 DEF Table, SitDown, SitOut, SitIn, LoopEnds, StartHand,
     RecordHandStart, KickResetsHand

\* Taking the queued snapshot: what comes of the queue and the attempts.
LEMMA TakeSnapshotType ==
  ASSUME TaskType, QueueInv, TakeSnapshot, UNCHANGED departed,
         task' \in [Hands -> {"idle", "build", "diverged", "run", "prove", "send",
                              "proved", "bundle", "flush", "done", "lost"}]
  PROVE  TaskType'
<1>1. pending.hand \in 0..MaxHand /\ pending.attempts \in 0..MaxAttempts
  BY DEF TaskType
<1>2. CASE pending = NoSnapshot
  BY <1>2 DEF TaskType, TakeSnapshot
<1>3. CASE pending # NoSnapshot
  <2>1. pending.hand \in Hands
    <3>1. pending = [hand |-> pending.hand, attempts |-> pending.attempts]
      BY DEF TaskType
    <3>2. QED
      BY <1>1, <1>3, <3>1 DEF QueueInv
  <2>2. pending.attempts + 1 \in 0..MaxAttempts
    BY <1>1 DEF QueueInv
  <2>3. pending' = NoSnapshot
    BY <1>3 DEF TakeSnapshot
  <2>4. attempt' \in [Hands -> 0..MaxAttempts]
    BY <1>3, <2>1, <2>2 DEF TaskType, TakeSnapshot
  <2>5. pending' \in [hand : 0..MaxHand, attempts : 0..MaxAttempts]
    BY <2>3
  <2>6. QED
    BY <2>4, <2>5 DEF TaskType
<1>4. QED
  BY <1>2, <1>3

\* The settlement task of a hand and the attempts of the legacy exit.
LEMMA SettleTaskType ==
  ASSUME TypeOK, QueueInv, NEW h \in Hands, SettleTask(h)
  PROVE  TypeOK'
<1>0. GameType /\ TaskType /\ ResultType /\ ReleaseType /\ ChainType /\ h \in 0..MaxHand
  BY TypeParts
<1>1. GameType'
  BY <1>0 DEF GameType, gameVars, SettleTask, Build, Legacy, Dual, SettlementRefused,
     AppchainSettles, QueueSnapshot, StartProof, FirstAttempt, AttemptAccepted, AttemptFails,
     TakeDeparted, DualBuildFails, DualRegisters, ProvedSettleAccepted, FallBackToBundle,
     BundleAccepted, SubmitFails, FlushLeaveReleases
<1>2. ChainType'
  <2>1. CASE Build(h)
    BY <1>0, <2>1 DEF Build, ChainType, SettlementRefused, AppchainSettles, QueueSnapshot,
       StartProof, chainVars
  <2>2. CASE Legacy(h)
    BY <1>0, <2>2 DEF Legacy, ChainType, FirstAttempt, AttemptAccepted, AttemptFails, chainVars
  <2>3. CASE Dual(h)
    BY <1>0, <2>3 DEF Dual, ChainType, TakeDeparted, DualBuildFails, DualRegisters,
       ProvedSettleAccepted, FallBackToBundle, BundleAccepted, BundleExecutes, SubmitFails,
       FlushLeaveReleases, chainVars
  <2>4. QED
    BY <2>1, <2>2, <2>3 DEF SettleTask
<1>3. ReleaseType'
  <2>1. CASE SettlementRefused(h) \/ FlushLeaveReleases(h)
    BY <1>0, <2>1, AbortFlushType DEF SettlementRefused, FlushLeaveReleases, GiveUp
  <2>2. CASE TakeDeparted(h)
    BY <1>0, <2>2 DEF TakeDeparted, Untake, ReleaseType
  <2>3. CASE SubmitFails(h)
    BY <1>0, <2>3 DEF SubmitFails, ReleaseType
  <2>4. CASE UNCHANGED releaseVars
    BY <1>0, <2>4 DEF ReleaseType, releaseVars
  <2>5. QED
    BY <2>1, <2>2, <2>3, <2>4 DEF SettleTask, Build, Legacy, Dual, AppchainSettles,
       QueueSnapshot, StartProof, FirstAttempt, AttemptAccepted, AttemptFails, DualBuildFails,
       DualRegisters, ProvedSettleAccepted, FallBackToBundle, BundleAccepted
<1>4. ResultType'
  <2>1. CASE SettlementRefused(h)
    BY <1>0, <2>1, GiveUpType DEF SettlementRefused
  <2>2. CASE AppchainSettles(h) \/ AttemptAccepted(h) \/ ProvedSettleAccepted(h)
             \/ BundleAccepted(h)
    BY <1>0, <2>2 DEF ResultType, AppchainSettles, AttemptAccepted, ProvedSettleAccepted,
       BundleAccepted, Accepted
  <2>3. CASE AttemptFails(h)
    BY <1>0, <2>3 DEF ResultType, AttemptFails, RetryLater
  <2>4. CASE UNCHANGED resultVars
    BY <1>0, <2>4 DEF ResultType, resultVars
  <2>5. QED
    BY <2>1, <2>2, <2>3, <2>4 DEF SettleTask, Build, Legacy, Dual,
       QueueSnapshot, StartProof, FirstAttempt, TakeDeparted, DualBuildFails,
       DualRegisters, FallBackToBundle, SubmitFails, FlushLeaveReleases
<1>5. TaskType'
  <2>1. CASE Build(h)
    BY <1>0, <2>1 DEF TaskType, Build, SettlementRefused, AppchainSettles, QueueSnapshot,
       StartProof, Done
  <2>2. CASE FirstAttempt(h)
    <3>1. task' \in [Hands -> {"idle", "build", "diverged", "run", "prove", "send",
                               "proved", "bundle", "flush", "done", "lost"}]
      BY <1>0, <2>2 DEF TaskType, FirstAttempt, Done
    <3>2. QED
      BY <1>0, <2>2, <3>1, TakeSnapshotType DEF FirstAttempt
  <2>3. CASE AttemptAccepted(h)
    BY <1>0, <2>3 DEF TaskType, AttemptAccepted
  <2>4. CASE AttemptFails(h)
    BY <1>0, <2>4 DEF TaskType, AttemptFails, RetryLater
  <2>5. CASE Dual(h)
    <3>1. UNCHANGED <<pending, attempt>>
      BY <2>5 DEF Dual, TakeDeparted, DualBuildFails, DualRegisters, ProvedSettleAccepted,
         FallBackToBundle, BundleAccepted, SubmitFails, FlushLeaveReleases
    <3>2. task' \in [Hands -> {"idle", "build", "diverged", "run", "prove", "send",
                               "proved", "bundle", "flush", "done", "lost"}]
      BY <1>0, <2>5 DEF TaskType, Dual, TakeDeparted, DualBuildFails, DualRegisters,
         ProvedSettleAccepted, Accepted, FallBackToBundle, BundleAccepted, SubmitFails,
         FlushLeaveReleases, Done
    <3>3. departed' \in [Hands -> SUBSET Wallets]
      BY <1>0, <2>5 DEF TaskType, Due, Dual, TakeDeparted, DualBuildFails, DualRegisters,
         ProvedSettleAccepted, FallBackToBundle, BundleAccepted, SubmitFails, FlushLeaveReleases
    <3>4. QED
      BY <1>0, <3>1, <3>2, <3>3 DEF TaskType
  <2>6. QED
    BY <2>1, <2>2, <2>3, <2>4, <2>5 DEF SettleTask, Legacy
<1>6. QED
  BY <1>1, <1>2, <1>3, <1>4, <1>5, TypePartsNext

\* Every step keeps the types, as long as a queued snapshot has attempts left.
LEMMA TypeStep ==
  ASSUME TypeOK, QueueInv, [Next]_vars
  PROVE  TypeOK'
<1>0. GameType /\ TaskType /\ ResultType /\ ReleaseType /\ ChainType
  BY TypeParts
<1>1. CASE TickRetry \/ JoinTableRetry
  <2>1. TakeSnapshot /\ UNCHANGED <<gameVars, task, departed, resultVars, releaseVars, chainVars>>
    BY <1>1 DEF TickRetry, JoinTableRetry
  <2>2. TaskType'
    <3>1. task' \in [Hands -> {"idle", "build", "diverged", "run", "prove", "send",
                               "proved", "bundle", "flush", "done", "lost"}]
      BY <1>0, <2>1 DEF TaskType
    <3>2. QED
      BY <1>0, <2>1, <3>1, TakeSnapshotType
  <2>3. QED
    BY <1>0, <2>1, <2>2, TypePartsNext DEF GameType, ResultType, ReleaseType, ChainType,
       gameVars, resultVars, releaseVars, chainVars
<1>2. CASE ScheduleLeaveRelease
  <2>1. UNCHANGED <<gameVars, taskVars, resultVars, chainVars>>
    BY <1>2 DEF ScheduleLeaveRelease
  <2>2. ReleaseType'
    BY <1>0, <1>2 DEF ScheduleLeaveRelease, ReleaseType
  <2>3. QED
    BY <1>0, <2>1, <2>2, TypePartsNext DEF GameType, TaskType, ResultType, ChainType,
       gameVars, taskVars, resultVars, chainVars
<1>3. CASE ReleasePlayerLock
  <2>1. /\ UNCHANGED <<gameVars, taskVars, resultVars, releases, leaving, settled, registered>>
        /\ freeing' \subseteq freeing
    BY <1>3 DEF ReleasePlayerLock
  <2>2. freed' \subseteq Wallets \X Hands
    BY <1>0, <1>3 DEF ReleasePlayerLock, FreedEarly, ReleaseType, ChainType
  <2>3. QED
    BY <1>0, <2>1, <2>2, TypePartsNext DEF GameType, TaskType, ResultType, ReleaseType,
       ChainType, gameVars, taskVars, resultVars
<1>4. CASE UNCHANGED vars
  BY <1>4 DEF TypeOK, vars, gameVars, taskVars, resultVars, releaseVars, chainVars
<1>5. QED
  BY <1>1, <1>2, <1>3, <1>4, TableType, SettleTaskType DEF Next

-----------------------------------------------------------------------------
(* The hand in play, its proof log and its mirror.                         *)

\* What on_hand_complete does to the mirror and to the tasks.
LEMMA CompleteControl ==
  ASSUME TypeOK, ControlInv, OnHandComplete, UNCHANGED <<hand, start>>,
         phase \in {"playing", "shuffle"}, phase' = "waiting"
  PROVE  ControlInv'
<1>1. start \in 0..MaxHand /\ hand \in 0..MaxHand /\ DOMAIN task = Hands
  BY DEF TypeOK
<1>2. CASE UNCHANGED <<mirror, task>>
  BY <1>1, <1>2 DEF ControlInv
<1>3. CASE /\ start # 0
           /\ mirror' = "none"
           /\ task' = [task EXCEPT ![start] = IF mirror = "live" THEN "build" ELSE "diverged"]
  <2>1. \A h \in Hands : task'[h] # "idle" => task[h] # "idle" \/ h = start
    BY <1>1, <1>3
  <2>2. QED
    BY <1>1, <1>3, <2>1 DEF ControlInv
<1>4. QED
  BY <1>2, <1>3 DEF OnHandComplete

LEMMA TableControl ==
  ASSUME TypeOK, ControlInv, Table
  PROVE  ControlInv'
<1>0. start \in 0..MaxHand /\ hand \in 0..MaxHand /\ DOMAIN task = Hands
  BY DEF TypeOK
<1>1. CASE UNCHANGED <<hand, start, phase, mirror, task>>
  BY <1>1 DEF ControlInv
<1>2. CASE StartHand
  <2>1. /\ phase = "waiting" /\ phase' = "shuffle" /\ hand < MaxHand /\ hand' = hand + 1
        /\ UNCHANGED <<start, mirror, task>>
    BY <1>2 DEF StartHand, taskVars
  <2>2. QED
    BY <1>0, <2>1 DEF ControlInv
<1>3. CASE RecordHandStart \/ AbortUnprovableHand
  <2>1. /\ phase = "shuffle" /\ UNCHANGED <<hand, task>>
        /\ \/ phase' = "playing" /\ start' = hand /\ mirror' = "live"
           \/ phase' = "waiting" /\ start' \in {0, hand} /\ mirror' = "none"
    BY <1>3 DEF RecordHandStart, AbortUnprovableHand, taskVars
  <2>2. QED
    BY <1>0, <2>1 DEF ControlInv
<1>4. CASE AbortHand \/ KickResetsHand
  <2>1. /\ phase = "playing" /\ phase' = "waiting" /\ mirror' = "stale"
        /\ UNCHANGED <<hand, start, task>>
    BY <1>4 DEF AbortHand, KickResetsHand, taskVars
  <2>2. QED
    BY <1>0, <2>1 DEF ControlInv
<1>5. CASE HandEnds
  BY <1>5, CompleteControl DEF HandEnds
<1>6. CASE ShuffleTimeout
  <2>1. /\ phase = "shuffle" /\ UNCHANGED <<hand, start>>
        /\ \/ OnHandComplete /\ phase' = "waiting"
           \/ phase' \in {"waiting", "shuffle"} /\ UNCHANGED <<mirror, task>>
    BY <1>6 DEF ShuffleTimeout
  <2>2. CASE OnHandComplete /\ phase' = "waiting"
    BY <2>1, <2>2, CompleteControl
  <2>3. CASE phase' \in {"waiting", "shuffle"} /\ UNCHANGED <<mirror, task>>
    BY <2>1, <2>3 DEF ControlInv
  <2>4. QED
    BY <2>1, <2>2, <2>3
<1>7. QED
  BY <1>1, <1>2, <1>3, <1>4, <1>5, <1>6 DEF Table, SitDown, SitOut, SitIn, LeaveTable,
     StandUp, GiveUpSeat, LoopEnds, CleanupAfterHand, taskVars

\* A task that runs goes on or ends, it never becomes a fresh one, and it leaves
\* the tasks of the other hands and the table alone.
LEMMA SettleTaskMoves ==
  ASSUME TypeOK, NEW h \in Hands, SettleTask(h)
  PROVE  /\ UNCHANGED gameVars
         /\ \A g \in Hands : g # h => task'[g] = task[g]
         /\ task'[h] = "idle" <=> task[h] = "idle"
<1>0. DOMAIN task = Hands
  BY DEF TypeOK
<1>1. CASE Build(h)
  BY <1>0, <1>1 DEF Build, SettlementRefused, AppchainSettles, QueueSnapshot, StartProof, Done
<1>2. CASE Legacy(h)
  BY <1>0, <1>2 DEF Legacy, FirstAttempt, AttemptAccepted, AttemptFails, Done
<1>3. CASE Dual(h)
  BY <1>0, <1>3 DEF Dual, TakeDeparted, DualBuildFails, DualRegisters, ProvedSettleAccepted,
     Accepted, FallBackToBundle, BundleAccepted, SubmitFails, FlushLeaveReleases, Done
<1>4. QED
  BY <1>1, <1>2, <1>3 DEF SettleTask

LEMMA ControlStep ==
  ASSUME TypeOK, ControlInv, [Next]_vars
  PROVE  ControlInv'
<1>1. ASSUME NEW h \in Hands, SettleTask(h) PROVE ControlInv'
  <2>1. /\ UNCHANGED <<hand, start, phase, mirror>>
        /\ \A g \in Hands : task'[g] = "idle" <=> task[g] = "idle"
    BY <1>1, SettleTaskMoves DEF gameVars
  <2>2. hand \in 0..MaxHand /\ start \in 0..MaxHand
    BY DEF TypeOK
  <2>3. QED
    BY <2>1, <2>2 DEF ControlInv
<1>2. CASE \/ TickRetry \/ JoinTableRetry \/ ScheduleLeaveRelease \/ ReleasePlayerLock
           \/ UNCHANGED vars
  <2>1. UNCHANGED <<hand, start, phase, mirror, task>>
    BY <1>2 DEF TickRetry, JoinTableRetry, ScheduleLeaveRelease, ReleasePlayerLock, vars,
       gameVars, taskVars
  <2>2. QED
    BY <2>1 DEF ControlInv
<1>3. QED
  BY <1>1, <1>2, TableControl DEF Next

-----------------------------------------------------------------------------
(* One owner for a snapshot.                                               *)

\* Taking the snapshot moves a hand from the queue into flight.
LEMMA TakeSnapshotMoves ==
  ASSUME TypeOK, QueueInv, TakeSnapshot
  PROVE  /\ pending'.hand = 0 /\ pending'.attempts = 0
         /\ \A h \in Hands : attempt'[h] # 0 => attempt[h] # 0 \/ pending.hand = h
<1>1. /\ pending.hand \in 0..MaxHand /\ DOMAIN attempt = Hands
      /\ pending = [hand |-> pending.hand, attempts |-> pending.attempts]
  BY DEF TypeOK
<1>2. CASE pending = NoSnapshot
  BY <1>2 DEF TakeSnapshot
<1>3. CASE pending # NoSnapshot
  <2>1. pending' = NoSnapshot
    BY <1>3 DEF TakeSnapshot
  <2>2. \A h \in Hands : h # pending.hand => attempt'[h] = attempt[h]
    BY <1>1, <1>3 DEF TakeSnapshot
  <2>3. QED
    BY <2>1, <2>2
<1>4. QED
  BY <1>2, <1>3

\* A hand given to a settlement task was never queued before.
LEMMA TableQueue ==
  ASSUME TypeOK, ControlInv, QueueInv, Table
  PROVE  QueueInv'
<1>1. /\ UNCHANGED <<pending, attempt, settleOk>>
      /\ UNCHANGED task \/ OnHandComplete
  BY DEF Table, SitDown, SitOut, SitIn, LeaveTable, StandUp, GiveUpSeat, LoopEnds, StartHand,
     RecordHandStart, AbortUnprovableHand, AbortHand, KickResetsHand, HandEnds, ShuffleTimeout,
     CleanupAfterHand, OnHandComplete, GiveUp, taskVars, resultVars
<1>2. \A h \in Hands : task[h] # "idle" => task'[h] = task[h]
  <2>1. CASE UNCHANGED task
    BY <2>1
  <2>2. CASE OnHandComplete
    <3>1. DOMAIN task = Hands
      BY DEF TypeOK
    <3>2. mirror # "none" => task[start] = "idle"
      BY DEF ControlInv
    <3>3. QED
      BY <2>2, <3>1, <3>2 DEF OnHandComplete
  <2>3. QED
    BY <1>1, <2>1, <2>2
<1>3. ASSUME NEW h \in Hands
      PROVE  /\ pending'.hand = h => attempt'[h] = 0
             /\ pending'.hand = h \/ attempt'[h] # 0 => task'[h] \in {"run", "done"}
             /\ h \in settleOk' => /\ pending'.hand # h /\ attempt'[h] = 0
                                   /\ task'[h] \in {"run", "done", "flush"}
  <2>1. task[h] # "idle" => task'[h] = task[h]
    BY <1>2
  <2>2. QED
    BY <1>1, <2>1 DEF QueueInv
<1>4. QED
  BY <1>1, <1>3 DEF QueueInv

LEMMA BuildQueue ==
  ASSUME TypeOK, ControlInv, QueueInv, NEW h \in Hands, Build(h)
  PROVE  QueueInv'
<1>0. /\ DOMAIN task = Hands /\ attempt' = attempt
      /\ \A g \in Hands : g # h => task'[g] = task[g] /\ (g \in settleOk' <=> g \in settleOk)
  BY DEF TypeOK, Build, SettlementRefused, AppchainSettles, QueueSnapshot, StartProof, Done,
     GiveUp, resultVars
<1>1. /\ task[h] \in {"build", "diverged"} /\ pending.hand # h /\ attempt[h] = 0
      /\ h \notin settleOk
  BY DEF Build, SettlementRefused, AppchainSettles, QueueSnapshot, StartProof, QueueInv
<1>2. CASE SettlementRefused(h) \/ AppchainSettles(h)
  <2>1. UNCHANGED pending /\ task'[h] = "done"
    BY <1>0, <1>2 DEF SettlementRefused, AppchainSettles, Done
  <2>2. QED
    BY <1>0, <1>1, <2>1 DEF QueueInv
<1>3. CASE QueueSnapshot(h)
  <2>1. /\ pending'.hand = h /\ pending'.attempts = 0 /\ task'[h] = "run"
        /\ settleOk' = settleOk
    BY <1>0, <1>3 DEF QueueSnapshot, resultVars
  <2>2. QED
    BY <1>0, <1>1, <2>1 DEF QueueInv
<1>4. CASE StartProof(h)
  <2>1. UNCHANGED pending /\ settleOk' = settleOk
    BY <1>4 DEF StartProof, resultVars
  <2>2. QED
    BY <1>0, <1>1, <2>1 DEF QueueInv
<1>5. QED
  BY <1>2, <1>3, <1>4 DEF Build

LEMMA LegacyQueue ==
  ASSUME TypeOK, QueueInv, NEW h \in Hands, Legacy(h)
  PROVE  QueueInv'
<1>0. DOMAIN task = Hands /\ DOMAIN attempt = Hands /\ pending.hand \in 0..MaxHand
      /\ attempt[h] \in 0..MaxAttempts
  BY DEF TypeOK
<1>1. CASE FirstAttempt(h)
  <2>1. /\ pending'.hand = 0 /\ pending'.attempts = 0
        /\ \A g \in Hands : attempt'[g] # 0 => attempt[g] # 0 \/ pending.hand = g
    BY <1>1, TakeSnapshotMoves DEF FirstAttempt
  <2>2. /\ settleOk' = settleOk /\ task[h] = "run" /\ task'[h] = "done"
        /\ \A g \in Hands : g # h => task'[g] = task[g]
    BY <1>0, <1>1 DEF FirstAttempt, resultVars, Done
  <2>3. QED
    BY <2>1, <2>2 DEF QueueInv
<1>2. CASE AttemptAccepted(h)
  <2>1. /\ attempt[h] # 0 /\ attempt'[h] = 0 /\ settleOk' = settleOk \cup {h}
        /\ \A g \in Hands : g # h => attempt'[g] = attempt[g]
        /\ UNCHANGED <<task, pending>>
    BY <1>0, <1>2 DEF AttemptAccepted
  <2>2. pending.hand # h /\ task[h] \in {"run", "done"}
    BY <2>1 DEF QueueInv
  <2>3. QED
    BY <2>1, <2>2 DEF QueueInv
<1>3. CASE AttemptFails(h)
  <2>1. /\ attempt[h] # 0 /\ attempt'[h] = 0 /\ settleOk' = settleOk
        /\ \A g \in Hands : g # h => attempt'[g] = attempt[g]
        /\ task' = task
    BY <1>0, <1>3 DEF AttemptFails
  <2>2. /\ pending.hand # h /\ task[h] \in {"run", "done"} /\ h \notin settleOk
        /\ attempt[h] <= MaxAttempts
    BY <1>0, <2>1 DEF QueueInv
  <2>3. \/ pending' = pending
        \/ pending'.hand = h /\ pending'.attempts = attempt[h] /\ attempt[h] < MaxAttempts
    BY <1>0, <1>3 DEF AttemptFails, RetryLater
  <2>4. CASE pending' = pending
    BY <2>1, <2>2, <2>4 DEF QueueInv
  <2>5. CASE pending'.hand = h /\ pending'.attempts = attempt[h] /\ attempt[h] < MaxAttempts
    BY <2>1, <2>2, <2>5 DEF QueueInv
  <2>6. QED
    BY <2>3, <2>4, <2>5
<1>4. QED
  BY <1>1, <1>2, <1>3 DEF Legacy

LEMMA DualQueue ==
  ASSUME TypeOK, QueueInv, NEW h \in Hands, Dual(h)
  PROVE  QueueInv'
<1>0. /\ DOMAIN task = Hands /\ UNCHANGED <<pending, attempt>>
      /\ \A g \in Hands : g # h => task'[g] = task[g]
  BY DEF TypeOK, Dual, TakeDeparted, DualBuildFails, DualRegisters, ProvedSettleAccepted,
     Accepted, FallBackToBundle, BundleAccepted, SubmitFails, FlushLeaveReleases, Done
<1>1. \/ task[h] \in {"prove", "send", "proved", "bundle"} /\ settleOk' = settleOk
      \/ /\ task[h] \in {"proved", "bundle"}
         /\ settleOk' = settleOk \cup {h} /\ task'[h] = "flush"
      \/ task[h] = "flush" /\ task'[h] = "done" /\ settleOk' = settleOk
  BY <1>0 DEF Dual, TakeDeparted, DualBuildFails, DualRegisters, ProvedSettleAccepted,
     Accepted, FallBackToBundle, BundleAccepted, SubmitFails, FlushLeaveReleases, Done,
     resultVars
<1>2. pending.hand # h /\ attempt[h] = 0
  BY <1>1 DEF QueueInv
<1>3. QED
  BY <1>0, <1>1, <1>2 DEF QueueInv

LEMMA QueueStep ==
  ASSUME TypeOK, ControlInv, QueueInv, [Next]_vars
  PROVE  QueueInv'
<1>1. CASE TickRetry \/ JoinTableRetry
  <2>1. TakeSnapshot /\ UNCHANGED <<task, settleOk>>
    BY <1>1 DEF TickRetry, JoinTableRetry, resultVars
  <2>2. QED
    BY <2>1, TakeSnapshotMoves DEF QueueInv
<1>2. CASE ScheduleLeaveRelease \/ ReleasePlayerLock \/ UNCHANGED vars
  <2>1. UNCHANGED <<task, pending, attempt, settleOk>>
    BY <1>2 DEF ScheduleLeaveRelease, ReleasePlayerLock, vars, taskVars, resultVars
  <2>2. QED
    BY <2>1 DEF QueueInv
<1>3. QED
  BY <1>1, <1>2, TableQueue, BuildQueue, LegacyQueue, DualQueue DEF Next, SettleTask

LEMMA HostInvInit == Init => HostInv
<1>1. Init => TypeOK
  <2> SUFFICES ASSUME Init PROVE TypeOK
    OBVIOUS
  <2>1. GameType
    <3>1. ended \in BOOLEAN /\ looping \in BOOLEAN
      BY Zenon DEF Init
    <3>2. hand \in 0..MaxHand /\ start \in 0..MaxHand /\ seatings \in 0..MaxSeatings
      BY DEF Init
    <3>3. /\ mode \in Modes /\ phase \in {"waiting", "shuffle", "playing"}
          /\ mirror \in {"none", "live", "stale"}
          /\ seated \subseteq Wallets /\ out \subseteq seated
      BY DEF Init
    <3>4. QED
      BY <3>1, <3>2, <3>3 DEF GameType
  <2>2. TaskType
    BY DEF Init, TaskType
  <2>3. ResultType
    BY DEF Init, ResultType
  <2>4. ReleaseType
    BY DEF Init, ReleaseType
  <2>5. ChainType
    BY DEF Init, ChainType
  <2>6. QED
    BY <2>1, <2>2, <2>3, <2>4, <2>5, TypeParts
<1>2. Init => ControlInv
  BY DEF Init, ControlInv
<1>3. Init => QueueInv
  BY DEF Init, QueueInv
<1>4. QED
  BY <1>1, <1>2, <1>3 DEF HostInv

LEMMA HostInvStep ==
  ASSUME HostInv, [Next]_vars
  PROVE  HostInv'
BY TypeStep, ControlStep, QueueStep DEF HostInv

LEMMA HostInvariant == Spec => []HostInv
BY HostInvInit, HostInvStep, PTL DEF Spec

\* The pipeline keeps its types; the retry counter stays below its limit
\* (MAX_SETTLE_ATTEMPTS of hooks.rs) whoever triggers the attempts.
THEOREM HostTypeCorrect == Spec => []TypeOK
BY HostInvariant, PTL DEF HostInv

\* A snapshot has one owner (PENDING_SETTLE and run_settle_attempt of hooks.rs):
\* for any number of wallets, hands and attempts, and in every deployment.
THEOREM OneSubmission == Spec => []OneSubmissionAtATime
<1>1. HostInv => OneSubmissionAtATime
  BY DEF HostInv, QueueInv, OneSubmissionAtATime
<1>2. QED
  BY <1>1, HostInvariant, PTL

-----------------------------------------------------------------------------
(* Freed leavers.                                                          *)

\* A hand that is accepted has nothing left that could settle it.
LEMMA AcceptedIsOver ==
  ASSUME HostInv, NEW h \in settleOk
  PROVE  ~MaySettle(h)
<1>1. h \in Hands /\ pending.hand # h /\ attempt[h] = 0 /\ task[h] \in {"run", "done", "flush"}
  BY DEF HostInv, TypeOK, QueueInv
<1>2. QED
  BY <1>1 DEF MaySettle

\* No step of the table makes a hand that could not settle settle after all.
LEMMA TableMaySettle ==
  ASSUME HostInv, Table, NEW h \in Hands, MaySettle(h)'
  PROVE  MaySettle(h)
<1>0. /\ start \in 0..MaxHand /\ hand \in 0..MaxHand /\ DOMAIN task = Hands
      /\ UNCHANGED <<pending, attempt>>
  BY DEF HostInv, TypeOK, Table, SitDown, SitOut, SitIn, LeaveTable, StandUp, GiveUpSeat,
     LoopEnds, StartHand, RecordHandStart, AbortUnprovableHand, AbortHand, KickResetsHand,
     HandEnds, ShuffleTimeout, CleanupAfterHand, taskVars
<1>1. CASE UNCHANGED <<hand, start, phase, mirror, task>>
  BY <1>0, <1>1 DEF MaySettle
<1>2. CASE StartHand
  <2>1. phase' = "shuffle" /\ hand' = hand + 1 /\ UNCHANGED <<start, mirror, task>>
    BY <1>2 DEF StartHand, taskVars
  <2>2. QED
    BY <1>0, <2>1 DEF MaySettle
<1>3. CASE RecordHandStart \/ AbortUnprovableHand
  <2>1. /\ phase = "shuffle" /\ UNCHANGED <<hand, task>>
        /\ \/ phase' = "playing" /\ start' = hand /\ mirror' = "live"
           \/ phase' = "waiting" /\ start' \in {0, hand} /\ mirror' = "none"
    BY <1>3 DEF RecordHandStart, AbortUnprovableHand, taskVars
  <2>2. QED
    BY <1>0, <2>1 DEF MaySettle
<1>4. CASE AbortHand \/ KickResetsHand
  <2>1. phase' = "waiting" /\ mirror' = "stale" /\ UNCHANGED <<hand, start, task>>
    BY <1>4 DEF AbortHand, KickResetsHand, taskVars
  <2>2. QED
    BY <1>0, <2>1 DEF MaySettle
<1>5. CASE OnHandComplete /\ phase' = "waiting" /\ UNCHANGED <<hand, start>>
  <2>1. CASE UNCHANGED <<mirror, task>>
    BY <1>0, <1>5, <2>1 DEF MaySettle
  <2>2. CASE /\ start # 0 /\ mirror # "none" /\ mirror' = "none"
             /\ task' = [task EXCEPT ![start] = IF mirror = "live" THEN "build" ELSE "diverged"]
    <3>1. task[start] = "idle" /\ start \in Hands
      BY <1>0, <2>2 DEF HostInv, ControlInv
    <3>2. CASE h = start
      BY <1>0, <1>5, <2>2, <3>1, <3>2 DEF MaySettle
    <3>3. CASE h # start
      <4>1. task'[h] = task[h]
        BY <1>0, <2>2, <3>3
      <4>2. QED
        BY <1>0, <1>5, <2>2, <3>3, <4>1 DEF MaySettle
    <3>4. QED
      BY <3>2, <3>3
  <2>3. QED
    BY <1>5, <2>1, <2>2 DEF OnHandComplete
<1>6. CASE ShuffleTimeout
  <2>1. /\ phase = "shuffle" /\ UNCHANGED <<hand, start>>
        /\ \/ OnHandComplete /\ phase' = "waiting"
           \/ phase' \in {"waiting", "shuffle"} /\ UNCHANGED <<mirror, task>>
    BY <1>6 DEF ShuffleTimeout
  <2>2. CASE OnHandComplete /\ phase' = "waiting"
    BY <1>5, <2>1, <2>2
  <2>3. CASE phase' \in {"waiting", "shuffle"} /\ UNCHANGED <<mirror, task>>
    BY <1>0, <2>1, <2>3 DEF MaySettle
  <2>4. QED
    BY <2>1, <2>2, <2>3
<1>7. CASE HandEnds
  BY <1>5, <1>7 DEF HandEnds
<1>8. QED
  BY <1>1, <1>2, <1>3, <1>4, <1>6, <1>7 DEF Table, SitDown, SitOut, SitIn, LeaveTable,
     StandUp, GiveUpSeat, LoopEnds, CleanupAfterHand, taskVars

\* Nor does a settlement task, and what settles on chain could settle before.
LEMMA SettleTaskMaySettle ==
  ASSUME HostInv, NEW g \in Hands, SettleTask(g), NEW h \in Hands,
         MaySettle(h)' \/ h \in settled' \ settled
  PROVE  MaySettle(h)
<1>0. /\ DOMAIN task = Hands /\ DOMAIN attempt = Hands /\ TypeOK /\ QueueInv
      /\ UNCHANGED <<hand, start, phase, mirror>>
  BY SettleTaskMoves DEF HostInv, TypeOK, gameVars
<1>1. CASE Build(g)
  <2>1. /\ UNCHANGED attempt /\ task[g] \in {"build", "diverged"}
        /\ \A k \in Hands : k # g => task'[k] = task[k]
        /\ settled' \subseteq settled \cup {g} /\ (task[g] = "build" \/ settled' = settled)
        /\ \/ pending' = pending
           \/ pending'.hand = g /\ task[g] = "build"
        /\ task[g] = "build" \/ task'[g] = "done"
    BY <1>0, <1>1 DEF Build, SettlementRefused, AppchainSettles, QueueSnapshot, StartProof,
       Done, chainVars
  <2>2. QED
    BY <1>0, <2>1 DEF MaySettle
<1>2. CASE FirstAttempt(g)
  <2>1. /\ task'[g] = "done" /\ task[g] = "run" /\ \A k \in Hands : k # g => task'[k] = task[k]
        /\ settled' = settled /\ TakeSnapshot
    BY <1>0, <1>2 DEF FirstAttempt, Done, chainVars
  <2>2. QED
    BY <1>0, <2>1, TakeSnapshotMoves DEF MaySettle
<1>3. CASE AttemptAccepted(g) \/ AttemptFails(g)
  <2>1. /\ attempt[g] # 0 /\ attempt'[g] = 0 /\ \A k \in Hands : k # g => attempt'[k] = attempt[k]
        /\ settled' \subseteq settled \cup {g} /\ task' = task
        /\ pending' = pending \/ pending'.hand = g
    BY <1>0, <1>3 DEF AttemptAccepted, AttemptFails, RetryLater
  <2>2. QED
    BY <1>0, <2>1 DEF MaySettle
<1>4. CASE Dual(g)
  <2>1. /\ UNCHANGED <<pending, attempt>> /\ \A k \in Hands : k # g => task'[k] = task[k]
        /\ settled' \subseteq settled \cup {g}
        /\ \/ task[g] \in {"prove", "send", "proved", "bundle"}
           \/ task'[g] = "done" /\ settled' = settled
    BY <1>0, <1>4 DEF Dual, TakeDeparted, DualBuildFails, DualRegisters, ProvedSettleAccepted,
       Accepted, FallBackToBundle, BundleAccepted, BundleExecutes, SubmitFails,
       FlushLeaveReleases, Done, chainVars
  <2>2. QED
    BY <1>0, <2>1 DEF MaySettle
<1>5. QED
  BY <1>1, <1>2, <1>3, <1>4 DEF SettleTask, Legacy

LEMMA MaySettleStep ==
  ASSUME HostInv, [Next]_vars, NEW h \in Hands,
         MaySettle(h)' \/ h \in settled' \ settled
  PROVE  MaySettle(h)
<1>1. CASE Table
  <2>1. settled' = settled
    BY <1>1 DEF Table, SitDown, SitOut, SitIn, LeaveTable, StandUp, GiveUpSeat, LoopEnds,
       StartHand, RecordHandStart, AbortUnprovableHand, AbortHand, KickResetsHand, HandEnds,
       ShuffleTimeout, CleanupAfterHand, chainVars
  <2>2. QED
    BY <1>1, <2>1, TableMaySettle
<1>2. CASE TickRetry \/ JoinTableRetry
  <2>1. TakeSnapshot /\ UNCHANGED <<hand, start, phase, mirror, task, settled>>
    BY <1>2 DEF TickRetry, JoinTableRetry, gameVars, chainVars
  <2>2. QED
    BY <2>1, TakeSnapshotMoves DEF MaySettle, HostInv
<1>3. CASE ScheduleLeaveRelease \/ ReleasePlayerLock \/ UNCHANGED vars
  <2>1. UNCHANGED <<hand, start, phase, mirror, task, pending, attempt, settled>>
    BY <1>3 DEF ScheduleLeaveRelease, ReleasePlayerLock, vars, gameVars, taskVars, chainVars
  <2>2. QED
    BY <2>1 DEF MaySettle
<1>4. QED
  BY <1>1, <1>2, <1>3, SettleTaskMaySettle DEF Next

\* A hand stays closed: a receipt says something else than "refused" again only
\* once nothing can settle the hand any more.
LEMMA ClosedStep ==
  ASSUME HostInv, HostInv', [Next]_vars, NEW h \in Hands, Closed(h)
  PROVE  Closed(h)'
<1>0. DOMAIN receipt = Hands
  BY DEF HostInv, TypeOK
<1>1. CASE ~MaySettle(h)
  BY <1>1, MaySettleStep DEF Closed
<1>2. CASE receipt'[h] = "refused"
  BY <1>2 DEF Closed
<1>3. CASE receipt[h] = "refused" /\ receipt'[h] # "refused"
  <2>1. CASE h \in settleOk'
    <3>1. /\ pending'.hand # h /\ attempt'[h] = 0 /\ task'[h] \in {"run", "done", "flush"}
      BY <2>1 DEF HostInv, QueueInv
    <3>2. QED
      BY <3>1 DEF Closed, MaySettle
  <2>2. CASE \E g \in Hands : SettlementRefused(g)
    <3>1. PICK g \in Hands : SettlementRefused(g)
      BY <2>2
    <3>2. h = g
      BY <1>0, <1>3, <3>1 DEF SettlementRefused, GiveUp
    <3>3. /\ task[h] \in {"build", "diverged"} /\ task'[h] = "done"
          /\ UNCHANGED <<pending, attempt>>
      BY <3>1, <3>2 DEF SettlementRefused, Done, HostInv, TypeOK
    <3>4. pending'.hand # h /\ attempt'[h] = 0
      BY <3>3 DEF HostInv, QueueInv
    <3>5. QED
      BY <3>3, <3>4 DEF Closed, MaySettle
  <2>3. CASE \E g \in Hands : AttemptFails(g)
    <3>1. PICK g \in Hands : AttemptFails(g)
      BY <2>3
    <3>2. h = g /\ UNCHANGED pending
      BY <1>0, <1>3, <3>1 DEF AttemptFails, RetryLater
    <3>3. attempt[h] # 0 /\ attempt'[h] = 0 /\ UNCHANGED task
      BY <3>1, <3>2 DEF AttemptFails, HostInv, TypeOK
    <3>4. pending'.hand # h /\ task'[h] \in {"run", "done"}
      BY <3>2, <3>3 DEF HostInv, QueueInv
    <3>5. QED
      BY <3>3, <3>4 DEF Closed, MaySettle
  <2>4. CASE \E g \in Hands : SettleTask(g) /\ ~SettlementRefused(g) /\ ~AttemptFails(g)
    <3>1. PICK g \in Hands : SettleTask(g) /\ ~SettlementRefused(g) /\ ~AttemptFails(g)
      BY <2>4
    <3>2. UNCHANGED receipt \/ (receipt' = [receipt EXCEPT ![g] = "settled"] /\ g \in settleOk')
      BY <3>1 DEF SettleTask, Build, Legacy, Dual, AppchainSettles, QueueSnapshot, StartProof,
         FirstAttempt, AttemptAccepted, TakeDeparted, DualBuildFails, DualRegisters,
         ProvedSettleAccepted, Accepted, FallBackToBundle, BundleAccepted, SubmitFails,
         FlushLeaveReleases, resultVars
    <3>3. h \in settleOk'
      BY <1>0, <1>3, <3>2
    <3>4. QED
      BY <2>1, <3>3
  <2>5. CASE Table
    <3>1. UNCHANGED receipt \/ receipt' = [receipt EXCEPT ![start] = "refused"]
      BY <2>5 DEF Table, SitDown, SitOut, SitIn, LeaveTable, StandUp, GiveUpSeat, LoopEnds,
         StartHand, RecordHandStart, AbortUnprovableHand, AbortHand, KickResetsHand, HandEnds,
         ShuffleTimeout, CleanupAfterHand, OnHandComplete, GiveUp, resultVars
    <3>2. QED
      BY <1>0, <1>3, <3>1
  <2>6. CASE \/ TickRetry \/ JoinTableRetry \/ ScheduleLeaveRelease \/ ReleasePlayerLock
             \/ UNCHANGED vars
    BY <1>3, <2>6 DEF TickRetry, JoinTableRetry, ScheduleLeaveRelease, ReleasePlayerLock,
       vars, resultVars
  <2>7. QED
    BY <2>2, <2>3, <2>4, <2>5, <2>6 DEF Next
<1>4. QED
  BY <1>1, <1>2, <1>3 DEF Closed

\* Whoever is freed on account of a hand is freed when the hand is closed.
LEMMA FreeingStep ==
  ASSUME HostInv, HostInv', FreedInv, [Next]_vars,
         NEW w \in Wallets, NEW h \in Hands, <<w, h>> \in freeing', <<w, h>> \notin freeing
  PROVE  Closed(h)'
<1>0. /\ hand \in 0..MaxHand /\ start \in 0..MaxHand /\ DOMAIN task = Hands
      /\ DOMAIN receipt = Hands /\ QueueInv /\ ControlInv
  BY DEF HostInv, TypeOK
<1>1. CASE AbortHand \/ AbortUnprovableHand
  <2>1. /\ h = hand /\ task'[h] = "idle" /\ hand' = hand /\ phase' = "waiting" /\ mirror' # "live"
        /\ UNCHANGED <<pending, attempt>>
    BY <1>0, <1>1 DEF AbortHand, AbortUnprovableHand, AbortFlush, Due, ControlInv, taskVars
  <2>2. pending'.hand # h /\ attempt'[h] = 0
    BY <2>1 DEF HostInv, QueueInv
  <2>3. QED
    BY <1>0, <2>1, <2>2 DEF Closed, MaySettle
<1>2. CASE HandEnds
  <2>1. h = start /\ receipt' = [receipt EXCEPT ![start] = "refused"]
    BY <1>2 DEF HandEnds, OnHandComplete, GiveUp, AbortFlush, Due
  <2>2. QED
    BY <1>0, <2>1 DEF Closed
<1>3. CASE ShuffleTimeout
  <2>1. \/ h = start /\ receipt' = [receipt EXCEPT ![start] = "refused"]
        \/ /\ h = hand /\ UNCHANGED <<task, start, mirror>> /\ hand' = hand
           /\ phase' = "waiting"
    BY <1>0, <1>3 DEF ShuffleTimeout, OnHandComplete, GiveUp, AbortFlush, Due
  <2>2. CASE h = start /\ receipt' = [receipt EXCEPT ![start] = "refused"]
    BY <1>0, <2>2 DEF Closed
  <2>3. CASE /\ h = hand /\ UNCHANGED <<task, start, mirror>> /\ hand' = hand
             /\ phase' = "waiting"
    <3>1. task[h] = "idle" /\ start < hand
      BY <1>0, <1>3, <2>3 DEF ShuffleTimeout, ControlInv
    <3>2. pending'.hand # h /\ attempt'[h] = 0
      BY <2>3, <3>1 DEF HostInv, QueueInv
    <3>3. QED
      BY <1>0, <2>3, <3>1, <3>2 DEF Closed, MaySettle
  <2>4. QED
    BY <2>1, <2>2, <2>3
<1>4. CASE \E g \in Hands : SettlementRefused(g) \/ FlushLeaveReleases(g)
  <2>1. PICK g \in Hands : SettlementRefused(g) \/ FlushLeaveReleases(g)
    BY <1>4
  <2>2. h = g /\ UNCHANGED <<pending, attempt>>
    BY <2>1 DEF SettlementRefused, FlushLeaveReleases, GiveUp, AbortFlush
  <2>3. task[h] \in {"build", "diverged", "flush"} /\ task'[h] = "done"
    BY <1>0, <2>1, <2>2 DEF SettlementRefused, FlushLeaveReleases, Done
  <2>4. pending'.hand # h /\ attempt'[h] = 0
    BY <2>2, <2>3, <1>0 DEF QueueInv
  <2>5. QED
    BY <2>3, <2>4 DEF Closed, MaySettle
<1>5. CASE ScheduleLeaveRelease
  <2>1. PICK l \in leaving : /\ l.settled \/ l.hand \in failed
                             /\ freeing' = freeing \cup {<<l.wallet, l.hand>>}
    BY <1>5 DEF ScheduleLeaveRelease
  <2>2. h = l.hand
    BY <2>1
  <2>3. h \in settleOk \/ h \in failed
    BY <2>1, <2>2 DEF FreedInv
  <2>4. Closed(h)
    BY <2>3, AcceptedIsOver DEF FreedInv, Closed
  <2>5. QED
    BY <2>4, ClosedStep
<1>6. CASE ReleasePlayerLock \/ UNCHANGED vars
  BY <1>6 DEF ReleasePlayerLock, vars, releaseVars
<1>7. CASE freeing' = freeing
  BY <1>7
<1>8. QED
  BY <1>1, <1>2, <1>3, <1>4, <1>5, <1>6, <1>7 DEF Next, Table, SitDown, SitOut, SitIn,
     LeaveTable, StandUp, GiveUpSeat, LoopEnds, StartHand, RecordHandStart, KickResetsHand,
     CleanupAfterHand, SettleTask, Build, Legacy, Dual, AppchainSettles, QueueSnapshot,
     StartProof, FirstAttempt, AttemptAccepted, AttemptFails, TakeDeparted, DualBuildFails,
     DualRegisters, ProvedSettleAccepted, FallBackToBundle, BundleAccepted, SubmitFails,
     TickRetry, JoinTableRetry, releaseVars

\* A hand recorded as failed is closed, and nothing reopens it.
LEMMA FailedStep ==
  ASSUME HostInv, HostInv', FreedInv, [Next]_vars, NEW h \in failed'
  PROVE  Closed(h)'
<1>0. /\ DOMAIN task = Hands /\ DOMAIN receipt = Hands /\ start \in 0..MaxHand
      /\ failed \subseteq Hands /\ h \in Hands /\ QueueInv
  BY DEF HostInv, TypeOK
<1>1. CASE h \in failed
  <2>1. Closed(h)
    BY <1>1 DEF FreedInv
  <2>2. QED
    BY <1>0, <2>1, ClosedStep
<1>2. CASE h \notin failed
  <2>1. \/ h = start /\ receipt' = [receipt EXCEPT ![start] = "refused"]
        \/ SettlementRefused(h)
    <3>1. CASE Table
      <4>1. CASE failed' = failed
        BY <1>2, <4>1
      <4>2. CASE OnHandComplete
        BY <1>2, <4>2 DEF OnHandComplete, GiveUp, resultVars
      <4>3. QED
        BY <3>1, <4>1, <4>2 DEF Table, SitDown, SitOut, SitIn, LeaveTable, StandUp, GiveUpSeat,
           LoopEnds, StartHand, RecordHandStart, AbortUnprovableHand, AbortHand, KickResetsHand,
           HandEnds, ShuffleTimeout, CleanupAfterHand, resultVars
    <3>2. ASSUME NEW g \in Hands, SettleTask(g) PROVE SettlementRefused(h)
      <4>1. CASE failed' = failed
        BY <1>2, <4>1
      <4>2. CASE SettlementRefused(g)
        <5>1. failed' = failed \cup {g}
          BY <4>2 DEF SettlementRefused, GiveUp
        <5>2. h = g
          BY <1>2, <5>1
        <5>3. QED
          BY <4>2, <5>2
      <4>3. QED
        BY <3>2, <4>1, <4>2 DEF SettleTask, Build, Legacy, Dual, AppchainSettles,
           QueueSnapshot, StartProof, FirstAttempt, AttemptAccepted, AttemptFails,
           TakeDeparted, DualBuildFails, DualRegisters, ProvedSettleAccepted,
           FallBackToBundle, BundleAccepted, SubmitFails, FlushLeaveReleases, resultVars
    <3>3. CASE \/ TickRetry \/ JoinTableRetry \/ ScheduleLeaveRelease \/ ReleasePlayerLock
               \/ UNCHANGED vars
      BY <1>2, <3>3 DEF TickRetry, JoinTableRetry, ScheduleLeaveRelease, ReleasePlayerLock,
         vars, resultVars
    <3>4. QED
      BY <3>1, <3>2, <3>3 DEF Next
  <2>2. CASE h = start /\ receipt' = [receipt EXCEPT ![start] = "refused"]
    BY <1>0, <2>2 DEF Closed
  <2>3. CASE SettlementRefused(h)
    <3>1. task[h] \in {"build", "diverged"} /\ task'[h] = "done" /\ UNCHANGED <<pending, attempt>>
      BY <1>0, <2>3 DEF SettlementRefused, Done
    <3>2. pending'.hand # h /\ attempt'[h] = 0
      BY <1>0, <3>1 DEF QueueInv
    <3>3. QED
      BY <3>1, <3>2 DEF Closed, MaySettle
  <2>4. QED
    BY <2>1, <2>2, <2>3
<1>3. QED
  BY <1>1, <1>2

\* A release that takes effect was being made; a task that leaves the table
\* knows what SETTLE_OK said.
LEMMA FreedStep ==
  ASSUME HostInv, HostInv', FreedInv, [Next]_vars
  PROVE  FreedInv'
<1>1. ASSUME NEW w \in Wallets, NEW h \in Hands, <<w, h>> \in freeing' \cup freed'
      PROVE  Closed(h)'
  <2>1. CASE <<w, h>> \in freeing \cup freed
    BY <2>1, ClosedStep DEF FreedInv
  <2>2. CASE <<w, h>> \in freeing' /\ <<w, h>> \notin freeing
    BY <2>2, FreeingStep
  <2>3. CASE <<w, h>> \in freed' /\ <<w, h>> \notin freed
    <3>1. ReleasePlayerLock
      BY <2>3 DEF Next, Table, SitDown, SitOut, SitIn, LeaveTable, StandUp, GiveUpSeat,
         LoopEnds, StartHand, RecordHandStart, AbortUnprovableHand, AbortHand, KickResetsHand,
         HandEnds, ShuffleTimeout, CleanupAfterHand, SettleTask, Build, Legacy, Dual,
         SettlementRefused, AppchainSettles, QueueSnapshot, StartProof, FirstAttempt,
         AttemptAccepted, AttemptFails, TakeDeparted, DualBuildFails, DualRegisters,
         ProvedSettleAccepted, FallBackToBundle, BundleAccepted, SubmitFails,
         FlushLeaveReleases, TickRetry, JoinTableRetry, ScheduleLeaveRelease, vars, chainVars
    <3>2. PICK f \in freeing : <<w, h>> \in FreedEarly({f[1]}, f[2])
      BY <2>3, <3>1 DEF ReleasePlayerLock
    <3>3. f = <<w, h>>
      <4>1. f \in Wallets \X (0..MaxHand)
        BY DEF HostInv, TypeOK
      <4>2. f[1] = w /\ f[2] = h
        BY <3>2 DEF FreedEarly
      <4>3. QED
        BY <4>1, <4>2
    <3>4. QED
      BY <2>1, <3>3
  <2>4. QED
    BY <1>1, <2>1, <2>2, <2>3
<1>2. ASSUME NEW l \in leaving', l.settled PROVE l.hand \in settleOk'
  <2>1. settleOk \subseteq settleOk'
    BY DEF Next, Table, SitDown, SitOut, SitIn, LeaveTable, StandUp, GiveUpSeat,
       LoopEnds, StartHand, RecordHandStart, AbortUnprovableHand, AbortHand, KickResetsHand,
       HandEnds, ShuffleTimeout, CleanupAfterHand, OnHandComplete, SettleTask, Build, Legacy,
       Dual, SettlementRefused, AppchainSettles, QueueSnapshot, StartProof, FirstAttempt,
       AttemptAccepted, AttemptFails, TakeDeparted, DualBuildFails, DualRegisters,
       ProvedSettleAccepted, Accepted, FallBackToBundle, BundleAccepted, SubmitFails,
       FlushLeaveReleases, TickRetry, JoinTableRetry, ScheduleLeaveRelease,
       ReleasePlayerLock, vars, resultVars
  <2>2. CASE l \in leaving
    BY <1>2, <2>1, <2>2 DEF FreedInv
  <2>3. CASE l \notin leaving
    <3>1. \E w \in seated \cup out :
             l = [wallet |-> w, hand |-> hand, settled |-> hand \in settleOk]
      <4>1. LeaveTable \/ CleanupAfterHand
        BY <2>3 DEF Next, Table, SitDown, SitOut, SitIn, StandUp, GiveUpSeat,
           LoopEnds, StartHand, RecordHandStart, AbortUnprovableHand, AbortHand, KickResetsHand,
           HandEnds, ShuffleTimeout, SettleTask, Build, Legacy,
           Dual, SettlementRefused, AppchainSettles, QueueSnapshot, StartProof, FirstAttempt,
           AttemptAccepted, AttemptFails, TakeDeparted, DualBuildFails, DualRegisters,
           ProvedSettleAccepted, FallBackToBundle, BundleAccepted, SubmitFails,
           FlushLeaveReleases, TickRetry, JoinTableRetry, ScheduleLeaveRelease,
           ReleasePlayerLock, vars, releaseVars
      <4>2. CASE LeaveTable
        BY <2>3, <4>2 DEF LeaveTable
      <4>3. CASE CleanupAfterHand
        BY <2>3, <4>3 DEF CleanupAfterHand
      <4>4. QED
        BY <4>1, <4>2, <4>3
    <3>2. l.hand = hand /\ (l.settled <=> hand \in settleOk)
      <4>1. PICK w : l = [wallet |-> w, hand |-> hand, settled |-> hand \in settleOk]
        BY <3>1
      <4>2. l.settled = (hand \in settleOk)
        BY <4>1, Zenon
      <4>3. QED
        BY <4>1, <4>2
    <3>3. QED
      BY <1>2, <2>1, <3>2
  <2>4. QED
    BY <2>2, <2>3
<1>3. QED
  BY <1>1, <1>2, FailedStep DEF FreedInv

\* A hand on whose account a leaver was freed does not settle on chain afterwards
\* (lock.rs against hooks.rs), unless it was refused while it was in flight: for
\* any number of players and hands, and in every deployment.
THEOREM FreedLeavers == Spec => FreedLeaversOweNothing
<1>1. Init => FreedInv
  BY DEF Init, FreedInv
<1>2. HostInv /\ HostInv' /\ FreedInv /\ [Next]_vars => FreedInv'
  BY FreedStep
<1>3. HostInv /\ FreedInv /\ [Next]_vars
        => [\A h \in settled' \ settled :
              receipt[h] = "refused" \/ \A w \in Wallets : <<w, h>> \notin freed]_vars
  <2> SUFFICES ASSUME HostInv, FreedInv, [Next]_vars, NEW h \in settled' \ settled
               PROVE  receipt[h] = "refused" \/ \A w \in Wallets : <<w, h>> \notin freed
    OBVIOUS
  <2>1. h \in Hands
    BY TypeStep DEF HostInv, TypeOK
  <2>2. MaySettle(h)
    BY <2>1, MaySettleStep
  <2>3. QED
    BY <2>1, <2>2 DEF FreedInv, Closed
<1>4. QED
  BY <1>1, <1>2, <1>3, HostInvariant, PTL DEF Spec, FreedLeaversOweNothing
=============================================================================
