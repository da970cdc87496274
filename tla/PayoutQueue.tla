---------------------------- MODULE PayoutQueue ----------------------------
(***************************************************************************)
(* The payout sidecar: the game server posts payouts, the queue delivers   *)
(* each one after a random delay as a private transfer and retries a       *)
(* bounded number of times.  One thread: an await and a timer are the only *)
(* places where other work comes in.  Everything is memory of the process. *)
(* deliver stands for an SDK that is not in the repository: a transfer it  *)
(* reports as failed may have taken effect.                                *)
(***************************************************************************)
EXTENDS Naturals

CONSTANTS
    Payouts,       \* the pairs (handBinding, seatIndex)
    MaxRetries,    \* maxRetries (3)
    MaxPosts,      \* bound: POST /payout per payout, repeats included
    MaxRestarts    \* bound: restarts of the sidecar

ASSUME QueueAssumption ==
    /\ MaxRetries \in Nat \ {0}
    /\ {MaxPosts, MaxRestarts} \subseteq Nat

VARIABLES
    pending,       \* the map: entry of each payout, or Absent
    timers,        \* per payout, timers that will call run
    calls,         \* per payout, calls of deliver under way
    posts,         \* per payout, requests so far
    accepted,      \* history: requests that were queued
    transferred,   \* history: private transfers that took effect
    restarts       \* restarts so far

vars == <<pending, timers, calls, posts, accepted, transferred, restarts>>

Absent == [status |-> "absent", attempts |-> 0]

TypeOK ==
    /\ pending \in [Payouts -> [status : {"absent", "scheduled", "delivering", "failed"},
                                attempts : 0..MaxRetries]]
    /\ timers \in [Payouts -> Nat] /\ calls \in [Payouts -> Nat]
    /\ posts \in [Payouts -> 0..MaxPosts]
    /\ accepted \in [Payouts -> Nat] /\ transferred \in [Payouts -> Nat]
    /\ restarts \in 0..MaxRestarts

Zero == [p \in Payouts |-> 0]

Init ==
    /\ pending = [p \in Payouts |-> Absent]
    /\ timers = Zero /\ calls = Zero
    /\ posts = Zero /\ accepted = Zero /\ transferred = Zero
    /\ restarts = 0

-----------------------------------------------------------------------------
\* Mutant: every request is queued.
QueuedNever(p) == FALSE

\* pending.has: the one test that keeps a payout from being queued again.
Queued(p) == pending[p] # Absent

\* POST /payout, the first time or once more: 202 with a timer set, or 409.
Enqueue(p) ==
    /\ posts[p] < MaxPosts
    /\ posts' = [posts EXCEPT ![p] = @ + 1]
    /\ IF Queued(p)
       THEN UNCHANGED <<pending, timers, accepted>>
       ELSE /\ pending' = [pending EXCEPT ![p] = [status |-> "scheduled", attempts |-> 0]]
            /\ timers' = [timers EXCEPT ![p] = @ + 1]
            /\ accepted' = [accepted EXCEPT ![p] = @ + 1]
    /\ UNCHANGED <<calls, transferred, restarts>>

\* Mutant: an attempt is not counted.
RunStartsUncounted(p) ==
    /\ timers[p] > 0
    /\ timers' = [timers EXCEPT ![p] = @ - 1]
    /\ calls' = [calls EXCEPT ![p] = @ + 1]
    /\ pending' = [pending EXCEPT ![p].status = "delivering"]
    /\ UNCHANGED <<posts, accepted, transferred, restarts>>

\* run, up to the await of deliver.
RunStarts(p) ==
    /\ timers[p] > 0
    /\ timers' = [timers EXCEPT ![p] = @ - 1]
    /\ calls' = [calls EXCEPT ![p] = @ + 1]
    /\ pending' = [pending EXCEPT ![p].status = "delivering", ![p].attempts = @ + 1]
    /\ UNCHANGED <<posts, accepted, transferred, restarts>>

\* deliver returns: the entry leaves the map.
RunDelivered(p) ==
    /\ calls[p] > 0
    /\ calls' = [calls EXCEPT ![p] = @ - 1]
    /\ transferred' = [transferred EXCEPT ![p] = @ + 1]
    /\ pending' = [pending EXCEPT ![p] = Absent]
    /\ UNCHANGED <<timers, posts, accepted, restarts>>

\* Mutant: one attempt too many.
RetriesLeftOneMore(p) == pending[p].attempts <= MaxRetries

RetriesLeft(p) == pending[p].attempts < MaxRetries

\* deliver throws, whether or not the transfer was made: the next attempt is
\* scheduled, or the entry stays in the map as failed.
RunThrows(p) ==
    /\ calls[p] > 0
    /\ calls' = [calls EXCEPT ![p] = @ - 1]
    /\ \E made \in {0, 1} : transferred' = [transferred EXCEPT ![p] = @ + made]
    /\ IF RetriesLeft(p)
       THEN /\ pending' = [pending EXCEPT ![p].status = "scheduled"]
            /\ timers' = [timers EXCEPT ![p] = @ + 1]
       ELSE /\ pending' = [pending EXCEPT ![p].status = "failed"]
            /\ UNCHANGED timers
    /\ UNCHANGED <<posts, accepted, restarts>>

\* The sidecar restarts: map, timers and calls are gone, a transfer that a call
\* had begun is made or not.
Restart ==
    /\ restarts < MaxRestarts
    /\ restarts' = restarts + 1
    /\ pending' = [p \in Payouts |-> Absent]
    /\ timers' = Zero /\ calls' = Zero
    /\ \E made \in [Payouts -> {0, 1}] :
         /\ \A p \in Payouts : made[p] <= calls[p]
         /\ transferred' = [p \in Payouts |-> transferred[p] + made[p]]
    /\ UNCHANGED <<posts, accepted>>

Run(p) == RunStarts(p) \/ RunDelivered(p) \/ RunThrows(p)

Next ==
    \/ \E p \in Payouts : Enqueue(p) \/ Run(p)
    \/ Restart

Spec == Init /\ [][Next]_vars

\* A timer that is due fires, and deliver returns or throws.
FairSpec == Spec /\ \A p \in Payouts : WF_vars(Run(p))

-----------------------------------------------------------------------------
(* Properties.                                                             *)

\* Repeated requests, retries and restarts never set two attempts at the same
\* payout going at once, and an attempt is due exactly while the map says so.
OneAttemptPending ==
    \A p \in Payouts :
      timers[p] + calls[p] =
        IF pending[p].status \in {"scheduled", "delivering"} THEN 1 ELSE 0

\* A request that was queued makes at most maxRetries transfers, also when every
\* one of them was made and reported as failed.
TransfersBounded ==
    \A p \in Payouts : transferred[p] <= MaxRetries * accepted[p]

\* Every entry is delivered or failed in the end; none is retried for ever.
EntriesResolve ==
    \A p \in Payouts :
      (pending[p].status \in {"scheduled", "delivering"})
        ~> (pending[p].status \in {"absent", "failed"})

\* queue.mjs:34, "a repeated (hand_binding, seat) is ignored (idempotent)": a
\* payout is queued once.  Refuted: the entry leaves the map when it is delivered
\* and a request repeated after that is queued again.
QueuedOnce == \A p \in Payouts : restarts = 0 => accepted[p] <= 1
=============================================================================
