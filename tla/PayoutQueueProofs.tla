------------------------- MODULE PayoutQueueProofs --------------------------
(***************************************************************************)
(* Proofs about the payout queue, for any set of payouts and every bound.  *)
(***************************************************************************)
EXTENDS PayoutQueue, TLAPS

USE QueueAssumption

\* What the status of an entry says about the attempts at it: one timer and
\* retries left while it is scheduled, one call while it is delivered, and
\* neither otherwise; a payout that is not in the map has the empty entry.
AttemptInv(p) ==
    /\ pending[p].status = "scheduled" =>
         timers[p] = 1 /\ calls[p] = 0 /\ pending[p].attempts < MaxRetries
    /\ pending[p].status = "delivering" =>
         timers[p] = 0 /\ calls[p] = 1 /\ pending[p].attempts > 0
    /\ pending[p].status \in {"absent", "failed"} => timers[p] = 0 /\ calls[p] = 0
    /\ pending[p].status = "absent" => pending[p] = Absent

\* The transfers the entry of a payout may still cause.
Allowance(p) ==
    CASE pending[p].status = "scheduled"  -> MaxRetries - pending[p].attempts
      [] pending[p].status = "delivering" -> MaxRetries - pending[p].attempts + 1
      [] OTHER -> 0

\* The transfers made, and those still to come, are paid for by the requests.
TransferInv(p) == transferred[p] + Allowance(p) <= MaxRetries * accepted[p]

IInv == TypeOK /\ \A p \in Payouts : AttemptInv(p) /\ TransferInv(p)

-----------------------------------------------------------------------------
\* The queue starts empty, with nothing owed.
LEMMA InitIInv == Init => IInv
<1> SUFFICES ASSUME Init PROVE IInv
  OBVIOUS
<1>1. TypeOK
  BY DEF Init, TypeOK, Zero, Absent
<1>2. ASSUME NEW p \in Payouts PROVE AttemptInv(p) /\ TransferInv(p)
  BY DEF Init, Zero, Absent, AttemptInv, TransferInv, Allowance
<1>3. QED
  BY <1>1, <1>2 DEF IInv

\* A request is queued with a fresh allowance, which it also pays for: the
\* payout had no attempt going.
LEMMA EnqueueIInv ==
  ASSUME IInv, NEW q \in Payouts, Enqueue(q)
  PROVE  IInv'
<1>1. TypeOK'
  BY DEF IInv, TypeOK, Enqueue
<1>2. ASSUME NEW p \in Payouts PROVE AttemptInv(p)' /\ TransferInv(p)'
  <2>1. CASE p # q \/ Queued(q)
    <3>1. /\ pending'[p] = pending[p] /\ timers'[p] = timers[p] /\ calls'[p] = calls[p]
          /\ accepted'[p] = accepted[p] /\ transferred'[p] = transferred[p]
      BY <2>1 DEF Enqueue, IInv, TypeOK
    <3>2. QED
      BY <3>1 DEF IInv, AttemptInv, TransferInv, Allowance
  <2>2. CASE p = q /\ ~Queued(q)
    <3>1. /\ pending'[p] = [status |-> "scheduled", attempts |-> 0]
          /\ timers'[p] = timers[p] + 1 /\ calls'[p] = calls[p]
          /\ accepted'[p] = accepted[p] + 1 /\ transferred'[p] = transferred[p]
      BY <2>2 DEF Enqueue, IInv, TypeOK
    <3>2. /\ transferred[p] \in Nat /\ MaxRetries * accepted[p] \in Nat
          /\ pending[p].status = "absent" /\ AttemptInv(p) /\ TransferInv(p)
      BY <2>2 DEF Queued, Absent, IInv, TypeOK
    <3>3. MaxRetries * (accepted[p] + 1) = MaxRetries * accepted[p] + MaxRetries
      BY DEF IInv, TypeOK
    <3>4. timers[p] = 0 /\ calls[p] = 0 /\ transferred[p] <= MaxRetries * accepted[p]
      BY <3>2 DEF AttemptInv, TransferInv, Allowance
    <3>5. AttemptInv(p)'
      BY <3>1, <3>4 DEF AttemptInv
    <3>6. Allowance(p)' = MaxRetries
      BY <3>1 DEF Allowance
    <3>7. TransferInv(p)'
      BY <3>1, <3>2, <3>3, <3>4, <3>6 DEF TransferInv
    <3>8. QED
      BY <3>5, <3>7
  <2>3. QED
    BY <2>1, <2>2
<1>3. QED
  BY <1>1, <1>2 DEF IInv

\* What a step of run does to the payouts it does not run: nothing.
LEMMA OthersUnmoved ==
  ASSUME IInv, NEW q \in Payouts, Run(q), NEW p \in Payouts, p # q
  PROVE  AttemptInv(p)' /\ TransferInv(p)'
<1>1. /\ pending'[p] = pending[p] /\ timers'[p] = timers[p] /\ calls'[p] = calls[p]
      /\ accepted'[p] = accepted[p] /\ transferred'[p] = transferred[p]
  BY DEF Run, RunStarts, RunDelivered, RunThrows, IInv, TypeOK
<1>2. QED
  BY <1>1 DEF IInv, AttemptInv, TransferInv, Allowance

\* run: a timer becomes a call, a call ends with or without a transfer.
LEMMA RunIInv ==
  ASSUME IInv, NEW q \in Payouts, Run(q)
  PROVE  IInv'
<1> USE DEF IInv
<1>0. /\ AttemptInv(q) /\ TransferInv(q)
      /\ transferred[q] \in Nat /\ accepted[q] \in Nat /\ MaxRetries * accepted[q] \in Nat
      /\ timers[q] \in Nat /\ calls[q] \in Nat
      /\ pending[q] \in [status : {"absent", "scheduled", "delivering", "failed"},
                         attempts : 0..MaxRetries]
  BY DEF TypeOK
<1>1. CASE RunStarts(q)
  <2>1. pending[q].status = "scheduled"
    BY <1>0, <1>1 DEF RunStarts, AttemptInv
  <2>2. /\ pending'[q] = [status |-> "delivering", attempts |-> pending[q].attempts + 1]
        /\ timers'[q] = 0 /\ calls'[q] = 1
        /\ accepted'[q] = accepted[q] /\ transferred'[q] = transferred[q]
    BY <1>0, <1>1, <2>1 DEF RunStarts, AttemptInv, TypeOK
  <2>3. TypeOK'
    BY <1>0, <1>1, <2>1 DEF RunStarts, AttemptInv, TypeOK
  <2>4. AttemptInv(q)' /\ TransferInv(q)'
    BY <1>0, <2>1, <2>2 DEF AttemptInv, TransferInv, Allowance
  <2>5. QED
    BY <2>3, <2>4, OthersUnmoved
<1>2. CASE RunDelivered(q)
  <2>1. pending[q].status = "delivering"
    BY <1>0, <1>2 DEF RunDelivered, AttemptInv
  <2>2. /\ pending'[q] = Absent
        /\ timers'[q] = 0 /\ calls'[q] = 0
        /\ accepted'[q] = accepted[q] /\ transferred'[q] = transferred[q] + 1
    BY <1>0, <1>2, <2>1 DEF RunDelivered, AttemptInv, TypeOK
  <2>3. TypeOK'
    BY <1>2 DEF RunDelivered, TypeOK, Absent
  <2>4. AttemptInv(q)' /\ TransferInv(q)'
    BY <1>0, <2>1, <2>2 DEF AttemptInv, TransferInv, Allowance, Absent
  <2>5. QED
    BY <2>3, <2>4, OthersUnmoved
<1>3. CASE RunThrows(q)
  <2>1. pending[q].status = "delivering"
    BY <1>0, <1>3 DEF RunThrows, AttemptInv
  <2>2. PICK made \in {0, 1} : transferred' = [transferred EXCEPT ![q] = @ + made]
    BY <1>3 DEF RunThrows
  <2>3. TypeOK'
    <3>1. pending' \in [Payouts -> [status : {"absent", "scheduled", "delivering", "failed"},
                                   attempts : 0..MaxRetries]]
      <4>1. CASE RetriesLeft(q)
        BY <1>3, <4>1 DEF RunThrows, TypeOK
      <4>2. CASE ~RetriesLeft(q)
        BY <1>3, <4>2 DEF RunThrows, TypeOK
      <4>3. QED
        BY <4>1, <4>2
    <3>2. timers' \in [Payouts -> Nat]
      BY <1>3 DEF RunThrows, TypeOK
    <3>3. calls' \in [Payouts -> Nat]
      BY <1>3 DEF RunThrows, TypeOK
    <3>4. transferred' \in [Payouts -> Nat]
      BY <2>2 DEF TypeOK
    <3>5. QED
      BY <1>3, <3>1, <3>2, <3>3, <3>4 DEF RunThrows, TypeOK
  <2>4. /\ accepted'[q] = accepted[q] /\ transferred'[q] = transferred[q] + made
        /\ calls'[q] = 0
    BY <1>0, <1>3, <2>1, <2>2 DEF RunThrows, AttemptInv, TypeOK
  <2>5. CASE RetriesLeft(q)
    <3>1. /\ pending'[q] = [status |-> "scheduled", attempts |-> pending[q].attempts]
          /\ timers'[q] = 1
      BY <1>0, <1>3, <2>1, <2>5 DEF RunThrows, AttemptInv, TypeOK
    <3>2. AttemptInv(q)' /\ TransferInv(q)'
      BY <1>0, <2>1, <2>4, <2>5, <3>1
      DEF AttemptInv, TransferInv, Allowance, RetriesLeft
    <3>3. QED
      BY <2>3, <3>2, OthersUnmoved
  <2>6. CASE ~RetriesLeft(q)
    <3>1. /\ pending'[q] = [status |-> "failed", attempts |-> pending[q].attempts]
          /\ timers'[q] = 0
      BY <1>0, <1>3, <2>1, <2>6 DEF RunThrows, AttemptInv, TypeOK
    <3>2. AttemptInv(q)' /\ TransferInv(q)'
      BY <1>0, <2>1, <2>4, <3>1 DEF AttemptInv, TransferInv, Allowance
    <3>3. QED
      BY <2>3, <3>2, OthersUnmoved
  <2>7. QED
    BY <2>5, <2>6
<1>4. QED
  BY <1>1, <1>2, <1>3 DEF Run

\* A restart forgets every attempt; the transfer a call had begun was allowed.
LEMMA RestartIInv ==
  ASSUME IInv, Restart
  PROVE  IInv'
<1>1. PICK made \in [Payouts -> {0, 1}] :
        /\ \A p \in Payouts : made[p] <= calls[p]
        /\ transferred' = [p \in Payouts |-> transferred[p] + made[p]]
  BY DEF Restart
<1>2. TypeOK'
  BY <1>1 DEF IInv, TypeOK, Restart, Zero, Absent
<1>3. ASSUME NEW p \in Payouts PROVE AttemptInv(p)' /\ TransferInv(p)'
  <2>1. /\ pending'[p] = Absent /\ timers'[p] = 0 /\ calls'[p] = 0
        /\ accepted'[p] = accepted[p] /\ transferred'[p] = transferred[p] + made[p]
    BY <1>1 DEF Restart, Zero, IInv, TypeOK
  <2>2. /\ transferred[p] \in Nat /\ MaxRetries * accepted[p] \in Nat
        /\ pending[p].attempts \in 0..MaxRetries
        /\ pending[p].status \in {"absent", "scheduled", "delivering", "failed"}
        /\ AttemptInv(p) /\ TransferInv(p) /\ made[p] \in {0, 1} /\ made[p] <= calls[p]
    BY <1>1 DEF IInv, TypeOK
  <2>3. made[p] <= Allowance(p)
    BY <2>2 DEF AttemptInv, Allowance
  <2>4. AttemptInv(p)'
    BY <2>1 DEF AttemptInv, Absent
  <2>5. Allowance(p) \in Nat
    BY <2>2 DEF AttemptInv, Allowance
  <2>6. transferred[p] + made[p] <= MaxRetries * accepted[p]
    BY <2>2, <2>3, <2>5 DEF TransferInv
  <2>7. Allowance(p)' = 0
    BY <2>1 DEF Allowance, Absent
  <2>8. TransferInv(p)'
    BY <2>1, <2>2, <2>6, <2>7 DEF TransferInv
  <2>9. QED
    BY <2>4, <2>8
<1>4. QED
  BY <1>2, <1>3 DEF IInv

\* Nothing moves: the invariant stays.
LEMMA StutterIInv ==
  ASSUME IInv, UNCHANGED vars
  PROVE  IInv'
BY DEF IInv, vars, TypeOK, AttemptInv, TransferInv, Allowance

\* The inductive invariant of the queue.
LEMMA Inductive == Spec => []IInv
<1>1. Init => IInv
  BY InitIInv
<1>2. IInv /\ [Next]_vars => IInv'
  <2> SUFFICES ASSUME IInv, [Next]_vars PROVE IInv'
    OBVIOUS
  <2>1. CASE \E p \in Payouts : Enqueue(p)
    BY <2>1, EnqueueIInv
  <2>2. CASE \E p \in Payouts : Run(p)
    BY <2>2, RunIInv
  <2>3. CASE Restart
    BY <2>3, RestartIInv
  <2>4. CASE UNCHANGED vars
    BY <2>4, StutterIInv
  <2>5. QED
    BY <2>1, <2>2, <2>3, <2>4 DEF Next
<1>3. QED
  BY <1>1, <1>2, PTL DEF Spec

-----------------------------------------------------------------------------
\* enqueue and run keep the entries of the map well formed; in particular no
\* entry counts more attempts than maxRetries.
THEOREM QueueTypeCorrect == Spec => []TypeOK
<1>1. IInv => TypeOK
  BY DEF IInv
<1>2. QED
  BY <1>1, Inductive, PTL

\* However requests are repeated, retried or cut off by a restart, a payout has
\* one timer or one call of deliver going exactly while its entry is live.
THEOREM OneAttempt == Spec => []OneAttemptPending
<1>1. IInv => OneAttemptPending
  <2> SUFFICES ASSUME IInv, NEW p \in Payouts
               PROVE  timers[p] + calls[p] =
                        IF pending[p].status \in {"scheduled", "delivering"} THEN 1 ELSE 0
    BY DEF OneAttemptPending
  <2>1. /\ AttemptInv(p)
        /\ pending[p].status \in {"absent", "scheduled", "delivering", "failed"}
    BY DEF IInv, TypeOK
  <2>2. QED
    BY <2>1 DEF AttemptInv
<1>2. QED
  BY <1>1, Inductive, PTL

\* Every queued request makes at most maxRetries private transfers, although a
\* transfer that was reported as failed may have been made.
THEOREM BoundedTransfers == Spec => []TransfersBounded
<1>1. IInv => TransfersBounded
  <2> SUFFICES ASSUME IInv, NEW p \in Payouts
               PROVE  transferred[p] <= MaxRetries * accepted[p]
    BY DEF TransfersBounded
  <2>1. /\ transferred[p] \in Nat /\ MaxRetries * accepted[p] \in Nat
        /\ pending[p].attempts \in 0..MaxRetries
        /\ TransferInv(p)
    BY DEF IInv, TypeOK
  <2>2. Allowance(p) \in Nat
    BY <2>1 DEF Allowance
  <2>3. QED
    BY <2>1, <2>2 DEF TransferInv
<1>2. QED
  BY <1>1, Inductive, PTL
=============================================================================
