--------------------------- MODULE AppchainBridge ---------------------------
(***************************************************************************)
(* The bridge between the vault's chain and the embedded appchain: deposit *)
(* events become notes, burned notes become payments, and a periodic       *)
(* reconciliation compares the two books.                                  *)
(*                                                                         *)
(* The sequencer's state (minted deposit ids, notes) is in a write-ahead   *)
(* log and survives a restart.  The custody book, the bridge's counters and*)
(* the whole mock provider are memory of the process.  The sequencer and   *)
(* the custody book belong to another repository and are modelled from how *)
(* the bridge calls them: any call may be refused.                         *)
(*                                                                         *)
(* Amounts are one unit; a deposit, the note minted for it and the request *)
(* to withdraw that note carry the same name.                              *)
(***************************************************************************)
EXTENDS Naturals, Integers, Sequences, FiniteSets, FiniteSetsExt, SequencesExt

CONSTANTS
    Providers,       \* subset of {"mock", "starknet"}: what a process may be given
    Ids,             \* deposits
    Empty,           \* the deposits whose amount is zero
    MaxPayAttempts,  \* MAX_PAY_ATTEMPTS (5)
    MaxEvents,       \* bound: events the mock provider reports
    MaxRestarts      \* bound: restarts of the process

ASSUME BridgeAssumption ==
    /\ Providers \subseteq {"mock", "starknet"}
    /\ IsFiniteSet(Ids) /\ Empty \subseteq Ids
    /\ {MaxPayAttempts, MaxEvents, MaxRestarts} \subseteq Nat

VARIABLES
    \* the vault's chain
    vault,      \* deposits made into the vault contract
    paid,       \* per request, how often a transfer for it took effect
    \* the sequencer, in the write-ahead log
    minted,     \* deposit_ids
    live,       \* REAL notes not burned
    issued,     \* number of REAL notes ever minted
    \* the process
    provider,   \* the VaultProvider init chose
    events,     \* the mock provider's event list
    reserve,    \* the paying account's balance, relative to the start
    pc,         \* the bridge loop: "idle", "deposits", "confirm", "pay", "mark"
    todo,       \* positions of the page, or requests, the loop has still to do
    cursor,     \* deposit_cursor
    attempts,   \* pay_attempts
    paidTotal,  \* paid_total
    queued,     \* custody: queued requests
    marked,     \* custody: requests marked as paid
    burning,    \* withdrawals whose note is burned and which are not enqueued yet
    audit,      \* the reconciliation under way
    \* history
    restarts,   \* restarts so far
    acked       \* requests ever marked as paid

logVars      == <<minted, live, issued>>
loopVars     == <<pc, todo, cursor, attempts, paidTotal>>
custodyVars  == <<queued, marked, burning>>
providerVars == <<provider, events, reserve, vault, paid>>
histVars     == <<restarts, acked>>
vars == <<logVars, loopVars, custodyVars, providerVars, audit, histVars>>

NoAudit == [at |-> "none", reserve |-> 0, issued |-> 0, seen |-> <<0, 0>>]
Positions == 1..MaxEvents

\* The fields hold what they are meant to hold, and a request is in one place.
TypeOK ==
    /\ provider \in Providers
    /\ events \in Seq(Ids) /\ Len(events) <= MaxEvents
    /\ vault \subseteq Ids
    /\ paid \in [Ids -> Nat]
    /\ minted \subseteq Ids \ Empty
    /\ live \subseteq minted
    /\ issued \in Nat /\ reserve \in Int
    /\ pc \in {"idle", "deposits", "confirm", "pay", "mark"}
    /\ todo \in Seq(Positions \cup Ids)
    /\ pc \in {"confirm", "mark"} => todo # <<>>
    /\ cursor \in 1..MaxEvents + 1
    /\ attempts \in [Ids -> 0..MaxPayAttempts + 1]
    /\ burning \subseteq minted \ live
    /\ queued \subseteq minted \ (live \cup burning \cup marked)
    /\ marked \subseteq acked
    /\ paidTotal = Cardinality(marked)
    /\ restarts \in 0..MaxRestarts
    /\ acked \subseteq minted \ live

Init ==
    /\ provider \in Providers
    /\ vault = {} /\ paid = [i \in Ids |-> 0]
    /\ minted = {} /\ live = {} /\ issued = 0
    /\ events = <<>> /\ reserve = 0
    /\ pc = "idle" /\ todo = <<>> /\ cursor = 1
    /\ attempts = [i \in Ids |-> 0] /\ paidTotal = 0
    /\ queued = {} /\ marked = {} /\ burning = {}
    /\ audit = NoAudit
    /\ restarts = 0 /\ acked = {}

-----------------------------------------------------------------------------
(* The chain and the clients.                                              *)

\* push_deposit: the money is in the reserve with the event; push_duplicate:
\* the event of a deposit is reported once more and no money moves.
PushDeposit(i) ==
    /\ provider = "mock"
    /\ Len(events) < MaxEvents
    /\ events' = Append(events, i)
    /\ reserve' = IF i \in Range(events) \cup Empty \cup minted
                  THEN reserve ELSE reserve + 1
    /\ UNCHANGED <<logVars, loopVars, custodyVars, provider, vault, paid,
                   audit, histVars>>

\* A player deposits into the vault contract; the operator's account, whose
\* balance is the reserve, receives nothing.
VaultDeposit(i) ==
    /\ provider = "starknet"
    /\ i \notin vault
    /\ vault' = vault \cup {i}
    /\ UNCHANGED <<logVars, loopVars, custodyVars, provider, events, reserve,
                   paid, audit, histVars>>

\* request_withdrawal burns the note in the log ...
BurnNote(i) ==
    /\ i \in live
    /\ live' = live \ {i}
    /\ burning' = burning \cup {i}
    /\ UNCHANGED <<minted, issued, loopVars, queued, marked,
                   providerVars, audit, histVars>>

\* ... and then enqueues the request, which the finality gate may refuse.
EnqueueWithdrawal(i) ==
    /\ i \in burning
    /\ burning' = burning \ {i}
    /\ queued' \in {queued, queued \cup {i}}
    /\ UNCHANGED <<logVars, loopVars, marked, providerVars,
                   audit, histVars>>

-----------------------------------------------------------------------------
(* process_deposits_once.                                                  *)

\* poll_deposits.  The mock answers from the cursor on.  The Starknet provider
\* asks for the events, but looks up the members of the data array by string
\* key, which a JSON array answers with None: every event is passed over.
Poll ==
    IF provider = "mock" THEN [k \in 1..Len(events) + 1 - cursor |-> cursor - 1 + k]
                         ELSE <<>>

PollDeposits ==
    /\ pc = "idle"
    /\ pc' = "deposits"
    /\ todo' = Poll
    /\ UNCHANGED <<logVars, cursor, attempts, paidTotal, custodyVars,
                   providerVars, audit, histVars>>

\* Mutant: the deposit ids of the log are not looked up.
AlreadyMintedNever(i) == i \notin Ids

\* The sequencer knows the deposit id.
AlreadyMinted(i) == i \in minted

\* An event without amount is passed over; one already minted moves the cursor.
SkipEvent ==
    /\ pc = "deposits" /\ todo # <<>>
    /\ LET i == events[Head(todo)] IN
         \/ i \in Empty /\ UNCHANGED cursor
         \/ i \notin Empty /\ AlreadyMinted(i) /\ cursor' = Head(todo) + 1
    /\ todo' = Tail(todo)
    /\ UNCHANGED <<logVars, pc, attempts, paidTotal, custodyVars, providerVars,
                   audit, histVars>>

CanMint ==
    /\ pc = "deposits" /\ todo # <<>>
    /\ events[Head(todo)] \notin Empty
    /\ ~AlreadyMinted(events[Head(todo)])

MintDeposit ==
    /\ CanMint
    /\ LET i == events[Head(todo)] IN
         /\ minted' = minted \cup {i}
         /\ live' = live \cup {i}
    /\ issued' = issued + 1
    /\ pc' = "confirm"
    /\ UNCHANGED <<todo, cursor, attempts, paidTotal, custodyVars, providerVars,
                   audit, histVars>>

\* confirm_deposit, which only the custody book's own health check reads, then
\* the proof mark and the cursor.
ConfirmDeposit ==
    /\ pc = "confirm"
    /\ cursor' = Head(todo) + 1
    /\ todo' = Tail(todo)
    /\ pc' = "deposits"
    /\ UNCHANGED <<logVars, attempts, paidTotal, custodyVars,
                   providerVars, audit, histVars>>

\* Mutant: the cursor passes an event that was refused.
DepositRefusedPassing ==
    /\ CanMint \/ pc = "confirm"
    /\ cursor' = Head(todo) + 1
    /\ todo' = <<>>
    /\ pc' = "deposits"
    /\ UNCHANGED <<logVars, attempts, paidTotal, custodyVars, providerVars,
                   audit, histVars>>

\* The sequencer or the custody book refuses: the rest of the page is left for
\* a later round, and the loop goes on to the withdrawals.
DepositRefused ==
    /\ CanMint \/ pc = "confirm"
    /\ todo' = <<>>
    /\ pc' = "deposits"
    /\ UNCHANGED <<logVars, cursor, attempts, paidTotal, custodyVars,
                   providerVars, audit, histVars>>

-----------------------------------------------------------------------------
(* process_withdrawals_once.                                               *)

\* queued_requests, once per round, in the order the custody book has them.
ListWithdrawals ==
    /\ pc = "deposits" /\ todo = <<>>
    /\ todo' \in SetToSeqs(queued)
    /\ pc' = "pay"
    /\ UNCHANGED <<logVars, cursor, attempts, paidTotal, custodyVars,
                   providerVars, audit, histVars>>

RoundEnds ==
    /\ pc = "pay" /\ todo = <<>>
    /\ pc' = "idle"
    /\ UNCHANGED <<logVars, todo, cursor, attempts, paidTotal, custodyVars,
                   providerVars, audit, histVars>>

\* Every round counts an attempt, also the ones it does not make any more; the
\* model stops counting one past the limit.
CountAttempt(i) ==
    attempts' = [attempts EXCEPT ![i] = IF @ > MaxPayAttempts THEN @ ELSE @ + 1]

\* Mutant: the limit is looked up before the attempt is counted.
ExhaustedLate(i) == attempts[i] > MaxPayAttempts

Exhausted(i) == attempts[i] + 1 > MaxPayAttempts

SkipExhausted ==
    /\ pc = "pay" /\ todo # <<>>
    /\ Exhausted(Head(todo))
    /\ CountAttempt(Head(todo))
    /\ todo' = Tail(todo)
    /\ UNCHANGED <<logVars, pc, cursor, paidTotal, custodyVars, providerVars,
                   audit, histVars>>

Transfer(i) ==
    /\ paid' = [paid EXCEPT ![i] = @ + 1]
    /\ reserve' = reserve - 1

\* pay_withdrawal.  The mock pays and answers, or refuses.  On Starknet the
\* answer only says whether the node took the transaction: the transfer of an
\* accepted one may revert, and one whose answer was lost may take effect.
PayWithdrawal ==
    /\ pc = "pay" /\ todo # <<>>
    /\ ~Exhausted(Head(todo))
    /\ CountAttempt(Head(todo))
    /\ \E took, answered \in BOOLEAN :
         /\ provider = "mock" => /\ took = (reserve >= 1)
                                 /\ answered = took
         /\ IF took THEN Transfer(Head(todo)) ELSE UNCHANGED <<paid, reserve>>
         /\ IF answered THEN pc' = "mark" /\ UNCHANGED todo
                        ELSE todo' = Tail(todo) /\ UNCHANGED pc
    /\ UNCHANGED <<logVars, cursor, paidTotal, custodyVars, provider, events,
                   vault, audit, histVars>>

\* Mutant: a request that was paid stays in the queue.
MarkPaidKeepingQueue ==
    /\ pc = "mark"
    /\ marked' = marked \cup {Head(todo)}
    /\ acked' = acked \cup {Head(todo)}
    /\ paidTotal' = Cardinality(marked')
    /\ todo' = Tail(todo)
    /\ pc' = "pay"
    /\ UNCHANGED <<logVars, cursor, attempts, queued, burning,
                   providerVars, audit, restarts>>

\* mark_paid takes the request off the queue; the total is credited.
MarkPaid ==
    /\ pc = "mark"
    /\ marked' = marked \cup {Head(todo)}
    /\ queued' = queued \ {Head(todo)}
    /\ acked' = acked \cup {Head(todo)}
    /\ paidTotal' = paidTotal + 1
    /\ todo' = Tail(todo)
    /\ pc' = "pay"
    /\ UNCHANGED <<logVars, cursor, attempts, burning, providerVars,
                   audit, restarts>>

\* mark_paid fails: the request stays queued and the total is not credited.
MarkPaidRefused ==
    /\ pc = "mark"
    /\ todo' = Tail(todo)
    /\ pc' = "pay"
    /\ UNCHANGED <<logVars, cursor, attempts, paidTotal, custodyVars,
                   providerVars, audit, histVars>>

-----------------------------------------------------------------------------
(* reconcile_once, a task of its own: the reserve, the notes, the totals.  *)

Seen == <<issued, SumFunction(paid)>>

ReadReserve ==
    /\ audit.at = "none"
    /\ audit' = [at |-> "reserve", reserve |-> reserve, issued |-> 0, seen |-> Seen]
    /\ UNCHANGED <<logVars, loopVars, custodyVars, providerVars, histVars>>

\* live + burned is everything minted.
ReadNotes ==
    /\ audit.at = "reserve"
    /\ audit' = [audit EXCEPT !.at = "notes", !.issued = issued]
    /\ UNCHANGED <<logVars, loopVars, custodyVars, providerVars, histVars>>

\* The difference it reports.
Delta == audit.reserve + paidTotal - audit.issued

\* The report is logged and kept for the status page; nothing reads it back.
Reconcile ==
    /\ audit.at = "notes"
    /\ audit' = NoAudit
    /\ UNCHANGED <<logVars, loopVars, custodyVars, providerVars, histVars>>

-----------------------------------------------------------------------------
\* The process dies; init replays the log and chooses a provider.  The custody
\* book, the counters and a mock provider start empty.
Restart ==
    /\ restarts < MaxRestarts
    /\ restarts' = restarts + 1
    /\ provider' \in Providers
    /\ events' = <<>> /\ reserve' = 0
    /\ pc' = "idle" /\ todo' = <<>> /\ cursor' = 1
    /\ attempts' = [i \in Ids |-> 0] /\ paidTotal' = 0
    /\ queued' = {} /\ marked' = {} /\ burning' = {}
    /\ audit' = NoAudit
    /\ UNCHANGED <<vault, paid, logVars, acked>>

Round ==
    \/ PollDeposits \/ SkipEvent \/ MintDeposit \/ ConfirmDeposit
    \/ DepositRefused \/ ListWithdrawals \/ RoundEnds \/ SkipExhausted
    \/ PayWithdrawal \/ MarkPaid \/ MarkPaidRefused

Next ==
    \/ \E i \in Ids : \/ PushDeposit(i) \/ VaultDeposit(i)
                      \/ BurnNote(i) \/ EnqueueWithdrawal(i)
    \/ Round
    \/ ReadReserve \/ ReadNotes \/ Reconcile
    \/ Restart

Spec == Init /\ [][Next]_vars

\* The loop's ticker fires for ever, and a mint that is tried again and again
\* is accepted in the end.
FairSpec == Spec /\ WF_vars(Round) /\ SF_vars(MintDeposit)

-----------------------------------------------------------------------------
(* Properties.                                                             *)

\* Retries of a payment whose answer was lost, and payments the book refused to
\* mark, pay the same request again; over the whole life of the system, restarts
\* included, no request is paid more often than MAX_PAY_ATTEMPTS.
PaymentsBounded == \A i \in Ids : paid[i] <= MaxPayAttempts

\* A request the custody book has marked is never paid again, not even by a
\* process that has forgotten the mark.
MarkedIsFinal == [][\A i \in acked : paid'[i] = paid[i]]_vars

\* An event the mock reports is minted in the end, although a refusal abandons
\* the rest of the page and events without amount or reported twice lie between.
DepositsMinted ==
    \A i \in Ids \ Empty :
      (i \in Range(events)) ~> (i \in minted \/ i \notin Range(events))

\* The report is a fair witness: with a mock provider, read while nothing moves,
\* every event minted, every payment marked once and no restart behind it, the
\* reconciliation says 0, whatever was refused, retried or reported twice before.
QuietReportBalanced ==
    (/\ audit.at = "notes"
     /\ provider = "mock" /\ restarts = 0
     /\ audit.seen = Seen /\ Range(events) \ Empty \subseteq minted
     /\ \A i \in Ids : paid[i] = IF i \in marked THEN 1 ELSE 0)
       => Delta = 0

\* Every deposit into the vault is minted in the end (VaultProvider and the
\* module comment: vault deposit events become REAL notes).
VaultDepositsMinted == \A i \in Ids \ Empty : (i \in vault) ~> (i \in minted)
=============================================================================
