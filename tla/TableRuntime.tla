---------------------------- MODULE TableRuntime ----------------------------
(***************************************************************************)
(* TableRuntime, the entry of one table: signed commands of the players    *)
(* with a nonce watermark per account, a pending queue that holds reveal   *)
(* tokens whose window is not open yet, the server's own commands, and the *)
(* reset between hands.                                                    *)
(*                                                                         *)
(* The network may deliver a signed command late, out of order and more    *)
(* than once.  The table behind dispatch is cut down to what decides the   *)
(* verdict on a command: which reveal window is open and who still owes it *)
(* tokens.  A signature is the session key it was made with; the proof of a*)
(* reveal token holds for the hand and the street it was made for.         *)
(***************************************************************************)
EXTENDS Naturals, Sequences, FiniteSets, FiniteSetsExt, SequencesExt

CONSTANTS
    Accounts,       \* wallets
    TokensOf,       \* tokens a seat owes in the reveal window of each street
    QueueCapacity,  \* max_entries of the queue (64)
    MaxHolds,       \* MAX_HOLDS (64)
    MaxDead,        \* MAX_DEAD (128)
    MaxNonce,       \* bound: commands an account signs
    MaxDeliveries,  \* bound: deliveries by the network
    MaxHand,        \* bound: hands
    MaxKey          \* bound: session keys an account registers

Streets == DOMAIN TokensOf

Command ==
    [account : Accounts, nonce : 1..MaxNonce, key : 1..MaxKey,
     kind : {"token", "act"}, hand : 1..MaxHand, street : Streets]

ASSUME RuntimeAssumption ==
    /\ TokensOf \in Seq(Nat \ {0})
    /\ {QueueCapacity, MaxHolds, MaxDead, MaxNonce, MaxDeliveries, MaxHand, MaxKey}
         \subseteq Nat \ {0}

ASSUME StreetsAssumption == Len(TokensOf) >= 1

VARIABLES
    \* the players and the network
    delivered,   \* deliveries so far
    \* the table
    key,         \* per account, the session key its seat registered; 0: no seat
    keys,        \* per account, session keys made so far
    hand,        \* hands started
    clean,       \* the host has reset the runtime since the last hand started
    table,       \* phase, street and who owes tokens in the open window
    \* the runtime
    nonces,      \* account_nonces; 0: no entry
    entries,     \* pending entries: command and hold count
    dead,        \* dead letters kept
    deadDropped, \* dead letters only counted
    flushing,    \* a flush is under way: position and progress
    \* history
    log          \* commands applied, in order

tableVars == <<key, keys, hand, clean, table>>
queueVars == <<entries, dead, deadDropped>>
vars == <<delivered, tableVars, nonces, queueVars, flushing, log>>

NoFlush == [on |-> FALSE, at |-> 1, progressed |-> FALSE]
Idle == [phase |-> "idle", street |-> 1, owing |-> {}]

\* The commands in the queue are Command records of seats, a hold count stays
\* below the limit, and nothing is dropped while there is room for a dead letter.
TypeOK ==
    /\ delivered \in 0..MaxDeliveries
    /\ key \in [Accounts -> 0..MaxKey]
    /\ keys \in [Accounts -> 0..MaxKey]
    /\ hand \in 0..MaxHand /\ clean \in BOOLEAN
    /\ table \in [phase : {"idle", "closed", "reveal"}, street : Streets,
                  owing : SUBSET Accounts]
    /\ nonces \in [Accounts -> 0..MaxNonce]
    /\ entries \in Seq([cmd : Command, holds : 0..MaxHolds - 1])
    /\ Len(entries) <= QueueCapacity
    /\ dead \in 0..MaxDead /\ deadDropped \in Nat
    /\ flushing \in [on : BOOLEAN, at : 1..QueueCapacity + 1, progressed : BOOLEAN]
    /\ log \in Seq(Command)

Init ==
    /\ delivered = 0
    /\ key = [a \in Accounts |-> 0]
    /\ keys = key
    /\ hand = 0 /\ clean = TRUE
    /\ table = Idle
    /\ nonces = [a \in Accounts |-> 0]
    /\ entries = <<>> /\ dead = 0 /\ deadDropped = 0
    /\ flushing = NoFlush
    /\ log = <<>>

-----------------------------------------------------------------------------
(* The table behind dispatch.                                              *)

Seated == {a \in Accounts : key[a] # 0}
Window(s, who) == [phase |-> "reveal", street |-> s, owing |-> who]
Closed(s) == [phase |-> "closed", street |-> s, owing |-> {}]

\* Where a hand may go once street s is done: more action on it, the window of
\* the next street, or its end.
Onward(s, who) ==
    {Closed(s), Idle} \cup (IF s + 1 \in Streets THEN {Window(s + 1, who)} ELSE {})

\* normalize_until_blocked: a window nobody owes anything any more closes.
Normal(t, who) ==
    IF t.phase = "reveal" /\ t.owing = {} THEN Onward(t.street, who) ELSE {t}

Owed(a) ==
    IF table.phase = "reveal" /\ a \in table.owing THEN TokensOf[table.street] ELSE 0

\* PhaseWindowClosed: no window, or the seat does not owe this many tokens.
WindowClosed(c) == Owed(c.account) # TokensOf[c.street]

\* The proof is checked against the card of the open window.
ProofHolds(c) == c.hand = hand /\ c.street = table.street

-----------------------------------------------------------------------------
(* apply_submission: the verdict on a command, and its effect.             *)

Stale(c) == c.nonce <= nonces[c.account]

\* verify_submission: by the key the seat has registered, and no other.
Authentic(c) == key[c.account] # 0 /\ key[c.account] = c.key

\* classify_dispatch_error, for a token.
Holds(c) ==
    /\ ~Stale(c) /\ Authentic(c)
    /\ c.kind = "token"
    /\ WindowClosed(c)

\* What dispatch makes of the table; empty if it refuses.  Whether an action is
\* legal and what it leads to is the table's business.
Outcomes(c) ==
    IF c.kind = "token"
    THEN IF ~WindowClosed(c) /\ ProofHolds(c)
         THEN Normal([table EXCEPT !.owing = @ \ {c.account}], Seated) ELSE {}
    ELSE IF table.phase = "closed" THEN Onward(table.street, Seated) ELSE {}

\* Every refusal, of an action by the rules of the game too.
Refuses(c) ==
    /\ ~Holds(c)
    /\ Stale(c) \/ ~Authentic(c) \/ Outcomes(c) = {} \/ c.kind = "act"

Applies(c) ==
    /\ ~Stale(c) /\ Authentic(c)
    /\ \E t \in Outcomes(c) : table' = t
    /\ nonces' = [nonces EXCEPT ![c.account] = c.nonce]
    /\ log' = Append(log, c)

-----------------------------------------------------------------------------
(* submit_signed.                                                          *)

\* What a player may have signed by now: under a session key it has had, a token
\* for any street of this hand or an earlier one, or an action.  Nothing keeps a
\* client from signing two commands with one nonce.
MaySign(c) ==
    /\ c.key <= keys[c.account]
    /\ c.hand <= hand
    /\ c.kind = "act" => c.hand = 1 /\ c.street = 1

\* The network brings a signed command, perhaps not for the first time.
Deliver(c) ==
    /\ MaySign(c)
    /\ delivered < MaxDeliveries
    /\ ~flushing.on
    /\ delivered' = delivered + 1
    /\ UNCHANGED <<key, keys, hand, clean, dead, deadDropped, flushing>>

SubmitApplied(c) ==
    /\ Deliver(c)
    /\ Applies(c)
    /\ UNCHANGED entries

SubmitRefused(c) ==
    /\ Deliver(c)
    /\ Refuses(c)
    /\ UNCHANGED <<table, nonces, entries, log>>

\* Mutant: a full queue takes the command all the same.
SubmitHeldAnyway(c) ==
    /\ Deliver(c)
    /\ Holds(c)
    /\ entries' = Append(entries, [cmd |-> c, holds |-> 0])
    /\ UNCHANGED <<table, nonces, log>>

\* A full queue answers with back-pressure.
SubmitHeld(c) ==
    /\ Deliver(c)
    /\ Holds(c)
    /\ entries' = IF Len(entries) >= QueueCapacity THEN entries
                  ELSE Append(entries, [cmd |-> c, holds |-> 0])
    /\ UNCHANGED <<table, nonces, log>>

-----------------------------------------------------------------------------
(* flush_pending: pass after pass over the queue while a pass applies one. *)

FlushBegins ==
    /\ ~flushing.on /\ entries # <<>>
    /\ flushing' = [on |-> TRUE, at |-> 1, progressed |-> FALSE]
    /\ UNCHANGED <<delivered, tableVars, nonces, queueVars, log>>

AtEntry == flushing.on /\ flushing.at <= Len(entries)
This == entries[flushing.at]

FlushApplied ==
    /\ AtEntry
    /\ Applies(This.cmd)
    /\ entries' = RemoveAt(entries, flushing.at)
    /\ flushing' = [flushing EXCEPT !.progressed = TRUE]
    /\ UNCHANGED <<delivered, key, keys, hand, clean, dead, deadDropped>>

\* dead_letter: kept while there is room, counted otherwise.
DeadLetter ==
    /\ entries' = RemoveAt(entries, flushing.at)
    /\ IF dead < MaxDead THEN dead' = dead + 1 /\ UNCHANGED deadDropped
                         ELSE deadDropped' = deadDropped + 1 /\ UNCHANGED dead

FlushRejected ==
    /\ AtEntry
    /\ Refuses(This.cmd)
    /\ DeadLetter
    /\ UNCHANGED <<delivered, tableVars, nonces, flushing, log>>

\* Mutant: an entry that is held again starts its count anew.
FlushHeldAfresh ==
    /\ AtEntry
    /\ Holds(This.cmd)
    /\ entries' = [entries EXCEPT ![flushing.at].holds = 0]
    /\ flushing' = [flushing EXCEPT !.at = @ + 1]
    /\ UNCHANGED <<delivered, tableVars, nonces, dead, deadDropped, log>>

FlushHeld ==
    /\ AtEntry
    /\ Holds(This.cmd)
    /\ IF This.holds + 1 >= MaxHolds
       THEN DeadLetter /\ UNCHANGED flushing
       ELSE /\ entries' = [entries EXCEPT ![flushing.at].holds = @ + 1]
            /\ flushing' = [flushing EXCEPT !.at = @ + 1]
            /\ UNCHANGED <<dead, deadDropped>>
    /\ UNCHANGED <<delivered, tableVars, nonces, log>>

FlushPassEnds ==
    /\ flushing.on /\ flushing.at > Len(entries)
    /\ flushing' = IF flushing.progressed
                   THEN [on |-> TRUE, at |-> 1, progressed |-> FALSE] ELSE NoFlush
    /\ UNCHANGED <<delivered, tableVars, nonces, queueVars, log>>

Flush == FlushApplied \/ FlushRejected \/ FlushHeld \/ FlushPassEnds

-----------------------------------------------------------------------------
(* submit_unsigned: the server's commands, and the host's end of a hand.   *)

Join(a) ==
    /\ ~flushing.on /\ table.phase = "idle"
    /\ key[a] = 0 /\ keys[a] < MaxKey
    /\ keys' = [keys EXCEPT ![a] = @ + 1]
    /\ key' = [key EXCEPT ![a] = keys[a] + 1]
    /\ UNCHANGED <<delivered, hand, clean, table, nonces, queueVars, flushing, log>>

\* A seat is vacated, by kick or at the end of a hand.
Vacate(a) ==
    /\ ~flushing.on
    /\ key[a] # 0
    /\ key' = [key EXCEPT ![a] = 0]
    /\ table' \in Normal([table EXCEPT !.owing = @ \ {a}], Seated \ {a})
    /\ UNCHANGED <<delivered, keys, hand, clean, nonces, queueVars, flushing, log>>

\* Mutant: the watermarks go with the hand.
ResetForNextHandAll ==
    /\ ~flushing.on /\ table.phase = "idle" /\ ~clean
    /\ clean' = TRUE
    /\ entries' = <<>> /\ dead' = 0
    /\ nonces' = [a \in Accounts |-> 0]
    /\ UNCHANGED <<delivered, key, keys, hand, table, deadDropped, flushing, log>>

\* Entries and dead letters go with the hand; watermarks and the count of
\* dropped letters stay.
ResetForNextHand ==
    /\ ~flushing.on /\ table.phase = "idle" /\ ~clean
    /\ clean' = TRUE
    /\ entries' = <<>> /\ dead' = 0
    /\ UNCHANGED <<delivered, key, keys, hand, table, nonces, deadDropped, flushing,
                   log>>

\* The host resets before it starts a hand; what came in since stays queued.
StartHand ==
    /\ ~flushing.on /\ table.phase = "idle" /\ clean
    /\ hand < MaxHand /\ Seated # {}
    /\ hand' = hand + 1
    /\ clean' = FALSE
    /\ table' \in {Closed(1), Window(1, Seated)}
    /\ UNCHANGED <<delivered, key, keys, nonces, queueVars, flushing, log>>

\* advance_deadline: a window or a turn times out.
AdvanceDeadline ==
    /\ ~flushing.on /\ table.phase # "idle"
    /\ table' \in Onward(table.street, Seated)
    /\ UNCHANGED <<delivered, key, keys, hand, clean, nonces, queueVars, flushing, log>>

-----------------------------------------------------------------------------
Next ==
    \/ \E a \in Accounts :
         Join(a) \/ Vacate(a)
    \/ \E c \in Command :
         SubmitApplied(c) \/ SubmitRefused(c) \/ SubmitHeld(c)
    \/ FlushBegins \/ Flush
    \/ StartHand \/ AdvanceDeadline \/ ResetForNextHand

Spec == Init /\ [][Next]_vars

\* The host flushes on every turn of its loop, and a flush runs to its end.
FairSpec == Spec /\ WF_vars(FlushBegins) /\ WF_vars(Flush)

-----------------------------------------------------------------------------
(* Properties.                                                             *)

Waiting == [k \in DOMAIN entries |-> entries[k].cmd]

Inbox == INSTANCE CommandInbox
           WITH Commands <- Command, Capacity <- QueueCapacity,
                waiting <- Waiting, log <- log

\* The watermark, the door and the replaying queue together implement the inbox:
\* whatever is delivered twice, late or out of order, held, replayed, dead-lettered
\* or cut off by the end of a hand, the commands of an account are applied in
\* nonce order and at most once, and the queue never holds more than it may.
ImplementsInbox == Inbox!InboxSpec

\* Commands do not wait for ever: when no more of them arrive the queue empties,
\* because windows open, the hand ends, or MAX_HOLDS flushes give a command up.
HeldNotForever == []<>(entries = <<>>)

\* An early token waits and is replayed when its window opens: while its seat is
\* occupied by the same session, a queued command does not become unplayable.
HeldStaysPlayable ==
    \A e \in Range(entries) : Authentic(e.cmd) /\ e.cmd.hand = hand => ~Stale(e.cmd)
=============================================================================
