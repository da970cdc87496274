---------------------------- MODULE CommandInbox ----------------------------
(***************************************************************************)
(* What a table's command inbox promises, whatever queues, retries and     *)
(* replays it is built from: the commands of one account take effect in the*)
(* order of their nonces and never twice; a command that cannot be applied *)
(* yet may wait, in a room of bounded size; a waiting command takes effect *)
(* later, is given up, or goes with the hand.                              *)
(***************************************************************************)
EXTENDS Naturals, Sequences, SequencesExt

CONSTANTS
    Commands,    \* records with the fields account and nonce, among others
    Capacity     \* commands that may wait

VARIABLES
    waiting,     \* the commands that wait, in order of arrival
    log          \* the commands that took effect, in order

inboxVars == <<waiting, log>>

InboxInit == waiting = <<>> /\ log = <<>>

\* Nothing of the same account with this nonce or a later one took effect.
Fresh(c) == \A d \in Range(log) : d.account = c.account => d.nonce < c.nonce

Apply ==
    /\ UNCHANGED waiting
    /\ \E c \in Commands : log' = Append(log, c) /\ Fresh(c)

Wait ==
    /\ UNCHANGED log
    /\ Len(waiting) < Capacity
    /\ \E c \in Commands : waiting' = Append(waiting, c) /\ Fresh(c)

Replay(k) ==
    /\ Fresh(waiting[k])
    /\ log' = Append(log, waiting[k])
    /\ waiting' = RemoveAt(waiting, k)

GiveUp(k) ==
    /\ waiting' = RemoveAt(waiting, k)
    /\ UNCHANGED log

HandOver ==
    /\ waiting' = <<>>
    /\ UNCHANGED log

InboxNext ==
    \/ Apply \/ Wait
    \/ \E k \in DOMAIN waiting : Replay(k) \/ GiveUp(k)
    \/ HandOver

InboxSpec == InboxInit /\ [][InboxNext]_inboxVars
=============================================================================
