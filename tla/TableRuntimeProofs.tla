------------------------- MODULE TableRuntimeProofs -------------------------
(***************************************************************************)
(* The runtime's watermarks, door and replaying queue implement the inbox, *)
(* for any accounts, streets, capacities and bounds.                       *)
(***************************************************************************)
EXTENDS TableRuntime, SequenceTheorems, TLAPS

USE RuntimeAssumption

Entry == [cmd : Command, holds : Nat]
CommandsOf(s) == [k \in DOMAIN s |-> s[k].cmd]

\* What the queue holds are entries, within the capacity.
QueueInv ==
    /\ entries \in Seq(Entry)
    /\ Len(entries) <= QueueCapacity
    /\ flushing \in [on : BOOLEAN, at : Nat \ {0}, progressed : BOOLEAN]

\* No account has a command in the log above its watermark.
Watermark ==
    /\ log \in Seq(Command)
    /\ nonces \in [Accounts -> Nat]
    /\ \A i \in 1..Len(log) : log[i].nonce <= nonces[log[i].account]

InboxInv == QueueInv /\ Watermark

-----------------------------------------------------------------------------
(* Sequences of entries and their commands.                                *)

\* The commands of a queue are a sequence of the same length.
LEMMA CommandsOfSeq ==
  ASSUME NEW s \in Seq(Entry)
  PROVE  /\ CommandsOf(s) \in Seq(Command)
         /\ Len(CommandsOf(s)) = Len(s)
         /\ \A i \in 1..Len(s) : CommandsOf(s)[i] = s[i].cmd
<1>1. Len(s) \in Nat /\ DOMAIN s = 1..Len(s) /\ \A i \in 1..Len(s) : s[i] \in Entry
  BY LenProperties, ElementOfSeq
<1>2. \A i \in 1..Len(s) : s[i].cmd \in Command
  BY <1>1 DEF Entry
<1>3. CommandsOf(s) \in [1..Len(s) -> Command]
  BY <1>1, <1>2 DEF CommandsOf
<1>4. QED
  BY <1>1, <1>3, SeqDef DEF CommandsOf

\* What RemoveAt leaves of a sequence.
LEMMA RemoveAtSeq ==
  ASSUME NEW S, NEW s \in Seq(S), NEW k \in 1..Len(s)
  PROVE  /\ RemoveAt(s, k) \in Seq(S)
         /\ Len(RemoveAt(s, k)) = Len(s) - 1
         /\ \A i \in 1..Len(s) - 1 :
              RemoveAt(s, k)[i] = IF i < k THEN s[i] ELSE s[i + 1]
<1> DEFINE A == SubSeq(s, 1, k - 1)
           B == SubSeq(s, k + 1, Len(s))
<1>1. Len(s) \in Nat /\ k \in Nat /\ \A i \in 1..Len(s) : s[i] \in S
  BY LenProperties, ElementOfSeq
<1>2. /\ A \in Seq(S) /\ Len(A) = k - 1
      /\ \A i \in 1..k - 1 : A[i] = s[i]
  <2>1. \A i \in 1..k - 1 : s[i] \in S
    BY <1>1
  <2>2. /\ A \in Seq(S)
        /\ Len(A) = IF 1 <= k - 1 THEN (k - 1) - 1 + 1 ELSE 0
        /\ \A i \in 1..(k - 1) - 1 + 1 : A[i] = s[1 + i - 1]
    BY <1>1, <2>1, SubSeqProperties
  <2>3. QED
    BY <1>1, <2>2
<1>3. /\ B \in Seq(S) /\ Len(B) = Len(s) - k
      /\ \A i \in 1..Len(s) - k : B[i] = s[k + i]
  <2>1. \A i \in k + 1..Len(s) : s[i] \in S
    BY <1>1
  <2>2. /\ B \in Seq(S)
        /\ Len(B) = IF k + 1 <= Len(s) THEN Len(s) - (k + 1) + 1 ELSE 0
        /\ \A i \in 1..Len(s) - (k + 1) + 1 : B[i] = s[(k + 1) + i - 1]
    BY <1>1, <2>1, SubSeqProperties
  <2>3. QED
    BY <1>1, <2>2
<1> HIDE DEF A, B
<1>4. /\ A \o B \in Seq(S)
      /\ Len(A \o B) = Len(A) + Len(B)
      /\ \A i \in 1..Len(A) + Len(B) :
           (A \o B)[i] = IF i <= Len(A) THEN A[i] ELSE B[i - Len(A)]
  BY <1>2, <1>3, ConcatProperties
<1>5. RemoveAt(s, k) = A \o B
  BY DEF RemoveAt, A, B
<1>6. ASSUME NEW i \in 1..Len(s) - 1
      PROVE  (A \o B)[i] = IF i < k THEN s[i] ELSE s[i + 1]
  <2>1. CASE i < k
    BY <1>1, <1>2, <1>3, <1>4, <2>1
  <2>2. CASE ~(i < k)
    <3>1. i - (k - 1) \in 1..Len(s) - k /\ k + (i - (k - 1)) = i + 1
      BY <1>1, <2>2
    <3>2. (A \o B)[i] = B[i - (k - 1)]
      <4>1. i \in 1..Len(A) + Len(B) /\ ~(i <= Len(A)) /\ Len(A) = k - 1
        BY <1>1, <1>2, <1>3, <2>2
      <4>2. (A \o B)[i] = B[i - Len(A)]
        BY <1>4, <4>1
      <4>3. QED
        BY <4>1, <4>2
    <3>3. QED
      BY <1>3, <2>2, <3>1, <3>2
  <2>3. QED
    BY <2>1, <2>2
<1>7. Len(A \o B) = Len(s) - 1
  BY <1>1, <1>2, <1>3, <1>4
<1>8. QED
  BY <1>4, <1>5, <1>6, <1>7

\* Taking an entry out of the queue takes its command out.
LEMMA CommandsOfRemoveAt ==
  ASSUME NEW s \in Seq(Entry), NEW k \in 1..Len(s)
  PROVE  CommandsOf(RemoveAt(s, k)) = RemoveAt(CommandsOf(s), k)
<1> DEFINE r == RemoveAt(s, k)
           c == CommandsOf(s)
<1>0. Len(s) \in Nat /\ k \in Nat
  BY LenProperties
<1>1. /\ r \in Seq(Entry) /\ Len(r) = Len(s) - 1
      /\ \A i \in 1..Len(s) - 1 : r[i] = IF i < k THEN s[i] ELSE s[i + 1]
  BY RemoveAtSeq
<1>2. /\ c \in Seq(Command) /\ Len(c) = Len(s)
      /\ \A i \in 1..Len(s) : c[i] = s[i].cmd
  BY CommandsOfSeq
<1>3. /\ RemoveAt(c, k) \in Seq(Command) /\ Len(RemoveAt(c, k)) = Len(s) - 1
      /\ \A i \in 1..Len(s) - 1 : RemoveAt(c, k)[i] = IF i < k THEN c[i] ELSE c[i + 1]
  <2> HIDE DEF c
  <2>1. QED
    BY <1>2, RemoveAtSeq
<1>4. /\ CommandsOf(r) \in Seq(Command) /\ Len(CommandsOf(r)) = Len(r)
      /\ \A i \in 1..Len(r) : CommandsOf(r)[i] = r[i].cmd
  <2> HIDE DEF r
  <2>1. QED
    BY <1>1, CommandsOfSeq
<1> HIDE DEF r, c
<1>5. ASSUME NEW i \in 1..Len(s) - 1 PROVE CommandsOf(r)[i] = RemoveAt(c, k)[i]
  <2>1. i \in 1..Len(r) /\ i \in 1..Len(s) /\ i + 1 \in 1..Len(s)
    BY <1>0, <1>1
  <2>2. CommandsOf(r)[i] = r[i].cmd /\ c[i] = s[i].cmd /\ c[i + 1] = s[i + 1].cmd
    BY <1>2, <1>4, <2>1
  <2>3. CASE i < k
    BY <1>1, <1>3, <2>2, <2>3
  <2>4. CASE ~(i < k)
    BY <1>1, <1>3, <2>2, <2>4
  <2>5. QED
    BY <2>3, <2>4
<1>6. CommandsOf(r) = RemoveAt(c, k)
  BY <1>0, <1>1, <1>3, <1>4, <1>5, SeqEqual
<1>7. QED
  BY <1>6 DEF r, c

\* A new entry brings its command to the end.
LEMMA CommandsOfAppend ==
  ASSUME NEW s \in Seq(Entry), NEW e \in Entry
  PROVE  CommandsOf(Append(s, e)) = Append(CommandsOf(s), e.cmd)
<1> DEFINE r == Append(s, e)
           c == CommandsOf(s)
<1>0. Len(s) \in Nat /\ e.cmd \in Command
  BY LenProperties DEF Entry
<1>1. /\ r \in Seq(Entry) /\ Len(r) = Len(s) + 1 /\ r[Len(s) + 1] = e
      /\ \A i \in 1..Len(s) : r[i] = s[i]
  BY AppendProperties
<1>2. /\ c \in Seq(Command) /\ Len(c) = Len(s)
      /\ \A i \in 1..Len(s) : c[i] = s[i].cmd
  BY CommandsOfSeq
<1>3. /\ Append(c, e.cmd) \in Seq(Command) /\ Len(Append(c, e.cmd)) = Len(c) + 1
      /\ Append(c, e.cmd)[Len(c) + 1] = e.cmd
      /\ \A i \in 1..Len(c) : Append(c, e.cmd)[i] = c[i]
  <2> HIDE DEF c
  <2>1. QED
    BY <1>0, <1>2, AppendProperties
<1>4. /\ CommandsOf(r) \in Seq(Command) /\ Len(CommandsOf(r)) = Len(r)
      /\ \A i \in 1..Len(r) : CommandsOf(r)[i] = r[i].cmd
  <2> HIDE DEF r
  <2>1. QED
    BY <1>1, CommandsOfSeq
<1> HIDE DEF r, c
<1>5. ASSUME NEW i \in 1..Len(s) + 1 PROVE CommandsOf(r)[i] = Append(c, e.cmd)[i]
  <2>1. CommandsOf(r)[i] = r[i].cmd
    BY <1>1, <1>4
  <2>2. CASE i = Len(s) + 1
    BY <1>1, <1>2, <1>3, <2>1, <2>2
  <2>3. CASE i # Len(s) + 1
    <3>1. i \in 1..Len(s) /\ i \in 1..Len(c)
      BY <1>0, <1>2, <2>3
    <3>2. QED
      BY <1>1, <1>2, <1>3, <2>1, <3>1
  <2>4. QED
    BY <2>2, <2>3
<1>6. CommandsOf(r) = Append(c, e.cmd)
  BY <1>0, <1>1, <1>2, <1>3, <1>4, <1>5, SeqEqual
<1>7. QED
  BY <1>6 DEF r, c

-----------------------------------------------------------------------------
(* The watermark.                                                          *)

\* What apply_submission lets pass is new to the inbox.
LEMMA FreshCommand ==
  ASSUME Watermark, NEW c \in Command, ~Stale(c)
  PROVE  Inbox!Fresh(c)
<1>1. c.account \in Accounts /\ c.nonce \in Nat /\ nonces[c.account] \in Nat
  BY DEF Watermark, Command
<1>2. nonces[c.account] < c.nonce
  BY <1>1 DEF Stale
<1>3. Len(log) \in Nat /\ DOMAIN log = 1..Len(log) /\ \A i \in 1..Len(log) : log[i] \in Command
  BY LenProperties, ElementOfSeq DEF Watermark
<1>4. ASSUME NEW i \in 1..Len(log), log[i].account = c.account
      PROVE  log[i].nonce < c.nonce
  <2>1. log[i].nonce \in Nat
    BY <1>3 DEF Command
  <2>2. log[i].nonce <= nonces[c.account]
    BY <1>4 DEF Watermark
  <2>3. QED
    BY <1>1, <1>2, <2>1, <2>2
<1>5. QED
  BY <1>3, <1>4 DEF Inbox!Fresh, Inbox!Range

\* Applying a command raises the watermark over everything in the log.
LEMMA AppliesWatermark ==
  ASSUME Watermark, NEW c \in Command, Applies(c)
  PROVE  Watermark'
<1>1. c.account \in Accounts /\ c.nonce \in Nat /\ nonces[c.account] < c.nonce
  BY DEF Watermark, Command, Applies, Stale
<1>2. Len(log) \in Nat /\ \A i \in 1..Len(log) : log[i] \in Command
  BY LenProperties, ElementOfSeq DEF Watermark
<1>3. /\ log' \in Seq(Command) /\ Len(log') = Len(log) + 1 /\ log'[Len(log) + 1] = c
      /\ \A i \in 1..Len(log) : log'[i] = log[i]
  BY AppendProperties DEF Watermark, Applies
<1>4. nonces' \in [Accounts -> Nat] /\ nonces' = [nonces EXCEPT ![c.account] = c.nonce]
  BY <1>1 DEF Watermark, Applies
<1>5. ASSUME NEW i \in 1..Len(log') PROVE log'[i].nonce <= nonces'[log'[i].account]
  <2>1. CASE i = Len(log) + 1
    BY <1>1, <1>3, <1>4, <2>1 DEF Watermark
  <2>2. CASE i \in 1..Len(log)
    <3>1. log[i].nonce \in Nat /\ log[i].account \in Accounts
      BY <1>2, <2>2 DEF Command
    <3>2. log[i].nonce <= nonces[log[i].account] /\ nonces[log[i].account] \in Nat
      BY <2>2, <3>1 DEF Watermark
    <3>3. log[i].nonce <= nonces'[log[i].account]
      <4>1. CASE log[i].account = c.account
        <5>1. nonces'[log[i].account] = c.nonce
          BY <1>1, <1>4, <4>1 DEF Watermark
        <5>2. QED
          BY <1>1, <3>1, <3>2, <4>1, <5>1
      <4>2. CASE log[i].account # c.account
        <5>1. nonces'[log[i].account] = nonces[log[i].account]
          BY <1>4, <3>1, <4>2 DEF Watermark
        <5>2. QED
          BY <3>2, <5>1
      <4>3. QED
        BY <4>1, <4>2
    <3>4. QED
      BY <1>3, <2>2, <3>3
  <2>3. QED
    BY <1>2, <1>3, <2>1, <2>2
<1>6. QED
  BY <1>3, <1>4, <1>5 DEF Watermark

\* Steps that apply nothing leave the watermark alone.
LEMMA WatermarkUnmoved ==
  ASSUME Watermark, UNCHANGED <<nonces, log>>
  PROVE  Watermark'
BY DEF Watermark

\* The mapping of the queue.
LEMMA WaitingIs == Waiting = CommandsOf(entries) /\ Waiting' = CommandsOf(entries')
BY DEF Waiting, CommandsOf

-----------------------------------------------------------------------------
(* The steps of the runtime, as steps of the inbox.                        *)

InboxStep == InboxInv' /\ [Inbox!InboxNext]_(Inbox!inboxVars)

\* submit_signed, applied: the inbox applies.
LEMMA SubmitAppliedStep ==
  ASSUME InboxInv, NEW c \in Command, SubmitApplied(c)
  PROVE  InboxStep
<1>1. Applies(c) /\ ~Stale(c) /\ log' = Append(log, c) /\ UNCHANGED <<entries, flushing>>
  BY DEF SubmitApplied, Applies, Deliver
<1>2. InboxInv'
  BY <1>1, AppliesWatermark DEF InboxInv, QueueInv
<1>3. Inbox!Fresh(c)
  BY <1>1, FreshCommand DEF InboxInv
<1>4. Inbox!Apply
  BY <1>1, <1>3, WaitingIs DEF Inbox!Apply
<1>5. QED
  BY <1>2, <1>4 DEF InboxStep, Inbox!InboxNext

\* submit_signed, held: the command waits, or the queue is full.
LEMMA SubmitHeldStep ==
  ASSUME InboxInv, NEW c \in Command, SubmitHeld(c)
  PROVE  InboxStep
<1>1. ~Stale(c) /\ UNCHANGED <<log, nonces, flushing>> /\ Watermark'
  BY WatermarkUnmoved DEF SubmitHeld, Holds, Deliver, InboxInv
<1>2. CASE Len(entries) >= QueueCapacity
  <2>1. entries' = entries
    BY <1>2 DEF SubmitHeld
  <2>2. QED
    BY <1>1, <2>1, WaitingIs DEF InboxStep, InboxInv, QueueInv, Inbox!inboxVars
<1>3. CASE ~(Len(entries) >= QueueCapacity)
  <2> DEFINE e == [cmd |-> c, holds |-> 0]
  <2>1. entries' = Append(entries, e)
    BY <1>3 DEF SubmitHeld
  <2>2. e \in Entry /\ e.cmd = c /\ entries \in Seq(Entry) /\ Len(entries) \in Nat
    BY LenProperties DEF Entry, InboxInv, QueueInv
  <2>3. Len(entries) < QueueCapacity
    BY <1>3, <2>2
  <2> HIDE DEF e
  <2>4. entries' \in Seq(Entry) /\ Len(entries') = Len(entries) + 1
    BY <2>1, <2>2, AppendProperties
  <2>5. InboxInv'
    BY <1>1, <2>2, <2>3, <2>4 DEF InboxInv, QueueInv
  <2>6. Waiting' = Append(Waiting, c)
    BY <2>1, <2>2, CommandsOfAppend, WaitingIs
  <2>7. Len(Waiting) < QueueCapacity
    BY <2>2, <2>3, CommandsOfSeq, WaitingIs
  <2>8. Inbox!Fresh(c)
    BY <1>1, FreshCommand DEF InboxInv
  <2>9. Inbox!Wait
    BY <1>1, <2>6, <2>7, <2>8 DEF Inbox!Wait
  <2>10. QED
    BY <2>5, <2>9 DEF InboxStep, Inbox!InboxNext
<1>4. QED
  BY <1>2, <1>3

\* What the flush is looking at is an entry of the queue.
LEMMA AtEntryIs ==
  ASSUME InboxInv, AtEntry
  PROVE  /\ flushing.at \in 1..Len(entries) /\ This \in Entry /\ This.cmd \in Command
         /\ Len(entries) \in Nat /\ entries \in Seq(Entry)
         /\ flushing.at \in DOMAIN Waiting /\ Waiting[flushing.at] = This.cmd
<1>1. Len(entries) \in Nat /\ entries \in Seq(Entry) /\ flushing.at \in 1..Len(entries)
  BY LenProperties DEF InboxInv, QueueInv, AtEntry
<1>2. This \in Entry
  BY <1>1, ElementOfSeq DEF This
<1>3. This.cmd \in Command
  BY <1>2 DEF Entry
<1>4. DOMAIN entries = 1..Len(entries)
  BY <1>1, LenProperties
<1>5. QED
  BY <1>1, <1>2, <1>3, <1>4 DEF Waiting, This

\* flush_pending, applied: the inbox replays.
LEMMA FlushAppliedStep ==
  ASSUME InboxInv, FlushApplied
  PROVE  InboxStep
<1> DEFINE k == flushing.at
<1>1. /\ k \in 1..Len(entries) /\ This.cmd \in Command /\ Len(entries) \in Nat
      /\ entries \in Seq(Entry) /\ k \in DOMAIN Waiting /\ Waiting[k] = This.cmd
  BY AtEntryIs DEF FlushApplied
<1>2. /\ Applies(This.cmd) /\ entries' = RemoveAt(entries, k)
      /\ flushing' = [flushing EXCEPT !.progressed = TRUE]
      /\ log' = Append(log, This.cmd) /\ ~Stale(This.cmd)
  BY DEF FlushApplied, Applies
<1>3. entries' \in Seq(Entry) /\ Len(entries') = Len(entries) - 1
  BY <1>1, <1>2, RemoveAtSeq
<1>4. QueueInv'
  <2>1. flushing' \in [on : BOOLEAN, at : Nat \ {0}, progressed : BOOLEAN]
    BY <1>2 DEF InboxInv, QueueInv
  <2>2. Len(entries') <= QueueCapacity
    BY <1>1, <1>3 DEF InboxInv, QueueInv
  <2>3. QED
    BY <1>3, <2>1, <2>2 DEF QueueInv
<1>5. Watermark'
  BY <1>1, <1>2, AppliesWatermark DEF InboxInv
<1>6. Inbox!Fresh(This.cmd)
  BY <1>1, <1>2, FreshCommand DEF InboxInv
<1>7. Waiting' = RemoveAt(Waiting, k)
  BY <1>1, <1>2, CommandsOfRemoveAt, WaitingIs
<1>8. Inbox!Replay(k)
  BY <1>1, <1>2, <1>6, <1>7 DEF Inbox!Replay, Inbox!RemoveAt, RemoveAt
<1>9. QED
  BY <1>1, <1>4, <1>5, <1>8 DEF InboxStep, InboxInv, Inbox!InboxNext

\* dead_letter: the inbox gives up.
LEMMA DeadLetterStep ==
  ASSUME InboxInv, AtEntry, DeadLetter, UNCHANGED <<flushing, nonces, log>>
  PROVE  InboxStep
<1> DEFINE k == flushing.at
<1>1. /\ k \in 1..Len(entries) /\ Len(entries) \in Nat
      /\ entries \in Seq(Entry) /\ k \in DOMAIN Waiting
  BY AtEntryIs
<1>2. entries' = RemoveAt(entries, k)
  BY DEF DeadLetter
<1>3. entries' \in Seq(Entry) /\ Len(entries') = Len(entries) - 1
  BY <1>1, <1>2, RemoveAtSeq
<1>4. InboxInv'
  BY <1>1, <1>3, WatermarkUnmoved DEF InboxInv, QueueInv
<1>5. Waiting' = RemoveAt(Waiting, k)
  BY <1>1, <1>2, CommandsOfRemoveAt, WaitingIs
<1>6. Inbox!GiveUp(k)
  BY <1>5 DEF Inbox!GiveUp, Inbox!RemoveAt, RemoveAt
<1>7. QED
  BY <1>1, <1>4, <1>6 DEF InboxStep, Inbox!InboxNext

\* An entry that is held again: the inbox sees nothing.
LEMMA FlushHeldStep ==
  ASSUME InboxInv, FlushHeld
  PROVE  InboxStep
<1> DEFINE k == flushing.at
<1>1. AtEntry /\ UNCHANGED <<nonces, log>>
  BY DEF FlushHeld
<1>2. CASE This.holds + 1 >= MaxHolds
  BY <1>1, <1>2, DeadLetterStep DEF FlushHeld
<1>3. CASE ~(This.holds + 1 >= MaxHolds)
  <2> DEFINE e == [cmd |-> This.cmd, holds |-> This.holds + 1]
  <2>1. /\ k \in 1..Len(entries) /\ This \in Entry /\ Len(entries) \in Nat
        /\ entries \in Seq(Entry) /\ DOMAIN entries = 1..Len(entries)
    BY <1>1, AtEntryIs, LenProperties
  <2>2. /\ entries' = [entries EXCEPT ![k].holds = @ + 1]
        /\ flushing' = [flushing EXCEPT !.at = @ + 1]
    BY <1>3 DEF FlushHeld
  <2>3. e \in Entry /\ entries' = [entries EXCEPT ![k] = e]
    <3>1. e \in Entry /\ entries[k] \in Entry
      BY <2>1 DEF Entry, This
    <3>2. [entries[k] EXCEPT !.holds = @ + 1] = e
      BY <3>1 DEF Entry, This
    <3>3. entries' = [entries EXCEPT ![k] = [entries[k] EXCEPT !.holds = @ + 1]]
      BY <2>2
    <3>4. QED
      BY <3>1, <3>2, <3>3
  <2> HIDE DEF e
  <2>4. /\ entries' \in Seq(Entry) /\ Len(entries') = Len(entries)
        /\ \A j \in 1..Len(entries) : entries'[j] = IF j = k THEN e ELSE entries[j]
    BY <2>1, <2>3, ExceptSeq
  <2>5. InboxInv'
    <3>1. flushing' \in [on : BOOLEAN, at : Nat \ {0}, progressed : BOOLEAN]
      BY <2>2 DEF InboxInv, QueueInv
    <3>2. QueueInv'
      BY <2>4, <3>1 DEF InboxInv, QueueInv
    <3>3. QED
      BY <1>1, <3>2, WatermarkUnmoved DEF InboxInv
  <2>6. ASSUME NEW j \in 1..Len(entries) PROVE entries'[j].cmd = entries[j].cmd
    <3>1. e.cmd = entries[k].cmd
      BY DEF e, This
    <3>2. entries'[j] = IF j = k THEN e ELSE entries[j]
      BY <2>4
    <3>3. QED
      BY <3>1, <3>2
  <2>7. Waiting' = Waiting
    <3>1. DOMAIN entries' = 1..Len(entries)
      BY <2>1, <2>3
    <3>2. QED
      BY <2>1, <2>6, <3>1 DEF Waiting
  <2>8. QED
    BY <1>1, <2>5, <2>7 DEF InboxStep, Inbox!inboxVars
<1>4. QED
  BY <1>2, <1>3

\* The end of a hand: the inbox is handed over empty.
LEMMA ResetStep ==
  ASSUME InboxInv, ResetForNextHand
  PROVE  InboxStep
<1>1. entries' = <<>> /\ UNCHANGED <<nonces, log, flushing>>
  BY DEF ResetForNextHand
<1>2. entries' \in Seq(Entry) /\ Len(entries') = 0
  BY <1>1, EmptySeq
<1>3. InboxInv'
  BY <1>1, <1>2, WatermarkUnmoved DEF InboxInv, QueueInv
<1>4. Waiting' = <<>>
  BY <1>1, <1>2, CommandsOfSeq, EmptySeq, WaitingIs
<1>5. QED
  BY <1>1, <1>3, <1>4 DEF InboxStep, Inbox!InboxNext, Inbox!HandOver

\* Steps of the table, and refused commands.
LEMMA ElsewhereStep ==
  ASSUME InboxInv, UNCHANGED <<entries, nonces, log>>, QueueInv'
  PROVE  InboxStep
BY WaitingIs, WatermarkUnmoved DEF InboxStep, InboxInv, Inbox!inboxVars

\* Every step of the runtime is a step of the inbox or none.
LEMMA RuntimeStep ==
  ASSUME InboxInv, [Next]_vars
  PROVE  InboxStep
<1>1. ASSUME NEW a \in Accounts, Join(a) \/ Vacate(a) PROVE InboxStep
  BY <1>1, ElsewhereStep DEF Join, Vacate, queueVars, InboxInv, QueueInv
<1>2. ASSUME NEW c \in Command, SubmitApplied(c) PROVE InboxStep
  BY <1>2, SubmitAppliedStep
<1>3. ASSUME NEW c \in Command, SubmitRefused(c) PROVE InboxStep
  BY <1>3, ElsewhereStep DEF SubmitRefused, Deliver, InboxInv, QueueInv
<1>4. ASSUME NEW c \in Command, SubmitHeld(c) PROVE InboxStep
  BY <1>4, SubmitHeldStep
<1>5. CASE FlushBegins
  BY <1>5, ElsewhereStep DEF FlushBegins, queueVars, InboxInv, QueueInv
<1>6. CASE FlushApplied
  BY <1>6, FlushAppliedStep
<1>7. CASE FlushRejected
  BY <1>7, DeadLetterStep DEF FlushRejected
<1>8. CASE FlushHeld
  BY <1>8, FlushHeldStep
<1>9. CASE FlushPassEnds
  BY <1>9, ElsewhereStep DEF FlushPassEnds, NoFlush, queueVars, InboxInv, QueueInv
<1>10. CASE StartHand \/ AdvanceDeadline
  BY <1>10, ElsewhereStep DEF StartHand, AdvanceDeadline, queueVars, InboxInv, QueueInv
<1>11. CASE ResetForNextHand
  BY <1>11, ResetStep
<1>12. CASE UNCHANGED vars
  BY <1>12, ElsewhereStep DEF vars, queueVars, InboxInv, QueueInv
<1>13. QED
  BY <1>1, <1>2, <1>3, <1>4, <1>5, <1>6, <1>7, <1>8, <1>9, <1>10, <1>11, <1>12
  DEF Next, Flush

\* The runtime implements the inbox: whatever is delivered twice, late or out of
\* order, held, replayed, given up or cut off by the end of a hand, an account's
\* commands are applied in nonce order and at most once, and the queue never
\* holds more than its capacity.
THEOREM RuntimeImplementsInbox == Spec => ImplementsInbox
<1>1. Init => InboxInv /\ Inbox!InboxInit
  <2> SUFFICES ASSUME Init PROVE InboxInv /\ Inbox!InboxInit
    OBVIOUS
  <2>1. /\ entries = <<>> /\ log = <<>> /\ flushing = NoFlush
        /\ nonces = [a \in Accounts |-> 0]
    BY DEF Init
  <2>2. /\ entries \in Seq(Entry) /\ Len(entries) = 0
        /\ log \in Seq(Command) /\ Len(log) = 0
    BY <2>1, EmptySeq
  <2>3. InboxInv
    BY <2>1, <2>2 DEF InboxInv, QueueInv, Watermark, NoFlush
  <2>4. Waiting = <<>>
    BY <2>1, <2>2, CommandsOfSeq, EmptySeq, WaitingIs
  <2>5. QED
    BY <2>1, <2>3, <2>4 DEF Inbox!InboxInit
<1>2. InboxInv /\ [Next]_vars => InboxInv' /\ [Inbox!InboxNext]_(Inbox!inboxVars)
  BY RuntimeStep DEF InboxStep
<1>3. QED
  BY <1>1, <1>2, PTL DEF Spec, ImplementsInbox, Inbox!InboxSpec

-----------------------------------------------------------------------------
(* Types.                                                                  *)

TableState == [phase : {"idle", "closed", "reveal"}, street : Streets, owing : SUBSET Accounts]
HeldEntry == [cmd : Command, holds : 0..MaxHolds - 1]

\* The parts of TypeOK, by who changes them.
SeatType ==
  /\ delivered \in 0..MaxDeliveries
  /\ key \in [Accounts -> 0..MaxKey]
  /\ keys \in [Accounts -> 0..MaxKey]
  /\ hand \in 0..MaxHand /\ clean \in BOOLEAN
EntriesType == entries \in Seq(HeldEntry) /\ Len(entries) <= QueueCapacity
DeadType == dead \in 0..MaxDead /\ deadDropped \in Nat
FlushingType == flushing \in [on : BOOLEAN, at : 1..QueueCapacity + 1, progressed : BOOLEAN]
AppliedType ==
  /\ table \in TableState
  /\ nonces \in [Accounts -> 0..MaxNonce]
  /\ log \in Seq(Command)

LEMMA TypeParts ==
  /\ TypeOK <=> SeatType /\ EntriesType /\ DeadType /\ FlushingType /\ AppliedType
  /\ TypeOK' <=> SeatType' /\ EntriesType' /\ DeadType' /\ FlushingType' /\ AppliedType'
BY DEF TypeOK, SeatType, EntriesType, DeadType, FlushingType, AppliedType, TableState, HeldEntry

\* There is a first street, and the street after one of them is a number.
LEMMA StreetsNumbered == 1 \in Streets /\ Streets \subseteq Nat \ {0}
<1>1. Streets = 1..Len(TokensOf) /\ Len(TokensOf) \in Nat
  BY LenProperties DEF Streets
<1>2. QED
  BY <1>1, StreetsAssumption

\* Whatever a hand goes on to after a street is a table.
LEMMA OnwardTable ==
  ASSUME NEW s \in Streets, NEW who \in SUBSET Accounts
  PROVE  Onward(s, who) \subseteq TableState
<1>1. Closed(s) \in TableState /\ Idle \in TableState
  BY StreetsNumbered DEF Closed, Idle, TableState
<1>2. s + 1 \in Streets => Window(s + 1, who) \in TableState
  BY DEF Window, TableState
<1>3. QED
  BY <1>1, <1>2 DEF Onward

LEMMA NormalTable ==
  ASSUME NEW t \in TableState, NEW who \in SUBSET Accounts
  PROVE  Normal(t, who) \subseteq TableState
BY OnwardTable DEF Normal, TableState

LEMMA OwingLess ==
  ASSUME NEW t \in TableState, NEW a
  PROVE  [t EXCEPT !.owing = @ \ {a}] \in TableState
BY DEF TableState

\* What dispatch makes of the table is a table.
LEMMA OutcomesTable ==
  ASSUME table \in TableState, NEW c \in Command
  PROVE  Outcomes(c) \subseteq TableState
<1>1. Seated \in SUBSET Accounts /\ table.street \in Streets
  BY DEF Seated, TableState
<1>2. Normal([table EXCEPT !.owing = @ \ {c.account}], Seated) \subseteq TableState
  BY <1>1, OwingLess, NormalTable
<1>3. Onward(table.street, Seated) \subseteq TableState
  BY <1>1, OnwardTable
<1>4. QED
  BY <1>2, <1>3 DEF Outcomes

LEMMA AppliesType ==
  ASSUME AppliedType, NEW c \in Command, Applies(c)
  PROVE  AppliedType'
<1>1. table' \in TableState
  BY OutcomesTable DEF Applies, AppliedType
<1>2. nonces' \in [Accounts -> 0..MaxNonce]
  BY DEF Applies, AppliedType, Command
<1>3. log' \in Seq(Command)
  BY AppendProperties DEF Applies, AppliedType
<1>4. QED
  BY <1>1, <1>2, <1>3 DEF AppliedType

\* The entry the flush looks at.
LEMMA ThisType ==
  ASSUME EntriesType, FlushingType, AtEntry
  PROVE  /\ flushing.at \in 1..Len(entries) /\ Len(entries) \in Nat
         /\ This \in HeldEntry /\ This.cmd \in Command
<1>1. Len(entries) \in Nat /\ flushing.at \in 1..Len(entries)
  BY LenProperties DEF EntriesType, FlushingType, AtEntry
<1>2. This \in HeldEntry
  BY <1>1, ElementOfSeq DEF This, EntriesType
<1>3. QED
  BY <1>1, <1>2 DEF HeldEntry

LEMMA DropEntryType ==
  ASSUME EntriesType, FlushingType, AtEntry, entries' = RemoveAt(entries, flushing.at)
  PROVE  EntriesType'
<1>1. flushing.at \in 1..Len(entries) /\ Len(entries) \in Nat
  BY ThisType
<1>2. entries' \in Seq(HeldEntry) /\ Len(entries') = Len(entries) - 1
  BY <1>1, RemoveAtSeq DEF EntriesType
<1>3. QED
  BY <1>1, <1>2 DEF EntriesType

LEMMA DeadLetterType ==
  ASSUME EntriesType, FlushingType, DeadType, AtEntry, DeadLetter
  PROVE  EntriesType' /\ DeadType'
<1>1. EntriesType'
  BY DropEntryType DEF DeadLetter
<1>2. DeadType'
  BY DEF DeadLetter, DeadType
<1>3. QED
  BY <1>1, <1>2

\* An entry that is held again is still below MAX_HOLDS.
LEMMA HeldAgainType ==
  ASSUME EntriesType, FlushingType, FlushHeld, ~(This.holds + 1 >= MaxHolds)
  PROVE  EntriesType' /\ FlushingType'
<1> DEFINE k == flushing.at
           e == [cmd |-> This.cmd, holds |-> This.holds + 1]
<1>0. MaxHolds \in Nat \ {0} /\ QueueCapacity \in Nat \ {0}
  BY DEF RuntimeAssumption
<1>1. /\ k \in 1..Len(entries) /\ Len(entries) \in Nat
      /\ This \in HeldEntry /\ entries \in Seq(HeldEntry)
  BY ThisType DEF EntriesType, FlushHeld
<1>2. e \in HeldEntry
  <2>1. This.holds \in 0..MaxHolds - 1 /\ This.cmd \in Command
    BY <1>1 DEF HeldEntry
  <2>2. This.holds + 1 \in 0..MaxHolds - 1
    BY <1>0, <2>1
  <2>3. QED
    BY <2>1, <2>2 DEF HeldEntry
<1>3. entries' = [entries EXCEPT ![k] = e]
  <2>1. entries[k] \in [cmd : Command, holds : Nat]
    BY <1>0, <1>1 DEF HeldEntry, This
  <2>2. [entries[k] EXCEPT !.holds = @ + 1] = e
    BY <2>1 DEF This
  <2>3. entries' = [entries EXCEPT ![k] = [entries[k] EXCEPT !.holds = @ + 1]]
    BY DEF FlushHeld
  <2>4. QED
    BY <2>2, <2>3
<1>4. FlushingType'
  <2>1. k + 1 \in 1..QueueCapacity + 1
    BY <1>0, <1>1 DEF EntriesType
  <2>2. flushing' = [flushing EXCEPT !.at = @ + 1]
    BY DEF FlushHeld
  <2>3. QED
    BY <2>1, <2>2 DEF FlushingType
<1> HIDE DEF e
<1>5. entries' \in Seq(HeldEntry) /\ Len(entries') = Len(entries)
  BY <1>1, <1>2, <1>3, ExceptSeq
<1>6. QED
  BY <1>4, <1>5 DEF EntriesType

\* Every step of the runtime keeps the types.
LEMMA TypeStep ==
  ASSUME TypeOK, [Next]_vars
  PROVE  TypeOK'
<1>0. SeatType /\ EntriesType /\ DeadType /\ FlushingType /\ AppliedType
  BY TypeParts
<1>1. Seated \in SUBSET Accounts /\ table \in TableState /\ table.street \in Streets
  BY <1>0 DEF Seated, AppliedType, TableState
<1>2. ASSUME NEW a \in Accounts, Join(a) PROVE TypeOK'
  <2>1. SeatType'
    BY <1>0, <1>2 DEF SeatType, Join
  <2>2. QED
    BY <1>0, <1>2, <2>1, TypeParts
    DEF Join, queueVars, EntriesType, DeadType, FlushingType, AppliedType
<1>3. ASSUME NEW a \in Accounts, Vacate(a) PROVE TypeOK'
  <2>1. SeatType'
    BY <1>0, <1>3 DEF SeatType, Vacate
  <2>2. table' \in TableState
    <3>1. Seated \ {a} \in SUBSET Accounts
      BY <1>1
    <3>2. QED
      BY <1>1, <1>3, <3>1, OwingLess, NormalTable DEF Vacate
  <2>3. QED
    BY <1>0, <1>3, <2>1, <2>2, TypeParts
    DEF Vacate, queueVars, EntriesType, DeadType, FlushingType, AppliedType
<1>4. ASSUME NEW c \in Command, SubmitApplied(c) \/ SubmitRefused(c) \/ SubmitHeld(c)
      PROVE  TypeOK'
  <2>1. SeatType' /\ DeadType' /\ FlushingType'
    <3>1. Deliver(c)
      BY <1>4 DEF SubmitApplied, SubmitRefused, SubmitHeld
    <3>2. delivered' \in 0..MaxDeliveries
      BY <1>0, <3>1 DEF Deliver, SeatType, RuntimeAssumption
    <3>3. QED
      BY <1>0, <3>1, <3>2 DEF Deliver, SeatType, DeadType, FlushingType
  <2>2. AppliedType'
    BY <1>0, <1>4, AppliesType DEF SubmitApplied, SubmitRefused, SubmitHeld, AppliedType
  <2>3. EntriesType'
    <3>1. CASE entries' = entries
      BY <1>0, <3>1 DEF EntriesType
    <3>2. CASE SubmitHeld(c) /\ ~(Len(entries) >= QueueCapacity)
      <4> DEFINE e == [cmd |-> c, holds |-> 0]
      <4>1. e \in HeldEntry
        BY DEF HeldEntry, RuntimeAssumption
      <4>2. entries' = Append(entries, e) /\ entries \in Seq(HeldEntry) /\ Len(entries) \in Nat
        BY <1>0, <3>2, LenProperties DEF SubmitHeld, EntriesType
      <4> HIDE DEF e
      <4>3. entries' \in Seq(HeldEntry) /\ Len(entries') = Len(entries) + 1
        BY <4>1, <4>2, AppendProperties
      <4>4. QED
        BY <3>2, <4>2, <4>3 DEF EntriesType, RuntimeAssumption
    <3>3. QED
      BY <1>4, <3>1, <3>2 DEF SubmitApplied, SubmitRefused, SubmitHeld
  <2>4. QED
    BY <2>1, <2>2, <2>3, TypeParts
<1>5. CASE FlushBegins \/ FlushPassEnds
  <2>1. FlushingType'
    <3>1. 1 \in 1..QueueCapacity + 1
      BY DEF RuntimeAssumption
    <3>2. \A b \in BOOLEAN : [on |-> b, at |-> 1, progressed |-> FALSE]
                              \in [on : BOOLEAN, at : 1..QueueCapacity + 1, progressed : BOOLEAN]
      BY <3>1
    <3>3. \E b \in BOOLEAN : flushing' = [on |-> b, at |-> 1, progressed |-> FALSE]
      BY <1>5, Zenon DEF FlushBegins, FlushPassEnds, NoFlush
    <3>4. QED
      BY <3>2, <3>3, Zenon DEF FlushingType
  <2>2. QED
    BY <1>0, <1>5, <2>1, TypeParts DEF FlushBegins, FlushPassEnds, tableVars, queueVars,
       SeatType, EntriesType, DeadType, AppliedType
<1>6. CASE FlushApplied
  <2>1. This.cmd \in Command
    BY <1>0, <1>6, ThisType DEF FlushApplied
  <2>2. AppliedType'
    BY <1>0, <1>6, <2>1, AppliesType DEF FlushApplied
  <2>3. EntriesType'
    BY <1>0, <1>6, DropEntryType DEF FlushApplied
  <2>4. SeatType' /\ DeadType' /\ FlushingType'
    BY <1>0, <1>6 DEF FlushApplied, SeatType, DeadType, FlushingType
  <2>5. QED
    BY <2>2, <2>3, <2>4, TypeParts
<1>7. CASE AtEntry /\ DeadLetter /\ UNCHANGED <<delivered, tableVars, nonces, flushing, log>>
  <2>1. EntriesType' /\ DeadType'
    BY <1>0, <1>7, DeadLetterType
  <2>2. QED
    BY <1>0, <1>7, <2>1, TypeParts DEF tableVars, SeatType, FlushingType, AppliedType
<1>8. CASE FlushHeld /\ ~(This.holds + 1 >= MaxHolds)
  <2>1. EntriesType' /\ FlushingType'
    BY <1>0, <1>8, HeldAgainType
  <2>2. UNCHANGED <<delivered, tableVars, nonces, log, dead, deadDropped>>
    BY <1>8 DEF FlushHeld
  <2>3. QED
    BY <1>0, <2>1, <2>2, TypeParts DEF tableVars, SeatType, DeadType, AppliedType
<1>9. CASE Flush
  BY <1>5, <1>6, <1>7, <1>8, <1>9 DEF Flush, FlushRejected, FlushHeld
<1>10. CASE StartHand \/ AdvanceDeadline
  <2>1. table' \in TableState
    <3>1. Closed(1) \in TableState /\ Window(1, Seated) \in TableState
      BY <1>1, StreetsNumbered DEF Closed, Window, TableState
    <3>2. Onward(table.street, Seated) \subseteq TableState
      BY <1>1, OnwardTable
    <3>3. QED
      BY <1>10, <3>1, <3>2 DEF StartHand, AdvanceDeadline
  <2>2. SeatType'
    <3>1. hand' \in 0..MaxHand
      BY <1>0, <1>10 DEF StartHand, AdvanceDeadline, SeatType, RuntimeAssumption
    <3>2. clean' \in BOOLEAN
      BY <1>0, <1>10, Zenon DEF StartHand, AdvanceDeadline, SeatType
    <3>3. QED
      BY <1>0, <1>10, <3>1, <3>2 DEF StartHand, AdvanceDeadline, SeatType
  <2>3. QED
    BY <1>0, <1>10, <2>1, <2>2, TypeParts DEF StartHand, AdvanceDeadline, queueVars,
       EntriesType, DeadType, FlushingType, AppliedType
<1>11. CASE ResetForNextHand
  <2>1. entries' \in Seq(HeldEntry) /\ Len(entries') = 0
    BY <1>11, EmptySeq DEF ResetForNextHand
  <2>2. EntriesType'
    BY <2>1 DEF EntriesType, RuntimeAssumption
  <2>3. SeatType' /\ DeadType' /\ FlushingType' /\ AppliedType'
    BY <1>0, <1>11 DEF ResetForNextHand, SeatType, DeadType, FlushingType, AppliedType,
       RuntimeAssumption
  <2>4. QED
    BY <2>2, <2>3, TypeParts
<1>12. CASE UNCHANGED vars
  BY <1>0, <1>12, TypeParts DEF vars, tableVars, queueVars, SeatType, EntriesType, DeadType,
     FlushingType, AppliedType
<1>13. QED
  BY <1>2, <1>3, <1>4, <1>5, <1>9, <1>10, <1>11, <1>12 DEF Next

\* The runtime keeps its types: in particular the queue stays within its capacity
\* (max_entries), an entry is held less than MAX_HOLDS times, and the dead letters
\* stay within MAX_DEAD, whatever players, network and host do.
THEOREM RuntimeTypeCorrect == Spec => []TypeOK
<1>1. Init => TypeOK
  <2> SUFFICES ASSUME Init PROVE TypeOK
    OBVIOUS
  <2>1. SeatType /\ DeadType /\ FlushingType
    BY DEF Init, NoFlush, SeatType, DeadType, FlushingType, RuntimeAssumption
  <2>2. entries \in Seq(HeldEntry) /\ Len(entries) = 0 /\ log \in Seq(Command)
    BY EmptySeq DEF Init
  <2>3. EntriesType
    BY <2>2 DEF EntriesType, RuntimeAssumption
  <2>4. table \in TableState /\ nonces \in [Accounts -> 0..MaxNonce]
    BY StreetsNumbered DEF Init, Idle, TableState, RuntimeAssumption
  <2>5. QED
    BY <2>1, <2>2, <2>3, <2>4, TypeParts DEF AppliedType
<1>2. TypeOK /\ [Next]_vars => TypeOK'
  BY TypeStep
<1>3. QED
  BY <1>1, <1>2, PTL DEF Spec
=============================================================================
