------------------------ MODULE AppchainBridgeProofs ------------------------
(***************************************************************************)
(* Proofs about the bridge between the vault's chain and the appchain, for *)
(* any deposits, payment limit, events and restarts.                       *)
(***************************************************************************)
EXTENDS AppchainBridge, FiniteSums, SequenceTheorems, TLAPS

\* What the loop has still to do: positions of events while it mints, queued
\* requests, each of them once, while it pays.
LoopInv ==
  /\ pc \in {"deposits", "confirm"} =>
       \A k \in 1..Len(todo) : todo[k] \in 1..Len(events)
  /\ pc \in {"pay", "mark"} =>
       /\ \A k \in 1..Len(todo) : todo[k] \in queued
       /\ \A j, k \in 1..Len(todo) : todo[j] = todo[k] => j = k

\* Only a request has been paid, never oftener than this process tried as long
\* as it is queued, and never oftener than the limit.
PaidInv ==
  /\ \A i \in Ids : paid[i] > 0 => i \in minted \ (live \cup burning)
  /\ \A i \in queued : paid[i] <= attempts[i]
  /\ \A i \in Ids : paid[i] <= MaxPayAttempts
  /\ acked \cap (queued \cup burning) = {}

\* The books of a process that has run a mock provider from the start: what was
\* deposited is in the reserve or paid out.
Backed == Range(events) \ Empty
Fresh == provider = "mock" /\ restarts = 0
BookInv ==
  /\ issued = Cardinality(minted)
  /\ Fresh => /\ minted \subseteq Range(events)
              /\ reserve + SumFunction(paid) = Cardinality(Backed)

\* What the reconciliation has read lies between the books of that moment and
\* the books of now.
AuditInv ==
  /\ audit \in [at : {"none", "reserve", "notes"}, reserve : Int, issued : Nat,
                seen : Nat \X Nat]
  /\ audit.at # "none" => audit.seen[1] <= issued
  /\ audit.at # "none" /\ Fresh =>
       /\ audit.seen[1] <= audit.reserve + audit.seen[2]
       /\ audit.reserve + audit.seen[2] <= Cardinality(Backed)
  /\ audit.at = "notes" => /\ audit.seen[1] <= audit.issued
                           /\ audit.issued <= issued

BridgeInv == TypeOK /\ LoopInv /\ PaidInv /\ BookInv /\ AuditInv

USE BridgeAssumption

-----------------------------------------------------------------------------
(* Sequences and sums.                                                     *)

\* A sequence that is not empty has a first element and a rest.
LEMMA HeadTail ==
  ASSUME NEW S, NEW s \in Seq(S), s # <<>>
  PROVE  /\ Len(s) \in Nat /\ Len(s) >= 1 /\ Head(s) = s[1] /\ Head(s) \in S
         /\ Tail(s) \in Seq(S) /\ Len(Tail(s)) = Len(s) - 1
         /\ \A k \in 1..Len(Tail(s)) : Tail(s)[k] = s[k + 1]
<1>1. Len(s) \in Nat /\ Len(s) >= 1
  BY LenProperties, EmptySeq
<1>2. Head(s) = s[1] /\ Head(s) \in S
  BY <1>1, HeadTailProperties, ElementOfSeq
<1>3. Tail(s) \in Seq(S) /\ Len(Tail(s)) = Len(s) - 1
  BY <1>1, HeadTailProperties
<1>4. \A k \in 1..Len(Tail(s)) : Tail(s)[k] = s[k + 1]
  BY <1>1, <1>3, HeadTailProperties
<1>5. QED
  BY <1>1, <1>2, <1>3, <1>4

\* The elements of a sequence after an element is appended.
LEMMA RangeAppend ==
  ASSUME NEW S, NEW s \in Seq(S), NEW e \in S
  PROVE  Range(Append(s, e)) = Range(s) \cup {e}
<1>1. Len(s) \in Nat /\ DOMAIN s = 1..Len(s)
  BY LenProperties
<1>2. /\ DOMAIN Append(s, e) = 1..Len(s) + 1 /\ Append(s, e)[Len(s) + 1] = e
      /\ \A k \in 1..Len(s) : Append(s, e)[k] = s[k]
  BY <1>1, AppendProperties, LenProperties
<1>3. QED
  BY <1>1, <1>2 DEF Range

LEMMA RangeSeq ==
  ASSUME NEW S, NEW s \in Seq(S)
  PROVE  Range(s) \subseteq S
<1>1. DOMAIN s = 1..Len(s) /\ \A k \in 1..Len(s) : s[k] \in S
  BY LenProperties, ElementOfSeq
<1>2. QED
  BY <1>1 DEF Range

\* The orders in which the members of a finite set can be taken.
LEMMA Enumeration ==
  ASSUME NEW S, IsFiniteSet(S), NEW s \in SetToSeqs(S)
  PROVE  /\ s \in Seq(S)
         /\ \A k \in 1..Len(s) : s[k] \in S
         /\ \A j, k \in 1..Len(s) : s[j] = s[k] => j = k
<1>1. Cardinality(S) \in Nat
  BY FS_CardinalityType
<1>2. /\ s \in [1..Cardinality(S) -> S]
      /\ \A j, k \in 1..Cardinality(S) : j # k => s[j] # s[k]
  BY DEF SetToSeqs
<1>3. s \in Seq(S) /\ Len(s) = Cardinality(S)
  BY <1>1, <1>2, SeqDef, LenProperties
<1>4. QED
  BY <1>2, <1>3

-----------------------------------------------------------------------------
(* Types.                                                                  *)

\* The parts of TypeOK, by who changes them.
ChainType ==
  /\ provider \in Providers
  /\ events \in Seq(Ids) /\ Len(events) <= MaxEvents
  /\ vault \subseteq Ids
  /\ paid \in [Ids -> Nat]
  /\ reserve \in Int
  /\ restarts \in 0..MaxRestarts
BookType ==
  /\ minted \subseteq Ids \ Empty
  /\ live \subseteq minted
  /\ issued \in Nat
  /\ burning \subseteq minted \ live
  /\ queued \subseteq minted \ (live \cup burning \cup marked)
  /\ marked \subseteq acked
  /\ paidTotal = Cardinality(marked)
  /\ acked \subseteq minted \ live
LoopType ==
  /\ pc \in {"idle", "deposits", "confirm", "pay", "mark"}
  /\ todo \in Seq(Positions \cup Ids)
  /\ pc \in {"confirm", "mark"} => todo # <<>>
  /\ cursor \in 1..MaxEvents + 1
  /\ attempts \in [Ids -> 0..MaxPayAttempts + 1]

LEMMA TypeParts ==
  /\ TypeOK <=> ChainType /\ BookType /\ LoopType
  /\ TypeOK' <=> ChainType' /\ BookType' /\ LoopType'
BY DEF TypeOK, ChainType, BookType, LoopType

\* The bounds are numbers.
LEMMA Bounds == MaxPayAttempts \in Nat /\ MaxEvents \in Nat /\ MaxRestarts \in Nat
BY DEF BridgeAssumption

\* What the loop does next is a position of an event or a queued request.
LEMMA TodoHead ==
  ASSUME TypeOK, LoopInv, todo # <<>>
  PROVE  /\ Len(todo) \in Nat /\ Len(todo) >= 1 /\ Head(todo) = todo[1]
         /\ Tail(todo) \in Seq(Positions \cup Ids) /\ Len(Tail(todo)) = Len(todo) - 1
         /\ \A k \in 1..Len(Tail(todo)) : Tail(todo)[k] = todo[k + 1]
         /\ pc \in {"deposits", "confirm"} =>
              Head(todo) \in 1..Len(events) /\ events[Head(todo)] \in Ids
         /\ pc \in {"pay", "mark"} => Head(todo) \in queued /\ Head(todo) \in Ids
<1>1. todo \in Seq(Positions \cup Ids) /\ events \in Seq(Ids) /\ queued \subseteq Ids
  BY DEF TypeOK
<1>2. /\ Len(todo) \in Nat /\ Len(todo) >= 1 /\ Head(todo) = todo[1]
      /\ Tail(todo) \in Seq(Positions \cup Ids) /\ Len(Tail(todo)) = Len(todo) - 1
      /\ \A k \in 1..Len(Tail(todo)) : Tail(todo)[k] = todo[k + 1]
  BY <1>1, HeadTail
<1>3. pc \in {"deposits", "confirm"} => Head(todo) \in 1..Len(events)
  BY <1>2 DEF LoopInv
<1>4. pc \in {"pay", "mark"} => Head(todo) \in queued
  BY <1>2 DEF LoopInv
<1>5. \A p \in 1..Len(events) : events[p] \in Ids
  BY <1>1, ElementOfSeq
<1>6. QED
  BY <1>1, <1>2, <1>3, <1>4, <1>5

LEMMA ChainTypeStep ==
  ASSUME BridgeInv, [Next]_vars
  PROVE  ChainType'
<1>0. ChainType /\ TypeOK /\ LoopInv
  BY TypeParts DEF BridgeInv
<1>1. ASSUME NEW i \in Ids, PushDeposit(i) PROVE ChainType'
  <2>1. /\ events \in Seq(Ids) /\ Len(events) \in Nat /\ Len(events) < MaxEvents
        /\ events' = Append(events, i)
    BY <1>0, <1>1, LenProperties DEF PushDeposit, ChainType
  <2>2. events' \in Seq(Ids) /\ Len(events') = Len(events) + 1
    BY <2>1, AppendProperties
  <2>3. Len(events') <= MaxEvents
    BY <2>1, <2>2, Bounds
  <2>4. reserve' \in Int /\ UNCHANGED <<provider, vault, paid, restarts>>
    BY <1>0, <1>1 DEF PushDeposit, histVars, ChainType
  <2>5. QED
    BY <1>0, <2>2, <2>3, <2>4 DEF ChainType
<1>2. ASSUME NEW i \in Ids, VaultDeposit(i) PROVE ChainType'
  BY <1>0, <1>2 DEF VaultDeposit, histVars, ChainType
<1>3. CASE PayWithdrawal
  <2>1. Head(todo) \in Ids
    BY <1>0, <1>3, TodoHead DEF PayWithdrawal
  <2>2. \/ UNCHANGED <<paid, reserve>>
        \/ paid' = [paid EXCEPT ![Head(todo)] = @ + 1] /\ reserve' = reserve - 1
    BY <1>3 DEF PayWithdrawal, Transfer
  <2>3. UNCHANGED <<provider, events, vault, restarts>>
    BY <1>3 DEF PayWithdrawal, histVars
  <2>4. paid' \in [Ids -> Nat] /\ reserve' \in Int
    BY <1>0, <2>1, <2>2 DEF ChainType
  <2>5. QED
    BY <1>0, <2>3, <2>4 DEF ChainType
<1>4. CASE Restart
  <2>1. events' \in Seq(Ids) /\ Len(events') = 0
    BY <1>4, EmptySeq DEF Restart
  <2>2. /\ restarts' \in 0..MaxRestarts /\ provider' \in Providers /\ reserve' = 0
        /\ UNCHANGED <<vault, paid>>
    BY <1>0, <1>4, Bounds DEF Restart, ChainType
  <2>3. QED
    BY <1>0, <2>1, <2>2, Bounds DEF ChainType
<1>5. CASE UNCHANGED <<providerVars, restarts>>
  BY <1>0, <1>5 DEF ChainType, providerVars
<1>6. QED
  BY <1>1, <1>2, <1>3, <1>4, <1>5 DEF Next, Round, BurnNote, EnqueueWithdrawal, PollDeposits,
     SkipEvent, MintDeposit, ConfirmDeposit, DepositRefused, ListWithdrawals, RoundEnds,
     SkipExhausted, MarkPaid, MarkPaidRefused, ReadReserve, ReadNotes, Reconcile, histVars, vars

LEMMA BookTypeStep ==
  ASSUME BridgeInv, [Next]_vars
  PROVE  BookType'
<1>0. BookType /\ TypeOK /\ LoopInv /\ PaidInv
  BY TypeParts DEF BridgeInv
<1>1. ASSUME NEW i \in Ids, BurnNote(i) PROVE BookType'
  BY <1>0, <1>1 DEF BurnNote, BookType, PaidInv, loopVars, histVars
<1>2. ASSUME NEW i \in Ids, EnqueueWithdrawal(i) PROVE BookType'
  BY <1>0, <1>2 DEF EnqueueWithdrawal, BookType, PaidInv, logVars, loopVars, histVars
<1>3. CASE MintDeposit
  <2>1. events[Head(todo)] \in Ids \ Empty
    BY <1>0, <1>3, TodoHead DEF MintDeposit, CanMint
  <2>2. events[Head(todo)] \notin minted
    BY <1>3 DEF MintDeposit, CanMint, AlreadyMinted
  <2>3. /\ minted' = minted \cup {events[Head(todo)]}
        /\ live' = live \cup {events[Head(todo)]}
        /\ issued' = issued + 1
        /\ UNCHANGED <<burning, queued, marked, acked, paidTotal>>
    BY <1>3 DEF MintDeposit, custodyVars, histVars
  <2> HIDE DEF PaidInv
  <2>4. QED
    BY <1>0, <2>1, <2>2, <2>3 DEF BookType
<1>4. CASE MarkPaid
  <2>1. todo # <<>>
    BY <1>0, <1>4 DEF MarkPaid, TypeOK
  <2>2. Head(todo) \in queued
    BY <1>0, <1>4, <2>1, TodoHead DEF MarkPaid
  <2>3. IsFiniteSet(marked)
    <3>1. marked \in SUBSET Ids
      BY <1>0 DEF BookType
    <3>2. QED
      BY <3>1, FS_Subset DEF BridgeAssumption
  <2>4. Cardinality(marked \cup {Head(todo)}) = Cardinality(marked) + 1
    BY <1>0, <2>2, <2>3, FS_AddElement DEF BookType
  <2>5. /\ marked' = marked \cup {Head(todo)} /\ queued' = queued \ {Head(todo)}
        /\ acked' = acked \cup {Head(todo)} /\ paidTotal' = paidTotal + 1
        /\ UNCHANGED <<minted, live, issued, burning>>
    BY <1>4 DEF MarkPaid, logVars
  <2>6. paidTotal' = Cardinality(marked')
    BY <1>0, <2>4, <2>5 DEF BookType
  <2>7. QED
    BY <1>0, <2>2, <2>5, <2>6 DEF BookType
<1>5. CASE Restart
  <2>1. /\ queued' = {} /\ marked' = {} /\ burning' = {} /\ paidTotal' = 0
        /\ UNCHANGED <<minted, live, issued, acked>>
    BY <1>5 DEF Restart, logVars
  <2>2. paidTotal' = Cardinality(marked')
    BY <2>1, FS_EmptySet
  <2>3. QED
    BY <1>0, <2>1, <2>2 DEF BookType
<1>6. CASE UNCHANGED <<logVars, custodyVars, paidTotal, acked>>
  BY <1>0, <1>6 DEF BookType, logVars, custodyVars
<1>7. QED
  BY <1>1, <1>2, <1>3, <1>4, <1>5, <1>6 DEF Next, Round, PushDeposit, VaultDeposit,
     PollDeposits, SkipEvent, ConfirmDeposit, DepositRefused, ListWithdrawals, RoundEnds,
     SkipExhausted, PayWithdrawal, MarkPaidRefused, ReadReserve, ReadNotes, Reconcile,
     loopVars, histVars, vars

\* The page the mock provider answers with: the positions from the cursor on.
LEMMA PollPage ==
  ASSUME TypeOK
  PROVE  /\ Poll \in Seq(Positions \cup Ids)
         /\ \A k \in 1..Len(Poll) : Poll[k] \in 1..Len(events)
<1>1. /\ Len(events) \in Nat /\ Len(events) <= MaxEvents /\ MaxEvents \in Nat
      /\ cursor \in Nat /\ cursor >= 1
  BY LenProperties, Bounds DEF TypeOK
<1> DEFINE n == Len(events) + 1 - cursor
           page == [k \in 1..n |-> cursor - 1 + k]
<1>2. \A k \in 1..n : cursor - 1 + k \in 1..Len(events) /\ cursor - 1 + k \in Positions
  BY <1>1 DEF Positions
<1>3. <<>> \in Seq(Positions \cup Ids) /\ Len(<<>>) = 0
  BY EmptySeq
<1>4. CASE n \in Nat
  <2>1. page \in [1..n -> Positions \cup Ids] /\ \A k \in 1..n : page[k] \in 1..Len(events)
    BY <1>2
  <2> HIDE DEF page
  <2>2. page \in Seq(Positions \cup Ids) /\ Len(page) = n
    BY <1>4, <2>1, SeqDef, LenProperties
  <2>3. Poll = page \/ Poll = <<>>
    BY DEF Poll, page
  <2>4. CASE Poll = page
    BY <2>1, <2>2, <2>4
  <2>5. CASE Poll = <<>>
    <3>1. Len(Poll) = 0 /\ Poll \in Seq(Positions \cup Ids)
      BY <1>3, <2>5
    <3>2. QED
      BY <3>1
  <2>6. QED
    BY <2>3, <2>4, <2>5
<1>5. CASE n \notin Nat
  <2>1. page \in [1..0 -> Positions \cup Ids]
    <3>1. 1..n = {} /\ 1..0 = {}
      BY <1>1, <1>5
    <3>2. QED
      BY <3>1
  <2> HIDE DEF page
  <2>2. page \in Seq(Positions \cup Ids) /\ Len(page) = 0
    BY <2>1, SeqDef, LenProperties
  <2>3. Poll = page \/ Poll = <<>>
    BY DEF Poll, page
  <2>4. Poll \in Seq(Positions \cup Ids) /\ Len(Poll) = 0
    BY <1>3, <2>2, <2>3
  <2>5. QED
    BY <2>4
<1>6. QED
  BY <1>4, <1>5

\* The rest of what the loop has to do keeps its shape.
LEMMA TodoTail ==
  ASSUME TypeOK, LoopInv, todo # <<>>
  PROVE  /\ pc \in {"deposits", "confirm"} =>
              \A k \in 1..Len(Tail(todo)) : Tail(todo)[k] \in 1..Len(events)
         /\ pc \in {"pay", "mark"} =>
              /\ \A k \in 1..Len(Tail(todo)) : Tail(todo)[k] \in queued \ {Head(todo)}
              /\ \A j, k \in 1..Len(Tail(todo)) : Tail(todo)[j] = Tail(todo)[k] => j = k
<1>1. /\ Len(todo) \in Nat /\ Head(todo) = todo[1] /\ Len(Tail(todo)) = Len(todo) - 1
      /\ \A k \in 1..Len(Tail(todo)) : Tail(todo)[k] = todo[k + 1]
  BY TodoHead
<1>2. ASSUME pc \in {"deposits", "confirm"}
      PROVE  \A k \in 1..Len(Tail(todo)) : Tail(todo)[k] \in 1..Len(events)
  <2>1. \A k \in 1..Len(todo) : todo[k] \in 1..Len(events)
    BY <1>2 DEF LoopInv
  <2>2. QED
    BY <1>1, <2>1
<1>3. ASSUME pc \in {"pay", "mark"}
      PROVE  /\ \A k \in 1..Len(Tail(todo)) : Tail(todo)[k] \in queued \ {Head(todo)}
             /\ \A j, k \in 1..Len(Tail(todo)) : Tail(todo)[j] = Tail(todo)[k] => j = k
  <2>1. /\ \A k \in 1..Len(todo) : todo[k] \in queued
        /\ \A j, k \in 1..Len(todo) : todo[j] = todo[k] => j = k
    BY <1>3 DEF LoopInv
  <2>2. \A k \in 1..Len(Tail(todo)) : k + 1 \in 1..Len(todo) /\ 1 \in 1..Len(todo) /\ k + 1 # 1
    BY <1>1
  <2>3. \A k \in 1..Len(Tail(todo)) : todo[k + 1] \in queued /\ todo[k + 1] # todo[1]
    BY <2>1, <2>2
  <2>4. ASSUME NEW j \in 1..Len(Tail(todo)), NEW k \in 1..Len(Tail(todo)),
               Tail(todo)[j] = Tail(todo)[k]
        PROVE  j = k
    <3>1. j + 1 = k + 1
      BY <1>1, <2>1, <2>2, <2>4
    <3>2. QED
      BY <1>1, <3>1
  <2>5. QED
    BY <1>1, <2>3, <2>4
<1>4. QED
  BY <1>2, <1>3

LEMMA LoopTypeStep ==
  ASSUME BridgeInv, [Next]_vars
  PROVE  LoopType'
<1>0. LoopType /\ ChainType /\ BookType /\ TypeOK /\ LoopInv
  BY TypeParts DEF BridgeInv
<1>1. CASE PollDeposits
  <2>1. pc' = "deposits" /\ todo' = Poll /\ UNCHANGED <<cursor, attempts>>
    BY <1>1 DEF PollDeposits
  <2>2. QED
    BY <1>0, <2>1, PollPage DEF LoopType
<1>2. CASE SkipEvent \/ MintDeposit \/ ConfirmDeposit \/ DepositRefused
  <2>1. pc \in {"deposits", "confirm"} /\ todo # <<>> /\ attempts' = attempts
    BY <1>0, <1>2 DEF SkipEvent, MintDeposit, ConfirmDeposit, DepositRefused, CanMint, LoopType
  <2>2. /\ Tail(todo) \in Seq(Positions \cup Ids) /\ <<>> \in Seq(Positions \cup Ids)
        /\ Head(todo) \in 1..Len(events) /\ Len(events) \in Nat
    BY <1>0, <2>1, TodoHead, EmptySeq, LenProperties DEF ChainType
  <2>3. Head(todo) + 1 \in 1..MaxEvents + 1
    BY <1>0, <2>2, Bounds DEF ChainType
  <2>4. /\ todo' \in {todo, Tail(todo), <<>>}
        /\ cursor' \in {cursor, Head(todo) + 1}
        /\ pc' \in {"deposits", "confirm"}
        /\ pc' = "confirm" => todo' = todo
    BY <1>2, <2>1 DEF SkipEvent, MintDeposit, ConfirmDeposit, DepositRefused, CanMint
  <2>5. QED
    BY <1>0, <2>1, <2>2, <2>3, <2>4 DEF LoopType
<1>3. CASE ListWithdrawals
  <2>1. queued \in SUBSET Ids /\ IsFiniteSet(queued)
    <3>1. queued \in SUBSET Ids
      BY <1>0 DEF BookType
    <3>2. QED
      BY <3>1, FS_Subset DEF BridgeAssumption
  <2>2. todo' \in SetToSeqs(queued) /\ pc' = "pay" /\ UNCHANGED <<cursor, attempts>>
    BY <1>3 DEF ListWithdrawals
  <2>3. todo' \in Seq(queued)
    BY <2>1, <2>2, Enumeration
  <2>4. todo' \in Seq(Positions \cup Ids)
    BY <2>1, <2>3, SeqMonotonic
  <2>5. QED
    BY <1>0, <2>2, <2>4 DEF LoopType
<1>4. CASE SkipExhausted \/ PayWithdrawal
  <2>1. pc = "pay" /\ todo # <<>> /\ cursor' = cursor /\ CountAttempt(Head(todo))
    BY <1>4 DEF SkipExhausted, PayWithdrawal
  <2>2. Head(todo) \in Ids /\ Tail(todo) \in Seq(Positions \cup Ids)
    BY <1>0, <2>1, TodoHead
  <2>3. attempts' \in [Ids -> 0..MaxPayAttempts + 1]
    <3>1. \A n \in 0..MaxPayAttempts + 1 :
            (IF n > MaxPayAttempts THEN n ELSE n + 1) \in 0..MaxPayAttempts + 1
      BY Bounds
    <3>2. QED
      BY <1>0, <2>1, <2>2, <3>1 DEF CountAttempt, LoopType
  <2>4. /\ todo' \in {todo, Tail(todo)}
        /\ pc' \in {"pay", "mark"} /\ (pc' = "mark" => todo' = todo)
    BY <1>4, <2>1 DEF SkipExhausted, PayWithdrawal
  <2>5. QED
    BY <1>0, <2>1, <2>2, <2>3, <2>4 DEF LoopType
<1>5. CASE MarkPaid \/ MarkPaidRefused
  <2>1. pc = "mark" /\ pc' = "pay" /\ todo' = Tail(todo) /\ UNCHANGED <<cursor, attempts>>
    BY <1>5 DEF MarkPaid, MarkPaidRefused
  <2>2. Tail(todo) \in Seq(Positions \cup Ids)
    BY <1>0, <2>1, TodoHead DEF LoopType
  <2>3. QED
    BY <1>0, <2>1, <2>2 DEF LoopType
<1>6. CASE RoundEnds
  BY <1>0, <1>6 DEF RoundEnds, LoopType
<1>7. CASE Restart
  <2>1. /\ pc' = "idle" /\ todo' = <<>> /\ cursor' = 1
        /\ attempts' = [i \in Ids |-> 0]
    BY <1>7 DEF Restart
  <2>2. <<>> \in Seq(Positions \cup Ids)
    BY EmptySeq
  <2>3. 1 \in 1..MaxEvents + 1 /\ attempts' \in [Ids -> 0..MaxPayAttempts + 1]
    BY <2>1, Bounds
  <2>4. QED
    BY <2>1, <2>2, <2>3 DEF LoopType
<1>8. CASE UNCHANGED loopVars
  BY <1>0, <1>8 DEF LoopType, loopVars
<1>9. QED
  BY <1>1, <1>2, <1>3, <1>4, <1>5, <1>6, <1>7, <1>8 DEF Next, Round, PushDeposit,
     VaultDeposit, BurnNote, EnqueueWithdrawal, ReadReserve, ReadNotes, Reconcile, vars

-----------------------------------------------------------------------------
(* The loop, and what it pays.                                             *)

LEMMA LoopInvStep ==
  ASSUME BridgeInv, [Next]_vars
  PROVE  LoopInv'
<1>0. TypeOK /\ LoopInv
  BY DEF BridgeInv
<1>1. ASSUME NEW i \in Ids, PushDeposit(i) PROVE LoopInv'
  <2>1. /\ events \in Seq(Ids) /\ Len(events) \in Nat /\ events' = Append(events, i)
        /\ UNCHANGED <<pc, todo, queued>>
    BY <1>0, <1>1, LenProperties DEF PushDeposit, TypeOK, loopVars, custodyVars
  <2>2. Len(events') = Len(events) + 1
    BY <2>1, AppendProperties
  <2>3. \A p \in 1..Len(events) : p \in 1..Len(events')
    BY <2>1, <2>2
  <2>4. QED
    BY <1>0, <2>1, <2>3 DEF LoopInv
<1>2. ASSUME NEW i \in Ids, EnqueueWithdrawal(i) PROVE LoopInv'
  <2>1. queued \subseteq queued' /\ UNCHANGED <<pc, todo, events>>
    BY <1>2 DEF EnqueueWithdrawal, loopVars, providerVars
  <2>2. QED
    BY <1>0, <2>1 DEF LoopInv
<1>3. CASE PollDeposits
  <2>1. pc' = "deposits" /\ todo' = Poll /\ events' = events
    BY <1>3 DEF PollDeposits, providerVars
  <2>2. QED
    BY <1>0, <2>1, PollPage DEF LoopInv
<1>4. CASE MintDeposit
  BY <1>0, <1>4 DEF MintDeposit, CanMint, LoopInv, custodyVars, providerVars
<1>5. CASE SkipEvent \/ ConfirmDeposit
  <2>1. /\ pc \in {"deposits", "confirm"} /\ todo # <<>>
        /\ pc' = "deposits" /\ todo' = Tail(todo) /\ events' = events
    BY <1>0, <1>5 DEF SkipEvent, ConfirmDeposit, providerVars, TypeOK
  <2>2. QED
    BY <1>0, <2>1, TodoTail DEF LoopInv
<1>6. CASE DepositRefused \/ Restart
  <2>1. pc' \in {"deposits", "idle"} /\ todo' = <<>>
    BY <1>6 DEF DepositRefused, Restart
  <2>2. Len(todo') = 0
    BY <2>1, EmptySeq
  <2>3. QED
    BY <2>1, <2>2 DEF LoopInv
<1>7. CASE ListWithdrawals
  <2>1. queued \in SUBSET Ids /\ IsFiniteSet(queued)
    <3>1. queued \in SUBSET Ids
      BY <1>0 DEF TypeOK
    <3>2. QED
      BY <3>1, FS_Subset DEF BridgeAssumption
  <2>2. todo' \in SetToSeqs(queued) /\ pc' = "pay" /\ queued' = queued
    BY <1>7 DEF ListWithdrawals, custodyVars
  <2>3. QED
    BY <2>1, <2>2, Enumeration DEF LoopInv
<1>8. CASE SkipExhausted \/ PayWithdrawal \/ MarkPaidRefused
  <2>1. /\ pc \in {"pay", "mark"} /\ todo # <<>> /\ pc' \in {"pay", "mark"}
        /\ todo' \in {todo, Tail(todo)} /\ queued' = queued
    BY <1>0, <1>8 DEF SkipExhausted, PayWithdrawal, MarkPaidRefused, custodyVars, TypeOK
  <2>2. QED
    BY <1>0, <2>1, TodoTail DEF LoopInv
<1>9. CASE MarkPaid
  <2>1. /\ pc = "mark" /\ todo # <<>> /\ pc' = "pay"
        /\ todo' = Tail(todo) /\ queued' = queued \ {Head(todo)}
    BY <1>0, <1>9 DEF MarkPaid, TypeOK
  <2>2. QED
    BY <1>0, <2>1, TodoTail DEF LoopInv
<1>10. CASE RoundEnds
  BY <1>10 DEF RoundEnds, LoopInv
<1>11. CASE UNCHANGED <<pc, todo, events, queued>>
  BY <1>0, <1>11 DEF LoopInv
<1>12. QED
  BY <1>1, <1>2, <1>3, <1>4, <1>5, <1>6, <1>7, <1>8, <1>9, <1>10, <1>11 DEF Next, Round,
     VaultDeposit, BurnNote, ReadReserve, ReadNotes, Reconcile, vars, loopVars, custodyVars,
     providerVars

\* What a payment does: the next request of the round, once more and counted.
LEMMA PayWithdrawalIs ==
  ASSUME BridgeInv, PayWithdrawal
  PROVE  \E i \in queued :
           /\ i \in Ids /\ attempts[i] + 1 <= MaxPayAttempts
           /\ attempts'[i] = attempts[i] + 1
           /\ \A j \in Ids \ {i} : attempts'[j] = attempts[j] /\ paid'[j] = paid[j]
           /\ paid'[i] = paid[i] \/ paid'[i] = paid[i] + 1
<1>1. TypeOK /\ LoopInv /\ pc = "pay" /\ todo # <<>>
  BY DEF BridgeInv, PayWithdrawal
<1>2. Head(todo) \in queued /\ Head(todo) \in Ids
  BY <1>1, TodoHead
<1> DEFINE i == Head(todo)
<1>3. /\ ~(attempts[i] + 1 > MaxPayAttempts)
      /\ attempts' = [attempts EXCEPT ![i] = IF @ > MaxPayAttempts THEN @ ELSE @ + 1]
      /\ \/ paid' = paid
         \/ paid' = [paid EXCEPT ![i] = @ + 1]
  BY DEF PayWithdrawal, Exhausted, CountAttempt, Transfer
<1>4. attempts[i] \in Nat /\ MaxPayAttempts \in Nat /\ DOMAIN attempts = Ids /\ DOMAIN paid = Ids
  BY <1>1, <1>2, Bounds DEF TypeOK
<1> HIDE DEF i
<1>5. i \in queued /\ i \in Ids
  BY <1>2 DEF i
<1>6. attempts[i] + 1 <= MaxPayAttempts /\ ~(attempts[i] > MaxPayAttempts)
  BY <1>3, <1>4
<1>7. attempts'[i] = attempts[i] + 1 /\ \A j \in Ids \ {i} : attempts'[j] = attempts[j]
  BY <1>3, <1>4, <1>5, <1>6
<1>8. /\ \A j \in Ids \ {i} : paid'[j] = paid[j]
      /\ paid'[i] = paid[i] \/ paid'[i] = paid[i] + 1
  BY <1>3, <1>4, <1>5
<1>9. QED
  BY <1>5, <1>6, <1>7, <1>8

LEMMA PaidInvStep ==
  ASSUME BridgeInv, [Next]_vars
  PROVE  PaidInv'
<1>0. /\ TypeOK /\ LoopInv /\ PaidInv /\ paid \in [Ids -> Nat]
      /\ attempts \in [Ids -> 0..MaxPayAttempts + 1] /\ MaxPayAttempts \in Nat
      /\ queued \subseteq minted \ (live \cup burning \cup marked) /\ minted \subseteq Ids
      /\ live \subseteq minted /\ acked \subseteq minted \ live /\ burning \subseteq minted \ live
  BY Bounds DEF BridgeInv, TypeOK
<1>1. ASSUME NEW i \in Ids, BurnNote(i) PROVE PaidInv'
  <2>1. /\ i \in live /\ live' = live \ {i} /\ burning' = burning \cup {i}
        /\ UNCHANGED <<minted, queued, paid, attempts, acked>>
    BY <1>1 DEF BurnNote, loopVars, providerVars, histVars
  <2>2. i \notin acked
    BY <1>0, <2>1
  <2>3. QED
    BY <1>0, <2>1, <2>2 DEF PaidInv
<1>2. ASSUME NEW i \in Ids, EnqueueWithdrawal(i) PROVE PaidInv'
  <2>1. /\ i \in burning /\ burning' = burning \ {i} /\ queued' \subseteq queued \cup {i}
        /\ UNCHANGED <<minted, live, paid, attempts, acked>>
    BY <1>2 DEF EnqueueWithdrawal, logVars, loopVars, providerVars, histVars
  <2>2. ~(paid[i] > 0) /\ i \notin acked
    BY <2>1, <1>0 DEF PaidInv
  <2>3. paid[i] <= attempts[i]
    BY <1>0, <2>2
  <2>4. QED
    BY <1>0, <2>1, <2>2, <2>3 DEF PaidInv
<1>3. CASE MintDeposit
  <2> DEFINE i == events[Head(todo)]
  <2>1. /\ i \notin minted /\ minted' = minted \cup {i} /\ live' = live \cup {i}
        /\ UNCHANGED <<burning, queued, paid, attempts, acked>>
    BY <1>3 DEF MintDeposit, CanMint, AlreadyMinted, custodyVars, providerVars, histVars
  <2> HIDE DEF i
  <2>2. QED
    BY <1>0, <2>1 DEF PaidInv
<1>4. CASE SkipExhausted
  <2>1. Head(todo) \in Ids
    BY <1>0, <1>4, TodoHead DEF SkipExhausted
  <2>2. \A j \in Ids : attempts[j] <= attempts'[j]
    BY <1>0, <1>4, <2>1 DEF SkipExhausted, CountAttempt
  <2>3. UNCHANGED <<minted, live, burning, queued, paid, acked>>
    BY <1>4 DEF SkipExhausted, logVars, custodyVars, providerVars, histVars
  <2>4. \A j \in Ids : attempts'[j] \in Nat
    BY LoopTypeStep, Bounds DEF LoopType
  <2>5. ASSUME NEW j \in queued PROVE paid[j] <= attempts'[j]
    <3>1. j \in Ids /\ paid[j] \in Nat /\ attempts[j] \in Nat /\ paid[j] <= attempts[j]
      BY <1>0 DEF PaidInv
    <3>2. QED
      BY <2>2, <2>4, <3>1
  <2>6. QED
    BY <1>0, <2>3, <2>5 DEF PaidInv
<1>5. CASE PayWithdrawal
  <2>1. PICK i \in queued :
           /\ i \in Ids /\ attempts[i] + 1 <= MaxPayAttempts
           /\ attempts'[i] = attempts[i] + 1
           /\ \A j \in Ids \ {i} : attempts'[j] = attempts[j] /\ paid'[j] = paid[j]
           /\ paid'[i] = paid[i] \/ paid'[i] = paid[i] + 1
    BY <1>5, PayWithdrawalIs
  <2>2. UNCHANGED <<minted, live, burning, queued, acked>>
    BY <1>5 DEF PayWithdrawal, logVars, custodyVars, histVars
  <2>3. paid[i] <= attempts[i] /\ paid[i] \in Nat /\ attempts[i] \in Nat
    BY <1>0, <2>1 DEF PaidInv
  <2>4. paid'[i] <= attempts'[i] /\ paid'[i] <= MaxPayAttempts
    BY <1>0, <2>1, <2>3
  <2>5. i \in minted \ (live \cup burning)
    BY <1>0, <2>1
  <2>6. \A j \in Ids : paid'[j] > 0 => j \in minted \ (live \cup burning)
    BY <2>1, <2>5, <1>0 DEF PaidInv
  <2>7. \A j \in queued : paid'[j] <= attempts'[j]
    BY <1>0, <2>1, <2>4 DEF PaidInv
  <2>8. \A j \in Ids : paid'[j] <= MaxPayAttempts
    BY <1>0, <2>1, <2>4 DEF PaidInv
  <2>9. QED
    BY <1>0, <2>2, <2>6, <2>7, <2>8 DEF PaidInv
<1>6. CASE MarkPaid
  <2>1. Head(todo) \in queued
    BY <1>0, <1>6, TodoHead DEF MarkPaid, TypeOK
  <2>2. /\ queued' = queued \ {Head(todo)} /\ acked' = acked \cup {Head(todo)}
        /\ UNCHANGED <<minted, live, burning, paid, attempts>>
    BY <1>6 DEF MarkPaid, logVars, providerVars
  <2>3. QED
    BY <1>0, <2>1, <2>2 DEF PaidInv
<1>7. CASE Restart
  <2>1. queued' = {} /\ burning' = {} /\ UNCHANGED <<minted, live, paid, acked>>
    BY <1>7 DEF Restart, logVars
  <2>2. QED
    BY <1>0, <2>1 DEF PaidInv
<1>8. CASE UNCHANGED <<minted, live, burning, queued, paid, attempts, acked>>
  BY <1>0, <1>8 DEF PaidInv
<1>9. QED
  BY <1>1, <1>2, <1>3, <1>4, <1>5, <1>6, <1>7, <1>8 DEF Next, Round, PushDeposit,
     VaultDeposit, PollDeposits, SkipEvent, ConfirmDeposit, DepositRefused, ListWithdrawals,
     RoundEnds, MarkPaidRefused, ReadReserve, ReadNotes, Reconcile, vars, logVars, loopVars,
     custodyVars, providerVars, histVars

-----------------------------------------------------------------------------
(* The books and the report.                                               *)

\* What the mock provider was ever given is a finite set of deposits.
LEMMA BackedFinite ==
  ASSUME TypeOK
  PROVE  /\ Range(events) \subseteq Ids /\ Backed \subseteq Ids
         /\ IsFiniteSet(Backed) /\ Cardinality(Backed) \in Nat
         /\ IsFiniteSet(minted) /\ Cardinality(minted) \in Nat
<1>1. Range(events) \subseteq Ids
  BY RangeSeq DEF TypeOK
<1>2. Backed \in SUBSET Ids /\ minted \in SUBSET Ids
  BY <1>1 DEF Backed, TypeOK
<1>3. IsFiniteSet(Backed) /\ IsFiniteSet(minted)
  BY <1>2, FS_Subset DEF BridgeAssumption
<1>4. QED
  BY <1>1, <1>2, <1>3, FS_CardinalityType

\* The sum of the payments, and a payment.
LEMMA PaidSum ==
  ASSUME TypeOK
  PROVE  SumFunction(paid) \in Nat
BY SumFunctionType DEF TypeOK, BridgeAssumption

LEMMA TransferSum ==
  ASSUME TypeOK, NEW i \in Ids, Transfer(i)
  PROVE  SumFunction(paid') = SumFunction(paid) + 1
<1>1. paid \in [Ids -> Int] /\ paid[i] \in Nat
  BY DEF TypeOK
<1>2. /\ paid' \in [Ids -> Int] /\ paid'[i] = paid[i] + 1
      /\ \A j \in Ids \ {i} : paid'[j] = paid[j]
  BY <1>1 DEF Transfer, TypeOK
<1>3. SumFunction(paid') = SumFunction(paid) - paid[i] + paid'[i]
  BY <1>1, <1>2, SumFunctionUpdate DEF BridgeAssumption
<1>4. SumFunction(paid) \in Nat
  BY PaidSum
<1>5. QED
  BY <1>1, <1>2, <1>3, <1>4

LEMMA BookInvStep ==
  ASSUME BridgeInv, [Next]_vars
  PROVE  BookInv'
<1>0. TypeOK /\ LoopInv /\ BookInv /\ TypeOK' /\ issued \in Nat /\ reserve \in Int
  BY TypeParts, ChainTypeStep, BookTypeStep, LoopTypeStep DEF BridgeInv, TypeOK
<1>1. ASSUME NEW i \in Ids, PushDeposit(i) PROVE BookInv'
  <2>1. /\ provider = "mock" /\ events \in Seq(Ids) /\ events' = Append(events, i)
        /\ reserve' = IF i \in Range(events) \cup Empty \cup minted
                      THEN reserve ELSE reserve + 1
        /\ UNCHANGED <<minted, issued, paid, provider, restarts>>
    BY <1>0, <1>1 DEF PushDeposit, TypeOK, logVars, histVars
  <2>2. Range(events') = Range(events) \cup {i}
    BY <2>1, RangeAppend
  <2>3. IsFiniteSet(Backed) /\ Cardinality(Backed) \in Nat
    BY <1>0, BackedFinite
  <2>4. Cardinality(Backed \cup {i})
          = IF i \in Backed THEN Cardinality(Backed) ELSE Cardinality(Backed) + 1
    BY <2>3, FS_AddElement
  <2>5. Backed' = IF i \in Empty THEN Backed ELSE Backed \cup {i}
    BY <2>2 DEF Backed
  <2>6. ASSUME Fresh
        PROVE  /\ minted \subseteq Range(events')
               /\ reserve' + SumFunction(paid) = Cardinality(Backed')
    <3>1. /\ minted \subseteq Range(events)
          /\ reserve + SumFunction(paid) = Cardinality(Backed) /\ SumFunction(paid) \in Nat
      BY <1>0, <2>6, PaidSum DEF BookInv
    <3>2. CASE i \in Range(events) \cup Empty
      <4>1. Cardinality(Backed') = Cardinality(Backed) /\ reserve' = reserve
        BY <2>1, <2>4, <2>5, <3>2 DEF Backed
      <4>2. QED
        BY <2>2, <3>1, <4>1
    <3>3. CASE i \notin Range(events) \cup Empty
      <4>1. i \notin Backed /\ i \notin minted
        BY <3>1, <3>3 DEF Backed
      <4>2. Cardinality(Backed') = Cardinality(Backed) + 1 /\ reserve' = reserve + 1
        BY <2>1, <2>4, <2>5, <3>3, <4>1
      <4>3. QED
        BY <1>0, <2>2, <2>3, <3>1, <4>2
    <3>4. QED
      BY <3>2, <3>3
  <2>7. QED
    BY <1>0, <2>1, <2>6 DEF BookInv, Fresh
<1>2. CASE MintDeposit
  <2> DEFINE i == events[Head(todo)]
  <2>1. Head(todo) \in 1..Len(events) /\ events \in Seq(Ids)
    BY <1>0, <1>2, TodoHead DEF MintDeposit, CanMint, TypeOK
  <2>2. i \in Range(events)
    BY <2>1, LenProperties DEF Range
  <2>3. /\ i \notin minted /\ minted' = minted \cup {i} /\ issued' = issued + 1
        /\ UNCHANGED <<events, reserve, paid, provider, restarts>>
    BY <1>2 DEF MintDeposit, CanMint, AlreadyMinted, providerVars, histVars
  <2> HIDE DEF i
  <2>4. Cardinality(minted') = Cardinality(minted) + 1
    BY <1>0, <2>3, BackedFinite, FS_AddElement
  <2>5. issued' = Cardinality(minted')
    BY <1>0, <2>3, <2>4 DEF BookInv
  <2>6. QED
    BY <1>0, <2>2, <2>3, <2>5 DEF BookInv, Fresh, Backed
<1>3. CASE PayWithdrawal
  <2>1. UNCHANGED <<minted, issued, events, provider, restarts>>
    BY <1>3 DEF PayWithdrawal, logVars, histVars
  <2>2. reserve' + SumFunction(paid') = reserve + SumFunction(paid)
    <3>1. CASE UNCHANGED <<paid, reserve>>
      BY <3>1
    <3>2. CASE Transfer(Head(todo))
      <4>1. Head(todo) \in Ids
        BY <1>0, <1>3, TodoHead DEF PayWithdrawal
      <4>2. SumFunction(paid') = SumFunction(paid) + 1 /\ reserve' = reserve - 1
        BY <1>0, <3>2, <4>1, TransferSum DEF Transfer
      <4>3. SumFunction(paid) \in Nat
        BY <1>0, PaidSum
      <4>4. QED
        BY <1>0, <4>2, <4>3
    <3>3. QED
      BY <1>3, <3>1, <3>2 DEF PayWithdrawal
  <2>3. QED
    BY <1>0, <2>1, <2>2 DEF BookInv, Fresh, Backed
<1>4. CASE Restart
  <2>1. UNCHANGED <<minted, issued>> /\ restarts' = restarts + 1
    BY <1>4 DEF Restart, logVars
  <2>2. ~Fresh'
    <3>1. restarts \in Nat
      BY <1>0, Bounds DEF TypeOK
    <3>2. QED
      BY <2>1, <3>1 DEF Fresh
  <2>3. QED
    BY <1>0, <2>1, <2>2 DEF BookInv
<1>5. CASE UNCHANGED <<minted, issued, events, reserve, paid, provider, restarts>>
  BY <1>0, <1>5 DEF BookInv, Fresh, Backed
<1>6. ASSUME NEW i \in Ids, VaultDeposit(i) \/ BurnNote(i) \/ EnqueueWithdrawal(i)
      PROVE  BookInv'
  BY <1>5, <1>6 DEF VaultDeposit, BurnNote, EnqueueWithdrawal, logVars, providerVars, histVars
<1>7. QED
  BY <1>1, <1>2, <1>3, <1>4, <1>5, <1>6 DEF Next, Round, PollDeposits, SkipEvent,
     ConfirmDeposit, DepositRefused, ListWithdrawals, RoundEnds, SkipExhausted, MarkPaid,
     MarkPaidRefused, ReadReserve, ReadNotes, Reconcile, vars, logVars, providerVars, histVars

\* While a process lives, its books only grow.
LEMMA BooksGrow ==
  ASSUME BridgeInv, [Next]_vars, ~Restart
  PROVE  /\ issued <= issued' /\ issued' \in Nat
         /\ Cardinality(Backed) <= Cardinality(Backed')
         /\ UNCHANGED <<provider, restarts>>
<1>0. TypeOK /\ issued \in Nat /\ events \in Seq(Ids) /\ TypeOK'
  BY TypeParts, ChainTypeStep, BookTypeStep, LoopTypeStep DEF BridgeInv, TypeOK
<1>1. UNCHANGED <<provider, restarts>>
  BY DEF Next, Round, PushDeposit, VaultDeposit, BurnNote, EnqueueWithdrawal, PollDeposits,
     SkipEvent, MintDeposit, ConfirmDeposit, DepositRefused, ListWithdrawals, RoundEnds,
     SkipExhausted, PayWithdrawal, MarkPaid, MarkPaidRefused, ReadReserve, ReadNotes,
     Reconcile, vars, providerVars, histVars
<1>2. issued' = issued \/ issued' = issued + 1
  BY DEF Next, Round, PushDeposit, VaultDeposit, BurnNote, EnqueueWithdrawal, PollDeposits,
     SkipEvent, MintDeposit, ConfirmDeposit, DepositRefused, ListWithdrawals, RoundEnds,
     SkipExhausted, PayWithdrawal, MarkPaid, MarkPaidRefused, ReadReserve, ReadNotes,
     Reconcile, vars, logVars
<1>3. events' = events \/ \E i \in Ids : events' = Append(events, i)
  BY DEF Next, Round, PushDeposit, VaultDeposit, BurnNote, EnqueueWithdrawal, PollDeposits,
     SkipEvent, MintDeposit, ConfirmDeposit, DepositRefused, ListWithdrawals, RoundEnds,
     SkipExhausted, PayWithdrawal, MarkPaid, MarkPaidRefused, ReadReserve, ReadNotes,
     Reconcile, vars, providerVars
<1>4. Range(events) \subseteq Range(events') /\ Range(events') \subseteq Ids
  <2>1. Range(events') \subseteq Ids
    BY <1>0, RangeSeq DEF TypeOK
  <2>2. CASE events' = events
    BY <2>1, <2>2
  <2>3. CASE \E i \in Ids : events' = Append(events, i)
    BY <1>0, <2>1, <2>3, RangeAppend
  <2>4. QED
    BY <1>3, <2>2, <2>3
<1>5. Cardinality(Backed) <= Cardinality(Backed')
  <2>1. Backed \in SUBSET Backed' /\ Backed' \in SUBSET Ids
    BY <1>4 DEF Backed
  <2>2. IsFiniteSet(Backed')
    BY <2>1, FS_Subset DEF BridgeAssumption
  <2>3. QED
    BY <2>1, <2>2, FS_Subset
<1>6. QED
  BY <1>0, <1>1, <1>2, <1>5

\* What reconcile_once reads first.
LEMMA ReadReserveIs ==
  ASSUME BridgeInv, ReadReserve
  PROVE  AuditInv'
<1>0. TypeOK /\ BookInv /\ issued \in Nat /\ reserve \in Int /\ SumFunction(paid) \in Nat
  BY PaidSum DEF BridgeInv, TypeOK
<1> DEFINE n == SumFunction(paid)
<1> HIDE DEF n
<1>1. audit' = [at |-> "reserve", reserve |-> reserve, issued |-> 0, seen |-> <<issued, n>>]
  BY DEF ReadReserve, Seen, n
<1>2. n \in Nat
  BY <1>0 DEF n
<1>3. audit' \in [at : {"none", "reserve", "notes"}, reserve : Int, issued : Nat,
                  seen : Nat \X Nat]
  BY <1>0, <1>1, <1>2
<1>4. /\ audit'.at = "reserve" /\ audit'.reserve = reserve
      /\ audit'.seen[1] = issued /\ audit'.seen[2] = n
  BY <1>1
<1>5. /\ UNCHANGED <<provider, restarts, issued, minted, events>>
  BY DEF ReadReserve, providerVars, histVars, logVars
<1>6. Fresh => issued <= reserve + n /\ reserve + n <= Cardinality(Backed)
  <2> SUFFICES ASSUME Fresh PROVE issued <= reserve + n /\ reserve + n <= Cardinality(Backed)
    OBVIOUS
  <2>1. minted \in SUBSET Backed
    BY <1>0 DEF BookInv, Backed, TypeOK
  <2>2. Cardinality(minted) <= Cardinality(Backed) /\ Cardinality(Backed) \in Nat
    BY <1>0, <2>1, BackedFinite, FS_Subset
  <2>3. reserve + n = Cardinality(Backed) /\ issued = Cardinality(minted)
    BY <1>0 DEF BookInv, n
  <2>4. QED
    BY <2>2, <2>3
<1>7. Backed' = Backed /\ (Fresh' <=> Fresh)
  BY <1>5 DEF Backed, Fresh
<1>8. QED
  BY <1>0, <1>3, <1>4, <1>5, <1>6, <1>7 DEF AuditInv

LEMMA AuditInvStep ==
  ASSUME BridgeInv, [Next]_vars
  PROVE  AuditInv'
<1>0. /\ AuditInv /\ TypeOK /\ issued \in Nat
      /\ audit \in [at : {"none", "reserve", "notes"}, reserve : Int, issued : Nat,
                    seen : Nat \X Nat]
  BY DEF BridgeInv, AuditInv, TypeOK
<1>1. CASE ReadReserve
  BY <1>1, ReadReserveIs
<1>2. CASE Reconcile \/ Restart
  <2>1. audit' = [at |-> "none", reserve |-> 0, issued |-> 0, seen |-> <<0, 0>>]
    BY <1>2 DEF Reconcile, Restart, NoAudit
  <2>2. audit' \in [at : {"none", "reserve", "notes"}, reserve : Int, issued : Nat,
                    seen : Nat \X Nat]
    BY <2>1
  <2>3. audit'.at = "none"
    BY <2>1
  <2>4. QED
    BY <2>2, <2>3 DEF AuditInv
<1>3. CASE ~Restart /\ (ReadNotes \/ audit' = audit)
  <2>1. /\ issued <= issued' /\ issued' \in Nat
        /\ Cardinality(Backed) <= Cardinality(Backed')
        /\ UNCHANGED <<provider, restarts>>
    BY <1>3, BooksGrow
  <2>2. /\ Cardinality(Backed) \in Nat /\ Cardinality(Backed') \in Nat
    <3>1. TypeOK'
      BY TypeParts, ChainTypeStep, BookTypeStep, LoopTypeStep
    <3>2. Range(events') \subseteq Ids
      BY <3>1, RangeSeq DEF TypeOK
    <3>3. Backed' \in SUBSET Ids
      BY <3>2 DEF Backed
    <3>4. QED
      BY <1>0, <3>3, BackedFinite, FS_Subset, FS_CardinalityType DEF BridgeAssumption
  <2>3. /\ audit' \in [at : {"none", "reserve", "notes"}, reserve : Int, issued : Nat,
                       seen : Nat \X Nat]
        /\ audit'.reserve = audit.reserve /\ audit'.seen = audit.seen
        /\ \/ audit'.at = audit.at /\ audit'.issued = audit.issued
           \/ audit.at = "reserve" /\ audit'.at = "notes" /\ audit'.issued = issued
    <3>1. CASE audit' = audit
      BY <1>0, <3>1
    <3>2. CASE ReadNotes
      <4>1. audit.at = "reserve" /\ audit' = [audit EXCEPT !.at = "notes", !.issued = issued]
        BY <3>2 DEF ReadNotes
      <4>2. QED
        BY <1>0, <4>1
    <3>3. QED
      BY <1>3, <3>1, <3>2
  <2>4. /\ audit.reserve \in Int /\ audit.seen[1] \in Nat /\ audit.seen[2] \in Nat
        /\ audit.issued \in Nat
    BY <1>0
  <2>5. audit.at # "none" => audit.seen[1] <= issued
    BY <1>0 DEF AuditInv
  <2>6. QED
    BY <1>0, <2>1, <2>2, <2>3, <2>4, <2>5 DEF AuditInv, Fresh
<1>4. QED
  <2>1. Restart \/ ReadReserve \/ ReadNotes \/ Reconcile \/ audit' = audit
    BY DEF Next, Round, PushDeposit, VaultDeposit, BurnNote, EnqueueWithdrawal, PollDeposits,
       SkipEvent, MintDeposit, ConfirmDeposit, DepositRefused, ListWithdrawals, RoundEnds,
       SkipExhausted, PayWithdrawal, MarkPaid, MarkPaidRefused, vars
  <2>2. QED
    BY <1>1, <1>2, <1>3, <2>1

-----------------------------------------------------------------------------
(* The invariant, and what follows from it.                                *)

LEMMA BridgeInit ==
  ASSUME Init
  PROVE  BridgeInv
<1>1. MaxPayAttempts \in Nat /\ MaxEvents \in Nat /\ MaxRestarts \in Nat
  BY Bounds
<1>2. events \in Seq(Ids) /\ Len(events) = 0 /\ todo \in Seq(Positions \cup Ids)
      /\ Len(todo) = 0
  BY EmptySeq DEF Init
<1>3. SumFunction(paid) = 0
  BY SumFunctionZero DEF Init, BridgeAssumption
<1>4. Cardinality({}) = 0
  BY FS_EmptySet
<1>5. Range(events) = {}
  BY <1>2, LenProperties DEF Range
<1>6. ChainType
  BY <1>1, <1>2 DEF Init, ChainType
<1>7. BookType
  BY <1>4 DEF Init, BookType
<1>8. LoopType
  <2>1. cursor \in 1..MaxEvents + 1 /\ attempts \in [Ids -> 0..MaxPayAttempts + 1]
    BY <1>1 DEF Init
  <2>2. QED
    BY <1>2, <2>1 DEF Init, LoopType
<1>9. LoopInv
  BY <1>2 DEF Init, LoopInv
<1>10. PaidInv
  BY <1>1 DEF Init, PaidInv
<1>11. BookInv
  <2>1. Backed = {} /\ minted = {} /\ issued = 0 /\ reserve = 0
    BY <1>5 DEF Backed, Init
  <2>2. QED
    BY <1>3, <1>4, <2>1 DEF BookInv
<1>12. AuditInv
  <2>1. audit = [at |-> "none", reserve |-> 0, issued |-> 0, seen |-> <<0, 0>>]
    BY DEF Init, NoAudit
  <2>2. audit \in [at : {"none", "reserve", "notes"}, reserve : Int, issued : Nat,
                   seen : Nat \X Nat]
    BY <2>1
  <2>3. QED
    BY <2>1, <2>2 DEF AuditInv
<1>13. QED
  BY <1>6, <1>7, <1>8, <1>9, <1>10, <1>11, <1>12, TypeParts DEF BridgeInv

LEMMA BridgeInvariant == Spec => []BridgeInv
<1>1. Init => BridgeInv
  BY BridgeInit
<1>2. BridgeInv /\ [Next]_vars => BridgeInv'
  BY TypeParts, ChainTypeStep, BookTypeStep, LoopTypeStep, LoopInvStep, PaidInvStep,
     BookInvStep, AuditInvStep DEF BridgeInv
<1>3. QED
  BY <1>1, <1>2, PTL DEF Spec

\* The log, the custody book and the loop keep their types, and a request is
\* burning, queued or marked, never two of them.
THEOREM BridgeTypeCorrect == Spec => []TypeOK
BY BridgeInvariant, PTL DEF BridgeInv

\* No request is paid oftener than MAX_PAY_ATTEMPTS, whatever answers are lost and
\* however often the process restarts: a queued request has been paid at most as
\* often as this process tried, and one a restart forgot is never queued again.
THEOREM PaymentsAreBounded == Spec => []PaymentsBounded
<1>1. BridgeInv => PaymentsBounded
  BY DEF BridgeInv, PaidInv, PaymentsBounded
<1>2. QED
  BY <1>1, BridgeInvariant, PTL

\* A request that mark_paid accepted is never paid again: it left the queue for
\* good, and the loop pays only what is queued.
THEOREM MarkedFinal == Spec => MarkedIsFinal
<1>1. ASSUME BridgeInv, [Next]_vars, NEW i \in acked
      PROVE  paid'[i] = paid[i]
  <2>1. CASE PayWithdrawal
    <3>1. i \in Ids /\ i \notin queued
      BY <1>1 DEF BridgeInv, TypeOK, PaidInv
    <3>2. QED
      BY <1>1, <2>1, <3>1, PayWithdrawalIs
  <2>2. CASE ~PayWithdrawal
    <3>1. paid' = paid
      BY <1>1, <2>2 DEF Next, Round, PushDeposit, VaultDeposit, BurnNote, EnqueueWithdrawal,
         PollDeposits, SkipEvent, MintDeposit, ConfirmDeposit, DepositRefused, ListWithdrawals,
         RoundEnds, SkipExhausted, MarkPaid, MarkPaidRefused, ReadReserve, ReadNotes,
         Reconcile, Restart, vars, providerVars
    <3>2. QED
      BY <3>1
  <2>3. QED
    BY <2>1, <2>2
<1>2. BridgeInv /\ [Next]_vars => [\A i \in acked : paid'[i] = paid[i]]_vars
  BY <1>1
<1>3. QED
  BY <1>2, BridgeInvariant, PTL DEF Spec, MarkedIsFinal

\* The reconciliation of a quiet, complete and fresh book says 0: the reserve it
\* read and the notes it counted are both what was deposited, although they were
\* read at different moments.
THEOREM QuietReport == Spec => []QuietReportBalanced
<1>1. BridgeInv => QuietReportBalanced
  <2> SUFFICES ASSUME BridgeInv, audit.at = "notes", provider = "mock", restarts = 0,
                      audit.seen = Seen, Range(events) \ Empty \subseteq minted,
                      \A i \in Ids : paid[i] = IF i \in marked THEN 1 ELSE 0
               PROVE  Delta = 0
    BY DEF QuietReportBalanced
  <2>0. TypeOK /\ BookInv /\ AuditInv /\ Fresh
    BY DEF BridgeInv, Fresh
  <2>1. SumFunction(paid) = paidTotal
    <3>1. paid = [i \in Ids |-> IF i \in marked THEN 1 ELSE 0]
      BY <2>0 DEF TypeOK
    <3>2. marked \in SUBSET Ids
      BY <2>0 DEF TypeOK
    <3>3. SumFunction(paid) = Cardinality(marked)
      BY <3>1, <3>2, SumFunctionIndicator DEF BridgeAssumption
    <3>4. QED
      BY <2>0, <3>3 DEF TypeOK
  <2>2. Backed = minted
    BY <2>0 DEF Backed, BookInv, TypeOK
  <2>3. Cardinality(Backed) = issued /\ issued \in Nat /\ SumFunction(paid) \in Nat
    BY <2>0, <2>2, PaidSum DEF BookInv, TypeOK
  <2>4. audit.seen[1] = issued /\ audit.seen[2] = SumFunction(paid)
    BY DEF Seen
  <2>5. /\ audit.reserve \in Int /\ audit.issued \in Nat
        /\ audit.seen[1] <= audit.reserve + audit.seen[2]
        /\ audit.reserve + audit.seen[2] <= Cardinality(Backed)
        /\ audit.seen[1] <= audit.issued /\ audit.issued <= issued
    BY <2>0 DEF AuditInv
  <2>6. audit.issued = issued /\ audit.reserve + SumFunction(paid) = issued
    BY <2>3, <2>4, <2>5
  <2>7. QED
    BY <2>1, <2>3, <2>5, <2>6 DEF Delta
<1>2. QED
  BY <1>1, BridgeInvariant, PTL
=============================================================================
