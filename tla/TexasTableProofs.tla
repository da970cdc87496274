-------------------------- MODULE TexasTableProofs --------------------------
(***************************************************************************)
(* Theorems about TexasTable.  Every command is a composition of operators *)
(* on tables, so the argument goes operator by operator: each of them      *)
(* turns a sound table into a sound one.                                   *)
(***************************************************************************)
EXTENDS TexasTable, FiniteSums

\* The settlement plan, whose operators TexasTable uses.
Plan == INSTANCE SettlementPlanProofs
          WITH Contributions <- Nat, Buttons <- Seats, NoPlan <- 0, showdown <- table, plan <- table

-----------------------------------------------------------------------------
(* Tables.                                                                 *)

Kinds == {"vacant", "waiting", "active", "folded", "allin", "departed"}
SeatRecords == [kind : Kinds, stack : Nat, bet : Nat, total : Nat, addon : Nat, bank : 0..TimeBank]
Anyone == Seats \cup {NO_SEAT}

Assignments == UNION {[D -> SUBSET Seats] : D \in SUBSET (Seats \cup {BOARD})}

ShufflingPhases ==
  [tag : {"shuffling"}, purpose : {"initial"}, street : {WAITING}, pending : SUBSET Seats]
    \cup [tag : {"shuffling"}, purpose : {"reconstruct"}, street : FLOP..SHOWDOWN, pending : SUBSET Seats]
RevealingPhases ==
  {p \in [tag : {"revealing"}, street : PREFLOP..SHOWDOWN, purpose : {"hole", "board", "owner"},
          assign : Assignments] :
     /\ p.street = PREFLOP <=> p.purpose = "hole"
     /\ p.street = SHOWDOWN <=> p.purpose = "owner"
     /\ p.purpose = "hole" => DOMAIN p.assign \subseteq Seats}
ReconstructingPhases ==
  [tag : {"reconstructing"}, street : FLOP..SHOWDOWN, pending : SUBSET Seats, contributed : BOOLEAN]
BettingPhases ==
  [tag : {"betting"}, street : PREFLOP..RIVER, current_bet : Nat, min_raise : Nat, turn : Anyone]
Phases ==
  {Waiting, ShowdownDisplay, [tag |-> "error"]}
    \cup ShufflingPhases \cup RevealingPhases \cup ReconstructingPhases \cup BettingPhases

Tables ==
  [seats : [Seats -> SeatRecords], pot : Nat, chip_pool : Int, button : Seats, last_bb_seat : Anyone,
   acted : SUBSET Seats, leave : SUBSET Seats, phase : Phases, board : Nat, rit : BOOLEAN,
   ledger : SUBSET Seats, shown : SUBSET Seats, hand_id : Nat, contributors : SUBSET Seats]

\* What the table owes a seat, and what the seat has in the pot.
worth(s) == s.stack + s.addon + s.bet
wager(s) == s.total - s.bet
Worth(t) == SumFunction([i \in Seats |-> worth(t.seats[i])])
Wagers(t) == SumFunction([i \in Seats |-> wager(t.seats[i])])

\* The pot is what the seats have in it.
Ledger(t) == t.pot = Wagers(t)

\* The vault covers what the table owes, and stays within its limit.
Covered(t) == Worth(t) + t.pot <= t.chip_pool
Capped(t) == t.chip_pool <= MaxTotalBet

\* What the vault holds beyond the chips the table owes.
Surplus(t) == t.chip_pool - Worth(t) - t.pot

\* A seat without a player has no chips and no key in the deck key.
Vacated(t) ==
  \A i \in Seats :
    /\ t.seats[i].kind \in {"vacant", "departed"} =>
         worth(t.seats[i]) = 0 /\ i \notin t.contributors
    /\ t.seats[i].kind = "vacant" => t.seats[i].total = 0

\* Bets lie on the table in betting rounds only, and nobody has put in
\* anything before the blinds.
NoBets(t) == \A i \in Seats : t.seats[i].bet = 0
NoWagers(t) == \A i \in Seats : t.seats[i].bet = 0 /\ t.seats[i].total = 0
Unopened(p) ==
  \/ p.tag = "waiting"
  \/ p.tag = "shuffling" /\ p.purpose = "initial"
  \/ p.tag = "revealing" /\ p.purpose = "hole"
Quiet(t) ==
  /\ t.phase.tag \notin {"betting", "error"} => NoBets(t)
  /\ Unopened(t.phase) => NoWagers(t)

\* Who a phase waits for (the rest of WaitsForParticipants is in Vacated).
Owed(t) ==
  /\ in_phase(t, "revealing") => pending_revealers(t) \subseteq active_seats(t)
  /\ in_phase(t, "reconstructing") => t.phase.pending \subseteq active_seats(t)
  /\ in_phase(t, "shuffling") /\ t.phase.purpose = "reconstruct" =>
        t.phase.pending \subseteq active_seats(t)

\* The chips of a table in any phase, and a table whose phase fits them.
Solid(t) == t \in Tables /\ Ledger(t) /\ Covered(t) /\ Capped(t) /\ Vacated(t)
Sound(t) == Solid(t) /\ Quiet(t) /\ Owed(t)

\* A table between commands.
AtRest(t) == Sound(t) /\ ~is_error(t)

-----------------------------------------------------------------------------
(* Small facts.                                                            *)

\* The smaller of two numbers.
LEMMA MinPair ==
  ASSUME NEW a \in Int, NEW b \in Int
  PROVE  Min({a, b}) = IF a <= b THEN a ELSE b
<1> DEFINE S == {a, b}
           m == IF a <= b THEN a ELSE b
<1>1. m \in S /\ \A y \in S : m <= y
  OBVIOUS
<1>2. \A x \in S : (\A y \in S : x <= y) => x = m
  OBVIOUS
<1>3. QED
  BY <1>1, <1>2 DEF Min

\* The larger of two numbers.
LEMMA MaxPair ==
  ASSUME NEW a \in Int, NEW b \in Int
  PROVE  Max({a, b}) = IF a >= b THEN a ELSE b
<1> DEFINE S == {a, b}
           m == IF a >= b THEN a ELSE b
<1>1. m \in S /\ \A y \in S : m >= y
  OBVIOUS
<1>2. \A x \in S : (\A y \in S : x >= y) => x = m
  OBVIOUS
<1>3. QED
  BY <1>1, <1>2 DEF Max

\* Naturals that add up to nothing.
LEMMA ZeroSum ==
  ASSUME NEW a \in Nat, NEW b \in Nat, NEW c \in Nat, a + b + c = 0
  PROVE  a = 0 /\ b = 0 /\ c = 0
OBVIOUS

LEMMA SeatsFinite ==
  /\ IsFiniteSet(Seats) /\ Seats \subseteq Nat
  /\ MaxPlayers \in 2..9 /\ NO_SEAT \notin Seats /\ BOARD \notin Seats
<1>1. MaxPlayers \in 2..9
  BY SidePotsAssumption
<1>2. IsFiniteSet(0 .. MaxPlayers - 1)
  BY <1>1, FS_Interval
<1>3. QED
  BY <1>1, <1>2 DEF Seats, NO_SEAT, BOARD

LEMMA AnyoneInt == Anyone \subseteq Int /\ Seats \subseteq Int /\ NO_SEAT \in Anyone
BY SeatsFinite DEF Anyone, NO_SEAT

\* The least seat of a set is one of them.
LEMMA MinSeat ==
  ASSUME NEW S \in SUBSET Seats, S # {}
  PROVE  Min(S) \in S /\ \A j \in S : Min(S) <= j
<1>1. S \in SUBSET Nat
  BY SeatsFinite
<1>2. PICK n \in S : \A m \in S : n <= m
  BY <1>1, NatMinimum
<1>3. QED
  BY <1>2 DEF Min

\* The seats passed on the way.
LEMMA ClockwiseType ==
  ASSUME NEW from \in Int, NEW i \in Int
  PROVE  Clockwise(from, i) \in 0 .. MaxPlayers - 1
<1>1. MaxPlayers \in Int /\ MaxPlayers > 0
  BY SeatsFinite
<1>2. QED
  BY <1>1 DEF Clockwise

\* The next seat of a set is one of them, and none comes before it.
LEMMA NextSeat ==
  ASSUME NEW S \in SUBSET Seats, NEW from \in Int
  PROVE  /\ next_seat(S, from) \in Anyone
         /\ S # {} => /\ next_seat(S, from) \in S
                      /\ \A j \in S : Clockwise(from, next_seat(S, from)) <= Clockwise(from, j)
         /\ S = {} => next_seat(S, from) = NO_SEAT
<1>1. CASE S = {}
  BY <1>1 DEF next_seat, Anyone
<1>2. CASE S # {}
  <2> DEFINE T == {Clockwise(from, j) : j \in S}
  <2>0. S \subseteq Int /\ 0 .. MaxPlayers - 1 \subseteq Nat
    BY SeatsFinite
  <2>1. \A j \in S : Clockwise(from, j) \in Nat
    BY <2>0, ClockwiseType
  <2>2. T \in SUBSET Nat /\ T # {}
    BY <1>2, <2>1
  <2>3. PICK n \in T : \A m \in T : n <= m
    BY <2>2, NatMinimum
  <2>4. PICK i \in S : n = Clockwise(from, i)
    BY <2>3
  <2>5. \A j \in S : Clockwise(from, i) <= Clockwise(from, j)
    BY <2>3, <2>4
  <2>6. QED
    BY <1>2, <2>5 DEF next_seat, Anyone
<1>3. QED
  BY <1>1, <1>2

\* A property that holds at first and is kept by every step holds throughout.
LEMMA StepByStep ==
  ASSUME NEW S, NEW n \in Nat, NEW f, f[0] \in S,
         \A k \in 1..n : f[k - 1] \in S => f[k] \in S
  PROVE  \A k \in 0..n : f[k] \in S
<1> DEFINE Bad == {k \in 0..n : f[k] \notin S}
<1>1. SUFFICES ASSUME Bad # {} PROVE FALSE
  OBVIOUS
<1>2. PICK k \in Bad : \A m \in Bad : k <= m
  <2>1. Bad \in SUBSET Nat
    OBVIOUS
  <2> HIDE DEF Bad
  <2>2. QED
    BY <1>1, <2>1, NatMinimum
<1>3. k # 0 /\ k \in 1..n /\ k - 1 \in 0..n
  OBVIOUS
<1>4. k - 1 \notin Bad
  BY <1>2, <1>3
<1>5. QED
  BY <1>3, <1>4

\* A recursion over 0..n whose steps stay in a set S has a solution there.
Iterates(f, n, b, F) ==
  f = [k \in 0..n |-> IF k = 0 THEN b ELSE F[<<k, f[k - 1]>>]]

LEMMA IteratesExist ==
  ASSUME NEW S, NEW N \in Nat, NEW b \in S, NEW F \in [(1..N) \X S -> S]
  PROVE  \E f \in [0..N -> S] : Iterates(f, N, b, F)
<1> DEFINE P(n) == \E f \in [0..n -> S] : Iterates(f, n, b, F)
           Bad == {n \in 0..N : ~P(n)}
<1>1. SUFFICES ASSUME Bad # {} PROVE FALSE
  OBVIOUS
<1>2. PICK n \in Bad : \A m \in Bad : n <= m
  <2>1. Bad \in SUBSET Nat
    OBVIOUS
  <2> HIDE DEF Bad
  <2>2. QED
    BY <1>1, <2>1, NatMinimum
<1>3. n # 0
  <2> DEFINE f == [k \in 0..0 |-> b]
  <2>1. f \in [0..0 -> S] /\ Iterates(f, 0, b, F)
    BY DEF Iterates
  <2>2. P(0)
    BY <2>1
  <2>3. QED
    BY <1>2, <2>2
<1>4. n \in 1..N /\ n - 1 \in 0..N
  BY <1>3
<1>5. P(n - 1)
  BY <1>2, <1>4
<1>6. PICK f \in [0 .. n - 1 -> S] : Iterates(f, n - 1, b, F)
  BY <1>5
<1> DEFINE g == [k \in 0..n |-> IF k = n THEN F[<<n, f[n - 1]>>] ELSE f[k]]
<1>7. f[n - 1] \in S /\ F[<<n, f[n - 1]>>] \in S
  BY <1>4
<1>8. g \in [0..n -> S]
  BY <1>4, <1>7
<1>9. \A k \in 0 .. n - 1 : f[k] = IF k = 0 THEN b ELSE F[<<k, f[k - 1]>>]
  BY <1>6 DEF Iterates
<1>10. \A k \in 0..n : g[k] = IF k = 0 THEN b ELSE F[<<k, g[k - 1]>>]
  <2>1. SUFFICES ASSUME NEW k \in 0..n
                 PROVE  g[k] = IF k = 0 THEN b ELSE F[<<k, g[k - 1]>>]
    OBVIOUS
  <2>2. CASE k = n
    <3>1. n - 1 \in 0..n /\ n - 1 # n /\ g[n - 1] = f[n - 1]
      BY <1>4
    <3>2. g[n] = F[<<n, f[n - 1]>>]
      BY <1>4
    <3>3. QED
      BY <1>4, <2>2, <3>1, <3>2
  <2>3. CASE k # n
    <3>1. k \in 0 .. n - 1 /\ g[k] = f[k]
      BY <1>4, <2>3
    <3>2. k # 0 => k - 1 \in 0..n /\ k - 1 # n /\ g[k - 1] = f[k - 1]
      BY <1>4, <3>1
    <3>3. QED
      BY <1>9, <3>1, <3>2
  <2>4. QED
    BY <2>2, <2>3
<1>11. Iterates(g, n, b, F)
  BY <1>8, <1>10 DEF Iterates
<1>12. QED
  BY <1>2, <1>8, <1>11

-----------------------------------------------------------------------------
(* Chips.                                                                  *)

\* The fields of a seat.
LEMMA SeatFields ==
  ASSUME NEW s \in SeatRecords
  PROVE  /\ s.kind \in Kinds /\ s.stack \in Nat /\ s.bet \in Nat /\ s.total \in Nat
         /\ s.addon \in Nat /\ s.bank \in 0..TimeBank
         /\ worth(s) \in Nat /\ wager(s) \in Int
BY DEF SeatRecords, worth, wager

\* What the seats are owed and have in the pot, as functions.
Worths(t) == [i \in Seats |-> worth(t.seats[i])]
WagersOf(t) == [i \in Seats |-> wager(t.seats[i])]

LEMMA SumsOf ==
  ASSUME NEW t \in Tables
  PROVE  /\ t.seats \in [Seats -> SeatRecords]
         /\ Worths(t) \in [Seats -> Nat] /\ Worths(t) \in [Seats -> Int] /\ WagersOf(t) \in [Seats -> Int]
         /\ Worth(t) = SumFunction(Worths(t)) /\ Wagers(t) = SumFunction(WagersOf(t))
         /\ Worth(t) \in Nat /\ Wagers(t) \in Int
<1>1. t.seats \in [Seats -> SeatRecords]
  BY DEF Tables
<1>2. \A i \in Seats : worth(t.seats[i]) \in Nat /\ wager(t.seats[i]) \in Int
  BY <1>1, SeatFields
<1>3. Worths(t) \in [Seats -> Nat] /\ Worths(t) \in [Seats -> Int] /\ WagersOf(t) \in [Seats -> Int]
  BY <1>2 DEF Worths, WagersOf
<1>4. Worth(t) = SumFunction(Worths(t)) /\ Wagers(t) = SumFunction(WagersOf(t))
  BY DEF Worth, Wagers, Worths, WagersOf
<1>5. Worth(t) \in Nat /\ Wagers(t) \in Int
  BY <1>3, <1>4, SeatsFinite, SumFunctionType
<1>6. QED
  BY <1>1, <1>3, <1>4, <1>5

\* Chips that move between a seat's stack and its bet change neither sum.
LEMMA SameChips ==
  ASSUME NEW t \in Tables, NEW u \in Tables,
         \A i \in Seats : worth(u.seats[i]) = worth(t.seats[i]) /\ wager(u.seats[i]) = wager(t.seats[i])
  PROVE  Worth(u) = Worth(t) /\ Wagers(u) = Wagers(t)
<1>1. Worths(u) = Worths(t) /\ WagersOf(u) = WagersOf(t)
  BY DEF Worths, WagersOf
<1>2. QED
  BY <1>1, SumsOf

\* One seat changes.
LEMMA OneSeat ==
  ASSUME NEW t \in Tables, NEW u \in Tables, NEW i \in Seats,
         \A j \in Seats \ {i} : u.seats[j] = t.seats[j]
  PROVE  /\ Worth(u) = Worth(t) - worth(t.seats[i]) + worth(u.seats[i])
         /\ Wagers(u) = Wagers(t) - wager(t.seats[i]) + wager(u.seats[i])
<1>1. /\ Worths(t) \in [Seats -> Int] /\ Worths(u) \in [Seats -> Int]
      /\ WagersOf(t) \in [Seats -> Int] /\ WagersOf(u) \in [Seats -> Int]
  BY SumsOf
<1>2. \A j \in Seats \ {i} : Worths(u)[j] = Worths(t)[j] /\ WagersOf(u)[j] = WagersOf(t)[j]
  BY DEF Worths, WagersOf
<1>3. /\ Worths(t)[i] = worth(t.seats[i]) /\ Worths(u)[i] = worth(u.seats[i])
      /\ WagersOf(t)[i] = wager(t.seats[i]) /\ WagersOf(u)[i] = wager(u.seats[i])
  BY DEF Worths, WagersOf
<1>4. IsFiniteSet(Seats)
  BY SeatsFinite
<1>5. SumFunction(Worths(u)) = SumFunction(Worths(t)) - Worths(t)[i] + Worths(u)[i]
  BY <1>1, <1>2, <1>4, SumFunctionUpdate
<1>6. SumFunction(WagersOf(u)) = SumFunction(WagersOf(t)) - WagersOf(t)[i] + WagersOf(u)[i]
  BY <1>1, <1>2, <1>4, SumFunctionUpdate
<1>7. QED
  BY <1>3, <1>5, <1>6, SumsOf

\* Every seat changes by some amount.
LEMMA AllSeats ==
  ASSUME NEW t \in Tables, NEW u \in Tables, NEW d \in [Seats -> Int], NEW e \in [Seats -> Int],
         \A i \in Seats : /\ worth(u.seats[i]) = worth(t.seats[i]) + d[i]
                          /\ wager(u.seats[i]) = wager(t.seats[i]) + e[i]
  PROVE  Worth(u) = Worth(t) + SumFunction(d) /\ Wagers(u) = Wagers(t) + SumFunction(e)
<1>1. /\ Worths(t) \in [Seats -> Int] /\ Worths(u) \in [Seats -> Int]
      /\ WagersOf(t) \in [Seats -> Int] /\ WagersOf(u) \in [Seats -> Int]
  BY SumsOf
<1>2. \A i \in Seats : Worths(u)[i] = Worths(t)[i] + d[i] /\ WagersOf(u)[i] = WagersOf(t)[i] + e[i]
  BY DEF Worths, WagersOf
<1>3. IsFiniteSet(Seats)
  BY SeatsFinite
<1>4. SumFunction(Worths(u)) = SumFunction(Worths(t)) + SumFunction(d)
  BY <1>1, <1>2, <1>3, SumFunctionPlus
<1>5. SumFunction(WagersOf(u)) = SumFunction(WagersOf(t)) + SumFunction(e)
  BY <1>1, <1>2, <1>3, SumFunctionPlus
<1>6. QED
  BY <1>4, <1>5, SumsOf

\* The sum of the opposites.
LEMMA Negated ==
  ASSUME NEW f \in [Seats -> Int], NEW d \in [Seats -> Int], \A i \in Seats : d[i] = 0 - f[i]
  PROVE  SumFunction(d) = 0 - SumFunction(f)
<1> DEFINE z == [i \in Seats |-> 0]
<1>1. IsFiniteSet(Seats)
  BY SeatsFinite
<1>2. z \in [Seats -> Int] /\ SumFunction(z) = 0
  BY <1>1, SumFunctionZero
<1>3. \A i \in Seats : z[i] = d[i] + f[i]
  OBVIOUS
<1>4. SumFunction(d) \in Int /\ SumFunction(f) \in Int
  BY <1>1, SumFunctionType
<1> HIDE DEF z
<1>5. SumFunction(z) = SumFunction(d) + SumFunction(f)
  BY <1>1, <1>2, <1>3, SumFunctionPlus
<1>6. QED
  BY <1>2, <1>4, <1>5

\* Nobody has anything in the pot.
LEMMA NothingWagered ==
  ASSUME NEW t \in Tables, NoWagers(t)
  PROVE  Wagers(t) = 0
<1>1. \A i \in Seats : wager(t.seats[i]) = 0
  BY DEF NoWagers, wager
<1>2. WagersOf(t) = [i \in Seats |-> 0]
  BY <1>1 DEF WagersOf
<1>3. SumFunction(WagersOf(t)) = 0
  BY <1>2, SeatsFinite, SumFunctionZero
<1>4. QED
  BY <1>3, SumsOf

-----------------------------------------------------------------------------
(* Phases.                                                                 *)

\* The tag of a phase tells its payload.
LEMMA PhaseOf ==
  ASSUME NEW p \in Phases
  PROVE  /\ p.tag \in PhaseTags \cup {"error"}
         /\ p.tag = "waiting" <=> p = Waiting
         /\ p.tag = "showdown" <=> p = ShowdownDisplay
         /\ p.tag = "error" <=> p = [tag |-> "error"]
         /\ p.tag = "shuffling" <=> p \in ShufflingPhases
         /\ p.tag = "revealing" <=> p \in RevealingPhases
         /\ p.tag = "reconstructing" <=> p \in ReconstructingPhases
         /\ p.tag = "betting" <=> p \in BettingPhases
BY DEF Phases, PhaseTags, Waiting, ShowdownDisplay, ShufflingPhases, RevealingPhases,
       ReconstructingPhases, BettingPhases

LEMMA NewPhases ==
  /\ Waiting \in Phases /\ ShowdownDisplay \in Phases /\ [tag |-> "error"] \in Phases
  /\ \A S \in SUBSET Seats : Shuffling("initial", WAITING, S) \in ShufflingPhases
  /\ \A S \in SUBSET Seats, r \in FLOP..SHOWDOWN : Shuffling("reconstruct", r, S) \in ShufflingPhases
  /\ \A S \in SUBSET Seats, r \in FLOP..SHOWDOWN, c \in BOOLEAN :
        Reconstructing(r, S, c) \in ReconstructingPhases
  /\ \A r \in PREFLOP..RIVER, c \in Nat, m \in Nat, i \in Anyone : Betting(r, c, m, i) \in BettingPhases
  /\ \A a \in Assignments : DOMAIN a \subseteq Seats => Revealing(PREFLOP, "hole", a) \in RevealingPhases
  /\ \A a \in Assignments : Revealing(SHOWDOWN, "owner", a) \in RevealingPhases
  /\ \A a \in Assignments, r \in FLOP..RIVER : Revealing(r, "board", a) \in RevealingPhases
  /\ ShufflingPhases \subseteq Phases /\ RevealingPhases \subseteq Phases
  /\ ReconstructingPhases \subseteq Phases /\ BettingPhases \subseteq Phases
<1>1. /\ Waiting \in Phases /\ ShowdownDisplay \in Phases /\ [tag |-> "error"] \in Phases
      /\ ShufflingPhases \subseteq Phases /\ RevealingPhases \subseteq Phases
      /\ ReconstructingPhases \subseteq Phases /\ BettingPhases \subseteq Phases
  BY DEF Phases
<1>2. /\ \A S \in SUBSET Seats : Shuffling("initial", WAITING, S) \in ShufflingPhases
      /\ \A S \in SUBSET Seats, r \in FLOP..SHOWDOWN : Shuffling("reconstruct", r, S) \in ShufflingPhases
  BY DEF Shuffling, ShufflingPhases
<1>3. \A S \in SUBSET Seats, r \in FLOP..SHOWDOWN, c \in BOOLEAN :
        Reconstructing(r, S, c) \in ReconstructingPhases
  BY DEF Reconstructing, ReconstructingPhases
<1>4. \A r \in PREFLOP..RIVER, c \in Nat, m \in Nat, i \in Anyone : Betting(r, c, m, i) \in BettingPhases
  BY DEF Betting, BettingPhases
<1>5. /\ PREFLOP \in PREFLOP..SHOWDOWN /\ SHOWDOWN \in PREFLOP..SHOWDOWN /\ PREFLOP # SHOWDOWN
      /\ \A r \in FLOP..RIVER : r \in PREFLOP..SHOWDOWN /\ r # PREFLOP /\ r # SHOWDOWN
  BY DEF PREFLOP, FLOP, RIVER, SHOWDOWN
<1>6. /\ \A a \in Assignments : DOMAIN a \subseteq Seats => Revealing(PREFLOP, "hole", a) \in RevealingPhases
      /\ \A a \in Assignments : Revealing(SHOWDOWN, "owner", a) \in RevealingPhases
      /\ \A a \in Assignments, r \in FLOP..RIVER : Revealing(r, "board", a) \in RevealingPhases
  BY <1>5 DEF Revealing, RevealingPhases
<1>7. QED
  BY <1>1, <1>2, <1>3, <1>4, <1>6

-----------------------------------------------------------------------------
(* End of a hand.                                                          *)

LEMMA VacantSeatIs ==
  /\ VacantSeat \in SeatRecords /\ worth(VacantSeat) = 0 /\ wager(VacantSeat) = 0
  /\ VacantSeat.kind = "vacant" /\ VacantSeat.bet = 0 /\ VacantSeat.total = 0
  /\ VacantSeat.stack = 0 /\ VacantSeat.addon = 0
BY TableAssumption DEF VacantSeat, SeatRecords, Kinds, worth, wager

\* The seats of the kinds.
LEMMA KindSets ==
  ASSUME NEW t
  PROVE  /\ occupied_seats(t) \subseteq Seats /\ active_seats(t) \subseteq Seats
         /\ live_seats(t) \subseteq Seats /\ actionable_seats(t) \subseteq Seats
         /\ live_seats(t) \subseteq active_seats(t) /\ actionable_seats(t) \subseteq live_seats(t)
         /\ active_seats(t) \subseteq occupied_seats(t)
         /\ \A ks : of_kind(t, ks) \subseteq Seats
BY DEF occupied_seats, active_seats, live_seats, actionable_seats, of_kind

\* What a leaver takes away.
Refund(t, i) ==
  IF i \in occupied_seats(t) \cap t.leave THEN t.seats[i].stack + t.seats[i].addon ELSE 0

\* A seat after the hand has the chips it had, unless its player left.
LEMMA ResetSeat ==
  ASSUME NEW t \in Tables, NEW i \in Seats
  PROVE  /\ reset_seat(t, i) \in SeatRecords
         /\ reset_seat(t, i).bet = 0 /\ reset_seat(t, i).total = 0
         /\ reset_seat(t, i).kind \in {"vacant", "waiting", "active"}
         /\ reset_seat(t, i).kind = "vacant" => reset_seat(t, i) = VacantSeat
         /\ Refund(t, i) \in Nat
         /\ worth(reset_seat(t, i)) <= worth(t.seats[i]) - Refund(t, i)
         /\ worth(t.seats[i]) - Refund(t, i) - worth(reset_seat(t, i)) =
              IF i \in occupied_seats(t) THEN t.seats[i].bet ELSE worth(t.seats[i])
<1> DEFINE s == t.seats[i]
           b == Min({s.bank + TimeBankRefill, TimeBank})
<1>1. s \in SeatRecords
  BY SumsOf
<1>2. /\ s.kind \in Kinds /\ s.stack \in Nat /\ s.bet \in Nat /\ s.total \in Nat
      /\ s.addon \in Nat /\ s.bank \in 0..TimeBank /\ TimeBank \in Nat /\ TimeBankRefill \in Nat
  BY <1>1, SeatFields, TableAssumption
<1>3. b \in 0..TimeBank
  <2>1. s.bank + TimeBankRefill \in Int /\ TimeBank \in Int
    BY <1>2
  <2>2. b = IF s.bank + TimeBankRefill <= TimeBank THEN s.bank + TimeBankRefill ELSE TimeBank
    BY <2>1, MinPair
  <2>3. QED
    BY <1>2, <2>2
<1>4. i \in occupied_seats(t) <=> s.kind \in {"waiting", "active", "folded", "allin"}
  BY DEF occupied_seats, of_kind
<1> HIDE DEF b
<1>5. CASE i \notin occupied_seats(t) \ t.leave \/ s.stack + s.addon = 0
  <2>1. reset_seat(t, i) = VacantSeat
    BY <1>5 DEF reset_seat
  <2>2. QED
    BY <1>2, <1>5, <2>1, VacantSeatIs DEF Refund, worth
<1>6. CASE ~(i \notin occupied_seats(t) \ t.leave \/ s.stack + s.addon = 0)
  <2> DEFINE r == [s EXCEPT !.kind = IF @ = "waiting" THEN @ ELSE "active", !.stack = @ + s.addon,
                            !.bet = 0, !.total = 0, !.addon = 0, !.bank = b]
  <2>1. reset_seat(t, i) = r
    BY <1>6 DEF reset_seat, b
  <2>0. s.stack + s.addon \in Nat
    BY <1>2
  <2>2. /\ r \in SeatRecords /\ r.bet = 0 /\ r.total = 0 /\ r.kind \in {"waiting", "active"}
        /\ r.stack = s.stack + s.addon /\ r.addon = 0
    BY <1>1, <1>3, <2>0 DEF SeatRecords, Kinds
  <2> HIDE DEF r
  <2>3. Refund(t, i) = 0
    BY <1>6 DEF Refund
  <2>4. QED
    BY <1>2, <1>6, <2>1, <2>2, <2>3 DEF worth
<1>7. QED
  BY <1>5, <1>6

\* The deck key of the next hand holds keys of seats that stay.
LEMMA NextContributors ==
  ASSUME NEW t
  PROVE  /\ next_contributors(t) \in SUBSET Seats
         /\ \A i \in next_contributors(t) : reset_seat(t, i).kind # "vacant"
BY DEF next_contributors

\* A hand that ends leaves a sound table, whatever is left in the pot.
LEMMA ResetSound ==
  ASSUME NEW t \in Tables, Covered(t), Capped(t)
  PROVE  /\ Sound(reset_for_next_hand(t)) /\ reset_for_next_hand(t).phase = Waiting
         /\ reset_for_next_hand(t).rit = FALSE
<1> DEFINE u == reset_for_next_hand(t)
           refund == [i \in Seats |-> Refund(t, i)]
           seats == [i \in Seats |-> reset_seat(t, i)]
           rest == [i \in Seats |-> Worths(t)[i] - refund[i]]
<1>1. /\ seats \in [Seats -> SeatRecords] /\ refund \in [Seats -> Nat] /\ refund \in [Seats -> Int]
      /\ rest \in [Seats -> Int]
  BY ResetSeat, SumsOf
<1>2. SumFunction(refund) \in Nat
  BY <1>1, SeatsFinite, SumFunctionType
<1>3. u = [t EXCEPT !.seats = seats, !.chip_pool = @ - SumFunction(refund),
                    !.pot = 0, !.board = 0, !.acted = {}, !.leave = {}, !.ledger = {}, !.shown = {},
                    !.rit = FALSE, !.contributors = next_contributors(t), !.phase = Waiting]
  BY DEF reset_for_next_hand, Refund
<1> HIDE DEF refund, seats, u
<1>4. /\ u \in Tables /\ u.seats = seats /\ u.chip_pool = t.chip_pool - SumFunction(refund)
      /\ u.pot = 0 /\ u.phase = Waiting /\ u.rit = FALSE /\ u.contributors = next_contributors(t)
  <2>1. t.chip_pool - SumFunction(refund) \in Int /\ Waiting \in Phases
    BY <1>2, NewPhases DEF Tables
  <2>2. QED
    BY <1>1, <1>3, <2>1, NextContributors DEF Tables
<1>5. NoWagers(u) /\ NoBets(u)
  BY <1>4, ResetSeat DEF NoWagers, NoBets, seats
<1>6. Vacated(u)
  BY <1>4, ResetSeat, NextContributors, VacantSeatIs DEF Vacated, seats
<1>7. Ledger(u)
  BY <1>4, <1>5, NothingWagered DEF Ledger
<1>8. Worth(u) <= SumFunction(rest)
  <2>1. \A i \in Seats : Worths(u)[i] <= rest[i]
    BY <1>1, <1>4, ResetSeat DEF Worths, seats, refund
  <2>2. Worths(u) \in [Seats -> Int] /\ Worth(u) = SumFunction(Worths(u)) /\ IsFiniteSet(Seats)
    BY <1>4, SumsOf, SeatsFinite
  <2> HIDE DEF rest
  <2>3. QED
    BY <1>1, <2>1, <2>2, SumFunctionMonotone
<1>9. Worth(t) = SumFunction(rest) + SumFunction(refund)
  <2>1. \A i \in Seats : Worths(t)[i] = rest[i] + refund[i]
    BY <1>1, SumsOf
  <2>2. Worths(t) \in [Seats -> Int] /\ Worth(t) = SumFunction(Worths(t)) /\ IsFiniteSet(Seats)
    BY SumsOf, SeatsFinite
  <2> HIDE DEF rest
  <2>3. QED
    BY <1>1, <2>1, <2>2, SumFunctionPlus
<1>10. SumFunction(rest) \in Int /\ Worth(u) \in Nat /\ Worth(t) \in Nat /\ t.pot \in Nat /\ t.chip_pool \in Int
  BY <1>1, <1>4, SumsOf, SeatsFinite, SumFunctionType DEF Tables
<1>11. Covered(u) /\ Capped(u)
  BY <1>2, <1>4, <1>8, <1>9, <1>10, TableAssumption DEF Covered, Capped
<1>12. Quiet(u) /\ Owed(u)
  BY <1>4, <1>5 DEF Quiet, Owed, in_phase, Waiting
<1>13. QED
  BY <1>4, <1>6, <1>7, <1>11, <1>12 DEF Sound, Solid, u

\* The bets that are collected are in the pot.
LEMMA CollectSound ==
  ASSUME NEW t \in Tables
  PROVE  LET c == collect_bets_to_pot(t)
         IN  /\ c \in Tables /\ c.phase = t.phase /\ c.chip_pool = t.chip_pool /\ NoBets(c)
             /\ Ledger(t) => Ledger(c)
             /\ Worth(c) + c.pot = Worth(t) + t.pot
             /\ Vacated(t) => Vacated(c)
             /\ c.board = t.board /\ c.rit = t.rit /\ c.acted = t.acted /\ c.leave = t.leave
             /\ \A i \in Seats : /\ c.seats[i].kind = t.seats[i].kind /\ c.seats[i].total = t.seats[i].total
                                 /\ c.seats[i].stack = t.seats[i].stack /\ c.seats[i].addon = t.seats[i].addon
<1> DEFINE c == collect_bets_to_pot(t)
           bets == [i \in Seats |-> t.seats[i].bet]
           d == [i \in Seats |-> 0 - bets[i]]
           seats == [i \in Seats |-> [t.seats[i] EXCEPT !.bet = 0]]
<1>1. t.seats \in [Seats -> SeatRecords] /\ t.pot \in Nat
  BY DEF Tables
<1>2. bets \in [Seats -> Nat] /\ bets \in [Seats -> Int] /\ d \in [Seats -> Int]
  BY <1>1, SeatFields
<1>3. Bets(t) = SumFunction(bets) /\ Bets(t) \in Nat
  BY <1>2, SeatsFinite, SumFunctionType DEF Bets
<1>4. seats \in [Seats -> SeatRecords]
  BY <1>1 DEF SeatRecords
<1>5. c = [t EXCEPT !.pot = @ + Bets(t), !.seats = seats]
  BY DEF collect_bets_to_pot
<1> HIDE DEF seats, c
<1>6. /\ c \in Tables /\ c.phase = t.phase /\ c.chip_pool = t.chip_pool
      /\ c.contributors = t.contributors /\ c.seats = seats
      /\ c.pot = t.pot + Bets(t) /\ c.board = t.board /\ c.rit = t.rit /\ c.acted = t.acted /\ c.leave = t.leave
  <2>1. t.pot + Bets(t) \in Nat
    BY <1>1, <1>3
  <2>2. QED
    BY <1>4, <1>5, <2>1 DEF Tables
<1>7. \A i \in Seats : /\ c.seats[i].bet = 0
                       /\ c.seats[i].kind = t.seats[i].kind /\ c.seats[i].total = t.seats[i].total
                       /\ c.seats[i].stack = t.seats[i].stack /\ c.seats[i].addon = t.seats[i].addon
  BY <1>1, <1>6 DEF seats, SeatRecords
<1>8. \A i \in Seats : /\ worth(c.seats[i]) = worth(t.seats[i]) + d[i]
                       /\ wager(c.seats[i]) = wager(t.seats[i]) + bets[i]
  BY <1>1, <1>2, <1>7, SeatFields DEF worth, wager
<1>9. SumFunction(d) = 0 - SumFunction(bets)
  <2>1. \A i \in Seats : d[i] = 0 - bets[i]
    OBVIOUS
  <2> HIDE DEF d, bets
  <2>2. QED
    BY <1>2, <2>1, Negated
<1> HIDE DEF d, bets
<1>10. Worth(c) = Worth(t) + SumFunction(d) /\ Wagers(c) = Wagers(t) + SumFunction(bets)
  BY <1>2, <1>6, <1>8, AllSeats
<1>11. Worth(t) \in Nat /\ Wagers(t) \in Int
  BY SumsOf
<1>12. (Ledger(t) => Ledger(c)) /\ Worth(c) + c.pot = Worth(t) + t.pot
  BY <1>1, <1>3, <1>6, <1>9, <1>10, <1>11 DEF Ledger
<1>13. NoBets(c)
  BY <1>7 DEF NoBets
<1>14. Vacated(t) => Vacated(c)
  <2>1. ASSUME NEW i \in Seats, worth(t.seats[i]) = 0
        PROVE  worth(c.seats[i]) = 0
    <3>1. t.seats[i].stack \in Nat /\ t.seats[i].addon \in Nat /\ t.seats[i].bet \in Nat
      BY <1>1, SeatFields
    <3>2. t.seats[i].stack = 0 /\ t.seats[i].addon = 0
      BY <2>1, <3>1, ZeroSum DEF worth
    <3>3. QED
      BY <1>7, <3>2 DEF worth
  <2>2. QED
    BY <1>6, <1>7, <2>1 DEF Vacated
<1>15. QED
  BY <1>6, <1>7, <1>12, <1>13, <1>14 DEF c

\* The last seat in the hand takes the pot, and the hand is over.
LEMMA EndSound ==
  ASSUME NEW t \in Tables, Covered(t), Capped(t)
  PROVE  /\ Sound(end_without_showdown(t)) /\ end_without_showdown(t).phase = Waiting
         /\ end_without_showdown(t).rit = FALSE
<1> DEFINE c == collect_bets_to_pot(t)
           w == Min(live_seats(t))
           e == IF live_seats(t) = {} THEN c ELSE [c EXCEPT !.seats[w].stack = @ + c.pot, !.pot = 0]
<1>1. end_without_showdown(t) = reset_for_next_hand(e)
  BY DEF end_without_showdown
<1>2. /\ c \in Tables /\ c.chip_pool = t.chip_pool /\ Worth(c) + c.pot = Worth(t) + t.pot
  BY CollectSound
<1>3. Covered(c) /\ Capped(c)
  BY <1>2 DEF Covered, Capped
<1> HIDE DEF c
<1>4. e \in Tables /\ Covered(e) /\ Capped(e)
  <2>1. CASE live_seats(t) = {}
    BY <1>2, <1>3, <2>1
  <2>2. CASE live_seats(t) # {}
    <3>1. w \in Seats
      BY <2>2, KindSets, MinSeat
    <3> HIDE DEF w
    <3>2. /\ c.seats \in [Seats -> SeatRecords] /\ c.pot \in Nat
      BY <1>2 DEF Tables
    <3>3. c.seats[w] \in SeatRecords /\ [c.seats[w] EXCEPT !.stack = @ + c.pot] \in SeatRecords
      BY <3>1, <3>2 DEF SeatRecords
    <3>4. /\ e \in Tables /\ e.pot = 0 /\ e.chip_pool = c.chip_pool
          /\ e.seats = [c.seats EXCEPT ![w] = [c.seats[w] EXCEPT !.stack = @ + c.pot]]
      BY <1>2, <2>2, <3>1, <3>2, <3>3 DEF Tables
    <3>5. /\ \A j \in Seats \ {w} : e.seats[j] = c.seats[j]
          /\ worth(e.seats[w]) = worth(c.seats[w]) + c.pot
      BY <3>1, <3>2, <3>3, <3>4 DEF worth, SeatRecords
    <3>6. Worth(e) = Worth(c) - worth(c.seats[w]) + worth(e.seats[w])
      BY <1>2, <3>1, <3>4, <3>5, OneSeat
    <3>7. worth(c.seats[w]) \in Nat /\ Worth(c) \in Nat /\ c.chip_pool \in Int
      BY <1>2, <3>3, SeatFields, SumsOf DEF Tables
    <3>8. QED
      BY <1>3, <3>2, <3>4, <3>5, <3>6, <3>7 DEF Covered, Capped
  <2>3. QED
    BY <2>1, <2>2
<1> HIDE DEF e
<1>5. QED
  BY <1>1, <1>4, ResetSound

\* The chips of the seats in the hand return to them, and the hand is over.
LEMMA GiveUpSound ==
  ASSUME NEW t, Sound(t)
  PROVE  /\ Sound(give_up(t)) /\ give_up(t).phase = Waiting /\ give_up(t).rit = FALSE
<1> DEFINE refund(i) == IF i \in live_seats(t) THEN t.seats[i].total ELSE 0
           seats == [i \in Seats |-> [t.seats[i] EXCEPT !.stack = @ + refund(i), !.bet = 0, !.total = 0]]
           d == [i \in Seats |-> refund(i) - t.seats[i].bet]
           e == [i \in Seats |-> 0 - wager(t.seats[i])]
           u == refund_all_bets(t)
<1>1. /\ t \in Tables /\ Ledger(t) /\ Covered(t) /\ Capped(t)
      /\ t.seats \in [Seats -> SeatRecords] /\ t.pot \in Nat /\ t.chip_pool \in Int
  BY DEF Sound, Solid, Tables
<1>2. /\ \A i \in Seats : refund(i) \in Nat /\ refund(i) <= t.seats[i].total
      /\ d \in [Seats -> Int] /\ e \in [Seats -> Int]
  BY <1>1, SeatFields
<1>3. \A i \in Seats : /\ seats[i] \in SeatRecords /\ seats[i].stack = t.seats[i].stack + refund(i)
                       /\ seats[i].bet = 0 /\ seats[i].total = 0 /\ seats[i].addon = t.seats[i].addon
  <2>1. SUFFICES ASSUME NEW i \in Seats
                 PROVE  /\ seats[i] \in SeatRecords /\ seats[i].stack = t.seats[i].stack + refund(i)
                        /\ seats[i].bet = 0 /\ seats[i].total = 0 /\ seats[i].addon = t.seats[i].addon
    OBVIOUS
  <2>2. t.seats[i] \in SeatRecords /\ t.seats[i].stack + refund(i) \in Nat
    BY <1>1, <1>2, SeatFields
  <2> HIDE DEF refund
  <2>3. QED
    BY <2>2 DEF SeatRecords
<1>4. u = [t EXCEPT !.pot = 0, !.seats = seats]
  BY DEF refund_all_bets
<1> HIDE DEF u
<1>5. u \in Tables /\ u.pot = 0 /\ u.chip_pool = t.chip_pool /\ u.seats = seats
  <2>1. seats \in [Seats -> SeatRecords]
    BY <1>3
  <2> HIDE DEF seats
  <2>2. QED
    BY <1>1, <1>4, <2>1 DEF Tables
<1>6. \A i \in Seats : /\ worth(u.seats[i]) = worth(t.seats[i]) + d[i]
                       /\ wager(u.seats[i]) = wager(t.seats[i]) + e[i]
  <2>1. SUFFICES ASSUME NEW i \in Seats
                 PROVE  /\ worth(u.seats[i]) = worth(t.seats[i]) + d[i]
                        /\ wager(u.seats[i]) = wager(t.seats[i]) + e[i]
    OBVIOUS
  <2>2. /\ u.seats[i].stack = t.seats[i].stack + refund(i) /\ u.seats[i].addon = t.seats[i].addon
        /\ u.seats[i].bet = 0 /\ u.seats[i].total = 0
        /\ d[i] = refund(i) - t.seats[i].bet /\ e[i] = 0 - wager(t.seats[i])
    BY <1>3, <1>5
  <2>3. t.seats[i] \in SeatRecords /\ refund(i) \in Nat
    BY <1>1, <1>2
  <2> HIDE DEF seats, refund, d, e
  <2>4. QED
    BY <2>2, <2>3, SeatFields DEF worth, wager
<1>7. \A i \in Seats : d[i] <= WagersOf(t)[i]
  BY <1>1, <1>2, SeatFields DEF WagersOf, wager
<1> HIDE DEF d, e, seats
<1>8. Worth(u) = Worth(t) + SumFunction(d)
  BY <1>1, <1>2, <1>5, <1>6, AllSeats
<1>9. SumFunction(d) <= Wagers(t) /\ SumFunction(d) \in Int
  <2>1. WagersOf(t) \in [Seats -> Int] /\ Wagers(t) = SumFunction(WagersOf(t)) /\ IsFiniteSet(Seats)
    BY <1>1, SumsOf, SeatsFinite
  <2>2. QED
    BY <1>2, <1>7, <2>1, SumFunctionMonotone, SumFunctionType
<1>10. Worth(t) \in Nat /\ Wagers(t) \in Int
  BY <1>1, SumsOf
<1>11. Covered(u) /\ Capped(u)
  BY <1>1, <1>5, <1>8, <1>9, <1>10 DEF Covered, Capped, Ledger
<1>12. give_up(t) = reset_for_next_hand(u)
  BY DEF give_up, u
<1>13. QED
  BY <1>5, <1>11, <1>12, ResetSound

-----------------------------------------------------------------------------
(* Steps that move no chips.                                               *)

\* The same seats and the same pot in another phase.
LEMMA SameSeats ==
  ASSUME NEW t, Solid(t), NEW u \in Tables,
         u.seats = t.seats, u.pot = t.pot, u.chip_pool = t.chip_pool,
         u.contributors \subseteq t.contributors
  PROVE  /\ Solid(u)
         /\ NoBets(t) <=> NoBets(u)
         /\ NoWagers(t) <=> NoWagers(u)
         /\ \A ks : of_kind(u, ks) = of_kind(t, ks)
         /\ active_seats(u) = active_seats(t) /\ live_seats(u) = live_seats(t)
         /\ actionable_seats(u) = actionable_seats(t) /\ occupied_seats(u) = occupied_seats(t)
<1>1. Worth(u) = Worth(t) /\ Wagers(u) = Wagers(t)
  BY DEF Worth, Wagers
<1>2. Ledger(u) /\ Covered(u) /\ Capped(u) /\ Vacated(u)
  BY <1>1 DEF Solid, Ledger, Covered, Capped, Vacated
<1>3. \A ks : of_kind(u, ks) = of_kind(t, ks)
  BY DEF of_kind
<1>4. /\ active_seats(u) = active_seats(t) /\ live_seats(u) = live_seats(t)
      /\ actionable_seats(u) = actionable_seats(t) /\ occupied_seats(u) = occupied_seats(t)
  BY <1>3 DEF active_seats, live_seats, actionable_seats, occupied_seats
<1>5. QED
  BY <1>2, <1>3, <1>4 DEF Solid, NoBets, NoWagers

\* Chips that move between a seat's stack and its bet.
LEMMA SameMoney ==
  ASSUME NEW t, Solid(t), NEW u \in Tables, u.pot = t.pot, u.chip_pool = t.chip_pool, Vacated(u),
         \A i \in Seats : worth(u.seats[i]) = worth(t.seats[i]) /\ wager(u.seats[i]) = wager(t.seats[i])
  PROVE  Solid(u)
<1>1. Worth(u) = Worth(t) /\ Wagers(u) = Wagers(t)
  BY SameChips DEF Solid
<1>2. QED
  BY <1>1 DEF Solid, Ledger, Covered, Capped

-----------------------------------------------------------------------------
(* Reveal phases.                                                          *)

\* The seats that a reveal of the assignment waits for.
LEMMA PendingIn ==
  ASSUME NEW t, NEW S, \A a \in DOMAIN t.phase.assign : t.phase.assign[a] \subseteq S
  PROVE  pending_revealers(t) \subseteq S
BY DEF pending_revealers, Range

LEMMA RevealSound ==
  ASSUME NEW t, Solid(t), NoBets(t), NEW r, NEW purpose, NEW assign \in Assignments,
         Revealing(r, purpose, assign) \in RevealingPhases,
         purpose = "hole" => NoWagers(t),
         \A a \in DOMAIN assign : assign[a] \subseteq active_seats(t)
  PROVE  LET u == [t EXCEPT !.phase = Revealing(r, purpose, assign)]
         IN  /\ Sound(u) /\ u.phase = Revealing(r, purpose, assign)
             /\ u.seats = t.seats /\ u.pot = t.pot /\ u.chip_pool = t.chip_pool /\ u.rit = t.rit
             /\ u.board = t.board
<1> DEFINE p == Revealing(r, purpose, assign)
           u == [t EXCEPT !.phase = p]
<1>1. p \in Phases /\ p.tag = "revealing" /\ p.purpose = purpose /\ p.assign = assign
  BY NewPhases DEF Revealing
<1> HIDE DEF p
<1>2. /\ u \in Tables /\ u.phase = p /\ u.seats = t.seats /\ u.pot = t.pot /\ u.chip_pool = t.chip_pool
      /\ u.contributors = t.contributors
      /\ u.rit = t.rit /\ u.board = t.board
  BY <1>1 DEF Solid, Tables
<1> HIDE DEF u
<1>3. /\ Solid(u) /\ NoBets(u) /\ active_seats(u) = active_seats(t)
      /\ purpose = "hole" => NoWagers(u)
  BY <1>2, SameSeats
<1>4. Quiet(u)
  BY <1>1, <1>2, <1>3 DEF Quiet, Unopened
<1>5. pending_revealers(u) \subseteq active_seats(u)
  BY <1>1, <1>2, <1>3, PendingIn
<1>6. Owed(u)
  BY <1>1, <1>2, <1>5 DEF Owed, in_phase
<1>7. QED
  BY <1>2, <1>3, <1>4, <1>6 DEF Sound, u, p

\* An assignment of seats to seats and the board.
LEMMA AssignmentType ==
  ASSUME NEW D \in SUBSET (Seats \cup {BOARD}), NEW a \in [D -> SUBSET Seats]
  PROVE  a \in Assignments
BY DEF Assignments

LEMMA PreflopRevealSound ==
  ASSUME NEW t, Solid(t), NoWagers(t)
  PROVE  LET u == start_preflop_reveal_phase(t)
         IN  /\ Sound(u) /\ u.phase.tag = "revealing" /\ u.phase.purpose = "hole"
             /\ u.phase.assign = [i \in active_seats(t) |-> active_seats(t) \ {i}]
             /\ u.seats = t.seats /\ u.pot = t.pot /\ u.chip_pool = t.chip_pool /\ u.rit = t.rit
             /\ u.board = t.board
<1> DEFINE a == [i \in active_seats(t) |-> active_seats(t) \ {i}]
<1>1. active_seats(t) \in SUBSET (Seats \cup {BOARD}) /\ a \in [active_seats(t) -> SUBSET Seats]
  BY KindSets
<1>2. a \in Assignments
  BY <1>1, AssignmentType
<1>3. \A i \in DOMAIN a : a[i] \subseteq active_seats(t)
  OBVIOUS
<1>4. Revealing(PREFLOP, "hole", a) \in RevealingPhases /\ NoBets(t)
  <2>1. DOMAIN a \subseteq Seats
    BY KindSets
  <2>2. QED
    BY <1>2, <2>1, NewPhases DEF NoWagers, NoBets
<1>5. start_preflop_reveal_phase(t) = [t EXCEPT !.phase = Revealing(PREFLOP, "hole", a)]
  BY DEF start_preflop_reveal_phase
<1>6. /\ Revealing(PREFLOP, "hole", a).tag = "revealing" /\ Revealing(PREFLOP, "hole", a).purpose = "hole"
      /\ Revealing(PREFLOP, "hole", a).assign = a
  BY DEF Revealing
<1> HIDE DEF a
<1>7. QED
  BY <1>2, <1>3, <1>4, <1>5, <1>6, RevealSound DEF a

LEMMA CommunityRevealSound ==
  ASSUME NEW t, Solid(t), NoBets(t), NEW r \in FLOP..RIVER
  PROVE  LET u == start_community_reveal_phase(t, r)
         IN  /\ Sound(u) /\ u.phase.tag = "revealing" /\ u.phase.purpose = "board"
             /\ u.phase.assign = [b \in {BOARD} |-> active_seats(t)]
             /\ u.seats = t.seats /\ u.pot = t.pot /\ u.chip_pool = t.chip_pool /\ u.rit = t.rit
             /\ u.board = t.board
<1> DEFINE a == [b \in {BOARD} |-> active_seats(t)]
<1>1. {BOARD} \in SUBSET (Seats \cup {BOARD}) /\ a \in [{BOARD} -> SUBSET Seats]
  BY KindSets
<1>2. a \in Assignments
  BY <1>1, AssignmentType
<1>3. \A i \in DOMAIN a : a[i] \subseteq active_seats(t)
  OBVIOUS
<1>4. Revealing(r, "board", a) \in RevealingPhases
  BY <1>2, NewPhases
<1>5. start_community_reveal_phase(t, r) = [t EXCEPT !.phase = Revealing(r, "board", a)]
  BY DEF start_community_reveal_phase
<1>6. /\ Revealing(r, "board", a).tag = "revealing" /\ Revealing(r, "board", a).purpose = "board"
      /\ Revealing(r, "board", a).assign = a
  BY DEF Revealing
<1> HIDE DEF a
<1>7. QED
  BY <1>2, <1>3, <1>4, <1>5, <1>6, RevealSound DEF a

LEMMA ShowdownRevealSound ==
  ASSUME NEW t, Solid(t), NoBets(t)
  PROVE  LET u == start_showdown_reveal_phase(t)
         IN  /\ Sound(u) /\ u.phase.tag = "revealing" /\ u.phase.purpose = "owner"
             /\ u.phase.assign = [i \in active_seats(t) \cap t.ledger |-> {i}]
             /\ u.seats = t.seats /\ u.pot = t.pot /\ u.chip_pool = t.chip_pool /\ u.rit = t.rit
             /\ u.board = t.board
<1> DEFINE D == active_seats(t) \cap t.ledger
           a == [i \in D |-> {i}]
<1>1. D \in SUBSET (Seats \cup {BOARD}) /\ D \subseteq Seats
  BY KindSets
<1>2. a \in [D -> SUBSET Seats]
  BY <1>1
<1>3. a \in Assignments
  BY <1>1, <1>2, AssignmentType
<1>4. \A i \in DOMAIN a : a[i] \subseteq active_seats(t)
  OBVIOUS
<1>5. Revealing(SHOWDOWN, "owner", a) \in RevealingPhases
  BY <1>3, NewPhases
<1>6. start_showdown_reveal_phase(t) = [t EXCEPT !.phase = Revealing(SHOWDOWN, "owner", a)]
  BY DEF start_showdown_reveal_phase
<1>7. /\ Revealing(SHOWDOWN, "owner", a).tag = "revealing" /\ Revealing(SHOWDOWN, "owner", a).purpose = "owner"
      /\ Revealing(SHOWDOWN, "owner", a).assign = a
  BY DEF Revealing
<1> HIDE DEF a
<1>8. QED
  BY <1>3, <1>4, <1>5, <1>6, <1>7, RevealSound DEF a

-----------------------------------------------------------------------------
(* Betting.                                                                *)

\* A table in a betting round or with an error owes no more than its chips.
LEMMA BettingSound ==
  ASSUME NEW t, Solid(t), t.phase.tag \in {"betting", "error", "showdown"},
         t.phase.tag = "showdown" => NoBets(t)
  PROVE  Sound(t)
BY DEF Sound, Quiet, Unopened, Owed, in_phase

\* The street after the one whose betting is closed.
LEMMA StreetOf ==
  ASSUME NEW t \in Tables, t.phase.tag = "betting"
  PROVE  /\ round_state(t) = t.phase.street /\ round_state(t) \in PREFLOP..RIVER
         /\ round_state(t) # RIVER => round_state(t) + 1 \in FLOP..RIVER
<1>1. t.phase \in BettingPhases
  BY PhaseOf DEF Tables
<1>2. round_state(t) = t.phase.street
  BY DEF round_state, in_phase
<1>3. t.phase.street \in PREFLOP..RIVER
  BY <1>1 DEF BettingPhases
<1>4. QED
  BY <1>2, <1>3 DEF PREFLOP, FLOP, RIVER

LEMMA TriggerIs ==
  ASSUME NEW t, Solid(t)
  PROVE  LET u == maybe_trigger_run_it_twice(t)
         IN  /\ Solid(u) /\ u.seats = t.seats /\ u.pot = t.pot /\ u.chip_pool = t.chip_pool
             /\ u.phase = t.phase /\ u.board = t.board
             /\ u.rit = (t.rit \/ (RunItTwice /\ t.board < 5 /\ no_further_betting_possible(t)))
<1> DEFINE u == maybe_trigger_run_it_twice(t)
           c == RunItTwice /\ t.board < 5 /\ no_further_betting_possible(t)
<1>1. /\ t \in Tables /\ t.rit \in BOOLEAN
  BY DEF Solid, Tables
<1>2. u = IF c THEN [t EXCEPT !.rit = TRUE] ELSE t
  BY DEF maybe_trigger_run_it_twice
<1> HIDE DEF u, c
<1>3. /\ u \in Tables /\ u.seats = t.seats /\ u.pot = t.pot /\ u.chip_pool = t.chip_pool
      /\ u.contributors = t.contributors
      /\ u.phase = t.phase /\ u.board = t.board /\ u.rit = (t.rit \/ c)
  <2>1. CASE c
    BY <1>1, <1>2, <2>1 DEF Tables
  <2>2. CASE ~c
    BY <1>1, <1>2, <2>2
  <2>3. QED
    BY <2>1, <2>2
<1>4. Solid(u)
  BY <1>3, SameSeats
<1>5. QED
  BY <1>3, <1>4 DEF u, c

\* The round is over: the hand ends or the next cards are opened.
LEMMA AdvanceRoundSound ==
  ASSUME NEW t, Solid(t), NoBets(t), t.phase.tag = "betting"
  PROVE  Sound(advance_round(t)) /\ advance_round(t).phase.tag \in {"waiting", "revealing"}
<1> DEFINE u == maybe_trigger_run_it_twice(t)
<1>1. t \in Tables /\ Covered(t) /\ Capped(t)
  BY DEF Solid
<1>2. Solid(u) /\ NoBets(u)
  BY TriggerIs DEF NoBets
<1>3. CASE few_live(t, 1)
  <2>1. advance_round(t) = end_without_showdown(t)
    BY <1>3 DEF advance_round
  <2>2. Sound(end_without_showdown(t)) /\ end_without_showdown(t).phase = Waiting
    BY <1>1, EndSound
  <2>3. Waiting.tag = "waiting"
    BY DEF Waiting
  <2>4. QED
    BY <2>1, <2>2, <2>3
<1>4. CASE ~few_live(t, 1) /\ round_state(t) = RIVER
  <2>1. advance_round(t) = start_showdown_reveal_phase(u)
    BY <1>4 DEF advance_round
  <2> HIDE DEF u
  <2>2. QED
    BY <1>2, <2>1, ShowdownRevealSound
<1>5. CASE ~few_live(t, 1) /\ round_state(t) # RIVER
  <2>1. advance_round(t) = start_community_reveal_phase(u, round_state(t) + 1)
    BY <1>5 DEF advance_round
  <2>2. round_state(t) + 1 \in FLOP..RIVER
    BY <1>1, <1>5, StreetOf
  <2> HIDE DEF u
  <2>3. QED
    BY <1>2, <2>1, <2>2, CommunityRevealSound
<1>6. QED
  BY <1>3, <1>4, <1>5

LEMMA CloseRoundSound ==
  ASSUME NEW t, Solid(t), t.phase.tag = "betting"
  PROVE  Sound(close_round(t)) /\ close_round(t).phase.tag \in {"waiting", "revealing"}
<1> DEFINE c == collect_bets_to_pot(t)
<1>1. t \in Tables /\ Ledger(t) /\ Covered(t) /\ Capped(t) /\ Vacated(t)
  BY DEF Solid
<1>2. /\ c \in Tables /\ c.phase = t.phase /\ c.chip_pool = t.chip_pool /\ NoBets(c)
      /\ Ledger(c) /\ Worth(c) + c.pot = Worth(t) + t.pot /\ Vacated(c)
  BY <1>1, CollectSound
<1> HIDE DEF c
<1>3. Solid(c)
  BY <1>1, <1>2 DEF Solid, Covered, Capped
<1>4. close_round(t) = advance_round(c)
  BY DEF close_round, c
<1>5. QED
  BY <1>2, <1>3, <1>4, AdvanceRoundSound

\* The turn moves.
LEMMA SetTurn ==
  ASSUME NEW t, Solid(t), t.phase.tag = "betting", NEW i \in Anyone
  PROVE  LET u == [t EXCEPT !.phase.turn = i]
         IN  /\ Solid(u) /\ u.phase = [t.phase EXCEPT !.turn = i] /\ u.phase.tag = "betting"
             /\ u.phase.turn = i /\ u.phase.street = t.phase.street
             /\ u.phase.current_bet = t.phase.current_bet /\ u.phase.min_raise = t.phase.min_raise
             /\ u.seats = t.seats /\ u.acted = t.acted /\ u.rit = t.rit /\ u.board = t.board
             /\ u.pot = t.pot /\ u.chip_pool = t.chip_pool /\ u.leave = t.leave /\ u.button = t.button
<1> DEFINE u == [t EXCEPT !.phase.turn = i]
           p == [t.phase EXCEPT !.turn = i]
<1>1. t \in Tables /\ t.phase \in BettingPhases
  BY PhaseOf DEF Solid, Tables
<1>2. /\ p \in BettingPhases /\ p.tag = "betting" /\ p.turn = i /\ p.street = t.phase.street
      /\ p.current_bet = t.phase.current_bet /\ p.min_raise = t.phase.min_raise
  BY <1>1 DEF BettingPhases
<1>3. p \in Phases
  BY <1>2, NewPhases
<1>4. u = [t EXCEPT !.phase = p]
  BY <1>1 DEF Tables
<1> HIDE DEF u, p
<1>5. /\ u \in Tables /\ u.phase = p
      /\ u.seats = t.seats /\ u.acted = t.acted /\ u.rit = t.rit /\ u.board = t.board
      /\ u.pot = t.pot /\ u.chip_pool = t.chip_pool
      /\ u.contributors = t.contributors /\ u.leave = t.leave /\ u.button = t.button
  BY <1>1, <1>3, <1>4 DEF Tables
<1>6. Solid(u)
  BY <1>5, SameSeats
<1>7. QED
  BY <1>2, <1>5, <1>6 DEF u, p

LEMMA AdvanceTurnSound ==
  ASSUME NEW t, Solid(t), t.phase.tag = "betting"
  PROVE  Sound(advance_turn(t)) /\ advance_turn(t).phase.tag \in {"waiting", "revealing", "betting"}
<1> DEFINE from == IF t.phase.turn = NO_SEAT THEN 0 ELSE t.phase.turn
           n == next_seat(actionable_seats(t), from)
<1>1. t.phase \in BettingPhases
  BY PhaseOf DEF Solid, Tables
<1>2. from \in Int
  <2>1. t.phase.turn \in Anyone
    BY <1>1 DEF BettingPhases
  <2>2. t.phase.turn \in Int
    BY <2>1, AnyoneInt
  <2>3. QED
    BY <2>2
<1>3. n \in Anyone /\ NO_SEAT \in Anyone
  BY <1>2, KindSets, NextSeat DEF Anyone
<1> HIDE DEF n
<1>4. CASE is_betting_complete(t)
  <2> DEFINE u == [t EXCEPT !.phase.turn = NO_SEAT]
  <2>1. advance_turn(t) = close_round(u)
    BY <1>4 DEF advance_turn
  <2>2. Solid(u) /\ u.phase.tag = "betting"
    BY <1>3, SetTurn
  <2> HIDE DEF u
  <2>3. QED
    BY <2>1, <2>2, CloseRoundSound
<1>5. CASE ~is_betting_complete(t)
  <2> DEFINE u == [t EXCEPT !.phase.turn = n]
  <2>1. advance_turn(t) = u
    BY <1>5 DEF advance_turn, n
  <2>2. Solid(u) /\ u.phase.tag = "betting"
    BY <1>3, SetTurn
  <2> HIDE DEF u
  <2>3. QED
    BY <2>1, <2>2, BettingSound
<1>6. QED
  BY <1>4, <1>5

\* A seat pays chips it has.
LEMMA PayIs ==
  ASSUME NEW s \in SeatRecords, NEW x \in Nat, x <= s.stack
  PROVE  /\ pay(s, x) \in SeatRecords
         /\ pay(s, x).stack = s.stack - x /\ pay(s, x).total = s.total + x
         /\ pay(s, x).bet = s.bet /\ pay(s, x).addon = s.addon /\ pay(s, x).bank = s.bank
         /\ pay(s, x).kind = IF s.stack = x THEN "allin" ELSE s.kind
<1>1. s.stack - x \in Nat /\ s.total + x \in Nat
  BY SeatFields
<1>2. pay(s, x) = [s EXCEPT !.stack = s.stack - x, !.total = s.total + x,
                            !.kind = IF s.stack = x THEN "allin" ELSE s.kind]
  BY DEF pay
<1>3. QED
  BY <1>1, <1>2 DEF SeatRecords, Kinds

\* A seat pays and the chips lie before it as its bet.
LEMMA PayBetIs ==
  ASSUME NEW s \in SeatRecords, NEW x \in Nat, x <= s.stack, NEW b \in Nat, b = s.bet + x
  PROVE  LET r == [pay(s, x) EXCEPT !.bet = b]
         IN  /\ r \in SeatRecords /\ worth(r) = worth(s) /\ wager(r) = wager(s)
             /\ r.bet = b /\ r.stack = s.stack - x /\ r.total = s.total + x
             /\ r.addon = s.addon /\ r.bank = s.bank
             /\ r.kind = IF s.stack = x THEN "allin" ELSE s.kind
<1> DEFINE p == pay(s, x)
           r == [p EXCEPT !.bet = b]
<1>1. /\ p \in SeatRecords /\ p.stack = s.stack - x /\ p.total = s.total + x
      /\ p.addon = s.addon /\ p.bank = s.bank /\ p.kind = IF s.stack = x THEN "allin" ELSE s.kind
  BY PayIs
<1> HIDE DEF p
<1>2. /\ r \in SeatRecords /\ r.bet = b /\ r.stack = p.stack /\ r.total = p.total
      /\ r.addon = p.addon /\ r.bank = p.bank /\ r.kind = p.kind
  BY <1>1 DEF SeatRecords
<1> HIDE DEF r
<1>3. worth(r) = worth(s) /\ wager(r) = wager(s)
  BY <1>1, <1>2, SeatFields DEF worth, wager
<1>4. QED
  BY <1>1, <1>2, <1>3 DEF r, p

\* The blinds of a hand.
BigBlindSeat(t) == next_seat(active_seats(t), rotation_base(t))
SmallBlindSeat(t) ==
  IF Cardinality(active_seats(t)) = 2 THEN next_seat(active_seats(t), BigBlindSeat(t))
  ELSE IF rotation_base(t) \in active_seats(t) \ {BigBlindSeat(t)} THEN rotation_base(t) ELSE NO_SEAT
Blind(t, i) == Min({IF i = BigBlindSeat(t) THEN BigBlind ELSE SmallBlind, t.seats[i].stack})

LEMMA BlindSeats ==
  ASSUME NEW t \in Tables
  PROVE  /\ rotation_base(t) \in Int
         /\ BigBlindSeat(t) \in Anyone /\ SmallBlindSeat(t) \in Anyone
         /\ BigBlindSeat(t) \in active_seats(t) \cup {NO_SEAT}
         /\ active_seats(t) # {} => BigBlindSeat(t) \in active_seats(t)
         /\ SmallBlindSeat(t) \in active_seats(t) \cup {NO_SEAT}
<1>1. rotation_base(t) \in Int
  <2>0. t.last_bb_seat \in Anyone /\ t.button \in Seats
    BY DEF Tables
  <2>1. t.last_bb_seat \in Int /\ t.button \in Int
    BY <2>0, AnyoneInt
  <2>2. QED
    BY <2>1 DEF rotation_base
<1>2. active_seats(t) \in SUBSET Seats
  BY KindSets
<1>3. /\ BigBlindSeat(t) \in Anyone /\ BigBlindSeat(t) \in active_seats(t) \cup {NO_SEAT}
      /\ active_seats(t) # {} => BigBlindSeat(t) \in active_seats(t)
  BY <1>1, <1>2, NextSeat DEF BigBlindSeat
<1>4. BigBlindSeat(t) \in Int
  BY <1>3, AnyoneInt
<1>5. next_seat(active_seats(t), BigBlindSeat(t)) \in active_seats(t) \cup {NO_SEAT}
  BY <1>2, <1>4, NextSeat
<1>6. SmallBlindSeat(t) \in active_seats(t) \cup {NO_SEAT}
  BY <1>5 DEF SmallBlindSeat
<1>7. QED
  BY <1>1, <1>2, <1>3, <1>6 DEF Anyone

LEMMA BlindIs ==
  ASSUME NEW t \in Tables, NEW i \in {SmallBlindSeat(t), BigBlindSeat(t)}, i \in Seats
  PROVE  /\ Blind(t, i) \in Nat /\ Blind(t, i) <= t.seats[i].stack
         /\ Blind(t, i) <= BigBlind
<1>1. t.seats[i] \in SeatRecords
  BY SumsOf
<1>2. /\ t.seats[i].stack \in Nat /\ BigBlind \in Nat /\ SmallBlind \in Nat /\ SmallBlind <= BigBlind
  BY <1>1, SeatFields, TableAssumption
<1> DEFINE b == IF i = BigBlindSeat(t) THEN BigBlind ELSE SmallBlind
<1>3. b \in Nat /\ b <= BigBlind
  BY <1>2
<1>4. Blind(t, i) = Min({b, t.seats[i].stack})
  BY DEF Blind
<1> HIDE DEF b
<1>5. Blind(t, i) = IF b <= t.seats[i].stack THEN b ELSE t.seats[i].stack
  BY <1>2, <1>3, <1>4, MinPair
<1>6. QED
  BY <1>2, <1>3, <1>5

\* The blinds are bets of seats that take part.
LEMMA PostBlindsSound ==
  ASSUME NEW t, Solid(t), NoBets(t)
  PROVE  LET u == post_blinds(t)
         IN  /\ Solid(u) /\ u.phase = t.phase /\ u.board = t.board /\ u.rit = t.rit
             /\ u.last_bb_seat = BigBlindSeat(t)
             /\ u.pot = t.pot /\ u.chip_pool = t.chip_pool /\ u.leave = t.leave
             /\ \A i \in Seats :
                  u.seats[i] = IF i \in {SmallBlindSeat(t), BigBlindSeat(t)}
                               THEN [pay(t.seats[i], Blind(t, i)) EXCEPT !.bet = Blind(t, i)]
                               ELSE t.seats[i]
             /\ \A i \in Seats : u.seats[i].kind \in {t.seats[i].kind, "allin"}
             /\ \A i \in Seats : u.seats[i].kind # t.seats[i].kind => i \in active_seats(t)
             /\ active_seats(u) = active_seats(t)
<1> DEFINE u == post_blinds(t)
           B == {SmallBlindSeat(t), BigBlindSeat(t)}
           new(i) == [pay(t.seats[i], Blind(t, i)) EXCEPT !.bet = Blind(t, i)]
           seats == [i \in Seats |-> IF i \in B THEN new(i) ELSE t.seats[i]]
<1>1. /\ t \in Tables /\ t.seats \in [Seats -> SeatRecords] /\ Vacated(t)
  BY SumsOf DEF Solid
<1>2. u = [t EXCEPT !.last_bb_seat = BigBlindSeat(t), !.seats = seats]
  BY DEF post_blinds, SmallBlindSeat, BigBlindSeat, Blind
<1>3. \A i \in Seats : i \in B =>
        /\ new(i) \in SeatRecords /\ worth(new(i)) = worth(t.seats[i]) /\ wager(new(i)) = wager(t.seats[i])
        /\ new(i).kind \in {t.seats[i].kind, "allin"}
  <2>1. SUFFICES ASSUME NEW i \in Seats, i \in B
                 PROVE  /\ new(i) \in SeatRecords
                        /\ worth(new(i)) = worth(t.seats[i]) /\ wager(new(i)) = wager(t.seats[i])
                        /\ new(i).kind \in {t.seats[i].kind, "allin"}
    OBVIOUS
  <2>2. /\ t.seats[i] \in SeatRecords /\ t.seats[i].bet = 0
        /\ Blind(t, i) \in Nat /\ Blind(t, i) <= t.seats[i].stack
    BY <1>1, <2>1, BlindIs DEF NoBets
  <2>3. Blind(t, i) = t.seats[i].bet + Blind(t, i)
    BY <2>2
  <2>4. QED
    BY <2>2, <2>3, PayBetIs
<1>4. B \subseteq active_seats(t) \cup {NO_SEAT} /\ BigBlindSeat(t) \in Anyone
  BY <1>1, BlindSeats
<1> HIDE DEF B, new, u
<1>5. seats \in [Seats -> SeatRecords]
  BY <1>1, <1>3
<1>6. /\ u \in Tables /\ u.seats = seats /\ u.phase = t.phase /\ u.board = t.board /\ u.rit = t.rit
      /\ u.pot = t.pot /\ u.chip_pool = t.chip_pool /\ u.contributors = t.contributors /\ u.leave = t.leave
      /\ u.last_bb_seat = BigBlindSeat(t)
  <2> HIDE DEF seats
  <2>1. QED
    BY <1>1, <1>2, <1>4, <1>5 DEF Tables
<1>7. \A i \in Seats : /\ worth(u.seats[i]) = worth(t.seats[i]) /\ wager(u.seats[i]) = wager(t.seats[i])
                       /\ u.seats[i].kind \in {t.seats[i].kind, "allin"}
                       /\ u.seats[i].kind # t.seats[i].kind => i \in active_seats(t)
  <2>1. SUFFICES ASSUME NEW i \in Seats
                 PROVE  /\ worth(u.seats[i]) = worth(t.seats[i]) /\ wager(u.seats[i]) = wager(t.seats[i])
                        /\ u.seats[i].kind \in {t.seats[i].kind, "allin"}
                        /\ u.seats[i].kind # t.seats[i].kind => i \in active_seats(t)
    OBVIOUS
  <2>2. CASE i \in B
    <3>1. u.seats[i] = new(i) /\ i \in active_seats(t)
      BY <1>4, <1>6, <2>2, SeatsFinite
    <3>2. QED
      BY <1>3, <2>2, <3>1
  <2>3. CASE i \notin B
    BY <1>6, <2>3
  <2>4. QED
    BY <2>2, <2>3
<1>8. active_seats(u) = active_seats(t)
  BY <1>7 DEF active_seats, of_kind
<1>9. Vacated(u)
  <2>1. SUFFICES ASSUME NEW i \in Seats
                 PROVE  /\ u.seats[i].kind \in {"vacant", "departed"} =>
                             worth(u.seats[i]) = 0 /\ i \notin u.contributors
                        /\ u.seats[i].kind = "vacant" => u.seats[i].total = 0
    BY DEF Vacated
  <2>2. u.seats[i].kind \in {"vacant", "departed"} => u.seats[i].kind = t.seats[i].kind
    BY <1>7
  <2>3. t.seats[i].kind \in {"vacant", "departed"} => i \notin active_seats(t)
    BY DEF active_seats, of_kind
  <2>4. t.seats[i].kind \in {"vacant", "departed"} => u.seats[i] = t.seats[i]
    BY <1>4, <1>6, <2>3, SeatsFinite
  <2>5. QED
    BY <1>1, <1>6, <2>2, <2>4 DEF Vacated
<1>10. Solid(u)
  BY <1>6, <1>7, <1>9, SameMoney
<1>11. QED
  BY <1>6, <1>7, <1>8, <1>10 DEF u, B, new

\* The antes of a hand.
AntePayers(t) ==
  CASE AnteMode = "bba" /\ AnteAmount > 0 -> {t.last_bb_seat}
    [] AnteMode = "normal" /\ AnteAmount > 0 -> active_seats(t)
    [] OTHER -> {}
Ante(t, i) == IF i \in AntePayers(t) THEN Min({AnteAmount, t.seats[i].stack}) ELSE 0

LEMMA AnteIs ==
  ASSUME NEW t \in Tables, NEW i \in Seats
  PROVE  /\ Ante(t, i) \in Nat /\ Ante(t, i) <= t.seats[i].stack
         /\ Ante(t, i) <= AnteAmount
         /\ i \in AntePayers(t) => Ante(t, i) = AnteAmount \/ Ante(t, i) = t.seats[i].stack
         /\ i \notin AntePayers(t) => Ante(t, i) = 0
<1>1. t.seats[i] \in SeatRecords
  BY SumsOf
<1>2. t.seats[i].stack \in Nat /\ AnteAmount \in Nat
  BY <1>1, SeatFields, TableAssumption
<1>3. Min({AnteAmount, t.seats[i].stack}) = IF AnteAmount <= t.seats[i].stack THEN AnteAmount ELSE t.seats[i].stack
  BY <1>2, MinPair
<1>4. QED
  BY <1>2, <1>3 DEF Ante

LEMMA AntePayersIn ==
  ASSUME NEW t, t.last_bb_seat \in active_seats(t) \cup {NO_SEAT}
  PROVE  AntePayers(t) \subseteq active_seats(t) \cup {NO_SEAT}
<1>1. CASE AnteMode = "bba" /\ AnteAmount > 0
  BY <1>1 DEF AntePayers
<1>2. CASE AnteMode = "normal" /\ AnteAmount > 0
  BY <1>2 DEF AntePayers
<1>3. CASE ~(AnteMode = "bba" /\ AnteAmount > 0) /\ ~(AnteMode = "normal" /\ AnteAmount > 0)
  BY <1>3 DEF AntePayers
<1>4. QED
  BY <1>1, <1>2, <1>3

\* The antes go to the pot and count as contributions.
LEMMA CollectAnteSound ==
  ASSUME NEW t, Solid(t), t.last_bb_seat \in active_seats(t) \cup {NO_SEAT}
  PROVE  LET u == collect_ante(t)
         IN  /\ Solid(u) /\ u.phase = t.phase /\ u.board = t.board /\ u.rit = t.rit
             /\ u.chip_pool = t.chip_pool /\ Worth(u) + u.pot = Worth(t) + t.pot
             /\ u.last_bb_seat = t.last_bb_seat /\ u.leave = t.leave
             /\ \A i \in Seats : /\ u.seats[i].bet = t.seats[i].bet
                                 /\ u.seats[i].total = t.seats[i].total + Ante(t, i)
                                 /\ u.seats[i].stack = t.seats[i].stack - Ante(t, i)
                                 /\ u.seats[i].kind = IF i \in AntePayers(t) /\ t.seats[i].stack = Ante(t, i)
                                                      THEN "allin" ELSE t.seats[i].kind
             /\ active_seats(u) = active_seats(t)
<1> DEFINE u == collect_ante(t)
           P == AntePayers(t)
           a == [i \in Seats |-> Ante(t, i)]
           d == [i \in Seats |-> 0 - Ante(t, i)]
           seats == [i \in Seats |-> IF i \in P THEN pay(t.seats[i], Ante(t, i)) ELSE t.seats[i]]
<1>1. /\ t \in Tables /\ t.seats \in [Seats -> SeatRecords] /\ t.pot \in Nat /\ t.chip_pool \in Int
      /\ Vacated(t) /\ Ledger(t) /\ Covered(t) /\ Capped(t)
  BY DEF Solid, Tables
<1>2. a \in [Seats -> Nat] /\ a \in [Seats -> Int] /\ d \in [Seats -> Int]
  BY <1>1, AnteIs
<1>3. SumFunction(a) \in Nat
  BY <1>2, SeatsFinite, SumFunctionType
<1>4. u = [t EXCEPT !.pot = @ + SumFunction(a), !.seats = seats]
  BY DEF collect_ante, AntePayers, Ante
<1>5. P \subseteq active_seats(t) \cup {NO_SEAT}
  BY AntePayersIn
<1>6. \A i \in Seats :
        /\ seats[i] \in SeatRecords /\ seats[i].bet = t.seats[i].bet /\ seats[i].addon = t.seats[i].addon
        /\ seats[i].total = t.seats[i].total + Ante(t, i)
        /\ seats[i].stack = t.seats[i].stack - Ante(t, i)
        /\ seats[i].kind = IF i \in P /\ t.seats[i].stack = Ante(t, i) THEN "allin" ELSE t.seats[i].kind
  <2>1. SUFFICES ASSUME NEW i \in Seats
                 PROVE  /\ seats[i] \in SeatRecords /\ seats[i].bet = t.seats[i].bet
                        /\ seats[i].addon = t.seats[i].addon
                        /\ seats[i].total = t.seats[i].total + Ante(t, i)
                        /\ seats[i].stack = t.seats[i].stack - Ante(t, i)
                        /\ seats[i].kind = IF i \in P /\ t.seats[i].stack = Ante(t, i) THEN "allin"
                                           ELSE t.seats[i].kind
    OBVIOUS
  <2>2. t.seats[i] \in SeatRecords /\ Ante(t, i) \in Nat /\ Ante(t, i) <= t.seats[i].stack
    BY <1>1, AnteIs
  <2> HIDE DEF P
  <2>3. CASE i \in P
    <3>1. seats[i] = pay(t.seats[i], Ante(t, i))
      BY <2>3
    <3> HIDE DEF seats
    <3>2. QED
      BY <2>2, <2>3, <3>1, PayIs
  <2>4. CASE i \notin P
    <3>1. seats[i] = t.seats[i] /\ Ante(t, i) = 0
      BY <1>1, <2>4, AnteIs DEF P
    <3> HIDE DEF seats
    <3>2. t.seats[i].stack \in Nat /\ t.seats[i].total \in Nat
      BY <2>2, SeatFields
    <3>3. QED
      BY <2>2, <2>4, <3>1, <3>2
  <2>5. QED
    BY <2>3, <2>4
<1>7. seats \in [Seats -> SeatRecords]
  BY <1>6
<1> HIDE DEF u, P, seats
<1>8. /\ u \in Tables /\ u.seats = seats /\ u.phase = t.phase /\ u.board = t.board /\ u.rit = t.rit
      /\ u.pot = t.pot + SumFunction(a) /\ u.chip_pool = t.chip_pool /\ u.contributors = t.contributors
      /\ u.last_bb_seat = t.last_bb_seat /\ u.leave = t.leave
  <2>1. t.pot + SumFunction(a) \in Nat
    BY <1>1, <1>3
  <2> HIDE DEF a
  <2>2. QED
    BY <1>1, <1>4, <1>7, <2>1 DEF Tables
<1>9. \A i \in Seats : /\ worth(u.seats[i]) = worth(t.seats[i]) + d[i]
                       /\ wager(u.seats[i]) = wager(t.seats[i]) + a[i]
  <2>1. SUFFICES ASSUME NEW i \in Seats
                 PROVE  /\ worth(u.seats[i]) = worth(t.seats[i]) + d[i]
                        /\ wager(u.seats[i]) = wager(t.seats[i]) + a[i]
    OBVIOUS
  <2>2. t.seats[i] \in SeatRecords /\ Ante(t, i) \in Nat /\ a[i] = Ante(t, i) /\ d[i] = 0 - Ante(t, i)
    BY <1>1, AnteIs
  <2>3. QED
    BY <1>6, <1>8, <2>2, SeatFields DEF worth, wager
<1>10. SumFunction(d) = 0 - SumFunction(a)
  <2>1. \A i \in Seats : d[i] = 0 - a[i]
    OBVIOUS
  <2> HIDE DEF d, a
  <2>2. QED
    BY <1>2, <2>1, Negated
<1> HIDE DEF d, a
<1>11. Worth(u) = Worth(t) + SumFunction(d) /\ Wagers(u) = Wagers(t) + SumFunction(a)
  BY <1>1, <1>2, <1>8, <1>9, AllSeats
<1>12. Worth(t) \in Nat /\ Wagers(t) \in Int
  BY <1>1, SumsOf
<1>13. Ledger(u) /\ Covered(u) /\ Capped(u) /\ Worth(u) + u.pot = Worth(t) + t.pot
  BY <1>1, <1>3, <1>8, <1>10, <1>11, <1>12 DEF Ledger, Covered, Capped
<1>14. \A i \in Seats : /\ u.seats[i].kind \in {t.seats[i].kind, "allin"}
                        /\ u.seats[i].kind # t.seats[i].kind => i \in active_seats(t)
  BY <1>5, <1>6, <1>8, SeatsFinite
<1>15. active_seats(u) = active_seats(t)
  BY <1>14 DEF active_seats, of_kind
<1>16. Vacated(u)
  <2>1. SUFFICES ASSUME NEW i \in Seats, u.seats[i].kind \in {"vacant", "departed"}
                 PROVE  worth(u.seats[i]) = 0
                        /\ i \notin u.contributors /\ (u.seats[i].kind = "vacant" => u.seats[i].total = 0)
    BY DEF Vacated
  <2>2. t.seats[i].kind = u.seats[i].kind /\ worth(t.seats[i]) = 0 /\ i \notin t.contributors
    BY <1>1, <1>14, <2>1 DEF Vacated
  <2>3. i \notin active_seats(t) /\ i \notin P
    BY <1>5, <2>1, <2>2, SeatsFinite DEF active_seats, of_kind
  <2>4. Ante(t, i) = 0
    BY <1>1, <2>3, AnteIs DEF P
  <2>5. t.seats[i] \in SeatRecords
    BY <1>1
  <2>6. worth(u.seats[i]) = worth(t.seats[i]) /\ u.seats[i].total = t.seats[i].total
    BY <1>6, <1>8, <2>4, <2>5, SeatFields DEF worth
  <2>7. QED
    BY <1>1, <1>8, <2>2, <2>6 DEF Vacated
<1>17. Solid(u)
  BY <1>8, <1>13, <1>16 DEF Solid
<1>18. QED
  BY <1>6, <1>8, <1>13, <1>15, <1>17 DEF u, P

LEMMA FirstToAct ==
  ASSUME NEW t \in Tables, NEW r
  PROVE  first_to_act(t, r) \in Anyone
<1> DEFINE A == actionable_seats(t)
           base == rotation_base(t)
<1>1. A \in SUBSET Seats
  BY KindSets
<1>2. base \in Int
  BY BlindSeats
<1>3. t.last_bb_seat \in Int /\ t.button \in Int
  <2>1. t.last_bb_seat \in Anyone /\ t.button \in Seats
    BY DEF Tables
  <2>2. QED
    BY <2>1, AnyoneInt
<1> HIDE DEF A, base
<1>4. next_seat(A, t.last_bb_seat) \in Anyone /\ next_seat(A, base) \in Anyone /\ next_seat(A, t.button) \in Anyone
  BY <1>1, <1>2, <1>3, NextSeat
<1>5. base \in A => base \in Anyone
  BY <1>1 DEF Anyone
<1>6. first_to_act(t, r) \in
        {next_seat(A, t.last_bb_seat), next_seat(A, base), next_seat(A, t.button)} \cup (A \cap {base})
  BY DEF first_to_act, A, base
<1>7. QED
  BY <1>4, <1>5, <1>6

\* The price of a call before the flop.
LEMMA PriceIs ==
  ASSUME NEW t \in Tables
  PROVE  LET S == {BigBlind} \cup {t.seats[i].bet : i \in Seats}
         IN  Max(S) \in S /\ Max(S) \in Nat /\ \A x \in S : x <= Max(S)
<1> DEFINE B == {t.seats[i].bet : i \in Seats}
           S == {BigBlind} \cup B
<1>1. \A i \in Seats : t.seats[i].bet \in Nat
  BY SumsOf, SeatFields
<1>2. S \in SUBSET Int /\ S \subseteq Nat /\ S # {}
  BY <1>1, TableAssumption
<1>3. IsFiniteSet(S)
  <2> DEFINE g == [i \in Seats |-> t.seats[i].bet]
  <2>0. g \in Surjection(Seats, B)
    BY DEF Surjection
  <2> HIDE DEF g
  <2>1. IsFiniteSet(B)
    BY <2>0, SeatsFinite, FS_Surjection
  <2> HIDE DEF B
  <2>2. QED
    BY <2>1, FS_AddElement
<1> HIDE DEF S
<1>4. PICK m \in S : \A x \in S : x <= m
  BY <1>2, <1>3, FiniteMaximum
<1>5. \A x \in S : m >= x
  BY <1>2, <1>4
<1>6. Max(S) \in S /\ \A y \in S : Max(S) >= y
  BY <1>5 DEF Max
<1>7. QED
  BY <1>2, <1>6 DEF S

\* A betting round that is opened.
Opened(t, r) ==
  LET price == IF r = PREFLOP THEN Max({BigBlind} \cup {t.seats[i].bet : i \in Seats}) ELSE 0
  IN  [t EXCEPT !.seats = [i \in Seats |-> IF r = PREFLOP THEN t.seats[i] ELSE [t.seats[i] EXCEPT !.bet = 0]],
                !.acted = of_kind(t, {"allin", "folded"}),
                !.phase = Betting(r, price, BigBlind, first_to_act(t, r))]

LEMMA OpenedIs ==
  ASSUME NEW t, Solid(t), NEW r \in PREFLOP..RIVER, r # PREFLOP => NoBets(t)
  PROVE  LET u == Opened(t, r)
         IN  /\ Solid(u) /\ u.seats = t.seats /\ u.pot = t.pot /\ u.chip_pool = t.chip_pool
             /\ u.rit = t.rit /\ u.board = t.board /\ u.leave = t.leave
             /\ u.acted = of_kind(t, {"allin", "folded"})
             /\ u.phase.tag = "betting" /\ u.phase.street = r /\ u.phase.turn = first_to_act(t, r)
             /\ u.phase.current_bet =
                  IF r = PREFLOP THEN Max({BigBlind} \cup {t.seats[i].bet : i \in Seats}) ELSE 0
<1> DEFINE u == Opened(t, r)
           price == IF r = PREFLOP THEN Max({BigBlind} \cup {t.seats[i].bet : i \in Seats}) ELSE 0
           p == Betting(r, price, BigBlind, first_to_act(t, r))
           A == of_kind(t, {"allin", "folded"})
           seats == [i \in Seats |-> IF r = PREFLOP THEN t.seats[i] ELSE [t.seats[i] EXCEPT !.bet = 0]]
<1>1. t \in Tables /\ t.seats \in [Seats -> SeatRecords]
  BY DEF Solid, Tables
<1>2. price \in Nat /\ first_to_act(t, r) \in Anyone /\ BigBlind \in Nat
  BY <1>1, PriceIs, FirstToAct, TableAssumption
<1>3. p \in Phases
  <2> HIDE DEF price
  <2>1. p \in BettingPhases
    BY <1>2, NewPhases
  <2>2. QED
    BY <2>1, NewPhases
<1>4. p.tag = "betting" /\ p.street = r /\ p.turn = first_to_act(t, r) /\ p.current_bet = price
  BY DEF Betting
<1>5. seats = t.seats
  <2>1. \A i \in Seats : seats[i] = t.seats[i]
    <3>1. CASE r = PREFLOP
      BY <3>1
    <3>2. CASE r # PREFLOP
      <4>1. SUFFICES ASSUME NEW i \in Seats PROVE [t.seats[i] EXCEPT !.bet = 0] = t.seats[i]
        BY <3>2
      <4>2. t.seats[i] \in SeatRecords /\ t.seats[i].bet = 0
        BY <1>1, <3>2 DEF NoBets
      <4>3. QED
        BY <4>2 DEF SeatRecords
    <3>3. QED
      BY <3>1, <3>2
  <2>2. QED
    BY <1>1, <2>1
<1>6. u = [t EXCEPT !.seats = t.seats, !.acted = A, !.phase = p]
  BY <1>5 DEF Opened
<1>7. A \in SUBSET Seats
  BY DEF of_kind
<1> HIDE DEF u, p, A, price, seats
<1>8. /\ u \in Tables /\ u.seats = t.seats /\ u.pot = t.pot /\ u.chip_pool = t.chip_pool
      /\ u.contributors = t.contributors
      /\ u.rit = t.rit /\ u.board = t.board /\ u.leave = t.leave /\ u.acted = A /\ u.phase = p
  BY <1>1, <1>3, <1>6, <1>7 DEF Tables
<1>9. Solid(u)
  BY <1>8, SameSeats
<1>10. QED
  BY <1>4, <1>8, <1>9 DEF u, A, price

LEMMA StartBettingSound ==
  ASSUME NEW t, Solid(t), NEW r \in PREFLOP..RIVER, r # PREFLOP => NoBets(t)
  PROVE  /\ Sound(start_betting_round(t, r))
         /\ start_betting_round(t, r).phase.tag \in {"waiting", "revealing", "betting"}
<1> DEFINE u == Opened(t, r)
<1>1. start_betting_round(t, r) = IF no_further_betting_possible(u) THEN close_round(u) ELSE u
  BY DEF start_betting_round, Opened
<1>2. Solid(u) /\ u.phase.tag = "betting"
  BY OpenedIs
<1> HIDE DEF u
<1>3. QED
  BY <1>1, <1>2, CloseRoundSound, BettingSound

\* The fields of a reveal phase.
LEMMA RevealFields ==
  ASSUME NEW t \in Tables, t.phase.tag = "revealing"
  PROVE  /\ t.phase \in RevealingPhases /\ t.phase.purpose \in {"hole", "board", "owner"}
         /\ t.phase.assign \in Assignments
         /\ t.phase.purpose = "hole" => DOMAIN t.phase.assign \subseteq Seats
         /\ t.phase.purpose = "hole" => t.phase.street = PREFLOP
         /\ t.phase.purpose = "board" => t.phase.street \in FLOP..RIVER
         /\ t.phase.purpose = "owner" => t.phase.street = SHOWDOWN
         /\ t.phase.purpose # "hole" => t.phase.street \in FLOP..SHOWDOWN
<1>1. t.phase \in RevealingPhases
  BY PhaseOf DEF Tables
<1>2. /\ t.phase.purpose \in {"hole", "board", "owner"} /\ t.phase.assign \in Assignments
      /\ t.phase.street \in PREFLOP..SHOWDOWN
      /\ t.phase.street = PREFLOP <=> t.phase.purpose = "hole"
      /\ t.phase.street = SHOWDOWN <=> t.phase.purpose = "owner"
      /\ t.phase.purpose = "hole" => DOMAIN t.phase.assign \subseteq Seats
  BY <1>1 DEF RevealingPhases
<1>3. QED
  BY <1>1, <1>2 DEF PREFLOP, FLOP, RIVER, SHOWDOWN

\* The hole cards are dealt: blinds, antes and the first betting round.
LEMMA HandOpensSound ==
  ASSUME NEW t, Solid(t), NoBets(t)
  PROVE  /\ Sound(start_betting_round(collect_ante(post_blinds(t)), PREFLOP))
         /\ start_betting_round(collect_ante(post_blinds(t)), PREFLOP).phase.tag
              \in {"waiting", "revealing", "betting"}
<1> DEFINE b == post_blinds(t)
           a == collect_ante(b)
<1>1. t \in Tables
  BY DEF Solid
<1>2. Solid(b) /\ b.last_bb_seat = BigBlindSeat(t) /\ active_seats(b) = active_seats(t)
  BY PostBlindsSound
<1>3. b.last_bb_seat \in active_seats(b) \cup {NO_SEAT}
  BY <1>1, <1>2, BlindSeats
<1> HIDE DEF b
<1>4. Solid(a)
  BY <1>2, <1>3, CollectAnteSound
<1> HIDE DEF a
<1>5. PREFLOP \in PREFLOP..RIVER
  BY DEF PREFLOP, RIVER
<1>6. QED
  BY <1>4, <1>5, StartBettingSound DEF a, b

\* All cards of the reveal are open.
LEMMA CheckRevealSound ==
  ASSUME NEW t, Sound(t), t.phase.tag = "revealing"
  PROVE  /\ Sound(check_reveal_phase_complete(t))
         /\ check_reveal_phase_complete(t).phase.tag \in {"waiting", "revealing", "betting", "showdown"}
<1>1. Solid(t) /\ NoBets(t) /\ t \in Tables
  BY DEF Sound, Solid, Quiet
<1>2. /\ t.phase.purpose \in {"hole", "board", "owner"}
      /\ t.phase.purpose = "board" => t.phase.street \in FLOP..RIVER
  BY <1>1, RevealFields
<1>3. CASE DOMAIN t.phase.assign # {}
  BY <1>3 DEF check_reveal_phase_complete
<1>4. CASE DOMAIN t.phase.assign = {} /\ t.phase.purpose = "hole"
  <2>1. check_reveal_phase_complete(t) = start_betting_round(collect_ante(post_blinds(t)), PREFLOP)
    BY <1>4 DEF check_reveal_phase_complete
  <2>2. QED
    BY <1>1, <2>1, HandOpensSound
<1>5. CASE DOMAIN t.phase.assign = {} /\ t.phase.purpose = "board"
  <2>1. check_reveal_phase_complete(t) = start_betting_round(t, t.phase.street)
    BY <1>5 DEF check_reveal_phase_complete
  <2>2. t.phase.street \in PREFLOP..RIVER
    BY <1>2, <1>5 DEF PREFLOP, FLOP, RIVER
  <2>3. QED
    BY <1>1, <2>1, <2>2, StartBettingSound
<1>6. CASE DOMAIN t.phase.assign = {} /\ t.phase.purpose = "owner"
  <2> DEFINE u == [t EXCEPT !.phase = ShowdownDisplay]
  <2>1. check_reveal_phase_complete(t) = u
    BY <1>6 DEF check_reveal_phase_complete
  <2>2. ShowdownDisplay \in Phases /\ ShowdownDisplay.tag = "showdown"
    BY NewPhases DEF ShowdownDisplay
  <2>3. /\ u \in Tables /\ u.seats = t.seats /\ u.pot = t.pot /\ u.chip_pool = t.chip_pool
        /\ u.contributors = t.contributors
        /\ u.phase = ShowdownDisplay
    BY <1>1, <2>2 DEF Tables
  <2> HIDE DEF u
  <2>4. Solid(u) /\ NoBets(u)
    BY <1>1, <2>3, SameSeats
  <2>5. Sound(u)
    BY <2>2, <2>3, <2>4, BettingSound
  <2>6. QED
    BY <2>1, <2>2, <2>3, <2>5
<1>7. QED
  BY <1>2, <1>3, <1>4, <1>5, <1>6

-----------------------------------------------------------------------------
(* Shuffles and the reconstruction of the deck.                            *)

\* The fields of a shuffle.
LEMMA ShuffleFields ==
  ASSUME NEW t \in Tables, t.phase.tag = "shuffling"
  PROVE  /\ t.phase \in ShufflingPhases /\ t.phase.pending \subseteq Seats
         /\ t.phase.purpose \in {"initial", "reconstruct"}
         /\ t.phase.purpose = "reconstruct" => t.phase.street \in FLOP..SHOWDOWN
         /\ t.phase.purpose = "initial" => t.phase.street = WAITING
<1>1. t.phase \in ShufflingPhases
  BY PhaseOf DEF Tables
<1>2. QED
  BY <1>1 DEF ShufflingPhases

LEMMA RestartRevealSound ==
  ASSUME NEW t, Sound(t), t.phase.tag = "shuffling", t.phase.purpose = "reconstruct"
  PROVE  /\ Sound(restart_reveal_after_reconstruct(t))
         /\ restart_reveal_after_reconstruct(t).phase.tag \in {"shuffling", "revealing"}
<1>1. Solid(t) /\ NoBets(t) /\ t \in Tables /\ t.phase.street \in FLOP..SHOWDOWN
  BY ShuffleFields DEF Sound, Solid, Quiet
<1>2. t.phase.street # PREFLOP /\ (t.phase.street = SHOWDOWN \/ t.phase.street \in FLOP..RIVER)
      /\ (t.phase.street \in FLOP..RIVER => t.phase.street # SHOWDOWN)
  BY <1>1 DEF PREFLOP, FLOP, RIVER, SHOWDOWN
<1>3. CASE t.phase.street \in FLOP..RIVER /\ t.board < t.phase.street + 1
  <2>1. restart_reveal_after_reconstruct(t) = start_community_reveal_phase(t, t.phase.street)
    BY <1>2, <1>3 DEF restart_reveal_after_reconstruct
  <2>2. QED
    BY <1>1, <1>3, <2>1, CommunityRevealSound
<1>4. CASE t.phase.street = SHOWDOWN
  <2>1. restart_reveal_after_reconstruct(t) = start_showdown_reveal_phase(t)
    BY <1>2, <1>4 DEF restart_reveal_after_reconstruct
  <2>2. Sound(start_showdown_reveal_phase(t)) /\ start_showdown_reveal_phase(t).phase.tag = "revealing"
    BY <1>1, ShowdownRevealSound
  <2>3. QED
    BY <2>1, <2>2
<1>5. CASE t.phase.street \in FLOP..RIVER /\ ~(t.board < t.phase.street + 1)
  <2>1. restart_reveal_after_reconstruct(t) = t
    BY <1>2, <1>5 DEF restart_reveal_after_reconstruct
  <2>2. QED
    BY <2>1
<1>6. QED
  BY <1>2, <1>3, <1>4, <1>5

LEMMA AdvanceShuffleSound ==
  ASSUME NEW t, Sound(t), t.phase.tag = "shuffling"
  PROVE  /\ Sound(advance_shuffle(t)) /\ advance_shuffle(t).phase.tag \in {"shuffling", "revealing"}
<1>1. Solid(t) /\ t \in Tables /\ t.phase.purpose \in {"initial", "reconstruct"}
  BY ShuffleFields DEF Sound, Solid
<1>2. CASE t.phase.pending # {}
  <2>1. advance_shuffle(t) = t
    BY <1>2 DEF advance_shuffle
  <2>2. QED
    BY <2>1
<1>3. CASE t.phase.pending = {} /\ t.phase.purpose = "initial"
  <2>1. advance_shuffle(t) = start_preflop_reveal_phase(t)
    BY <1>3 DEF advance_shuffle
  <2>2. NoWagers(t)
    BY <1>3 DEF Sound, Quiet, Unopened
  <2>3. Sound(start_preflop_reveal_phase(t)) /\ start_preflop_reveal_phase(t).phase.tag = "revealing"
    BY <1>1, <2>2, PreflopRevealSound
  <2>4. QED
    BY <2>1, <2>3
<1>4. CASE t.phase.pending = {} /\ t.phase.purpose = "reconstruct"
  <2>1. advance_shuffle(t) = restart_reveal_after_reconstruct(t)
    BY <1>4 DEF advance_shuffle
  <2>2. QED
    BY <1>4, <2>1, RestartRevealSound
<1>5. QED
  BY <1>1, <1>2, <1>3, <1>4

\* Another phase of a hand whose bets are in the pot.
LEMMA RephaseSound ==
  ASSUME NEW t, Solid(t), NoBets(t), NEW p \in ShufflingPhases \cup ReconstructingPhases,
         p.tag = "shuffling" /\ p.purpose = "initial" => NoWagers(t),
         p.tag = "shuffling" /\ p.purpose = "reconstruct" => p.pending \subseteq active_seats(t),
         p.tag = "reconstructing" => p.pending \subseteq active_seats(t)
  PROVE  LET u == [t EXCEPT !.phase = p]
         IN  Sound(u) /\ u.phase = p /\ u.seats = t.seats /\ u.rit = t.rit
<1> DEFINE u == [t EXCEPT !.phase = p]
<1>1. p \in Phases /\ p.tag \in {"shuffling", "reconstructing"}
  BY NewPhases DEF ShufflingPhases, ReconstructingPhases
<1>2. /\ u \in Tables /\ u.phase = p /\ u.seats = t.seats /\ u.pot = t.pot /\ u.chip_pool = t.chip_pool
      /\ u.contributors = t.contributors
      /\ u.rit = t.rit
  BY <1>1 DEF Solid, Tables
<1> HIDE DEF u
<1>3. /\ Solid(u) /\ NoBets(u) /\ active_seats(u) = active_seats(t)
      /\ NoWagers(t) => NoWagers(u)
  BY <1>2, SameSeats
<1>4. Quiet(u)
  BY <1>1, <1>2, <1>3 DEF Quiet, Unopened
<1>5. Owed(u)
  BY <1>1, <1>2, <1>3 DEF Owed, in_phase
<1>6. QED
  BY <1>2, <1>3, <1>4, <1>5 DEF Sound, u

LEMMA StartReconstructSound ==
  ASSUME NEW t, Sound(t), t.phase.tag = "revealing", t.phase.purpose # "hole"
  PROVE  Sound(start_reconstruct(t)) /\ start_reconstruct(t).phase.tag = "reconstructing"
<1> DEFINE p == Reconstructing(t.phase.street, active_seats(t), FALSE)
<1>1. Solid(t) /\ NoBets(t) /\ t \in Tables /\ t.phase.street \in FLOP..SHOWDOWN
  BY RevealFields DEF Sound, Solid, Quiet
<1>2. p \in ReconstructingPhases
  BY <1>1, KindSets, NewPhases
<1>3. p.tag = "reconstructing" /\ p.pending = active_seats(t)
  BY DEF Reconstructing
<1>4. start_reconstruct(t) = [t EXCEPT !.phase = p]
  BY DEF start_reconstruct
<1> HIDE DEF p
<1>5. QED
  BY <1>1, <1>2, <1>3, <1>4, RephaseSound

LEMMA FailedSound ==
  ASSUME NEW t, Solid(t)
  PROVE  /\ Sound(failed(t)) /\ is_error(failed(t)) /\ failed(t).phase.tag = "error"
         /\ failed(t).seats = t.seats
<1> DEFINE p == [tag |-> "error"]
           u == failed(t)
<1>1. p \in Phases /\ p.tag = "error"
  BY NewPhases
<1>2. u = [t EXCEPT !.phase = p]
  BY DEF failed
<1> HIDE DEF p, u
<1>3. u \in Tables /\ u.phase = p /\ u.seats = t.seats /\ u.pot = t.pot /\ u.chip_pool = t.chip_pool
      /\ u.contributors = t.contributors
  BY <1>1, <1>2 DEF Solid, Tables
<1>4. Solid(u)
  BY <1>3, SameSeats
<1>5. Sound(u)
  BY <1>1, <1>3, <1>4, BettingSound
<1>6. QED
  BY <1>1, <1>3, <1>5 DEF u, is_error, in_phase

\* The fields of a reconstruction.
LEMMA ReconstructFields ==
  ASSUME NEW t \in Tables, t.phase.tag = "reconstructing"
  PROVE  /\ t.phase \in ReconstructingPhases /\ t.phase.pending \subseteq Seats
         /\ t.phase.contributed \in BOOLEAN /\ t.phase.street \in FLOP..SHOWDOWN
<1>1. t.phase \in ReconstructingPhases
  BY PhaseOf DEF Tables
<1>2. QED
  BY <1>1 DEF ReconstructingPhases

\* The reconstructed deck is shuffled again.
LEMMA CompleteReconstructSound ==
  ASSUME NEW t, Sound(t)
  PROVE  /\ Sound(on_complete_reconstruct(t))
         /\ on_complete_reconstruct(t).phase.tag \in {"error", "shuffling", "revealing"}
         /\ t.phase.tag = "reconstructing" =>
              on_complete_reconstruct(t).phase.tag \in {"shuffling", "revealing"}
<1>1. Solid(t) /\ t \in Tables
  BY DEF Sound, Solid
<1>2. CASE t.phase.tag # "reconstructing"
  <2>1. on_complete_reconstruct(t) = failed(t)
    BY <1>2 DEF on_complete_reconstruct, in_phase
  <2>2. QED
    BY <1>1, <1>2, <2>1, FailedSound
<1>3. CASE t.phase.tag = "reconstructing"
  <2> DEFINE p == Shuffling("reconstruct", t.phase.street, active_seats(t))
             u == [t EXCEPT !.phase = p]
  <2>1. on_complete_reconstruct(t) = advance_shuffle(u)
    BY <1>3 DEF on_complete_reconstruct, in_phase
  <2>2. NoBets(t) /\ t.phase.street \in FLOP..SHOWDOWN
    BY <1>1, <1>3, ReconstructFields DEF Sound, Quiet
  <2>3. p \in ShufflingPhases
    BY <2>2, KindSets, NewPhases
  <2>4. p.tag = "shuffling" /\ p.purpose = "reconstruct" /\ p.pending = active_seats(t)
    BY DEF Shuffling
  <2> HIDE DEF p
  <2>5. Sound(u) /\ u.phase = p
    BY <1>1, <2>2, <2>3, <2>4, RephaseSound
  <2> HIDE DEF u
  <2>6. QED
    BY <2>1, <2>4, <2>5, AdvanceShuffleSound
<1>4. QED
  BY <1>2, <1>3

\* A fresh deck is shuffled by the seats of the hand.
LEMMA RebuildSound ==
  ASSUME NEW t, Sound(t), t.phase.tag = "shuffling"
  PROVE  LET u == rebuild_deck_and_shuffle_on_timeout(t)
         IN  Sound(u) /\ u.phase.tag = "shuffling" /\ u.phase.purpose = t.phase.purpose
<1> DEFINE p == [t.phase EXCEPT !.pending = active_seats(t)]
           v == [t EXCEPT !.ledger = {}]
<1>1. /\ Solid(t) /\ t \in Tables /\ NoBets(t) /\ t.phase \in ShufflingPhases /\ active_seats(t) \subseteq Seats
      /\ t.phase.purpose = "initial" => NoWagers(t)
  BY ShuffleFields, KindSets DEF Sound, Solid, Quiet, Unopened
<1>2. p \in ShufflingPhases /\ p.tag = "shuffling" /\ p.purpose = t.phase.purpose /\ p.pending = active_seats(t)
  BY <1>1 DEF ShufflingPhases
<1>3. rebuild_deck_and_shuffle_on_timeout(t) = [v EXCEPT !.phase = p]
  BY <1>1 DEF rebuild_deck_and_shuffle_on_timeout, Tables
<1> HIDE DEF p
<1>4. v \in Tables /\ v.seats = t.seats /\ v.pot = t.pot /\ v.chip_pool = t.chip_pool
      /\ v.contributors = t.contributors
  BY <1>1 DEF Tables
<1> HIDE DEF v
<1>5. /\ Solid(v) /\ NoBets(v) /\ active_seats(v) = active_seats(t) /\ (NoWagers(t) => NoWagers(v))
  BY <1>1, <1>4, SameSeats
<1>6. QED
  BY <1>1, <1>2, <1>3, <1>5, RephaseSound

-----------------------------------------------------------------------------
(* Kicks.                                                                  *)

\* A phase without a seat is a phase of the same kind.
LEMMA RemoveSeat ==
  ASSUME NEW p \in Phases, NEW i
  PROVE  LET q == remove_seat_from_phase(p, i)
         IN  /\ q \in Phases /\ q.tag = p.tag
             /\ p.tag \in {"waiting", "showdown", "error", "betting"} => q = p
             /\ p.tag = "shuffling" => q.purpose = p.purpose
             /\ p.tag \in {"shuffling", "reconstructing"} =>
                  q.street = p.street /\ q.pending = p.pending \ {i}
             /\ p.tag = "reconstructing" => q.contributed = p.contributed
             /\ p.tag = "revealing" =>
                  /\ q.purpose = p.purpose /\ q.street = p.street
                  /\ q.assign = [a \in DOMAIN p.assign |-> p.assign[a] \ {i}]
<1> DEFINE q == remove_seat_from_phase(p, i)
<1>1. CASE p.tag = "shuffling"
  <2>1. p \in ShufflingPhases
    BY <1>1, PhaseOf
  <2>2. q = [p EXCEPT !.pending = p.pending \ {i}]
    BY <1>1 DEF remove_seat_from_phase
  <2>3. /\ q \in ShufflingPhases /\ q.tag = "shuffling" /\ q.purpose = p.purpose /\ q.street = p.street
        /\ q.pending = p.pending \ {i}
    BY <2>1, <2>2 DEF ShufflingPhases
  <2>4. QED
    BY <1>1, <2>3, NewPhases
<1>2. CASE p.tag = "reconstructing"
  <2>1. p \in ReconstructingPhases
    BY <1>2, PhaseOf
  <2>2. q = [p EXCEPT !.pending = p.pending \ {i}]
    BY <1>2 DEF remove_seat_from_phase
  <2>3. /\ q \in ReconstructingPhases /\ q.tag = "reconstructing" /\ q.street = p.street
        /\ q.pending = p.pending \ {i} /\ q.contributed = p.contributed
    BY <2>1, <2>2 DEF ReconstructingPhases
  <2>4. QED
    BY <1>2, <2>3, NewPhases
<1>3. CASE p.tag = "revealing"
  <2> DEFINE a == [c \in DOMAIN p.assign |-> p.assign[c] \ {i}]
  <2>1. p \in RevealingPhases
    BY <1>3, PhaseOf
  <2>2. q = [p EXCEPT !.assign = a]
    BY <1>3 DEF remove_seat_from_phase
  <2>3. p.assign \in Assignments
    BY <2>1 DEF RevealingPhases
  <2>4. PICK D \in SUBSET (Seats \cup {BOARD}) : p.assign \in [D -> SUBSET Seats]
    BY <2>3 DEF Assignments
  <2>5. a \in [D -> SUBSET Seats]
    BY <2>4
  <2>6. a \in Assignments
    BY <2>5, AssignmentType
  <2> HIDE DEF a
  <2>9. DOMAIN a = DOMAIN p.assign
    BY DEF a
  <2>7. /\ q \in RevealingPhases /\ q.tag = "revealing" /\ q.street = p.street /\ q.purpose = p.purpose
        /\ q.assign = a
    BY <2>1, <2>2, <2>6, <2>9 DEF RevealingPhases
  <2>8. QED
    BY <1>3, <2>7, NewPhases DEF a
<1>4. CASE p.tag \notin {"shuffling", "reconstructing", "revealing"}
  <2>1. q = p
    BY <1>4 DEF remove_seat_from_phase
  <2>2. QED
    BY <1>4, <2>1
<1>5. QED
  BY <1>1, <1>2, <1>3, <1>4

LEMMA RemoveSeatPurpose ==
  ASSUME NEW p \in Phases, NEW i, p.tag \in {"shuffling", "revealing"}
  PROVE  remove_seat_from_phase(p, i).purpose = p.purpose
<1>1. CASE p.tag = "shuffling"
  BY <1>1, RemoveSeat
<1>2. CASE p.tag = "revealing"
  BY <1>2, RemoveSeat
<1>3. QED
  BY <1>1, <1>2

\* A kicked seat takes its stack and addon away and leaves its bet in the pot.
LEMMA KickRawIs ==
  ASSUME NEW t \in Tables, NEW i \in Seats
  PROVE  LET k == kick_seat_raw(t, i)
         IN  /\ i \notin occupied_seats(t) => k = t
             /\ i \in occupied_seats(t) =>
                  /\ k.phase = remove_seat_from_phase(t.phase, i) /\ k.pot = t.pot + t.seats[i].bet
                  /\ k.chip_pool = t.chip_pool - t.seats[i].stack - t.seats[i].addon
                  /\ \A j \in Seats \ {i} : k.seats[j] = t.seats[j]
                  /\ k.seats[i].kind = "departed" /\ k.seats[i].total = t.seats[i].total
                  /\ k.seats[i].bet = 0 /\ worth(k.seats[i]) = 0
                  /\ k.acted = t.acted \ {i} /\ k.leave = t.leave \ {i}
                  /\ k.contributors = t.contributors \ {i}
             /\ k \in Tables /\ k.rit = t.rit /\ k.board = t.board /\ k.button = t.button
             /\ k.phase.tag = t.phase.tag
             /\ k.phase \in {t.phase, remove_seat_from_phase(t.phase, i)}
<1> DEFINE k == kick_seat_raw(t, i)
           s == t.seats[i]
           n == [VacantSeat EXCEPT !.kind = "departed", !.total = s.total]
           q == remove_seat_from_phase(t.phase, i)
<1>1. CASE i \notin occupied_seats(t)
  <2>1. k = t
    BY <1>1 DEF kick_seat_raw
  <2>2. QED
    BY <1>1, <2>1
<1>2. CASE i \in occupied_seats(t)
  <2>1. k = [t EXCEPT !.pot = @ + s.bet, !.chip_pool = @ - s.stack - s.addon, !.seats[i] = n,
                      !.acted = @ \ {i}, !.leave = @ \ {i}, !.shown = @ \ {i}, !.contributors = @ \ {i},
                      !.phase = q]
    BY <1>2 DEF kick_seat_raw
  <2>2. /\ t.seats \in [Seats -> SeatRecords] /\ s \in SeatRecords /\ t.pot \in Nat /\ t.chip_pool \in Int
        /\ t.phase \in Phases
    BY DEF Tables
  <2>3. s.stack \in Nat /\ s.bet \in Nat /\ s.total \in Nat /\ s.addon \in Nat
    BY <2>2, SeatFields
  <2>4. n \in SeatRecords /\ n.kind = "departed" /\ n.total = s.total /\ n.bet = 0 /\ n.stack = 0 /\ n.addon = 0
    BY <2>3, VacantSeatIs DEF SeatRecords, Kinds
  <2>5. q \in Phases /\ q.tag = t.phase.tag
    BY <2>2, RemoveSeat
  <2>6. t.pot + s.bet \in Nat /\ t.chip_pool - s.stack - s.addon \in Int
    BY <2>2, <2>3
  <2> HIDE DEF q, n, k
  <2>7. /\ k \in Tables /\ k.phase = q /\ k.pot = t.pot + s.bet
        /\ k.chip_pool = t.chip_pool - s.stack - s.addon
        /\ k.seats = [t.seats EXCEPT ![i] = n] /\ k.rit = t.rit /\ k.board = t.board /\ k.button = t.button
        /\ k.acted = t.acted \ {i} /\ k.leave = t.leave \ {i} /\ k.contributors = t.contributors \ {i}
    BY <2>1, <2>2, <2>4, <2>5, <2>6 DEF Tables
  <2>8. k.seats[i] = n /\ \A j \in Seats \ {i} : k.seats[j] = t.seats[j]
    BY <2>2, <2>7
  <2>9. worth(n) = 0
    BY <2>4 DEF worth
  <2>10. QED
    BY <1>2, <2>4, <2>5, <2>7, <2>8, <2>9 DEF k, q
<1>3. QED
  BY <1>1, <1>2

LEMMA KickRawSound ==
  ASSUME NEW t, Sound(t), NEW i \in Seats
  PROVE  LET k == kick_seat_raw(t, i)
         IN  Sound(k) /\ k.phase.tag = t.phase.tag /\ Surplus(k) = Surplus(t)
<1> DEFINE k == kick_seat_raw(t, i)
<1>1. t \in Tables /\ Ledger(t) /\ Covered(t) /\ Capped(t) /\ Vacated(t) /\ Quiet(t) /\ Owed(t)
  BY DEF Sound, Solid
<1>2. CASE i \notin occupied_seats(t)
  BY <1>1, <1>2, KickRawIs
<1>3. CASE i \in occupied_seats(t)
  <2> DEFINE s == t.seats[i]
  <2>1. /\ k \in Tables /\ k.phase = remove_seat_from_phase(t.phase, i) /\ k.pot = t.pot + s.bet
        /\ k.chip_pool = t.chip_pool - s.stack - s.addon /\ k.phase.tag = t.phase.tag
        /\ \A j \in Seats \ {i} : k.seats[j] = t.seats[j]
        /\ k.seats[i].kind = "departed" /\ k.seats[i].total = s.total
        /\ k.seats[i].bet = 0 /\ worth(k.seats[i]) = 0 /\ k.contributors = t.contributors \ {i}
    BY <1>1, <1>3, KickRawIs
  <2>2. /\ s \in SeatRecords /\ t.pot \in Nat /\ t.chip_pool \in Int /\ t.phase \in Phases
    BY <1>1 DEF Tables
  <2> HIDE DEF k
  <2>11. /\ t.phase.tag \in {"shuffling", "revealing"} => k.phase.purpose = t.phase.purpose
         /\ t.phase.tag \in {"shuffling", "reconstructing"} => k.phase.pending = t.phase.pending \ {i}
    <3> DEFINE p == t.phase
    <3>1. p \in Phases /\ k.phase = remove_seat_from_phase(p, i)
      BY <2>1, <2>2
    <3> HIDE DEF p
    <3>2. p.tag \in {"shuffling", "revealing"} => k.phase.purpose = p.purpose
      BY <3>1, RemoveSeatPurpose
    <3>4. p.tag \in {"shuffling", "reconstructing"} => k.phase.pending = p.pending \ {i}
      BY <3>1, RemoveSeat
    <3>5. QED
      BY <3>2, <3>4 DEF p
  <2>3. /\ Worth(k) = Worth(t) - worth(s) + worth(k.seats[i])
        /\ Wagers(k) = Wagers(t) - wager(s) + wager(k.seats[i])
    BY <1>1, <2>1, OneSeat
  <2>4. Worth(t) \in Nat /\ Wagers(t) \in Int
    BY <1>1, SumsOf
  <2>5. Ledger(k) /\ Covered(k) /\ Capped(k) /\ Surplus(k) = Surplus(t)
    <3>1. /\ s.stack \in Nat /\ s.bet \in Nat /\ s.total \in Nat /\ s.addon \in Nat /\ MaxTotalBet \in Nat
      BY <2>2, SeatFields, TableAssumption
    <3>2. /\ worth(s) = s.stack + s.addon + s.bet /\ wager(s) = s.total - s.bet
          /\ wager(k.seats[i]) = s.total
      BY <2>1, <3>1 DEF worth, wager
    <3> HIDE DEF s
    <3>3. /\ Worth(k) = Worth(t) - (s.stack + s.addon + s.bet)
          /\ Wagers(k) = Wagers(t) + s.bet
      BY <2>1, <2>3, <2>4, <3>1, <3>2
    <3>4. Ledger(k)
      BY <1>1, <2>1, <2>2, <2>4, <3>1, <3>3 DEF Ledger
    <3>5. Surplus(k) = Surplus(t)
      BY <2>1, <2>2, <2>4, <3>1, <3>3 DEF Surplus
    <3>6. QED
      BY <1>1, <2>1, <2>2, <2>4, <3>1, <3>3, <3>4, <3>5 DEF Covered, Capped
  <2>6. Vacated(k)
    <3>1. SUFFICES ASSUME NEW j \in Seats
                   PROVE  /\ k.seats[j].kind \in {"vacant", "departed"} =>
                               worth(k.seats[j]) = 0 /\ j \notin k.contributors
                          /\ k.seats[j].kind = "vacant" => k.seats[j].total = 0
      BY DEF Vacated
    <3>2. CASE j = i
      BY <2>1, <3>2
    <3>3. CASE j # i
      BY <1>1, <2>1, <3>3 DEF Vacated
    <3>4. QED
      BY <3>2, <3>3
  <2>7. active_seats(k) = active_seats(t) \ {i}
    BY <2>1 DEF active_seats, of_kind
  <2>8. Quiet(k)
    <3>1. NoBets(t) => NoBets(k)
      BY <2>1 DEF NoBets
    <3>2. NoWagers(t) => NoWagers(k)
      BY <2>1 DEF NoWagers
    <3>3. Unopened(k.phase) <=> Unopened(t.phase)
      BY <2>1, <2>11 DEF Unopened
    <3>4. QED
      BY <1>1, <2>1, <3>1, <3>2, <3>3 DEF Quiet
  <2>9. Owed(k)
    <3>1. CASE t.phase.tag = "revealing"
      <4>1. k.phase.assign = [a \in DOMAIN t.phase.assign |-> t.phase.assign[a] \ {i}]
        BY <2>1, <2>2, <3>1, RemoveSeat
      <4>2. pending_revealers(t) \subseteq active_seats(t)
        BY <1>1, <3>1 DEF Owed, in_phase
      <4>3. \A a \in DOMAIN t.phase.assign : t.phase.assign[a] \subseteq active_seats(t)
        BY <4>2 DEF pending_revealers, Range
      <4>4. \A a \in DOMAIN k.phase.assign : k.phase.assign[a] \subseteq active_seats(k)
        BY <2>7, <4>1, <4>3
      <4>5. pending_revealers(k) \subseteq active_seats(k)
        BY <4>4, PendingIn
      <4>6. QED
        BY <2>1, <3>1, <4>5 DEF Owed, in_phase
    <3>2. CASE t.phase.tag # "revealing"
      <4>2. CASE t.phase.tag \in {"shuffling", "reconstructing"}
        BY <1>1, <2>1, <2>7, <2>11, <4>2 DEF Owed, in_phase
      <4>3. CASE t.phase.tag \notin {"shuffling", "reconstructing"}
        BY <2>1, <3>2, <4>3 DEF Owed, in_phase
      <4>4. QED
        BY <4>2, <4>3
    <3>3. QED
      BY <3>1, <3>2
  <2>10. QED
    BY <2>1, <2>5, <2>6, <2>8, <2>9 DEF Sound, Solid, k
<1>4. QED
  BY <1>2, <1>3

LEMMA LowPlayerSound ==
  ASSUME NEW t, Sound(t)
  PROVE  /\ Sound(low_player_cascade(t))
         /\ low_player_cascade(t) = t \/ low_player_cascade(t).phase.tag = "waiting"
<1>1. t \in Tables /\ Covered(t) /\ Capped(t) /\ Waiting.tag = "waiting"
  BY DEF Sound, Solid, Waiting
<1>2. low_player_cascade(t) \in {t, end_without_showdown(t), reset_for_next_hand(t)}
  BY DEF low_player_cascade
<1>3. QED
  BY <1>1, <1>2, EndSound, ResetSound

LEMMA KickSound ==
  ASSUME NEW t, Sound(t), NEW i \in Seats
  PROVE  /\ Sound(kick_player_internal(t, i))
         /\ ~is_error(t) => ~is_error(kick_player_internal(t, i))
<1> DEFINE k == kick_seat_raw(t, i)
           a == advance_shuffle(k)
           b == advance_turn(k)
           e == end_without_showdown(k)
<1>1. Sound(k) /\ k.phase.tag = t.phase.tag /\ k \in Tables /\ Covered(k) /\ Capped(k) /\ Solid(k)
  BY KickRawSound DEF Sound, Solid
<1>2. kick_player_internal(t, i) =
        CASE current_shuffler(t) = i -> low_player_cascade(a)
          [] current_turn(t) = i -> IF few_live(k, 1) THEN e ELSE low_player_cascade(b)
          [] OTHER -> low_player_cascade(k)
  BY DEF kick_player_internal, kick_cascades
<1>3. NO_SEAT \notin Seats /\ Waiting.tag = "waiting"
  BY SeatsFinite DEF Waiting
<1>4. current_shuffler(t) = i => Sound(a) /\ a.phase.tag \in {"shuffling", "revealing"}
  <2>1. current_shuffler(t) = i => t.phase.tag = "shuffling"
    BY <1>3 DEF current_shuffler, in_phase
  <2> HIDE DEF k
  <2>2. QED
    BY <1>1, <2>1, AdvanceShuffleSound
<1>5. current_turn(t) = i => Sound(b) /\ b.phase.tag \in {"waiting", "revealing", "betting"}
  <2>1. current_turn(t) = i => t.phase.tag = "betting"
    BY <1>3 DEF current_turn, in_phase
  <2> HIDE DEF k
  <2>2. QED
    BY <1>1, <2>1, AdvanceTurnSound
<1>6. Sound(e) /\ e.phase.tag = "waiting"
  BY <1>1, <1>3, EndSound
<1> HIDE DEF a, b, e, k
<1>7. CASE current_shuffler(t) = i
  <2>1. current_turn(t) # i
    BY <1>3, <1>7 DEF current_shuffler, current_turn, in_phase
  <2>2. kick_player_internal(t, i) = low_player_cascade(a)
    BY <1>2, <1>7, <2>1
  <2>3. QED
    BY <1>4, <1>7, <2>2, LowPlayerSound DEF is_error, in_phase
<1>8. CASE current_shuffler(t) # i /\ current_turn(t) = i
  <2>1. kick_player_internal(t, i) \in {e, low_player_cascade(b)}
    BY <1>2, <1>8
  <2>2. QED
    BY <1>5, <1>6, <1>8, <2>1, LowPlayerSound DEF is_error, in_phase
<1>9. CASE current_shuffler(t) # i /\ current_turn(t) # i
  <2>1. kick_player_internal(t, i) = low_player_cascade(k)
    BY <1>2, <1>9
  <2>2. QED
    BY <1>1, <2>1, LowPlayerSound DEF is_error, in_phase
<1>10. QED
  BY <1>7, <1>8, <1>9

\* What every kick keeps, a series of kicks keeps.
LEMMA KickAllRawIn ==
  ASSUME NEW Z, NEW t \in Z, NEW S,
         \A u \in Z, i \in Seats : kick_seat_raw(u, i) \in Z
  PROVE  kick_all_raw(t, S) \in Z
<1> DEFINE F == [x \in (1..MaxPlayers) \X Z |->
                   IF x[1] - 1 \in S THEN kick_seat_raw(x[2], x[1] - 1) ELSE x[2]]
           h == CHOOSE f : f = [n \in 0..MaxPlayers |->
                   IF n = 0 THEN t ELSE IF n - 1 \in S THEN kick_seat_raw(f[n - 1], n - 1) ELSE f[n - 1]]
<1>0. kick_all_raw(t, S) = h[MaxPlayers]
  BY DEF kick_all_raw
<1>1. MaxPlayers \in Nat /\ \A n \in 1..MaxPlayers : n - 1 \in Seats
  BY SeatsFinite DEF Seats
<1>2. F \in [(1..MaxPlayers) \X Z -> Z]
  BY <1>1
<1>3. PICK f \in [0..MaxPlayers -> Z] : Iterates(f, MaxPlayers, t, F)
  <2> HIDE DEF F
  <2>1. QED
    BY <1>1, <1>2, IteratesExist
<1>4. \A n \in 0..MaxPlayers : f[n] = IF n = 0 THEN t ELSE F[<<n, f[n - 1]>>]
  BY <1>3 DEF Iterates
<1>5. \A n \in 0..MaxPlayers :
        f[n] = IF n = 0 THEN t ELSE IF n - 1 \in S THEN kick_seat_raw(f[n - 1], n - 1) ELSE f[n - 1]
  <2>1. ASSUME NEW n \in 1..MaxPlayers
        PROVE  F[<<n, f[n - 1]>>] = IF n - 1 \in S THEN kick_seat_raw(f[n - 1], n - 1) ELSE f[n - 1]
    <3>1. n - 1 \in 0..MaxPlayers /\ f[n - 1] \in Z
      BY <1>1, <1>3
    <3>2. QED
      BY <3>1
  <2>2. \A n \in 0..MaxPlayers : n # 0 => n \in 1..MaxPlayers
    BY <1>1
  <2> HIDE DEF F
  <2>3. QED
    BY <1>4, <2>1, <2>2
<1>6. f = [n \in 0..MaxPlayers |->
             IF n = 0 THEN t ELSE IF n - 1 \in S THEN kick_seat_raw(f[n - 1], n - 1) ELSE f[n - 1]]
  BY <1>3, <1>5
<1>7. h = [n \in 0..MaxPlayers |->
             IF n = 0 THEN t ELSE IF n - 1 \in S THEN kick_seat_raw(h[n - 1], n - 1) ELSE h[n - 1]]
  BY <1>6
<1> HIDE DEF h, F
<1>8. h[0] \in Z
  BY <1>1, <1>7
<1>9. ASSUME NEW n \in 1..MaxPlayers, h[n - 1] \in Z
      PROVE  h[n] \in Z
  <2>1. h[n] = IF n - 1 \in S THEN kick_seat_raw(h[n - 1], n - 1) ELSE h[n - 1]
    BY <1>1, <1>7
  <2>2. QED
    BY <1>1, <1>9, <2>1
<1>10. \A n \in 0..MaxPlayers : h[n] \in Z
  BY <1>1, <1>8, <1>9, StepByStep
<1>11. QED
  BY <1>0, <1>1, <1>10

\* The same for kicks with all consequences.
LEMMA KickAllIn ==
  ASSUME NEW Z, NEW t \in Z, NEW S,
         \A u \in Z, i \in Seats : kick_player_internal(u, i) \in Z
  PROVE  kick_all(t, S) \in Z
<1> DEFINE F == [x \in (1..MaxPlayers) \X Z |->
                   IF x[1] - 1 \in S THEN kick_player_internal(x[2], x[1] - 1) ELSE x[2]]
           h == CHOOSE f : f = [n \in 0..MaxPlayers |->
                   IF n = 0 THEN t ELSE IF n - 1 \in S THEN kick_player_internal(f[n - 1], n - 1) ELSE f[n - 1]]
<1>0. kick_all(t, S) = h[MaxPlayers]
  BY DEF kick_all
<1>1. MaxPlayers \in Nat /\ \A n \in 1..MaxPlayers : n - 1 \in Seats
  BY SeatsFinite DEF Seats
<1>2. F \in [(1..MaxPlayers) \X Z -> Z]
  BY <1>1
<1>3. PICK f \in [0..MaxPlayers -> Z] : Iterates(f, MaxPlayers, t, F)
  <2> HIDE DEF F
  <2>1. QED
    BY <1>1, <1>2, IteratesExist
<1>4. \A n \in 0..MaxPlayers : f[n] = IF n = 0 THEN t ELSE F[<<n, f[n - 1]>>]
  BY <1>3 DEF Iterates
<1>5. \A n \in 0..MaxPlayers :
        f[n] = IF n = 0 THEN t ELSE IF n - 1 \in S THEN kick_player_internal(f[n - 1], n - 1) ELSE f[n - 1]
  <2>1. ASSUME NEW n \in 1..MaxPlayers
        PROVE  F[<<n, f[n - 1]>>] = IF n - 1 \in S THEN kick_player_internal(f[n - 1], n - 1) ELSE f[n - 1]
    <3>1. n - 1 \in 0..MaxPlayers /\ f[n - 1] \in Z
      BY <1>1, <1>3
    <3>2. QED
      BY <3>1
  <2>2. \A n \in 0..MaxPlayers : n # 0 => n \in 1..MaxPlayers
    BY <1>1
  <2> HIDE DEF F
  <2>3. QED
    BY <1>4, <2>1, <2>2
<1>6. f = [n \in 0..MaxPlayers |->
             IF n = 0 THEN t ELSE IF n - 1 \in S THEN kick_player_internal(f[n - 1], n - 1) ELSE f[n - 1]]
  BY <1>3, <1>5
<1>7. h = [n \in 0..MaxPlayers |->
             IF n = 0 THEN t ELSE IF n - 1 \in S THEN kick_player_internal(h[n - 1], n - 1) ELSE h[n - 1]]
  BY <1>6
<1> HIDE DEF h, F
<1>8. h[0] \in Z
  BY <1>1, <1>7
<1>9. ASSUME NEW n \in 1..MaxPlayers, h[n - 1] \in Z
      PROVE  h[n] \in Z
  <2>1. h[n] = IF n - 1 \in S THEN kick_player_internal(h[n - 1], n - 1) ELSE h[n - 1]
    BY <1>1, <1>7
  <2>2. QED
    BY <1>1, <1>9, <2>1
<1>10. \A n \in 0..MaxPlayers : h[n] \in Z
  BY <1>1, <1>8, <1>9, StepByStep
<1>11. QED
  BY <1>0, <1>1, <1>10

LEMMA KickAllRawSound ==
  ASSUME NEW t, Sound(t), NEW S
  PROVE  Sound(kick_all_raw(t, S)) /\ kick_all_raw(t, S).phase.tag = t.phase.tag
<1> DEFINE Z == {u \in Tables : Sound(u) /\ u.phase.tag = t.phase.tag}
<1>1. t \in Z
  BY DEF Sound, Solid
<1>2. \A u \in Z, i \in Seats : kick_seat_raw(u, i) \in Z
  BY KickRawSound DEF Sound, Solid
<1>3. kick_all_raw(t, S) \in Z
  <2> HIDE DEF Z
  <2>1. QED
    BY <1>1, <1>2, KickAllRawIn
<1>4. QED
  BY <1>3

LEMMA KickAllSound ==
  ASSUME NEW t, Sound(t), NEW S
  PROVE  Sound(kick_all(t, S))
<1> DEFINE Z == {u \in Tables : Sound(u)}
<1>1. t \in Z
  BY DEF Sound, Solid
<1>2. \A u \in Z, i \in Seats : kick_player_internal(u, i) \in Z
  BY KickSound DEF Sound, Solid
<1>3. kick_all(t, S) \in Z
  <2> HIDE DEF Z
  <2>1. QED
    BY <1>1, <1>2, KickAllIn
<1>4. QED
  BY <1>3

-----------------------------------------------------------------------------
(* Timeouts.                                                               *)

LEMMA AfterTimeoutSound ==
  ASSUME NEW k, Sound(k), NEW next, Sound(next)
  PROVE  /\ Sound(after_timeout(k, next))
         /\ after_timeout(k, next) = next \/ after_timeout(k, next).phase.tag = "waiting"
<1>1. k \in Tables /\ Covered(k) /\ Capped(k) /\ Waiting.tag = "waiting"
  BY DEF Sound, Solid, Waiting
<1>2. after_timeout(k, next) \in {give_up(k), end_without_showdown(k), next}
  BY DEF after_timeout
<1>3. QED
  BY <1>1, <1>2, EndSound, GiveUpSound

LEMMA ShuffleTimeoutSound ==
  ASSUME NEW t, Sound(t), t.phase.tag = "shuffling", t.phase.pending # {}
  PROVE  Sound(on_shuffle_timeout(t))
<1> DEFINE i == current_shuffler(t)
           k == kick_player_internal(t, i)
           r == rebuild_deck_and_shuffle_on_timeout(k)
<1>1. i \in Seats
  <2>1. t.phase.pending \in SUBSET Seats
    BY ShuffleFields DEF Sound, Solid
  <2>2. i = Min(t.phase.pending)
    BY DEF current_shuffler, in_phase
  <2>3. QED
    BY <2>1, <2>2, MinSeat
<1>2. Sound(k)
  BY <1>1, KickSound
<1>3. on_shuffle_timeout(t) =
        after_timeout(k, IF in_phase(k, "shuffling") THEN advance_shuffle(r) ELSE k)
  BY DEF on_shuffle_timeout, restart_shuffle
<1>4. in_phase(k, "shuffling") => Sound(advance_shuffle(r))
  <2> HIDE DEF k
  <2>1. in_phase(k, "shuffling") => Sound(r) /\ r.phase.tag = "shuffling"
    BY <1>2, RebuildSound DEF in_phase
  <2> HIDE DEF r
  <2>2. QED
    BY <2>1, AdvanceShuffleSound
<1> HIDE DEF k, r
<1>5. QED
  BY <1>2, <1>3, <1>4, AfterTimeoutSound

LEMMA RevealTimeoutSound ==
  ASSUME NEW t, Sound(t), t.phase.tag = "revealing"
  PROVE  Sound(on_reveal_timeout(t))
<1> DEFINE k == kick_all_raw(t, pending_revealers(t))
<1>1. Sound(k) /\ k.phase.tag = "revealing"
  BY KickAllRawSound
<1>2. on_reveal_timeout(t) =
        after_timeout(k, IF k.phase.purpose = "hole" THEN reset_for_next_hand(k) ELSE start_reconstruct(k))
  BY DEF on_reveal_timeout, restart_reveal
<1> HIDE DEF k
<1>3. Sound(reset_for_next_hand(k))
  BY <1>1, ResetSound DEF Sound, Solid
<1>4. k.phase.purpose # "hole" => Sound(start_reconstruct(k))
  BY <1>1, StartReconstructSound
<1>5. QED
  BY <1>1, <1>2, <1>3, <1>4, AfterTimeoutSound

LEMMA ReconstructTimeoutSound ==
  ASSUME NEW t, Sound(t)
  PROVE  Sound(on_reconstruct_timeout(t))
<1> DEFINE k == kick_all(t, t.phase.pending)
<1>1. Sound(k)
  BY KickAllSound
<1>2. on_reconstruct_timeout(t) =
        after_timeout(k, IF t.phase.contributed THEN on_complete_reconstruct(k) ELSE give_up(k))
  BY DEF on_reconstruct_timeout, restart_deck
<1> HIDE DEF k
<1>3. Sound(on_complete_reconstruct(k)) /\ Sound(give_up(k))
  BY <1>1, CompleteReconstructSound, GiveUpSound
<1>4. QED
  BY <1>1, <1>2, <1>3, AfterTimeoutSound

\* One seat changes its kind, its time bank or its bet.
SeatChanges(t, u, i) ==
  /\ u \in Tables /\ u.pot = t.pot /\ u.chip_pool = t.chip_pool /\ u.contributors = t.contributors
  /\ worth(u.seats[i]) = worth(t.seats[i]) /\ wager(u.seats[i]) = wager(t.seats[i])
  /\ u.seats[i].kind \in {"vacant", "departed"} =>
       u.seats[i].kind = t.seats[i].kind /\ u.seats[i].total = t.seats[i].total
  /\ \A j \in Seats \ {i} : u.seats[j] = t.seats[j]

LEMMA SeatChange ==
  ASSUME NEW t, Solid(t), NEW i \in Seats, NEW u, SeatChanges(t, u, i)
  PROVE  Solid(u) /\ Surplus(u) = Surplus(t)
<1>1. t \in Tables /\ Vacated(t) /\ u \in Tables /\ u.pot = t.pot /\ u.chip_pool = t.chip_pool
      /\ u.contributors = t.contributors
  BY DEF Solid, SeatChanges
<1>3. \A j \in Seats : worth(u.seats[j]) = worth(t.seats[j]) /\ wager(u.seats[j]) = wager(t.seats[j])
  BY DEF SeatChanges
<1>4. Vacated(u)
  <2>1. SUFFICES ASSUME NEW j \in Seats, u.seats[j].kind \in {"vacant", "departed"}
                 PROVE  worth(u.seats[j]) = 0
                        /\ j \notin u.contributors /\ (u.seats[j].kind = "vacant" => u.seats[j].total = 0)
    BY DEF Vacated
  <2>2. u.seats[j].kind = t.seats[j].kind /\ u.seats[j].total = t.seats[j].total
    BY <2>1 DEF SeatChanges
  <2>3. QED
    BY <1>1, <1>3, <2>1, <2>2 DEF Vacated
<1>5. Solid(u)
  BY <1>1, <1>3, <1>4, SameMoney
<1>6. Worth(u) = Worth(t)
  BY <1>1, <1>3, SameChips
<1>7. QED
  BY <1>1, <1>5, <1>6 DEF Surplus

\* A seat folds.
Folded(t, i) == [t EXCEPT !.seats[i].kind = "folded", !.acted = @ \cup {i}]

LEMMA FoldedIs ==
  ASSUME NEW t, Solid(t), NEW i \in Seats
  PROVE  LET f == Folded(t, i)
         IN  /\ Solid(f) /\ f.phase = t.phase /\ f.rit = t.rit /\ f.board = t.board
             /\ f.acted = t.acted \cup {i} /\ f.leave = t.leave
             /\ f.seats[i].kind = "folded" /\ f.seats[i].bet = t.seats[i].bet /\ f.seats[i].total = t.seats[i].total
             /\ \A j \in Seats \ {i} : f.seats[j] = t.seats[j]
             /\ Surplus(f) = Surplus(t)
<1> DEFINE f == Folded(t, i)
           s == [t.seats[i] EXCEPT !.kind = "folded"]
           seats == [t.seats EXCEPT ![i] = s]
<1>1. t \in Tables /\ t.seats \in [Seats -> SeatRecords] /\ t.seats[i] \in SeatRecords
  BY DEF Solid, Tables
<1>2. /\ s \in SeatRecords /\ s.kind = "folded" /\ s.stack = t.seats[i].stack /\ s.bet = t.seats[i].bet
      /\ s.total = t.seats[i].total /\ s.addon = t.seats[i].addon
  BY <1>1 DEF SeatRecords, Kinds
<1>3. worth(s) = worth(t.seats[i]) /\ wager(s) = wager(t.seats[i])
  BY <1>2 DEF worth, wager
<1>4. f = [t EXCEPT !.seats = seats, !.acted = t.acted \cup {i}]
  BY <1>1 DEF Folded, Tables
<1> HIDE DEF s
<1>5. seats \in [Seats -> SeatRecords]
  BY <1>1, <1>2
<1> HIDE DEF seats, f
<1>6. /\ f \in Tables /\ f.seats = seats /\ f.pot = t.pot /\ f.chip_pool = t.chip_pool
      /\ f.contributors = t.contributors
      /\ f.phase = t.phase /\ f.rit = t.rit /\ f.board = t.board /\ f.acted = t.acted \cup {i} /\ f.leave = t.leave
  BY <1>1, <1>4, <1>5 DEF Tables
<1>7. f.seats[i] = s /\ \A j \in Seats \ {i} : f.seats[j] = t.seats[j]
  BY <1>1, <1>6 DEF seats
<1>9. Solid(f) /\ Surplus(f) = Surplus(t)
  <2>1. SeatChanges(t, f, i)
    BY <1>2, <1>3, <1>6, <1>7 DEF SeatChanges
  <2>2. QED
    BY <2>1, SeatChange
<1>8. QED
  BY <1>2, <1>6, <1>7, <1>9 DEF f

LEMMA FoldSound ==
  ASSUME NEW t, Solid(t), t.phase.tag = "betting", NEW i \in Seats
  PROVE  Sound(apply_fold(t, i)) /\ apply_fold(t, i).phase.tag \in {"waiting", "revealing", "betting"}
<1> DEFINE f == Folded(t, i)
<1>1. apply_fold(t, i) = IF few_live(f, 1) THEN end_without_showdown(f) ELSE advance_turn(f)
  BY DEF apply_fold, Folded
<1>2. Solid(f) /\ f.phase = t.phase
  BY FoldedIs
<1> HIDE DEF f
<1>3. Sound(end_without_showdown(f)) /\ end_without_showdown(f).phase.tag = "waiting"
  <2>1. f \in Tables /\ Covered(f) /\ Capped(f) /\ Waiting.tag = "waiting"
    BY <1>2 DEF Solid, Waiting
  <2>2. QED
    BY <2>1, EndSound
<1>4. QED
  BY <1>1, <1>2, <1>3, AdvanceTurnSound

LEMMA BettingTimeoutSound ==
  ASSUME NEW t, Sound(t), t.phase.tag = "betting", t.phase.turn \in Seats
  PROVE  /\ Sound(on_betting_timeout(t))
         /\ on_betting_timeout(t).phase.tag \in {"waiting", "revealing", "betting"}
         /\ t.seats[t.phase.turn].bank > 0 => /\ Surplus(on_betting_timeout(t)) = Surplus(t)
                                               /\ on_betting_timeout(t).phase = t.phase
<1> DEFINE i == t.phase.turn
           s0 == t.seats[i]
           b == s0.bank - Min({s0.bank, BettingTimeout})
           s == [s0 EXCEPT !.bank = b]
           u == [t EXCEPT !.seats[i].bank = @ - Min({@, BettingTimeout})]
<1>1. Solid(t) /\ t \in Tables /\ t.seats \in [Seats -> SeatRecords] /\ s0 \in SeatRecords
  BY DEF Sound, Solid, Tables
<1>2. CASE s0.bank > 0
  <2>1. on_betting_timeout(t) = u
    BY <1>2 DEF on_betting_timeout
  <2>2. s0.bank \in 0..TimeBank /\ TimeBank \in Nat /\ BettingTimeout \in Nat
    BY <1>1, SeatFields, TableAssumption
  <2>3. Min({s0.bank, BettingTimeout}) = IF s0.bank <= BettingTimeout THEN s0.bank ELSE BettingTimeout
    BY <2>2, MinPair
  <2>4. b \in 0..TimeBank
    BY <2>2, <2>3
  <2>5. u = [t EXCEPT !.seats = [t.seats EXCEPT ![i] = s]]
    BY <1>1 DEF Tables, SeatRecords
  <2> HIDE DEF b, u
  <2>6. /\ s \in SeatRecords /\ worth(s) = worth(s0) /\ wager(s) = wager(s0) /\ s.kind = s0.kind /\ s.total = s0.total
    BY <1>1, <2>4 DEF SeatRecords, worth, wager
  <2> HIDE DEF s
  <2>7. [t.seats EXCEPT ![i] = s] \in [Seats -> SeatRecords]
    BY <1>1, <2>6
  <2>8. /\ u \in Tables /\ u.seats = [t.seats EXCEPT ![i] = s] /\ u.pot = t.pot /\ u.chip_pool = t.chip_pool
        /\ u.contributors = t.contributors
        /\ u.phase = t.phase
    BY <1>1, <2>5, <2>7 DEF Tables
  <2>9. Solid(u) /\ Surplus(u) = Surplus(t)
    <3>1. u.seats[i] = s /\ \A j \in Seats \ {i} : u.seats[j] = t.seats[j]
      BY <1>1, <2>8
    <3>2. SeatChanges(t, u, i)
      BY <2>6, <2>8, <3>1 DEF SeatChanges
    <3>3. QED
      BY <1>1, <3>2, SeatChange
  <2>10. Sound(u)
    BY <2>8, <2>9, BettingSound
  <2>11. QED
    BY <2>1, <2>8, <2>9, <2>10
<1>3. CASE ~(s0.bank > 0)
  <2>1. on_betting_timeout(t) = apply_fold(t, i)
    BY <1>3 DEF on_betting_timeout
  <2>2. QED
    BY <1>1, <1>3, <2>1, FoldSound
<1>4. QED
  BY <1>2, <1>3

-----------------------------------------------------------------------------
(* Normalization.                                                          *)

LEMMA NormalizeStepSound ==
  ASSUME NEW t, Sound(t), t.phase.tag \in {"shuffling", "revealing", "reconstructing", "betting"}
  PROVE  Sound(normalize_step(t))
<1>1. Solid(t) /\ t \in Tables /\ Covered(t) /\ Capped(t)
  BY DEF Sound, Solid
<1>2. CASE t.phase.tag = "shuffling"
  <2>1. normalize_step(t) = advance_shuffle(t)
    BY <1>2 DEF normalize_step, in_phase
  <2>2. QED
    BY <1>2, <2>1, AdvanceShuffleSound
<1>3. CASE t.phase.tag = "revealing"
  <2>1. normalize_step(t) = check_reveal_phase_complete(t)
    BY <1>3 DEF normalize_step, in_phase
  <2>2. QED
    BY <1>3, <2>1, CheckRevealSound
<1>4. CASE t.phase.tag = "reconstructing"
  <2>1. normalize_step(t) \in {on_complete_reconstruct(t), failed(t)}
    BY <1>4 DEF normalize_step, in_phase
  <2>2. QED
    BY <1>1, <2>1, CompleteReconstructSound, FailedSound
<1>5. CASE t.phase.tag = "betting"
  <2>1. normalize_step(t) \in {end_without_showdown(t), close_round(t)}
    BY <1>5 DEF normalize_step, in_phase
  <2>2. QED
    BY <1>1, <1>5, <2>1, EndSound, CloseRoundSound
<1>6. QED
  BY <1>2, <1>3, <1>4, <1>5

\* Every step of the normalization leaves a sound table, if only one with an error.
LEMMA AdvanceOnceSound ==
  ASSUME NEW t, Sound(t)
  PROVE  Sound(advance_once(t))
<1>1. Solid(t) /\ t \in Tables /\ t.phase.tag \in PhaseTags \cup {"error"}
  BY PhaseOf DEF Sound, Solid, Tables
<1>2. CASE blocked(t)
  BY <1>2 DEF advance_once
<1>3. CASE ~blocked(t)
  <2>1. t.phase.tag \in {"shuffling", "revealing", "reconstructing", "betting"}
    BY <1>1, <1>3 DEF blocked, in_phase, PhaseTags
  <2>2. Sound(normalize_step(t))
    BY <2>1, NormalizeStepSound
  <2>3. advance_once(t) \in {failed(t), normalize_step(t)}
    BY <1>3 DEF advance_once, checked
  <2>4. QED
    BY <1>1, <2>2, <2>3, FailedSound
<1>4. QED
  BY <1>2, <1>3

\* What every step of the normalization keeps, the normalization keeps.
LEMMA NormalizeIn ==
  ASSUME NEW Z, NEW t \in Z,
         \A u \in Z : advance_once(u) \in Z
  PROVE  LET n == normalize_until_blocked(t)
         IN  (n \in Z /\ blocked(n)) \/ n = failed(t)
<1> DEFINE N == MaxSteps - 1
           F == [x \in (1..N) \X Z |-> advance_once(x[2])]
           h == CHOOSE f : f = [n \in 0 .. MaxSteps - 1 |-> IF n = 0 THEN t ELSE advance_once(f[n - 1])]
<1>0. normalize_until_blocked(t) = quiescent(t, h[MaxSteps - 1])
  BY DEF normalize_until_blocked
<1>1. N \in Nat
  BY TableAssumption
<1>3. F \in [(1..N) \X Z -> Z]
  OBVIOUS
<1> HIDE DEF N
<1>4. PICK f \in [0..N -> Z] : Iterates(f, N, t, F)
  <2> HIDE DEF F
  <2>1. QED
    BY <1>1, <1>3, IteratesExist
<1>5. \A n \in 0..N : f[n] = IF n = 0 THEN t ELSE F[<<n, f[n - 1]>>]
  BY <1>4 DEF Iterates
<1>6. \A n \in 0..N : f[n] = IF n = 0 THEN t ELSE advance_once(f[n - 1])
  <2>1. ASSUME NEW n \in 1..N
        PROVE  F[<<n, f[n - 1]>>] = advance_once(f[n - 1])
    <3>1. n - 1 \in 0..N /\ f[n - 1] \in Z
      BY <1>1, <1>4
    <3>2. QED
      BY <3>1
  <2>2. \A n \in 0..N : n # 0 => n \in 1..N
    BY <1>1
  <2> HIDE DEF F
  <2>3. QED
    BY <1>5, <2>1, <2>2
<1>7. f = [n \in 0..N |-> IF n = 0 THEN t ELSE advance_once(f[n - 1])]
  BY <1>4, <1>6
<1>8. h = [n \in 0..N |-> IF n = 0 THEN t ELSE advance_once(h[n - 1])]
  BY <1>7 DEF N
<1>9. h[N] = h[MaxSteps - 1]
  BY DEF N
<1> HIDE DEF h, F
<1>10. h[0] \in Z
  BY <1>1, <1>8
<1>11. ASSUME NEW n \in 1..N, h[n - 1] \in Z
       PROVE  h[n] \in Z
  <2>1. h[n] = advance_once(h[n - 1])
    BY <1>1, <1>8
  <2>2. QED
    BY <1>11, <2>1
<1>12. \A n \in 0..N : h[n] \in Z
  BY <1>1, <1>10, <1>11, StepByStep
<1>13. h[N] \in Z
  BY <1>1, <1>12
<1>14. normalize_until_blocked(t) = IF valid_schema(t) /\ blocked(h[N]) THEN h[N] ELSE failed(t)
  BY <1>0, <1>9 DEF quiescent
<1>15. QED
  BY <1>13, <1>14

LEMMA NormalizeSound ==
  ASSUME NEW t, Sound(t)
  PROVE  /\ Sound(normalize_until_blocked(t))
         /\ is_error(normalize_until_blocked(t)) \/ blocked(normalize_until_blocked(t))
<1> DEFINE Z == {u \in Tables : Sound(u)}
           n == normalize_until_blocked(t)
<1>1. t \in Z /\ Solid(t)
  BY DEF Sound, Solid
<1>2. \A u \in Z : advance_once(u) \in Z
  BY AdvanceOnceSound DEF Sound, Solid
<1>3. (n \in Z /\ blocked(n)) \/ n = failed(t)
  <2> HIDE DEF Z
  <2>1. QED
    BY <1>1, <1>2, NormalizeIn
<1> HIDE DEF n
<1>4. Sound(n) /\ (is_error(n) \/ blocked(n))
  BY <1>1, <1>3, FailedSound
<1>5. QED
  BY <1>4 DEF n

\* A command that is accepted leaves a table at rest.
LEMMA KeptAtRest ==
  ASSUME NEW t, AtRest(t)
  PROVE  AtRest(kept(t, normalize_until_blocked(t)))
BY NormalizeSound DEF AtRest, kept

-----------------------------------------------------------------------------
(* Deadlines.                                                              *)

LEMMA TimeoutSound ==
  ASSUME NEW t, Sound(t), is_error(t) \/ blocked(t)
  PROVE  Sound(on_timeout(t))
<1>1. Solid(t) /\ t \in Tables /\ t.phase \in Phases
  BY DEF Sound, Solid, Tables
<1>2. CASE t.phase.tag = "shuffling"
  <2>1. on_timeout(t) = on_shuffle_timeout(t)
    BY <1>2 DEF on_timeout, in_phase
  <2>2. t.phase.pending # {}
    BY <1>2 DEF blocked, is_error, in_phase
  <2>3. QED
    BY <1>2, <2>1, <2>2, ShuffleTimeoutSound
<1>3. CASE t.phase.tag = "revealing"
  <2>1. on_timeout(t) = on_reveal_timeout(t)
    BY <1>3 DEF on_timeout, in_phase
  <2>2. QED
    BY <1>3, <2>1, RevealTimeoutSound
<1>4. CASE t.phase.tag = "reconstructing"
  <2>1. on_timeout(t) = on_reconstruct_timeout(t)
    BY <1>4 DEF on_timeout, in_phase
  <2>2. QED
    BY <2>1, ReconstructTimeoutSound
<1>5. CASE t.phase.tag = "betting"
  <2>1. on_timeout(t) = on_betting_timeout(t)
    BY <1>5 DEF on_timeout, in_phase
  <2>2. t.phase.turn # NO_SEAT
    BY <1>5 DEF blocked, is_error, in_phase
  <2>3. t.phase \in BettingPhases
    BY <1>1, <1>5, PhaseOf
  <2>4. t.phase.turn \in Seats
    BY <2>2, <2>3 DEF BettingPhases, Anyone
  <2>5. QED
    BY <1>5, <2>1, <2>4, BettingTimeoutSound
<1>6. CASE t.phase.tag \notin {"shuffling", "revealing", "reconstructing", "betting"}
  <2>1. on_timeout(t) = failed(t)
    BY <1>6 DEF on_timeout, in_phase
  <2>2. QED
    BY <1>1, <2>1, FailedSound
<1>7. QED
  BY <1>2, <1>3, <1>4, <1>5, <1>6

LEMMA DeadlineSound ==
  ASSUME NEW t, Sound(t)
  PROVE  Sound(on_deadline(t))
<1> DEFINE n == normalize_until_blocked(t)
           o == on_timeout(n)
<1>1. Sound(n) /\ (is_error(n) \/ blocked(n))
  BY NormalizeSound
<1> HIDE DEF n
<1>2. Sound(o)
  BY <1>1, TimeoutSound
<1> HIDE DEF o
<1>3. on_deadline(t) \in {o, normalize_until_blocked(o)}
  BY DEF on_deadline, normalized, o, n
<1>4. QED
  BY <1>2, <1>3, NormalizeSound

-----------------------------------------------------------------------------
(* What the vault holds beyond the chips the table owes, when a hand ends. *)

\* Seats that nobody sits on have no chips.
NoStrays(t) == \A i \in Seats : t.seats[i].kind \in {"vacant", "departed"} => worth(t.seats[i]) = 0

\* A hand that ends with no bets on the table keeps every chip but the pot.
LEMMA ResetExact ==
  ASSUME NEW t \in Tables, NoBets(t), NoStrays(t)
  PROVE  LET u == reset_for_next_hand(t)
         IN  /\ u \in Tables /\ Surplus(u) = Surplus(t) + t.pot
             /\ \A i \in Seats : u.seats[i] = reset_seat(t, i)
<1> DEFINE u == reset_for_next_hand(t)
           refund == [i \in Seats |-> Refund(t, i)]
           seats == [i \in Seats |-> reset_seat(t, i)]
<1>1. seats \in [Seats -> SeatRecords] /\ refund \in [Seats -> Nat] /\ refund \in [Seats -> Int]
  BY ResetSeat
<1>2. SumFunction(refund) \in Nat
  BY <1>1, SeatsFinite, SumFunctionType
<1>3. u = [t EXCEPT !.seats = seats, !.chip_pool = @ - SumFunction(refund),
                    !.pot = 0, !.board = 0, !.acted = {}, !.leave = {}, !.ledger = {}, !.shown = {},
                    !.rit = FALSE, !.contributors = next_contributors(t), !.phase = Waiting]
  BY DEF reset_for_next_hand, Refund
<1> HIDE DEF refund, seats, u
<1>4. u \in Tables /\ u.seats = seats /\ u.chip_pool = t.chip_pool - SumFunction(refund) /\ u.pot = 0
  <2>1. t.chip_pool - SumFunction(refund) \in Int /\ Waiting \in Phases
    BY <1>2, NewPhases DEF Tables
  <2>2. QED
    BY <1>1, <1>3, <2>1, NextContributors DEF Tables
<1>5. \A i \in Seats : Worths(t)[i] = Worths(u)[i] + refund[i]
  <2>1. SUFFICES ASSUME NEW i \in Seats PROVE worth(t.seats[i]) = worth(u.seats[i]) + Refund(t, i)
    BY DEF Worths, refund
  <2>2. u.seats[i] = reset_seat(t, i)
    BY <1>4 DEF seats
  <2>3. /\ worth(t.seats[i]) - Refund(t, i) - worth(reset_seat(t, i)) =
             IF i \in occupied_seats(t) THEN t.seats[i].bet ELSE worth(t.seats[i])
        /\ Refund(t, i) \in Nat /\ reset_seat(t, i) \in SeatRecords
    BY ResetSeat
  <2>4. t.seats[i] \in SeatRecords /\ worth(t.seats[i]) \in Nat /\ worth(reset_seat(t, i)) \in Nat
    BY <2>3, SumsOf, SeatFields
  <2>5. i \notin occupied_seats(t) => t.seats[i].kind \in {"vacant", "departed"}
    BY <2>4, SeatFields DEF occupied_seats, of_kind, Kinds
  <2>6. (IF i \in occupied_seats(t) THEN t.seats[i].bet ELSE worth(t.seats[i])) = 0
    BY <2>5 DEF NoBets, NoStrays
  <2>7. QED
    BY <2>2, <2>3, <2>4, <2>6
<1>6. Worth(t) = Worth(u) + SumFunction(refund)
  <2>1. /\ Worths(t) \in [Seats -> Int] /\ Worth(t) = SumFunction(Worths(t)) /\ IsFiniteSet(Seats)
        /\ Worths(u) \in [Seats -> Int] /\ Worth(u) = SumFunction(Worths(u))
    BY <1>4, SumsOf, SeatsFinite
  <2>2. SumFunction(Worths(t)) = SumFunction(Worths(u)) + SumFunction(refund)
    BY <1>1, <1>5, <2>1, SumFunctionPlus
  <2>3. QED
    BY <2>1, <2>2
<1>7. Worth(u) \in Nat /\ Worth(t) \in Nat /\ t.pot \in Nat /\ t.chip_pool \in Int
  BY <1>4, SumsOf DEF Tables
<1>8. Surplus(u) = Surplus(t) + t.pot
  BY <1>2, <1>4, <1>6, <1>7 DEF Surplus
<1>9. QED
  BY <1>4, <1>8 DEF u, seats

\* No seat gains in a reset but its own addon.
LEMMA ResetGainsNothing ==
  ASSUME NEW t \in Tables, NEW i \in Seats
  PROVE  reset_seat(t, i).stack <= t.seats[i].stack + t.seats[i].addon
<1> DEFINE s == t.seats[i]
<1>1. s \in SeatRecords /\ s.stack \in Nat /\ s.addon \in Nat
  BY SumsOf, SeatFields
<1>2. CASE i \notin occupied_seats(t) \ t.leave \/ s.stack + s.addon = 0
  <2>1. reset_seat(t, i) = VacantSeat
    BY <1>2 DEF reset_seat
  <2>2. QED
    BY <1>1, <2>1, VacantSeatIs
<1>3. CASE ~(i \notin occupied_seats(t) \ t.leave \/ s.stack + s.addon = 0)
  <2>1. reset_seat(t, i).stack = s.stack + s.addon
    BY <1>1, <1>3 DEF reset_seat, SeatRecords
  <2>2. QED
    BY <1>1, <2>1
<1>4. QED
  BY <1>2, <1>3

\* A table that waits, or shows a showdown, stays as a command left it.
LEMMA NothingToNormalize ==
  ASSUME NEW t \in Tables, t.phase.tag \in {"waiting", "showdown"}
  PROVE  /\ kept(t, normalize_until_blocked(t)) = t
         /\ normalize_until_blocked(t) = t \/ is_error(normalize_until_blocked(t))
<1>1. blocked(t) /\ advance_once(t) = t
  BY DEF blocked, in_phase, advance_once
<1>2. \A u \in {t} : advance_once(u) \in {t}
  BY <1>1
<1>3. normalize_until_blocked(t) \in {t, failed(t)}
  BY <1>2, NormalizeIn
<1>4. is_error(failed(t)) /\ ~is_error(t)
  BY DEF failed, is_error, in_phase, Tables
<1>5. QED
  BY <1>3, <1>4 DEF kept

-----------------------------------------------------------------------------
(* The course of a hand.  What follows is about who plays, who owes a      *)
(* decision and what the seats put in, rather than about chips.            *)

\* Nobody folded or went all-in before the blinds.
Fresh(t) ==
  Unopened(t.phase) => /\ ~t.rit
                       /\ \A i \in Seats : t.seats[i].kind \notin {"folded", "allin"}

\* Whoever can act has chips to act with.
Solvent(t) == \A i \in Seats : t.seats[i].kind \in {"waiting", "active"} => t.seats[i].stack > 0

\* The phases that open cards once the blinds are posted.
Dealing(p) ==
  \/ p.tag = "revealing" /\ p.purpose # "hole"
  \/ p.tag = "reconstructing"
  \/ p.tag = "shuffling" /\ p.purpose = "reconstruct"

\* Cards are opened for at least two players.
Contested(t) ==
  Dealing(t.phase) \/ (t.phase.tag = "revealing" /\ pending_revealers(t) # {}) => ~few_live(t, 1)

\* A second board is dealt only when at most one seat could still bet.
Sole(t) == Cardinality(actionable_seats(t)) <= 1
Twice(t) == t.rit => t.phase.tag # "betting" /\ ~Unopened(t.phase) /\ Sole(t)

\* What a seat may have put in without being called: a big blind ante.
Margin == IF AnteMode = "bba" THEN AnteAmount ELSE 0

\* A seat that could still bet has put in as much as any other in the hand.
Level(t) ==
  \A i \in actionable_seats(t), j \in live_seats(t) : t.seats[j].total <= t.seats[i].total + Margin
Closed(t) == Dealing(t.phase) \/ t.phase.tag = "showdown" => Level(t)

\* The same of what is in the pot, while bets are made; nobody bets more than
\* the price.
LevelPot(t) ==
  \A i \in actionable_seats(t), j \in live_seats(t) : wager(t.seats[j]) <= wager(t.seats[i]) + Margin
WithinBet(t) == \A j \in live_seats(t) : t.seats[j].bet <= t.phase.current_bet

\* The seats that owe a decision, and the order in which they are asked: those
\* that owe none come last.
Owing(t) == {i \in actionable_seats(t) : i \notin t.acted \/ t.seats[i].bet < t.phase.current_bet}
InLine(t, from) ==
  \A i \in Owing(t) \ {from}, j \in actionable_seats(t) \ {from} :
    Clockwise(from, j) < Clockwise(from, i) => j \in Owing(t)

Asked(t) ==
  \/ t.phase.turn = NO_SEAT /\ actionable_seats(t) = {}
  \/ t.phase.turn \in Owing(t) /\ InLine(t, t.phase.turn)
Round(t) == t.phase.tag = "betting" => LevelPot(t) /\ WithinBet(t) /\ Asked(t)

\* A table while kicks are under way, one during a normalization, and one
\* between commands.
Loose(t) == Fresh(t) /\ Solvent(t) /\ Twice(t) /\ Closed(t) /\ Round(t)
Regular(t) == Loose(t) /\ Contested(t)
Played(t) == t.phase.tag = "betting" => ~few_live(t, 1) /\ t.phase.turn # NO_SEAT
Steady(t) == Regular(t) /\ Played(t)

-----------------------------------------------------------------------------
(* Counting seats.                                                         *)

LEMMA FewSeats ==
  ASSUME NEW t, NEW u
  PROVE  /\ live_seats(u) \subseteq live_seats(t) /\ few_live(t, 1) => few_live(u, 1)
         /\ actionable_seats(u) \subseteq actionable_seats(t) /\ Sole(t) => Sole(u)
         /\ live_seats(t) = {} => few_live(t, 1)
         /\ Cardinality(live_seats(t)) \in Nat
         /\ ~few_live(t, 1) => live_seats(t) # {} /\ Cardinality(live_seats(t)) # 1
         /\ live_seats(t) # {} /\ Cardinality(live_seats(t)) # 1 => ~few_live(t, 1)
<1>1. /\ IsFiniteSet(Seats) /\ live_seats(t) \subseteq Seats /\ live_seats(u) \subseteq Seats
      /\ actionable_seats(t) \subseteq Seats /\ actionable_seats(u) \subseteq Seats
  BY SeatsFinite, KindSets
<1>2. /\ IsFiniteSet(live_seats(t)) /\ IsFiniteSet(live_seats(u))
      /\ IsFiniteSet(actionable_seats(t)) /\ IsFiniteSet(actionable_seats(u))
  BY <1>1, FS_Subset
<1>3. /\ Cardinality(live_seats(t)) \in Nat /\ Cardinality(live_seats(u)) \in Nat
      /\ Cardinality(actionable_seats(t)) \in Nat /\ Cardinality(actionable_seats(u)) \in Nat
  BY <1>2, FS_CardinalityType
<1>4. live_seats(u) \subseteq live_seats(t) => Cardinality(live_seats(u)) <= Cardinality(live_seats(t))
  BY <1>2, FS_Subset
<1>5. actionable_seats(u) \subseteq actionable_seats(t)
        => Cardinality(actionable_seats(u)) <= Cardinality(actionable_seats(t))
  BY <1>2, FS_Subset
<1>6. live_seats(t) = {} <=> Cardinality(live_seats(t)) = 0
  BY <1>2, FS_EmptySet
<1>7. QED
  BY <1>3, <1>4, <1>5, <1>6 DEF few_live, Sole

\* Two different players.
LEMMA TwoLive ==
  ASSUME NEW t, NEW i \in live_seats(t), NEW j \in live_seats(t), i # j
  PROVE  ~few_live(t, 1)
<1>1. IsFiniteSet(live_seats(t))
  BY SeatsFinite, KindSets, FS_Subset
<1>2. {i, j} \subseteq live_seats(t)
  OBVIOUS
<1>3. IsFiniteSet({i}) /\ Cardinality({i}) = 1
  BY FS_Singleton
<1>4. Cardinality({i} \cup {j}) = 2
  BY <1>3, FS_AddElement
<1>5. Cardinality({i} \cup {j}) <= Cardinality(live_seats(t))
  BY <1>1, <1>2, FS_Subset
<1>6. Cardinality(live_seats(t)) \in Nat
  BY <1>1, FS_CardinalityType
<1>7. QED
  BY <1>4, <1>5, <1>6 DEF few_live

\* Tables that differ in nothing a player would see of the bets.
SameView(t, u) ==
  \A i \in Seats : /\ u.seats[i].kind = t.seats[i].kind /\ u.seats[i].bet = t.seats[i].bet
                   /\ u.seats[i].total = t.seats[i].total

LEMMA ViewIs ==
  ASSUME NEW t, NEW u, SameView(t, u)
  PROVE  /\ active_seats(u) = active_seats(t) /\ live_seats(u) = live_seats(t)
         /\ actionable_seats(u) = actionable_seats(t) /\ occupied_seats(u) = occupied_seats(t)
         /\ \A ks : of_kind(u, ks) = of_kind(t, ks)
         /\ few_live(u, 1) <=> few_live(t, 1)
         /\ Sole(u) <=> Sole(t)
         /\ Level(u) <=> Level(t)
         /\ LevelPot(u) <=> LevelPot(t)
<1>1. \A ks : of_kind(u, ks) = of_kind(t, ks)
  BY DEF SameView, of_kind
<1>2. /\ active_seats(u) = active_seats(t) /\ live_seats(u) = live_seats(t)
      /\ actionable_seats(u) = actionable_seats(t) /\ occupied_seats(u) = occupied_seats(t)
  BY <1>1 DEF active_seats, live_seats, actionable_seats, occupied_seats
<1>3. actionable_seats(t) \subseteq Seats /\ live_seats(t) \subseteq Seats
  BY KindSets
<1>4. \A i \in Seats : u.seats[i].total = t.seats[i].total /\ wager(u.seats[i]) = wager(t.seats[i])
  BY DEF SameView, wager
<1>5. Level(u) <=> Level(t)
  BY <1>2, <1>3, <1>4 DEF Level
<1>6. LevelPot(u) <=> LevelPot(t)
  BY <1>2, <1>3, <1>4 DEF LevelPot
<1>7. QED
  BY <1>1, <1>2, <1>5, <1>6 DEF few_live, Sole

LEMMA ViewRound ==
  ASSUME NEW t, NEW u, SameView(t, u), u.phase = t.phase, u.acted = t.acted
  PROVE  /\ Owing(u) = Owing(t)
         /\ Round(u) <=> Round(t)
         /\ Played(u) <=> Played(t)
         /\ WithinBet(u) <=> WithinBet(t)
         /\ \A i : InLine(u, i) <=> InLine(t, i)
<1>1. actionable_seats(t) \subseteq Seats /\ live_seats(t) \subseteq Seats
  BY KindSets
<1>2. /\ actionable_seats(u) = actionable_seats(t) /\ live_seats(u) = live_seats(t)
      /\ few_live(u, 1) <=> few_live(t, 1)
      /\ LevelPot(u) <=> LevelPot(t)
  BY ViewIs
<1>3. Owing(u) = Owing(t)
  BY <1>1, <1>2 DEF Owing, SameView
<1>4. WithinBet(u) <=> WithinBet(t)
  BY <1>1, <1>2 DEF WithinBet, SameView
<1>5. \A i : InLine(u, i) <=> InLine(t, i)
  BY <1>2, <1>3 DEF InLine
<1>6. Asked(u) <=> Asked(t)
  BY <1>2, <1>3, <1>5 DEF Asked
<1>7. QED
  BY <1>2, <1>3, <1>4, <1>5, <1>6 DEF Round, Played

LEMMA ViewSteady ==
  ASSUME NEW t, NEW u, Steady(t), SameView(t, u), Solvent(u),
         u.phase = t.phase, u.acted = t.acted, u.rit = t.rit
  PROVE  Steady(u)
<1>1. /\ few_live(u, 1) <=> few_live(t, 1)
      /\ Sole(u) <=> Sole(t)
      /\ Level(u) <=> Level(t)
  BY ViewIs
<1>2. (Round(u) <=> Round(t)) /\ (Played(u) <=> Played(t))
  BY ViewRound
<1>3. Fresh(u)
  BY DEF Fresh, SameView, Steady, Regular, Loose
<1>4. Twice(u) /\ Closed(u)
  BY <1>1 DEF Twice, Closed, Steady, Regular, Loose
<1>5. Contested(u)
  BY <1>1 DEF Contested, pending_revealers, Steady, Regular
<1>6. QED
  BY <1>2, <1>3, <1>4, <1>5 DEF Steady, Regular, Loose

-----------------------------------------------------------------------------
(* Between hands, and cards being opened.                                  *)

Between(t) ==
  /\ t.phase = Waiting /\ ~t.rit /\ Solvent(t)
  /\ \A i \in Seats : t.seats[i].kind \notin {"folded", "allin"}

LEMMA BetweenSteady ==
  ASSUME NEW t, Between(t)
  PROVE  Steady(t)
<1>1. t.phase.tag = "waiting"
  BY DEF Between, Waiting
<1>2. ~Dealing(t.phase)
  BY <1>1 DEF Dealing
<1>3. QED
  BY <1>1, <1>2 DEF Between, Steady, Regular, Loose, Fresh, Twice, Closed, Round, Contested, Played

LEMMA ResetBetween ==
  ASSUME NEW t \in Tables
  PROVE  Between(reset_for_next_hand(t))
<1> DEFINE u == reset_for_next_hand(t)
<1>1. u.phase = Waiting /\ u.rit = FALSE /\ \A i \in Seats : u.seats[i] = reset_seat(t, i)
  BY DEF reset_for_next_hand, Tables
<1>2. \A i \in Seats : /\ reset_seat(t, i).kind \in {"vacant", "waiting", "active"}
                       /\ reset_seat(t, i).kind = "vacant" \/ reset_seat(t, i).stack > 0
  <2>1. SUFFICES ASSUME NEW i \in Seats
                 PROVE  /\ reset_seat(t, i).kind \in {"vacant", "waiting", "active"}
                        /\ reset_seat(t, i).kind = "vacant" \/ reset_seat(t, i).stack > 0
    OBVIOUS
  <2> DEFINE s == t.seats[i]
  <2>2. s \in SeatRecords /\ s.stack \in Nat /\ s.addon \in Nat
    BY SumsOf, SeatFields
  <2>3. reset_seat(t, i).kind \in {"vacant", "waiting", "active"}
    BY ResetSeat
  <2>4. CASE i \notin occupied_seats(t) \ t.leave \/ s.stack + s.addon = 0
    BY <2>4, VacantSeatIs DEF reset_seat
  <2>5. CASE ~(i \notin occupied_seats(t) \ t.leave \/ s.stack + s.addon = 0)
    <3>1. reset_seat(t, i).stack = s.stack + s.addon
      BY <2>2, <2>5 DEF reset_seat, SeatRecords
    <3>2. QED
      BY <2>2, <2>3, <2>5, <3>1
  <2>6. QED
    BY <2>3, <2>4, <2>5
<1> HIDE DEF u
<1>3. Between(u)
  BY <1>1, <1>2 DEF Between, Solvent
<1>4. QED
  BY <1>3 DEF u

\* The table that is reset when a hand ends without a showdown.
Ended(t) ==
  LET c == collect_bets_to_pot(t)
  IN  IF live_seats(t) = {} THEN c ELSE [c EXCEPT !.seats[Min(live_seats(t))].stack = @ + c.pot, !.pot = 0]

LEMMA EndedIs ==
  ASSUME NEW t \in Tables
  PROVE  LET e == Ended(t)
         IN  /\ end_without_showdown(t) = reset_for_next_hand(e)
             /\ e \in Tables /\ NoBets(e) /\ e.chip_pool = t.chip_pool
             /\ Worth(e) + e.pot = Worth(t) + t.pot
             /\ live_seats(t) # {} => e.pot = 0
             /\ \A i \in Seats : /\ e.seats[i].kind = t.seats[i].kind
                                 /\ i \notin live_seats(t) => e.seats[i].stack = t.seats[i].stack
                                 /\ e.seats[i].addon = t.seats[i].addon
<1> DEFINE c == collect_bets_to_pot(t)
           w == Min(live_seats(t))
           e == Ended(t)
<1>1. end_without_showdown(t) = reset_for_next_hand(e)
  BY DEF end_without_showdown, Ended
<1>2. /\ c \in Tables /\ c.chip_pool = t.chip_pool /\ Worth(c) + c.pot = Worth(t) + t.pot /\ NoBets(c)
      /\ \A i \in Seats : /\ c.seats[i].kind = t.seats[i].kind /\ c.seats[i].stack = t.seats[i].stack
                          /\ c.seats[i].addon = t.seats[i].addon
  BY CollectSound
<1>3. e = IF live_seats(t) = {} THEN c ELSE [c EXCEPT !.seats[w].stack = @ + c.pot, !.pot = 0]
  BY DEF Ended
<1> HIDE DEF c, e
<1>4. CASE live_seats(t) = {}
  BY <1>1, <1>2, <1>3, <1>4 DEF e
<1>5. CASE live_seats(t) # {}
  <2>1. w \in Seats /\ w \in live_seats(t)
    BY <1>5, KindSets, MinSeat
  <2> HIDE DEF w
  <2>2. /\ c.seats \in [Seats -> SeatRecords] /\ c.pot \in Nat
    BY <1>2 DEF Tables
  <2> DEFINE s == [c.seats[w] EXCEPT !.stack = @ + c.pot]
  <2>3. /\ c.seats[w] \in SeatRecords /\ s \in SeatRecords /\ worth(s) = worth(c.seats[w]) + c.pot
        /\ s.bet = c.seats[w].bet /\ s.kind = c.seats[w].kind /\ s.addon = c.seats[w].addon
    BY <2>1, <2>2 DEF SeatRecords, worth
  <2>4. e = [c EXCEPT !.seats = [c.seats EXCEPT ![w] = s], !.pot = 0]
    BY <1>2, <1>3, <1>5, <2>1, <2>2 DEF Tables
  <2> HIDE DEF s
  <2>5. e \in Tables /\ e.pot = 0 /\ e.chip_pool = c.chip_pool /\ e.seats = [c.seats EXCEPT ![w] = s]
    BY <1>2, <2>1, <2>2, <2>3, <2>4 DEF Tables
  <2>6. e.seats[w] = s /\ \A j \in Seats \ {w} : e.seats[j] = c.seats[j]
    BY <2>1, <2>2, <2>5
  <2>7. Worth(e) = Worth(c) - worth(c.seats[w]) + worth(e.seats[w])
    BY <1>2, <2>1, <2>5, <2>6, OneSeat
  <2>8. worth(c.seats[w]) \in Nat /\ Worth(c) \in Nat
    BY <1>2, <2>3, SeatFields, SumsOf
  <2>9. Worth(e) + e.pot = Worth(t) + t.pot
    BY <1>2, <2>2, <2>3, <2>5, <2>6, <2>7, <2>8
  <2>10. NoBets(e)
    BY <1>2, <2>3, <2>6 DEF NoBets
  <2>11. \A i \in Seats : /\ e.seats[i].kind = t.seats[i].kind
                          /\ i \notin live_seats(t) => e.seats[i].stack = t.seats[i].stack
                          /\ e.seats[i].addon = t.seats[i].addon
    BY <1>2, <2>1, <2>3, <2>6
  <2>12. QED
    BY <1>1, <1>2, <2>5, <2>9, <2>10, <2>11 DEF e
<1>6. QED
  BY <1>4, <1>5

LEMMA EndBetween ==
  ASSUME NEW t \in Tables
  PROVE  Between(end_without_showdown(t))
BY EndedIs, ResetBetween

LEMMA GiveUpBetween ==
  ASSUME NEW t \in Tables
  PROVE  Between(give_up(t))
<1> DEFINE refund(i) == IF i \in live_seats(t) THEN t.seats[i].total ELSE 0
           seats == [i \in Seats |-> [t.seats[i] EXCEPT !.stack = @ + refund(i), !.bet = 0, !.total = 0]]
           u == [t EXCEPT !.pot = 0, !.seats = seats]
<1>1. give_up(t) = reset_for_next_hand(u)
  BY DEF give_up, refund_all_bets
<1>2. seats \in [Seats -> SeatRecords]
  <2>1. SUFFICES ASSUME NEW i \in Seats
                 PROVE  [t.seats[i] EXCEPT !.stack = @ + refund(i), !.bet = 0, !.total = 0] \in SeatRecords
    OBVIOUS
  <2>2. t.seats[i] \in SeatRecords /\ t.seats[i].stack \in Nat /\ t.seats[i].total \in Nat
    BY SumsOf, SeatFields
  <2>3. t.seats[i].stack + refund(i) \in Nat
    BY <2>2
  <2> HIDE DEF refund
  <2>4. QED
    BY <2>2, <2>3 DEF SeatRecords
<1> HIDE DEF seats
<1>3. u \in Tables
  BY <1>2 DEF Tables
<1>4. QED
  BY <1>1, <1>3, ResetBetween

\* Cards may be opened.
Dealable(t) == ~few_live(t, 1) /\ Level(t) /\ Solvent(t) /\ (t.rit => Sole(t))

LEMMA DealtSteady ==
  ASSUME NEW t, Dealable(t), NEW u, u.seats = t.seats, u.rit = t.rit, Dealing(u.phase)
  PROVE  Steady(u) /\ Dealable(u)
<1>1. u.phase.tag # "betting" /\ ~Unopened(u.phase) /\ u.phase.tag \in {"revealing", "reconstructing", "shuffling"}
  BY DEF Dealing, Unopened
<1>2. SameView(t, u)
  BY DEF SameView
<1>3. /\ few_live(u, 1) <=> few_live(t, 1)
      /\ Sole(u) <=> Sole(t)
      /\ Level(u) <=> Level(t)
  BY <1>2, ViewIs
<1>4. Solvent(u)
  BY DEF Dealable, Solvent
<1>5. Dealable(u)
  BY <1>3, <1>4 DEF Dealable
<1>6. Fresh(u) /\ Twice(u) /\ Closed(u) /\ Round(u) /\ Contested(u) /\ Played(u)
  BY <1>1, <1>5 DEF Fresh, Twice, Closed, Round, Contested, Played, Dealable
<1>7. QED
  BY <1>4, <1>5, <1>6 DEF Steady, Regular, Loose

LEMMA DealingDealable ==
  ASSUME NEW t, Loose(t), Dealing(t.phase)
  PROVE  ~few_live(t, 1) => Dealable(t)
BY DEF Loose, Dealing, Twice, Closed, Dealable

-----------------------------------------------------------------------------
(* Turns.                                                                  *)

\* The distance from one seat to another, the seat itself coming last.
LEMMA ClockwiseIs ==
  ASSUME NEW from \in Seats, NEW i \in Seats
  PROVE  Clockwise(from, i) = IF i > from THEN i - from - 1 ELSE i - from - 1 + MaxPlayers
<1>1. MaxPlayers \in 2..9
  BY SidePotsAssumption
<1>2. \A x \in Int : x >= 0 /\ x < 2 * MaxPlayers =>
         x % MaxPlayers = IF x < MaxPlayers THEN x ELSE x - MaxPlayers
  <2>1. \A m \in 2..9 : \A x \in Int : x >= 0 /\ x < 2 * m => x % m = IF x < m THEN x ELSE x - m
    BY SMT
  <2>2. QED
    BY <1>1, <2>1
<1>3. QED
  BY <1>1, <1>2 DEF Clockwise, Seats

\* Seats that come later than n when counted from one seat are in the same
\* order when counted from n.
LEMMA SameOrder ==
  ASSUME NEW from \in Seats, NEW n \in Seats, NEW i \in Seats, NEW j \in Seats,
         Clockwise(from, n) <= Clockwise(from, i), Clockwise(from, n) <= Clockwise(from, j),
         i # n, j # n, Clockwise(n, j) < Clockwise(n, i)
  PROVE  Clockwise(from, j) < Clockwise(from, i) /\ j # from
<1>1. MaxPlayers \in 2..9 /\ from \in 0 .. MaxPlayers - 1 /\ n \in 0 .. MaxPlayers - 1
      /\ i \in 0 .. MaxPlayers - 1 /\ j \in 0 .. MaxPlayers - 1
  BY SidePotsAssumption DEF Seats
<1>2. /\ Clockwise(from, n) = IF n > from THEN n - from - 1 ELSE n - from - 1 + MaxPlayers
      /\ Clockwise(from, i) = IF i > from THEN i - from - 1 ELSE i - from - 1 + MaxPlayers
      /\ Clockwise(from, j) = IF j > from THEN j - from - 1 ELSE j - from - 1 + MaxPlayers
      /\ Clockwise(n, i) = IF i > n THEN i - n - 1 ELSE i - n - 1 + MaxPlayers
      /\ Clockwise(n, j) = IF j > n THEN j - n - 1 ELSE j - n - 1 + MaxPlayers
  BY ClockwiseIs
<1>3. QED
  BY <1>1, <1>2

\* The seats of a set in another order of its fields.
LEMMA SameKinds ==
  ASSUME NEW t, NEW u, \A i \in Seats : u.seats[i].kind = t.seats[i].kind
  PROVE  /\ active_seats(u) = active_seats(t) /\ live_seats(u) = live_seats(t)
         /\ actionable_seats(u) = actionable_seats(t) /\ occupied_seats(u) = occupied_seats(t)
         /\ few_live(u, 1) <=> few_live(t, 1)
         /\ Sole(u) <=> Sole(t)
<1>1. \A ks : of_kind(u, ks) = of_kind(t, ks)
  BY DEF of_kind
<1>2. QED
  BY <1>1 DEF active_seats, live_seats, actionable_seats, occupied_seats, few_live, Sole

\* Once the bets are matched, what is in the pot is level.
LEMMA LevelWhenMatched ==
  ASSUME NEW t \in Tables, t.phase.tag = "betting", LevelPot(t), WithinBet(t),
         \A i \in actionable_seats(t) : t.seats[i].bet = t.phase.current_bet
  PROVE  Level(t)
<1>1. SUFFICES ASSUME NEW i \in actionable_seats(t), NEW j \in live_seats(t)
               PROVE  t.seats[j].total <= t.seats[i].total + Margin
  BY DEF Level
<1>2. i \in Seats /\ j \in Seats
  BY KindSets
<1>3. /\ t.seats[i].bet \in Nat /\ t.seats[i].total \in Nat
      /\ t.seats[j].bet \in Nat /\ t.seats[j].total \in Nat
  BY <1>2, SumsOf, SeatFields
<1>4. t.seats[i].bet = t.phase.current_bet /\ t.seats[j].bet <= t.phase.current_bet
  BY DEF WithinBet
<1>5. t.seats[j].total - t.seats[j].bet <= t.seats[i].total - t.seats[i].bet + Margin
  BY DEF LevelPot, wager
<1>6. Margin \in Nat
  BY TableAssumption DEF Margin
<1>7. QED
  BY <1>3, <1>4, <1>5, <1>6

LEMMA AdvanceRoundSteady ==
  ASSUME NEW t, Solid(t), NoBets(t), t.phase.tag = "betting", Solvent(t),
         ~few_live(t, 1) => Level(t), t.rit => Sole(t)
  PROVE  Steady(advance_round(t))
<1> DEFINE u == maybe_trigger_run_it_twice(t)
           r == round_state(t)
<1>1. t \in Tables
  BY DEF Solid
<1>2. CASE few_live(t, 1)
  BY <1>1, <1>2, EndBetween, BetweenSteady DEF advance_round
<1>3. CASE ~few_live(t, 1)
  <2>1. /\ Solid(u) /\ u.seats = t.seats
        /\ u.rit = (t.rit \/ (RunItTwice /\ t.board < 5 /\ no_further_betting_possible(t)))
    BY TriggerIs
  <2>2. no_further_betting_possible(t) => Sole(t)
    BY DEF no_further_betting_possible, Sole
  <2>3. SameView(t, u)
    BY <2>1 DEF SameView
  <2>4. Dealable(u)
    <3>1. /\ few_live(u, 1) <=> few_live(t, 1)
          /\ Sole(u) <=> Sole(t)
          /\ Level(u) <=> Level(t)
      BY <2>3, ViewIs
    <3>2. Solvent(u)
      BY <2>1 DEF Solvent
    <3>3. QED
      BY <1>3, <2>1, <2>2, <3>1, <3>2 DEF Dealable
  <2>5. NoBets(u)
    BY <2>1 DEF NoBets
  <2>6. /\ r \in PREFLOP..RIVER
        /\ r # RIVER => r + 1 \in FLOP..RIVER
    BY <1>1, StreetOf
  <2> HIDE DEF u
  <2>7. CASE r = RIVER
    <3> DEFINE v == start_showdown_reveal_phase(u)
    <3>1. /\ v.phase.tag = "revealing" /\ v.phase.purpose = "owner" /\ v.seats = u.seats /\ v.rit = u.rit
      BY <2>1, <2>5, ShowdownRevealSound
    <3>2. advance_round(t) = v
      BY <1>3, <2>7 DEF advance_round, u
    <3> HIDE DEF v
    <3>3. Dealing(v.phase)
      BY <3>1 DEF Dealing
    <3>4. QED
      BY <2>4, <3>1, <3>2, <3>3, DealtSteady
  <2>8. CASE r # RIVER
    <3> DEFINE v == start_community_reveal_phase(u, r + 1)
    <3>1. /\ v.phase.tag = "revealing" /\ v.phase.purpose = "board" /\ v.seats = u.seats /\ v.rit = u.rit
      BY <2>1, <2>5, <2>6, <2>8, CommunityRevealSound
    <3>2. advance_round(t) = v
      BY <1>3, <2>8 DEF advance_round, u
    <3> HIDE DEF v
    <3>3. Dealing(v.phase)
      BY <3>1 DEF Dealing
    <3>4. QED
      BY <2>4, <3>1, <3>2, <3>3, DealtSteady
  <2>9. QED
    BY <2>7, <2>8
<1>4. QED
  BY <1>2, <1>3

LEMMA CloseRoundSteady ==
  ASSUME NEW t, Solid(t), t.phase.tag = "betting", Solvent(t),
         ~few_live(t, 1) => Level(t), t.rit => Sole(t)
  PROVE  Steady(close_round(t))
<1> DEFINE c == collect_bets_to_pot(t)
<1>1. t \in Tables /\ Ledger(t) /\ Vacated(t) /\ Covered(t) /\ Capped(t)
  BY DEF Solid
<1>2. /\ c \in Tables /\ c.phase = t.phase /\ NoBets(c) /\ Ledger(c) /\ Vacated(c)
      /\ c.chip_pool = t.chip_pool /\ Worth(c) + c.pot = Worth(t) + t.pot /\ c.rit = t.rit
      /\ \A i \in Seats : /\ c.seats[i].kind = t.seats[i].kind /\ c.seats[i].total = t.seats[i].total
                          /\ c.seats[i].stack = t.seats[i].stack
  BY <1>1, CollectSound
<1>3. close_round(t) = advance_round(c)
  BY DEF close_round
<1> HIDE DEF c
<1>4. Solid(c)
  BY <1>1, <1>2 DEF Solid, Covered, Capped
<1>5. /\ live_seats(c) = live_seats(t) /\ actionable_seats(c) = actionable_seats(t)
      /\ few_live(c, 1) <=> few_live(t, 1)
      /\ Sole(c) <=> Sole(t)
  BY <1>2, SameKinds
<1>6. Solvent(c)
  BY <1>2 DEF Solvent
<1>7. Level(t) => Level(c)
  BY <1>2, <1>5, KindSets DEF Level
<1>8. QED
  BY <1>2, <1>3, <1>4, <1>5, <1>6, <1>7, AdvanceRoundSteady

\* The seat that had the turn has decided, and the others are asked in order.
Bidding(t) ==
  /\ t.phase.tag = "betting" /\ ~t.rit /\ Solvent(t) /\ LevelPot(t) /\ WithinBet(t)
  /\ t.phase.turn \in Seats \ Owing(t) /\ InLine(t, t.phase.turn)

\* Then the next seat that can act owes a decision.
LEMMA NextOwes ==
  ASSUME NEW t \in Tables, Bidding(t), Owing(t) # {}
  PROVE  LET n == next_seat(actionable_seats(t), t.phase.turn)
         IN  n \in Owing(t) /\ InLine(t, n)
<1> DEFINE f == t.phase.turn
           n == next_seat(actionable_seats(t), f)
           A == actionable_seats(t)
<1>1. f \in Seats /\ f \notin Owing(t) /\ InLine(t, f) /\ A \subseteq Seats /\ Owing(t) \subseteq A /\ A # {}
  BY KindSets DEF Bidding, Owing
<1>2. f \in Int /\ A \in SUBSET Seats
  BY <1>1, AnyoneInt
<1>3. n \in A /\ \A j \in A : Clockwise(f, n) <= Clockwise(f, j)
  BY <1>1, <1>2, NextSeat
<1>4. PICK w \in Owing(t) : TRUE
  OBVIOUS
<1>5. w # f /\ w \in A /\ w \in Seats /\ n \in Seats
  BY <1>1, <1>3, <1>4
<1>6. /\ Clockwise(f, f) = MaxPlayers - 1
      /\ w > f => Clockwise(f, w) = w - f - 1
      /\ w < f => Clockwise(f, w) = w - f - 1 + MaxPlayers
      /\ n > f => Clockwise(f, n) = n - f - 1
      /\ ~(n > f) => Clockwise(f, n) = n - f - 1 + MaxPlayers
      /\ MaxPlayers \in 2..9 /\ f \in Int /\ w \in Int /\ n \in Int
  <2>1. f \in Int /\ w \in Int /\ n \in Int /\ MaxPlayers \in 2..9
    BY <1>1, <1>5, SeatsFinite
  <2>2. QED
    BY <1>1, <1>5, <2>1, ClockwiseIs
<1>7. w \in 0 .. MaxPlayers - 1 /\ f \in 0 .. MaxPlayers - 1 /\ n \in 0 .. MaxPlayers - 1
  BY <1>1, <1>5 DEF Seats
<1>8. n # f
  <2>1. SUFFICES ASSUME n = f PROVE FALSE
    OBVIOUS
  <2>2. Clockwise(f, f) <= Clockwise(f, w)
    BY <1>3, <1>5, <2>1
  <2> HIDE DEF f, n
  <2>3. QED
    BY <1>5, <1>6, <1>7, <2>2
<1>9. n \in Owing(t)
  <2>1. CASE n = w
    BY <2>1
  <2>2. CASE n # w
    <3>1. Clockwise(f, n) <= Clockwise(f, w)
      BY <1>3, <1>5
    <3>2. Clockwise(f, n) < Clockwise(f, w)
      <4> HIDE DEF f, n
      <4>1. QED
        BY <1>5, <1>6, <1>7, <2>2, <3>1
    <3>3. w \in Owing(t) \ {f} /\ n \in A \ {f}
      BY <1>3, <1>5, <1>8
    <3>4. QED
      BY <1>1, <3>2, <3>3 DEF InLine
  <2>3. QED
    BY <2>1, <2>2
<1>10. InLine(t, n)
  <2>1. SUFFICES ASSUME NEW i \in Owing(t) \ {n}, NEW j \in A \ {n}, Clockwise(n, j) < Clockwise(n, i)
                 PROVE  j \in Owing(t)
    BY DEF InLine
  <2>2. i \in Seats /\ j \in Seats /\ i \in A /\ i # f
    BY <1>1
  <2>3. Clockwise(f, j) < Clockwise(f, i) /\ j # f
    <3> HIDE DEF f, n
    <3>1. QED
      BY <1>1, <1>3, <1>5, <2>1, <2>2, SameOrder
  <2>4. QED
    BY <1>1, <2>1, <2>2, <2>3 DEF InLine
<1>11. QED
  BY <1>9, <1>10

Turned(t, u, i) ==
  /\ u.phase.tag = "betting" /\ u.phase.turn = i /\ u.phase.current_bet = t.phase.current_bet
  /\ u.seats = t.seats /\ u.acted = t.acted /\ u.rit = t.rit

LEMMA TurnedIs ==
  ASSUME NEW t, Solid(t), t.phase.tag = "betting", NEW i \in Anyone
  PROVE  Turned(t, [t EXCEPT !.phase.turn = i], i)
<1> DEFINE u == [t EXCEPT !.phase.turn = i]
           p == [t.phase EXCEPT !.turn = i]
<1>1. t \in Tables /\ t.phase \in BettingPhases
  BY PhaseOf DEF Solid, Tables
<1>2. p.tag = "betting" /\ p.turn = i /\ p.current_bet = t.phase.current_bet
  BY <1>1 DEF BettingPhases
<1>3. u.phase = p /\ u.seats = t.seats /\ u.acted = t.acted /\ u.rit = t.rit
  BY <1>1 DEF Tables
<1> HIDE DEF u, p
<1>4. Turned(t, u, i)
  BY <1>2, <1>3 DEF Turned
<1>5. QED
  BY <1>4 DEF u

LEMMA AdvanceTurnSteady ==
  ASSUME NEW t, Solid(t), Bidding(t)
  PROVE  /\ Regular(advance_turn(t))
         /\ ~few_live(t, 1) => Steady(advance_turn(t))
<1>1. t \in Tables /\ t.phase.tag = "betting" /\ t.phase \in BettingPhases
  BY PhaseOf DEF Solid, Bidding, Tables
<1>2. CASE is_betting_complete(t)
  <2> DEFINE u == [t EXCEPT !.phase.turn = NO_SEAT]
  <2>1. advance_turn(t) = close_round(u)
    BY <1>2 DEF advance_turn
  <2>2. /\ Solid(u) /\ u.phase.tag = "betting" /\ u.seats = t.seats /\ u.rit = t.rit
    BY <1>1, SetTurn, AnyoneInt
  <2>3. Level(t)
    BY <1>1, <1>2, LevelWhenMatched DEF is_betting_complete, Bidding
  <2> HIDE DEF u
  <2>4. SameView(t, u)
    BY <2>2 DEF SameView
  <2>5. Level(u)
    BY <2>3, <2>4, ViewIs
  <2>6. Solvent(u) /\ ~u.rit
    BY <2>2 DEF Bidding, Solvent
  <2>7. Steady(close_round(u))
    BY <2>2, <2>5, <2>6, CloseRoundSteady
  <2>8. QED
    BY <2>1, <2>7 DEF Steady
<1>3. CASE ~is_betting_complete(t)
  <2> DEFINE n == next_seat(actionable_seats(t), t.phase.turn)
             u == [t EXCEPT !.phase.turn = n]
  <2>1. t.phase.turn # NO_SEAT /\ t.phase.turn \in Seats /\ t.phase.current_bet \in Nat
    BY <1>1, SeatsFinite DEF Bidding, BettingPhases
  <2>2. advance_turn(t) = u
    BY <1>1, <1>3, <2>1 DEF advance_turn, BettingPhases
  <2>3. Owing(t) # {}
    <3>1. PICK i \in actionable_seats(t) : ~(i \in t.acted /\ t.seats[i].bet = t.phase.current_bet)
      BY <1>3 DEF is_betting_complete
    <3>2. i \in Seats /\ i \in live_seats(t)
      BY KindSets
    <3>3. t.seats[i].bet \in Nat /\ t.seats[i].bet <= t.phase.current_bet
      BY <1>1, <3>2, SumsOf, SeatFields DEF Bidding, WithinBet
    <3>4. QED
      BY <2>1, <3>1, <3>3 DEF Owing
  <2>4. n \in Owing(t) /\ InLine(t, n)
    BY <1>1, <2>3, NextOwes
  <2>5. n \in Seats /\ n \in Anyone /\ n # NO_SEAT
    BY <2>4, KindSets, SeatsFinite DEF Owing, Anyone
  <2> HIDE DEF n
  <2>6. /\ u.phase.tag = "betting" /\ u.phase.turn = n /\ u.phase.current_bet = t.phase.current_bet
        /\ u.seats = t.seats /\ u.acted = t.acted /\ u.rit = t.rit
    <3>1. Turned(t, u, n)
      BY <1>1, <2>5, TurnedIs
    <3> HIDE DEF u
    <3>2. QED
      BY <3>1 DEF Turned
  <2> HIDE DEF u
  <2>7. SameView(t, u)
    BY <2>6 DEF SameView
  <2>8. /\ actionable_seats(u) = actionable_seats(t) /\ live_seats(u) = live_seats(t)
        /\ few_live(u, 1) <=> few_live(t, 1)
        /\ LevelPot(u) <=> LevelPot(t)
    BY <2>7, ViewIs
  <2>9. Owing(u) = Owing(t)
    BY <2>6, <2>8 DEF Owing
  <2>10. WithinBet(u)
    BY <2>6, <2>8 DEF WithinBet, Bidding
  <2>11. Asked(u)
    BY <2>4, <2>6, <2>8, <2>9 DEF Asked, InLine
  <2>12. Round(u)
    BY <2>8, <2>10, <2>11 DEF Round, Bidding
  <2>13. Fresh(u) /\ Twice(u) /\ Closed(u) /\ Contested(u) /\ Solvent(u)
    BY <2>6 DEF Fresh, Twice, Closed, Contested, Unopened, Dealing, Bidding, Solvent
  <2>14. ~few_live(t, 1) => Played(u)
    BY <2>5, <2>6, <2>8 DEF Played
  <2>15. QED
    BY <2>2, <2>12, <2>13, <2>14 DEF Steady, Regular, Loose
<1>4. QED
  BY <1>2, <1>3

-----------------------------------------------------------------------------
(* Betting rounds are opened.                                              *)

\* The first seat to act is one that can.
LEMMA FirstActs ==
  ASSUME NEW t \in Tables, NEW r
  PROVE  /\ actionable_seats(t) # {} => first_to_act(t, r) \in actionable_seats(t)
         /\ actionable_seats(t) = {} => first_to_act(t, r) = NO_SEAT
<1> DEFINE A == actionable_seats(t)
           base == rotation_base(t)
<1>1. A \in SUBSET Seats
  BY KindSets
<1>2. base \in Int
  BY BlindSeats
<1>3. t.last_bb_seat \in Int /\ t.button \in Int
  <2>1. t.last_bb_seat \in Anyone /\ t.button \in Seats
    BY DEF Tables
  <2>2. QED
    BY <2>1, AnyoneInt
<1> HIDE DEF A, base
<1>4. /\ A # {} => /\ next_seat(A, t.last_bb_seat) \in A
                   /\ next_seat(A, base) \in A
                   /\ next_seat(A, t.button) \in A
      /\ A = {} => /\ next_seat(A, t.last_bb_seat) = NO_SEAT
                   /\ next_seat(A, base) = NO_SEAT
                   /\ next_seat(A, t.button) = NO_SEAT
  BY <1>1, <1>2, <1>3, NextSeat
<1>5. first_to_act(t, r) \in
        {next_seat(A, t.last_bb_seat), next_seat(A, base), next_seat(A, t.button)} \cup (A \cap {base})
  BY DEF first_to_act, A, base
<1>6. QED
  BY <1>4, <1>5 DEF A

\* Everybody who can act owes a decision in a round that was just opened.
LEMMA OpeningSteady ==
  ASSUME NEW t, Solid(t), NEW r \in PREFLOP..RIVER, r # PREFLOP => NoBets(t), Solvent(t), LevelPot(t),
         t.rit => Sole(t) /\ ~few_live(t, 1) /\ r # PREFLOP
  PROVE  /\ Regular(start_betting_round(t, r))
         /\ ~few_live(t, 1) => Steady(start_betting_round(t, r))
<1> DEFINE u == Opened(t, r)
<1>1. start_betting_round(t, r) = IF no_further_betting_possible(u) THEN close_round(u) ELSE u
  BY DEF start_betting_round, Opened
<1>2. /\ Solid(u) /\ u.seats = t.seats /\ u.rit = t.rit
      /\ u.acted = of_kind(t, {"allin", "folded"})
      /\ u.phase.tag = "betting" /\ u.phase.turn = first_to_act(t, r)
      /\ u.phase.current_bet = IF r = PREFLOP THEN Max({BigBlind} \cup {t.seats[i].bet : i \in Seats}) ELSE 0
  BY OpenedIs
<1> HIDE DEF u
<1>3. t \in Tables /\ u \in Tables
  BY <1>2 DEF Solid
<1>4. SameView(t, u)
  BY <1>2 DEF SameView
<1>5. /\ actionable_seats(u) = actionable_seats(t) /\ live_seats(u) = live_seats(t)
      /\ few_live(u, 1) <=> few_live(t, 1)
      /\ Sole(u) <=> Sole(t)
      /\ LevelPot(u) <=> LevelPot(t)
  BY <1>4, ViewIs
<1>6. \A i \in Seats : t.seats[i].bet <= u.phase.current_bet
  <2>1. CASE r = PREFLOP
    BY <1>2, <1>3, <2>1, PriceIs
  <2>2. CASE r # PREFLOP
    BY <1>2, <2>2 DEF NoBets
  <2>3. QED
    BY <2>1, <2>2
<1>7. WithinBet(u)
  BY <1>2, <1>6, KindSets DEF WithinBet
<1>8. Owing(u) = actionable_seats(u)
  BY <1>2, <1>5 DEF Owing, actionable_seats, of_kind
<1>9. Asked(u)
  <2>1. /\ actionable_seats(t) # {} => u.phase.turn \in actionable_seats(t)
        /\ actionable_seats(t) = {} => u.phase.turn = NO_SEAT
    BY <1>2, <1>3, FirstActs
  <2>2. \A i : InLine(u, i)
    BY <1>8 DEF InLine
  <2>3. QED
    BY <1>5, <1>8, <2>1, <2>2 DEF Asked
<1>10. Solvent(u)
  BY <1>2 DEF Solvent
<1>11. CASE no_further_betting_possible(u)
  <2>1. Level(u)
    BY <1>2, <1>3, <1>5, <1>7, <1>11, LevelWhenMatched DEF no_further_betting_possible
  <2>2. Steady(close_round(u))
    BY <1>2, <1>5, <1>10, <2>1, CloseRoundSteady
  <2>3. QED
    BY <1>1, <1>11, <2>2 DEF Steady
<1>12. CASE ~no_further_betting_possible(u)
  <2>1. /\ ~few_live(t, 1) =>
              ~(Sole(t) /\ \A i \in actionable_seats(t) : t.seats[i].bet = u.phase.current_bet)
    BY <1>2, <1>5, <1>12 DEF no_further_betting_possible, in_phase, Sole
  <2>2. ~u.rit
    <3>1. SUFFICES ASSUME u.rit PROVE FALSE
      OBVIOUS
    <3>2. Sole(t) /\ ~few_live(t, 1) /\ r # PREFLOP
      BY <1>2, <3>1
    <3>3. \A i \in actionable_seats(t) : t.seats[i].bet = u.phase.current_bet
      BY <1>2, <3>2, KindSets DEF NoBets
    <3>4. QED
      BY <2>1, <3>2, <3>3
  <2>3. ~few_live(t, 1) => u.phase.turn # NO_SEAT
    <3>1. SUFFICES ASSUME ~few_live(t, 1), u.phase.turn = NO_SEAT PROVE FALSE
      OBVIOUS
    <3>2. u.phase.turn \notin actionable_seats(u)
      BY <3>1, KindSets, SeatsFinite
    <3>3. actionable_seats(t) = {}
      BY <1>5, <1>8, <1>9, <3>2 DEF Asked
    <3>4. Sole(t)
      <4>1. Cardinality(actionable_seats(t)) = 0
        BY <3>3, FS_EmptySet
      <4>2. QED
        BY <4>1 DEF Sole
    <3>5. QED
      BY <2>1, <3>1, <3>3, <3>4
  <2>4. Fresh(u) /\ Twice(u) /\ Closed(u) /\ Contested(u)
    BY <1>2, <2>2 DEF Fresh, Twice, Closed, Contested, Unopened, Dealing
  <2>5. Round(u)
    BY <1>5, <1>7, <1>9 DEF Round
  <2>6. ~few_live(t, 1) => Played(u)
    BY <1>5, <2>3 DEF Played
  <2>7. QED
    BY <1>1, <1>10, <1>12, <2>4, <2>5, <2>6 DEF Steady, Regular, Loose
<1>13. QED
  BY <1>11, <1>12

\* A street after the first: the board was opened.
LEMMA StreetSteady ==
  ASSUME NEW t, Solid(t), NoBets(t), Dealable(t), NEW r \in FLOP..RIVER
  PROVE  Steady(start_betting_round(t, r))
<1>1. r \in PREFLOP..RIVER /\ r # PREFLOP
  BY DEF PREFLOP, FLOP, RIVER
<1>2. t \in Tables
  BY DEF Solid
<1>3. LevelPot(t)
  <2>1. SUFFICES ASSUME NEW i \in actionable_seats(t), NEW j \in live_seats(t)
                 PROVE  wager(t.seats[j]) <= wager(t.seats[i]) + Margin
    BY DEF LevelPot
  <2>2. i \in Seats /\ j \in Seats
    BY KindSets
  <2>3. /\ t.seats[i].bet = 0 /\ t.seats[j].bet = 0
        /\ t.seats[i].total \in Nat /\ t.seats[j].total \in Nat
    BY <1>2, <2>2, SumsOf, SeatFields DEF NoBets
  <2>4. t.seats[j].total <= t.seats[i].total + Margin
    BY DEF Dealable, Level
  <2>5. Margin \in Nat
    BY TableAssumption DEF Margin
  <2>6. QED
    BY <2>3, <2>4, <2>5 DEF wager
<1>4. Solvent(t) /\ ~few_live(t, 1) /\ (t.rit => Sole(t))
  BY DEF Dealable
<1>5. QED
  BY <1>1, <1>3, <1>4, OpeningSteady

\* What a seat looks like after the blinds and the antes: it is still in the
\* hand, and if it can act it has chips left.
Posted(t, b, a, i) ==
  /\ a.seats[i].kind \in {t.seats[i].kind, "allin"}
  /\ a.seats[i].kind = "allin" => i \in active_seats(t)
  /\ a.seats[i].kind = "waiting" \/ a.seats[i].kind = "active" => a.seats[i].stack > 0
  /\ wager(a.seats[i]) = Ante(b, i)
  /\ a.seats[i].kind = "active" /\ i \in AntePayers(b) => Ante(b, i) = AnteAmount

LEMMA PostedIs ==
  ASSUME NEW t, Solid(t), NoWagers(t), Solvent(t), NEW i \in Seats,
         \A j \in Seats : t.seats[j].kind \notin {"folded", "allin"}
  PROVE  Posted(t, post_blinds(t), collect_ante(post_blinds(t)), i)
<1> DEFINE b == post_blinds(t)
           a == collect_ante(b)
           B == {SmallBlindSeat(t), BigBlindSeat(t)}
           x == Blind(t, i)
           y == Ante(b, i)
<1>1. t \in Tables /\ NoBets(t) /\ t.seats[i] \in SeatRecords /\ t.seats[i].bet = 0 /\ t.seats[i].total = 0
  BY SumsOf DEF Solid, NoWagers, NoBets
<1>2. /\ Solid(b) /\ b.last_bb_seat = BigBlindSeat(t) /\ active_seats(b) = active_seats(t)
      /\ b.seats[i] = IF i \in B THEN [pay(t.seats[i], x) EXCEPT !.bet = x] ELSE t.seats[i]
  BY <1>1, PostBlindsSound
<1>3. b.last_bb_seat \in active_seats(b) \cup {NO_SEAT}
  BY <1>1, <1>2, BlindSeats
<1>4. i \in B => i \in active_seats(t)
  BY <1>1, BlindSeats, SeatsFinite
<1>5. b \in Tables /\ b.seats[i] \in SeatRecords
  BY <1>2, SumsOf DEF Solid
<1> HIDE DEF b
<1>6. /\ a.seats[i].bet = b.seats[i].bet /\ a.seats[i].total = b.seats[i].total + y
      /\ a.seats[i].stack = b.seats[i].stack - y
      /\ a.seats[i].kind = IF i \in AntePayers(b) /\ b.seats[i].stack = y THEN "allin" ELSE b.seats[i].kind
  BY <1>2, <1>3, CollectAnteSound
<1>7. i \in AntePayers(b) => i \in active_seats(t)
  BY <1>2, <1>3, AntePayersIn, SeatsFinite
<1>8. /\ y \in Nat /\ y <= b.seats[i].stack
      /\ i \in AntePayers(b) => y = AnteAmount \/ y = b.seats[i].stack
      /\ i \notin AntePayers(b) => y = 0
  BY <1>5, AnteIs
<1>9. /\ b.seats[i].kind \in {t.seats[i].kind, "allin"}
      /\ b.seats[i].kind = "allin" => i \in active_seats(t)
      /\ b.seats[i].kind # "allin" => b.seats[i].stack > 0 \/ t.seats[i].stack = 0
      /\ wager(b.seats[i]) = 0
  <2>1. CASE i \in B
    <3>1. x \in Nat /\ x <= t.seats[i].stack
      BY <1>1, <2>1, BlindIs
    <3>2. x = t.seats[i].bet + x
      BY <1>1, <3>1
    <3>3. LET s == [pay(t.seats[i], x) EXCEPT !.bet = x]
          IN  /\ wager(s) = wager(t.seats[i]) /\ s.stack = t.seats[i].stack - x
              /\ s.kind = IF t.seats[i].stack = x THEN "allin" ELSE t.seats[i].kind
      BY <1>1, <3>1, <3>2, PayBetIs
    <3>4. /\ wager(b.seats[i]) = wager(t.seats[i]) /\ b.seats[i].stack = t.seats[i].stack - x
          /\ b.seats[i].kind = IF t.seats[i].stack = x THEN "allin" ELSE t.seats[i].kind
      BY <1>2, <2>1, <3>3
    <3>5. t.seats[i].stack \in Nat /\ wager(t.seats[i]) = 0
      BY <1>1, SeatFields DEF wager
    <3> HIDE DEF x
    <3>6. b.seats[i].kind # "allin" => b.seats[i].stack > 0
      BY <3>1, <3>4, <3>5
    <3>7. QED
      BY <1>4, <2>1, <3>4, <3>5, <3>6
  <2>2. CASE i \notin B
    <3>1. b.seats[i] = t.seats[i]
      BY <1>2, <2>2
    <3>2. wager(t.seats[i]) = 0 /\ t.seats[i].stack \in Nat /\ t.seats[i].kind # "allin"
      BY <1>1, SeatFields DEF wager
    <3>3. QED
      BY <3>1, <3>2
  <2>3. QED
    BY <2>1, <2>2
<1>10. b.seats[i].stack \in Nat /\ b.seats[i].total \in Nat /\ b.seats[i].bet \in Nat
  BY <1>5, SeatFields
<1>11. wager(a.seats[i]) = y
  <2>1. b.seats[i].total - b.seats[i].bet = 0
    BY <1>9 DEF wager
  <2> HIDE DEF y, a
  <2>2. QED
    BY <1>6, <1>8, <1>10, <2>1 DEF wager
<1>12. a.seats[i].kind \in {"waiting", "active"} => a.seats[i].stack > 0
  <2>1. SUFFICES ASSUME a.seats[i].kind \in {"waiting", "active"} PROVE a.seats[i].stack > 0
    OBVIOUS
  <2>2. /\ a.seats[i].kind = b.seats[i].kind
        /\ ~(i \in AntePayers(b) /\ b.seats[i].stack = y)
    BY <1>6, <2>1
  <2>3. t.seats[i].kind \in {"waiting", "active"} /\ b.seats[i].kind # "allin"
    BY <1>9, <2>1, <2>2
  <2>4. t.seats[i].stack > 0
    BY <2>3 DEF Solvent
  <2>5. b.seats[i].stack > 0
    BY <1>9, <2>3, <2>4
  <2> HIDE DEF y, a
  <2>6. QED
    BY <1>6, <1>8, <1>10, <2>2, <2>5
<1>13. a.seats[i].kind = "active" /\ i \in AntePayers(b) => y = AnteAmount
  BY <1>6, <1>8
<1>14. /\ a.seats[i].kind \in {t.seats[i].kind, "allin"}
       /\ a.seats[i].kind = "allin" => i \in active_seats(t)
  BY <1>6, <1>7, <1>9
<1> HIDE DEF a, y
<1>15. Posted(t, b, a, i)
  BY <1>11, <1>12, <1>13, <1>14 DEF Posted, y
<1>16. QED
  BY <1>15 DEF a, b

\* The hand is opened: blinds, antes and the first betting round.
LEMMA HandOpensSteady ==
  ASSUME NEW t, Solid(t), NoWagers(t), Solvent(t), ~t.rit,
         \A j \in Seats : t.seats[j].kind \notin {"folded", "allin"}
  PROVE  LET u == start_betting_round(collect_ante(post_blinds(t)), PREFLOP)
         IN  /\ Regular(u)
             /\ ~few_live(t, 1) => Steady(u)
<1> DEFINE b == post_blinds(t)
           a == collect_ante(b)
<1>1. t \in Tables /\ NoBets(t)
  BY DEF Solid, NoWagers, NoBets
<1>2. Solid(b) /\ b.last_bb_seat = BigBlindSeat(t) /\ active_seats(b) = active_seats(t) /\ b.rit = t.rit
  BY <1>1, PostBlindsSound
<1>3. b.last_bb_seat \in active_seats(b) \cup {NO_SEAT}
  BY <1>1, <1>2, BlindSeats
<1>4. b \in Tables
  BY <1>2 DEF Solid
<1>5. \A i \in Seats : Posted(t, b, a, i)
  BY PostedIs
<1> HIDE DEF b
<1>6. Solid(a) /\ a.rit = b.rit
  BY <1>2, <1>3, CollectAnteSound
<1> HIDE DEF a
<1>7. live_seats(a) = live_seats(t)
  BY <1>5 DEF Posted, live_seats, active_seats, of_kind
<1>8. few_live(a, 1) <=> few_live(t, 1)
  BY <1>7 DEF few_live
<1>9. Solvent(a)
  BY <1>5 DEF Posted, Solvent
<1>10. LevelPot(a)
  <2>1. SUFFICES ASSUME NEW i \in actionable_seats(a), NEW j \in live_seats(a)
                 PROVE  wager(a.seats[j]) <= wager(a.seats[i]) + Margin
    BY DEF LevelPot
  <2>2. i \in Seats /\ j \in Seats /\ a.seats[i].kind = "active"
    BY KindSets DEF actionable_seats, of_kind
  <2>3. wager(a.seats[j]) = Ante(b, j) /\ wager(a.seats[i]) = Ante(b, i)
    BY <1>5, <2>2 DEF Posted
  <2>4. /\ Ante(b, i) \in Nat /\ Ante(b, j) \in Nat /\ Ante(b, j) <= AnteAmount
        /\ j \notin AntePayers(b) => Ante(b, j) = 0
    BY <1>4, <2>2, AnteIs
  <2>5. i \in AntePayers(b) => Ante(b, i) = AnteAmount
    BY <1>5, <2>2 DEF Posted
  <2>6. AnteAmount \in Nat /\ Margin \in Nat
    BY TableAssumption DEF Margin
  <2>7. CASE AnteMode = "bba"
    <3>1. Margin = AnteAmount
      BY <2>7 DEF Margin
    <3>2. QED
      BY <2>3, <2>4, <2>6, <3>1
  <2>8. CASE AnteMode = "normal" /\ AnteAmount > 0
    <3>1. AntePayers(b) = active_seats(b)
      BY <2>8 DEF AntePayers
    <3>2. i \in active_seats(t)
      <4>1. t.seats[i].kind = "active"
        BY <1>5, <2>2 DEF Posted
      <4>2. QED
        BY <2>2, <4>1 DEF active_seats, of_kind
    <3>3. Ante(b, i) = AnteAmount
      BY <1>2, <2>5, <3>1, <3>2
    <3>4. QED
      BY <2>3, <2>4, <2>6, <3>3
  <2>9. CASE ~(AnteMode = "bba") /\ ~(AnteMode = "normal" /\ AnteAmount > 0)
    <3>1. AntePayers(b) = {}
      BY <2>9 DEF AntePayers
    <3>2. Ante(b, j) = 0
      BY <2>4, <3>1
    <3>3. QED
      BY <2>3, <2>4, <2>6, <3>2
  <2>10. QED
    BY <2>7, <2>8, <2>9
<1>11. PREFLOP \in PREFLOP..RIVER /\ ~a.rit
  BY <1>2, <1>6 DEF PREFLOP, RIVER
<1>12. QED
  BY <1>6, <1>8, <1>9, <1>10, <1>11, OpeningSteady DEF a, b

\* The cards that were asked for are open.
LEMMA CheckRevealSteady ==
  ASSUME NEW t, Sound(t), t.phase.tag = "revealing", Regular(t)
  PROVE  /\ Regular(check_reveal_phase_complete(t))
         /\ ~few_live(t, 1) => Steady(check_reveal_phase_complete(t))
<1> DEFINE u == check_reveal_phase_complete(t)
<1>1. Solid(t) /\ NoBets(t) /\ t \in Tables /\ Solvent(t) /\ (t.phase.purpose = "hole" => NoWagers(t))
  BY DEF Sound, Solid, Quiet, Regular, Loose, Unopened
<1>2. /\ t.phase.purpose \in {"hole", "board", "owner"}
      /\ t.phase.purpose = "board" => t.phase.street \in FLOP..RIVER
  BY <1>1, RevealFields
<1>3. CASE DOMAIN t.phase.assign # {}
  <2>1. u = t
    BY <1>3 DEF check_reveal_phase_complete
  <2>2. Played(t)
    BY DEF Played
  <2>3. QED
    BY <2>1, <2>2 DEF Steady
<1>4. CASE DOMAIN t.phase.assign = {} /\ t.phase.purpose = "hole"
  <2>1. u = start_betting_round(collect_ante(post_blinds(t)), PREFLOP)
    BY <1>4 DEF check_reveal_phase_complete
  <2>2. ~t.rit /\ \A j \in Seats : t.seats[j].kind \notin {"folded", "allin"}
    BY <1>4 DEF Regular, Loose, Fresh, Unopened
  <2>3. QED
    BY <1>1, <1>4, <2>1, <2>2, HandOpensSteady
<1>6. CASE DOMAIN t.phase.assign = {} /\ t.phase.purpose = "board"
  <2>1. u = start_betting_round(t, t.phase.street)
    BY <1>6 DEF check_reveal_phase_complete
  <2>2. Dealable(t)
    BY <1>6, DealingDealable DEF Dealing, Regular, Contested
  <2>3. Steady(u)
    BY <1>1, <1>2, <1>6, <2>1, <2>2, StreetSteady
  <2>4. QED
    BY <2>3 DEF Steady
<1>7. CASE DOMAIN t.phase.assign = {} /\ t.phase.purpose = "owner"
  <2>1. u = [t EXCEPT !.phase = ShowdownDisplay]
    BY <1>7 DEF check_reveal_phase_complete
  <2>2. u.phase.tag = "showdown" /\ u.seats = t.seats /\ u.rit = t.rit
    BY <1>1, <2>1 DEF Tables, ShowdownDisplay
  <2>3. Dealable(t)
    BY <1>7, DealingDealable DEF Dealing, Regular, Contested
  <2> HIDE DEF u
  <2>4. SameView(t, u)
    BY <2>2 DEF SameView
  <2>5. /\ Level(u) <=> Level(t)
        /\ Sole(u) <=> Sole(t)
    BY <2>4, ViewIs
  <2>6. Solvent(u)
    BY <1>1, <2>2 DEF Solvent
  <2>7. ~Unopened(u.phase) /\ ~Dealing(u.phase)
    BY <2>2 DEF Unopened, Dealing
  <2>8. Fresh(u) /\ Twice(u) /\ Closed(u) /\ Round(u) /\ Contested(u) /\ Played(u)
    BY <2>2, <2>3, <2>5, <2>7 DEF Dealable, Fresh, Twice, Closed, Round, Contested, Played
  <2>9. QED
    BY <2>6, <2>8 DEF Steady, Regular, Loose, u
<1>8. QED
  BY <1>2, <1>3, <1>4, <1>6, <1>7

-----------------------------------------------------------------------------
(* Shuffles and reconstructions.                                           *)

LEMMA DealtLoose ==
  ASSUME NEW t, Loose(t), Dealing(t.phase), NEW u, u.seats = t.seats, u.rit = t.rit, Dealing(u.phase)
  PROVE  Loose(u) /\ (few_live(u, 1) <=> few_live(t, 1)) /\ (~few_live(t, 1) => Steady(u))
<1>1. u.phase.tag # "betting" /\ ~Unopened(u.phase)
  BY DEF Dealing, Unopened
<1>2. SameView(t, u)
  BY DEF SameView
<1>3. /\ few_live(u, 1) <=> few_live(t, 1)
      /\ Sole(u) <=> Sole(t)
      /\ Level(u) <=> Level(t)
  BY <1>2, ViewIs
<1>4. Level(t) /\ (t.rit => Sole(t)) /\ Solvent(t)
  BY DEF Loose, Closed, Twice
<1>5. Solvent(u)
  BY <1>4 DEF Solvent
<1>6. Fresh(u) /\ Twice(u) /\ Closed(u) /\ Round(u) /\ Played(u)
  BY <1>1, <1>3, <1>4 DEF Fresh, Twice, Closed, Round, Played
<1>7. ~few_live(t, 1) => Contested(u)
  BY <1>3 DEF Contested
<1>8. QED
  BY <1>3, <1>5, <1>6, <1>7 DEF Loose, Regular, Steady

LEMMA RestartRevealIs ==
  ASSUME NEW t, Sound(t), t.phase.tag = "shuffling", t.phase.purpose = "reconstruct"
  PROVE  LET u == restart_reveal_after_reconstruct(t)
         IN  u.seats = t.seats /\ u.rit = t.rit /\ Dealing(u.phase)
<1> DEFINE u == restart_reveal_after_reconstruct(t)
<1>1. Solid(t) /\ NoBets(t) /\ t \in Tables /\ t.phase.street \in FLOP..SHOWDOWN
  BY ShuffleFields DEF Sound, Solid, Quiet
<1>2. t.phase.street # PREFLOP /\ (t.phase.street = SHOWDOWN \/ t.phase.street \in FLOP..RIVER)
      /\ (t.phase.street \in FLOP..RIVER => t.phase.street # SHOWDOWN)
  BY <1>1 DEF PREFLOP, FLOP, RIVER, SHOWDOWN
<1>3. CASE t.phase.street \in FLOP..RIVER /\ t.board < t.phase.street + 1
  <2> DEFINE v == start_community_reveal_phase(t, t.phase.street)
  <2>1. u = v
    BY <1>2, <1>3 DEF restart_reveal_after_reconstruct
  <2>2. v.phase.tag = "revealing" /\ v.phase.purpose = "board" /\ v.seats = t.seats /\ v.rit = t.rit
    BY <1>1, <1>3, CommunityRevealSound
  <2> HIDE DEF v, u
  <2>3. QED
    BY <2>1, <2>2 DEF Dealing, u
<1>4. CASE t.phase.street = SHOWDOWN
  <2> DEFINE v == start_showdown_reveal_phase(t)
  <2>1. u = v
    BY <1>2, <1>4 DEF restart_reveal_after_reconstruct
  <2>2. v.phase.tag = "revealing" /\ v.phase.purpose = "owner" /\ v.seats = t.seats /\ v.rit = t.rit
    BY <1>1, ShowdownRevealSound
  <2> HIDE DEF v, u
  <2>3. QED
    BY <2>1, <2>2 DEF Dealing, u
<1>5. CASE t.phase.street \in FLOP..RIVER /\ ~(t.board < t.phase.street + 1)
  <2>1. u = t
    BY <1>2, <1>5 DEF restart_reveal_after_reconstruct
  <2> HIDE DEF u
  <2>2. QED
    BY <2>1 DEF Dealing, u
<1>6. QED
  BY <1>2, <1>3, <1>4, <1>5

\* Hole cards are opened by each for the others.
LEMMA PreflopRevealSteady ==
  ASSUME NEW t, Solid(t), NoWagers(t), Solvent(t), ~t.rit,
         \A j \in Seats : t.seats[j].kind \notin {"folded", "allin"}
  PROVE  Steady(start_preflop_reveal_phase(t))
<1> DEFINE u == start_preflop_reveal_phase(t)
<1>1. /\ u.phase.tag = "revealing" /\ u.phase.purpose = "hole" /\ u.seats = t.seats /\ u.rit = t.rit
      /\ u.phase.assign = [i \in active_seats(t) |-> active_seats(t) \ {i}]
  BY PreflopRevealSound
<1> HIDE DEF u
<1>2. Fresh(u) /\ Twice(u) /\ Closed(u) /\ Round(u) /\ Played(u) /\ Solvent(u)
  BY <1>1 DEF Fresh, Twice, Closed, Round, Played, Solvent, Dealing
<1>3. Contested(u)
  <2>1. SUFFICES ASSUME pending_revealers(u) # {} PROVE ~few_live(u, 1)
    BY <1>1 DEF Contested, Dealing
  <2>2. PICK j : j \in UNION Range(u.phase.assign)
    BY <2>1 DEF pending_revealers
  <2>3. PICK i \in DOMAIN u.phase.assign : j \in u.phase.assign[i]
    BY <2>2 DEF Range
  <2>4. i \in active_seats(t) /\ j \in active_seats(t) /\ i # j
    BY <1>1, <2>3
  <2>5. active_seats(t) = live_seats(u)
    BY <1>1 DEF active_seats, live_seats, of_kind
  <2>6. QED
    BY <2>4, <2>5, TwoLive
<1>4. QED
  BY <1>2, <1>3 DEF Steady, Regular, Loose, u

LEMMA AdvanceShuffleSteady ==
  ASSUME NEW t, Sound(t), t.phase.tag = "shuffling", Loose(t)
  PROVE  LET u == advance_shuffle(t)
         IN  /\ Loose(u) /\ u.seats = t.seats
             /\ Contested(t) => Steady(u)
             /\ ~few_live(t, 1) => Steady(u)
<1> DEFINE u == advance_shuffle(t)
<1>1. Solid(t) /\ t \in Tables /\ t.phase.purpose \in {"initial", "reconstruct"}
  BY ShuffleFields DEF Sound, Solid
<1>2. Played(t) /\ (~few_live(t, 1) => Contested(t))
  BY DEF Played, Contested
<1>3. CASE t.phase.pending # {}
  <2>1. u = t
    BY <1>3 DEF advance_shuffle
  <2> HIDE DEF u
  <2>2. QED
    BY <1>2, <2>1 DEF Steady, Regular, u
<1>4. CASE t.phase.pending = {} /\ t.phase.purpose = "initial"
  <2>1. u = start_preflop_reveal_phase(t)
    BY <1>4 DEF advance_shuffle
  <2>2. NoWagers(t)
    BY <1>4 DEF Sound, Quiet, Unopened
  <2>3. ~t.rit /\ Solvent(t) /\ \A j \in Seats : t.seats[j].kind \notin {"folded", "allin"}
    BY <1>4 DEF Loose, Fresh, Unopened
  <2>4. u.seats = t.seats
    BY <1>1, <2>1, <2>2, PreflopRevealSound
  <2>5. Steady(u)
    BY <1>1, <2>1, <2>2, <2>3, PreflopRevealSteady
  <2> HIDE DEF u
  <2>6. QED
    BY <2>4, <2>5 DEF Steady, Regular, u
<1>5. CASE t.phase.pending = {} /\ t.phase.purpose = "reconstruct"
  <2>1. u = restart_reveal_after_reconstruct(t)
    BY <1>5 DEF advance_shuffle
  <2>2. u.seats = t.seats /\ u.rit = t.rit /\ Dealing(u.phase)
    BY <1>5, <2>1, RestartRevealIs
  <2>3. Dealing(t.phase)
    BY <1>5 DEF Dealing
  <2> HIDE DEF u
  <2>4. Loose(u) /\ (~few_live(t, 1) => Steady(u))
    BY <2>2, <2>3, DealtLoose
  <2>5. Contested(t) => ~few_live(t, 1)
    BY <2>3 DEF Contested
  <2>6. QED
    BY <2>2, <2>4, <2>5 DEF u
<1>6. QED
  BY <1>1, <1>3, <1>4, <1>5

\* The reconstructed deck is shuffled by the seats of the hand.
LEMMA CompleteReconstructSteady ==
  ASSUME NEW t, Sound(t), t.phase.tag = "reconstructing", Loose(t), ~few_live(t, 1)
  PROVE  Steady(on_complete_reconstruct(t))
<1> DEFINE p == Shuffling("reconstruct", t.phase.street, active_seats(t))
           u == [t EXCEPT !.phase = p]
<1>1. on_complete_reconstruct(t) = advance_shuffle(u)
  BY DEF on_complete_reconstruct, in_phase
<1>2. Solid(t) /\ NoBets(t) /\ t.phase.street \in FLOP..SHOWDOWN
  BY ReconstructFields DEF Sound, Solid, Quiet
<1>3. p \in ShufflingPhases
  BY <1>2, KindSets, NewPhases
<1>4. p.tag = "shuffling" /\ p.purpose = "reconstruct" /\ p.pending = active_seats(t)
  BY DEF Shuffling
<1> HIDE DEF p
<1>5. Sound(u) /\ u.phase = p /\ u.seats = t.seats /\ u.rit = t.rit
  BY <1>2, <1>3, <1>4, RephaseSound
<1> HIDE DEF u
<1>6. Dealing(u.phase) /\ Dealing(t.phase)
  BY <1>4, <1>5 DEF Dealing
<1>7. Loose(u) /\ (few_live(u, 1) <=> few_live(t, 1))
  BY <1>5, <1>6, DealtLoose
<1>8. QED
  BY <1>1, <1>4, <1>5, <1>7, AdvanceShuffleSteady

-----------------------------------------------------------------------------
(* Folds, kicks and timeouts.                                              *)

\* One seat is out of the hand, the others are as they were.
Dropped(t, k, i) ==
  /\ \A j \in Seats \ {i} : k.seats[j] = t.seats[j]
  /\ k.seats[i].kind \in {"folded", "departed"}
  /\ k.acted \ {i} = t.acted \ {i} /\ k.rit = t.rit

LEMMA DroppedIs ==
  ASSUME NEW t, NEW k, NEW i \in Seats, Dropped(t, k, i)
  PROVE  /\ live_seats(k) = live_seats(t) \ {i} /\ actionable_seats(k) = actionable_seats(t) \ {i}
         /\ Sole(t) => Sole(k)
         /\ few_live(t, 1) => few_live(k, 1)
         /\ Solvent(t) => Solvent(k)
         /\ Level(t) => Level(k)
         /\ LevelPot(t) => LevelPot(k)
<1>1. live_seats(k) = live_seats(t) \ {i} /\ actionable_seats(k) = actionable_seats(t) \ {i}
  BY DEF Dropped, live_seats, actionable_seats, of_kind
<1>2. /\ Sole(t) => Sole(k)
      /\ few_live(t, 1) => few_live(k, 1)
  BY <1>1, FewSeats
<1>3. \A j \in actionable_seats(k) \cup live_seats(k) : j \in Seats /\ k.seats[j] = t.seats[j]
  BY <1>1, KindSets DEF Dropped
<1>4. Solvent(t) => Solvent(k)
  <2>1. SUFFICES ASSUME Solvent(t), NEW j \in Seats, k.seats[j].kind \in {"waiting", "active"}
                 PROVE  k.seats[j].stack > 0
    BY DEF Solvent
  <2>2. j # i
    BY <2>1 DEF Dropped
  <2>3. QED
    BY <2>1, <2>2 DEF Solvent, Dropped
<1>5. Level(t) => Level(k)
  BY <1>1, <1>3 DEF Level
<1>6. LevelPot(t) => LevelPot(k)
  BY <1>1, <1>3 DEF LevelPot
<1>7. QED
  BY <1>1, <1>2, <1>4, <1>5, <1>6

LEMMA DroppedBets ==
  ASSUME NEW t, NEW k, NEW i \in Seats, Dropped(t, k, i), k.phase = t.phase
  PROVE  /\ WithinBet(t) => WithinBet(k)
         /\ Owing(k) = Owing(t) \ {i}
         /\ \A x : InLine(t, x) => InLine(k, x)
<1>1. live_seats(k) = live_seats(t) \ {i} /\ actionable_seats(k) = actionable_seats(t) \ {i}
  BY DroppedIs
<1>2. \A j \in actionable_seats(k) \cup live_seats(k) : j \in Seats /\ j # i /\ k.seats[j] = t.seats[j]
  BY <1>1, KindSets DEF Dropped
<1>3. WithinBet(t) => WithinBet(k)
  BY <1>1, <1>2 DEF WithinBet
<1>4. \A j : j # i => (j \in k.acted <=> j \in t.acted)
  BY DEF Dropped
<1>5. Owing(k) = Owing(t) \ {i}
  <2>1. ASSUME NEW j PROVE j \in Owing(k) <=> j \in Owing(t) \ {i}
    BY <1>1, <1>2, <1>4 DEF Owing
  <2>2. QED
    BY <2>1
<1>6. \A x : InLine(t, x) => InLine(k, x)
  BY <1>1, <1>5 DEF InLine
<1>7. QED
  BY <1>3, <1>5, <1>6

\* The seat that has the turn drops out.
LEMMA DroppedBidding ==
  ASSUME NEW t, Loose(t), t.phase.tag = "betting", NEW k, NEW i \in Seats, t.phase.turn = i,
         Dropped(t, k, i), k.phase = t.phase
  PROVE  Bidding(k)
<1>1. /\ Solvent(t) /\ ~t.rit /\ LevelPot(t) /\ WithinBet(t) /\ Asked(t)
  BY DEF Loose, Twice, Round
<1>2. i \in Owing(t) /\ InLine(t, i)
  BY <1>1, SeatsFinite DEF Asked
<1>3. Solvent(k) /\ LevelPot(k) /\ WithinBet(k) /\ Owing(k) = Owing(t) \ {i} /\ InLine(k, i)
  BY <1>1, <1>2, DroppedIs, DroppedBets
<1>4. k.rit = t.rit
  BY DEF Dropped
<1>5. QED
  BY <1>1, <1>3, <1>4 DEF Bidding

\* Another seat drops out.
LEMMA DroppedLoose ==
  ASSUME NEW t, Loose(t), NEW k, NEW i \in Seats, Dropped(t, k, i),
         k.seats[i].kind = "folded" => ~Unopened(t.phase),
         k.phase.tag = t.phase.tag,
         Unopened(k.phase) <=> Unopened(t.phase),
         Dealing(k.phase) <=> Dealing(t.phase),
         t.phase.tag = "betting" => k.phase = t.phase /\ t.phase.turn # i
  PROVE  Loose(k)
<1>1. Fresh(t) /\ Solvent(t) /\ Twice(t) /\ Closed(t) /\ Round(t)
  BY DEF Loose
<1>2. /\ k.rit = t.rit
      /\ \A j \in Seats \ {i} : k.seats[j] = t.seats[j]
      /\ k.seats[i].kind \in {"folded", "departed"}
  BY DEF Dropped
<1>3. Fresh(k)
  BY <1>1, <1>2 DEF Fresh
<1>4. Solvent(k) /\ Twice(k) /\ Closed(k)
  BY <1>1, <1>2, DroppedIs DEF Twice, Closed
<1>5. CASE t.phase.tag = "betting"
  <2>1. LevelPot(t) /\ WithinBet(t) /\ Asked(t)
    BY <1>1, <1>5 DEF Round
  <2>2. /\ LevelPot(k) /\ actionable_seats(k) = actionable_seats(t) \ {i}
    BY <2>1, DroppedIs
  <2>3. WithinBet(k) /\ Owing(k) = Owing(t) \ {i} /\ \A x : InLine(t, x) => InLine(k, x)
    BY <1>5, <2>1, DroppedBets
  <2>4. Asked(k)
    BY <1>5, <2>1, <2>2, <2>3 DEF Asked
  <2>5. Round(k)
    BY <2>2, <2>3, <2>4 DEF Round
  <2>6. QED
    BY <1>3, <1>4, <2>5 DEF Loose
<1>6. CASE t.phase.tag # "betting"
  BY <1>3, <1>4, <1>6 DEF Loose, Round
<1>7. QED
  BY <1>5, <1>6

LEMMA FoldSteady ==
  ASSUME NEW t, Solid(t), Loose(t), t.phase.tag = "betting", NEW i \in Seats, t.phase.turn = i
  PROVE  Steady(apply_fold(t, i))
<1> DEFINE f == Folded(t, i)
<1>1. apply_fold(t, i) = IF few_live(f, 1) THEN end_without_showdown(f) ELSE advance_turn(f)
  BY DEF apply_fold, Folded
<1>2. /\ Solid(f) /\ f.phase = t.phase /\ f.rit = t.rit /\ f.acted = t.acted \cup {i}
      /\ f.seats[i].kind = "folded"
      /\ \A j \in Seats \ {i} : f.seats[j] = t.seats[j]
  BY FoldedIs
<1> HIDE DEF f
<1>3. Dropped(t, f, i)
  BY <1>2 DEF Dropped
<1>4. Bidding(f)
  BY <1>2, <1>3, DroppedBidding
<1>5. few_live(f, 1) => Steady(end_without_showdown(f))
  BY <1>2, EndBetween, BetweenSteady DEF Solid
<1>6. QED
  BY <1>1, <1>2, <1>4, <1>5, AdvanceTurnSteady

LEMMA BettingTimeoutSteady ==
  ASSUME NEW t, Sound(t), Steady(t), t.phase.tag = "betting"
  PROVE  Steady(on_betting_timeout(t))
<1> DEFINE i == t.phase.turn
           s == [t.seats[i] EXCEPT !.bank = @ - Min({@, BettingTimeout})]
           u == [t EXCEPT !.seats[i].bank = @ - Min({@, BettingTimeout})]
<1>1. Solid(t) /\ t \in Tables /\ Loose(t) /\ t.seats \in [Seats -> SeatRecords]
  BY SumsOf DEF Sound, Solid, Steady, Regular
<1>2. i \in Seats
  <2>1. i # NO_SEAT /\ Asked(t)
    BY DEF Steady, Regular, Loose, Played, Round
  <2>2. i \in actionable_seats(t)
    BY <2>1 DEF Asked, Owing
  <2>3. QED
    BY <2>2, KindSets
<1>3. CASE t.seats[i].bank > 0
  <2>1. on_betting_timeout(t) = u
    BY <1>3 DEF on_betting_timeout
  <2>2. t.seats[i] \in SeatRecords
    BY <1>1, <1>2
  <2>3. s.kind = t.seats[i].kind /\ s.bet = t.seats[i].bet /\ s.total = t.seats[i].total /\ s.stack = t.seats[i].stack
    BY <2>2 DEF SeatRecords
  <2>4. u = [t EXCEPT !.seats = [t.seats EXCEPT ![i] = s]]
    BY <1>1 DEF Tables
  <2> HIDE DEF s, u
  <2>5. u.phase = t.phase /\ u.acted = t.acted /\ u.rit = t.rit /\ u.seats = [t.seats EXCEPT ![i] = s]
    BY <1>1, <2>4 DEF Tables
  <2>6. u.seats[i] = s /\ \A j \in Seats \ {i} : u.seats[j] = t.seats[j]
    BY <1>1, <1>2, <2>5
  <2>7. SameView(t, u) /\ \A j \in Seats : u.seats[j].stack = t.seats[j].stack
    BY <2>3, <2>6 DEF SameView
  <2>8. Solvent(u)
    BY <1>1, <2>7 DEF Loose, Solvent, SameView
  <2>9. QED
    BY <2>1, <2>5, <2>7, <2>8, ViewSteady
<1>4. CASE ~(t.seats[i].bank > 0)
  <2>1. on_betting_timeout(t) = apply_fold(t, i)
    BY <1>4 DEF on_betting_timeout
  <2>2. QED
    BY <1>1, <1>2, <2>1, FoldSteady
<1>5. QED
  BY <1>3, <1>4

\* The seat is taken away, and nothing is decided yet.
LEMMA KickRawDropped ==
  ASSUME NEW t, Sound(t), NEW i \in occupied_seats(t)
  PROVE  LET k == kick_seat_raw(t, i)
         IN  /\ Dropped(t, k, i) /\ k.seats[i].kind = "departed" /\ k.phase.tag = t.phase.tag
             /\ Unopened(k.phase) <=> Unopened(t.phase)
             /\ Dealing(k.phase) <=> Dealing(t.phase)
             /\ t.phase.tag = "betting" => k.phase = t.phase
             /\ t.phase.tag \in {"shuffling", "revealing"} => k.phase.purpose = t.phase.purpose
<1> DEFINE k == kick_seat_raw(t, i)
           p == t.phase
<1>1. t \in Tables /\ i \in Seats /\ p \in Phases
  BY KindSets DEF Sound, Solid, Tables
<1>2. /\ k.phase = remove_seat_from_phase(p, i) /\ k.phase.tag = p.tag
      /\ \A j \in Seats \ {i} : k.seats[j] = t.seats[j]
      /\ k.seats[i].kind = "departed"
      /\ k.acted = t.acted \ {i} /\ k.rit = t.rit
  BY <1>1, KickRawIs
<1> HIDE DEF k, p
<1>3. p.tag \in {"shuffling", "revealing"} => k.phase.purpose = p.purpose
  BY <1>1, <1>2, RemoveSeatPurpose
<1>4. p.tag = "betting" => k.phase = p
  BY <1>1, <1>2, RemoveSeat
<1>5. /\ Unopened(k.phase) <=> Unopened(p)
      /\ Dealing(k.phase) <=> Dealing(p)
  BY <1>2, <1>3 DEF Unopened, Dealing
<1>6. Dropped(t, k, i)
  BY <1>2 DEF Dropped
<1>7. QED
  BY <1>2, <1>3, <1>4, <1>5, <1>6 DEF k, p

LEMMA KickRawLoose ==
  ASSUME NEW t, Sound(t), Loose(t), NEW i \in Seats
  PROVE  LET k == kick_seat_raw(t, i)
         IN  /\ current_turn(t) # i => Loose(k)
             /\ current_turn(t) = i => Bidding(k)
             /\ t.phase.tag = "betting" => k.phase = t.phase
             /\ t.phase.tag \in {"shuffling", "revealing"} => k.phase.purpose = t.phase.purpose
<1> DEFINE k == kick_seat_raw(t, i)
<1>1. CASE i \notin occupied_seats(t)
  <2>1. k = t
    BY <1>1 DEF kick_seat_raw
  <2>2. current_turn(t) # i
    <3>1. SUFFICES ASSUME current_turn(t) = i PROVE FALSE
      OBVIOUS
    <3>2. t.phase.tag = "betting" /\ t.phase.turn = i /\ i # NO_SEAT
      BY <3>1, SeatsFinite DEF current_turn, in_phase
    <3>3. i \in actionable_seats(t)
      BY <3>2 DEF Loose, Round, Asked, Owing
    <3>4. QED
      BY <1>1, <3>3, KindSets
  <2> HIDE DEF k
  <2>3. QED
    BY <2>1, <2>2 DEF k
<1>2. CASE i \in occupied_seats(t)
  <2>1. /\ Dropped(t, k, i) /\ k.seats[i].kind = "departed" /\ k.phase.tag = t.phase.tag
        /\ Unopened(k.phase) <=> Unopened(t.phase)
        /\ Dealing(k.phase) <=> Dealing(t.phase)
        /\ t.phase.tag = "betting" => k.phase = t.phase
        /\ t.phase.tag \in {"shuffling", "revealing"} => k.phase.purpose = t.phase.purpose
    BY <1>2, KickRawDropped
  <2> HIDE DEF k
  <2>2. current_turn(t) = i => t.phase.tag = "betting" /\ t.phase.turn = i
    BY SeatsFinite DEF current_turn, in_phase
  <2>3. current_turn(t) # i => (t.phase.tag = "betting" => t.phase.turn # i)
    BY DEF current_turn, in_phase
  <2>4. current_turn(t) # i => Loose(k)
    BY <2>1, <2>3, DroppedLoose
  <2>5. current_turn(t) = i => Bidding(k)
    BY <2>1, <2>2, DroppedBidding
  <2>6. QED
    BY <2>1, <2>4, <2>5 DEF k
<1>3. QED
  BY <1>1, <1>2

LEMMA LowPlayerSteady ==
  ASSUME NEW t \in Tables, ~few_live(t, 1) => Steady(t)
  PROVE  Steady(low_player_cascade(t))
<1>1. CASE ~few_live(t, 1)
  <2>1. Cardinality(live_seats(t)) # 1 /\ live_seats(t) # {}
    BY <1>1, FewSeats
  <2>2. low_player_cascade(t) = t
    BY <1>1, <2>1 DEF low_player_cascade
  <2>3. QED
    BY <1>1, <2>2
<1>2. CASE few_live(t, 1)
  <2>1. low_player_cascade(t) \in {end_without_showdown(t), reset_for_next_hand(t)}
    BY <1>2 DEF low_player_cascade
  <2>2. Steady(end_without_showdown(t)) /\ Steady(reset_for_next_hand(t))
    BY EndBetween, ResetBetween, BetweenSteady
  <2>3. QED
    BY <2>1, <2>2
<1>3. QED
  BY <1>1, <1>2

LEMMA KickSteady ==
  ASSUME NEW t, Sound(t), Steady(t), NEW i \in Seats
  PROVE  Steady(kick_player_internal(t, i))
<1> DEFINE k == kick_seat_raw(t, i)
           a == advance_shuffle(k)
           b == advance_turn(k)
<1>1. Sound(k) /\ k.phase.tag = t.phase.tag /\ k \in Tables /\ Solid(k)
  BY KickRawSound DEF Sound, Solid
<1>2. kick_player_internal(t, i) =
        CASE current_shuffler(t) = i -> low_player_cascade(a)
          [] current_turn(t) = i -> IF few_live(k, 1) THEN end_without_showdown(k) ELSE low_player_cascade(b)
          [] OTHER -> low_player_cascade(k)
  BY DEF kick_player_internal, kick_cascades
<1>3. Loose(t)
  BY DEF Steady, Regular
<1>4. /\ current_turn(t) # i => Loose(k)
      /\ current_turn(t) = i => Bidding(k)
      /\ t.phase.tag = "betting" => k.phase = t.phase
  BY <1>3, KickRawLoose
<1> HIDE DEF k
<1>5. /\ current_shuffler(t) = i => t.phase.tag = "shuffling"
      /\ current_turn(t) = i => t.phase.tag = "betting"
  BY SeatsFinite DEF current_shuffler, current_turn, in_phase
<1>6. CASE current_shuffler(t) = i
  <2>1. current_turn(t) # i
    BY <1>5, <1>6
  <2>2. kick_player_internal(t, i) = low_player_cascade(a)
    BY <1>2, <1>6, <2>1
  <2>3. Sound(a) /\ a.seats = k.seats /\ (~few_live(k, 1) => Steady(a))
    BY <1>1, <1>4, <1>5, <1>6, <2>1, AdvanceShuffleSound, AdvanceShuffleSteady
  <2> HIDE DEF a
  <2>4. few_live(a, 1) <=> few_live(k, 1)
    BY <2>3, SameKinds
  <2>5. a \in Tables
    BY <2>3 DEF Sound, Solid
  <2>6. QED
    BY <2>2, <2>3, <2>4, <2>5, LowPlayerSteady
<1>7. CASE current_shuffler(t) # i /\ current_turn(t) = i
  <2>1. CASE few_live(k, 1)
    <3>1. kick_player_internal(t, i) = end_without_showdown(k)
      BY <1>2, <1>7, <2>1
    <3>2. QED
      BY <1>1, <3>1, EndBetween, BetweenSteady
  <2>2. CASE ~few_live(k, 1)
    <3>1. kick_player_internal(t, i) = low_player_cascade(b)
      BY <1>2, <1>7, <2>2
    <3>2. Steady(b)
      BY <1>1, <1>4, <1>7, <2>2, AdvanceTurnSteady
    <3>3. Sound(b)
      BY <1>1, <1>5, <1>7, AdvanceTurnSound
    <3> HIDE DEF b
    <3>4. b \in Tables
      BY <3>3 DEF Sound, Solid
    <3>5. QED
      BY <3>1, <3>2, <3>4, LowPlayerSteady
  <2>3. QED
    BY <2>1, <2>2
<1>8. CASE current_shuffler(t) # i /\ current_turn(t) # i
  <2>1. kick_player_internal(t, i) = low_player_cascade(k)
    BY <1>2, <1>8
  <2>2. ~few_live(k, 1) => Contested(k) /\ Played(k)
    <3>1. t.phase.tag = "betting" => t.phase.turn # NO_SEAT
      BY DEF Steady, Played
    <3>2. QED
      BY <1>1, <1>4, <3>1 DEF Contested, Played
  <2>3. ~few_live(k, 1) => Steady(k)
    BY <1>4, <1>8, <2>2 DEF Steady, Regular
  <2>4. QED
    BY <1>1, <2>1, <2>3, LowPlayerSteady
<1>9. QED
  BY <1>6, <1>7, <1>8

LEMMA KickAllRawLoose ==
  ASSUME NEW t, Sound(t), Loose(t), t.phase.tag = "revealing", NEW S
  PROVE  LET k == kick_all_raw(t, S)
         IN  Sound(k) /\ Loose(k) /\ k.phase.tag = "revealing" /\ k.phase.purpose = t.phase.purpose
<1> DEFINE Z == {u \in Tables : /\ Sound(u) /\ Loose(u) /\ u.phase.tag = "revealing"
                                /\ u.phase.purpose = t.phase.purpose}
<1>1. t \in Z
  BY DEF Sound, Solid
<1>2. \A u \in Z, i \in Seats : kick_seat_raw(u, i) \in Z
  <2>1. SUFFICES ASSUME NEW u, Sound(u), Loose(u), u.phase.tag = "revealing",
                        u.phase.purpose = t.phase.purpose, NEW i \in Seats
                 PROVE  kick_seat_raw(u, i) \in Z
    OBVIOUS
  <2> DEFINE k == kick_seat_raw(u, i)
  <2>2. Sound(k) /\ k.phase.tag = "revealing"
    BY <2>1, KickRawSound
  <2>3. current_turn(u) # i
    BY <2>1, SeatsFinite DEF current_turn, in_phase
  <2>4. Loose(k) /\ k.phase.purpose = u.phase.purpose
    BY <2>1, <2>3, KickRawLoose
  <2> HIDE DEF k
  <2>5. k \in Tables
    BY <2>2 DEF Sound, Solid
  <2>6. k \in Z
    BY <2>1, <2>2, <2>4, <2>5
  <2>7. QED
    BY <2>6 DEF k
<1>3. kick_all_raw(t, S) \in Z
  <2> HIDE DEF Z
  <2>1. QED
    BY <1>1, <1>2, KickAllRawIn
<1>4. QED
  BY <1>3

LEMMA KickAllSteady ==
  ASSUME NEW t, Sound(t), Steady(t), NEW S
  PROVE  Sound(kick_all(t, S)) /\ Steady(kick_all(t, S))
<1> DEFINE Z == {u \in Tables : Sound(u) /\ Steady(u)}
<1>1. t \in Z
  BY DEF Sound, Solid
<1>2. \A u \in Z, i \in Seats : kick_player_internal(u, i) \in Z
  BY KickSound, KickSteady DEF Sound, Solid
<1>3. kick_all(t, S) \in Z
  <2> HIDE DEF Z
  <2>1. QED
    BY <1>1, <1>2, KickAllIn
<1>4. QED
  BY <1>3

\* A table, or the error of a step that could not be taken.
SteadyOrError(t) == is_error(t) \/ Steady(t)

LEMMA AfterTimeoutSteady ==
  ASSUME NEW k \in Tables, NEW next, ~few_live(k, 1) => SteadyOrError(next)
  PROVE  SteadyOrError(after_timeout(k, next))
<1>1. Steady(give_up(k)) /\ Steady(end_without_showdown(k))
  BY EndBetween, GiveUpBetween, BetweenSteady
<1>2. CASE live_seats(k) = {}
  <2>1. Cardinality(live_seats(k)) # 1
    <3>1. Cardinality({}) = 0
      BY FS_EmptySet
    <3>2. QED
      BY <1>2, <3>1
  <2>2. after_timeout(k, next) = give_up(k)
    BY <1>2, <2>1 DEF after_timeout
  <2>3. QED
    BY <1>1, <2>2 DEF SteadyOrError
<1>3. CASE live_seats(k) # {} /\ Cardinality(live_seats(k)) = 1
  <2>1. after_timeout(k, next) = end_without_showdown(k)
    BY <1>3 DEF after_timeout
  <2>2. QED
    BY <1>1, <2>1 DEF SteadyOrError
<1>4. CASE live_seats(k) # {} /\ Cardinality(live_seats(k)) # 1
  <2>1. after_timeout(k, next) = next
    BY <1>4 DEF after_timeout
  <2>2. ~few_live(k, 1)
    BY <1>4, FewSeats
  <2>3. QED
    BY <2>1, <2>2
<1>5. QED
  BY <1>2, <1>3, <1>4

\* A fresh deck: nothing else changes.
LEMMA RebuildLoose ==
  ASSUME NEW t, Sound(t), t.phase.tag = "shuffling", Loose(t)
  PROVE  LET u == rebuild_deck_and_shuffle_on_timeout(t)
         IN  Sound(u) /\ u.phase.tag = "shuffling" /\ Loose(u) /\ (few_live(u, 1) <=> few_live(t, 1))
<1> DEFINE u == rebuild_deck_and_shuffle_on_timeout(t)
<1>1. Sound(u) /\ u.phase.tag = "shuffling" /\ u.phase.purpose = t.phase.purpose
  BY RebuildSound
<1>2. t \in Tables
  BY DEF Sound, Solid
<1>3. u.seats = t.seats /\ u.rit = t.rit
  BY <1>2 DEF rebuild_deck_and_shuffle_on_timeout, Tables
<1> HIDE DEF u
<1>4. SameView(t, u)
  BY <1>3 DEF SameView
<1>5. /\ few_live(u, 1) <=> few_live(t, 1)
      /\ Sole(u) <=> Sole(t)
      /\ Level(u) <=> Level(t)
  BY <1>4, ViewIs
<1>6. /\ Unopened(u.phase) <=> Unopened(t.phase)
      /\ Dealing(u.phase) <=> Dealing(t.phase)
  BY <1>1 DEF Unopened, Dealing
<1>7. Fresh(t) /\ Solvent(t) /\ Twice(t) /\ Closed(t)
  BY DEF Loose
<1>8. Fresh(u) /\ Solvent(u)
  BY <1>3, <1>6, <1>7 DEF Fresh, Solvent
<1>9. Twice(u) /\ Closed(u) /\ Round(u)
  BY <1>1, <1>3, <1>5, <1>6, <1>7 DEF Twice, Closed, Round
<1>10. QED
  BY <1>1, <1>5, <1>8, <1>9 DEF Loose, u

LEMMA ShuffleTimeoutSteady ==
  ASSUME NEW t, Sound(t), Steady(t), t.phase.tag = "shuffling", t.phase.pending # {}
  PROVE  SteadyOrError(on_shuffle_timeout(t))
<1> DEFINE i == current_shuffler(t)
           k == kick_player_internal(t, i)
           r == rebuild_deck_and_shuffle_on_timeout(k)
           next == IF in_phase(k, "shuffling") THEN advance_shuffle(r) ELSE k
<1>1. i \in Seats
  <2>1. t.phase.pending \in SUBSET Seats
    BY ShuffleFields DEF Sound, Solid
  <2>2. i = Min(t.phase.pending)
    BY DEF current_shuffler, in_phase
  <2>3. QED
    BY <2>1, <2>2, MinSeat
<1>2. Sound(k) /\ Steady(k)
  BY <1>1, KickSound, KickSteady
<1>3. on_shuffle_timeout(t) = after_timeout(k, next)
  BY DEF on_shuffle_timeout, restart_shuffle
<1> HIDE DEF k
<1>4. ASSUME ~few_live(k, 1), in_phase(k, "shuffling")
      PROVE  Steady(advance_shuffle(r))
  <2>1. Sound(r) /\ r.phase.tag = "shuffling" /\ Loose(r) /\ ~few_live(r, 1)
    BY <1>2, <1>4, RebuildLoose DEF in_phase, Steady, Regular
  <2> HIDE DEF r
  <2>2. QED
    BY <2>1, AdvanceShuffleSteady
<1>5. k \in Tables
  BY <1>2 DEF Sound, Solid
<1> HIDE DEF r
<1>6. ~few_live(k, 1) => SteadyOrError(next)
  BY <1>2, <1>4 DEF SteadyOrError
<1> HIDE DEF next
<1>7. QED
  BY <1>3, <1>5, <1>6, AfterTimeoutSteady

LEMMA RevealTimeoutSteady ==
  ASSUME NEW t, Sound(t), Steady(t), t.phase.tag = "revealing"
  PROVE  SteadyOrError(on_reveal_timeout(t))
<1> DEFINE k == kick_all_raw(t, pending_revealers(t))
           next == IF k.phase.purpose = "hole" THEN reset_for_next_hand(k) ELSE start_reconstruct(k)
<1>1. Sound(k) /\ Loose(k) /\ k.phase.tag = "revealing"
  BY KickAllRawLoose DEF Steady, Regular
<1>2. on_reveal_timeout(t) = after_timeout(k, next)
  BY DEF on_reveal_timeout, restart_reveal
<1> HIDE DEF k
<1>3. k \in Tables
  BY <1>1 DEF Sound, Solid
<1>4. ~few_live(k, 1) => SteadyOrError(next)
  <2>1. SUFFICES ASSUME ~few_live(k, 1) PROVE SteadyOrError(next)
    OBVIOUS
  <2>2. CASE k.phase.purpose = "hole"
    BY <1>3, <2>2, ResetBetween, BetweenSteady DEF SteadyOrError
  <2>3. CASE k.phase.purpose # "hole"
    <3> DEFINE u == start_reconstruct(k)
    <3>1. u.phase.tag = "reconstructing" /\ u.seats = k.seats /\ u.rit = k.rit
      BY <1>3 DEF start_reconstruct, Tables, Reconstructing
    <3> HIDE DEF u
    <3>2. Dealing(u.phase) /\ Dealing(k.phase)
      BY <1>1, <2>3, <3>1 DEF Dealing
    <3>3. Steady(u)
      BY <1>1, <2>1, <3>1, <3>2, DealtLoose
    <3>4. QED
      BY <2>3, <3>3 DEF SteadyOrError, u
  <2>4. QED
    BY <2>2, <2>3
<1> HIDE DEF next
<1>5. QED
  BY <1>2, <1>3, <1>4, AfterTimeoutSteady

LEMMA ReconstructTimeoutSteady ==
  ASSUME NEW t, Sound(t), Steady(t)
  PROVE  SteadyOrError(on_reconstruct_timeout(t))
<1> DEFINE k == kick_all(t, t.phase.pending)
           next == IF t.phase.contributed THEN on_complete_reconstruct(k) ELSE give_up(k)
<1>1. Sound(k) /\ Steady(k)
  BY KickAllSteady
<1>2. on_reconstruct_timeout(t) = after_timeout(k, next)
  BY DEF on_reconstruct_timeout, restart_deck
<1> HIDE DEF k
<1>3. k \in Tables /\ Solid(k)
  BY <1>1 DEF Sound, Solid
<1>4. ~few_live(k, 1) => SteadyOrError(on_complete_reconstruct(k))
  <2>1. CASE k.phase.tag # "reconstructing"
    <3>1. on_complete_reconstruct(k) = failed(k)
      BY <2>1 DEF on_complete_reconstruct, in_phase
    <3>2. QED
      BY <1>3, <3>1, FailedSound DEF SteadyOrError
  <2>2. CASE k.phase.tag = "reconstructing"
    BY <1>1, <2>2, CompleteReconstructSteady DEF SteadyOrError, Steady, Regular
  <2>3. QED
    BY <2>1, <2>2
<1>5. Steady(give_up(k))
  BY <1>3, GiveUpBetween, BetweenSteady
<1>6. ~few_live(k, 1) => SteadyOrError(next)
  BY <1>4, <1>5 DEF SteadyOrError
<1> HIDE DEF next
<1>7. QED
  BY <1>2, <1>3, <1>6, AfterTimeoutSteady

LEMMA TimeoutSteady ==
  ASSUME NEW t, Sound(t), Steady(t), blocked(t)
  PROVE  SteadyOrError(on_timeout(t))
<1>1. Solid(t) /\ t \in Tables /\ t.phase \in Phases
  BY DEF Sound, Solid, Tables
<1>2. CASE t.phase.tag = "shuffling"
  <2>1. on_timeout(t) = on_shuffle_timeout(t)
    BY <1>2 DEF on_timeout, in_phase
  <2>2. t.phase.pending # {}
    BY <1>2 DEF blocked, in_phase
  <2>3. QED
    BY <1>2, <2>1, <2>2, ShuffleTimeoutSteady
<1>3. CASE t.phase.tag = "revealing"
  <2>1. on_timeout(t) = on_reveal_timeout(t)
    BY <1>3 DEF on_timeout, in_phase
  <2>2. QED
    BY <1>3, <2>1, RevealTimeoutSteady
<1>4. CASE t.phase.tag = "reconstructing"
  <2>1. on_timeout(t) = on_reconstruct_timeout(t)
    BY <1>4 DEF on_timeout, in_phase
  <2>2. QED
    BY <2>1, ReconstructTimeoutSteady
<1>5. CASE t.phase.tag = "betting"
  <2>1. on_timeout(t) = on_betting_timeout(t)
    BY <1>5 DEF on_timeout, in_phase
  <2>2. QED
    BY <1>5, <2>1, BettingTimeoutSteady DEF SteadyOrError
<1>6. CASE t.phase.tag \notin {"shuffling", "revealing", "reconstructing", "betting"}
  <2>1. on_timeout(t) = failed(t)
    BY <1>6 DEF on_timeout, in_phase
  <2>2. QED
    BY <1>1, <2>1, FailedSound DEF SteadyOrError
<1>7. QED
  BY <1>2, <1>3, <1>4, <1>5, <1>6

-----------------------------------------------------------------------------
(* The normalization of a regular table ends in one that is steady.        *)

LEMMA NormalizeStepRegular ==
  ASSUME NEW t, Sound(t), Regular(t), ~blocked(t)
  PROVE  is_error(normalize_step(t)) \/ Regular(normalize_step(t))
<1>1. Solid(t) /\ t \in Tables /\ t.phase.tag \in PhaseTags \cup {"error"} /\ Loose(t) /\ Contested(t)
  BY PhaseOf DEF Sound, Solid, Tables, Regular
<1>2. t.phase.tag \in {"shuffling", "revealing", "reconstructing", "betting"}
  BY <1>1 DEF blocked, in_phase, PhaseTags
<1>3. CASE t.phase.tag = "shuffling"
  <2>1. normalize_step(t) = advance_shuffle(t)
    BY <1>3 DEF normalize_step, in_phase
  <2>2. QED
    BY <1>1, <1>3, <2>1, AdvanceShuffleSteady DEF Steady
<1>4. CASE t.phase.tag = "revealing"
  <2>1. normalize_step(t) = check_reveal_phase_complete(t)
    BY <1>4 DEF normalize_step, in_phase
  <2>2. QED
    BY <1>4, <2>1, CheckRevealSteady
<1>5. CASE t.phase.tag = "reconstructing"
  <2>1. ~few_live(t, 1)
    BY <1>1, <1>5 DEF Contested, Dealing
  <2>2. Steady(on_complete_reconstruct(t))
    BY <1>1, <1>5, <2>1, CompleteReconstructSteady
  <2>3. normalize_step(t) \in {on_complete_reconstruct(t), failed(t)}
    BY <1>5 DEF normalize_step, in_phase
  <2>4. QED
    BY <1>1, <2>2, <2>3, FailedSound DEF Steady
<1>6. CASE t.phase.tag = "betting"
  <2>1. LevelPot(t) /\ WithinBet(t) /\ Asked(t) /\ Solvent(t) /\ ~t.rit
    BY <1>1, <1>6 DEF Loose, Round, Twice
  <2>2. CASE few_live(t, 1)
    <3>1. normalize_step(t) = end_without_showdown(t)
      BY <1>6, <2>2 DEF normalize_step, in_phase
    <3>2. QED
      BY <1>1, <3>1, EndBetween, BetweenSteady DEF Steady
  <2>3. CASE ~few_live(t, 1)
    <3>1. normalize_step(t) = close_round(t)
      BY <1>6, <2>3 DEF normalize_step, in_phase
    <3>2. t.phase.turn = NO_SEAT \/ is_betting_complete(t) \/ no_further_betting_possible(t)
      BY <1>6, <2>3 DEF blocked, in_phase
    <3>3. Level(t)
      <4>1. CASE t.phase.turn = NO_SEAT
        <5>1. NO_SEAT \notin Owing(t)
          BY KindSets, SeatsFinite DEF Owing
        <5>2. actionable_seats(t) = {}
          BY <2>1, <4>1, <5>1 DEF Asked
        <5>3. QED
          BY <5>2 DEF Level
      <4>2. CASE t.phase.turn # NO_SEAT
        BY <1>1, <1>6, <2>1, <3>2, <4>2, LevelWhenMatched DEF is_betting_complete, no_further_betting_possible
      <4>3. QED
        BY <4>1, <4>2
    <3>4. QED
      BY <1>1, <1>6, <2>1, <3>1, <3>3, CloseRoundSteady DEF Steady
  <2>4. QED
    BY <2>2, <2>3
<1>7. QED
  BY <1>2, <1>3, <1>4, <1>5, <1>6

LEMMA NormalizeSteady ==
  ASSUME NEW t, Sound(t), Regular(t)
  PROVE  LET n == normalize_until_blocked(t)
         IN  /\ SteadyOrError(n)
             /\ is_error(n) \/ blocked(n)
<1> DEFINE Z == {u \in Tables : Sound(u) /\ (is_error(u) \/ Regular(u))}
           n == normalize_until_blocked(t)
<1>1. t \in Z /\ Solid(t)
  BY DEF Sound, Solid
<1>2. \A u \in Z : advance_once(u) \in Z
  <2>1. SUFFICES ASSUME NEW u, Sound(u), is_error(u) \/ Regular(u) PROVE advance_once(u) \in Z
    OBVIOUS
  <2>2. Sound(advance_once(u)) /\ Solid(u)
    BY <2>1, AdvanceOnceSound DEF Sound
  <2>3. is_error(advance_once(u)) \/ Regular(advance_once(u))
    <3>1. CASE blocked(u)
      BY <2>1, <3>1 DEF advance_once
    <3>2. CASE ~blocked(u)
      <4>1. ~is_error(u)
        BY <3>2 DEF blocked, is_error, in_phase
      <4>2. is_error(normalize_step(u)) \/ Regular(normalize_step(u))
        BY <2>1, <3>2, <4>1, NormalizeStepRegular
      <4>3. advance_once(u) \in {failed(u), normalize_step(u)}
        BY <3>2 DEF advance_once, checked
      <4>4. QED
        BY <2>2, <4>2, <4>3, FailedSound
    <3>3. QED
      BY <3>1, <3>2
  <2>4. advance_once(u) \in Tables
    BY <2>2 DEF Sound, Solid
  <2>5. QED
    BY <2>2, <2>3, <2>4
<1>3. (n \in Z /\ blocked(n)) \/ n = failed(t)
  <2> HIDE DEF Z
  <2>1. QED
    BY <1>1, <1>2, NormalizeIn
<1> HIDE DEF n
<1>4. CASE n = failed(t)
  BY <1>1, <1>4, FailedSound DEF SteadyOrError, n
<1>5. CASE n \in Z /\ blocked(n)
  <2>1. blocked(n) => Played(n)
    BY DEF blocked, Played, in_phase
  <2>2. SteadyOrError(n)
    BY <1>5, <2>1 DEF SteadyOrError, Steady
  <2>3. QED
    BY <1>5, <2>2 DEF n
<1>6. QED
  BY <1>3, <1>4, <1>5

\* A command whose handler leaves a steady table does so itself.
LEMMA KeptSteady ==
  ASSUME NEW t, AtRest(t), Steady(t)
  PROVE  Steady(kept(t, normalize_until_blocked(t)))
BY NormalizeSteady DEF AtRest, Steady, SteadyOrError, kept

LEMMA DeadlineSteady ==
  ASSUME NEW t, AtRest(t), Steady(t)
  PROVE  Steady(kept(t, on_deadline(t)))
<1> DEFINE n == normalize_until_blocked(t)
           o == on_timeout(n)
<1>1. Sound(n) /\ SteadyOrError(n) /\ (is_error(n) \/ blocked(n))
  BY NormalizeSound, NormalizeSteady DEF AtRest, Steady
<1>2. on_deadline(t) = IF is_error(o) THEN o ELSE normalize_until_blocked(o)
  BY DEF on_deadline, normalized
<1> HIDE DEF n
<1>3. CASE is_error(n)
  <2>1. o = failed(n)
    BY <1>3 DEF on_timeout, is_error, in_phase
  <2>2. is_error(o)
    BY <1>1, <2>1, FailedSound DEF Sound
  <2>3. QED
    BY <1>2, <2>2 DEF kept
<1>4. CASE ~is_error(n)
  <2>1. Sound(o) /\ SteadyOrError(o)
    BY <1>1, <1>4, TimeoutSound, TimeoutSteady DEF SteadyOrError
  <2> HIDE DEF o
  <2>2. ~is_error(o) => SteadyOrError(normalize_until_blocked(o))
    BY <2>1, NormalizeSteady DEF SteadyOrError, Steady
  <2>3. QED
    BY <1>2, <2>2 DEF kept, SteadyOrError
<1>5. QED
  BY <1>3, <1>4

-----------------------------------------------------------------------------
(* In a betting round and between hands no chips are lost.                 *)

\* The seats, the pot and the vault determine the surplus.
LEMMA SameSurplus ==
  ASSUME NEW t, NEW u, u.seats = t.seats, u.pot = t.pot, u.chip_pool = t.chip_pool
  PROVE  Surplus(u) = Surplus(t)
BY DEF Surplus, Worth

\* A seat brings chips into the vault or takes them out.
LEMMA SeatSurplus ==
  ASSUME NEW t \in Tables, NEW u \in Tables, NEW i \in Seats, u.pot = t.pot,
         u.chip_pool - worth(u.seats[i]) = t.chip_pool - worth(t.seats[i]),
         \A j \in Seats \ {i} : u.seats[j] = t.seats[j]
  PROVE  Surplus(u) = Surplus(t)
<1>1. Worth(u) = Worth(t) - worth(t.seats[i]) + worth(u.seats[i])
  BY OneSeat
<1>2. /\ Worth(t) \in Nat /\ worth(t.seats[i]) \in Nat /\ worth(u.seats[i]) \in Nat
      /\ t.chip_pool \in Int /\ u.chip_pool \in Int /\ t.pot \in Nat
  BY SumsOf, SeatFields DEF Tables
<1>3. QED
  BY <1>1, <1>2 DEF Surplus

\* The pot is paid to the last player.
LEMMA EndExact ==
  ASSUME NEW t, Solid(t), live_seats(t) # {}
  PROVE  Surplus(end_without_showdown(t)) = Surplus(t)
<1> DEFINE e == Ended(t)
<1>1. t \in Tables /\ Vacated(t)
  BY DEF Solid
<1>2. /\ end_without_showdown(t) = reset_for_next_hand(e)
      /\ e \in Tables /\ NoBets(e) /\ e.chip_pool = t.chip_pool
      /\ Worth(e) + e.pot = Worth(t) + t.pot /\ e.pot = 0
      /\ \A i \in Seats : /\ e.seats[i].kind = t.seats[i].kind
                          /\ i \notin live_seats(t) => e.seats[i].stack = t.seats[i].stack
                          /\ e.seats[i].addon = t.seats[i].addon
  BY <1>1, EndedIs
<1> HIDE DEF e
<1>3. NoStrays(e)
  <2>1. SUFFICES ASSUME NEW i \in Seats, e.seats[i].kind \in {"vacant", "departed"}
                 PROVE  worth(e.seats[i]) = 0
    BY DEF NoStrays
  <2>2. t.seats[i].kind \in {"vacant", "departed"} /\ worth(t.seats[i]) = 0
    BY <1>1, <1>2, <2>1 DEF Vacated
  <2>3. i \notin live_seats(t)
    BY <2>2 DEF live_seats, of_kind
  <2>4. t.seats[i].stack \in Nat /\ t.seats[i].addon \in Nat /\ t.seats[i].bet \in Nat
    BY <1>1, SumsOf, SeatFields
  <2>5. t.seats[i].stack = 0 /\ t.seats[i].addon = 0
    BY <2>2, <2>4, ZeroSum DEF worth
  <2>6. e.seats[i].stack = 0 /\ e.seats[i].addon = 0 /\ e.seats[i].bet = 0
    BY <1>2, <2>3, <2>5 DEF NoBets
  <2>7. QED
    BY <2>6 DEF worth
<1>4. Surplus(reset_for_next_hand(e)) = Surplus(e) + e.pot
  BY <1>2, <1>3, ResetExact
<1>5. Worth(e) \in Nat /\ Worth(t) \in Nat /\ t.pot \in Nat /\ t.chip_pool \in Int
  BY <1>1, <1>2, SumsOf DEF Tables
<1>6. QED
  BY <1>2, <1>4, <1>5 DEF Surplus

\* Phases from which a normalization goes on betting or opens the next cards.
Open(t) == t.phase.tag = "betting" \/ (t.phase.tag = "revealing" /\ t.phase.purpose # "hole")

LEMMA CloseRoundExact ==
  ASSUME NEW t, Solid(t), t.phase.tag = "betting", ~few_live(t, 1)
  PROVE  Surplus(close_round(t)) = Surplus(t) /\ Open(close_round(t))
<1> DEFINE c == collect_bets_to_pot(t)
           u == maybe_trigger_run_it_twice(c)
           r == round_state(c)
<1>1. t \in Tables /\ Ledger(t) /\ Vacated(t) /\ Covered(t) /\ Capped(t) /\ t.pot \in Nat /\ t.chip_pool \in Int
  BY DEF Solid, Tables
<1>2. /\ c \in Tables /\ c.phase = t.phase /\ NoBets(c) /\ Ledger(c) /\ Vacated(c)
      /\ c.chip_pool = t.chip_pool /\ Worth(c) + c.pot = Worth(t) + t.pot
      /\ \A i \in Seats : c.seats[i].kind = t.seats[i].kind
  BY <1>1, CollectSound
<1>3. close_round(t) = advance_round(c)
  BY DEF close_round
<1> HIDE DEF c
<1>4. Solid(c) /\ ~few_live(c, 1)
  BY <1>1, <1>2, SameKinds DEF Solid, Covered, Capped
<1>5. Surplus(c) = Surplus(t)
  <2>1. Worth(c) \in Nat /\ Worth(t) \in Nat /\ c.pot \in Nat
    BY <1>1, <1>2, SumsOf DEF Tables
  <2>2. QED
    BY <1>1, <1>2, <2>1 DEF Surplus
<1>6. Solid(u) /\ u.seats = c.seats /\ u.pot = c.pot /\ u.chip_pool = c.chip_pool
  BY <1>4, TriggerIs
<1>7. /\ r \in PREFLOP..RIVER
      /\ r # RIVER => r + 1 \in FLOP..RIVER
  BY <1>2, StreetOf
<1>8. advance_round(c) = IF r = RIVER THEN start_showdown_reveal_phase(u) ELSE start_community_reveal_phase(u, r + 1)
  BY <1>4 DEF advance_round
<1>9. NoBets(u)
  BY <1>2, <1>6 DEF NoBets
<1> HIDE DEF u, r
<1>10. CASE r = RIVER
  <2> DEFINE v == start_showdown_reveal_phase(u)
  <2>1. v.phase.tag = "revealing" /\ v.phase.purpose = "owner" /\ v.seats = u.seats /\ v.pot = u.pot /\ v.chip_pool = u.chip_pool
    BY <1>6, <1>9, ShowdownRevealSound
  <2>2. advance_round(c) = v
    BY <1>8, <1>10
  <2> HIDE DEF v
  <2>3. Surplus(v) = Surplus(c)
    BY <1>6, <2>1, SameSurplus
  <2>4. QED
    BY <1>3, <1>5, <2>1, <2>2, <2>3 DEF Open
<1>11. CASE r # RIVER
  <2> DEFINE v == start_community_reveal_phase(u, r + 1)
  <2>1. v.phase.tag = "revealing" /\ v.phase.purpose = "board" /\ v.seats = u.seats /\ v.pot = u.pot /\ v.chip_pool = u.chip_pool
    BY <1>6, <1>7, <1>9, <1>11, CommunityRevealSound
  <2>2. advance_round(c) = v
    BY <1>8, <1>11
  <2> HIDE DEF v
  <2>3. Surplus(v) = Surplus(c)
    BY <1>6, <2>1, SameSurplus
  <2>4. QED
    BY <1>3, <1>5, <2>1, <2>2, <2>3 DEF Open
<1>12. QED
  BY <1>10, <1>11

LEMMA AdvanceTurnExact ==
  ASSUME NEW t, Solid(t), t.phase.tag = "betting", ~few_live(t, 1)
  PROVE  Surplus(advance_turn(t)) = Surplus(t) /\ Open(advance_turn(t))
<1>1. t \in Tables /\ t.phase \in BettingPhases
  BY PhaseOf DEF Solid, Tables
<1>2. CASE is_betting_complete(t)
  <2> DEFINE u == [t EXCEPT !.phase.turn = NO_SEAT]
  <2>1. advance_turn(t) = close_round(u)
    BY <1>2 DEF advance_turn
  <2>2. Solid(u) /\ u.phase.tag = "betting" /\ u.seats = t.seats /\ u.pot = t.pot /\ u.chip_pool = t.chip_pool
    BY <1>1, SetTurn, AnyoneInt
  <2> HIDE DEF u
  <2>3. ~few_live(u, 1) /\ Surplus(u) = Surplus(t)
    BY <2>2, SameKinds, SameSurplus
  <2>4. QED
    BY <2>1, <2>2, <2>3, CloseRoundExact
<1>3. CASE ~is_betting_complete(t)
  <2> DEFINE f == IF t.phase.turn = NO_SEAT THEN 0 ELSE t.phase.turn
             n == next_seat(actionable_seats(t), f)
             u == [t EXCEPT !.phase.turn = n]
  <2>1. advance_turn(t) = u
    BY <1>1, <1>3 DEF advance_turn, BettingPhases, Tables
  <2>2. n \in Anyone
    <3>0. t.phase.turn \in Anyone
      BY <1>1 DEF BettingPhases
    <3>1. f \in Int
      BY <3>0, AnyoneInt
    <3>2. actionable_seats(t) \in SUBSET Seats
      BY KindSets
    <3> HIDE DEF f
    <3>3. QED
      BY <3>1, <3>2, NextSeat
  <2> HIDE DEF n
  <2>3. Solid(u) /\ u.phase.tag = "betting" /\ u.seats = t.seats /\ u.pot = t.pot /\ u.chip_pool = t.chip_pool
    BY <1>1, <2>2, SetTurn
  <2> HIDE DEF u
  <2>4. QED
    BY <2>1, <2>3, SameSurplus DEF Open
<1>4. QED
  BY <1>2, <1>3

\* The seats of the last two players.
LEMMA OneLeft ==
  ASSUME NEW t, NEW k, NEW i \in Seats, ~few_live(t, 1), live_seats(k) = live_seats(t) \ {i}
  PROVE  live_seats(k) # {}
<1>1. SUFFICES ASSUME live_seats(t) \subseteq {i} PROVE FALSE
  OBVIOUS
<1>2. IsFiniteSet({i}) /\ Cardinality({i}) = 1
  BY FS_Singleton
<1>3. Cardinality(live_seats(t)) <= Cardinality({i})
  BY <1>1, <1>2, FS_Subset
<1>4. QED
  BY <1>2, <1>3 DEF few_live

LEMMA FoldExact ==
  ASSUME NEW t, Solid(t), t.phase.tag = "betting", NEW i \in Seats, ~few_live(t, 1)
  PROVE  LET a == apply_fold(t, i)
         IN  Surplus(a) = Surplus(t) /\ (Open(a) \/ a.phase = Waiting)
<1> DEFINE f == Folded(t, i)
           a == apply_fold(t, i)
<1>1. a = IF few_live(f, 1) THEN end_without_showdown(f) ELSE advance_turn(f)
  BY DEF apply_fold, Folded
<1>2. /\ Solid(f) /\ f.phase = t.phase /\ f.seats[i].kind = "folded" /\ Surplus(f) = Surplus(t)
      /\ \A j \in Seats \ {i} : f.seats[j] = t.seats[j]
  BY FoldedIs
<1> HIDE DEF f, a
<1>3. live_seats(f) = live_seats(t) \ {i}
  BY <1>2 DEF live_seats, of_kind
<1>4. live_seats(f) # {}
  BY <1>3, OneLeft
<1>5. Surplus(end_without_showdown(f)) = Surplus(f) /\ end_without_showdown(f).phase = Waiting
  BY <1>2, <1>4, EndExact, EndBetween DEF Solid, Between
<1>6. ~few_live(f, 1) => Surplus(advance_turn(f)) = Surplus(f) /\ Open(advance_turn(f))
  BY <1>2, AdvanceTurnExact
<1>7. QED
  BY <1>1, <1>2, <1>5, <1>6 DEF a

\* A table that waits for somebody, or that goes on betting or opening cards.
Calm(t) == Open(t) \/ blocked(t)

LEMMA WaitingCalm ==
  ASSUME NEW t, t.phase.tag \in {"waiting", "showdown"}
  PROVE  Calm(t) /\ blocked(t)
BY DEF Calm, blocked, in_phase

\* Then there are at least two players.
LEMMA OpenContested ==
  ASSUME NEW t, Steady(t), Open(t)
  PROVE  ~few_live(t, 1)
BY DEF Open, Steady, Regular, Played, Contested, Dealing

LEMMA BettingTimeoutExact ==
  ASSUME NEW t, Sound(t), Steady(t), t.phase.tag = "betting"
  PROVE  Surplus(on_betting_timeout(t)) = Surplus(t) /\ Calm(on_betting_timeout(t))
<1> DEFINE i == t.phase.turn
           o == on_betting_timeout(t)
<1>1. ~few_live(t, 1) /\ i # NO_SEAT /\ Asked(t) /\ Solid(t)
  BY DEF Steady, Regular, Loose, Played, Round, Sound
<1>2. i \in Seats
  BY <1>1, KindSets DEF Asked, Owing
<1>3. CASE t.seats[i].bank > 0
  <2>1. Surplus(o) = Surplus(t) /\ o.phase = t.phase
    BY <1>2, <1>3, BettingTimeoutSound
  <2> HIDE DEF o
  <2>2. QED
    BY <2>1 DEF Calm, Open, o
<1>4. CASE ~(t.seats[i].bank > 0)
  <2>1. o = apply_fold(t, i)
    BY <1>4 DEF on_betting_timeout
  <2> HIDE DEF o, i
  <2>2. Surplus(o) = Surplus(t) /\ (Open(o) \/ o.phase = Waiting)
    BY <1>1, <1>2, <2>1, FoldExact
  <2>3. o.phase = Waiting => o.phase.tag = "waiting"
    BY DEF Waiting
  <2>4. QED
    BY <2>2, <2>3, WaitingCalm DEF Calm, o
<1>5. QED
  BY <1>3, <1>4

LEMMA KickExact ==
  ASSUME NEW t, Sound(t), Steady(t), NEW i \in Seats, t.phase.tag \in {"waiting", "betting"}
  PROVE  LET c == kick_player_internal(t, i)
         IN  Surplus(c) = Surplus(t) /\ Calm(c)
<1> DEFINE k == kick_seat_raw(t, i)
           b == advance_turn(k)
           c == kick_player_internal(t, i)
<1>1. /\ Sound(k) /\ k.phase.tag = t.phase.tag /\ Surplus(k) = Surplus(t)
      /\ k \in Tables /\ Solid(k) /\ Quiet(k) /\ Ledger(k) /\ Vacated(k)
  BY KickRawSound DEF Sound, Solid
<1>2. c = CASE current_shuffler(t) = i -> low_player_cascade(advance_shuffle(k))
            [] current_turn(t) = i -> IF few_live(k, 1) THEN end_without_showdown(k) ELSE low_player_cascade(b)
            [] OTHER -> low_player_cascade(k)
  BY DEF kick_player_internal, kick_cascades
<1>3. current_shuffler(t) # i
  BY SeatsFinite DEF current_shuffler, in_phase
<1>4. Waiting.tag = "waiting"
  BY DEF Waiting
<1>5. t \in Tables /\ Loose(t)
  BY DEF Sound, Solid, Steady, Regular
<1> HIDE DEF c
<1>6. CASE t.phase.tag = "waiting"
  <2>1. current_turn(t) # i
    BY <1>6, SeatsFinite DEF current_turn, in_phase
  <2>2. c = low_player_cascade(k)
    BY <1>2, <1>3, <2>1
  <2> HIDE DEF k
  <2>3. ~in_phase(k, "betting")
    BY <1>1, <1>6 DEF in_phase
  <2>4. c = k \/ c = reset_for_next_hand(k)
    BY <2>2, <2>3 DEF low_player_cascade
  <2>5. NoBets(k) /\ NoStrays(k) /\ k.pot = 0
    <3>1. NoWagers(k) /\ NoBets(k)
      BY <1>1, <1>6 DEF Quiet, Unopened, NoBets, NoWagers
    <3>2. Wagers(k) = 0
      BY <1>1, <3>1, NothingWagered
    <3>3. QED
      BY <1>1, <3>1, <3>2 DEF Ledger, NoStrays, Vacated
  <2>6. /\ Surplus(reset_for_next_hand(k)) = Surplus(k) + k.pot /\ Surplus(k) \in Int
        /\ reset_for_next_hand(k).phase = Waiting
    <3>1. Surplus(k) \in Int
      BY <1>1, SumsOf DEF Surplus, Tables
    <3>2. QED
      BY <1>1, <2>5, <3>1, ResetExact, ResetBetween DEF Between
  <2>7. Surplus(c) = Surplus(k) /\ c.phase.tag = "waiting"
    BY <1>1, <1>4, <1>6, <2>4, <2>5, <2>6
  <2>8. QED
    BY <1>1, <2>7, WaitingCalm DEF c, k
<1>7. CASE t.phase.tag = "betting"
  <2>1. ~few_live(t, 1)
    BY <1>7 DEF Steady, Played
  <2>2. live_seats(k) # {}
    <3>1. CASE i \notin occupied_seats(t)
      BY <1>5, <2>1, <3>1, KickRawIs, FewSeats
    <3>2. CASE i \in occupied_seats(t)
      <4>1. Dropped(t, k, i)
        BY <3>2, KickRawDropped
      <4> HIDE DEF k
      <4>2. QED
        BY <2>1, <4>1, DroppedIs, OneLeft
    <3>3. QED
      BY <3>1, <3>2
  <2>3. current_turn(t) = i => Bidding(k)
    BY <1>5, KickRawLoose
  <2> HIDE DEF k
  <2>4. Surplus(end_without_showdown(k)) = Surplus(k) /\ end_without_showdown(k).phase.tag = "waiting"
    BY <1>1, <1>4, <2>2, EndExact, EndBetween DEF Between
  <2>5. CASE few_live(k, 1)
    <3>1. Cardinality(live_seats(k)) = 1
      BY <2>2, <2>5, FewSeats
    <3>2. low_player_cascade(k) = end_without_showdown(k)
      BY <1>1, <1>7, <2>5, <3>1 DEF low_player_cascade, in_phase
    <3>3. c = end_without_showdown(k)
      BY <1>2, <1>3, <2>5, <3>2
    <3>4. QED
      BY <1>1, <2>4, <3>3, WaitingCalm DEF c
  <2>6. CASE ~few_live(k, 1) /\ current_turn(t) # i
    <3>1. Cardinality(live_seats(k)) # 1
      BY <2>6, FewSeats
    <3>2. low_player_cascade(k) = k
      BY <2>6, <3>1 DEF low_player_cascade
    <3>3. c = k
      BY <1>2, <1>3, <2>6, <3>2
    <3>4. QED
      BY <1>1, <1>7, <3>3 DEF Calm, Open, c
  <2>7. CASE ~few_live(k, 1) /\ current_turn(t) = i
    <3>1. Surplus(b) = Surplus(k) /\ Open(b)
      BY <1>1, <1>7, <2>7, AdvanceTurnExact
    <3>2. Steady(b)
      BY <1>1, <2>3, <2>7, AdvanceTurnSteady
    <3> HIDE DEF b
    <3>3. ~few_live(b, 1)
      BY <3>1, <3>2, OpenContested
    <3>4. low_player_cascade(b) = b
      BY <3>3, FewSeats DEF low_player_cascade
    <3>5. c = b
      BY <1>2, <1>3, <2>7, <3>4
    <3>6. QED
      BY <1>1, <3>1, <3>5 DEF Calm, c
  <2>8. QED
    BY <2>5, <2>6, <2>7
<1>8. QED
  BY <1>6, <1>7

LEMMA CheckRevealExact ==
  ASSUME NEW t, Sound(t), t.phase.tag = "revealing", t.phase.purpose # "hole"
  PROVE  LET n == check_reveal_phase_complete(t)
         IN  Surplus(n) = Surplus(t) /\ Calm(n)
<1> DEFINE n == check_reveal_phase_complete(t)
<1>1. Solid(t) /\ NoBets(t) /\ t \in Tables
  BY DEF Sound, Solid, Quiet
<1>2. /\ t.phase.purpose \in {"board", "owner"}
      /\ t.phase.purpose = "board" => t.phase.street \in FLOP..RIVER
  BY <1>1, RevealFields
<1>3. CASE DOMAIN t.phase.assign # {}
  BY <1>3 DEF check_reveal_phase_complete, Calm, Open
<1>4. CASE DOMAIN t.phase.assign = {} /\ t.phase.purpose = "board"
  <2> DEFINE u == Opened(t, t.phase.street)
  <2>1. n = IF no_further_betting_possible(u) THEN close_round(u) ELSE u
    BY <1>4 DEF check_reveal_phase_complete, start_betting_round, Opened
  <2>2. t.phase.street \in PREFLOP..RIVER
    BY <1>2, <1>4 DEF PREFLOP, FLOP, RIVER
  <2>3. Solid(u) /\ u.phase.tag = "betting" /\ u.seats = t.seats /\ u.pot = t.pot /\ u.chip_pool = t.chip_pool
    BY <1>1, <2>2, OpenedIs
  <2> HIDE DEF u, n
  <2>4. Surplus(u) = Surplus(t)
    BY <2>3, SameSurplus
  <2>5. no_further_betting_possible(u) => Surplus(close_round(u)) = Surplus(u) /\ Open(close_round(u))
    BY <2>3, CloseRoundExact DEF no_further_betting_possible
  <2>6. QED
    BY <2>1, <2>3, <2>4, <2>5 DEF Calm, Open, n
<1>5. CASE DOMAIN t.phase.assign = {} /\ t.phase.purpose = "owner"
  <2>1. n = [t EXCEPT !.phase = ShowdownDisplay]
    BY <1>5 DEF check_reveal_phase_complete
  <2>2. n.seats = t.seats /\ n.pot = t.pot /\ n.chip_pool = t.chip_pool /\ n.phase.tag = "showdown"
    BY <1>1, <2>1 DEF Tables, ShowdownDisplay
  <2> HIDE DEF n
  <2>3. QED
    BY <2>2, SameSurplus, WaitingCalm DEF n
<1>6. QED
  BY <1>2, <1>3, <1>4, <1>5

LEMMA NormalizeStepExact ==
  ASSUME NEW t, Sound(t), Steady(t), Open(t), ~blocked(t)
  PROVE  LET n == normalize_step(t)
         IN  Steady(n) /\ Surplus(n) = Surplus(t) /\ Calm(n)
<1> DEFINE n == normalize_step(t)
<1>1. ~few_live(t, 1) /\ Solid(t) /\ Regular(t)
  BY OpenContested DEF Sound, Steady
<1>2. CASE t.phase.tag = "betting"
  <2>1. n = close_round(t)
    BY <1>1, <1>2 DEF normalize_step, in_phase
  <2>2. Surplus(n) = Surplus(t) /\ Open(n) /\ n.phase.tag \in {"waiting", "revealing"}
    BY <1>1, <1>2, <2>1, CloseRoundExact, CloseRoundSound
  <2>3. is_error(n) \/ Regular(n)
    BY <1>1, NormalizeStepRegular
  <2> HIDE DEF n
  <2>4. QED
    BY <2>2, <2>3 DEF Calm, Steady, Played, is_error, in_phase, n
<1>3. CASE t.phase.tag = "revealing" /\ t.phase.purpose # "hole"
  <2>1. n = check_reveal_phase_complete(t)
    BY <1>3 DEF normalize_step, in_phase
  <2>2. Steady(n) /\ Surplus(n) = Surplus(t) /\ Calm(n)
    BY <1>1, <1>3, <2>1, CheckRevealSteady, CheckRevealExact
  <2>3. QED
    BY <2>2
<1>4. QED
  BY <1>2, <1>3 DEF Open

LEMMA NormalizeExact ==
  ASSUME NEW t, Sound(t), Steady(t), Calm(t)
  PROVE  Surplus(kept(t, normalize_until_blocked(t))) = Surplus(t)
<1> DEFINE Z == {u \in Tables : Sound(u) /\ (is_error(u) \/ (Steady(u) /\ Calm(u) /\ Surplus(u) = Surplus(t)))}
           n == normalize_until_blocked(t)
<1>1. t \in Z /\ Solid(t)
  BY DEF Sound, Solid
<1>2. \A u \in Z : advance_once(u) \in Z
  <2>1. SUFFICES ASSUME NEW u, Sound(u), is_error(u) \/ (Steady(u) /\ Calm(u) /\ Surplus(u) = Surplus(t))
                 PROVE  advance_once(u) \in Z
    OBVIOUS
  <2> DEFINE a == advance_once(u)
  <2>2. Sound(a) /\ Solid(u)
    BY <2>1, AdvanceOnceSound DEF Sound
  <2>3. is_error(a) \/ (Steady(a) /\ Calm(a) /\ Surplus(a) = Surplus(t))
    <3>1. CASE blocked(u)
      BY <2>1, <3>1 DEF advance_once
    <3>2. CASE ~blocked(u)
      <4>1. ~is_error(u)
        BY <3>2 DEF blocked, is_error, in_phase
      <4>2. Steady(u) /\ Open(u) /\ Surplus(u) = Surplus(t)
        BY <2>1, <3>2, <4>1 DEF Calm
      <4>3. Steady(normalize_step(u)) /\ Surplus(normalize_step(u)) = Surplus(u) /\ Calm(normalize_step(u))
        BY <2>1, <3>2, <4>2, NormalizeStepExact
      <4>4. a \in {failed(u), normalize_step(u)}
        BY <3>2 DEF advance_once, checked
      <4>5. QED
        BY <2>2, <4>2, <4>3, <4>4, FailedSound
    <3>3. QED
      BY <3>1, <3>2
  <2>4. a \in Tables
    BY <2>2 DEF Sound, Solid
  <2>5. QED
    BY <2>2, <2>3, <2>4
<1>3. (n \in Z /\ blocked(n)) \/ n = failed(t)
  <2> HIDE DEF Z
  <2>1. QED
    BY <1>1, <1>2, NormalizeIn
<1> HIDE DEF n
<1>4. is_error(n) \/ Surplus(n) = Surplus(t)
  BY <1>1, <1>3, FailedSound
<1>5. QED
  BY <1>4 DEF kept, n

-----------------------------------------------------------------------------
(* What every command keeps.                                               *)

\* Nothing is left to do, or nothing can be done: then a deadline finds the
\* table as the last command left it.
Settled(t) == blocked(t) \/ is_error(normalize_until_blocked(t))

Keeps(t, u) ==
  /\ AtRest(u) /\ Settled(u)
  /\ Steady(t) => /\ Steady(u)
                  /\ t.phase.tag \in {"waiting", "betting"} => Surplus(u) = Surplus(t)

\* What its handler has to keep for that.
Smooth(t, u) ==
  Steady(t) => /\ Steady(u)
               /\ t.phase.tag \in {"waiting", "betting"} => Surplus(u) = Surplus(t) /\ Calm(u)

LEMMA KeptSettled ==
  ASSUME NEW u, AtRest(u)
  PROVE  LET k == kept(u, normalize_until_blocked(u))
         IN  AtRest(k) /\ Settled(k)
<1> DEFINE n == normalize_until_blocked(u)
           k == kept(u, n)
<1>1. is_error(n) \/ blocked(n)
  BY NormalizeSound DEF AtRest
<1>2. k = IF is_error(n) THEN u ELSE n
  BY DEF kept
<1>3. Settled(k)
  <2>1. CASE is_error(n)
    BY <1>2, <2>1 DEF Settled
  <2>2. CASE ~is_error(n)
    BY <1>1, <1>2, <2>2 DEF Settled
  <2>3. QED
    BY <2>1, <2>2
<1>4. QED
  BY <1>3, KeptAtRest

LEMMA KeptKeeps ==
  ASSUME NEW t, NEW u, AtRest(u), Smooth(t, u)
  PROVE  Keeps(t, kept(u, normalize_until_blocked(u)))
<1> DEFINE k == kept(u, normalize_until_blocked(u))
<1>1. AtRest(k) /\ Settled(k)
  BY KeptSettled
<1>2. ASSUME Steady(t)
      PROVE  Steady(k) /\ (t.phase.tag \in {"waiting", "betting"} => Surplus(k) = Surplus(t))
  <2>1. Steady(u) /\ Sound(u)
    BY <1>2 DEF Smooth, AtRest
  <2>2. Steady(k)
    BY <2>1, KeptSteady
  <2>3. ASSUME t.phase.tag \in {"waiting", "betting"} PROVE Surplus(k) = Surplus(t)
    <3>1. Surplus(u) = Surplus(t) /\ Calm(u)
      BY <1>2, <2>3 DEF Smooth
    <3>2. QED
      BY <2>1, <3>1, NormalizeExact
  <2>4. QED
    BY <2>2, <2>3
<1> HIDE DEF k
<1>3. Keeps(t, k)
  BY <1>1, <1>2 DEF Keeps
<1>4. QED
  BY <1>3 DEF k

\* Between hands, and until the blinds are posted.
LEMMA UnopenedSteady ==
  ASSUME NEW t, t.phase.tag = "waiting" \/ (t.phase.tag = "shuffling" /\ t.phase.purpose = "initial"),
         ~t.rit, Solvent(t), \A i \in Seats : t.seats[i].kind \notin {"folded", "allin"}
  PROVE  Steady(t)
<1>1. ~Dealing(t.phase) /\ t.phase.tag \notin {"betting", "revealing", "showdown"}
  BY DEF Dealing
<1>2. QED
  BY <1>1 DEF Steady, Regular, Loose, Fresh, Twice, Closed, Round, Contested, Played

LEMMA SteadyUnopened ==
  ASSUME NEW t, Steady(t), Unopened(t.phase)
  PROVE  ~t.rit /\ Solvent(t) /\ \A i \in Seats : t.seats[i].kind \notin {"folded", "allin"}
BY DEF Steady, Regular, Loose, Fresh
-----------------------------------------------------------------------------
(* Commands between hands and during the initial shuffle.                  *)

LEMMA BetweenHands ==
  ASSUME NEW t, AtRest(t), round_state(t) = WAITING
  PROVE  /\ Solid(t) /\ t \in Tables /\ NoWagers(t)
         /\ t.phase.tag = "waiting" \/ (t.phase.tag = "shuffling" /\ t.phase.purpose = "initial")
<1>1. Solid(t) /\ t \in Tables /\ Quiet(t) /\ t.phase \in Phases /\ t.phase.tag # "error"
  BY DEF AtRest, Sound, Solid, Tables, is_error, in_phase
<1>2. t.phase.tag \in {"waiting", "showdown", "shuffling", "revealing", "reconstructing", "betting"}
  BY <1>1, PhaseOf DEF PhaseTags
<1>3. t.phase.tag # "showdown"
  BY DEF round_state, in_phase, WAITING, SHOWDOWN
<1>4. t.phase.tag # "waiting" => t.phase.street = WAITING
  BY <1>3 DEF round_state, in_phase
<1>5. t.phase.tag # "revealing"
  <2>1. ASSUME t.phase.tag = "revealing" PROVE FALSE
    <3>1. t.phase.street \in PREFLOP..SHOWDOWN
      BY <1>1, <2>1, PhaseOf DEF RevealingPhases
    <3>2. QED
      BY <1>4, <2>1, <3>1 DEF PREFLOP, SHOWDOWN, WAITING
  <2>2. QED
    BY <2>1
<1>6. t.phase.tag # "reconstructing"
  <2>1. ASSUME t.phase.tag = "reconstructing" PROVE FALSE
    <3>1. t.phase.street \in FLOP..SHOWDOWN
      BY <1>1, <2>1, ReconstructFields
    <3>2. QED
      BY <1>4, <2>1, <3>1 DEF FLOP, SHOWDOWN, WAITING
  <2>2. QED
    BY <2>1
<1>7. t.phase.tag # "betting"
  <2>1. ASSUME t.phase.tag = "betting" PROVE FALSE
    <3>1. t.phase.street \in PREFLOP..RIVER
      BY <1>1, <2>1, PhaseOf DEF BettingPhases
    <3>2. QED
      BY <1>4, <2>1, <3>1 DEF PREFLOP, RIVER, WAITING
  <2>2. QED
    BY <2>1
<1>8. t.phase.tag = "shuffling" => t.phase.purpose = "initial"
  <2>1. SUFFICES ASSUME t.phase.tag = "shuffling", t.phase.purpose = "reconstruct" PROVE FALSE
    BY <1>1, ShuffleFields
  <2>2. t.phase.street \in FLOP..SHOWDOWN
    BY <1>1, <2>1, ShuffleFields
  <2>3. QED
    BY <1>4, <2>1, <2>2 DEF FLOP, SHOWDOWN, WAITING
<1>9. t.phase.tag = "waiting" \/ (t.phase.tag = "shuffling" /\ t.phase.purpose = "initial")
  BY <1>2, <1>3, <1>5, <1>6, <1>7, <1>8
<1>10. Unopened(t.phase)
  BY <1>9 DEF Unopened
<1>11. QED
  BY <1>1, <1>9, <1>10 DEF Quiet

LEMMA UnopenedAtRest ==
  ASSUME NEW u, Solid(u), NoWagers(u),
         u.phase.tag = "waiting" \/ (u.phase.tag = "shuffling" /\ u.phase.purpose = "initial")
  PROVE  AtRest(u)
<1>1. NoBets(u)
  BY DEF NoBets, NoWagers
<1>2. Quiet(u)
  BY <1>1 DEF Quiet
<1>3. Owed(u)
  BY DEF Owed, in_phase
<1>4. ~is_error(u)
  BY DEF is_error, in_phase
<1>5. QED
  BY <1>2, <1>3, <1>4 DEF AtRest, Sound

\* A seat without bets and contributions is taken over or given up.
SeatReplaced(t, u, i) ==
  /\ u \in Tables /\ u.pot = t.pot /\ u.phase = t.phase /\ u.rit = t.rit
  /\ u.chip_pool - worth(u.seats[i]) = t.chip_pool - worth(t.seats[i])
  /\ u.chip_pool <= MaxTotalBet
  /\ u.contributors \subseteq t.contributors \cup {i}
  /\ u.seats[i].kind = "vacant" => i \notin u.contributors
  /\ u.seats[i].bet = 0 /\ u.seats[i].total = 0 /\ u.seats[i].kind \in {"vacant", "waiting"}
  /\ u.seats[i].kind = "vacant" => worth(u.seats[i]) = 0
  /\ \A j \in Seats \ {i} : u.seats[j] = t.seats[j]

LEMMA ReplacedAtRest ==
  ASSUME NEW t, AtRest(t), round_state(t) = WAITING, NEW i \in Seats, NEW u, SeatReplaced(t, u, i)
  PROVE  AtRest(u) /\ ((u.seats[i].kind = "waiting" => u.seats[i].stack > 0) => Smooth(t, u))
<1>1. /\ Solid(t) /\ t \in Tables /\ NoWagers(t) /\ Ledger(t) /\ Covered(t) /\ Vacated(t)
      /\ t.phase.tag = "waiting" \/ (t.phase.tag = "shuffling" /\ t.phase.purpose = "initial")
  BY BetweenHands DEF Solid
<1>2. /\ u \in Tables /\ u.pot = t.pot /\ u.phase = t.phase /\ u.chip_pool <= MaxTotalBet
      /\ u.chip_pool - worth(u.seats[i]) = t.chip_pool - worth(t.seats[i])
      /\ \A j \in Seats \ {i} : u.seats[j] = t.seats[j]
  BY DEF SeatReplaced
<1>3. NoWagers(u)
  BY <1>1 DEF NoWagers, SeatReplaced
<1>4. /\ t.seats[i] \in SeatRecords /\ u.seats[i] \in SeatRecords
      /\ t.chip_pool \in Int /\ u.chip_pool \in Int /\ t.pot \in Nat
  BY <1>1, <1>2 DEF Tables
<1>5. Ledger(u)
  <2>1. Wagers(u) = 0 /\ Wagers(t) = 0
    BY <1>1, <1>2, <1>3, NothingWagered
  <2>2. QED
    BY <1>1, <1>2, <2>1 DEF Ledger
<1>6. Covered(u) /\ Capped(u)
  <2>1. Worth(u) = Worth(t) - worth(t.seats[i]) + worth(u.seats[i])
    BY <1>1, <1>2, OneSeat
  <2>2. Worth(t) \in Nat /\ worth(t.seats[i]) \in Nat /\ worth(u.seats[i]) \in Nat
    BY <1>1, <1>4, SumsOf, SeatFields
  <2>3. QED
    BY <1>1, <1>2, <1>4, <2>1, <2>2 DEF Covered, Capped
<1>7. Vacated(u)
  BY <1>1 DEF Vacated, SeatReplaced
<1>8. Solid(u)
  BY <1>2, <1>5, <1>6, <1>7 DEF Solid
<1>9. AtRest(u)
  BY <1>1, <1>2, <1>3, <1>8, UnopenedAtRest
<1>10. ASSUME u.seats[i].kind = "waiting" => u.seats[i].stack > 0, Steady(t) PROVE Steady(u)
  <2>1. ~t.rit /\ Solvent(t) /\ \A j \in Seats : t.seats[j].kind \notin {"folded", "allin"}
    BY <1>1, <1>10, SteadyUnopened DEF Unopened
  <2>2. Solvent(u)
    BY <1>2, <1>10, <2>1 DEF Solvent, SeatReplaced
  <2>3. ~u.rit /\ \A j \in Seats : u.seats[j].kind \notin {"folded", "allin"}
    BY <2>1 DEF SeatReplaced
  <2>4. QED
    BY <1>1, <1>2, <2>2, <2>3, UnopenedSteady
<1>11. Surplus(u) = Surplus(t)
  BY <1>1, <1>2, SeatSurplus
<1>12. t.phase.tag \in {"waiting", "betting"} => Calm(u)
  BY <1>1, <1>2, WaitingCalm
<1>13. QED
  BY <1>9, <1>10, <1>11, <1>12 DEF Smooth

\* A buy-in of no chips (which BuyInAssumption excludes) would not spoil the
\* vault's books.
LEMMA JoinKeeps ==
  ASSUME NEW buy_in \in Nat, AtRest(table), join_table(buy_in)
  PROVE  AtRest(table') /\ Settled(table') /\ (buy_in # 0 => Keeps(table, table'))
<1> DEFINE vacant == of_kind(table, {"vacant"})
           i == Min(vacant)
           s == [VacantSeat EXCEPT !.kind = "waiting", !.stack = buy_in]
           u == [table EXCEPT !.seats[i] = s, !.acted = @ \ {i}, !.leave = @ \ {i}, !.chip_pool = @ + buy_in,
                             !.contributors = @ \cup {i}]
<1>1. /\ round_state(table) = WAITING /\ vacant # {} /\ table.chip_pool + buy_in <= MaxTotalBet
      /\ table' = kept(u, normalize_until_blocked(u))
  BY DEF join_table, dispatch
<1>2. vacant \in SUBSET Seats
  BY DEF of_kind
<1>3. i \in vacant
  BY <1>1, <1>2, MinSeat
<1>4. i \in Seats /\ table.seats[i].kind = "vacant"
  BY <1>3 DEF of_kind
<1>5. /\ table \in Tables /\ table.seats \in [Seats -> SeatRecords] /\ table.chip_pool \in Int /\ Vacated(table)
  BY DEF AtRest, Sound, Solid, Tables
<1>6. worth(table.seats[i]) = 0
  BY <1>4, <1>5 DEF Vacated
<1>7. /\ s \in SeatRecords /\ s.kind = "waiting" /\ s.stack = buy_in /\ s.bet = 0 /\ s.total = 0 /\ s.addon = 0
  BY VacantSeatIs DEF SeatRecords, Kinds
<1>8. worth(s) = buy_in
  BY <1>7 DEF worth
<1> HIDE DEF i, s, vacant
<1>9. table.chip_pool + buy_in \in Int /\ [table.seats EXCEPT ![i] = s] \in [Seats -> SeatRecords]
  BY <1>4, <1>5, <1>7
<1>10. /\ u \in Tables /\ u.seats = [table.seats EXCEPT ![i] = s] /\ u.pot = table.pot /\ u.phase = table.phase
       /\ u.chip_pool = table.chip_pool + buy_in /\ u.rit = table.rit
       /\ u.contributors = table.contributors \cup {i}
  BY <1>4, <1>5, <1>9 DEF Tables
<1> HIDE DEF u
<1>11. u.seats[i] = s /\ \A j \in Seats \ {i} : u.seats[j] = table.seats[j]
  BY <1>4, <1>5, <1>10
<1>12. SeatReplaced(table, u, i)
  BY <1>1, <1>5, <1>6, <1>7, <1>8, <1>10, <1>11 DEF SeatReplaced
<1>13. AtRest(u) /\ (buy_in # 0 => Smooth(table, u))
  BY <1>1, <1>4, <1>7, <1>11, <1>12, ReplacedAtRest
<1>14. QED
  BY <1>1, <1>13, KeptSettled, KeptKeeps

LEMMA LeaveKeeps ==
  ASSUME NEW i \in Seats, AtRest(table), leave_table(i)
  PROVE  Keeps(table, table')
<1> DEFINE s == table.seats[i]
           u == [table EXCEPT !.seats[i] = VacantSeat, !.contributors = @ \ {i},
                              !.chip_pool = @ - s.stack - s.addon]
<1>1. /\ round_state(table) = WAITING /\ table' = kept(u, normalize_until_blocked(u))
  BY DEF leave_table, dispatch
<1>2. /\ table \in Tables /\ table.seats \in [Seats -> SeatRecords] /\ table.chip_pool \in Int
      /\ Capped(table) /\ s \in SeatRecords
  BY DEF AtRest, Sound, Solid, Tables
<1>3. s.bet = 0
  BY <1>1, BetweenHands DEF NoWagers
<1>4. s.stack \in Nat /\ s.addon \in Nat /\ MaxTotalBet \in Nat
  BY <1>2, SeatFields, TableAssumption
<1>5. worth(s) = s.stack + s.addon
  BY <1>3, <1>4 DEF worth
<1> HIDE DEF s
<1>6. table.chip_pool - s.stack - s.addon \in Int /\ [table.seats EXCEPT ![i] = VacantSeat] \in [Seats -> SeatRecords]
  BY <1>2, <1>4, VacantSeatIs
<1>7. /\ u \in Tables /\ u.seats = [table.seats EXCEPT ![i] = VacantSeat] /\ u.pot = table.pot
      /\ u.phase = table.phase /\ u.rit = table.rit /\ u.chip_pool = table.chip_pool - s.stack - s.addon
      /\ u.contributors = table.contributors \ {i}
  BY <1>2, <1>6 DEF Tables
<1> HIDE DEF u
<1>8. u.seats[i] = VacantSeat /\ \A j \in Seats \ {i} : u.seats[j] = table.seats[j]
  BY <1>2, <1>7
<1>9. SeatReplaced(table, u, i)
  <2>1. /\ u.chip_pool - worth(u.seats[i]) = table.chip_pool - worth(table.seats[i])
        /\ u.chip_pool <= MaxTotalBet
    BY <1>2, <1>4, <1>5, <1>7, <1>8, VacantSeatIs DEF Capped, s
  <2>2. QED
    BY <1>7, <1>8, <2>1, VacantSeatIs DEF SeatReplaced
<1>10. AtRest(u) /\ Smooth(table, u)
  BY <1>1, <1>8, <1>9, VacantSeatIs, ReplacedAtRest
<1>11. QED
  BY <1>1, <1>10, KeptKeeps

\* Waiting seats enter the hand.
LEMMA PromoteIs ==
  ASSUME NEW t, Solid(t)
  PROVE  LET p == promote_waiting_for_big_blind(t)
         IN  /\ Solid(p) /\ p.phase = t.phase /\ p.rit = t.rit /\ p.hand_id = t.hand_id
             /\ NoWagers(t) => NoWagers(p)
             /\ Surplus(p) = Surplus(t)
             /\ \A i \in Seats : /\ p.seats[i].stack = t.seats[i].stack
                                 /\ p.seats[i].kind = t.seats[i].kind
                                     \/ (t.seats[i].kind = "waiting" /\ p.seats[i].kind = "active")
<1> DEFINE p == promote_waiting_for_big_blind(t)
           waiting == of_kind(t, {"waiting"})
           due == waiting \cap (IF active_seats(t) = {} THEN waiting
                                ELSE {next_seat(occupied_seats(t), rotation_base(t))})
           entered == Cardinality(active_seats(t) \cup due)
           ahead(i) == {j \in waiting \ due : Clockwise(t.button, j) < Clockwise(t.button, i)}
           filled == {i \in waiting \ due : entered + Cardinality(ahead(i)) < 2}
           D == due \cup filled
           seats == [i \in Seats |-> IF i \in D THEN [t.seats[i] EXCEPT !.kind = "active"] ELSE t.seats[i]]
<1>1. p = [t EXCEPT !.seats = seats]
  BY DEF promote_waiting_for_big_blind
<1>2. D \subseteq waiting
  OBVIOUS
<1>3. \A i \in D : t.seats[i].kind = "waiting"
  BY <1>2 DEF of_kind
<1> HIDE DEF D, p
<1>4. t \in Tables /\ t.seats \in [Seats -> SeatRecords] /\ Vacated(t)
  BY DEF Solid, Tables
<1>5. \A i \in Seats : /\ seats[i] \in SeatRecords
                       /\ seats[i].stack = t.seats[i].stack /\ seats[i].bet = t.seats[i].bet
                       /\ seats[i].total = t.seats[i].total /\ seats[i].addon = t.seats[i].addon
                       /\ seats[i].kind = IF i \in D THEN "active" ELSE t.seats[i].kind
  BY <1>4 DEF SeatRecords, Kinds
<1>6. seats \in [Seats -> SeatRecords]
  BY <1>5
<1> HIDE DEF seats
<1>7. /\ p \in Tables /\ p.seats = seats /\ p.pot = t.pot /\ p.chip_pool = t.chip_pool
      /\ p.contributors = t.contributors
      /\ p.phase = t.phase /\ p.rit = t.rit /\ p.hand_id = t.hand_id
  BY <1>1, <1>4, <1>6 DEF Tables
<1>8. \A i \in Seats : worth(p.seats[i]) = worth(t.seats[i]) /\ wager(p.seats[i]) = wager(t.seats[i])
  BY <1>5, <1>7 DEF worth, wager
<1>9. Vacated(p)
  BY <1>4, <1>5, <1>7, <1>8 DEF Vacated
<1>10. Solid(p)
  BY <1>7, <1>8, <1>9, SameMoney
<1>11. NoWagers(t) => NoWagers(p)
  BY <1>5, <1>7 DEF NoWagers
<1>12. \A i \in Seats : p.seats[i].kind = t.seats[i].kind
                         \/ (t.seats[i].kind = "waiting" /\ p.seats[i].kind = "active")
  <2>1. SUFFICES ASSUME NEW i \in Seats
                 PROVE  p.seats[i].kind = t.seats[i].kind
                         \/ (t.seats[i].kind = "waiting" /\ p.seats[i].kind = "active")
    OBVIOUS
  <2>2. p.seats[i].kind = IF i \in D THEN "active" ELSE t.seats[i].kind
    BY <1>5, <1>7
  <2>3. i \in D => t.seats[i].kind = "waiting"
    BY <1>3
  <2>4. QED
    BY <2>2, <2>3
<1>13. Surplus(p) = Surplus(t)
  BY <1>4, <1>7, <1>8, SameChips DEF Surplus
<1>14. \A i \in Seats : p.seats[i].stack = t.seats[i].stack
  BY <1>5, <1>7
<1>15. QED
  BY <1>7, <1>10, <1>11, <1>12, <1>13, <1>14 DEF p

LEMMA StartHandKeeps ==
  ASSUME AtRest(table), start_hand
  PROVE  Keeps(table, table')
<1> DEFINE b == [table EXCEPT !.button = (@ + 1) % MaxPlayers]
           p == promote_waiting_for_big_blind(b)
           ph == Shuffling("initial", WAITING, active_seats(p))
           t == [p EXCEPT !.ledger = {}, !.phase = ph]
           n == IF is_error(normalize_until_blocked(t)) THEN t.hand_id ELSE t.hand_id + 1
           u == [t EXCEPT !.hand_id = n]
<1>1. /\ round_state(table) = WAITING /\ table' = kept(u, normalize_until_blocked(u))
      /\ Cardinality(active_seats(p)) >= 2
  BY DEF start_hand, dispatch
<1>2. Solid(table) /\ table \in Tables /\ NoWagers(table) /\ Unopened(table.phase)
  BY <1>1, BetweenHands DEF Unopened
<1>3. (table.button + 1) % MaxPlayers \in Seats
  <2>0. table.button \in Seats
    BY <1>2 DEF Tables
  <2>5. table.button \in Nat
    BY <2>0, SeatsFinite
  <2>6. MaxPlayers \in Nat /\ MaxPlayers > 0
    BY SidePotsAssumption
  <2>1. table.button \in Nat /\ MaxPlayers \in Nat /\ MaxPlayers > 0
    BY <2>5, <2>6
  <2> DEFINE x == table.button + 1
  <2>2. x \in Nat
    BY <2>1
  <2> HIDE DEF x
  <2>3. x % MaxPlayers \in 0 .. MaxPlayers - 1
    BY <2>1, <2>2
  <2>4. QED
    BY <2>3 DEF Seats, x
<1>4. /\ b \in Tables /\ b.seats = table.seats /\ b.pot = table.pot /\ b.chip_pool = table.chip_pool
      /\ b.contributors = table.contributors
      /\ b.rit = table.rit
  BY <1>2, <1>3 DEF Tables
<1> HIDE DEF b
<1>5. Solid(b) /\ NoWagers(b)
  BY <1>2, <1>4, SameSeats
<1>6. /\ Solid(p) /\ NoWagers(p) /\ p.rit = b.rit /\ Surplus(p) = Surplus(b)
      /\ \A i \in Seats : /\ p.seats[i].stack = b.seats[i].stack
                          /\ p.seats[i].kind = b.seats[i].kind
                              \/ (b.seats[i].kind = "waiting" /\ p.seats[i].kind = "active")
  BY <1>5, PromoteIs
<1> HIDE DEF p
<1>7. ph \in Phases /\ ph.tag = "shuffling" /\ ph.purpose = "initial" /\ ph.pending # {}
  <2>1. ph \in ShufflingPhases
    BY KindSets, NewPhases
  <2>2. active_seats(p) # {}
    <3>1. Cardinality({}) = 0
      BY FS_EmptySet
    <3>2. QED
      BY <1>1, <3>1
  <2>3. QED
    BY <2>1, <2>2, NewPhases DEF Shuffling
<1> HIDE DEF ph
<1>8. /\ t \in Tables /\ t.seats = p.seats /\ t.pot = p.pot /\ t.chip_pool = p.chip_pool
      /\ t.contributors = p.contributors /\ t.phase = ph
      /\ t.hand_id \in Nat /\ t.rit = p.rit
  BY <1>6, <1>7 DEF Solid, Tables
<1> HIDE DEF t
<1>9. n \in Nat
  BY <1>8
<1> HIDE DEF n
<1>10. /\ u \in Tables /\ u.seats = p.seats /\ u.pot = p.pot /\ u.chip_pool = p.chip_pool
       /\ u.contributors = p.contributors /\ u.phase = ph
       /\ u.rit = p.rit
  BY <1>8, <1>9 DEF Tables
<1> HIDE DEF u
<1>11. Solid(u) /\ NoWagers(u)
  BY <1>6, <1>10, SameSeats
<1>12. AtRest(u)
  BY <1>7, <1>10, <1>11, UnopenedAtRest
<1>13. ASSUME Steady(table) PROVE Steady(u)
  <2>1. ~table.rit /\ Solvent(table) /\ \A j \in Seats : table.seats[j].kind \notin {"folded", "allin"}
    BY <1>2, <1>13, SteadyUnopened
  <2>2. Solvent(u)
    <3>1. SUFFICES ASSUME NEW j \in Seats, u.seats[j].kind \in {"waiting", "active"} PROVE u.seats[j].stack > 0
      BY DEF Solvent
    <3>2. /\ u.seats[j].stack = table.seats[j].stack
          /\ u.seats[j].kind = table.seats[j].kind \/ table.seats[j].kind = "waiting"
      BY <1>4, <1>6, <1>10
    <3>3. QED
      BY <2>1, <3>1, <3>2 DEF Solvent
  <2>3. ~u.rit /\ \A j \in Seats : u.seats[j].kind \notin {"folded", "allin"}
    <3>1. \A j \in Seats : u.seats[j].kind = table.seats[j].kind \/ u.seats[j].kind = "active"
      BY <1>4, <1>6, <1>10
    <3>2. QED
      BY <1>4, <1>6, <1>10, <2>1, <3>1
  <2>4. QED
    BY <1>7, <1>10, <2>2, <2>3, UnopenedSteady
<1>14. Surplus(u) = Surplus(table)
  <2>1. Surplus(u) = Surplus(p) /\ Surplus(b) = Surplus(table)
    BY <1>4, <1>10, SameSurplus
  <2>2. QED
    BY <1>6, <2>1
<1>15. Calm(u)
  <2>1. u.phase.tag = "shuffling" /\ u.phase.pending # {}
    BY <1>7, <1>10
  <2>2. QED
    BY <2>1 DEF Calm, blocked, in_phase
<1>16. QED
  BY <1>1, <1>12, <1>13, <1>14, <1>15, KeptKeeps DEF Smooth

-----------------------------------------------------------------------------
(* Commands of the card protocol.                                          *)

\* A contribution to a phase leaves the seats and the purpose of the phase.
LEMMA ContributedSteady ==
  ASSUME NEW t, t \in Tables, Steady(t), NEW u, u.seats = t.seats, u.rit = t.rit,
         u.phase.tag = t.phase.tag, t.phase.tag \in {"shuffling", "revealing", "reconstructing"},
         t.phase.tag \in {"shuffling", "revealing"} => u.phase.purpose = t.phase.purpose,
         t.phase.tag = "revealing" => ~few_live(t, 1)
  PROVE  Steady(u) /\ (few_live(u, 1) <=> few_live(t, 1))
<1>1. SameView(t, u)
  BY DEF SameView
<1>2. /\ few_live(u, 1) <=> few_live(t, 1)
      /\ Sole(u) <=> Sole(t)
      /\ Level(u) <=> Level(t)
  BY <1>1, ViewIs
<1>3. (Unopened(u.phase) <=> Unopened(t.phase)) /\ (Dealing(u.phase) <=> Dealing(t.phase))
  BY DEF Unopened, Dealing
<1>4. Fresh(u) /\ Solvent(u)
  BY <1>3 DEF Fresh, Solvent, Steady, Regular, Loose
<1>5. Twice(u) /\ Closed(u)
  BY <1>2, <1>3 DEF Twice, Closed, Steady, Regular, Loose
<1>6. Contested(u)
  BY <1>2, <1>3 DEF Contested, Steady, Regular
<1>7. Round(u) /\ Played(u)
  BY DEF Round, Played
<1>8. QED
  BY <1>2, <1>4, <1>5, <1>6, <1>7 DEF Steady, Regular, Loose

LEMMA SubmitShuffleKeeps ==
  ASSUME NEW i \in Seats, AtRest(table), submit_shuffle_v2(i)
  PROVE  Keeps(table, table')
<1> DEFINE p == [table.phase EXCEPT !.pending = @ \ {i}]
           u == [table EXCEPT !.phase = p]
           a == advance_shuffle(u)
<1>1. table.phase.tag = "shuffling"
  BY SeatsFinite DEF submit_shuffle_v2, current_shuffler, in_phase
<1>2. Sound(table) /\ Solid(table) /\ table \in Tables
  BY DEF AtRest, Sound, Solid
<1>3. table' = kept(a, normalize_until_blocked(a))
  <2>1. [table EXCEPT !.phase.pending = @ \ {i}] = u
    BY <1>2 DEF Tables
  <2>2. QED
    BY <2>1 DEF submit_shuffle_v2, dispatch
<1>4. table.phase \in ShufflingPhases
  BY <1>1, <1>2, ShuffleFields
<1>5. /\ p \in ShufflingPhases /\ p.tag = "shuffling" /\ p.purpose = table.phase.purpose
      /\ p.pending \subseteq table.phase.pending
  BY <1>4 DEF ShufflingPhases
<1>6. /\ NoBets(table)
      /\ p.purpose = "initial" => NoWagers(table)
      /\ p.purpose = "reconstruct" => p.pending \subseteq active_seats(table)
  BY <1>1, <1>2, <1>5 DEF Sound, Quiet, Unopened, Owed, in_phase
<1> HIDE DEF p
<1>7. Sound(u) /\ u.phase.tag = "shuffling"
  BY <1>2, <1>5, <1>6, RephaseSound
<1>11. u.seats = table.seats /\ u.rit = table.rit /\ u.phase = p
  BY <1>2 DEF Tables
<1> HIDE DEF u
<1>8. Sound(a) /\ a.phase.tag \in {"shuffling", "revealing"}
  BY <1>7, AdvanceShuffleSound
<1>9. AtRest(a)
  BY <1>8 DEF AtRest, is_error, in_phase
<1>10. ASSUME Steady(table) PROVE Steady(a)
  <2>1. Steady(u)
    BY <1>1, <1>2, <1>5, <1>10, <1>11, ContributedSteady
  <2>2. QED
    BY <1>7, <2>1, AdvanceShuffleSteady DEF Steady, Regular
<1> HIDE DEF a
<1>12. QED
  BY <1>1, <1>3, <1>9, <1>10, KeptKeeps DEF Smooth

\* The cards that are open are written down.
LEMMA MaterializeIs ==
  ASSUME NEW t \in Tables, t.phase.tag = "revealing", NEW done,
         done \subseteq Seats \/ t.phase.purpose = "board"
  PROVE  LET m == materialize(t, done)
         IN  /\ m \in Tables /\ m.seats = t.seats /\ m.pot = t.pot /\ m.chip_pool = t.chip_pool
             /\ m.phase = t.phase /\ m.rit = t.rit /\ m.contributors = t.contributors
<1>1. /\ t.phase.purpose \in {"hole", "board", "owner"}
      /\ t.phase.purpose = "board" => t.phase.street \in FLOP..RIVER
  BY RevealFields
<1>2. CASE t.phase.purpose = "hole"
  <2>1. materialize(t, done) = [t EXCEPT !.ledger = @ \cup done]
    BY <1>2 DEF materialize, materialize_hole
  <2>2. done \subseteq Seats
    BY <1>2
  <2>3. QED
    BY <2>1, <2>2 DEF Tables
<1>3. CASE t.phase.purpose = "board"
  <2> DEFINE b == IF done = {} THEN t.board ELSE t.phase.street + 1
  <2>1. materialize(t, done) = [t EXCEPT !.board = b]
    BY <1>3 DEF materialize, materialize_community
  <2>2. t.phase.street + 1 \in Nat
    BY <1>1, <1>3 DEF FLOP, RIVER
  <2>3. b \in Nat
    BY <2>2 DEF Tables
  <2> HIDE DEF b
  <2>4. QED
    BY <2>1, <2>3 DEF Tables
<1>4. CASE t.phase.purpose = "owner"
  <2>1. materialize(t, done) = [t EXCEPT !.ledger = @ \ done, !.shown = @ \cup done]
    BY <1>4 DEF materialize, materialize_showdown
  <2>2. done \subseteq Seats
    BY <1>4
  <2>3. QED
    BY <2>1, <2>2 DEF Tables
<1>5. QED
  BY <1>1, <1>2, <1>3, <1>4

LEMMA SubmitRevealKeeps ==
  ASSUME NEW i \in Seats, AtRest(table), submit_player_reveal_tokens(i)
  PROVE  Keeps(table, table')
<1> DEFINE a0 == table.phase.assign
           assign == [a \in DOMAIN a0 |-> a0[a] \ {i}]
           done == {a \in DOMAIN assign : assign[a] = {}}
           rest == [a \in DOMAIN assign \ done |-> assign[a]]
           p == [table.phase EXCEPT !.assign = rest]
           u == [table EXCEPT !.phase = p]
           m == materialize(u, done)
           c == check_reveal_phase_complete(m)
<1>1. Sound(table) /\ Solid(table) /\ table \in Tables /\ table.phase.tag = "revealing"
  BY DEF AtRest, Sound, Solid, submit_player_reveal_tokens, in_phase
<1>2. /\ table' = kept(c, normalize_until_blocked(c)) /\ pending_revealers(table) # {}
      /\ table.phase.purpose = "owner" => done \subseteq active_seats(table)
  <2>1. [table EXCEPT !.phase.assign = rest] = u
    BY <1>1 DEF Tables
  <2>2. QED
    BY <2>1 DEF submit_player_reveal_tokens, dispatch
<1>3. /\ table.phase \in RevealingPhases /\ a0 \in Assignments
      /\ table.phase.purpose \in {"hole", "board", "owner"}
      /\ table.phase.purpose = "hole" => DOMAIN a0 \subseteq Seats
  BY <1>1, RevealFields
<1>4. NoBets(table) /\ (table.phase.purpose = "hole" => NoWagers(table))
  BY <1>1 DEF Sound, Quiet, Unopened
<1>5. \A a \in DOMAIN a0 : a0[a] \subseteq active_seats(table)
  <2>1. pending_revealers(table) \subseteq active_seats(table)
    BY <1>1 DEF Sound, Owed, in_phase
  <2>2. QED
    BY <2>1 DEF pending_revealers, Range
<1>6. PICK D \in SUBSET (Seats \cup {BOARD}) : a0 \in [D -> SUBSET Seats]
  BY <1>3 DEF Assignments
<1>7. DOMAIN rest \in SUBSET (Seats \cup {BOARD}) /\ rest \in [DOMAIN rest -> SUBSET Seats]
  BY <1>6
<1>8. rest \in Assignments /\ DOMAIN rest \subseteq DOMAIN a0 /\ done \subseteq DOMAIN a0
  BY <1>7, AssignmentType
<1>9. \A a \in DOMAIN rest : rest[a] \subseteq active_seats(table)
  BY <1>5
<1>10. done \subseteq Seats \/ table.phase.purpose = "board"
  BY <1>2, <1>3, <1>8, KindSets
<1> HIDE DEF rest, done, assign, a0
<1>11. p \in RevealingPhases /\ p.tag = "revealing" /\ p.assign = rest /\ p.purpose = table.phase.purpose
  BY <1>3, <1>8 DEF RevealingPhases, a0
<1>12. p \in Phases
  BY <1>11, NewPhases
<1> HIDE DEF p
<1>13. /\ u \in Tables /\ u.phase = p /\ u.seats = table.seats /\ u.pot = table.pot
       /\ u.chip_pool = table.chip_pool /\ u.contributors = table.contributors /\ u.rit = table.rit
  BY <1>1, <1>12 DEF Tables
<1> HIDE DEF u
<1>14. /\ m \in Tables /\ m.phase = p /\ m.seats = table.seats /\ m.pot = table.pot
       /\ m.chip_pool = table.chip_pool /\ m.contributors = table.contributors /\ m.rit = table.rit
  BY <1>10, <1>11, <1>13, MaterializeIs
<1> HIDE DEF m
<1>15. /\ Solid(m) /\ NoBets(m) /\ active_seats(m) = active_seats(table)
       /\ NoWagers(table) => NoWagers(m)
  BY <1>1, <1>4, <1>14, SameSeats
<1>16. Quiet(m)
  BY <1>4, <1>11, <1>14, <1>15 DEF Quiet, Unopened
<1>17. Owed(m)
  <2>1. \A a \in DOMAIN m.phase.assign : m.phase.assign[a] \subseteq active_seats(m)
    BY <1>9, <1>11, <1>14, <1>15
  <2>2. pending_revealers(m) \subseteq active_seats(m)
    BY <2>1, PendingIn
  <2>3. QED
    BY <1>11, <1>14, <2>2 DEF Owed, in_phase
<1>18. Sound(m) /\ m.phase.tag = "revealing"
  BY <1>11, <1>14, <1>15, <1>16, <1>17 DEF Sound
<1>19. Sound(c) /\ c.phase.tag \in {"waiting", "revealing", "betting", "showdown"}
  BY <1>18, CheckRevealSound
<1>20. AtRest(c)
  BY <1>19 DEF AtRest, is_error, in_phase
<1>21. ASSUME Steady(table) PROVE Steady(c)
  <2>1. ~few_live(table, 1)
    BY <1>1, <1>2, <1>21 DEF Steady, Regular, Contested
  <2>2. Steady(m) /\ ~few_live(m, 1)
    BY <1>1, <1>11, <1>14, <1>21, <2>1, ContributedSteady
  <2>3. QED
    BY <1>18, <2>2, CheckRevealSteady DEF Steady
<1> HIDE DEF c
<1>22. QED
  BY <1>1, <1>2, <1>20, <1>21, KeptKeeps DEF Smooth

LEMMA SubmitReconstructKeeps ==
  ASSUME NEW i \in Seats, AtRest(table), submit_reconstruct_deck(i)
  PROVE  Keeps(table, table')
<1> DEFINE p == [table.phase EXCEPT !.pending = @ \ {i}, !.contributed = TRUE]
           u == [table EXCEPT !.phase = p]
           c == IF u.phase.pending = {} THEN on_complete_reconstruct(u) ELSE u
<1>1. Sound(table) /\ Solid(table) /\ table \in Tables /\ table.phase.tag = "reconstructing"
  BY DEF AtRest, Sound, Solid, submit_reconstruct_deck, in_phase
<1>2. table' = kept(c, normalize_until_blocked(c))
  <2>1. [table EXCEPT !.phase.pending = @ \ {i}, !.phase.contributed = TRUE] = u
    BY <1>1 DEF Tables
  <2>2. QED
    BY <2>1 DEF submit_reconstruct_deck, dispatch
<1>3. table.phase \in ReconstructingPhases
  BY <1>1, ReconstructFields
<1>4. p \in ReconstructingPhases /\ p.tag = "reconstructing" /\ p.pending \subseteq table.phase.pending
  BY <1>3 DEF ReconstructingPhases
<1>5. NoBets(table) /\ p.pending \subseteq active_seats(table)
  BY <1>1, <1>4 DEF Sound, Quiet, Owed, in_phase
<1> HIDE DEF p
<1>6. Sound(u) /\ u.phase.tag = "reconstructing"
  BY <1>1, <1>4, <1>5, RephaseSound
<1>10. u.seats = table.seats /\ u.rit = table.rit
  BY <1>1 DEF Tables
<1> HIDE DEF u
<1>7. Sound(c) /\ c.phase.tag \in {"reconstructing", "shuffling", "revealing"}
  BY <1>6, CompleteReconstructSound
<1>8. AtRest(c)
  BY <1>7 DEF AtRest, is_error, in_phase
<1>9. ASSUME Steady(table) PROVE Steady(c)
  <2>1. ~few_live(table, 1)
    BY <1>1, <1>9 DEF Steady, Regular, Contested, Dealing
  <2>2. Steady(u) /\ ~few_live(u, 1)
    BY <1>1, <1>6, <1>9, <1>10, <2>1, ContributedSteady
  <2>3. Steady(on_complete_reconstruct(u))
    BY <1>6, <2>2, CompleteReconstructSteady DEF Steady, Regular
  <2>4. QED
    BY <2>2, <2>3
<1> HIDE DEF c
<1>11. QED
  BY <1>1, <1>2, <1>8, <1>9, KeptKeeps DEF Smooth

-----------------------------------------------------------------------------
(* Commands of the betting.                                                *)

\* The seat that has the turn.
LEMMA TurnIs ==
  ASSUME NEW i \in Seats, AtRest(table), current_turn(table) = i
  PROVE  /\ Sound(table) /\ Solid(table) /\ table \in Tables /\ table.phase.tag = "betting"
         /\ table.phase \in BettingPhases /\ table.phase.turn = i
         /\ table.phase.current_bet \in Nat /\ table.phase.min_raise \in Nat
         /\ table.seats \in [Seats -> SeatRecords]
<1>1. table.phase.tag = "betting" /\ table.phase.turn = i
  BY SeatsFinite DEF current_turn, in_phase
<1>2. Sound(table) /\ Solid(table) /\ table \in Tables
  BY DEF AtRest, Sound, Solid
<1>3. table.phase \in BettingPhases
  BY <1>1, <1>2, PhaseOf DEF Tables
<1>4. QED
  BY <1>1, <1>2, <1>3 DEF BettingPhases, Tables

\* It owes a decision and has chips to decide about.
LEMMA TurnSteady ==
  ASSUME NEW t, Steady(t), t.phase.tag = "betting", NEW i \in Seats, t.phase.turn = i
  PROVE  /\ i \in actionable_seats(t) /\ i \in live_seats(t) /\ i \in Owing(t) /\ InLine(t, i)
         /\ t.seats[i].kind = "active" /\ t.seats[i].stack > 0
         /\ ~few_live(t, 1) /\ ~t.rit /\ LevelPot(t) /\ WithinBet(t) /\ Solvent(t) /\ Loose(t)
<1>1. /\ LevelPot(t) /\ WithinBet(t) /\ Asked(t) /\ Solvent(t) /\ Loose(t) /\ ~t.rit
      /\ ~few_live(t, 1) /\ t.phase.turn # NO_SEAT
  BY DEF Steady, Regular, Loose, Round, Twice, Played
<1>2. i \in Owing(t) /\ InLine(t, i)
  BY <1>1 DEF Asked
<1>3. i \in actionable_seats(t)
  BY <1>2 DEF Owing
<1>4. t.seats[i].kind = "active" /\ i \in live_seats(t)
  BY <1>3 DEF actionable_seats, live_seats, of_kind
<1>5. QED
  BY <1>1, <1>2, <1>3, <1>4 DEF Solvent

\* A seat that has the turn folds.
LEMMA FoldSmooth ==
  ASSUME NEW t, Solid(t), t.phase.tag = "betting", NEW i \in Seats, t.phase.turn = i
  PROVE  AtRest(apply_fold(t, i)) /\ Smooth(t, apply_fold(t, i))
<1> DEFINE f == apply_fold(t, i)
<1>1. Sound(f) /\ f.phase.tag \in {"waiting", "revealing", "betting"}
  BY FoldSound
<1>2. AtRest(f)
  BY <1>1 DEF AtRest, is_error, in_phase
<1>3. ASSUME Steady(t) PROVE Steady(f) /\ Surplus(f) = Surplus(t) /\ Calm(f)
  <2>1. Loose(t) /\ ~few_live(t, 1)
    BY <1>3, TurnSteady
  <2>2. Steady(f)
    BY <2>1, FoldSteady
  <2>3. Surplus(f) = Surplus(t) /\ (Open(f) \/ f.phase = Waiting)
    BY <2>1, FoldExact
  <2> HIDE DEF f
  <2>4. f.phase = Waiting => f.phase.tag = "waiting"
    BY DEF Waiting
  <2>5. QED
    BY <2>2, <2>3, <2>4, WaitingCalm DEF Calm
<1> HIDE DEF f
<1>4. QED
  BY <1>2, <1>3 DEF Smooth, f

LEMMA FoldKeeps ==
  ASSUME NEW i \in Seats, AtRest(table), fold(i)
  PROVE  Keeps(table, table')
<1> DEFINE f == apply_fold(table, i)
<1>1. table' = kept(f, normalize_until_blocked(f)) /\ current_turn(table) = i
  BY DEF fold, dispatch
<1>2. Solid(table) /\ table.phase.tag = "betting" /\ table.phase.turn = i
  BY <1>1, TurnIs
<1>3. AtRest(f) /\ Smooth(table, f)
  BY <1>2, FoldSmooth
<1> HIDE DEF f
<1>4. QED
  BY <1>1, <1>3, KeptKeeps

\* A seat takes its key out of the deck key: no chip and no duty changes.
LEMMA UnlockedIs ==
  ASSUME NEW t, Solid(t), NEW i \in Seats
  PROVE  LET q == [t EXCEPT !.contributors = @ \ {i}]
         IN  /\ Solid(q) /\ q.phase = t.phase /\ Surplus(q) = Surplus(t)
             /\ Steady(t) => Steady(q)
<1> DEFINE q == [t EXCEPT !.contributors = @ \ {i}]
<1>1. t \in Tables
  BY DEF Solid
<1>2. /\ q \in Tables /\ q.seats = t.seats /\ q.pot = t.pot /\ q.chip_pool = t.chip_pool
      /\ q.contributors \subseteq t.contributors
      /\ q.phase = t.phase /\ q.acted = t.acted /\ q.rit = t.rit
  BY <1>1 DEF Tables
<1> HIDE DEF q
<1>3. Solid(q)
  BY <1>2, SameSeats
<1>4. Surplus(q) = Surplus(t)
  BY <1>2 DEF Surplus, Worth
<1>5. ASSUME Steady(t) PROVE Steady(q)
  <2>1. SameView(t, q) /\ Solvent(q)
    BY <1>2, <1>5 DEF SameView, Solvent, Steady, Regular, Loose
  <2>2. QED
    BY <1>2, <1>5, <2>1, ViewSteady
<1>6. QED
  BY <1>2, <1>3, <1>4, <1>5 DEF q

LEMMA FoldWithProofKeeps ==
  ASSUME NEW i \in Seats, AtRest(table), fold_with_proof(i)
  PROVE  Keeps(table, table')
<1> DEFINE q == [table EXCEPT !.contributors = @ \ {i}]
           f == apply_fold(q, i)
<1>1. table' = kept(f, normalize_until_blocked(f)) /\ current_turn(table) = i
  BY DEF fold_with_proof, apply_fold_with_proof, dispatch
<1>2. Solid(table) /\ table.phase.tag = "betting" /\ table.phase.turn = i
  BY <1>1, TurnIs
<1>3. /\ Solid(q) /\ q.phase = table.phase /\ Surplus(q) = Surplus(table)
      /\ Steady(table) => Steady(q)
  BY <1>2, UnlockedIs
<1> HIDE DEF q
<1>4. AtRest(f) /\ Smooth(q, f)
  BY <1>2, <1>3, FoldSmooth
<1> HIDE DEF f
<1>5. Smooth(table, f)
  BY <1>3, <1>4 DEF Smooth
<1>6. QED
  BY <1>1, <1>4, <1>5, KeptKeeps

\* The seat that has the turn put chips in.
Bids(t, u, i) ==
  /\ t \in Tables /\ Steady(t) /\ t.phase.tag = "betting" /\ t.phase.turn = i
  /\ Solid(u) /\ u.phase.tag = "betting" /\ u.phase.turn = i /\ u.rit = t.rit /\ i \in u.acted
  /\ \A j \in Seats \ {i} : u.seats[j] = t.seats[j]
  /\ u.seats[i].kind \in {"active", "allin"}
  /\ u.seats[i].kind = "active" => u.seats[i].stack > 0 /\ ~(u.seats[i].bet < u.phase.current_bet)
  /\ wager(u.seats[i]) = wager(t.seats[i])

LEMMA BidIs ==
  ASSUME NEW t, NEW u, NEW i \in Seats, Bids(t, u, i)
  PROVE  /\ live_seats(u) = live_seats(t) /\ actionable_seats(u) \ {i} = actionable_seats(t) \ {i}
         /\ ~few_live(u, 1) /\ ~u.rit /\ Solvent(u) /\ LevelPot(u) /\ i \notin Owing(u)
<1>1. /\ i \in actionable_seats(t) /\ i \in live_seats(t) /\ t.seats[i].kind = "active"
      /\ ~few_live(t, 1) /\ ~t.rit /\ LevelPot(t) /\ Solvent(t)
  BY TurnSteady DEF Bids
<1>2. /\ \A j \in Seats \ {i} : u.seats[j] = t.seats[j]
      /\ u.seats[i].kind \in {"active", "allin"} /\ wager(u.seats[i]) = wager(t.seats[i])
  BY DEF Bids
<1>3. live_seats(u) = live_seats(t)
  BY <1>1, <1>2 DEF live_seats, of_kind
<1>4. actionable_seats(u) \ {i} = actionable_seats(t) \ {i} /\ actionable_seats(u) \subseteq actionable_seats(t)
  BY <1>1, <1>2 DEF actionable_seats, of_kind
<1>5. Solvent(u)
  BY <1>1, <1>2 DEF Solvent, Bids
<1>6. LevelPot(u)
  <2>1. \A j \in Seats : wager(u.seats[j]) = wager(t.seats[j])
    BY <1>2
  <2>2. actionable_seats(t) \subseteq Seats /\ live_seats(t) \subseteq Seats
    BY KindSets
  <2>3. QED
    BY <1>1, <1>3, <1>4, <2>1, <2>2 DEF LevelPot
<1>7. i \notin Owing(u)
  BY <1>2 DEF Bids, Owing, actionable_seats, of_kind
<1>8. QED
  BY <1>1, <1>3, <1>4, <1>5, <1>6, <1>7 DEF few_live, Bids

LEMMA BidSmooth ==
  ASSUME NEW t, NEW u, NEW i \in Seats, Bids(t, u, i), WithinBet(u), InLine(u, i), Surplus(u) = Surplus(t)
  PROVE  LET a == advance_turn(u)
         IN  Steady(a) /\ Surplus(a) = Surplus(t) /\ Calm(a)
<1>1. ~few_live(u, 1) /\ ~u.rit /\ Solvent(u) /\ LevelPot(u) /\ i \notin Owing(u)
  BY BidIs
<1>2. Solid(u) /\ u.phase.tag = "betting" /\ u.phase.turn = i
  BY DEF Bids
<1>3. Bidding(u)
  BY <1>1, <1>2 DEF Bidding
<1>4. QED
  BY <1>1, <1>2, <1>3, AdvanceTurnSteady, AdvanceTurnExact DEF Calm

\* A seat that pays a positive amount is not vacant.
Pays(t, u, i, x) ==
  /\ x \in Nat /\ x > 0 /\ x <= t.seats[i].stack
  /\ u \in Tables /\ u.pot = t.pot /\ u.chip_pool = t.chip_pool /\ u.contributors = t.contributors
  /\ u.seats[i] = [pay(t.seats[i], x) EXCEPT !.bet = t.seats[i].bet + x]
  /\ \A j \in Seats \ {i} : u.seats[j] = t.seats[j]

LEMMA PayerChanges ==
  ASSUME NEW t, Solid(t), NEW i \in Seats, NEW u, NEW x, Pays(t, u, i, x)
  PROVE  Solid(u) /\ Surplus(u) = Surplus(t)
<1>1. t \in Tables /\ Vacated(t) /\ t.seats[i] \in SeatRecords
  BY DEF Solid, Tables
<1> DEFINE b == t.seats[i].bet + x
<1>7. /\ x \in Nat /\ x > 0 /\ x <= t.seats[i].stack
      /\ u \in Tables /\ u.pot = t.pot /\ u.chip_pool = t.chip_pool /\ u.contributors = t.contributors
      /\ u.seats[i] = [pay(t.seats[i], x) EXCEPT !.bet = b]
      /\ \A j \in Seats \ {i} : u.seats[j] = t.seats[j]
  BY DEF Pays
<1>8. b \in Nat /\ b = t.seats[i].bet + x
  BY <1>1, <1>7, SeatFields
<1> HIDE DEF b
<1>2. /\ worth(u.seats[i]) = worth(t.seats[i]) /\ wager(u.seats[i]) = wager(t.seats[i])
      /\ u.seats[i].kind = IF t.seats[i].stack = x THEN "allin" ELSE t.seats[i].kind
  BY <1>1, <1>7, <1>8, PayBetIs
<1>3. t.seats[i].kind \notin {"vacant", "departed"}
  <2>1. SUFFICES ASSUME worth(t.seats[i]) = 0 PROVE FALSE
    BY <1>1 DEF Vacated
  <2>2. t.seats[i].stack \in Nat /\ t.seats[i].addon \in Nat /\ t.seats[i].bet \in Nat
    BY <1>1, SeatFields
  <2>3. t.seats[i].stack = 0
    BY <2>1, <2>2, ZeroSum DEF worth
  <2>4. QED
    BY <1>7, <2>3
<1>4. u.seats[i].kind \notin {"vacant", "departed"}
  BY <1>2, <1>3
<1>5. SeatChanges(t, u, i)
  BY <1>2, <1>4, <1>7 DEF SeatChanges
<1>6. QED
  BY <1>5, SeatChange

\* What a seat pays to match the bet.
Matched(t, i) ==
  LET s == t.seats[i]
      call == Min({t.phase.current_bet - s.bet, s.stack})
  IN  [t EXCEPT !.seats[i] = IF call > 0 THEN [pay(s, call) EXCEPT !.bet = s.bet + call] ELSE @,
                !.acted = @ \cup {i}]

Call(t, i) ==
  LET s == t.seats[i]
      c == t.phase.current_bet - s.bet
  IN  IF c <= s.stack THEN c ELSE s.stack

\* The seat s after it paid x.
PaidUp(s, n, x) ==
  /\ n.bet = s.bet + x /\ n.total = s.total + x /\ n.stack = s.stack - x
  /\ n.kind = IF s.stack = x THEN "allin" ELSE s.kind

LEMMA MatchedIs ==
  ASSUME NEW i \in Seats, NEW t, Solid(t), t.phase.tag = "betting"
  PROVE  LET u == Matched(t, i)
             s == t.seats[i]
             call == Call(t, i)
         IN  /\ Solid(u) /\ u.phase = t.phase /\ u.acted = t.acted \cup {i} /\ u.rit = t.rit
             /\ u.board = t.board /\ u.leave = t.leave /\ Surplus(u) = Surplus(t)
             /\ \A j \in Seats \ {i} : u.seats[j] = t.seats[j]
             /\ call \in Int
             /\ call > 0 => PaidUp(s, u.seats[i], call)
             /\ ~(call > 0) => u.seats[i] = s
<1> DEFINE u == Matched(t, i)
           s == t.seats[i]
           c == t.phase.current_bet - s.bet
           call == Call(t, i)
           n == IF call > 0 THEN [pay(s, call) EXCEPT !.bet = s.bet + call] ELSE s
<1>1. /\ t \in Tables /\ t.seats \in [Seats -> SeatRecords] /\ s \in SeatRecords
      /\ t.phase \in BettingPhases
  BY PhaseOf DEF Solid, Tables
<1>2. s.stack \in Nat /\ s.bet \in Nat /\ t.phase.current_bet \in Nat
  BY <1>1, SeatFields DEF BettingPhases
<1>3. c \in Int /\ call \in Int /\ call <= s.stack /\ (call > 0 => call \in Nat /\ s.bet + call \in Nat)
  BY <1>2 DEF Call
<1>4. Min({c, s.stack}) = call
  <2>1. c \in Int /\ s.stack \in Int
    BY <1>2, <1>3
  <2> HIDE DEF c
  <2>2. call = IF c <= s.stack THEN c ELSE s.stack
    BY DEF Call, c
  <2>3. QED
    BY <2>1, <2>2, MinPair
<1>5. u = [t EXCEPT !.seats[i] = n, !.acted = t.acted \cup {i}]
  BY <1>4 DEF Matched
<1> HIDE DEF call
<1>6. n \in SeatRecords
  <2>1. CASE call > 0
    BY <1>1, <1>3, <2>1, PayBetIs
  <2>2. CASE ~(call > 0)
    BY <1>1, <2>2
  <2>3. QED
    BY <2>1, <2>2
<1> HIDE DEF n, u
<1>7. [t.seats EXCEPT ![i] = n] \in [Seats -> SeatRecords] /\ t.acted \cup {i} \in SUBSET Seats
  BY <1>1, <1>6 DEF Tables
<1>8. /\ u \in Tables /\ u.seats = [t.seats EXCEPT ![i] = n] /\ u.pot = t.pot /\ u.chip_pool = t.chip_pool
      /\ u.phase = t.phase /\ u.acted = t.acted \cup {i} /\ u.rit = t.rit /\ u.contributors = t.contributors
      /\ u.board = t.board /\ u.leave = t.leave
  BY <1>1, <1>5, <1>7 DEF Tables
<1>9. u.seats[i] = n /\ \A j \in Seats \ {i} : u.seats[j] = t.seats[j]
  BY <1>1, <1>8
<1>10. CASE call > 0
  <2>1. n = [pay(s, call) EXCEPT !.bet = s.bet + call] /\ call \in Nat /\ s.bet + call \in Nat
    BY <1>3, <1>10 DEF n
  <2>5. Pays(t, u, i, call)
    BY <1>3, <1>8, <1>9, <1>10, <2>1 DEF Pays
  <2>2. Solid(u) /\ Surplus(u) = Surplus(t)
    BY <2>5, PayerChanges
  <2>3. PaidUp(s, n, call)
    BY <1>1, <1>3, <2>1, PayBetIs DEF PaidUp
  <2>4. QED
    BY <1>3, <1>8, <1>9, <1>10, <2>1, <2>2, <2>3 DEF u, call
<1>11. CASE ~(call > 0)
  <2>1. n = s
    BY <1>11 DEF n
  <2>2. u.seats = t.seats
    BY <1>1, <1>8, <2>1
  <2>3. Solid(u)
    BY <1>8, <2>2, SameSeats
  <2>4. Surplus(u) = Surplus(t)
    BY <1>8, <2>2 DEF Surplus, Worth
  <2>5. QED
    BY <1>3, <1>8, <1>9, <1>11, <2>1, <2>3, <2>4 DEF u, call
<1>12. QED
  BY <1>10, <1>11

\* Matching the bet settles what the seat owes: it paid the price, or all it has.
LEMMA MatchBids ==
  ASSUME NEW i \in Seats, NEW t, Solid(t), Steady(t), t.phase.tag = "betting", t.phase.turn = i
  PROVE  LET u == Matched(t, i)
         IN  Bids(t, u, i) /\ WithinBet(u) /\ InLine(u, i) /\ Surplus(u) = Surplus(t)
<1> DEFINE u == Matched(t, i)
           s == t.seats[i]
           call == Call(t, i)
           price == t.phase.current_bet
<1>1. /\ t.seats[i].kind = "active" /\ s.stack > 0 /\ WithinBet(t) /\ InLine(t, i) /\ i \in live_seats(t)
  BY TurnSteady
<1>2. /\ Solid(u) /\ u.phase = t.phase /\ u.acted = t.acted \cup {i} /\ u.rit = t.rit
      /\ Surplus(u) = Surplus(t) /\ call \in Int
      /\ \A j \in Seats \ {i} : u.seats[j] = t.seats[j]
      /\ call > 0 => PaidUp(s, u.seats[i], call)
      /\ ~(call > 0) => u.seats[i] = s
  BY MatchedIs
<1>3. /\ t \in Tables /\ s \in SeatRecords /\ s.stack \in Nat /\ s.bet \in Nat /\ s.total \in Nat
      /\ price \in Nat
  <2>1. t \in Tables /\ t.phase \in BettingPhases /\ s \in SeatRecords
    BY PhaseOf DEF Solid, Tables
  <2>2. QED
    BY <2>1, SeatFields DEF BettingPhases
<1>4. call = IF price - s.bet <= s.stack THEN price - s.bet ELSE s.stack
  BY DEF Call
<1>5. s.bet <= price
  BY <1>1 DEF WithinBet
<1> HIDE DEF u, call
<1>6. u.seats[i].bet <= price
  <2>1. CASE call > 0
    BY <1>2, <1>3, <1>4, <2>1 DEF PaidUp
  <2>2. CASE ~(call > 0)
    BY <1>2, <1>5, <2>2
  <2>3. QED
    BY <2>1, <2>2
<1>7. /\ u.seats[i].kind \in {"active", "allin"} /\ wager(u.seats[i]) = wager(s)
      /\ u.seats[i].kind = "active" => u.seats[i].stack > 0 /\ ~(u.seats[i].bet < price)
  <2>1. CASE call > 0
    <3>1. wager(u.seats[i]) = wager(s)
      BY <1>2, <1>3, <2>1 DEF wager, PaidUp
    <3>2. u.seats[i].kind \in {"active", "allin"} /\ (u.seats[i].kind = "active" => s.stack # call)
      BY <1>1, <1>2, <2>1 DEF PaidUp
    <3>3. s.stack # call => u.seats[i].stack > 0 /\ ~(u.seats[i].bet < price)
      BY <1>2, <1>3, <1>4, <2>1 DEF PaidUp
    <3>4. QED
      BY <3>1, <3>2, <3>3
  <2>2. CASE ~(call > 0)
    <3>1. ~(s.bet < price)
      BY <1>1, <1>3, <1>4, <2>2
    <3>2. QED
      BY <1>1, <1>2, <2>2, <3>1
  <2>3. QED
    BY <2>1, <2>2
<1>8. Bids(t, u, i)
  BY <1>2, <1>3, <1>7 DEF Bids
<1>9. live_seats(u) = live_seats(t) /\ actionable_seats(u) \ {i} = actionable_seats(t) \ {i}
  BY <1>8, BidIs
<1>10. WithinBet(u)
  <2>1. SUFFICES ASSUME NEW j \in live_seats(t) PROVE u.seats[j].bet <= price
    BY <1>2, <1>9 DEF WithinBet
  <2>2. j \in Seats
    BY KindSets
  <2>3. QED
    BY <1>1, <1>2, <1>6, <2>2 DEF WithinBet
<1>11. InLine(u, i)
  <2>1. \A j \in Seats \ {i} : j \in Owing(u) <=> j \in Owing(t)
    BY <1>2, <1>9 DEF Owing
  <2>2. Owing(u) \subseteq Seats /\ actionable_seats(t) \subseteq Seats
    BY KindSets DEF Owing
  <2>3. QED
    BY <1>1, <1>9, <2>1, <2>2 DEF InLine
<1>12. QED
  BY <1>2, <1>8, <1>10, <1>11 DEF u

LEMMA MatchKeeps ==
  ASSUME NEW i \in Seats, AtRest(table), match_bet(i)
  PROVE  Keeps(table, table')
<1> DEFINE u == Matched(table, i)
           a == advance_turn(u)
<1>1. table' = kept(a, normalize_until_blocked(a)) /\ current_turn(table) = i
  BY DEF match_bet, dispatch, Matched
<1>2. Solid(table) /\ table.phase.tag = "betting" /\ table.phase.turn = i
  BY <1>1, TurnIs
<1>3. Solid(u) /\ u.phase = table.phase
  BY <1>2, MatchedIs
<1>4. ASSUME Steady(table)
      PROVE  Bids(table, u, i) /\ WithinBet(u) /\ InLine(u, i) /\ Surplus(u) = Surplus(table)
  BY <1>2, <1>4, MatchBids
<1> HIDE DEF u
<1>5. Sound(a) /\ a.phase.tag \in {"waiting", "revealing", "betting"}
  BY <1>2, <1>3, AdvanceTurnSound
<1>6. AtRest(a)
  BY <1>5 DEF AtRest, is_error, in_phase
<1>7. ASSUME Steady(table) PROVE Steady(a) /\ Surplus(a) = Surplus(table) /\ Calm(a)
  BY <1>4, <1>7, BidSmooth
<1> HIDE DEF a
<1>8. QED
  BY <1>1, <1>6, <1>7, KeptKeeps DEF Smooth

\* A raise.
Raised(t, i, total_bet) ==
  [t EXCEPT !.seats[i] = [pay(t.seats[i], total_bet - t.seats[i].bet) EXCEPT !.bet = total_bet],
            !.acted = (@ \ reopened(t, i, total_bet)) \cup {i},
            !.phase.current_bet = total_bet,
            !.phase.min_raise = Max({@, total_bet - t.phase.current_bet})]

LEMMA RaisedIs ==
  ASSUME NEW i \in Seats, NEW t, Solid(t), t.phase.tag = "betting", NEW total_bet \in Nat,
         total_bet - t.seats[i].bet > 0, total_bet - t.seats[i].bet <= t.seats[i].stack
  PROVE  LET u == Raised(t, i, total_bet)
         IN  /\ Solid(u) /\ u.phase.tag = "betting" /\ u.phase.street = t.phase.street
             /\ u.phase.turn = t.phase.turn /\ u.phase.current_bet = total_bet
             /\ u.acted = (t.acted \ reopened(t, i, total_bet)) \cup {i} /\ u.rit = t.rit
             /\ u.board = t.board /\ u.leave = t.leave /\ Surplus(u) = Surplus(t)
             /\ \A j \in Seats \ {i} : u.seats[j] = t.seats[j]
             /\ u.seats[i].bet = total_bet
             /\ u.seats[i].total = t.seats[i].total + (total_bet - t.seats[i].bet)
             /\ u.seats[i].stack = t.seats[i].stack - (total_bet - t.seats[i].bet)
             /\ u.seats[i].kind = IF t.seats[i].stack = total_bet - t.seats[i].bet THEN "allin" ELSE t.seats[i].kind
<1> DEFINE u == Raised(t, i, total_bet)
           s == t.seats[i]
           x == total_bet - s.bet
           n == [pay(s, x) EXCEPT !.bet = total_bet]
           r == Max({t.phase.min_raise, total_bet - t.phase.current_bet})
           p == [t.phase EXCEPT !.current_bet = total_bet, !.min_raise = r]
           A == (t.acted \ reopened(t, i, total_bet)) \cup {i}
<1>1. /\ t \in Tables /\ t.seats \in [Seats -> SeatRecords] /\ s \in SeatRecords
      /\ t.phase \in BettingPhases
  BY PhaseOf DEF Solid, Tables
<1>2. s.stack \in Nat /\ s.bet \in Nat /\ t.phase.current_bet \in Nat /\ t.phase.min_raise \in Nat
  BY <1>1, SeatFields DEF BettingPhases
<1>3. x \in Nat /\ x > 0 /\ x <= s.stack /\ total_bet = s.bet + x
  BY <1>2
<1>4. r \in Nat
  <2> DEFINE d == total_bet - t.phase.current_bet
  <2>1. d \in Int /\ t.phase.min_raise \in Int
    BY <1>2
  <2> HIDE DEF d
  <2>2. Max({t.phase.min_raise, d}) = IF t.phase.min_raise >= d THEN t.phase.min_raise ELSE d
    BY <2>1, MaxPair
  <2>3. QED
    BY <1>2, <2>1, <2>2 DEF d
<1>5. u = [t EXCEPT !.seats = [t.seats EXCEPT ![i] = n], !.acted = A, !.phase = p]
  BY <1>1 DEF Raised, Tables, BettingPhases
<1> HIDE DEF r
<1>6. /\ p \in BettingPhases /\ p.tag = "betting" /\ p.street = t.phase.street /\ p.turn = t.phase.turn
      /\ p.current_bet = total_bet
  BY <1>1, <1>4 DEF BettingPhases
<1>7. p \in Phases
  BY <1>6, NewPhases
<1>8. /\ n \in SeatRecords /\ n.bet = total_bet /\ n.total = s.total + x /\ n.stack = s.stack - x
      /\ n.kind = IF s.stack = x THEN "allin" ELSE s.kind
  BY <1>1, <1>3, PayBetIs
<1>9. A \in SUBSET Seats
  BY <1>1 DEF Tables
<1>10. [t.seats EXCEPT ![i] = n] \in [Seats -> SeatRecords]
  BY <1>1, <1>8
<1> HIDE DEF p, A, u, n
<1>11. /\ u \in Tables /\ u.seats = [t.seats EXCEPT ![i] = n] /\ u.pot = t.pot /\ u.chip_pool = t.chip_pool
       /\ u.phase = p /\ u.acted = A /\ u.rit = t.rit /\ u.board = t.board /\ u.leave = t.leave
       /\ u.contributors = t.contributors
  BY <1>1, <1>5, <1>7, <1>9, <1>10 DEF Tables
<1>12. u.seats[i] = n /\ \A j \in Seats \ {i} : u.seats[j] = t.seats[j]
  BY <1>1, <1>11
<1>13. Solid(u) /\ Surplus(u) = Surplus(t)
  <2>1. n = [pay(s, x) EXCEPT !.bet = s.bet + x]
    BY <1>3 DEF n
  <2> HIDE DEF x
  <2>2. Pays(t, u, i, x)
    BY <1>3, <1>11, <1>12, <2>1 DEF Pays
  <2>3. QED
    BY <2>2, PayerChanges
<1>14. QED
  BY <1>6, <1>8, <1>11, <1>12, <1>13 DEF u, A

\* After a raise everybody else who can act owes a decision.
LEMMA RaiseBids ==
  ASSUME NEW i \in Seats, NEW t, Solid(t), Steady(t), t.phase.tag = "betting", t.phase.turn = i,
         NEW total_bet \in Nat, total_bet - t.phase.current_bet > 0,
         total_bet - t.seats[i].bet > 0, total_bet - t.seats[i].bet <= t.seats[i].stack
  PROVE  LET u == Raised(t, i, total_bet)
         IN  Bids(t, u, i) /\ WithinBet(u) /\ InLine(u, i) /\ Surplus(u) = Surplus(t)
<1> DEFINE u == Raised(t, i, total_bet)
           s == t.seats[i]
           x == total_bet - s.bet
           price == t.phase.current_bet
<1>1. t.seats[i].kind = "active" /\ WithinBet(t)
  BY TurnSteady
<1>2. /\ Solid(u) /\ u.phase.tag = "betting" /\ u.phase.turn = t.phase.turn /\ u.phase.current_bet = total_bet
      /\ i \in u.acted /\ u.rit = t.rit /\ Surplus(u) = Surplus(t)
      /\ \A j \in Seats \ {i} : u.seats[j] = t.seats[j]
      /\ u.seats[i].bet = total_bet /\ u.seats[i].total = s.total + x /\ u.seats[i].stack = s.stack - x
      /\ u.seats[i].kind = IF s.stack = x THEN "allin" ELSE s.kind
  <2>1. u.acted = (t.acted \ reopened(t, i, total_bet)) \cup {i}
    BY RaisedIs
  <2>2. i \in u.acted
    BY <2>1
  <2>3. QED
    BY <2>2, RaisedIs
<1>3. /\ t \in Tables /\ s \in SeatRecords /\ s.stack \in Nat /\ s.bet \in Nat /\ s.total \in Nat
      /\ price \in Nat
  <2>1. t \in Tables /\ t.phase \in BettingPhases /\ s \in SeatRecords
    BY PhaseOf DEF Solid, Tables
  <2>2. QED
    BY <2>1, SeatFields DEF BettingPhases
<1> HIDE DEF u
<1>4. /\ u.seats[i].kind \in {"active", "allin"} /\ wager(u.seats[i]) = wager(s)
      /\ u.seats[i].kind = "active" => u.seats[i].stack > 0 /\ ~(u.seats[i].bet < u.phase.current_bet)
  <2>1. wager(u.seats[i]) = wager(s)
    BY <1>2, <1>3 DEF wager
  <2>2. u.seats[i].kind \in {"active", "allin"} /\ (u.seats[i].kind = "active" => s.stack # x)
    BY <1>1, <1>2
  <2>3. s.stack # x => u.seats[i].stack > 0
    BY <1>2, <1>3
  <2>4. ~(u.seats[i].bet < u.phase.current_bet)
    BY <1>2
  <2>5. QED
    BY <2>1, <2>2, <2>3, <2>4
<1>5. Bids(t, u, i)
  BY <1>2, <1>3, <1>4 DEF Bids
<1>6. live_seats(u) = live_seats(t) /\ actionable_seats(u) \ {i} = actionable_seats(t) \ {i}
  BY <1>5, BidIs
<1>7. \A j \in live_seats(t) \ {i} : u.seats[j].bet < total_bet
  <2>1. SUFFICES ASSUME NEW j \in live_seats(t) \ {i} PROVE u.seats[j].bet < total_bet
    OBVIOUS
  <2>2. j \in Seats
    BY KindSets
  <2>3. t.seats[j].bet <= price /\ u.seats[j] = t.seats[j]
    BY <1>1, <1>2, <2>2 DEF WithinBet
  <2>4. t.seats[j].bet \in Nat
    BY <1>3, <2>2, SumsOf, SeatFields
  <2>5. QED
    BY <1>3, <2>3, <2>4
<1>8. WithinBet(u)
  <2>1. SUFFICES ASSUME NEW j \in live_seats(t) PROVE u.seats[j].bet <= total_bet
    BY <1>2, <1>6 DEF WithinBet
  <2>2. j \in Seats
    BY KindSets
  <2>3. u.seats[j].bet \in Nat
    BY <1>2, <2>2, SumsOf, SeatFields DEF Solid
  <2>4. QED
    BY <1>2, <1>7, <2>3
<1>9. InLine(u, i)
  <2>1. SUFFICES ASSUME NEW j \in actionable_seats(u) \ {i} PROVE j \in Owing(u)
    BY DEF InLine
  <2>2. j \in live_seats(u)
    BY <2>1 DEF live_seats, actionable_seats, of_kind
  <2>3. u.seats[j].bet < u.phase.current_bet
    BY <1>2, <1>6, <1>7, <2>1, <2>2
  <2>4. QED
    BY <2>1, <2>3 DEF Owing
<1>10. QED
  BY <1>2, <1>5, <1>8, <1>9 DEF u

LEMMA RaiseKeeps ==
  ASSUME NEW i \in Seats, NEW total_bet \in Nat, AtRest(table), raise_to(i, total_bet)
  PROVE  Keeps(table, table')
<1> DEFINE u == Raised(table, i, total_bet)
           a == advance_turn(u)
<1>1. /\ table' = kept(a, normalize_until_blocked(a)) /\ current_turn(table) = i
      /\ total_bet - table.seats[i].bet > 0 /\ total_bet - table.seats[i].bet <= table.seats[i].stack
      /\ total_bet - table.phase.current_bet > 0
  BY DEF raise_to, dispatch, Raised
<1>2. Solid(table) /\ table.phase.tag = "betting" /\ table.phase.turn = i
  BY <1>1, TurnIs
<1>3. Solid(u) /\ u.phase.tag = "betting"
  BY <1>1, <1>2, RaisedIs
<1>4. ASSUME Steady(table)
      PROVE  Bids(table, u, i) /\ WithinBet(u) /\ InLine(u, i) /\ Surplus(u) = Surplus(table)
  BY <1>1, <1>2, <1>4, RaiseBids
<1> HIDE DEF u
<1>5. Sound(a) /\ a.phase.tag \in {"waiting", "revealing", "betting"}
  BY <1>3, AdvanceTurnSound
<1>6. AtRest(a)
  BY <1>5 DEF AtRest, is_error, in_phase
<1>7. ASSUME Steady(table) PROVE Steady(a) /\ Surplus(a) = Surplus(table) /\ Calm(a)
  BY <1>4, <1>7, BidSmooth
<1> HIDE DEF a
<1>8. QED
  BY <1>1, <1>6, <1>7, KeptKeeps DEF Smooth

-----------------------------------------------------------------------------
(* Funding, leaving, kicking and deadlines.                                *)

\* A seat of a player brings in chips.
Funded(t, u, i) ==
  /\ u \in Tables /\ u.pot = t.pot /\ u.phase = t.phase /\ u.acted = t.acted /\ u.rit = t.rit
  /\ u.chip_pool - worth(u.seats[i]) = t.chip_pool - worth(t.seats[i])
  /\ u.chip_pool <= MaxTotalBet /\ u.contributors = t.contributors
  /\ i \in occupied_seats(t)
  /\ u.seats[i].bet = t.seats[i].bet /\ u.seats[i].total = t.seats[i].total
  /\ u.seats[i].kind = t.seats[i].kind /\ u.seats[i].stack >= t.seats[i].stack
  /\ \A j \in Seats \ {i} : u.seats[j] = t.seats[j]

\* The players and the bets of the table are the same.
LEMMA ViewSmooth ==
  ASSUME NEW t, NEW u, SameView(t, u), Solvent(t) => Solvent(u), u.phase = t.phase, u.acted = t.acted,
         u.rit = t.rit, Surplus(u) = Surplus(t)
  PROVE  Smooth(t, u)
<1>1. Steady(t) => Solvent(t)
  BY DEF Steady, Regular, Loose
<1>2. Steady(t) => Steady(u)
  BY <1>1, ViewSteady
<1>3. t.phase.tag \in {"waiting", "betting"} => Calm(u)
  BY WaitingCalm DEF Calm, Open
<1>4. QED
  BY <1>2, <1>3 DEF Smooth

LEMMA FundedSmooth ==
  ASSUME NEW t, AtRest(t), NEW i \in Seats, NEW u, Funded(t, u, i)
  PROVE  AtRest(u) /\ Smooth(t, u)
<1>1. /\ t \in Tables /\ Ledger(t) /\ Covered(t) /\ Vacated(t) /\ Quiet(t) /\ Owed(t) /\ ~is_error(t)
  BY DEF AtRest, Sound, Solid
<1>2. /\ u \in Tables /\ u.pot = t.pot /\ u.phase = t.phase /\ u.chip_pool <= MaxTotalBet
      /\ u.contributors = t.contributors
      /\ u.chip_pool - worth(u.seats[i]) = t.chip_pool - worth(t.seats[i])
      /\ \A j \in Seats \ {i} : u.seats[j] = t.seats[j]
  BY DEF Funded
<1>3. \A j \in Seats : /\ u.seats[j].bet = t.seats[j].bet /\ u.seats[j].total = t.seats[j].total
                       /\ u.seats[j].kind = t.seats[j].kind
  BY DEF Funded
<1>4. /\ t.seats[i] \in SeatRecords /\ u.seats[i] \in SeatRecords
      /\ t.chip_pool \in Int /\ u.chip_pool \in Int /\ t.pot \in Nat
  BY <1>1, <1>2 DEF Tables
<1>5. /\ Worth(u) = Worth(t) - worth(t.seats[i]) + worth(u.seats[i])
      /\ Wagers(u) = Wagers(t) - wager(t.seats[i]) + wager(u.seats[i])
  BY <1>1, <1>2, OneSeat
<1>6. /\ Worth(t) \in Nat /\ worth(t.seats[i]) \in Nat /\ worth(u.seats[i]) \in Nat
      /\ Wagers(t) \in Int /\ wager(t.seats[i]) \in Int
  BY <1>1, <1>4, SumsOf, SeatFields
<1>7. wager(u.seats[i]) = wager(t.seats[i])
  BY <1>3 DEF wager
<1>8. Ledger(u)
  BY <1>1, <1>2, <1>5, <1>6, <1>7 DEF Ledger
<1>9. Covered(u) /\ Capped(u)
  BY <1>1, <1>2, <1>4, <1>5, <1>6 DEF Covered, Capped
<1>10. Vacated(u)
  <2>1. t.seats[i].kind \notin {"vacant", "departed"}
    BY DEF Funded, occupied_seats, of_kind
  <2>2. QED
    BY <1>1, <1>2, <1>3, <2>1 DEF Vacated
<1>11. \A ks : of_kind(u, ks) = of_kind(t, ks)
  BY <1>3 DEF of_kind
<1>12. active_seats(u) = active_seats(t)
  BY <1>11 DEF active_seats
<1>13. Owed(u)
  BY <1>1, <1>2, <1>12 DEF Owed, in_phase, pending_revealers
<1>14. Quiet(u)
  BY <1>1, <1>2, <1>3 DEF Quiet, NoBets, NoWagers
<1>15. AtRest(u)
  BY <1>1, <1>2, <1>8, <1>9, <1>10, <1>13, <1>14 DEF AtRest, Sound, Solid, is_error, in_phase
<1>16. Solvent(t) => Solvent(u)
  <2>1. \A j \in Seats : u.seats[j].stack >= t.seats[j].stack
    <3>1. \A j \in Seats : t.seats[j].stack \in Nat
      BY <1>1, SumsOf, SeatFields
    <3>2. QED
      BY <3>1 DEF Funded
  <2>2. \A j \in Seats : t.seats[j].stack \in Nat /\ u.seats[j].stack \in Nat
    BY <1>1, <1>2, SumsOf, SeatFields
  <2>3. QED
    BY <1>3, <2>1, <2>2 DEF Solvent
<1>17. SameView(t, u)
  BY <1>3 DEF SameView
<1>18. Surplus(u) = Surplus(t)
  BY <1>1, <1>2, SeatSurplus
<1>19. u.phase = t.phase /\ u.acted = t.acted /\ u.rit = t.rit
  BY DEF Funded
<1>20. QED
  BY <1>15, <1>16, <1>17, <1>18, <1>19, ViewSmooth

LEMMA AddonKeeps ==
  ASSUME NEW i \in Seats, NEW amount \in Nat, AtRest(table), addon(i, amount)
  PROVE  Keeps(table, table')
<1> DEFINE s == table.seats[i]
           n == [s EXCEPT !.addon = @ + amount]
           u == [table EXCEPT !.seats[i].addon = @ + amount, !.chip_pool = @ + amount]
<1>1. /\ i \in occupied_seats(table) /\ table.chip_pool + amount <= MaxTotalBet
      /\ table' = kept(u, normalize_until_blocked(u))
  BY DEF addon, dispatch
<1>2. /\ table \in Tables /\ table.seats \in [Seats -> SeatRecords] /\ table.chip_pool \in Int
      /\ s \in SeatRecords
  BY DEF AtRest, Sound, Solid, Tables
<1>3. s.stack \in Nat /\ s.addon \in Nat /\ s.bet \in Nat
  BY <1>2, SeatFields
<1>4. /\ n \in SeatRecords /\ n.stack = s.stack /\ n.addon = s.addon + amount /\ n.bet = s.bet
      /\ n.total = s.total /\ n.kind = s.kind
  BY <1>2, <1>3 DEF SeatRecords
<1>5. worth(n) = worth(s) + amount /\ worth(s) \in Nat
  BY <1>3, <1>4 DEF worth
<1>6. u = [table EXCEPT !.seats = [table.seats EXCEPT ![i] = n], !.chip_pool = table.chip_pool + amount]
  BY <1>2 DEF Tables
<1> HIDE DEF n, u
<1>7. [table.seats EXCEPT ![i] = n] \in [Seats -> SeatRecords] /\ table.chip_pool + amount \in Int
  BY <1>2, <1>4
<1>8. /\ u \in Tables /\ u.seats = [table.seats EXCEPT ![i] = n] /\ u.pot = table.pot
      /\ u.phase = table.phase /\ u.chip_pool = table.chip_pool + amount
      /\ u.acted = table.acted /\ u.rit = table.rit /\ u.contributors = table.contributors
  BY <1>2, <1>6, <1>7 DEF Tables
<1>9. u.seats[i] = n /\ \A j \in Seats \ {i} : u.seats[j] = table.seats[j]
  BY <1>2, <1>8
<1>10. u.chip_pool - worth(u.seats[i]) = table.chip_pool - worth(table.seats[i])
  BY <1>2, <1>5, <1>8, <1>9
<1>11. Funded(table, u, i)
  <2>1. u.seats[i].stack >= s.stack
    BY <1>3, <1>4, <1>9
  <2>2. QED
    BY <1>1, <1>4, <1>8, <1>9, <1>10, <2>1 DEF Funded
<1>12. AtRest(u) /\ Smooth(table, u)
  BY <1>11, FundedSmooth
<1>13. QED
  BY <1>1, <1>12, KeptKeeps

LEMMA RebuyKeeps ==
  ASSUME NEW i \in Seats, NEW amount \in Nat, AtRest(table), rebuy(i, amount)
  PROVE  Keeps(table, table')
<1> DEFINE s == table.seats[i]
           n == [s EXCEPT !.stack = @ + amount]
           u == [table EXCEPT !.seats[i].stack = @ + amount, !.chip_pool = @ + amount]
<1>1. /\ i \in occupied_seats(table) /\ table.chip_pool + amount <= MaxTotalBet
      /\ table' = kept(u, normalize_until_blocked(u))
  BY DEF rebuy, dispatch
<1>2. /\ table \in Tables /\ table.seats \in [Seats -> SeatRecords] /\ table.chip_pool \in Int
      /\ s \in SeatRecords
  BY DEF AtRest, Sound, Solid, Tables
<1>3. s.stack \in Nat /\ s.addon \in Nat /\ s.bet \in Nat
  BY <1>2, SeatFields
<1>4. /\ n \in SeatRecords /\ n.stack = s.stack + amount /\ n.addon = s.addon /\ n.bet = s.bet
      /\ n.total = s.total /\ n.kind = s.kind
  BY <1>2, <1>3 DEF SeatRecords
<1>5. worth(n) = worth(s) + amount /\ worth(s) \in Nat
  BY <1>3, <1>4 DEF worth
<1>6. u = [table EXCEPT !.seats = [table.seats EXCEPT ![i] = n], !.chip_pool = table.chip_pool + amount]
  BY <1>2 DEF Tables
<1> HIDE DEF n, u
<1>7. [table.seats EXCEPT ![i] = n] \in [Seats -> SeatRecords] /\ table.chip_pool + amount \in Int
  BY <1>2, <1>4
<1>8. /\ u \in Tables /\ u.seats = [table.seats EXCEPT ![i] = n] /\ u.pot = table.pot
      /\ u.phase = table.phase /\ u.chip_pool = table.chip_pool + amount
      /\ u.acted = table.acted /\ u.rit = table.rit /\ u.contributors = table.contributors
  BY <1>2, <1>6, <1>7 DEF Tables
<1>9. u.seats[i] = n /\ \A j \in Seats \ {i} : u.seats[j] = table.seats[j]
  BY <1>2, <1>8
<1>10. u.chip_pool - worth(u.seats[i]) = table.chip_pool - worth(table.seats[i])
  BY <1>2, <1>5, <1>8, <1>9
<1>11. Funded(table, u, i)
  <2>1. u.seats[i].stack >= s.stack
    BY <1>3, <1>4, <1>9
  <2>2. QED
    BY <1>1, <1>4, <1>8, <1>9, <1>10, <2>1 DEF Funded
<1>12. AtRest(u) /\ Smooth(table, u)
  BY <1>11, FundedSmooth
<1>13. QED
  BY <1>1, <1>12, KeptKeeps

LEMMA SetLeaveKeeps ==
  ASSUME NEW i \in Seats, NEW want_leave, AtRest(table), set_leave_after_hand(i, want_leave)
  PROVE  Keeps(table, table')
<1> DEFINE L == IF want_leave THEN table.leave \cup {i} ELSE table.leave \ {i}
           u == [table EXCEPT !.leave = L]
<1>1. table' = kept(u, normalize_until_blocked(u))
  BY DEF set_leave_after_hand, dispatch
<1>2. Solid(table) /\ table \in Tables /\ Quiet(table) /\ Owed(table) /\ ~is_error(table)
  BY DEF AtRest, Sound, Solid
<1>3. L \in SUBSET Seats
  BY <1>2 DEF Tables
<1> HIDE DEF L
<1>4. /\ u \in Tables /\ u.seats = table.seats /\ u.pot = table.pot /\ u.chip_pool = table.chip_pool
      /\ u.contributors = table.contributors
      /\ u.phase = table.phase /\ u.acted = table.acted /\ u.rit = table.rit
  BY <1>2, <1>3 DEF Tables
<1> HIDE DEF u
<1>5. /\ Solid(u) /\ active_seats(u) = active_seats(table)
      /\ NoBets(table) <=> NoBets(u)
      /\ NoWagers(table) <=> NoWagers(u)
  BY <1>2, <1>4, SameSeats
<1>6. Quiet(u)
  BY <1>2, <1>4, <1>5 DEF Quiet
<1>7. Owed(u)
  BY <1>2, <1>4, <1>5 DEF Owed, in_phase, pending_revealers
<1>8. AtRest(u)
  BY <1>2, <1>4, <1>5, <1>6, <1>7 DEF AtRest, Sound, is_error, in_phase
<1>9. Smooth(table, u)
  <2>1. SameView(table, u) /\ (Solvent(table) => Solvent(u)) /\ Surplus(u) = Surplus(table)
    BY <1>4, SameSurplus DEF SameView, Solvent
  <2>2. QED
    BY <1>4, <2>1, ViewSmooth
<1>10. QED
  BY <1>1, <1>8, <1>9, KeptKeeps

LEMMA KickKeeps ==
  ASSUME NEW i \in Seats, AtRest(table), kick_player(i)
  PROVE  Keeps(table, table')
<1> DEFINE k == kick_player_internal(table, i)
<1>1. AtRest(k)
  BY KickSound DEF AtRest
<1>2. table' = kept(k, normalize_until_blocked(k))
  BY DEF kick_player, dispatch
<1>3. Smooth(table, k)
  BY KickSteady, KickExact DEF Smooth, AtRest
<1> HIDE DEF k
<1>4. QED
  BY <1>1, <1>2, <1>3, KeptKeeps

\* A deadline that changes the table found nothing left to do before it.
LEMMA DeadlineKeeps ==
  ASSUME AtRest(table), Settled(table), advance_deadline
  PROVE  Keeps(table, table')
<1> DEFINE n == normalize_until_blocked(table)
           o == on_timeout(n)
           d == on_deadline(table)
<1>1. table' = d /\ ~is_error(d)
  BY DEF advance_deadline, kept
<1>2. d = IF is_error(o) THEN o ELSE normalize_until_blocked(o)
  BY DEF on_deadline, normalized
<1>3. ~is_error(o) /\ d = normalize_until_blocked(o)
  BY <1>1, <1>2
<1>4. ~is_error(n)
  <2>1. ASSUME is_error(n) PROVE FALSE
    <3>1. o = failed(n)
      BY <2>1 DEF on_timeout, is_error, in_phase
    <3>2. Sound(n)
      BY NormalizeSound DEF AtRest
    <3>3. QED
      BY <1>3, <3>1, <3>2, FailedSound DEF Sound
  <2>2. QED
    BY <2>1
<1>5. Sound(table) /\ table \in Tables
  BY DEF AtRest, Sound, Solid
<1>6. n = table /\ blocked(table)
  <2>1. blocked(table)
    BY <1>4 DEF Settled
  <2>2. \A u \in {table} : advance_once(u) \in {table}
    BY <2>1 DEF advance_once
  <2>3. n \in {table, failed(table)}
    BY <1>5, <2>2, NormalizeIn
  <2>4. is_error(failed(table))
    BY <1>5, FailedSound DEF Sound
  <2>5. QED
    BY <1>4, <2>1, <2>3, <2>4
<1> HIDE DEF n, d
<1>7. o = on_timeout(table)
  BY <1>6
<1>8. AtRest(o)
  BY <1>3, <1>5, <1>6, <1>7, TimeoutSound DEF AtRest
<1>9. table.phase.tag # "waiting"
  <2>1. ASSUME table.phase.tag = "waiting" PROVE FALSE
    <3>1. o = failed(table)
      BY <1>7, <2>1 DEF on_timeout, in_phase
    <3>2. QED
      BY <1>3, <1>5, <3>1, FailedSound DEF Sound
  <2>2. QED
    BY <2>1
<1>10. Smooth(table, o)
  <2>1. ASSUME Steady(table) PROVE Steady(o)
    BY <1>3, <1>5, <1>6, <1>7, <2>1, TimeoutSteady DEF SteadyOrError
  <2>2. ASSUME Steady(table), table.phase.tag = "betting" PROVE Surplus(o) = Surplus(table) /\ Calm(o)
    <3>1. o = on_betting_timeout(table)
      BY <1>7, <2>2 DEF on_timeout, in_phase
    <3>2. QED
      BY <1>5, <2>2, <3>1, BettingTimeoutExact
  <2>3. QED
    BY <1>9, <2>1, <2>2 DEF Smooth
<1> HIDE DEF o
<1>11. Keeps(table, kept(o, normalize_until_blocked(o)))
  BY <1>8, <1>10, KeptKeeps
<1>12. QED
  BY <1>1, <1>3, <1>11 DEF kept

-----------------------------------------------------------------------------
(* The showdown.                                                           *)

\* The settlement plan that is proved about is the one the table uses.
LEMMA SamePots ==
  ASSUME NEW bets, NEW folded, NEW all_in
  PROVE  Plan!calculate_side_pots(bets, folded, all_in) = calculate_side_pots(bets, folded, all_in)
BY DEF Plan!calculate_side_pots, calculate_side_pots, Plan!levels, levels, Plan!slice_layer, slice_layer,
       Plan!record_layer, record_layer, Plan!Seats, Seats, Plan!Min, Min, Plan!Max, Max, Plan!Range, Range,
       Plan!Cardinality, Cardinality, Plan!SumFunction, SumFunction, Plan!SumFunctionOnSet, SumFunctionOnSet,
       Plan!FoldFunctionOnSet, FoldFunctionOnSet, Plan!MapThenFoldSet, MapThenFoldSet

LEMMA SameRake ==
  ASSUME NEW pots
  PROVE  Plan!allocate_rake_fixed_rate(pots) = allocate_rake_fixed_rate(pots)
BY DEF Plan!allocate_rake_fixed_rate, allocate_rake_fixed_rate, Plan!contested, contested,
       Plan!Cardinality, Cardinality, Plan!Min, Min

LEMMA SameAwards ==
  ASSUME NEW pot, NEW net, NEW button, NEW rankings
  PROVE  Plan!pot_awards(pot, net, button, rankings) = pot_awards(pot, net, button, rankings)
BY DEF Plan!pot_awards, pot_awards, Plan!contested, contested, Plan!split_across_runouts, split_across_runouts,
       Plan!split_among_winners, split_among_winners, Plan!find_winners, find_winners,
       Plan!Seats, Seats, Plan!Clockwise, Clockwise, Plan!Cardinality, Cardinality,
       Plan!SumFunction, SumFunction, Plan!SumFunctionOnSet, SumFunctionOnSet,
       Plan!FoldFunctionOnSet, FoldFunctionOnSet, Plan!MapThenFoldSet, MapThenFoldSet

LEMMA SameSum ==
  ASSUME NEW f
  PROVE  Plan!SumFunction(f) = SumFunction(f)
BY DEF Plan!SumFunction, SumFunction, Plan!SumFunctionOnSet, SumFunctionOnSet,
       Plan!FoldFunctionOnSet, FoldFunctionOnSet, Plan!MapThenFoldSet, MapThenFoldSet

LEMMA SamePlan ==
  ASSUME NEW bets, NEW folded, NEW all_in, NEW button, NEW rankings
  PROVE  /\ Plan!derive_settlement_plan(bets, folded, all_in, button, rankings).rake
              = derive_settlement_plan(bets, folded, all_in, button, rankings).rake
         /\ Plan!derive_settlement_plan(bets, folded, all_in, button, rankings).awards
              = derive_settlement_plan(bets, folded, all_in, button, rankings).awards
<1> DEFINE pots == calculate_side_pots(bets, folded, all_in)
           rakes == allocate_rake_fixed_rate(pots)
           P == Plan!derive_settlement_plan(bets, folded, all_in, button, rankings)
           p == derive_settlement_plan(bets, folded, all_in, button, rankings)
           g(i) == [k \in DOMAIN pots |-> pot_awards(pots[k], pots[k].amount - rakes[k], button, rankings)[i]]
           h(i) == [k \in DOMAIN pots |-> Plan!pot_awards(pots[k], pots[k].amount - rakes[k], button, rankings)[i]]
<1>1. /\ p.rake = SumFunction(rakes)
      /\ p.awards = [i \in Seats |-> SumFunction(g(i))]
  BY DEF derive_settlement_plan
<1>2. /\ P.rake = Plan!SumFunction(rakes)
      /\ P.awards = [i \in Plan!Seats |-> Plan!SumFunction(h(i))]
  <2> DEFINE po == Plan!calculate_side_pots(bets, folded, all_in)
             ra == Plan!allocate_rake_fixed_rate(po)
  <2>1. /\ P.rake = Plan!SumFunction(ra)
        /\ P.awards = [i \in Plan!Seats |-> Plan!SumFunction([k \in DOMAIN po |->
                         Plan!pot_awards(po[k], po[k].amount - ra[k], button, rankings)[i]])]
    BY DEF Plan!derive_settlement_plan
  <2>2. po = pots
    BY SamePots
  <2>3. ra = rakes
    BY <2>2, SameRake
  <2> HIDE DEF po, ra, P, pots, rakes
  <2>4. QED
    BY <2>1, <2>2, <2>3
<1>3. Plan!Seats = Seats
  BY DEF Plan!Seats, Seats
<1> HIDE DEF P, p, pots, rakes
<1>4. \A i : g(i) = h(i)
  BY SameAwards
<1> HIDE DEF g, h
<1>5. QED
  BY <1>1, <1>2, <1>3, <1>4, SameSum DEF P, p

PaysAtMost(p, bets, folded) ==
  /\ p.awards \in [Seats -> Nat] /\ p.rake \in Nat
  /\ SumFunction(p.awards) \in Nat
  /\ SumFunction(p.awards) + p.rake <= SumFunction(bets)
  /\ (\E i \in Seats : p.awards[i] > 0) => SumFunction(p.awards) + p.rake = SumFunction(bets)
  /\ \A i \in Seats : i \in folded \/ bets[i] = 0 => p.awards[i] = 0

\* Whatever the hands are worth, the plan of a table pays at most what the seats
\* put in, and one that pays anybody pays all of it, to seats in the hand.
LEMMA PlanOf ==
  ASSUME NEW bets \in [Seats -> Nat], NEW folded, NEW all_in \in SUBSET Seats, NEW button \in Seats,
         NEW boards \in {<<r>> : r \in Rankings} \cup (Rankings \X Rankings)
  PROVE  PaysAtMost(derive_settlement_plan(bets, folded, all_in, button, boards), bets, folded)
<1> DEFINE P == Plan!derive_settlement_plan(bets, folded, all_in, button, boards)
           p == derive_settlement_plan(bets, folded, all_in, button, boards)
<1>1. Plan!Seats = Seats
  BY DEF Plan!Seats, Seats
<1>2. boards \in Plan!Boards
  BY DEF Plan!Boards
<1>3. /\ P.awards \in [Seats -> Nat] /\ P.rake \in Nat
      /\ Plan!SumFunction(P.awards) \in Nat
      /\ Plan!SumFunction(P.awards) + P.rake <= Plan!SumFunction(bets)
      /\ (\E i \in Seats : P.awards[i] > 0) => Plan!SumFunction(P.awards) + P.rake = Plan!SumFunction(bets)
      /\ \A i \in Seats : i \in folded \/ bets[i] = 0 => P.awards[i] = 0
  <2>1. bets \in [Plan!Seats -> Nat] /\ all_in \in SUBSET Plan!Seats /\ button \in Plan!Seats
    BY <1>1
  <2>2. /\ Nat \subseteq Nat
        /\ Rankings \subseteq [Plan!Seats -> Nat]
        /\ Seats \subseteq Plan!Seats
    BY <1>1, TableAssumption
  <2>3. MaxPlayers \in 2..9 /\ RakeBps \in 0..10000 /\ RakeCap \in Nat
    BY SidePotsAssumption
  <2>4. Plan!PaysWithin(P, bets, folded)
    BY <1>2, <2>1, <2>2, <2>3, Plan!PlanPays
  <2> HIDE DEF P
  <2>5. QED
    BY <1>1, <2>4 DEF Plan!PaysWithin
<1>4. P.awards = p.awards /\ P.rake = p.rake
  BY SamePlan
<1> HIDE DEF P, p
<1>5. PaysAtMost(p, bets, folded)
  BY <1>3, <1>4, SameSum DEF PaysAtMost
<1>6. QED
  BY <1>5 DEF p

\* The table once the awards are paid and before it is reset.
PlanFor(t, boards) ==
  derive_settlement_plan([i \in Seats |-> t.seats[i].total], of_kind(t, {"folded", "departed"}),
                         of_kind(t, {"allin"}), t.button, boards)
Paid(t, boards) ==
  [t EXCEPT !.pot = 0, !.chip_pool = @ - PlanFor(t, boards).rake,
            !.seats = [i \in Seats |-> [t.seats[i] EXCEPT !.stack = @ + PlanFor(t, boards).awards[i]]]]

LEMMA PaidIs ==
  ASSUME NEW t, Solid(t), t.pot = Totals(t),
         NEW boards \in {<<r>> : r \in Rankings} \cup (Rankings \X Rankings)
  PROVE  LET e == Paid(t, boards)
             p == PlanFor(t, boards)
         IN  /\ e \in Tables /\ Covered(e) /\ Capped(e)
             /\ p.awards \in [Seats -> Nat] /\ p.rake \in Nat /\ SumFunction(p.awards) \in Nat
             /\ (\E i \in Seats : p.awards[i] > 0) => SumFunction(p.awards) + p.rake = t.pot
             /\ \A i \in Seats : t.seats[i].kind = "departed" \/ t.seats[i].total = 0 => p.awards[i] = 0
             /\ Worth(e) = Worth(t) + SumFunction(p.awards)
             /\ e.pot = 0 /\ e.chip_pool = t.chip_pool - p.rake /\ e.leave = t.leave
             /\ e.phase = t.phase
             /\ \A i \in Seats : /\ e.seats[i].stack = t.seats[i].stack + p.awards[i]
                                 /\ e.seats[i].addon = t.seats[i].addon /\ e.seats[i].bet = t.seats[i].bet
                                 /\ e.seats[i].kind = t.seats[i].kind
<1> DEFINE p == PlanFor(t, boards)
           e == Paid(t, boards)
           bets == [i \in Seats |-> t.seats[i].total]
           seats == [i \in Seats |-> [t.seats[i] EXCEPT !.stack = @ + p.awards[i]]]
<1>1. /\ t \in Tables /\ t.seats \in [Seats -> SeatRecords] /\ t.button \in Seats /\ t.pot \in Nat
      /\ t.chip_pool \in Int /\ Covered(t) /\ Capped(t)
  BY DEF Solid, Tables
<1>2. bets \in [Seats -> Nat] /\ SumFunction(bets) = t.pot
  <2>1. \A i \in Seats : t.seats[i].total \in Nat
    BY <1>1, SeatFields
  <2>2. QED
    BY <2>1 DEF Totals
<1>3. /\ p.awards \in [Seats -> Nat] /\ p.rake \in Nat /\ SumFunction(p.awards) \in Nat
      /\ SumFunction(p.awards) + p.rake <= t.pot
      /\ (\E i \in Seats : p.awards[i] > 0) => SumFunction(p.awards) + p.rake = t.pot
      /\ \A i \in Seats : t.seats[i].kind = "departed" \/ t.seats[i].total = 0 => p.awards[i] = 0
  <2> DEFINE F == of_kind(t, {"folded", "departed"})
             A == of_kind(t, {"allin"})
  <2>1. A \in SUBSET Seats
    BY DEF of_kind
  <2>2. p = derive_settlement_plan(bets, F, A, t.button, boards)
    BY DEF PlanFor
  <2>3. \A i \in Seats : /\ t.seats[i].kind = "departed" => i \in F
                         /\ t.seats[i].total = 0 => bets[i] = 0
    BY DEF of_kind
  <2> HIDE DEF p, bets, F, A
  <2>4. PaysAtMost(p, bets, F)
    BY <1>1, <1>2, <2>1, <2>2, PlanOf
  <2>5. QED
    BY <1>2, <2>3, <2>4 DEF PaysAtMost
<1>4. e = [t EXCEPT !.pot = 0, !.chip_pool = t.chip_pool - p.rake, !.seats = seats]
  BY DEF Paid
<1> HIDE DEF p, e
<1>5. \A i \in Seats : /\ seats[i] \in SeatRecords /\ seats[i].stack = t.seats[i].stack + p.awards[i]
                       /\ seats[i].bet = t.seats[i].bet /\ seats[i].total = t.seats[i].total
                       /\ seats[i].addon = t.seats[i].addon /\ seats[i].kind = t.seats[i].kind
  <2>1. SUFFICES ASSUME NEW i \in Seats
                 PROVE  /\ seats[i] \in SeatRecords /\ seats[i].stack = t.seats[i].stack + p.awards[i]
                        /\ seats[i].bet = t.seats[i].bet /\ seats[i].total = t.seats[i].total
                        /\ seats[i].addon = t.seats[i].addon /\ seats[i].kind = t.seats[i].kind
    OBVIOUS
  <2>2. t.seats[i] \in SeatRecords /\ t.seats[i].stack \in Nat /\ p.awards[i] \in Nat
    BY <1>1, <1>3, SeatFields
  <2>3. t.seats[i].stack + p.awards[i] \in Nat
    BY <2>2
  <2>4. QED
    BY <2>2, <2>3 DEF SeatRecords
<1>6. seats \in [Seats -> SeatRecords] /\ t.chip_pool - p.rake \in Int
  BY <1>1, <1>3, <1>5
<1> HIDE DEF seats
<1>7. /\ e \in Tables /\ e.seats = seats /\ e.pot = 0 /\ e.chip_pool = t.chip_pool - p.rake /\ e.leave = t.leave
      /\ e.phase = t.phase
  BY <1>1, <1>4, <1>6 DEF Tables
<1>8. Worth(e) = Worth(t) + SumFunction(p.awards)
  <2> DEFINE z == [i \in Seats |-> 0]
             d == p.awards
  <2>1. z \in [Seats -> Int] /\ d \in [Seats -> Int]
    BY <1>3
  <2>2. \A i \in Seats : /\ worth(e.seats[i]) = worth(t.seats[i]) + d[i]
                         /\ wager(e.seats[i]) = wager(t.seats[i]) + z[i]
    <3>1. SUFFICES ASSUME NEW i \in Seats
                   PROVE  /\ worth(e.seats[i]) = worth(t.seats[i]) + d[i]
                          /\ wager(e.seats[i]) = wager(t.seats[i]) + z[i]
      OBVIOUS
    <3>2. /\ t.seats[i] \in SeatRecords /\ t.seats[i].stack \in Nat /\ t.seats[i].addon \in Nat
          /\ t.seats[i].bet \in Nat /\ t.seats[i].total \in Nat /\ p.awards[i] \in Nat
      BY <1>1, <1>3, SeatFields
    <3>3. QED
      BY <1>5, <1>7, <3>2 DEF worth, wager
  <2> HIDE DEF z, d
  <2>3. Worth(e) = Worth(t) + SumFunction(d)
    BY <1>1, <1>7, <2>1, <2>2, AllSeats
  <2>4. QED
    BY <2>3 DEF d
<1>9. Covered(e) /\ Capped(e)
  <2>1. Worth(t) \in Nat /\ MaxTotalBet \in Nat
    BY <1>1, SumsOf, TableAssumption
  <2>2. QED
    BY <1>1, <1>3, <1>7, <1>8, <2>1 DEF Covered, Capped
<1>10. QED
  BY <1>3, <1>5, <1>7, <1>8, <1>9 DEF p, e

LEMMA SettleKeeps ==
  ASSUME AtRest(table), advance_deadline_showdown
  PROVE  Keeps(table, table')
<1>1. PICK boards \in {<<r>> : r \in Rankings} \cup (Rankings \X Rankings) : table' = settle_hand(table, boards)
  BY DEF advance_deadline_showdown
<1> DEFINE e == Paid(table, boards)
<1>2. table' = reset_for_next_hand(e)
  BY <1>1 DEF settle_hand, Paid, PlanFor
<1>3. Solid(table) /\ table.pot = Totals(table)
  BY DEF AtRest, Sound, advance_deadline_showdown, settleable
<1>4. e \in Tables /\ Covered(e) /\ Capped(e)
  BY <1>3, PaidIs
<1> HIDE DEF e
<1>5. Sound(reset_for_next_hand(e)) /\ reset_for_next_hand(e).phase = Waiting
  BY <1>4, ResetSound
<1>6. AtRest(table') /\ table'.phase.tag = "waiting"
  BY <1>2, <1>5 DEF AtRest, is_error, in_phase, Waiting
<1>7. Steady(table')
  BY <1>2, <1>4, ResetBetween, BetweenSteady
<1>8. Settled(table')
  BY <1>6, WaitingCalm DEF Settled
<1>9. table.phase.tag = "showdown"
  BY DEF advance_deadline_showdown, settleable, in_phase
<1>10. QED
  BY <1>6, <1>7, <1>8, <1>9 DEF Keeps

-----------------------------------------------------------------------------
(* The invariant.                                                          *)

LEMMA InitKeeps == Init => AtRest(table) /\ Settled(table) /\ Steady(table)
<1> SUFFICES ASSUME Init PROVE AtRest(table) /\ Settled(table) /\ Steady(table)
  OBVIOUS
<1>1. /\ table.seats = [i \in Seats |-> VacantSeat] /\ table.pot = 0 /\ table.chip_pool = 0 /\ table.phase = Waiting
      /\ table.rit = FALSE /\ table.contributors = {}
  BY DEF Init
<1>2. 0 \in Seats /\ NO_SEAT \in Anyone /\ Waiting \in Phases
  <2>1. 0 \in Seats
    BY SeatsFinite DEF Seats
  <2>2. QED
    BY <2>1, AnyoneInt DEF Phases
<1>3. table \in Tables
  BY <1>2, VacantSeatIs DEF Init, Tables
<1>4. \A i \in Seats : table.seats[i] = VacantSeat
  BY <1>1
<1>5. NoWagers(table)
  BY <1>4, VacantSeatIs DEF NoWagers
<1>6. Wagers(table) = 0
  BY <1>3, <1>5, NothingWagered
<1>7. Worth(table) = 0
  <2>1. Worths(table) = [i \in Seats |-> 0]
    BY <1>4, VacantSeatIs DEF Worths
  <2>2. SumFunction([i \in Seats |-> 0]) = 0
    BY SeatsFinite, SumFunctionZero
  <2>3. QED
    BY <1>3, <2>1, <2>2, SumsOf
<1>8. Ledger(table) /\ Covered(table) /\ Capped(table)
  BY <1>1, <1>6, <1>7, TableAssumption DEF Ledger, Covered, Capped
<1>9. Vacated(table)
  BY <1>1, <1>4, VacantSeatIs DEF Vacated
<1>10. Solid(table)
  BY <1>3, <1>8, <1>9 DEF Solid
<1>11. table.phase.tag = "waiting"
  BY <1>1 DEF Waiting
<1>12. AtRest(table)
  BY <1>5, <1>10, <1>11, UnopenedAtRest
<1>13. Settled(table)
  BY <1>11, WaitingCalm DEF Settled
<1>14. Steady(table)
  <2>1. \A i \in Seats : table.seats[i].kind = "vacant"
    BY <1>4, VacantSeatIs
  <2>2. Solvent(table)
    BY <2>1 DEF Solvent
  <2>3. QED
    BY <1>1, <1>11, <2>1, <2>2, UnopenedSteady
<1>15. QED
  BY <1>12, <1>13, <1>14

\* What a step of the table keeps, with or without buy-ins of no chips.
Runs(t, u) == AtRest(u) /\ Settled(u) /\ (0 \notin BuyIns => Keeps(t, u))

LEMMA NextRuns ==
  ASSUME AtRest(table), Settled(table), [Next]_table
  PROVE  Runs(table, table')
<1>1. BuyIns \subseteq Nat /\ FundAmounts \subseteq Nat /\ Kickable \subseteq Seats /\ Leavers \subseteq Seats
  BY TableAssumption
<1>2. Keeps(table, table') => Runs(table, table')
  BY DEF Keeps, Runs
<1>3. ASSUME NEW buy_in \in BuyIns, join_table(buy_in) PROVE Runs(table, table')
  BY <1>1, <1>3, JoinKeeps DEF Runs
<1>4. ASSUME NEW i \in Seats, leave_table(i) PROVE Keeps(table, table')
  BY <1>4, LeaveKeeps
<1>5. CASE start_hand
  BY <1>2, <1>5, StartHandKeeps
<1>6. ASSUME NEW i \in Seats, submit_shuffle_v2(i) PROVE Keeps(table, table')
  BY <1>6, SubmitShuffleKeeps
<1>7. ASSUME NEW i \in Seats, submit_player_reveal_tokens(i) PROVE Keeps(table, table')
  BY <1>7, SubmitRevealKeeps
<1>8. ASSUME NEW i \in Seats, submit_reconstruct_deck(i) PROVE Keeps(table, table')
  BY <1>8, SubmitReconstructKeeps
<1>9. ASSUME NEW i \in Seats, fold(i) PROVE Keeps(table, table')
  BY <1>9, FoldKeeps
<1>10. ASSUME NEW i \in Seats, match_bet(i) PROVE Keeps(table, table')
  BY <1>10, MatchKeeps
<1>11. ASSUME NEW i \in Seats, NEW total_bet \in 1..MaxTotalBet, raise_to(i, total_bet) PROVE Keeps(table, table')
  <2>1. total_bet \in Nat
    BY TableAssumption
  <2>2. QED
    BY <1>11, <2>1, RaiseKeeps
<1>12. ASSUME NEW i \in Seats, NEW amount \in FundAmounts, addon(i, amount) PROVE Keeps(table, table')
  BY <1>1, <1>12, AddonKeeps
<1>13. ASSUME NEW i \in Seats, NEW amount \in FundAmounts, rebuy(i, amount) PROVE Keeps(table, table')
  BY <1>1, <1>13, RebuyKeeps
<1>14. ASSUME NEW i \in Leavers, NEW want_leave \in BOOLEAN, set_leave_after_hand(i, want_leave)
       PROVE  Keeps(table, table')
  BY <1>1, <1>14, SetLeaveKeeps
<1>15. ASSUME NEW i \in Kickable, kick_player(i) PROVE Keeps(table, table')
  BY <1>1, <1>15, KickKeeps
<1>16. CASE advance_deadline
  BY <1>2, <1>16, DeadlineKeeps
<1>17. CASE advance_deadline_showdown
  BY <1>2, <1>17, SettleKeeps
<1>18. CASE UNCHANGED table
  BY <1>18 DEF Runs, Keeps
<1>20. ASSUME NEW i \in Seats, fold_with_proof(i) PROVE Keeps(table, table')
  BY <1>20, FoldWithProofKeeps
<1>19. QED
  BY <1>2, <1>3, <1>4, <1>5, <1>6, <1>7, <1>8, <1>9, <1>10, <1>11, <1>12, <1>13, <1>14, <1>15, <1>16, <1>17, <1>18,
     <1>20 DEF Next

LEMMA TableInvariant == Spec => []AtRest(table)
<1> DEFINE Inv == AtRest(table) /\ Settled(table)
<1>1. Init => Inv
  BY InitKeeps
<1>2. Inv /\ [Next]_table => Inv'
  <2>1. SUFFICES ASSUME AtRest(table), Settled(table), [Next]_table PROVE AtRest(table') /\ Settled(table')
    BY DEF AtRest, Settled
  <2>2. QED
    BY <2>1, NextRuns DEF Runs
<1>3. Inv => AtRest(table)
  OBVIOUS
<1>4. QED
  BY <1>1, <1>2, <1>3, PTL DEF Spec

\* With the buy-ins the game layer accepts.
LEMMA SteadyInvariant == Spec => [](AtRest(table) /\ Settled(table) /\ Steady(table))
<1> DEFINE Inv == AtRest(table) /\ Settled(table) /\ Steady(table)
<1>1. Init => Inv
  BY InitKeeps
<1>2. Inv /\ [Next]_table => Inv'
  <2>1. SUFFICES ASSUME AtRest(table), Settled(table), Steady(table), [Next]_table
                 PROVE  AtRest(table') /\ Settled(table') /\ Steady(table')
    BY DEF AtRest, Settled, Steady
  <2>2. QED
    BY <2>1, NextRuns, BuyInAssumption DEF Runs, Keeps
<1>3. QED
  BY <1>1, <1>2, PTL DEF Spec

\* Every seat, chip count, flag and phase of the table stays in its type: in
\* particular no stack, bet, contribution or pot goes negative, and the vault
\* stays within MAX_TOTAL_BET, whatever commands, kicks and deadlines
\* runtime/dispatch.rs accepts.
THEOREM TableTypeCorrect == Spec => []TypeOK
<1>1. AtRest(table) => TypeOK
  <2>1. SUFFICES ASSUME AtRest(table) PROVE TypeOK
    OBVIOUS
  <2>2. table \in Tables /\ Covered(table) /\ Capped(table) /\ ~is_error(table)
    BY <2>1 DEF AtRest, Sound, Solid
  <2>3. \A i \in Seats : table.seats[i] \in SeatRecords
    BY <2>2 DEF Tables
  <2>4. table.chip_pool \in 0..MaxTotalBet
    <3>1. Worth(table) \in Nat /\ table.pot \in Nat /\ table.chip_pool \in Int /\ MaxTotalBet \in Nat
      BY <2>2, SumsOf, TableAssumption DEF Tables
    <3>2. QED
      BY <2>2, <3>1 DEF Covered, Capped
  <2>5. table.phase.tag \in PhaseTags
    <3>1. table.phase.tag \in PhaseTags \cup {"error"}
      BY <2>2, PhaseOf DEF Tables
    <3>2. QED
      BY <2>2, <3>1 DEF is_error, in_phase
  <2>6. \A i \in Seats : LET s == table.seats[i] IN
          /\ s.kind \in {"vacant", "waiting", "active", "folded", "allin", "departed"}
          /\ {s.stack, s.bet, s.total, s.addon} \subseteq Nat /\ s.bank \in 0..TimeBank
    BY <2>3 DEF SeatRecords, Kinds
  <2>7. /\ {table.pot, table.board, table.hand_id} \subseteq Nat
        /\ table.button \in Seats /\ table.last_bb_seat \in Seats \cup {NO_SEAT}
        /\ table.acted \cup table.leave \cup table.ledger \cup table.shown \cup table.contributors \subseteq Seats
        /\ table.rit \in BOOLEAN
    BY <2>2 DEF Tables, Anyone
  <2>8. QED
    BY <2>4, <2>5, <2>6, <2>7 DEF TypeOK
<1>2. QED
  BY <1>1, TableInvariant, PTL

\* The sums that TexasTable speaks of.
LEMMA SumsAre ==
  ASSUME NEW t \in Tables
  PROVE  /\ Bets(t) \in Nat /\ Totals(t) \in Nat /\ Stacks(t) \in Nat /\ Addons(t) \in Nat
         /\ Totals(t) = Wagers(t) + Bets(t)
         /\ Worth(t) = Stacks(t) + Addons(t) + Bets(t)
<1> DEFINE st == [i \in Seats |-> t.seats[i].stack]
           ad == [i \in Seats |-> t.seats[i].addon]
           be == [i \in Seats |-> t.seats[i].bet]
           to == [i \in Seats |-> t.seats[i].total]
           sa == [i \in Seats |-> t.seats[i].stack + t.seats[i].addon]
<1>1. t.seats \in [Seats -> SeatRecords] /\ IsFiniteSet(Seats)
  BY SeatsFinite DEF Tables
<1>2. \A i \in Seats : /\ t.seats[i].stack \in Nat /\ t.seats[i].addon \in Nat /\ t.seats[i].bet \in Nat
                       /\ t.seats[i].total \in Nat
  BY <1>1, SeatFields
<1>3. /\ st \in [Seats -> Nat] /\ ad \in [Seats -> Nat] /\ be \in [Seats -> Nat] /\ to \in [Seats -> Nat]
      /\ st \in [Seats -> Int] /\ ad \in [Seats -> Int] /\ be \in [Seats -> Int] /\ to \in [Seats -> Int]
      /\ sa \in [Seats -> Int]
  BY <1>2
<1>4. /\ WagersOf(t) \in [Seats -> Int] /\ Worths(t) \in [Seats -> Int]
      /\ \A i \in Seats : to[i] = WagersOf(t)[i] + be[i]
      /\ \A i \in Seats : Worths(t)[i] = sa[i] + be[i]
      /\ \A i \in Seats : sa[i] = st[i] + ad[i]
  BY <1>2, SumsOf DEF WagersOf, Worths, wager, worth
<1>5. /\ Stacks(t) = SumFunction(st) /\ Addons(t) = SumFunction(ad)
      /\ Bets(t) = SumFunction(be) /\ Totals(t) = SumFunction(to)
  BY DEF Stacks, Addons, Bets, Totals
<1> HIDE DEF st, ad, be, to, sa
<1>6. Bets(t) \in Nat /\ Totals(t) \in Nat /\ Stacks(t) \in Nat /\ Addons(t) \in Nat
  BY <1>1, <1>3, <1>5, SumFunctionType
<1> DEFINE wa == WagersOf(t)
           wo == Worths(t)
<1>7. SumFunction(to) = SumFunction(wa) + SumFunction(be)
  <2>1. to \in [Seats -> Int] /\ wa \in [Seats -> Int] /\ be \in [Seats -> Int]
    BY <1>3, <1>4
  <2>2. \A i \in Seats : to[i] = wa[i] + be[i]
    BY <1>4
  <2> HIDE DEF wa
  <2>3. QED
    BY <1>1, <2>1, <2>2, SumFunctionPlus
<1>8. SumFunction(wo) = SumFunction(sa) + SumFunction(be)
  <2>1. wo \in [Seats -> Int] /\ sa \in [Seats -> Int] /\ be \in [Seats -> Int]
    BY <1>3, <1>4
  <2>2. \A i \in Seats : wo[i] = sa[i] + be[i]
    BY <1>4
  <2> HIDE DEF wo
  <2>3. QED
    BY <1>1, <2>1, <2>2, SumFunctionPlus
<1>9. SumFunction(sa) = SumFunction(st) + SumFunction(ad)
  <2>1. sa \in [Seats -> Int] /\ st \in [Seats -> Int] /\ ad \in [Seats -> Int]
    BY <1>3
  <2>2. \A i \in Seats : sa[i] = st[i] + ad[i]
    BY <1>4
  <2>3. QED
    BY <1>1, <2>1, <2>2, SumFunctionPlus
<1>10. QED
  BY <1>5, <1>6, <1>7, <1>8, <1>9, SumsOf

\* In every state the pot and the bets on the table are what the seats put into
\* the hand, the equation without which validate_and_derive refuses to settle.
THEOREM WagersAreRecorded == Spec => []WagerLedger
<1>1. AtRest(table) => WagerLedger
  <2>1. SUFFICES ASSUME AtRest(table) PROVE WagerLedger
    OBVIOUS
  <2>2. table \in Tables /\ Ledger(table)
    BY <2>1 DEF AtRest, Sound, Solid
  <2>3. QED
    BY <2>2, SumsAre DEF WagerLedger, Ledger
<1>2. QED
  BY <1>1, TableInvariant, PTL

\* The vault (chip_pool) covers the stacks, the pending addons, the pot and the
\* bets in every state, however hands end: won, settled, given up after a
\* timeout or cut short by kicks.
THEOREM CustodyIsCovered == Spec => []CustodyCovered
<1>1. AtRest(table) => CustodyCovered
  <2>1. SUFFICES ASSUME AtRest(table) PROVE CustodyCovered
    OBVIOUS
  <2>2. table \in Tables /\ Covered(table)
    BY <2>1 DEF AtRest, Sound, Solid
  <2>3. /\ Worth(table) = Stacks(table) + Addons(table) + Bets(table)
        /\ Bets(table) \in Nat /\ Stacks(table) \in Nat /\ Addons(table) \in Nat /\ table.pot \in Nat
        /\ table.chip_pool \in Int
    BY <2>2, SumsAre DEF Tables
  <2>4. QED
    BY <2>2, <2>3 DEF CustodyCovered, Covered, accounted
<1>2. QED
  BY <1>1, TableInvariant, PTL

\* A reveal, a reconstruction and the reshuffle after it wait only for seats that
\* were dealt in and are still at the table: kick_seat_raw and the timeouts take a
\* departed seat out of whatever it owed.  Neither does the deck key hold the key
\* of a seat that is gone.
THEOREM OnlyParticipantsAwaited == Spec => []WaitsForParticipants
<1>1. ASSUME AtRest(table) PROVE WaitsForParticipants
  <2>1. table \in Tables /\ Vacated(table) /\ Owed(table)
    BY <1>1 DEF AtRest, Sound, Solid
  <2>2. table.contributors \subseteq occupied_seats(table)
    <3>1. SUFFICES ASSUME NEW i \in table.contributors PROVE i \in occupied_seats(table)
      OBVIOUS
    <3>2. i \in Seats /\ table.seats[i].kind \in Kinds
      BY <2>1, SeatFields DEF Tables
    <3>3. QED
      BY <2>1, <3>2 DEF Vacated, Kinds, occupied_seats, of_kind
  <2>3. QED
    BY <2>1, <2>2 DEF Owed, WaitsForParticipants
<1>2. QED
  BY <1>1, TableInvariant, PTL
\* slack of TexasTable.
LEMMA SlackIs ==
  ASSUME NEW t \in Tables
  PROVE  slack(t) = Surplus(t) /\ Surplus(t) \in Int
<1>1. t.chip_pool \in Int /\ t.pot \in Nat /\ Worth(t) \in Nat
  BY SumsOf DEF Tables
<1>2. /\ Bets(t) \in Nat /\ Stacks(t) \in Nat /\ Addons(t) \in Nat
      /\ Worth(t) = Stacks(t) + Addons(t) + Bets(t)
  BY SumsAre
<1>3. QED
  BY <1>1, <1>2 DEF slack, accounted, Surplus

-----------------------------------------------------------------------------
(* The showdown.                                                           *)

Gains(t, u) == \E i \in Seats : u.seats[i].stack > t.seats[i].stack + t.seats[i].addon

\* A rebuy puts as much into the vault as into the stack.
LEMMA RebuyAtShowdown ==
  ASSUME NEW i \in Seats, NEW amount \in Nat, AtRest(table), in_phase(table, "showdown"), rebuy(i, amount)
  PROVE  Surplus(table') = Surplus(table)
<1> DEFINE u == [table EXCEPT !.seats[i].stack = @ + amount, !.chip_pool = @ + amount]
<1>1. table' = kept(u, normalize_until_blocked(u))
  BY DEF rebuy, dispatch
<1>2. /\ table \in Tables /\ table.seats \in [Seats -> SeatRecords] /\ table.chip_pool \in Int
      /\ table.pot \in Nat /\ table.seats[i] \in SeatRecords
  BY DEF AtRest, Sound, Solid, Tables
<1> DEFINE s == [table.seats[i] EXCEPT !.stack = @ + amount]
<1>3. s \in SeatRecords /\ worth(s) = worth(table.seats[i]) + amount
  BY <1>2 DEF SeatRecords, worth
<1>4. u = [table EXCEPT !.seats = [table.seats EXCEPT ![i] = s], !.chip_pool = table.chip_pool + amount]
  BY <1>2 DEF Tables
<1> HIDE DEF s, u
<1>5. /\ u \in Tables /\ u.phase = table.phase /\ u.pot = table.pot /\ u.chip_pool = table.chip_pool + amount
      /\ u.seats[i] = s /\ \A j \in Seats \ {i} : u.seats[j] = table.seats[j]
  <2>1. [table.seats EXCEPT ![i] = s] \in [Seats -> SeatRecords] /\ table.chip_pool + amount \in Int
    BY <1>2, <1>3
  <2>2. QED
    BY <1>2, <1>4, <2>1 DEF Tables
<1>6. table' = u
  BY <1>1, <1>5, NothingToNormalize DEF in_phase
<1>7. Worth(u) = Worth(table) - worth(table.seats[i]) + worth(u.seats[i])
  BY <1>2, <1>5, OneSeat
<1>8. Worth(table) \in Nat /\ worth(table.seats[i]) \in Nat
  BY <1>2, SumsOf, SeatFields
<1>9. QED
  BY <1>2, <1>3, <1>5, <1>6, <1>7, <1>8 DEF Surplus

\* Nobody gains from an addon, which stays beside the stack.
LEMMA AddonAtShowdown ==
  ASSUME NEW i \in Seats, NEW amount \in Nat, AtRest(table), in_phase(table, "showdown"), addon(i, amount)
  PROVE  ~Gains(table, table')
<1> DEFINE u == [table EXCEPT !.seats[i].addon = @ + amount, !.chip_pool = @ + amount]
<1>1. table' = kept(u, normalize_until_blocked(u))
  BY DEF addon, dispatch
<1>2. /\ table \in Tables /\ table.seats \in [Seats -> SeatRecords] /\ table.chip_pool \in Int
      /\ table.seats[i] \in SeatRecords
  BY DEF AtRest, Sound, Solid, Tables
<1> DEFINE s == [table.seats[i] EXCEPT !.addon = @ + amount]
<1>3. s \in SeatRecords /\ s.stack = table.seats[i].stack
  BY <1>2 DEF SeatRecords
<1>4. u = [table EXCEPT !.seats = [table.seats EXCEPT ![i] = s], !.chip_pool = table.chip_pool + amount]
  BY <1>2 DEF Tables
<1> HIDE DEF s, u
<1>5. u \in Tables /\ u.phase = table.phase /\ u.seats = [table.seats EXCEPT ![i] = s]
  <2>1. [table.seats EXCEPT ![i] = s] \in [Seats -> SeatRecords] /\ table.chip_pool + amount \in Int
    BY <1>2, <1>3
  <2>2. QED
    BY <1>2, <1>4, <2>1 DEF Tables
<1>6. table' = u
  BY <1>1, <1>5, NothingToNormalize DEF in_phase
<1>7. \A j \in Seats : /\ u.seats[j].stack = table.seats[j].stack
                       /\ table.seats[j].stack \in Nat /\ table.seats[j].addon \in Nat
  BY <1>2, <1>3, <1>5, SeatFields
<1>8. QED
  BY <1>6, <1>7 DEF Gains

\* The creator's kick pays nobody: either the hand goes on, or it is reset.
LEMMA KickAtShowdown ==
  ASSUME NEW i \in Seats, AtRest(table), in_phase(table, "showdown"), kick_player(i)
  PROVE  ~Gains(table, table')
<1> DEFINE k == kick_seat_raw(table, i)
           c == low_player_cascade(k)
<1>1. Sound(table) /\ table \in Tables /\ table.seats \in [Seats -> SeatRecords]
  BY DEF AtRest, Sound, Solid, Tables
<1>2. current_shuffler(table) # i /\ current_turn(table) # i
  BY SeatsFinite DEF current_shuffler, current_turn, in_phase
<1>3. table' = kept(c, normalize_until_blocked(c))
  BY <1>2 DEF kick_player, dispatch, kick_player_internal, kick_cascades
<1>4. Sound(k) /\ k \in Tables /\ k.phase.tag = "showdown"
  BY <1>1, KickRawSound DEF in_phase, Sound, Solid
<1>5. \A j \in Seats : /\ k.seats[j].stack \in Nat /\ k.seats[j].addon \in Nat
                       /\ table.seats[j].stack \in Nat /\ table.seats[j].addon \in Nat
                       /\ k.seats[j].stack <= table.seats[j].stack /\ k.seats[j].addon <= table.seats[j].addon
  <2>1. SUFFICES ASSUME NEW j \in Seats
                 PROVE  /\ k.seats[j].stack \in Nat /\ k.seats[j].addon \in Nat
                        /\ table.seats[j].stack \in Nat /\ table.seats[j].addon \in Nat
                        /\ k.seats[j].stack <= table.seats[j].stack /\ k.seats[j].addon <= table.seats[j].addon
    OBVIOUS
  <2>2. k.seats[j] \in SeatRecords /\ table.seats[j] \in SeatRecords
    BY <1>1, <1>4, SumsOf
  <2>3. /\ k.seats[j].stack \in Nat /\ k.seats[j].addon \in Nat /\ k.seats[j].bet \in Nat
        /\ table.seats[j].stack \in Nat /\ table.seats[j].addon \in Nat
    BY <2>2, SeatFields
  <2>4. k.seats[j] = table.seats[j] \/ worth(k.seats[j]) = 0
    BY <1>1, KickRawIs
  <2>5. QED
    BY <2>3, <2>4 DEF worth
<1> HIDE DEF k
<1>6. CASE c = k
  <2>1. table' = k
    BY <1>3, <1>4, <1>6, NothingToNormalize
  <2>2. QED
    BY <1>5, <2>1 DEF Gains
<1>7. CASE c = reset_for_next_hand(k)
  <2>1. Covered(k) /\ Capped(k)
    BY <1>4 DEF Sound, Solid
  <2>2. c \in Tables /\ c.phase.tag = "waiting"
    <3>1. Sound(reset_for_next_hand(k)) /\ reset_for_next_hand(k).phase = Waiting
      BY <1>4, <2>1, ResetSound
    <3>2. Sound(c) /\ c.phase = Waiting
      BY <1>7, <3>1
    <3>3. QED
      BY <3>2 DEF Sound, Solid, Waiting
  <2>3. table' = c
    BY <1>3, <2>2, NothingToNormalize
  <2>4. \A j \in Seats : c.seats[j] = reset_seat(k, j)
    <3>1. k.seats \in [Seats -> SeatRecords]
      BY <1>4, SumsOf
    <3>2. QED
      BY <1>4, <1>7 DEF reset_for_next_hand, Tables
  <2>5. \A j \in Seats : c.seats[j].stack \in Nat
    BY <2>2, SumsOf, SeatFields
  <2>6. \A j \in Seats : c.seats[j].stack <= k.seats[j].stack + k.seats[j].addon
    BY <1>4, <2>4, ResetGainsNothing
  <2> HIDE DEF c
  <2>7. QED
    BY <1>5, <2>3, <2>5, <2>6 DEF Gains
<1>8. QED
  BY <1>4, <1>6, <1>7 DEF low_player_cascade, in_phase

\* A settlement that pays anybody pays the pot.
LEMMA SettleAtShowdown ==
  ASSUME AtRest(table), advance_deadline_showdown, Gains(table, table')
  PROVE  Surplus(table') = Surplus(table)
<1>1. PICK boards \in {<<r>> : r \in Rankings} \cup (Rankings \X Rankings) : table' = settle_hand(table, boards)
  BY DEF advance_deadline_showdown
<1> DEFINE e == Paid(table, boards)
           p == PlanFor(table, boards)
           a == SumFunction(p.awards)
<1>2. table' = reset_for_next_hand(e)
  BY <1>1 DEF settle_hand, Paid, PlanFor
<1>3. /\ Solid(table) /\ table.pot = Totals(table) /\ table \in Tables /\ NoBets(table) /\ Vacated(table)
      /\ table.pot \in Nat /\ table.chip_pool \in Int
  BY DEF AtRest, Sound, Solid, Tables, Quiet, advance_deadline_showdown, settleable, in_phase
<1>4. /\ e \in Tables /\ p.awards \in [Seats -> Nat] /\ p.rake \in Nat /\ a \in Nat
      /\ (\E i \in Seats : p.awards[i] > 0) => a + p.rake = table.pot
      /\ \A i \in Seats : table.seats[i].kind = "departed" \/ table.seats[i].total = 0 => p.awards[i] = 0
      /\ Worth(e) = Worth(table) + a
      /\ e.pot = 0 /\ e.chip_pool = table.chip_pool - p.rake
      /\ \A i \in Seats : /\ e.seats[i].stack = table.seats[i].stack + p.awards[i]
                          /\ e.seats[i].addon = table.seats[i].addon /\ e.seats[i].bet = table.seats[i].bet
                          /\ e.seats[i].kind = table.seats[i].kind
  BY <1>3, PaidIs
<1> HIDE DEF e, p
<1>5. NoBets(e)
  BY <1>3, <1>4 DEF NoBets
<1>6. NoStrays(e)
  <2>1. SUFFICES ASSUME NEW i \in Seats, e.seats[i].kind \in {"vacant", "departed"}
                 PROVE  worth(e.seats[i]) = 0
    BY DEF NoStrays
  <2>2. table.seats[i].kind \in {"vacant", "departed"} /\ worth(table.seats[i]) = 0
    BY <1>3, <1>4, <2>1 DEF Vacated
  <2>3. p.awards[i] = 0
    BY <1>3, <1>4, <2>2 DEF Vacated
  <2>4. table.seats[i].stack \in Nat
    BY <1>3, SumsOf, SeatFields
  <2>5. QED
    BY <1>4, <2>2, <2>3, <2>4 DEF worth
<1>7. /\ Surplus(table') = Surplus(e) + e.pot
      /\ \A i \in Seats : table'.seats[i] = reset_seat(e, i)
  BY <1>2, <1>4, <1>5, <1>6, ResetExact
<1>8. PICK i \in Seats : table'.seats[i].stack > table.seats[i].stack + table.seats[i].addon
  BY DEF Gains
<1>9. p.awards[i] > 0
  <2>1. reset_seat(e, i).stack <= e.seats[i].stack + e.seats[i].addon
    BY <1>4, ResetGainsNothing
  <2>2. reset_seat(e, i).stack \in Nat
    BY <1>4, ResetSeat, SeatFields
  <2>3. table.seats[i].stack \in Nat /\ table.seats[i].addon \in Nat /\ p.awards[i] \in Nat
    BY <1>3, <1>4, SumsOf, SeatFields
  <2>4. QED
    BY <1>4, <1>7, <1>8, <2>1, <2>2, <2>3
<1>10. a + p.rake = table.pot
  BY <1>4, <1>9
<1>11. Worth(table) \in Nat
  BY <1>3, SumsOf
<1> HIDE DEF a
<1>12. QED
  BY <1>3, <1>4, <1>7, <1>10, <1>11 DEF Surplus

LEMMA ShowdownSteps ==
  ASSUME AtRest(table), in_phase(table, "showdown"), Next, Gains(table, table')
  PROVE  Surplus(table') = Surplus(table)
<1>1. /\ table.phase.tag = "showdown" /\ round_state(table) # WAITING
      /\ current_turn(table) = NO_SEAT /\ current_shuffler(table) = NO_SEAT
      /\ ~in_phase(table, "revealing") /\ ~in_phase(table, "reconstructing")
  BY DEF in_phase, round_state, current_turn, current_shuffler, WAITING, SHOWDOWN
<1>2. NO_SEAT \notin Seats /\ Kickable \subseteq Seats /\ Leavers \subseteq Seats /\ FundAmounts \subseteq Nat
  BY SeatsFinite, TableAssumption
<1>3. table \in Tables /\ table.seats \in [Seats -> SeatRecords]
  BY DEF AtRest, Sound, Solid, Tables
<1>4. ~\E buy_in \in BuyIns : join_table(buy_in)
  BY <1>1 DEF join_table
<1>5. ~\E i \in Seats : leave_table(i)
  BY <1>1 DEF leave_table
<1>6. ~start_hand
  BY <1>1 DEF start_hand
<1>7. \A i \in Seats : ~submit_shuffle_v2(i) /\ ~submit_player_reveal_tokens(i) /\ ~submit_reconstruct_deck(i)
  BY <1>1, <1>2 DEF submit_shuffle_v2, submit_player_reveal_tokens, submit_reconstruct_deck
<1>8. \A i \in Seats : /\ ~fold(i) /\ ~fold_with_proof(i) /\ ~match_bet(i)
                       /\ \A total_bet : ~raise_to(i, total_bet)
  BY <1>1, <1>2 DEF fold, fold_with_proof, match_bet, raise_to
<1>9. CASE \E i \in Seats, amount \in FundAmounts : addon(i, amount)
  BY <1>2, <1>9, AddonAtShowdown
<1>10. CASE \E i \in Seats, amount \in FundAmounts : rebuy(i, amount)
  BY <1>2, <1>10, RebuyAtShowdown
<1>11. CASE \E i \in Leavers, want_leave \in BOOLEAN : set_leave_after_hand(i, want_leave)
  <2>1. PICK i \in Leavers, want_leave \in BOOLEAN : set_leave_after_hand(i, want_leave)
    BY <1>11
  <2> DEFINE u == [table EXCEPT !.leave = IF want_leave THEN @ \cup {i} ELSE @ \ {i}]
  <2>2. table' = kept(u, normalize_until_blocked(u))
    BY <2>1 DEF set_leave_after_hand, dispatch
  <2>3. u \in Tables /\ u.phase = table.phase /\ u.seats = table.seats
    BY <1>2, <1>3 DEF Tables
  <2> HIDE DEF u
  <2>4. table' = u
    BY <1>1, <2>2, <2>3, NothingToNormalize
  <2>5. \A j \in Seats : table.seats[j].stack \in Nat /\ table.seats[j].addon \in Nat
    BY <1>3, SeatFields
  <2>6. QED
    BY <2>3, <2>4, <2>5 DEF Gains
<1>12. CASE \E i \in Kickable : kick_player(i)
  BY <1>2, <1>12, KickAtShowdown
<1>13. ~advance_deadline
  <2>1. normalize_until_blocked(table) = table \/ is_error(normalize_until_blocked(table))
    BY <1>1, <1>3, NothingToNormalize
  <2>2. is_error(on_timeout(normalize_until_blocked(table)))
    BY <1>1, <2>1 DEF on_timeout, in_phase, is_error, failed
  <2>3. is_error(on_deadline(table))
    BY <2>2 DEF on_deadline, normalized
  <2>4. QED
    BY <2>3 DEF advance_deadline, kept
<1>14. CASE advance_deadline_showdown
  BY <1>14, SettleAtShowdown
<1>15. QED
  BY <1>4, <1>5, <1>6, <1>7, <1>8, <1>9, <1>10, <1>11, <1>12, <1>13, <1>14 DEF Next

\* A showdown that pays anybody pays the whole pot, to the seats and the rake:
\* the plan is exact (PlanPays), it pays nobody who is gone, and the reset that
\* follows keeps every chip that is not in the pot.
THEOREM ShowdownPays == Spec => SettlementPaysOut
<1> DEFINE A == in_phase(table, "showdown")
                /\ (\E i \in Seats : table'.seats[i].stack > table.seats[i].stack + table.seats[i].addon)
                  => slack(table') = slack(table)
<1>1. AtRest(table) /\ AtRest(table)' /\ [Next]_table => [A]_table
  <2>1. SUFFICES ASSUME AtRest(table), AtRest(table'), Next, in_phase(table, "showdown"), Gains(table, table')
                 PROVE  slack(table') = slack(table)
    BY DEF Gains
  <2>2. table \in Tables /\ table' \in Tables
    BY <2>1 DEF AtRest, Sound, Solid
  <2>3. Surplus(table') = Surplus(table)
    BY <2>1, ShowdownSteps
  <2>4. QED
    BY <2>2, <2>3, SlackIs
<1>2. QED
  BY <1>1, TableInvariant, PTL DEF Spec, SettlementPaysOut

-----------------------------------------------------------------------------
(* The course of a hand.                                                   *)

\* Once a second board is dealt nobody bets any more: maybe_trigger_run_it_twice
\* is only reached with at most one seat that could still bet, and no street,
\* timeout or kick after it opens a betting round.
THEOREM RitNeverBets == Spec => []RitNoMoreBetting
<1>1. Steady(table) => RitNoMoreBetting
  BY DEF Steady, Regular, Loose, Twice, RitNoMoreBetting, in_phase
<1>2. QED
  BY <1>1, SteadyInvariant, PTL

\* In a betting round the turn is always with a seat that can act and owes a
\* decision, whoever folds, is kicked, goes all-in or times out: advance_turn
\* never hands it to a seat that has nothing to decide.
THEOREM TurnOwes == Spec => []TurnOwesDecision
<1>1. Steady(table) => TurnOwesDecision
  <2>1. SUFFICES ASSUME Steady(table), in_phase(table, "betting")
                 PROVE  /\ current_turn(table) \in actionable_seats(table)
                        /\ \/ current_turn(table) \notin table.acted
                           \/ table.seats[current_turn(table)].bet < table.phase.current_bet
    BY DEF TurnOwesDecision
  <2>2. Asked(table) /\ table.phase.turn # NO_SEAT
    BY <2>1 DEF Steady, Regular, Loose, Round, Played, in_phase
  <2>3. current_turn(table) \in Owing(table)
    BY <2>1, <2>2 DEF Asked, current_turn
  <2>4. QED
    BY <2>3 DEF Owing
<1>2. QED
  BY <1>1, SteadyInvariant, PTL

\* No street is dealt and no hand is shown before the betting is settled:
\* whoever still has chips has put in as much as any other player, a big blind
\* ante aside (is_betting_complete and no_further_betting_possible decide it).
THEOREM BettingIsClosed == Spec => []BettingClosedProperly
<1>1. Steady(table) => BettingClosedProperly
  <2>1. SUFFICES ASSUME Steady(table),
                        \/ in_phase(table, "revealing") /\ table.phase.purpose # "hole"
                        \/ in_phase(table, "showdown"),
                        NEW i \in actionable_seats(table), NEW j \in live_seats(table)
                 PROVE  table.seats[j].total <= table.seats[i].total + Margin
    BY DEF BettingClosedProperly, Margin
  <2>2. Level(table)
    BY <2>1 DEF Steady, Regular, Loose, Closed, Dealing, in_phase
  <2>3. QED
    BY <2>2 DEF Level
<1>2. QED
  BY <1>1, SteadyInvariant, PTL

\* Commands and deadlines between hands and in betting rounds neither lose nor
\* make chips: whatever streets, showdowns and ends of hands a command brings
\* about in its normalization, the vault's surplus over the chips of the table
\* stays the same.
THEOREM CustodyIsKept == Spec => CustodyKept
<1> DEFINE Inv == AtRest(table) /\ Settled(table) /\ Steady(table)
           Kept == table.phase.tag \in {"waiting", "betting"} => slack(table') = slack(table)
<1>1. Inv /\ [Next]_table => [Kept]_table
  <2>1. SUFFICES ASSUME AtRest(table), Settled(table), Steady(table), [Next]_table,
                        table.phase.tag \in {"waiting", "betting"}
                 PROVE  slack(table') = slack(table)
    OBVIOUS
  <2>2. Keeps(table, table')
    BY <2>1, NextRuns, BuyInAssumption DEF Runs
  <2>3. Surplus(table') = Surplus(table) /\ table \in Tables /\ table' \in Tables
    BY <2>1, <2>2 DEF Keeps, AtRest, Sound, Solid
  <2>4. QED
    BY <2>3, SlackIs
<1>2. QED
  BY <1>1, SteadyInvariant, PTL DEF Spec, CustodyKept
=============================================================================
