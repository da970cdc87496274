------------------------ MODULE SettlementPlanProofs ------------------------
(***************************************************************************)
(* Proofs about the settlement of a showdown, for any table size, rake,    *)
(* contributions, boards and rankings: side_pot.rs and settlement.rs pay   *)
(* out exactly what was put in.                                            *)
(***************************************************************************)
EXTENDS SettlementPlan, FiniteSums, SequenceTheorems, TLAPS

-----------------------------------------------------------------------------
(* Arithmetic.                                                             *)

\* The smaller and the larger of two numbers.
LEMMA MinPair ==
  ASSUME NEW a \in Int, NEW b \in Int
  PROVE  Min({a, b}) = IF a <= b THEN a ELSE b
<1>1. \E x \in {a, b} : \A y \in {a, b} : x <= y
  OBVIOUS
<1>2. Min({a, b}) \in {a, b} /\ \A y \in {a, b} : Min({a, b}) <= y
  BY <1>1 DEF Min
<1>3. QED
  BY <1>2

\* The largest member of a finite set of numbers.
LEMMA MaxIs ==
  ASSUME NEW S \in SUBSET Nat, IsFiniteSet(S), S # {}
  PROVE  Max(S) \in S /\ \A y \in S : y <= Max(S)
<1>1. PICK m \in S : \A y \in S : y <= m
  BY FiniteMaximum
<1>2. \A y \in S : m >= y
  BY <1>1
<1>3. QED
  BY <1>2 DEF Max

\* Quotient and remainder.
LEMMA DivMod ==
  ASSUME NEW a \in Nat, NEW n \in Nat, n > 0
  PROVE  /\ a \div n \in Nat /\ a % n \in 0..n - 1
         /\ a = n * (a \div n) + (a % n)
BY SMT

\* The seats are numbered 0 to MaxPlayers - 1.
LEMMA SeatsFinite ==
  /\ IsFiniteSet(Seats) /\ Seats # {} /\ Seats \subseteq Nat
  /\ Cardinality(Seats) \in 2..9 /\ Cardinality(Seats) = MaxPlayers
<1>1. MaxPlayers \in 2..9
  BY SidePotsAssumption
<1>2. IsFiniteSet(0..MaxPlayers - 1) /\ Cardinality(0..MaxPlayers - 1) = MaxPlayers
  BY <1>1, FS_Interval
<1>3. 0 \in 0..MaxPlayers - 1 /\ 0..MaxPlayers - 1 \subseteq Nat
  BY <1>1
<1>4. QED
  BY <1>1, <1>2, <1>3 DEF Seats

\* Walking clockwise, two seats are at different distances.
LEMMA ClockwiseInjective ==
  ASSUME NEW from \in Seats
  PROVE  /\ \A i \in Seats : Clockwise(from, i) \in Int
         /\ \A i, j \in Seats : Clockwise(from, i) = Clockwise(from, j) => i = j
<1>1. MaxPlayers \in 2..9
  BY SidePotsAssumption
<1>2. \A x \in Int : x >= 0 /\ x < 2 * MaxPlayers =>
         x % MaxPlayers = IF x < MaxPlayers THEN x ELSE x - MaxPlayers
  <2>1. \A m \in 2..9 : \A x \in Int : x >= 0 /\ x < 2 * m => x % m = IF x < m THEN x ELSE x - m
    BY SMT
  <2>2. QED
    BY <1>1, <2>1
<1>3. QED
  BY <1>1, <1>2 DEF Clockwise, Seats

-----------------------------------------------------------------------------
(* The levels at which the contributions are cut.                          *)

\* The largest contribution.
Top(bets) == Max(Range(bets))

\* The set whose ascending order the levels are.
LevelSet(bets, all_in) == ({bets[j] : j \in all_in} \cup {Top(bets)}) \ {0}

LEMMA TopIs ==
  ASSUME NEW bets \in [Seats -> Nat]
  PROVE  /\ Top(bets) \in Nat /\ \A j \in Seats : bets[j] <= Top(bets)
         /\ Top(bets) \in Range(bets) /\ IsFiniteSet(Range(bets)) /\ Range(bets) \subseteq Nat
<1>1. bets \in Surjection(Seats, Range(bets))
  BY DEF Surjection, Range
<1>2. IsFiniteSet(Range(bets))
  BY <1>1, SeatsFinite, FS_Surjection
<1>3. Range(bets) \in SUBSET Nat /\ Range(bets) # {} /\ \A j \in Seats : bets[j] \in Range(bets)
  BY SeatsFinite DEF Range
<1>4. Max(Range(bets)) \in Range(bets) /\ \A y \in Range(bets) : y <= Max(Range(bets))
  BY <1>2, <1>3, MaxIs
<1>5. QED
  BY <1>2, <1>3, <1>4 DEF Top

LEMMA LevelSetIs ==
  ASSUME NEW bets \in [Seats -> Nat], NEW all_in \in SUBSET Seats
  PROVE  LET L == LevelSet(bets, all_in)
         IN  /\ L \subseteq Nat \ {0} /\ IsFiniteSet(L) /\ Cardinality(L) \in Nat
             /\ \A x \in L : x <= Top(bets)
             /\ Top(bets) # 0 => Top(bets) \in L
             /\ Top(bets) = 0 => L = {}
<1> DEFINE L == LevelSet(bets, all_in)
<1>1. /\ Top(bets) \in Nat /\ \A j \in Seats : bets[j] \in Nat /\ bets[j] <= Top(bets)
      /\ Top(bets) \in Range(bets) /\ IsFiniteSet(Range(bets))
  BY TopIs
<1>2. L \in SUBSET Range(bets)
  BY <1>1 DEF LevelSet, Range
<1>3. IsFiniteSet(L)
  BY <1>1, <1>2, FS_Subset
<1>4. \A x \in L : x \in Nat \ {0} /\ x <= Top(bets)
  BY <1>1 DEF LevelSet
<1>5. Top(bets) # 0 => Top(bets) \in L
  BY DEF LevelSet
<1>6. Top(bets) = 0 => L = {}
  BY <1>1, <1>4
<1>7. Cardinality(L) \in Nat
  BY <1>3, FS_CardinalityType
<1>8. QED
  BY <1>3, <1>4, <1>5, <1>6, <1>7

\* The levels ascend from above zero to the largest contribution.
LEMMA LevelsAscend ==
  ASSUME NEW bets \in [Seats -> Nat], NEW all_in \in SUBSET Seats
  PROVE  LET lv == levels(bets, all_in)
         IN  /\ Len(lv) \in Nat /\ lv \in [1..Len(lv) -> Nat]
             /\ \A k \in 1..Len(lv) : lv[k] \in LevelSet(bets, all_in) /\ lv[k] > 0
             /\ \A j, k \in 1..Len(lv) : j < k => lv[j] < lv[k]
             /\ \A x \in LevelSet(bets, all_in) : \E k \in 1..Len(lv) : lv[k] = x
             /\ Len(lv) > 0 => lv[Len(lv)] = Top(bets)
             /\ Len(lv) = 0 => Top(bets) = 0
<1> DEFINE L == LevelSet(bets, all_in)
           n == Cardinality(L)
           id == [x \in L |-> x]
           lv == levels(bets, all_in)
<1>1. /\ L \subseteq Nat \ {0} /\ IsFiniteSet(L) /\ n \in Nat
      /\ \A x \in L : x <= Top(bets)
      /\ Top(bets) # 0 => Top(bets) \in L
      /\ Top(bets) = 0 => L = {}
      /\ Top(bets) \in Nat
  BY LevelSetIs, TopIs
<1> DEFINE r(x) == Cardinality({y \in L : y < x})
<1>2. /\ \A x \in L : r(x) \in 0..n - 1
      /\ \A x, y \in L : x < y => r(x) < r(y)
      /\ \A k \in 0..n - 1 : \E x \in L : r(x) = k
  <2>1. id \in [L -> Int] /\ \A x, y \in L : id[x] = id[y] => x = y
    BY <1>1
  <2>2. /\ \A x \in L : Rank(L, id, x) \in 0..n - 1
        /\ \A x, y \in L : id[x] < id[y] => Rank(L, id, x) < Rank(L, id, y)
        /\ \A k \in 0..n - 1 : \E x \in L : Rank(L, id, x) = k
    <3> HIDE DEF id, L
    <3>1. QED
      BY <1>1, <2>1, Ranks DEF n
  <2>3. \A x \in L : Rank(L, id, x) = r(x)
    <3>1. \A x \in L : {y \in L : id[y] < id[x]} = {y \in L : y < x}
      OBVIOUS
    <3>2. QED
      BY <3>1 DEF Rank
  <2>4. \A x \in L : id[x] = x
    OBVIOUS
  <2> HIDE DEF id, L, r
  <2>5. QED
    BY <2>2, <2>3, <2>4
<1>3. lv = [k \in 1..n |-> CHOOSE x \in L : r(x) = k - 1]
  BY DEF levels, LevelSet, Top
<1> HIDE DEF r, L, lv, n
<1>4. \A k \in 1..n : lv[k] \in L /\ r(lv[k]) = k - 1
  <2> SUFFICES ASSUME NEW k \in 1..n PROVE lv[k] \in L /\ r(lv[k]) = k - 1
    OBVIOUS
  <2>1. k - 1 \in 0..n - 1
    BY <1>1
  <2>2. \E x \in L : r(x) = k - 1
    BY <1>2, <2>1
  <2>3. lv[k] = CHOOSE x \in L : r(x) = k - 1
    BY <1>3
  <2>4. QED
    BY <2>2, <2>3
<1>5. lv \in [1..n -> Nat]
  BY <1>1, <1>3, <1>4
<1>6. Len(lv) = n
  <2>1. lv \in Seq(Nat)
    BY <1>1, <1>5, SeqDef
  <2>2. QED
    BY <1>1, <1>5, <2>1, LenProperties
<1>7. ASSUME NEW j \in 1..n, NEW k \in 1..n, j < k
      PROVE  lv[j] < lv[k]
  <2>1. lv[j] \in L /\ lv[k] \in L /\ r(lv[j]) < r(lv[k]) /\ r(lv[j]) \in Nat /\ r(lv[k]) \in Nat
    BY <1>1, <1>4, <1>7
  <2>2. lv[j] # lv[k] /\ ~(lv[k] < lv[j])
    BY <1>2, <2>1
  <2>3. lv[j] \in Nat /\ lv[k] \in Nat
    BY <1>1, <2>1
  <2>4. QED
    BY <2>2, <2>3
<1>8. ASSUME n > 0
      PROVE  lv[n] = Top(bets)
  <2>1. n \in 1..n
    BY <1>1, <1>8
  <2>2. lv[n] \in L /\ r(lv[n]) = n - 1 /\ lv[n] \in Nat
    BY <1>1, <1>4, <2>1
  <2>3. Top(bets) \in L /\ lv[n] <= Top(bets)
    BY <1>1, <2>2
  <2>4. r(Top(bets)) \in 0..n - 1
    BY <1>2, <2>3
  <2>5. ~(lv[n] < Top(bets))
    BY <1>1, <1>2, <2>2, <2>3, <2>4
  <2>6. QED
    BY <1>1, <2>2, <2>3, <2>5
<1>9. n = 0 => Top(bets) = 0
  <2>1. n = 0 => L = {}
    BY <1>1, FS_EmptySet DEF n
  <2>2. QED
    BY <1>1, <2>1
<1>10. \A k \in 1..n : lv[k] > 0
  <2>1. \A x \in L : x > 0
    BY <1>1
  <2>2. QED
    BY <1>4, <2>1
<1>11. ASSUME NEW x \in L PROVE \E k \in 1..n : lv[k] = x
  <2> DEFINE k == r(x) + 1
  <2>1. r(x) \in 0..n - 1
    BY <1>2
  <2>2. k \in 1..n /\ k - 1 = r(x)
    BY <1>1, <2>1
  <2> HIDE DEF k
  <2>3. lv[k] \in L /\ r(lv[k]) = r(x)
    BY <1>4, <2>2
  <2>4. \A y, z \in L : r(y) = r(z) => ~(y < z)
    BY <1>2
  <2>5. lv[k] = x
    <3>1. ~(lv[k] < x) /\ ~(x < lv[k])
      BY <2>3, <2>4
    <3>2. x \in Nat /\ lv[k] \in Nat
      BY <1>1, <2>3
    <3>3. QED
      BY <3>1, <3>2
  <2>6. QED
    BY <2>2, <2>5
<1>12. QED
  BY <1>1, <1>4, <1>5, <1>6, <1>7, <1>8, <1>9, <1>10, <1>11 DEF lv, L

-----------------------------------------------------------------------------
(* The layers.                                                             *)

Layer == [amount : Nat, eligible : SUBSET Seats]

\* What is put in up to a level.
Below(bets, level) == SumFunction([j \in Seats |-> Min({bets[j], level})])

\* What a sequence of layers holds.
Held(pots) == SumFunction([k \in DOMAIN pots |-> pots[k].amount])

LEMMA BelowIs ==
  ASSUME NEW bets \in [Seats -> Nat]
  PROVE  /\ \A c \in Nat : Below(bets, c) \in Nat
         /\ Below(bets, 0) = 0
         /\ Below(bets, Top(bets)) = SumFunction(bets)
<1>1. \A j \in Seats, c \in Nat : Min({bets[j], c}) = IF bets[j] <= c THEN bets[j] ELSE c
  BY MinPair
<1>2. ASSUME NEW c \in Nat PROVE Below(bets, c) \in Nat
  <2>1. [j \in Seats |-> Min({bets[j], c})] \in [Seats -> Nat]
    BY <1>1
  <2>2. QED
    BY <2>1, SeatsFinite, SumFunctionType DEF Below
<1>3. Below(bets, 0) = 0
  <2>1. [j \in Seats |-> Min({bets[j], 0})] = [j \in Seats |-> 0]
    BY <1>1
  <2>2. QED
    BY <2>1, SeatsFinite, SumFunctionZero DEF Below
<1>4. Below(bets, Top(bets)) = SumFunction(bets)
  <2>1. [j \in Seats |-> Min({bets[j], Top(bets)})] = bets
    BY <1>1, TopIs
  <2>2. QED
    BY <2>1 DEF Below
<1>5. QED
  BY <1>2, <1>3, <1>4

\* A layer holds what is put in between its levels.
LEMMA SliceLayer ==
  ASSUME NEW bets \in [Seats -> Nat], NEW folded, NEW prev \in Nat, NEW level \in Nat,
         prev <= level
  PROVE  LET s == slice_layer(bets, folded, prev, level)
         IN  /\ s \in Layer
             /\ Below(bets, level) = Below(bets, prev) + s.amount
             /\ \A j : j \in s.eligible <=> j \in Seats /\ bets[j] > prev /\ j \notin folded
<1> DEFINE lo == [j \in Seats |-> Min({bets[j], prev})]
           hi == [j \in Seats |-> Min({bets[j], level})]
           d == [j \in Seats |->
                   IF bets[j] > prev THEN Min({bets[j], level}) - prev ELSE 0]
<1>1. \A j \in Seats, c \in Nat : Min({bets[j], c}) = IF bets[j] <= c THEN bets[j] ELSE c
  BY MinPair
<1>2. lo \in [Seats -> Nat] /\ hi \in [Seats -> Nat] /\ d \in [Seats -> Nat]
  BY <1>1
<1>3. \A j \in Seats : hi[j] = lo[j] + d[j]
  BY <1>1
<1>4. Below(bets, level) = SumFunction(hi) /\ Below(bets, prev) = SumFunction(lo)
  BY DEF Below
<1>5. slice_layer(bets, folded, prev, level)
        = [amount |-> SumFunction(d),
           eligible |-> {j \in Seats : bets[j] > prev /\ j \notin folded}]
  BY DEF slice_layer
<1> HIDE DEF lo, hi, d
<1>6. SumFunction(hi) = SumFunction(lo) + SumFunction(d)
  <2>1. lo \in [Seats -> Int] /\ hi \in [Seats -> Int] /\ d \in [Seats -> Int]
    BY <1>2
  <2>2. IsFiniteSet(Seats)
    BY SeatsFinite
  <2>3. QED
    BY <1>3, <2>1, <2>2, SumFunctionPlus
<1>7. SumFunction(d) \in Nat
  BY <1>2, SeatsFinite, SumFunctionType
<1>8. QED
  BY <1>4, <1>5, <1>6, <1>7 DEF Layer

\* The number held by a sequence of layers.
LEMMA HeldType ==
  ASSUME NEW pots \in Seq(Layer)
  PROVE  /\ Len(pots) \in Nat /\ DOMAIN pots = 1..Len(pots) /\ IsFiniteSet(DOMAIN pots)
         /\ [k \in DOMAIN pots |-> pots[k].amount] \in [1..Len(pots) -> Nat]
         /\ \A k \in 1..Len(pots) : pots[k] \in Layer /\ pots[k].amount \in Nat
                                    /\ pots[k].eligible \subseteq Seats
         /\ Held(pots) \in Nat
<1>1. Len(pots) \in Nat /\ DOMAIN pots = 1..Len(pots)
  BY LenProperties
<1>2. IsFiniteSet(1..Len(pots))
  BY <1>1, FS_Interval
<1>3. \A k \in 1..Len(pots) : pots[k] \in Layer /\ pots[k].amount \in Nat
                              /\ pots[k].eligible \subseteq Seats
  <2>1. \A k \in 1..Len(pots) : pots[k] \in Layer
    BY <1>1, ElementOfSeq
  <2>2. \A p \in Layer : p.amount \in Nat /\ p.eligible \subseteq Seats
    BY DEF Layer
  <2>3. QED
    BY <2>1, <2>2
<1>4. [k \in DOMAIN pots |-> pots[k].amount] \in [1..Len(pots) -> Nat]
  BY <1>1, <1>3
<1>5. Held(pots) \in Nat
  BY <1>2, <1>4, SumFunctionType DEF Held
<1>6. QED
  BY <1>1, <1>2, <1>3, <1>4, <1>5

\* A layer to which an amount is added.
LEMMA AddToLayer ==
  ASSUME NEW p \in Layer, NEW x \in Nat
  PROVE  LET q == [p EXCEPT !.amount = @ + x]
         IN  q \in Layer /\ q.amount = p.amount + x /\ q.eligible = p.eligible
<1>1. PICK a \in Nat, E \in SUBSET Seats : p = [amount |-> a, eligible |-> E]
  <2>1. p = [amount |-> p.amount, eligible |-> p.eligible]
        /\ p.amount \in Nat /\ p.eligible \in SUBSET Seats
    BY DEF Layer
  <2>2. QED
    BY <2>1
<1>2. [p EXCEPT !.amount = @ + x] = [amount |-> a + x, eligible |-> E]
  BY <1>1
<1>3. a + x \in Nat
  OBVIOUS
<1>4. QED
  BY <1>1, <1>2, <1>3 DEF Layer

\* Recording a layer leaves the sequence alone, adds to its last layer or
\* appends the layer.
LEMMA RecordShape ==
  ASSUME NEW pots \in Seq(Layer), NEW layer \in Layer
  PROVE  LET new == record_layer(pots, layer)
             n == Len(pots)
         IN  /\ new \in Seq(Layer)
             /\ layer.amount = 0 => new = pots
             /\ layer.amount # 0 /\ layer.eligible = {} /\ pots # <<>> =>
                  /\ n \in 1..n /\ Len(new) = n
                  /\ \A k \in 1..n : k # n => new[k] = pots[k]
                  /\ new[n].amount = pots[n].amount + layer.amount
                  /\ \A k \in 1..n : new[k].eligible = pots[k].eligible
             /\ layer.amount # 0 /\ ~(layer.eligible = {} /\ pots # <<>>) =>
                  /\ Len(new) = n + 1 /\ new[n + 1] = layer
                  /\ \A k \in 1..n : new[k] = pots[k]
<1> DEFINE new == record_layer(pots, layer)
           n == Len(pots)
<1>1. n \in Nat /\ DOMAIN pots = 1..n /\ \A k \in 1..n : pots[k] \in Layer
  BY HeldType
<1>2. layer.amount \in Nat
  BY DEF Layer
<1>3. CASE layer.amount = 0
  BY <1>3 DEF record_layer
<1>4. CASE layer.amount # 0 /\ layer.eligible = {} /\ pots # <<>>
  <2>1. new = [pots EXCEPT ![n].amount = @ + layer.amount]
    BY <1>4 DEF record_layer
  <2>2. n \in 1..n
    BY <1>1, <1>4, EmptySeq
  <2>3. pots[n] \in Layer
    BY <1>1, <2>2
  <2>4. [pots[n] EXCEPT !.amount = @ + layer.amount] \in Layer
    BY <1>2, <2>3, AddToLayer
  <2>5. /\ DOMAIN new = 1..n /\ new[n] = [pots[n] EXCEPT !.amount = @ + layer.amount]
        /\ \A k \in 1..n : k # n => new[k] = pots[k]
    BY <1>1, <2>1, <2>2
  <2>6. new[n].amount = pots[n].amount + layer.amount /\ new[n].eligible = pots[n].eligible
    BY <1>2, <2>3, <2>5, AddToLayer
  <2> HIDE DEF new
  <2>7. new \in [1..n -> Layer]
    <3>1. \A k \in 1..n : new[k] \in Layer
      BY <1>1, <2>4, <2>5
    <3>2. new = [k \in 1..n |-> new[k]]
      BY <1>1, <2>1
    <3>3. QED
      BY <3>1, <3>2
  <2>8. new \in Seq(Layer) /\ Len(new) = n
    BY <1>1, <2>7, SeqDef, LenProperties
  <2>9. \A k \in 1..n : new[k].eligible = pots[k].eligible
    BY <2>5, <2>6
  <2>10. QED
    BY <1>4, <2>2, <2>5, <2>6, <2>8, <2>9 DEF new
<1>5. CASE layer.amount # 0 /\ ~(layer.eligible = {} /\ pots # <<>>)
  <2>1. new = Append(pots, layer)
    BY <1>5 DEF record_layer
  <2>2. /\ new \in Seq(Layer) /\ Len(new) = n + 1 /\ new[n + 1] = layer
        /\ \A k \in 1..n : new[k] = pots[k]
    BY <2>1, AppendProperties, LenProperties
  <2>3. QED
    BY <1>5, <2>2
<1>6. QED
  BY <1>3, <1>4, <1>5

\* Recording a layer adds what it holds; with somebody to win the first one, there
\* is somebody to win every one, and nobody else than before and in the layer.
LEMMA RecordLayer ==
  ASSUME NEW pots \in Seq(Layer), NEW layer \in Layer
  PROVE  LET new == record_layer(pots, layer)
         IN  /\ new \in Seq(Layer)
             /\ Held(new) = Held(pots) + layer.amount
             /\ pots # <<>> \/ layer.amount > 0 => new # <<>>
             /\ (/\ \A k \in 1..Len(pots) : pots[k].eligible # {}
                 /\ pots # <<>> \/ layer.eligible # {})
                  => \A k \in 1..Len(new) : new[k].eligible # {}
             /\ \A i : (/\ \A k \in 1..Len(pots) : i \notin pots[k].eligible
                        /\ i \notin layer.eligible)
                         => \A k \in 1..Len(new) : i \notin new[k].eligible
<1> DEFINE new == record_layer(pots, layer)
           n == Len(pots)
           f == [k \in DOMAIN pots |-> pots[k].amount]
           g == [k \in DOMAIN new |-> new[k].amount]
<1>1. /\ n \in Nat /\ DOMAIN pots = 1..n /\ f \in [1..n -> Nat]
      /\ \A k \in 1..n : pots[k] \in Layer /\ pots[k].amount \in Nat
      /\ Held(pots) \in Nat
  BY HeldType
<1>2. layer.amount \in Nat /\ layer.eligible \in SUBSET Seats
  BY DEF Layer
<1>3. Held(pots) = SumFunction(f) /\ Held(new) = SumFunction(g)
  BY DEF Held
<1>4. CASE layer.amount = 0
  <2>1. new = pots
    BY <1>4, RecordShape
  <2>2. QED
    BY <1>1, <1>4, <2>1
<1>5. CASE layer.amount # 0 /\ layer.eligible = {} /\ pots # <<>>
  <2>1. /\ n \in 1..n /\ new \in Seq(Layer) /\ Len(new) = n
        /\ \A k \in 1..n : k # n => new[k] = pots[k]
        /\ new[n].amount = pots[n].amount + layer.amount
        /\ \A k \in 1..n : new[k].eligible = pots[k].eligible
    BY <1>5, RecordShape
  <2> HIDE DEF new
  <2>2. g \in [1..n -> Nat] /\ DOMAIN new = 1..n
    BY <2>1, HeldType
  <2>3. (\A k \in 1..n : k # n => g[k] = f[k]) /\ g[n] = f[n] + layer.amount /\ f[n] \in Nat
    BY <1>1, <2>1, <2>2
  <2> HIDE DEF f, g
  <2>4. SumFunction(g) = SumFunction(f) - f[n] + g[n]
    <3>1. IsFiniteSet(1..n) /\ f \in [1..n -> Int] /\ g \in [1..n -> Int]
          /\ \A k \in (1..n) \ {n} : g[k] = f[k]
      <4>1. IsFiniteSet(1..n)
        BY <1>1, FS_Interval
      <4> HIDE DEF n
      <4>2. QED
        BY <1>1, <2>2, <2>3, <4>1
    <3>2. n \in 1..n
      BY <2>1
    <3> HIDE DEF n
    <3>3. QED
      BY <3>1, <3>2, SumFunctionUpdate
  <2>5. Held(new) = Held(pots) + layer.amount
    <3>1. SumFunction(f) \in Nat /\ layer.amount \in Nat /\ f[n] \in Nat
      BY <1>1, <1>2, <1>3, <2>3
    <3>2. g[n] = f[n] + layer.amount
      BY <2>3
    <3> HIDE DEF n
    <3>3. SumFunction(g) = SumFunction(f) + layer.amount
      BY <2>4, <3>1, <3>2
    <3>4. QED
      BY <1>3, <3>3
  <2>6. new # <<>>
    BY <1>1, <1>5, <2>1, EmptySeq
  <2>7. QED
    BY <2>1, <2>5, <2>6 DEF new
<1>6. CASE layer.amount # 0 /\ ~(layer.eligible = {} /\ pots # <<>>)
  <2>1. /\ new \in Seq(Layer) /\ Len(new) = n + 1 /\ new[n + 1] = layer
        /\ \A k \in 1..n : new[k] = pots[k]
    BY <1>6, RecordShape
  <2> HIDE DEF new
  <2>2. /\ g \in [1..n + 1 -> Nat] /\ g[n + 1] = layer.amount
        /\ \A k \in 1..n : g[k] = f[k]
    BY <1>1, <1>2, <2>1, LenProperties
  <2> HIDE DEF f, g
  <2>3. SumFunction(g) = SumFunction(f) + g[n + 1]
    <3>1. f \in [1..n -> Int] /\ g \in [1..n + 1 -> Int]
      BY <1>1, <2>2
    <3>2. QED
      BY <1>1, <2>2, <3>1, SumFunctionAppend
  <2>4. Held(new) = Held(pots) + layer.amount
    BY <1>3, <2>2, <2>3
  <2>5. (pots # <<>> \/ layer.eligible # {}) => layer.eligible # {}
    BY <1>6
  <2>6. new # <<>>
    BY <1>1, <2>1, EmptySeq
  <2>7. \A k \in 1..n + 1 : k = n + 1 \/ k \in 1..n
    BY <1>1
  <2>8. (/\ \A k \in 1..n : pots[k].eligible # {}
         /\ pots # <<>> \/ layer.eligible # {})
           => \A k \in 1..n + 1 : new[k].eligible # {}
    BY <2>1, <2>5, <2>7
  <2>9. \A i : (/\ \A k \in 1..n : i \notin pots[k].eligible
                /\ i \notin layer.eligible)
                 => \A k \in 1..n + 1 : i \notin new[k].eligible
    BY <2>1, <2>7
  <2>10. QED
    BY <2>1, <2>4, <2>6, <2>8, <2>9 DEF new
<1>7. QED
  BY <1>4, <1>5, <1>6

-----------------------------------------------------------------------------
(* The side pots.                                                          *)

\* f is the sequence of intermediate results of recording n layers.
Records(f, n, L) ==
  f = [k \in 0..n |-> IF k = 0 THEN <<>> ELSE record_layer(f[k - 1], L[k])]

LEMMA RecordsExist ==
  ASSUME NEW n \in Nat, NEW L
  PROVE  \E f : Records(f, n, L)
<1> DEFINE Bad == {m \in Nat : ~\E f : Records(f, m, L)}
<1>1. SUFFICES ASSUME Bad # {} PROVE FALSE
  OBVIOUS
<1>2. PICK m \in Bad : \A k \in Bad : m <= k
  <2>1. Bad \in SUBSET Nat
    OBVIOUS
  <2> HIDE DEF Bad
  <2>2. QED
    BY <1>1, <2>1, NatMinimum
<1>3. CASE m = 0
  <2> DEFINE f == [k \in 0..0 |-> <<>>]
  <2>1. f = [k \in 0..0 |-> IF k = 0 THEN <<>> ELSE record_layer(f[k - 1], L[k])]
    OBVIOUS
  <2>2. Records(f, 0, L)
    BY <2>1 DEF Records
  <2>3. QED
    BY <1>2, <1>3, <2>2
<1>4. CASE m # 0
  <2>1. m - 1 \in Nat /\ m - 1 \notin Bad
    BY <1>2, <1>4
  <2>2. PICK f : Records(f, m - 1, L)
    BY <2>1
  <2> DEFINE g == [k \in 0..m |-> IF k < m THEN f[k] ELSE record_layer(f[m - 1], L[m])]
  <2>3. \A k \in 0..m - 1 : f[k] = IF k = 0 THEN <<>> ELSE record_layer(f[k - 1], L[k])
    BY <2>2 DEF Records
  <2>4. \A k \in 0..m - 1 : g[k] = f[k]
    BY <2>1
  <2>5. \A k \in 0..m : g[k] = IF k = 0 THEN <<>> ELSE record_layer(g[k - 1], L[k])
    <3> SUFFICES ASSUME NEW k \in 0..m
                 PROVE  g[k] = IF k = 0 THEN <<>> ELSE record_layer(g[k - 1], L[k])
      OBVIOUS
    <3>1. CASE k = m
      <4>1. g[m] = record_layer(f[m - 1], L[m]) /\ m - 1 \in 0..m - 1
        BY <1>4, <2>1
      <4>2. g[m - 1] = f[m - 1]
        BY <2>4, <4>1
      <4> HIDE DEF g
      <4>3. QED
        BY <1>4, <3>1, <4>1, <4>2
    <3>2. CASE k # m
      <4>1. k \in 0..m - 1 /\ (k # 0 => k - 1 \in 0..m - 1)
        BY <2>1, <3>2
      <4> HIDE DEF g
      <4>2. QED
        BY <2>3, <2>4, <4>1
    <3>3. QED
      BY <3>1, <3>2
  <2>6. g = [k \in 0..m |-> g[k]]
    OBVIOUS
  <2> HIDE DEF g
  <2>7. Records(g, m, L)
    BY <2>5, <2>6 DEF Records
  <2>8. QED
    BY <1>2, <2>7
<1>5. QED
  BY <1>3, <1>4

\* The layers that are recorded, one per level.
Layers(bets, folded, all_in) ==
  LET lv == levels(bets, all_in)
  IN  [k \in 1..Len(lv) |-> slice_layer(bets, folded, IF k = 1 THEN 0 ELSE lv[k - 1], lv[k])]

\* calculate_side_pots is the last of the intermediate results.
LEMMA SidePotsRecord ==
  ASSUME NEW bets \in [Seats -> Nat], NEW folded, NEW all_in \in SUBSET Seats
  PROVE  LET n == Len(levels(bets, all_in))
         IN  \E f : /\ Records(f, n, Layers(bets, folded, all_in))
                    /\ calculate_side_pots(bets, folded, all_in) = f[n]
<1> DEFINE lv == levels(bets, all_in)
           n == Len(lv)
           L == Layers(bets, folded, all_in)
           layer(k) == slice_layer(bets, folded, IF k = 1 THEN 0 ELSE lv[k - 1], lv[k])
           eq(f) == f = [k \in 0..n |-> IF k = 0 THEN <<>> ELSE record_layer(f[k - 1], layer(k))]
           h == CHOOSE f : eq(f)
<1>1. n \in Nat
  BY LevelsAscend
<1>2. PICK f : Records(f, n, L)
  BY <1>1, RecordsExist
<1>3. \A k \in 0..n : k # 0 => L[k] = layer(k)
  <2>1. \A k \in 0..n : k # 0 => k \in 1..n
    BY <1>1
  <2>2. QED
    BY <2>1 DEF Layers
<1>4. \A g : eq(g) <=> Records(g, n, L)
  <2> SUFFICES ASSUME NEW g PROVE eq(g) <=> Records(g, n, L)
    OBVIOUS
  <2> HIDE DEF L, layer, n
  <2>1. [k \in 0..n |-> IF k = 0 THEN <<>> ELSE record_layer(g[k - 1], layer(k))]
          = [k \in 0..n |-> IF k = 0 THEN <<>> ELSE record_layer(g[k - 1], L[k])]
    BY <1>3
  <2>2. QED
    BY <2>1 DEF Records
<1>5. eq(h)
  BY <1>2, <1>4
<1>6. calculate_side_pots(bets, folded, all_in) = h[n]
  BY DEF calculate_side_pots
<1>7. QED
  BY <1>4, <1>5, <1>6

\* The levels, from zero.
Cap(bets, all_in, k) == IF k = 0 THEN 0 ELSE levels(bets, all_in)[k]

LEMMA CapIs ==
  ASSUME NEW bets \in [Seats -> Nat], NEW all_in \in SUBSET Seats
  PROVE  LET n == Len(levels(bets, all_in))
             cap(k) == Cap(bets, all_in, k)
         IN  /\ n \in Nat /\ \A k \in 0..n : cap(k) \in Nat
             /\ cap(0) = 0 /\ cap(n) = Top(bets)
             /\ \A j, k \in 0..n : j < k => cap(j) < cap(k)
             /\ \A k \in 1..n : cap(k) = Top(bets) \/ \E j \in all_in : cap(k) = bets[j]
             /\ \A j \in all_in : bets[j] > 0 => \E k \in 1..n : cap(k) = bets[j]
<1> DEFINE lv == levels(bets, all_in)
           n == Len(lv)
           cap(k) == Cap(bets, all_in, k)
<1>1. /\ n \in Nat /\ lv \in [1..n -> Nat]
      /\ \A k \in 1..n : lv[k] \in LevelSet(bets, all_in) /\ lv[k] > 0
      /\ \A j, k \in 1..n : j < k => lv[j] < lv[k]
      /\ \A x \in LevelSet(bets, all_in) : \E k \in 1..n : lv[k] = x
      /\ n > 0 => lv[n] = Top(bets)
      /\ n = 0 => Top(bets) = 0
  BY LevelsAscend
<1>2. cap(0) = 0 /\ \A k \in 1..n : cap(k) = lv[k]
  BY <1>1 DEF Cap
<1> HIDE DEF lv, n, cap
<1>3. \A k \in 0..n : k = 0 \/ k \in 1..n
  BY <1>1
<1>4. \A k \in 0..n : cap(k) \in Nat
  BY <1>1, <1>2, <1>3
<1>5. cap(n) = Top(bets)
  BY <1>1, <1>2
<1>6. ASSUME NEW j \in 0..n, NEW k \in 0..n, j < k PROVE cap(j) < cap(k)
  <2>1. k \in 1..n
    BY <1>1, <1>6
  <2>2. CASE j = 0
    BY <1>1, <1>2, <2>1, <2>2
  <2>3. CASE j \in 1..n
    BY <1>1, <1>2, <1>6, <2>1, <2>3
  <2>4. QED
    BY <1>3, <2>2, <2>3
<1>7. \A x \in LevelSet(bets, all_in) : x = Top(bets) \/ \E j \in all_in : x = bets[j]
  BY DEF LevelSet
<1>8. \A j \in all_in : bets[j] > 0 => bets[j] \in LevelSet(bets, all_in)
  BY DEF LevelSet
<1>9. QED
  BY <1>1, <1>2, <1>4, <1>5, <1>6, <1>7, <1>8 DEF n, lv, cap

\* The layers hold what is put in between the levels.
LEMMA Slices ==
  ASSUME NEW bets \in [Seats -> Nat], NEW folded, NEW all_in \in SUBSET Seats,
         NEW k \in 1..Len(levels(bets, all_in))
  PROVE  LET L == Layers(bets, folded, all_in)
             cap(m) == Cap(bets, all_in, m)
         IN  /\ L[k] = slice_layer(bets, folded, cap(k - 1), cap(k))
             /\ L[k] \in Layer /\ L[k].amount \in Nat
             /\ Below(bets, cap(k)) = Below(bets, cap(k - 1)) + L[k].amount
             /\ \A j : j \in L[k].eligible <=>
                     j \in Seats /\ bets[j] > cap(k - 1) /\ j \notin folded
<1> DEFINE lv == levels(bets, all_in)
           n == Len(lv)
           L == Layers(bets, folded, all_in)
           cap(m) == Cap(bets, all_in, m)
           lo == cap(k - 1)
           hi == cap(k)
           s == slice_layer(bets, folded, lo, hi)
<1>1. n \in Nat /\ lo \in Nat /\ hi \in Nat /\ lo <= hi
  <2>1. /\ n \in Nat /\ \A m \in 0..n : cap(m) \in Nat
        /\ \A i, m \in 0..n : i < m => cap(i) < cap(m)
    BY CapIs
  <2> HIDE DEF n, cap
  <2>2. k \in 0..n /\ k - 1 \in 0..n /\ k - 1 < k
    BY <2>1 DEF n
  <2>3. cap(k) \in Nat /\ cap(k - 1) \in Nat /\ cap(k - 1) < cap(k)
    BY <2>1, <2>2
  <2>4. QED
    BY <2>1, <2>3
<1>2. L[k] = s
  <2>1. L[k] = slice_layer(bets, folded, IF k = 1 THEN 0 ELSE lv[k - 1], lv[k])
    BY DEF Layers
  <2>2. hi = lv[k] /\ lo = IF k = 1 THEN 0 ELSE lv[k - 1]
    BY <1>1 DEF Cap
  <2>3. QED
    BY <2>1, <2>2
<1> HIDE DEF lo, hi
<1>3. /\ s \in Layer
      /\ Below(bets, hi) = Below(bets, lo) + s.amount
      /\ \A j : j \in s.eligible <=> j \in Seats /\ bets[j] > lo /\ j \notin folded
  BY <1>1, SliceLayer
<1> HIDE DEF s
<1>4. s.amount \in Nat
  BY <1>3 DEF Layer
<1>5. QED
  BY <1>2, <1>3, <1>4 DEF lo, hi, s

\* f is the way from no layer to the side pots.
Steps(f, bets, folded, all_in) ==
  LET n == Len(levels(bets, all_in))
      L == Layers(bets, folded, all_in)
  IN  /\ calculate_side_pots(bets, folded, all_in) = f[n]
      /\ f[0] = <<>>
      /\ \A k \in 1..n : f[k] = record_layer(f[k - 1], L[k])
      /\ \A k \in 0..n : f[k] \in Seq(Layer)

\* The side pots are built layer by layer.
LEMMA SidePotsSteps ==
  ASSUME NEW bets \in [Seats -> Nat], NEW folded, NEW all_in \in SUBSET Seats
  PROVE  \E f : Steps(f, bets, folded, all_in)
<1> DEFINE n == Len(levels(bets, all_in))
           L == Layers(bets, folded, all_in)
<1>1. n \in Nat
  BY LevelsAscend
<1>2. PICK f : /\ Records(f, n, L)
               /\ calculate_side_pots(bets, folded, all_in) = f[n]
  BY SidePotsRecord
<1>3. \A k \in 1..n : L[k] \in Layer
  BY Slices
<1> HIDE DEF n, L
<1>4. f[0] = <<>> /\ \A k \in 1..n : f[k] = record_layer(f[k - 1], L[k])
  <2>1. \A k \in 1..n : k \in 0..n /\ k # 0
    BY <1>1
  <2>2. 0 \in 0..n
    BY <1>1
  <2>3. QED
    BY <1>2, <2>1, <2>2 DEF Records
<1>5. \A k \in 0..n : f[k] \in Seq(Layer)
  <2> DEFINE Bad == {k \in 0..n : f[k] \notin Seq(Layer)}
  <2>1. SUFFICES ASSUME Bad # {} PROVE FALSE
    OBVIOUS
  <2>2. PICK k \in Bad : \A m \in Bad : k <= m
    <3>1. Bad \in SUBSET Nat
      BY <1>1
    <3> HIDE DEF Bad
    <3>2. QED
      BY <2>1, <3>1, NatMinimum
  <2>3. f[0] \in Seq(Layer)
    BY <1>4, EmptySeq
  <2>4. k \in 1..n /\ k - 1 \in 0..n /\ k - 1 \notin Bad
    BY <1>1, <2>2, <2>3
  <2>5. f[k - 1] \in Seq(Layer) /\ L[k] \in Layer /\ f[k] = record_layer(f[k - 1], L[k])
    BY <1>3, <1>4, <2>4
  <2>6. QED
    BY <2>2, <2>5, RecordShape
<1>6. Steps(f, bets, folded, all_in)
  BY <1>2, <1>4, <1>5 DEF n, L, Steps
<1>7. QED
  BY <1>6

\* The side pots hold what was put in, and when somebody in the hand put in
\* anything, every one of them can be won, and only by seats in the hand that
\* put in something.
LEMMA SidePotsHold ==
  ASSUME NEW bets \in [Seats -> Nat], NEW folded, NEW all_in \in SUBSET Seats
  PROVE  LET pots == calculate_side_pots(bets, folded, all_in)
         IN  /\ pots \in Seq(Layer)
             /\ Held(pots) = SumFunction(bets)
             /\ (\E j \in Seats \ folded : bets[j] > 0)
                  => \A k \in 1..Len(pots) : pots[k].eligible # {}
             /\ \A i \in folded : \A k \in 1..Len(pots) : i \notin pots[k].eligible
             /\ \A i \in Seats : bets[i] = 0 => \A k \in 1..Len(pots) : i \notin pots[k].eligible
<1> DEFINE n == Len(levels(bets, all_in))
           L == Layers(bets, folded, all_in)
           cap(k) == Cap(bets, all_in, k)
           Live == \E j \in Seats \ folded : bets[j] > 0
           Out == folded \cup {j \in Seats : bets[j] = 0}
<1>0. PICK f : Steps(f, bets, folded, all_in)
  BY SidePotsSteps
<1>1. /\ calculate_side_pots(bets, folded, all_in) = f[n]
      /\ f[0] = <<>>
      /\ \A k \in 1..n : f[k] = record_layer(f[k - 1], L[k])
      /\ \A k \in 0..n : f[k] \in Seq(Layer)
  BY <1>0 DEF Steps
<1>2. /\ n \in Nat /\ \A k \in 0..n : cap(k) \in Nat
      /\ cap(0) = 0 /\ cap(n) = Top(bets)
      /\ \A j, k \in 0..n : j < k => cap(j) < cap(k)
  BY CapIs
<1>3. \A k \in 1..n : /\ L[k] \in Layer /\ L[k].amount \in Nat
                      /\ Below(bets, cap(k)) = Below(bets, cap(k - 1)) + L[k].amount
                      /\ \A j : j \in L[k].eligible <=>
                              j \in Seats /\ bets[j] > cap(k - 1) /\ j \notin folded
  BY Slices
<1> HIDE DEF n, L, cap
<1> DEFINE Good(k) ==
             /\ f[k] \in Seq(Layer)
             /\ Held(f[k]) = Below(bets, cap(k))
             /\ Live /\ k > 0 => f[k] # <<>>
             /\ Live => \A p \in 1..Len(f[k]) : f[k][p].eligible # {}
             /\ \A i \in Out : \A p \in 1..Len(f[k]) : i \notin f[k][p].eligible
           Bad == {k \in 0..n : ~Good(k)}
<1>4. Good(0)
  <2>1. f[0] \in Seq(Layer) /\ Len(f[0]) = 0
    BY <1>1, EmptySeq
  <2>2. DOMAIN f[0] = {}
    BY <2>1, LenProperties
  <2>3. Held(f[0]) = 0
    BY <2>2, SumFunctionEmpty DEF Held
  <2>4. QED
    BY <1>2, <2>1, <2>3, BelowIs
<1>5. ASSUME NEW k \in 1..n, Good(k - 1) PROVE Good(k)
  <2> DEFINE old == f[k - 1]
             layer == L[k]
  <2>1. f[k] = record_layer(old, layer) /\ old \in Seq(Layer) /\ layer \in Layer
    BY <1>1, <1>3, <1>5
  <2>2. k - 1 \in 0..n /\ cap(k - 1) \in Nat /\ cap(k) \in Nat
    BY <1>2
  <2>3. Live => old # <<>> \/ (layer.amount > 0 /\ layer.eligible # {})
    <3> SUFFICES ASSUME Live, old = <<>> PROVE layer.amount > 0 /\ layer.eligible # {}
      OBVIOUS
    <3>1. k = 1
      BY <1>2, <1>5
    <3>2. PICK j \in Seats \ folded : bets[j] > 0
      OBVIOUS
    <3>3. layer.eligible # {}
      BY <1>2, <1>3, <3>1, <3>2
    <3>4. Below(bets, cap(1)) > 0
      <4> DEFINE m == [i \in Seats |-> Min({bets[i], cap(1)})]
      <4>1. cap(1) \in Nat /\ cap(1) > 0
        BY <1>2, <3>1 DEF cap
      <4>2. \A i \in Seats : Min({bets[i], cap(1)}) = IF bets[i] <= cap(1) THEN bets[i] ELSE cap(1)
        BY <4>1, MinPair
      <4>3. m \in [Seats -> Nat] /\ m[j] > 0
        BY <3>2, <4>1, <4>2
      <4>4. SumFunction(m) = Below(bets, cap(1))
        BY DEF Below
      <4> HIDE DEF m
      <4>5. m[j] <= SumFunction(m) /\ SumFunction(m) \in Nat /\ m[j] \in Nat
        <5>1. IsFiniteSet(Seats)
          BY SeatsFinite
        <5>2. QED
          BY <4>3, <5>1, SumFunctionSummand, SumFunctionType
      <4>6. QED
        BY <4>3, <4>4, <4>5
    <3>5. layer.amount > 0
      <4>1. Below(bets, cap(1)) = Below(bets, cap(0)) + layer.amount /\ layer.amount \in Nat
        BY <1>3, <2>1, <3>1 DEF Layer
      <4>2. Below(bets, cap(0)) = 0
        BY <1>2, BelowIs
      <4>3. QED
        BY <3>4, <4>1, <4>2
    <3>6. QED
      BY <3>3, <3>5
  <2>4. Held(f[k]) = Below(bets, cap(k))
    <3>1. Held(f[k]) = Held(old) + layer.amount
      BY <2>1, RecordLayer
    <3>2. Below(bets, cap(k)) = Below(bets, cap(k - 1)) + layer.amount
      BY <1>3
    <3>3. Held(old) = Below(bets, cap(k - 1))
      BY <1>5
    <3>4. QED
      BY <3>1, <3>2, <3>3
  <2>5. f[k] \in Seq(Layer)
    BY <2>1, RecordLayer
  <2>6. Live => f[k] # <<>>
    BY <2>1, <2>3, RecordLayer
  <2>7. Live => \A p \in 1..Len(old) : old[p].eligible # {}
    BY <1>5
  <2>8. Live => \A p \in 1..Len(f[k]) : f[k][p].eligible # {}
    <3> HIDE DEF old, layer, Live, Good
    <3>1. QED
      BY <2>1, <2>3, <2>7, RecordLayer
  <2>9. ASSUME NEW i \in Out PROVE \A p \in 1..Len(f[k]) : i \notin f[k][p].eligible
    <3>1. i \notin layer.eligible
      BY <1>3, <2>2
    <3>2. \A p \in 1..Len(old) : i \notin old[p].eligible
      BY <1>5
    <3> HIDE DEF old, layer, Live, Good
    <3>3. QED
      BY <2>1, <3>1, <3>2, RecordLayer
  <2>10. QED
    BY <2>4, <2>5, <2>6, <2>8, <2>9
<1> HIDE DEF Good, Live
<1>6. Bad = {}
  <2>1. SUFFICES ASSUME Bad # {} PROVE FALSE
    OBVIOUS
  <2>2. PICK k \in Bad : \A m \in Bad : k <= m
    <3>1. Bad \in SUBSET Nat
      BY <1>2
    <3> HIDE DEF Bad
    <3>2. QED
      BY <2>1, <3>1, NatMinimum
  <2>3. k # 0
    BY <1>4
  <2>4. k \in 1..n /\ k - 1 \in 0..n /\ k - 1 \notin Bad
    BY <1>2, <2>2, <2>3
  <2>5. QED
    BY <1>5, <2>4
<1>7. Good(n)
  BY <1>2, <1>6
<1>8. Held(f[n]) = SumFunction(bets)
  BY <1>2, <1>7, BelowIs DEF Good
<1>9. QED
  BY <1>1, <1>7, <1>8 DEF Good, Live

\* A seat puts into a layer what it has above the lower level.
LEMMA SliceSummand ==
  ASSUME NEW bets \in [Seats -> Nat], NEW folded, NEW prev \in Nat, NEW level \in Nat,
         NEW i \in Seats, bets[i] > prev, bets[i] <= level
  PROVE  slice_layer(bets, folded, prev, level).amount >= bets[i] - prev
<1> DEFINE d == [j \in Seats |->
                   IF bets[j] > prev THEN Min({bets[j], level}) - prev ELSE 0]
<1>1. \A j \in Seats : Min({bets[j], level}) = IF bets[j] <= level THEN bets[j] ELSE level
  BY MinPair
<1>2. d \in [Seats -> Nat] /\ d[i] = bets[i] - prev
  <2>1. \A j \in Seats : bets[j] > prev => Min({bets[j], level}) - prev \in Nat
    <3>1. bets[i] \in Nat /\ prev < level
      OBVIOUS
    <3>2. QED
      BY <1>1, <3>1
  <2>2. QED
    BY <1>1, <2>1
<1>3. slice_layer(bets, folded, prev, level).amount = SumFunction(d)
  BY DEF slice_layer
<1> HIDE DEF d
<1>4. d[i] <= SumFunction(d) /\ SumFunction(d) \in Nat /\ d[i] \in Nat
  <2>1. IsFiniteSet(Seats)
    BY SeatsFinite
  <2>2. QED
    BY <1>2, <2>1, SumFunctionSummand, SumFunctionType
<1>5. QED
  BY <1>2, <1>3, <1>4

\* The seat that put in more than every other seat, while the others in the hand
\* are all-in, is alone in the last side pot, which holds its lead.
LEMMA UncalledLayer ==
  ASSUME NEW bets \in [Seats -> Nat], NEW folded, NEW all_in \in SUBSET Seats,
         NEW i \in Seats, i \notin folded, NEW m \in Nat, bets[i] > m,
         \A j \in Seats : j # i => bets[j] <= m,
         \A j \in Seats : j # i /\ j \notin folded => j \in all_in
  PROVE  LET pots == calculate_side_pots(bets, folded, all_in)
         IN  /\ Len(pots) \in 1..Len(pots)
             /\ \A y : y \in pots[Len(pots)].eligible <=> y = i
             /\ pots[Len(pots)].amount >= bets[i] - m
<1> DEFINE n == Len(levels(bets, all_in))
           L == Layers(bets, folded, all_in)
           cap(k) == Cap(bets, all_in, k)
           b == bets[i]
           lo == cap(n - 1)
<1>1. PICK f : Steps(f, bets, folded, all_in)
  BY SidePotsSteps
<1>2. /\ n \in Nat /\ \A k \in 0..n : cap(k) \in Nat
      /\ cap(0) = 0 /\ cap(n) = Top(bets)
      /\ \A j, k \in 0..n : j < k => cap(j) < cap(k)
      /\ \A k \in 1..n : cap(k) = Top(bets) \/ \E j \in all_in : cap(k) = bets[j]
      /\ \A j \in all_in : bets[j] > 0 => \E k \in 1..n : cap(k) = bets[j]
  BY CapIs
<1>3. \A j \in Seats : bets[j] \in Nat
  OBVIOUS
<1>4. Top(bets) = b
  <2>1. Top(bets) \in Nat /\ Top(bets) \in Range(bets) /\ b <= Top(bets)
    BY TopIs
  <2>2. PICK j \in Seats : bets[j] = Top(bets)
    BY <2>1 DEF Range
  <2>3. QED
    BY <2>1, <2>2
<1> HIDE DEF cap
<1>5. n # 0
  BY <1>2, <1>4
<1>6. n \in 1..n /\ n - 1 \in 0..n /\ n - 1 < n
  <2> HIDE DEF n
  <2>1. QED
    BY <1>2, <1>5
<1>7. /\ L[n] = slice_layer(bets, folded, cap(n - 1), cap(n))
      /\ L[n] \in Layer
      /\ \A j : j \in L[n].eligible <=> j \in Seats /\ bets[j] > cap(n - 1) /\ j \notin folded
  BY <1>6, Slices DEF cap
<1>8. /\ calculate_side_pots(bets, folded, all_in) = f[n]
      /\ f[n] = record_layer(f[n - 1], L[n])
      /\ f[n - 1] \in Seq(Layer) /\ f[n] \in Seq(Layer)
  BY <1>1, <1>6 DEF Steps
<1> HIDE DEF n, L
<1>9. lo \in Nat /\ lo < b /\ b \in Nat
  BY <1>2, <1>4, <1>6
<1>10. lo <= m
  <2>1. CASE n - 1 = 0
    BY <1>2, <2>1
  <2>2. CASE n - 1 # 0
    <3>1. n - 1 \in 1..n
      BY <1>2, <1>6, <2>2
    <3>2. lo # Top(bets)
      BY <1>4, <1>9
    <3>3. PICK j \in all_in : lo = bets[j]
      BY <1>2, <3>1, <3>2
    <3>4. j \in Seats /\ j # i
      BY <1>9, <3>3
    <3>5. QED
      BY <3>3, <3>4
  <2>3. QED
    BY <2>1, <2>2
<1>11. \A y : y \in L[n].eligible <=> y = i
  <2>1. i \in L[n].eligible
    BY <1>7, <1>9
  <2>2. ASSUME NEW y \in L[n].eligible, y # i PROVE FALSE
    <3>1. y \in Seats /\ bets[y] > lo /\ y \notin folded
      BY <1>7
    <3>2. y \in all_in /\ bets[y] \in Nat /\ bets[y] <= m /\ bets[y] > 0
      BY <1>3, <1>9, <2>2, <3>1
    <3>3. PICK k \in 1..n : cap(k) = bets[y]
      BY <1>2, <3>2
    <3>4. k # n
      BY <1>2, <1>4, <3>2, <3>3
    <3>5. k \in 0..n /\ (k = n - 1 \/ k < n - 1)
      BY <1>2, <3>4
    <3>6. cap(k) <= lo
      BY <1>2, <1>6, <1>9, <3>5
    <3>7. QED
      BY <1>9, <3>1, <3>2, <3>3, <3>6
  <2>3. QED
    BY <2>1, <2>2
<1>12. L[n].amount \in Nat /\ L[n].amount >= b - lo
  <2> DEFINE hi == cap(n)
  <2>1. hi \in Nat /\ b <= hi /\ L[n] = slice_layer(bets, folded, lo, hi)
    BY <1>2, <1>4, <1>7, <1>9
  <2> HIDE DEF hi, lo
  <2>2. slice_layer(bets, folded, lo, hi).amount >= bets[i] - lo
    BY <1>9, <2>1, SliceSummand
  <2>3. L[n].amount \in Nat
    BY <1>7 DEF Layer
  <2>4. QED
    BY <2>1, <2>2, <2>3
<1> DEFINE old == f[n - 1]
           new == f[n]
           layer == L[n]
<1>13. old \in Seq(Layer) /\ layer \in Layer /\ new = record_layer(old, layer)
  BY <1>7, <1>8
<1>14. layer.amount # 0 /\ layer.eligible # {}
  BY <1>9, <1>10, <1>11, <1>12
<1> HIDE DEF old, new, layer
<1>15. Len(new) = Len(old) + 1 /\ new[Len(old) + 1] = layer
  BY <1>13, <1>14, RecordShape
<1>16. Len(old) \in Nat
  BY <1>13, LenProperties
<1>17. Len(new) \in 1..Len(new) /\ new[Len(new)] = layer
  BY <1>15, <1>16
<1>18. layer.amount >= b - m
  <2> HIDE DEF b, lo
  <2>1. layer.amount \in Nat /\ layer.amount >= b - lo
    BY <1>12 DEF layer
  <2>2. QED
    BY <1>9, <1>10, <2>1
<1>19. QED
  BY <1>8, <1>11, <1>17, <1>18 DEF new, layer

\* What the layers that a seat can win hold.
Share(pots, i) ==
  SumFunction([k \in DOMAIN pots |-> IF i \in pots[k].eligible THEN pots[k].amount ELSE 0])

\* Recording a layer adds to a seat's share at most the layer, and only if the seat or
\* nobody is eligible for it.
LEMMA RecordShare ==
  ASSUME NEW pots \in Seq(Layer), NEW layer \in Layer, NEW i
  PROVE  LET new == record_layer(pots, layer)
         IN  /\ Share(pots, i) \in Nat /\ Share(new, i) \in Nat
             /\ Share(new, i) <= Share(pots, i) + layer.amount
             /\ i \notin layer.eligible /\ layer.eligible # {} => Share(new, i) = Share(pots, i)
<1> DEFINE new == record_layer(pots, layer)
           n == Len(pots)
           share(q) == [k \in DOMAIN q |-> IF i \in q[k].eligible THEN q[k].amount ELSE 0]
           f == share(pots)
           g == share(new)
<1>1. ASSUME NEW q \in Seq(Layer)
      PROVE  /\ Len(q) \in Nat /\ DOMAIN q = 1..Len(q) /\ share(q) \in [1..Len(q) -> Nat]
             /\ Share(q, i) = SumFunction(share(q)) /\ Share(q, i) \in Nat
  <2>1. /\ Len(q) \in Nat /\ DOMAIN q = 1..Len(q) /\ IsFiniteSet(DOMAIN q)
        /\ \A k \in 1..Len(q) : q[k].amount \in Nat
    BY HeldType
  <2>2. share(q) \in [1..Len(q) -> Nat]
    BY <2>1
  <2>3. Share(q, i) = SumFunction(share(q))
    BY DEF Share
  <2> HIDE DEF share
  <2>4. QED
    BY <2>1, <2>2, <2>3, SumFunctionType
<1>2. new \in Seq(Layer)
  BY RecordShape
<1>3. layer.amount \in Nat
  BY DEF Layer
<1>4. n \in Nat /\ DOMAIN pots = 1..n /\ f \in [1..n -> Nat] /\ Share(pots, i) = SumFunction(f)
      /\ Share(pots, i) \in Nat
  BY <1>1
<1>5. Len(new) \in Nat /\ DOMAIN new = 1..Len(new) /\ g \in [1..Len(new) -> Nat]
      /\ Share(new, i) = SumFunction(g) /\ Share(new, i) \in Nat
  <2> HIDE DEF new, share
  <2>1. QED
    BY <1>1, <1>2
<1>6. CASE layer.amount = 0
  <2>1. new = pots
    BY <1>6, RecordShape
  <2>2. QED
    BY <1>4, <1>6, <2>1
<1>7. CASE layer.amount # 0 /\ layer.eligible = {} /\ pots # <<>>
  <2>1. /\ n \in 1..n /\ Len(new) = n
        /\ \A k \in 1..n : k # n => new[k] = pots[k]
        /\ new[n].amount = pots[n].amount + layer.amount
        /\ \A k \in 1..n : new[k].eligible = pots[k].eligible
    BY <1>7, RecordShape
  <2> HIDE DEF new
  <2>2. \A k \in 1..n : k # n => g[k] = f[k]
    BY <1>4, <1>5, <2>1
  <2>3. g[n] <= f[n] + layer.amount /\ g[n] \in Nat /\ f[n] \in Nat
    <3>1. n \in DOMAIN pots /\ n \in DOMAIN new
      BY <1>4, <1>5, <2>1
    <3>2. f[n] = IF i \in pots[n].eligible THEN pots[n].amount ELSE 0
      BY <3>1
    <3>3. g[n] = IF i \in pots[n].eligible THEN pots[n].amount + layer.amount ELSE 0
      BY <2>1, <3>1
    <3>4. f[n] \in Nat /\ g[n] \in Nat
      BY <1>4, <1>5, <2>1
    <3> HIDE DEF f, g, n
    <3>5. QED
      BY <1>3, <3>2, <3>3, <3>4
  <2> HIDE DEF f, g
  <2>4. SumFunction(g) = SumFunction(f) - f[n] + g[n]
    <3>1. IsFiniteSet(1..n) /\ f \in [1..n -> Int] /\ g \in [1..n -> Int]
          /\ \A k \in (1..n) \ {n} : g[k] = f[k]
      <4>1. IsFiniteSet(1..n)
        BY <1>4, FS_Interval
      <4> HIDE DEF n
      <4>2. QED
        BY <1>4, <1>5, <2>1, <2>2, <4>1
    <3>2. n \in 1..n
      BY <2>1
    <3> HIDE DEF n
    <3>3. QED
      BY <3>1, <3>2, SumFunctionUpdate
  <2>5. SumFunction(g) <= SumFunction(f) + layer.amount
    <3>1. SumFunction(f) \in Nat
      BY <1>4
    <3> HIDE DEF n
    <3>2. QED
      BY <1>3, <2>3, <2>4, <3>1
  <2>6. QED
    BY <1>4, <1>5, <1>7, <2>5 DEF new
<1>8. CASE layer.amount # 0 /\ ~(layer.eligible = {} /\ pots # <<>>)
  <2>1. /\ Len(new) = n + 1 /\ new[n + 1] = layer
        /\ \A k \in 1..n : new[k] = pots[k]
    BY <1>8, RecordShape
  <2> HIDE DEF new
  <2>2. /\ g \in [1..n + 1 -> Nat]
        /\ g[n + 1] = IF i \in layer.eligible THEN layer.amount ELSE 0
        /\ \A k \in 1..n : g[k] = f[k]
    BY <1>4, <1>5, <2>1
  <2> HIDE DEF f, g
  <2>3. SumFunction(g) = SumFunction(f) + g[n + 1]
    <3>1. f \in [1..n -> Int] /\ g \in [1..n + 1 -> Int]
      BY <1>4, <2>2
    <3>2. QED
      BY <1>4, <2>2, <3>1, SumFunctionAppend
  <2>4. g[n + 1] <= layer.amount /\ (i \notin layer.eligible => g[n + 1] = 0) /\ g[n + 1] \in Nat
    BY <1>3, <1>4, <2>2
  <2>5. SumFunction(f) \in Nat
    BY <1>4
  <2>6. SumFunction(g) <= SumFunction(f) + layer.amount
        /\ (i \notin layer.eligible => SumFunction(g) = SumFunction(f))
    BY <1>3, <2>3, <2>4, <2>5
  <2>7. QED
    BY <1>4, <1>5, <2>6 DEF new
<1>9. QED
  BY <1>6, <1>7, <1>8

\* More is put in up to a higher level.
LEMMA BelowMonotone ==
  ASSUME NEW bets \in [Seats -> Nat], NEW c \in Nat, NEW d \in Nat, c <= d
  PROVE  Below(bets, c) \in Nat /\ Below(bets, d) \in Nat /\ Below(bets, c) <= Below(bets, d)
<1> DEFINE s == slice_layer(bets, {}, c, d)
<1>1. s \in Layer /\ Below(bets, d) = Below(bets, c) + s.amount
  BY SliceLayer
<1>2. s.amount \in Nat
  BY <1>1 DEF Layer
<1>3. Below(bets, c) \in Nat /\ Below(bets, d) \in Nat
  BY BelowIs
<1> HIDE DEF s
<1>4. QED
  BY <1>1, <1>2, <1>3

\* What a seat that put in b can win of what was put in up to c, when the seats in
\* the hand put in at most top: what it matched, and what is above top.
Reach(bets, b, top, c) ==
  Below(bets, IF c <= b THEN c ELSE b) + (Below(bets, c) - Below(bets, IF c <= top THEN c ELSE top))

\* The reach grows with the level.
LEMMA ReachMonotone ==
  ASSUME NEW bets \in [Seats -> Nat], NEW b \in Nat, NEW top \in Nat,
         NEW c \in Nat, NEW d \in Nat, c <= d
  PROVE  /\ Reach(bets, b, top, c) \in Nat /\ Reach(bets, b, top, d) \in Nat
         /\ Reach(bets, b, top, c) <= Reach(bets, b, top, d)
<1> DEFINE cut(x, y) == IF x <= y THEN x ELSE y
<1>1. \A x, y \in Nat : cut(x, y) \in Nat /\ cut(x, y) <= x
  OBVIOUS
<1>2. cut(c, b) <= cut(d, b) /\ cut(c, top) <= cut(d, top)
  OBVIOUS
<1>3. ASSUME NEW x \in Nat PROVE Reach(bets, b, top, x) \in Nat
  <2>1. Below(bets, cut(x, b)) \in Nat /\ Below(bets, x) \in Nat /\ Below(bets, cut(x, top)) \in Nat
    BY <1>1, BelowIs
  <2>2. Below(bets, cut(x, top)) <= Below(bets, x)
    BY <1>1, BelowMonotone
  <2>3. Reach(bets, b, top, x) = Below(bets, cut(x, b)) + (Below(bets, x) - Below(bets, cut(x, top)))
    BY DEF Reach
  <2> HIDE DEF cut
  <2>4. QED
    BY <2>1, <2>2, <2>3
<1>4. Below(bets, cut(c, b)) <= Below(bets, cut(d, b))
  BY <1>1, <1>2, BelowMonotone
<1>5. Below(bets, c) - Below(bets, cut(c, top)) <= Below(bets, d) - Below(bets, cut(d, top))
  <2>1. \A x \in Nat : Below(bets, x) \in Nat
    BY BelowIs
  <2>2. CASE d <= top
    <3>1. cut(c, top) = c /\ cut(d, top) = d
      BY <2>2
    <3> HIDE DEF cut
    <3>2. QED
      BY <2>1, <3>1
  <2>3. CASE c <= top /\ ~(d <= top)
    <3>1. cut(c, top) = c /\ cut(d, top) = top /\ top <= d
      BY <2>3
    <3>2. Below(bets, top) <= Below(bets, d)
      BY <3>1, BelowMonotone
    <3> HIDE DEF cut
    <3>3. QED
      BY <2>1, <3>1, <3>2
  <2>4. CASE ~(c <= top)
    <3>1. cut(c, top) = top /\ cut(d, top) = top
      BY <2>4
    <3>2. Below(bets, c) <= Below(bets, d)
      BY BelowMonotone
    <3> HIDE DEF cut
    <3>3. QED
      BY <2>1, <3>1, <3>2
  <2>5. QED
    BY <2>2, <2>3, <2>4
<1>6. \A x \in {c, d} : Reach(bets, b, top, x)
           = Below(bets, cut(x, b)) + (Below(bets, x) - Below(bets, cut(x, top)))
  BY DEF Reach
<1>7. \A x \in {c, d} : /\ Below(bets, cut(x, b)) \in Nat /\ Below(bets, x) \in Nat
                        /\ Below(bets, cut(x, top)) \in Nat
  BY <1>1, BelowIs
<1>8. Reach(bets, b, top, c) <= Reach(bets, b, top, d)
  <2> HIDE DEF cut
  <2>1. QED
    BY <1>4, <1>5, <1>6, <1>7
<1>9. QED
  BY <1>3, <1>8

\* A seat in the hand can win at most what it matched and what no seat in the
\* hand put in.
LEMMA ShareBound ==
  ASSUME NEW bets \in [Seats -> Nat], NEW folded, NEW all_in \in SUBSET Seats,
         NEW i \in Seats, i \notin folded, NEW t \in Seats, t \notin folded,
         \A j \in Seats : j \notin folded => bets[j] <= bets[t],
         i \in all_in \/ bets[i] = bets[t]
  PROVE  LET pots == calculate_side_pots(bets, folded, all_in)
         IN  /\ Share(pots, i) \in Nat
             /\ Share(pots, i) <= Below(bets, bets[i]) + (SumFunction(bets) - Below(bets, bets[t]))
<1> DEFINE n == Len(levels(bets, all_in))
           L == Layers(bets, folded, all_in)
           cap(k) == Cap(bets, all_in, k)
           b == bets[i]
           top == bets[t]
           R(c) == Reach(bets, b, top, c)
<1>1. PICK f : Steps(f, bets, folded, all_in)
  BY SidePotsSteps
<1>2. /\ n \in Nat /\ \A k \in 0..n : cap(k) \in Nat
      /\ cap(0) = 0 /\ cap(n) = Top(bets)
      /\ \A j, k \in 0..n : j < k => cap(j) < cap(k)
      /\ \A j \in all_in : bets[j] > 0 => \E k \in 1..n : cap(k) = bets[j]
  BY CapIs
<1>3. \A k \in 1..n : /\ L[k] \in Layer /\ L[k].amount \in Nat
                      /\ Below(bets, cap(k)) = Below(bets, cap(k - 1)) + L[k].amount
                      /\ \A j : j \in L[k].eligible <=>
                              j \in Seats /\ bets[j] > cap(k - 1) /\ j \notin folded
  BY Slices
<1>4. /\ calculate_side_pots(bets, folded, all_in) = f[n]
      /\ f[0] = <<>>
      /\ \A k \in 1..n : f[k] = record_layer(f[k - 1], L[k])
      /\ \A k \in 0..n : f[k] \in Seq(Layer)
  BY <1>1 DEF Steps
<1>5. b \in Nat /\ top \in Nat /\ b <= top /\ \A c \in Nat : Below(bets, c) \in Nat
  BY BelowIs
<1> HIDE DEF n, L, cap
<1> DEFINE Bad == {k \in 0..n : ~(Share(f[k], i) \in Nat /\ Share(f[k], i) <= R(cap(k)))}
<1>6. 0 \notin Bad
  <2>1. DOMAIN f[0] = {}
    BY <1>4
  <2>2. Share(f[0], i) = 0
    BY <2>1, SumFunctionEmpty DEF Share
  <2>3. R(cap(0)) \in Nat
    <3> DEFINE z == cap(0)
    <3>1. z \in Nat /\ z <= z
      BY <1>2
    <3> HIDE DEF b, top, z
    <3>2. Reach(bets, b, top, z) \in Nat
      BY <1>5, <3>1, ReachMonotone
    <3>3. QED
      BY <3>2 DEF z
  <2> HIDE DEF R
  <2>4. QED
    BY <2>2, <2>3
<1>7. ASSUME NEW k \in 1..n, k - 1 \notin Bad PROVE k \notin Bad
  <2> DEFINE lo == cap(k - 1)
             hi == cap(k)
             old == f[k - 1]
             new == f[k]
             layer == L[k]
  <2>1. k \in 0..n /\ k - 1 \in 0..n /\ k - 1 < k
    BY <1>2
  <2>2. lo \in Nat /\ hi \in Nat /\ lo < hi
    BY <1>2, <2>1
  <2>3. old \in Seq(Layer) /\ layer \in Layer /\ new = record_layer(old, layer)
    BY <1>3, <1>4, <2>1
  <2>4. Share(old, i) \in Nat /\ Share(old, i) <= R(lo)
    BY <1>7, <2>1
  <2>5. /\ layer.amount \in Nat /\ Below(bets, hi) = Below(bets, lo) + layer.amount
        /\ \A j : j \in layer.eligible <=> j \in Seats /\ bets[j] > lo /\ j \notin folded
    BY <1>3
  <2>6. i \in all_in /\ lo < b => hi <= b
    <3> SUFFICES ASSUME i \in all_in, lo < b PROVE hi <= b
      OBVIOUS
    <3>1. PICK m \in 1..n : cap(m) = b
      BY <1>2, <1>5, <2>2
    <3>2. m \in 0..n /\ (m <= k - 1 \/ k <= m)
      BY <1>2
    <3>3. ~(m <= k - 1)
      BY <1>2, <2>1, <2>2, <3>1, <3>2
    <3>4. QED
      BY <1>2, <2>1, <2>2, <3>1, <3>2, <3>3
  <2> HIDE DEF lo, hi, old, new, layer, R
  <2>7. /\ Share(new, i) \in Nat /\ Share(new, i) <= Share(old, i) + layer.amount
        /\ i \notin layer.eligible /\ layer.eligible # {} => Share(new, i) = Share(old, i)
    BY <2>3, RecordShare
  <2>8. R(lo) \in Nat /\ R(hi) \in Nat /\ R(lo) <= R(hi)
    <3> HIDE DEF b, top
    <3>1. lo <= hi
      BY <2>2
    <3>2. QED
      BY <1>5, <2>2, <3>1, ReachMonotone DEF R
  <2>9. CASE i \in layer.eligible
    <3>1. lo < b /\ lo <= top /\ lo <= b
      BY <1>5, <2>2, <2>5, <2>9
    <3>2. R(lo) = Below(bets, lo)
      BY <1>5, <2>2, <3>1 DEF R, Reach
    <3>3. R(hi) = Below(bets, hi)
      <4>1. CASE hi <= b
        <5>1. hi <= top
          BY <1>5, <2>2, <4>1
        <5>2. QED
          BY <1>5, <2>2, <4>1, <5>1 DEF R, Reach
      <4>2. CASE ~(hi <= b)
        <5>1. b = top
          BY <2>6, <3>1, <4>2
        <5>2. QED
          BY <1>5, <2>2, <4>2, <5>1 DEF R, Reach
      <4>3. QED
        BY <4>1, <4>2
    <3>4. R(hi) = R(lo) + layer.amount
      BY <2>5, <3>2, <3>3
    <3>5. QED
      BY <2>4, <2>5, <2>7, <2>8, <3>4 DEF new, hi
  <2>10. CASE layer.eligible = {}
    <3>1. top <= lo
      <4>1. t \notin layer.eligible
        BY <2>10
      <4>2. ~(bets[t] > lo)
        BY <2>5, <4>1
      <4>3. QED
        BY <1>5, <2>2, <4>2
    <3>2. b <= lo /\ top <= hi /\ b <= hi
      BY <1>5, <2>2, <3>1
    <3>3. R(lo) = Below(bets, b) + (Below(bets, lo) - Below(bets, top))
      <4>1. (lo <= b => lo = b) /\ (lo <= top => lo = top)
        BY <1>5, <2>2, <3>1, <3>2
      <4> HIDE DEF b, top
      <4>2. QED
        BY <4>1 DEF R, Reach
    <3>4. R(hi) = Below(bets, b) + (Below(bets, hi) - Below(bets, top))
      <4>1. ~(hi <= b) /\ ~(hi <= top)
        BY <1>5, <2>2, <3>1, <3>2
      <4>2. QED
        BY <4>1 DEF R, Reach
    <3>5. R(hi) = R(lo) + layer.amount
      <4>1. /\ Below(bets, b) \in Nat /\ Below(bets, lo) \in Nat
            /\ Below(bets, hi) \in Nat /\ Below(bets, top) \in Nat
        BY <1>5, <2>2
      <4> HIDE DEF b, top
      <4>2. QED
        BY <2>5, <3>3, <3>4, <4>1
    <3>6. QED
      BY <2>4, <2>5, <2>7, <2>8, <3>5 DEF new, hi
  <2>11. CASE i \notin layer.eligible /\ layer.eligible # {}
    <3>1. Share(new, i) <= R(hi)
      BY <2>4, <2>7, <2>8, <2>11
    <3>2. QED
      BY <2>7, <3>1 DEF new, hi
  <2>12. QED
    BY <2>9, <2>10, <2>11
<1> HIDE DEF R
<1>8. Bad = {}
  <2>1. SUFFICES ASSUME Bad # {} PROVE FALSE
    OBVIOUS
  <2>2. PICK k \in Bad : \A m \in Bad : k <= m
    <3>1. Bad \in SUBSET Nat
      BY <1>2
    <3> HIDE DEF Bad
    <3>2. QED
      BY <2>1, <3>1, NatMinimum
  <2>3. k \in 0..n
    BY <2>2
  <2> HIDE DEF Bad
  <2>4. k # 0
    BY <1>6, <2>2
  <2>5. k \in 1..n /\ k - 1 \in Nat /\ ~(k <= k - 1)
    BY <1>2, <2>3, <2>4
  <2>6. k - 1 \notin Bad
    BY <2>2, <2>5
  <2>7. QED
    BY <1>7, <2>2, <2>5, <2>6
<1>9. Share(f[n], i) \in Nat /\ Share(f[n], i) <= R(cap(n))
  BY <1>2, <1>8
<1>10. R(cap(n)) = Below(bets, b) + (SumFunction(bets) - Below(bets, top))
  <2> DEFINE c == cap(n)
  <2>1. c \in Nat /\ b <= c /\ top <= c /\ Below(bets, c) = SumFunction(bets)
    BY <1>2, TopIs, BelowIs
  <2>2. (c <= b => c = b) /\ (c <= top => c = top)
    BY <1>5, <2>1
  <2> HIDE DEF b, top, c
  <2>3. R(c) = Below(bets, b) + (Below(bets, c) - Below(bets, top))
    BY <2>2 DEF R, Reach
  <2>4. QED
    BY <2>1, <2>3 DEF c
<1>11. QED
  BY <1>4, <1>9, <1>10

-----------------------------------------------------------------------------
(* The rake.                                                               *)

\* What the rate takes from a layer, before the cap.
Raw(pot) == IF contested(pot) THEN (pot.amount * RakeBps) \div 10000 ELSE 0

\* u is the sequence of the rakes taken up to each of n layers.
Takes(u, n, R) ==
  u = [k \in 0..n |-> IF k = 0 THEN 0 ELSE Min({RakeCap, u[k - 1] + R[k]})]

\* The rate takes at most its share of a layer.
LEMMA RawIs ==
  ASSUME NEW pot \in Layer
  PROVE  /\ Raw(pot) \in Nat /\ pot.amount \in Nat
         /\ Raw(pot) <= pot.amount
         /\ 10000 * Raw(pot) <= RakeBps * pot.amount
<1> DEFINE a == pot.amount
           x == a * RakeBps
<1>1. a \in Nat /\ RakeBps \in 0..10000
  BY SidePotsAssumption DEF Layer
<1> HIDE DEF a
<1>2. x \in Nat /\ x = RakeBps * a /\ x <= 10000 * a
  BY <1>1
<1> HIDE DEF x
<1>3. x \div 10000 \in Nat /\ 10000 * (x \div 10000) <= x
  BY <1>2, DivMod
<1> DEFINE q == x \div 10000
<1>4. Raw(pot) = q \/ Raw(pot) = 0
  BY DEF Raw, x, a
<1> HIDE DEF q
<1>5. Raw(pot) \in Nat /\ Raw(pot) <= a /\ 10000 * Raw(pot) <= x
  <2>1. q \in Nat /\ 10000 * q <= x
    BY <1>3 DEF q
  <2>2. a \in Nat /\ x \in Nat /\ x <= 10000 * a
    BY <1>1, <1>2
  <2> HIDE DEF x, a
  <2>3. QED
    BY <1>4, <2>1, <2>2
<1>6. QED
  BY <1>1, <1>2, <1>5 DEF a

LEMMA TakesExist ==
  ASSUME NEW n \in Nat, NEW R
  PROVE  \E u : Takes(u, n, R)
<1> DEFINE Bad == {m \in Nat : ~\E u : Takes(u, m, R)}
<1>1. SUFFICES ASSUME Bad # {} PROVE FALSE
  OBVIOUS
<1>2. PICK m \in Bad : \A k \in Bad : m <= k
  <2>1. Bad \in SUBSET Nat
    OBVIOUS
  <2> HIDE DEF Bad
  <2>2. QED
    BY <1>1, <2>1, NatMinimum
<1> DEFINE next(x, k) == Min({RakeCap, x + R[k]})
<1>3. CASE m = 0
  <2> DEFINE f == [k \in 0..0 |-> 0]
  <2>1. f = [k \in 0..0 |-> IF k = 0 THEN 0 ELSE Min({RakeCap, f[k - 1] + R[k]})]
    OBVIOUS
  <2>2. Takes(f, 0, R)
    BY <2>1 DEF Takes
  <2>3. QED
    BY <1>2, <1>3, <2>2
<1>4. CASE m # 0
  <2>1. m - 1 \in Nat /\ m - 1 \notin Bad
    BY <1>2, <1>4
  <2>2. PICK f : Takes(f, m - 1, R)
    BY <2>1
  <2> DEFINE g == [k \in 0..m |-> IF k < m THEN f[k] ELSE next(f[m - 1], m)]
  <2>3. \A k \in 0..m - 1 : f[k] = IF k = 0 THEN 0 ELSE next(f[k - 1], k)
    BY <2>2 DEF Takes
  <2> HIDE DEF next
  <2>4. \A k \in 0..m - 1 : g[k] = f[k]
    BY <2>1
  <2>5. \A k \in 0..m : g[k] = IF k = 0 THEN 0 ELSE next(g[k - 1], k)
    <3> SUFFICES ASSUME NEW k \in 0..m
                 PROVE  g[k] = IF k = 0 THEN 0 ELSE next(g[k - 1], k)
      OBVIOUS
    <3>1. CASE k = m
      <4>1. g[m] = next(f[m - 1], m) /\ m - 1 \in 0..m - 1
        BY <1>4, <2>1
      <4>2. g[m - 1] = f[m - 1]
        BY <2>4, <4>1
      <4> HIDE DEF g
      <4>3. QED
        BY <1>4, <3>1, <4>1, <4>2
    <3>2. CASE k # m
      <4>1. k \in 0..m - 1 /\ (k # 0 => k - 1 \in 0..m - 1)
        BY <2>1, <3>2
      <4> HIDE DEF g
      <4>2. QED
        BY <2>3, <2>4, <4>1
    <3>3. QED
      BY <3>1, <3>2
  <2>6. g = [k \in 0..m |-> g[k]]
    OBVIOUS
  <2> HIDE DEF g
  <2>7. Takes(g, m, R)
    BY <2>5, <2>6 DEF Takes, next
  <2>8. QED
    BY <1>2, <2>7
<1>5. QED
  BY <1>3, <1>4

\* The rakes are the increments of the capped total.
LEMMA RakeTakes ==
  ASSUME NEW pots \in Seq(Layer)
  PROVE  \E u : /\ Takes(u, Len(pots), [k \in DOMAIN pots |-> Raw(pots[k])])
                /\ allocate_rake_fixed_rate(pots) = [k \in DOMAIN pots |-> u[k] - u[k - 1]]
<1> DEFINE n == Len(pots)
           R == [k \in DOMAIN pots |-> Raw(pots[k])]
           raw(k) == IF contested(pots[k]) THEN (pots[k].amount * RakeBps) \div 10000 ELSE 0
           eq(u) == u = [k \in 0..n |-> IF k = 0 THEN 0 ELSE Min({RakeCap, u[k - 1] + raw(k)})]
           h == CHOOSE u : eq(u)
<1>1. n \in Nat /\ DOMAIN pots = 1..n
  BY HeldType
<1>2. PICK f : Takes(f, n, R)
  BY <1>1, TakesExist
<1>3. \A k \in 0..n : k # 0 => R[k] = raw(k)
  <2>1. \A k \in 0..n : k # 0 => k \in 1..n
    BY <1>1
  <2>2. QED
    BY <1>1, <2>1 DEF Raw
<1> HIDE DEF R, raw, n, eq
<1>4. \A g : eq(g) <=> Takes(g, n, R)
  <2> SUFFICES ASSUME NEW g PROVE eq(g) <=> Takes(g, n, R)
    OBVIOUS
  <2>1. [k \in 0..n |-> IF k = 0 THEN 0 ELSE Min({RakeCap, g[k - 1] + raw(k)})]
          = [k \in 0..n |-> IF k = 0 THEN 0 ELSE Min({RakeCap, g[k - 1] + R[k]})]
    BY <1>3
  <2>2. QED
    BY <2>1 DEF Takes, eq
<1>5. eq(h)
  BY <1>2, <1>4
<1>6. allocate_rake_fixed_rate(pots) = [k \in DOMAIN pots |-> h[k] - h[k - 1]]
  BY DEF allocate_rake_fixed_rate, eq, raw, n
<1>7. QED
  <2> HIDE DEF h
  <2>1. QED
    BY <1>4, <1>5, <1>6 DEF R, n

\* The increments of a sequence of numbers add up to its last one.
LEMMA Telescope ==
  ASSUME NEW n \in Nat, NEW u, \A k \in 0..n : u[k] \in Int
  PROVE  SumFunction([k \in 1..n |-> u[k] - u[k - 1]]) = u[n] - u[0]
<1> DEFINE inc(m) == [k \in 1..m |-> u[k] - u[k - 1]]
           Bad == {m \in 0..n : SumFunction(inc(m)) # u[m] - u[0]}
<1>1. SUFFICES ASSUME Bad # {} PROVE FALSE
  <2>1. n \in 0..n
    OBVIOUS
  <2>2. Bad = {} => SumFunction(inc(n)) = u[n] - u[0]
    BY <2>1
  <2>3. QED
    BY <2>2
<1>2. PICK m \in Bad : \A k \in Bad : m <= k
  <2>1. Bad \in SUBSET Nat
    OBVIOUS
  <2> HIDE DEF Bad
  <2>2. QED
    BY <1>1, <2>1, NatMinimum
<1>3. m \in 0..n /\ SumFunction(inc(m)) # u[m] - u[0]
  BY <1>2
<1>4. CASE m = 0
  <2>1. DOMAIN inc(m) = {}
    BY <1>4
  <2>2. u[m] - u[0] = 0
    BY <1>4
  <2> HIDE DEF inc
  <2>3. QED
    BY <1>3, <2>1, <2>2, SumFunctionEmpty
<1>5. CASE m # 0
  <2> DEFINE p == m - 1
             a == inc(p)
             b == inc(m)
  <2>1. p \in Nat /\ p \in 0..n /\ p + 1 = m /\ p \notin Bad /\ 0 \in 0..n
    BY <1>2, <1>3, <1>5
  <2>2. SumFunction(a) = u[p] - u[0]
    BY <2>1
  <2>3. a \in [1..p -> Int] /\ b \in [1..p + 1 -> Int] /\ \A k \in 1..p : b[k] = a[k]
    BY <1>3, <2>1
  <2>4. b[p + 1] = u[m] - u[p]
    BY <1>3, <2>1
  <2>5. u[m] \in Int /\ u[p] \in Int /\ u[0] \in Int
    BY <1>3, <2>1
  <2> HIDE DEF a, b, p, Bad
  <2>6. SumFunction(b) = SumFunction(a) + b[p + 1]
    BY <2>1, <2>3, SumFunctionAppend
  <2>7. SumFunction(b) = u[m] - u[0]
    BY <2>2, <2>4, <2>5, <2>6
  <2>8. QED
    BY <1>3, <2>7 DEF b
<1>6. QED
  BY <1>4, <1>5

\* Every layer pays at most what it holds and at most its rate, and the layers
\* together pay at most the cap.
LEMMA RakeIs ==
  ASSUME NEW pots \in Seq(Layer)
  PROVE  LET r == allocate_rake_fixed_rate(pots)
         IN  /\ r \in [1..Len(pots) -> Nat]
             /\ \A k \in 1..Len(pots) : /\ r[k] <= pots[k].amount
                                        /\ 10000 * r[k] <= RakeBps * pots[k].amount
                                        /\ ~contested(pots[k]) => r[k] = 0
             /\ SumFunction(r) \in Nat /\ SumFunction(r) <= RakeCap
<1> DEFINE n == Len(pots)
           R == [k \in DOMAIN pots |-> Raw(pots[k])]
           r == allocate_rake_fixed_rate(pots)
<1>1. n \in Nat /\ DOMAIN pots = 1..n /\ \A k \in 1..n : pots[k] \in Layer
  BY HeldType
<1>2. PICK u : Takes(u, n, R) /\ r = [k \in 1..n |-> u[k] - u[k - 1]]
  BY <1>1, RakeTakes
<1>3. \A k \in 1..n : /\ R[k] \in Nat /\ pots[k].amount \in Nat /\ R[k] <= pots[k].amount
                      /\ 10000 * R[k] <= RakeBps * pots[k].amount
  BY <1>1, RawIs
<1>4. u[0] = 0 /\ \A k \in 1..n : u[k] = Min({RakeCap, u[k - 1] + R[k]})
  <2>1. 0 \in 0..n /\ \A k \in 1..n : k \in 0..n /\ k # 0
    BY <1>1
  <2>2. QED
    BY <1>2, <2>1 DEF Takes
<1>5. RakeCap \in Nat /\ RakeBps \in Nat
  BY SidePotsAssumption
<1> HIDE DEF R, n, r
<1>6. ASSUME NEW k \in 1..n, u[k - 1] \in 0..RakeCap
      PROVE  u[k] \in 0..RakeCap /\ u[k] - u[k - 1] \in 0..R[k]
  <2>1. u[k - 1] + R[k] \in Nat /\ R[k] \in Nat
    BY <1>3, <1>5, <1>6
  <2>2. u[k] = IF RakeCap <= u[k - 1] + R[k] THEN RakeCap ELSE u[k - 1] + R[k]
    <3>1. u[k] = Min({RakeCap, u[k - 1] + R[k]})
      BY <1>4
    <3>2. QED
      BY <1>5, <2>1, <3>1, MinPair
  <2>3. QED
    BY <1>5, <1>6, <2>1, <2>2
<1>7. \A k \in 0..n : u[k] \in 0..RakeCap
  <2> DEFINE Bad == {k \in 0..n : u[k] \notin 0..RakeCap}
  <2>1. SUFFICES ASSUME Bad # {} PROVE FALSE
    OBVIOUS
  <2>2. PICK k \in Bad : \A m \in Bad : k <= m
    <3>1. Bad \in SUBSET Nat
      BY <1>1
    <3> HIDE DEF Bad
    <3>2. QED
      BY <2>1, <3>1, NatMinimum
  <2>3. k # 0
    BY <1>4, <1>5
  <2>4. k \in 1..n /\ k - 1 \in 0..n /\ k - 1 \notin Bad
    BY <1>1, <2>2, <2>3
  <2>5. QED
    BY <1>6, <2>2, <2>4
<1>8. \A k \in 1..n : r[k] \in 0..R[k] /\ r[k] \in Nat
  <2> SUFFICES ASSUME NEW k \in 1..n PROVE r[k] \in 0..R[k] /\ r[k] \in Nat
    OBVIOUS
  <2>1. k - 1 \in 0..n
    BY <1>1
  <2>2. u[k] - u[k - 1] \in 0..R[k] /\ r[k] = u[k] - u[k - 1]
    BY <1>2, <1>6, <1>7, <2>1
  <2>3. QED
    BY <1>3, <2>2
<1>9. r \in [1..n -> Nat]
  BY <1>2, <1>8
<1>10. ASSUME NEW k \in 1..n
       PROVE  r[k] <= pots[k].amount /\ 10000 * r[k] <= RakeBps * pots[k].amount
  <2> DEFINE rk == r[k]
             Rk == R[k]
             a == pots[k].amount
             y == RakeBps * a
  <2>1. rk \in 0..Rk /\ Rk \in Nat /\ a \in Nat /\ Rk <= a /\ 10000 * Rk <= y
    BY <1>3, <1>8
  <2>2. y \in Nat
    BY <1>5, <2>1
  <2> HIDE DEF rk, Rk, a, y
  <2>3. rk <= a /\ 10000 * rk <= y
    BY <2>1, <2>2
  <2>4. QED
    BY <2>3 DEF rk, a, y
<1>11. SumFunction(r) = u[n]
  <2>1. \A k \in 0..n : u[k] \in Int
    BY <1>5, <1>7
  <2>2. SumFunction(r) = u[n] - u[0]
    BY <1>1, <1>2, <2>1, Telescope
  <2>3. n \in 0..n
    BY <1>1
  <2>4. QED
    BY <1>4, <2>1, <2>2, <2>3
<1>12. u[n] \in 0..RakeCap
  BY <1>1, <1>7
<1>13. \A k \in 1..n : ~contested(pots[k]) => r[k] = 0
  <2>1. \A k \in 1..n : ~contested(pots[k]) => R[k] = 0
    BY <1>1 DEF R, Raw
  <2>2. QED
    BY <1>8, <2>1
<1>14. QED
  BY <1>5, <1>9, <1>10, <1>11, <1>12, <1>13 DEF r, n

-----------------------------------------------------------------------------
(* The awards.                                                             *)

\* The winners of an amount get all of it: everyone its share, and one odd chip
\* each for the first of them clockwise from the button.
LEMMA SplitIs ==
  ASSUME NEW amount \in Nat, NEW winners \in SUBSET Seats, winners # {}, NEW button \in Seats
  PROVE  LET s == split_among_winners(amount, winners, button)
         IN  /\ s \in [Seats -> Nat]
             /\ SumFunction(s) = amount
             /\ \A i \in Seats : i \notin winners => s[i] = 0
<1> DEFINE n == Cardinality(winners)
           q == amount \div n
           r == amount % n
           c == [j \in winners |-> Clockwise(button, j)]
           position(i) == Cardinality({j \in winners : Clockwise(button, j) < Clockwise(button, i)})
           First == {i \in winners : position(i) < r}
           f == [i \in Seats |-> IF i \in winners THEN 1 ELSE 0]
           g == [i \in Seats |-> IF i \in First THEN 1 ELSE 0]
           s == split_among_winners(amount, winners, button)
<1>1. IsFiniteSet(Seats) /\ IsFiniteSet(winners)
  BY SeatsFinite, FS_Subset
<1>2. n \in Nat /\ n > 0
  <2>1. n \in Nat /\ n # 0
    BY <1>1, FS_CardinalityType, FS_EmptySet
  <2> HIDE DEF n
  <2>2. QED
    BY <2>1
<1>3. q \in Nat /\ r \in 0..n - 1 /\ amount = n * q + r
  <2> HIDE DEF n
  <2>1. QED
    BY <1>2, DivMod
<1>4. s = [i \in Seats |-> IF i \notin winners THEN 0
                           ELSE q + (IF position(i) < r THEN 1 ELSE 0)]
  BY DEF split_among_winners
<1>5. Cardinality(First) = r
  <2>1. c \in [winners -> Int] /\ \A x, y \in winners : c[x] = c[y] => x = y
    BY ClockwiseInjective
  <2>2. \A i \in winners : position(i) = Rank(winners, c, i)
    <3>1. \A i \in winners : {j \in winners : Clockwise(button, j) < Clockwise(button, i)}
                               = {j \in winners : c[j] < c[i]}
      OBVIOUS
    <3>2. QED
      BY <3>1 DEF Rank
  <2>3. r \in 0..n
    BY <1>2, <1>3
  <2> HIDE DEF c, position, r
  <2>4. First = {i \in winners : Rank(winners, c, i) < r}
    BY <2>2
  <2>5. Cardinality({i \in winners : Rank(winners, c, i) < r}) = r
    BY <1>1, <2>1, <2>3, FirstRanks
  <2>6. QED
    BY <2>4, <2>5
<1> HIDE DEF n, q, r, position
<1>6. SumFunction(f) = n
  BY <1>1, SumFunctionIndicator DEF n
<1>7. SumFunction(g) = r
  <2>1. First \in SUBSET Seats
    OBVIOUS
  <2> HIDE DEF First
  <2>2. QED
    BY <1>1, <1>5, <2>1, SumFunctionIndicator
<1> DEFINE p == [i \in Seats |-> q * f[i]]
<1>8. /\ f \in [Seats -> Int] /\ g \in [Seats -> Int] /\ p \in [Seats -> Int]
      /\ \A i \in Seats : p[i] = q * f[i]
  <2>1. \A i \in Seats : q * f[i] = IF i \in winners THEN q ELSE 0
    BY <1>3
  <2>2. QED
    BY <1>3, <2>1
<1>9. s \in [Seats -> Nat] /\ \A i \in Seats : s[i] = p[i] + g[i]
  <2>1. \A i \in Seats : p[i] = IF i \in winners THEN q ELSE 0
    BY <1>3
  <2>2. \A i \in Seats : g[i] = IF i \in winners /\ position(i) < r THEN 1 ELSE 0
    OBVIOUS
  <2>3. \A i \in Seats : s[i] = IF i \notin winners THEN 0
                                ELSE q + (IF position(i) < r THEN 1 ELSE 0)
    BY <1>4
  <2>4. \A i \in Seats : s[i] \in Nat
    <3> HIDE DEF s
    <3>1. QED
      BY <1>3, <2>3
  <2>5. s \in [Seats -> Nat]
    BY <1>4, <2>4
  <2> HIDE DEF p, g, s
  <2>6. QED
    BY <1>3, <2>1, <2>2, <2>3, <2>5
<1>10. \A i \in Seats : i \notin winners => s[i] = 0
  BY <1>4
<1> HIDE DEF f, g, p, s
<1>11. SumFunction(p) = q * n
  <2>1. q \in Int
    BY <1>3
  <2>2. QED
    BY <1>1, <1>6, <1>8, <2>1, SumFunctionTimes
<1>12. SumFunction(s) = SumFunction(p) + SumFunction(g)
  <2>1. s \in [Seats -> Int]
    BY <1>9
  <2>2. QED
    BY <1>1, <1>8, <1>9, <2>1, SumFunctionPlus
<1>13. SumFunction(s) = amount
  <2>1. n * q = q * n
    BY <1>2, <1>3
  <2>2. QED
    BY <1>3, <1>7, <1>11, <1>12, <2>1
<1>14. QED
  BY <1>9, <1>10, <1>13 DEF s

\* Some hand is the best.
LEMMA FindWinners ==
  ASSUME NEW eligible \in SUBSET Seats, eligible # {}, NEW ranking \in [Seats -> Nat]
  PROVE  /\ find_winners(eligible, ranking) \in SUBSET eligible
         /\ find_winners(eligible, ranking) # {}
<1> DEFINE h == [i \in eligible |-> ranking[i]]
<1>1. IsFiniteSet(eligible)
  BY SeatsFinite, FS_Subset
<1>2. h \in Surjection(eligible, Range(h))
  BY DEF Surjection, Range
<1>3. IsFiniteSet(Range(h))
  <2> HIDE DEF h
  <2>1. QED
    BY <1>1, <1>2, FS_Surjection
<1>4. Range(h) \in SUBSET Nat /\ Range(h) # {}
      /\ \A x : x \in Range(h) <=> \E i \in eligible : ranking[i] = x
  BY DEF Range
<1>5. PICK m \in Range(h) : \A y \in Range(h) : y <= m
  BY <1>3, <1>4, FiniteMaximum
<1>6. PICK i \in eligible : ranking[i] = m
  BY <1>4
<1>7. \A j \in eligible : ranking[j] <= ranking[i]
  BY <1>4, <1>5, <1>6
<1>8. QED
  BY <1>6, <1>7 DEF find_winners

\* One or two boards, each with a ranking.
LEMMA BoardsAre ==
  ASSUME NEW rankings \in Boards
  PROVE  /\ Len(rankings) \in {1, 2} /\ DOMAIN rankings = 1..Len(rankings)
         /\ \A r \in 1..Len(rankings) : rankings[r] \in [Seats -> Nat]
<1>1. Rankings \subseteq [Seats -> Nat]
  BY PlanAssumption
<1>2. CASE \E r \in Rankings : rankings = <<r>>
  <2>1. PICK r \in Rankings : rankings = <<r>>
    BY <1>2
  <2>2. Len(rankings) = 1 /\ DOMAIN rankings = 1..1 /\ rankings[1] = r
    BY <2>1
  <2>3. QED
    BY <1>1, <2>2
<1>3. CASE rankings \in Rankings \X Rankings
  <2>1. PICK r \in Rankings, t \in Rankings : rankings = <<r, t>>
    BY <1>3
  <2>2. Len(rankings) = 2 /\ DOMAIN rankings = 1..2 /\ rankings[1] = r /\ rankings[2] = t
    BY <2>1
  <2>3. QED
    BY <1>1, <2>2
<1>4. QED
  BY <1>2, <1>3 DEF Boards

\* The boards share out the whole amount.
LEMMA RunoutsAre ==
  ASSUME NEW amount \in Nat, NEW runouts \in {1, 2}
  PROVE  LET a == split_across_runouts(amount, runouts)
         IN  /\ \A r \in 1..runouts : a[r] \in Nat
             /\ SumFunction([r \in 1..runouts |-> a[r]]) = amount
<1> DEFINE a == split_across_runouts(amount, runouts)
           none == [r \in 1..0 |-> a[r]]
           one == [r \in 1..0 + 1 |-> a[r]]
           two == [r \in 1..1 + 1 |-> a[r]]
<1>1. SumFunction(none) = 0
  BY SumFunctionEmpty
<1>2. a[1] \in Nat => SumFunction(one) = a[1]
  <2> SUFFICES ASSUME a[1] \in Nat PROVE SumFunction(one) = a[1]
    OBVIOUS
  <2>1. /\ none \in [1..0 -> Int] /\ one \in [1..0 + 1 -> Int] /\ one[0 + 1] = a[1]
        /\ \A k \in 1..0 : one[k] = none[k]
    <3> HIDE DEF a
    <3>1. QED
      OBVIOUS
  <2> HIDE DEF none, one, a
  <2>2. SumFunction(one) = SumFunction(none) + one[0 + 1]
    BY <2>1, SumFunctionAppend
  <2>3. QED
    BY <1>1, <2>1, <2>2
<1>3. a[1] \in Nat /\ a[2] \in Nat => SumFunction(two) = a[1] + a[2]
  <2> SUFFICES ASSUME a[1] \in Nat, a[2] \in Nat PROVE SumFunction(two) = a[1] + a[2]
    OBVIOUS
  <2>1. /\ one \in [1..1 -> Int] /\ two \in [1..1 + 1 -> Int] /\ two[1 + 1] = a[2]
        /\ \A k \in 1..1 : two[k] = one[k]
    <3> HIDE DEF a
    <3>1. QED
      OBVIOUS
  <2> HIDE DEF one, two, a
  <2>2. SumFunction(two) = SumFunction(one) + two[1 + 1]
    BY <2>1, SumFunctionAppend
  <2>3. QED
    BY <1>2, <2>1, <2>2
<1>4. CASE runouts = 1
  <2>1. a[1] = amount
    BY <1>4 DEF split_across_runouts
  <2>2. one = [r \in 1..runouts |-> a[r]]
    BY <1>4
  <2> HIDE DEF a, one
  <2>3. QED
    BY <1>2, <1>4, <2>1, <2>2 DEF a
<1>5. CASE runouts = 2
  <2> DEFINE q == amount \div 2
             o == amount % 2
  <2>1. a[1] = q + o /\ a[2] = q
    BY <1>5 DEF split_across_runouts
  <2>2. q \in Nat /\ o \in Nat /\ amount = 2 * q + o
    OBVIOUS
  <2>3. two = [r \in 1..runouts |-> a[r]]
    BY <1>5
  <2> HIDE DEF a, two, q, o
  <2>4. a[1] \in Nat /\ a[2] \in Nat /\ a[1] + a[2] = amount
    BY <2>1, <2>2
  <2>5. \A r \in 1..runouts : a[r] \in Nat
    BY <1>5, <2>4
  <2>6. QED
    BY <1>3, <2>3, <2>4, <2>5 DEF a
<1>6. QED
  BY <1>4, <1>5

\* The awards of a layer are what it holds after the rake, and go to seats
\* that are eligible for it.
LEMMA PotAwardsAre ==
  ASSUME NEW pot \in Layer, pot.eligible # {}, NEW net \in Nat, NEW button \in Seats,
         NEW rankings \in Boards
  PROVE  LET s == pot_awards(pot, net, button, rankings)
         IN  /\ s \in [Seats -> Nat]
             /\ SumFunction(s) = net
             /\ \A i \in Seats : i \notin pot.eligible => s[i] = 0
<1> DEFINE E == pot.eligible
           n == Len(rankings)
           s == pot_awards(pot, net, button, rankings)
<1>1. E \in SUBSET Seats /\ E # {}
  BY DEF Layer
<1>2. CASE ~contested(pot)
  <2>1. s = split_among_winners(net, E, button)
    BY <1>2 DEF pot_awards
  <2> HIDE DEF E, s
  <2>2. /\ s \in [Seats -> Nat] /\ SumFunction(s) = net
        /\ \A i \in Seats : i \notin E => s[i] = 0
    BY <1>1, <2>1, SplitIs
  <2>3. QED
    BY <2>2 DEF s, E
<1>3. CASE contested(pot)
  <2> DEFINE a == split_across_runouts(net, n)
             board(r) == split_among_winners(a[r], find_winners(E, rankings[r]), button)
             f == [i \in Seats |-> [r \in 1..n |-> board(r)[i]]]
             totals == [r \in 1..n |-> a[r]]
  <2>1. n \in {1, 2} /\ DOMAIN rankings = 1..n /\ \A r \in 1..n : rankings[r] \in [Seats -> Nat]
    BY BoardsAre
  <2>2. s = [i \in Seats |-> SumFunction([r \in 1..n |-> board(r)[i]])]
    BY <1>3, <2>1 DEF pot_awards
  <2> HIDE DEF n
  <2>3. (\A r \in 1..n : a[r] \in Nat) /\ SumFunction(totals) = net
    BY <2>1, RunoutsAre
  <2> HIDE DEF a, E
  <2>4. ASSUME NEW r \in 1..n
        PROVE  /\ board(r) \in [Seats -> Nat] /\ SumFunction(board(r)) = a[r]
               /\ \A i \in Seats : i \notin E => board(r)[i] = 0
    <3> DEFINE w == find_winners(E, rankings[r])
    <3>1. w \in SUBSET E /\ w # {}
      BY <1>1, <2>1, FindWinners
    <3>2. w \in SUBSET Seats /\ a[r] \in Nat
      BY <1>1, <2>3, <3>1
    <3> HIDE DEF w
    <3>3. split_among_winners(a[r], w, button) \in [Seats -> Nat]
          /\ SumFunction(split_among_winners(a[r], w, button)) = a[r]
          /\ \A i \in Seats : i \notin w => split_among_winners(a[r], w, button)[i] = 0
      BY <3>1, <3>2, SplitIs
    <3>4. QED
      BY <3>1, <3>3 DEF w
  <2> HIDE DEF board
  <2> DEFINE g == [r \in 1..n |-> board(r)]
  <2>5. f \in [Seats -> [1..n -> Int]] /\ f \in [Seats -> [1..n -> Nat]]
        /\ g \in [1..n -> [Seats -> Int]] /\ \A i \in Seats, r \in 1..n : f[i][r] = g[r][i]
    BY <2>4
  <2>6. IsFiniteSet(Seats) /\ IsFiniteSet(1..n)
    BY <2>1, SeatsFinite, FS_Interval
  <2>7. s = [i \in Seats |-> SumFunction(f[i])]
    BY <2>2
  <2>8. totals \in [1..n -> Int] /\ \A r \in 1..n : totals[r] = SumFunction(g[r])
    BY <2>3, <2>4
  <2> HIDE DEF f, g, s, totals
  <2>9. s \in [Seats -> Nat] /\ s \in [Seats -> Int]
    <3>1. \A i \in Seats : SumFunction(f[i]) \in Nat
      BY <2>5, <2>6, SumFunctionType
    <3>2. QED
      BY <2>7, <3>1
  <2>10. SumFunction(s) = SumFunction(totals)
    <3>1. \A i \in Seats : s[i] = SumFunction(f[i])
      BY <2>7
    <3>2. Table(Seats, 1..n, f, g, s, totals)
      BY <2>5, <2>6, <2>8, <2>9, <3>1 DEF Table
    <3>3. QED
      BY <3>2, SumFunctionSwap
  <2>11. ASSUME NEW i \in Seats, i \notin E PROVE s[i] = 0
    <3>1. f[i] = [r \in 1..n |-> 0]
      BY <2>4, <2>11 DEF f
    <3>2. QED
      BY <2>6, <2>7, <3>1, SumFunctionZero
  <2>12. QED
    BY <2>3, <2>9, <2>10, <2>11 DEF s, E
<1>4. QED
  BY <1>2, <1>3

\* A function that is zero everywhere but in one place.
LEMMA SumSingle ==
  ASSUME NEW S, IsFiniteSet(S), NEW f \in [S -> Int], NEW x \in S,
         \A y \in S : y # x => f[y] = 0
  PROVE  SumFunction(f) = f[x]
<1> DEFINE z == [y \in S |-> 0]
<1>1. SumFunction(z) = 0
  BY SumFunctionZero
<1>2. z \in [S -> Int] /\ z[x] = 0 /\ \A y \in S \ {x} : f[y] = z[y]
  OBVIOUS
<1> HIDE DEF z
<1>3. SumFunction(f) = SumFunction(z) - z[x] + f[x]
  BY <1>2, SumFunctionUpdate
<1>4. QED
  BY <1>1, <1>2, <1>3

\* A seat that is alone in a layer gets what is in it.
LEMMA AloneTakesAll ==
  ASSUME NEW pot \in Layer, NEW i \in Seats, \A y : y \in pot.eligible <=> y = i, NEW net \in Nat,
         NEW button \in Seats, NEW rankings \in Boards
  PROVE  pot_awards(pot, net, button, rankings)[i] = net
<1> DEFINE s == pot_awards(pot, net, button, rankings)
<1>1. s \in [Seats -> Nat] /\ SumFunction(s) = net /\ \A y \in Seats : y # i => s[y] = 0
  <2>1. pot.eligible # {} /\ \A y : y # i => y \notin pot.eligible
    OBVIOUS
  <2>2. /\ s \in [Seats -> Nat] /\ SumFunction(s) = net
        /\ \A y \in Seats : y \notin pot.eligible => s[y] = 0
    <3>1. pot.eligible # {}
      BY <2>1
    <3>2. s = pot_awards(pot, net, button, rankings)
      OBVIOUS
    <3> HIDE DEF s
    <3>3. QED
      BY <3>1, <3>2, PotAwardsAre
  <2> HIDE DEF s
  <2>3. QED
    BY <2>1, <2>2
<1>2. IsFiniteSet(Seats) /\ s \in [Seats -> Int]
  BY <1>1, SeatsFinite
<1> HIDE DEF s
<1>3. SumFunction(s) = s[i]
  BY <1>1, <1>2, SumSingle
<1>4. QED
  BY <1>1, <1>3 DEF s

\* What each layer pays to each seat.
Award(bets, folded, all_in, button, rankings) ==
  LET pots == calculate_side_pots(bets, folded, all_in)
      rakes == allocate_rake_fixed_rate(pots)
  IN  [k \in DOMAIN pots |-> pot_awards(pots[k], pots[k].amount - rakes[k], button, rankings)]

-----------------------------------------------------------------------------
(* The settlement plan.                                                    *)

\* The arguments of a settlement: somebody in the hand put in something.
Arguments(bets, folded, all_in, button, rankings) ==
  /\ bets \in [Seats -> Nat] /\ all_in \in SUBSET Seats
  /\ button \in Seats /\ rankings \in Boards
  /\ \E j \in Seats \ folded : bets[j] > 0

\* The plan pays out what was put in, and its rake respects the cap and the rate.
LEMMA PlanIs ==
  ASSUME NEW bets, NEW folded, NEW all_in, NEW button, NEW rankings,
         Arguments(bets, folded, all_in, button, rankings)
  PROVE  LET pots == calculate_side_pots(bets, folded, all_in)
             A == Award(bets, folded, all_in, button, rankings)
             p == derive_settlement_plan(bets, folded, all_in, button, rankings)
         IN  /\ A \in [1..Len(pots) -> [Seats -> Nat]]
             /\ \A k \in 1..Len(pots) : \A i \in Seats :
                   /\ A[k][i] <= pots[k].amount
                   /\ i \notin pots[k].eligible => A[k][i] = 0
             /\ p.awards \in [Seats -> Nat]
             /\ \A i \in Seats : p.awards[i] = SumFunction([k \in 1..Len(pots) |-> A[k][i]])
             /\ p.rake \in Nat
             /\ SumFunction(p.awards) + p.rake = SumFunction(bets)
             /\ p.rake <= RakeCap
             /\ p.rake * 10000 <= RakeBps * SumFunction(bets)
<1> DEFINE pots == calculate_side_pots(bets, folded, all_in)
           n == Len(pots)
           D == 1..n
           rakes == allocate_rake_fixed_rate(pots)
           held == [k \in D |-> pots[k].amount]
           net == [k \in D |-> pots[k].amount - rakes[k]]
           A == Award(bets, folded, all_in, button, rankings)
           p == derive_settlement_plan(bets, folded, all_in, button, rankings)
<1>0. /\ bets \in [Seats -> Nat] /\ all_in \in SUBSET Seats
      /\ button \in Seats /\ rankings \in Boards
      /\ \E j \in Seats \ folded : bets[j] > 0
  BY DEF Arguments
<1> USE <1>0
<1>1. /\ pots \in Seq(Layer) /\ Held(pots) = SumFunction(bets)
      /\ \A k \in D : pots[k].eligible # {}
  BY SidePotsHold
<1>2. /\ A = [k \in DOMAIN pots |-> pot_awards(pots[k], pots[k].amount - rakes[k], button, rankings)]
      /\ p.rake = SumFunction(rakes)
      /\ p.awards = [i \in Seats |-> SumFunction([k \in DOMAIN pots |->
           pot_awards(pots[k], pots[k].amount - rakes[k], button, rankings)[i]])]
  BY DEF Award, derive_settlement_plan
<1> HIDE DEF pots, p, A
<1>3. /\ DOMAIN pots = D /\ IsFiniteSet(D) /\ held \in [D -> Nat]
      /\ \A k \in D : pots[k] \in Layer /\ pots[k].amount \in Nat
  BY <1>1, HeldType
<1>4. /\ rakes \in [D -> Nat]
      /\ \A k \in D : rakes[k] <= pots[k].amount
      /\ SumFunction(rakes) \in Nat /\ SumFunction(rakes) <= RakeCap
  BY <1>1, RakeIs
<1>4a. \A k \in D : 10000 * rakes[k] <= RakeBps * pots[k].amount
  BY <1>1, RakeIs
<1> HIDE DEF rakes, n, D
<1>5. net \in [D -> Nat] /\ \A k \in D : net[k] <= pots[k].amount
  BY <1>3, <1>4
<1>6. A = [k \in D |-> pot_awards(pots[k], net[k], button, rankings)]
  BY <1>2, <1>3
<1>7. p.awards = [i \in Seats |-> SumFunction([k \in D |-> A[k][i]])]
  <2>1. \A i \in Seats : [k \in DOMAIN pots |->
              pot_awards(pots[k], pots[k].amount - rakes[k], button, rankings)[i]]
            = [k \in D |-> A[k][i]]
    BY <1>2, <1>3
  <2>2. QED
    BY <1>2, <2>1
<1> HIDE DEF net, held
<1>8. ASSUME NEW k \in D
      PROVE  /\ A[k] \in [Seats -> Nat] /\ SumFunction(A[k]) = net[k]
             /\ \A i \in Seats : i \notin pots[k].eligible => A[k][i] = 0
             /\ \A i \in Seats : A[k][i] <= pots[k].amount
  <2> DEFINE s == A[k]
  <2>1. /\ s \in [Seats -> Nat] /\ SumFunction(s) = net[k]
        /\ \A i \in Seats : i \notin pots[k].eligible => s[i] = 0
    <3>1. pots[k] \in Layer /\ pots[k].eligible # {} /\ net[k] \in Nat
      BY <1>1, <1>3, <1>5
    <3>2. s = pot_awards(pots[k], net[k], button, rankings)
      BY <1>6
    <3> HIDE DEF s
    <3>3. QED
      BY <3>1, <3>2, PotAwardsAre
  <2>2. IsFiniteSet(Seats)
    BY SeatsFinite
  <2> HIDE DEF s
  <2>3. \A i \in Seats : s[i] <= net[k] /\ s[i] \in Nat
    BY <2>1, <2>2, SumFunctionSummand
  <2>4. net[k] \in Nat /\ pots[k].amount \in Nat /\ net[k] <= pots[k].amount
    BY <1>3, <1>5
  <2>5. \A i \in Seats : s[i] <= pots[k].amount
    BY <2>3, <2>4
  <2>6. QED
    BY <2>1, <2>5 DEF s
<1>9. A \in [D -> [Seats -> Nat]] /\ A \in [D -> [Seats -> Int]]
  BY <1>6, <1>8
<1> DEFINE f == [i \in Seats |-> [k \in D |-> A[k][i]]]
<1>10. /\ f \in [Seats -> [D -> Int]] /\ f \in [Seats -> [D -> Nat]]
       /\ \A i \in Seats, k \in D : f[i][k] = A[k][i]
       /\ \A i \in Seats : p.awards[i] = SumFunction(f[i])
  BY <1>7, <1>9
<1>11. p.awards \in [Seats -> Nat]
  <2>1. \A i \in Seats : SumFunction(f[i]) \in Nat
    <3> HIDE DEF f
    <3>1. QED
      BY <1>3, <1>10, SumFunctionType
  <2>2. QED
    BY <1>7, <2>1
<1>12. SumFunction(p.awards) = SumFunction(net)
  <2> HIDE DEF f
  <2>1. net \in [D -> Int] /\ \A k \in D : net[k] = SumFunction(A[k])
    BY <1>5, <1>8
  <2>2. p.awards \in [Seats -> Int]
    BY <1>11
  <2>3. IsFiniteSet(Seats)
    BY SeatsFinite
  <2>4. Table(Seats, D, f, A, p.awards, net)
    BY <1>3, <1>9, <1>10, <2>1, <2>2, <2>3 DEF Table
  <2>5. QED
    BY <2>4, SumFunctionSwap
<1>13. SumFunction(held) = SumFunction(net) + SumFunction(rakes)
  <2>1. held \in [D -> Int] /\ net \in [D -> Int] /\ rakes \in [D -> Int]
    BY <1>3, <1>4, <1>5
  <2>2. \A k \in D : held[k] = net[k] + rakes[k]
    BY <1>3, <1>4 DEF held, net
  <2>3. QED
    BY <1>3, <2>1, <2>2, SumFunctionPlus
<1>14. SumFunction(held) = SumFunction(bets)
  BY <1>1, <1>3 DEF Held, held
<1>15. SumFunction(p.awards) + p.rake = SumFunction(bets)
  BY <1>2, <1>12, <1>13, <1>14
<1>16. 10000 * SumFunction(rakes) <= RakeBps * SumFunction(held)
  <2> DEFINE lhs == [k \in D |-> 10000 * rakes[k]]
             rhs == [k \in D |-> RakeBps * held[k]]
  <2>1. RakeBps \in Nat /\ RakeBps \in Int
    BY SidePotsAssumption
  <2>2. \A k \in D : held[k] \in Nat /\ RakeBps * held[k] \in Int
                        /\ 10000 * rakes[k] <= RakeBps * held[k] /\ rakes[k] \in Nat
    BY <1>3, <1>4, <1>4a, <2>1 DEF held
  <2>3. lhs \in [D -> Int] /\ rhs \in [D -> Int] /\ \A k \in D : lhs[k] <= rhs[k]
    BY <2>2
  <2>4. (\A k \in D : lhs[k] = 10000 * rakes[k]) /\ \A k \in D : rhs[k] = RakeBps * held[k]
    OBVIOUS
  <2>5. rakes \in [D -> Int] /\ held \in [D -> Int]
    BY <1>3, <1>4
  <2> HIDE DEF lhs, rhs
  <2>5a. IsFiniteSet(D)
    BY <1>3
  <2> DEFINE c == 10000
  <2>6. SumFunction(lhs) = c * SumFunction(rakes)
    <3>1. c \in Int /\ \A k \in D : lhs[k] = c * rakes[k]
      BY <2>4
    <3> HIDE DEF c
    <3>2. QED
      BY <2>3, <2>5, <2>5a, <3>1, SumFunctionTimes
  <2>7. SumFunction(rhs) = RakeBps * SumFunction(held)
    <3>1. \A k \in D : rhs[k] = RakeBps * held[k]
      BY <2>4
    <3>2. rhs \in [D -> Int] /\ RakeBps \in Int
      BY <2>1, <2>3
    <3>3. QED
      BY <2>5, <2>5a, <3>1, <3>2, SumFunctionTimes
  <2>8. SumFunction(lhs) <= SumFunction(rhs)
    BY <1>3, <2>3, SumFunctionMonotone
  <2>9. QED
    BY <2>6, <2>7, <2>8
<1>17. p.rake * 10000 <= RakeBps * SumFunction(bets)
  <2>1. p.rake * 10000 = 10000 * SumFunction(rakes)
    BY <1>2, <1>4
  <2>2. QED
    BY <1>14, <1>16, <2>1
<1>18. p.rake \in Nat /\ p.rake <= RakeCap
  BY <1>2, <1>4
<1>19. \A i \in Seats : p.awards[i] = SumFunction([k \in D |-> A[k][i]])
  BY <1>7
<1>20. /\ A \in [D -> [Seats -> Nat]]
       /\ \A k \in D : \A i \in Seats :
             /\ A[k][i] <= pots[k].amount
             /\ i \notin pots[k].eligible => A[k][i] = 0
       /\ p.awards \in [Seats -> Nat]
       /\ \A i \in Seats : p.awards[i] = SumFunction([k \in D |-> A[k][i]])
       /\ p.rake \in Nat
       /\ SumFunction(p.awards) + p.rake = SumFunction(bets)
       /\ p.rake <= RakeCap
       /\ p.rake * 10000 <= RakeBps * SumFunction(bets)
  BY <1>8, <1>9, <1>11, <1>15, <1>17, <1>18, <1>19
<1>21. QED
  BY <1>20 DEF pots, n, D, A, p

\* The plan never pays more than was put in, and one that pays anybody pays
\* all of it.  It pays no seat that folded or put in nothing.
PaysWithin(p, bets, folded) ==
  /\ p.awards \in [Seats -> Nat] /\ p.rake \in Nat
  /\ SumFunction(p.awards) \in Nat
  /\ SumFunction(p.awards) + p.rake <= SumFunction(bets)
  /\ (\E i \in Seats : p.awards[i] > 0) => SumFunction(p.awards) + p.rake = SumFunction(bets)
  /\ \A i \in Seats : i \in folded \/ bets[i] = 0 => p.awards[i] = 0

\* This holds whoever is left in the hand.
LEMMA PlanPays ==
  ASSUME NEW bets \in [Seats -> Nat], NEW folded, NEW all_in \in SUBSET Seats, NEW button \in Seats,
         NEW rankings \in Boards
  PROVE  PaysWithin(derive_settlement_plan(bets, folded, all_in, button, rankings), bets, folded)
<1> DEFINE p == derive_settlement_plan(bets, folded, all_in, button, rankings)
           Live == \E j \in Seats \ folded : bets[j] > 0
<1>1. CASE Live
  <2>1. Arguments(bets, folded, all_in, button, rankings)
    BY <1>1 DEF Arguments
  <2>2. p.awards \in [Seats -> Nat] /\ p.rake \in Nat /\ SumFunction(p.awards) + p.rake = SumFunction(bets)
    BY <2>1, PlanIs
  <2> DEFINE pots == calculate_side_pots(bets, folded, all_in)
             A == Award(bets, folded, all_in, button, rankings)
             D == 1..Len(pots)
  <2>3. /\ A \in [D -> [Seats -> Nat]]
        /\ \A k \in D : \A i \in Seats : i \notin pots[k].eligible => A[k][i] = 0
        /\ \A i \in Seats : p.awards[i] = SumFunction([k \in D |-> A[k][i]])
    BY <2>1, PlanIs
  <2>4. /\ \A i \in folded : \A k \in D : i \notin pots[k].eligible
        /\ \A i \in Seats : bets[i] = 0 => \A k \in D : i \notin pots[k].eligible
        /\ pots \in Seq(Layer)
    BY SidePotsHold
  <2> HIDE DEF p, A, pots
  <2>5. IsFiniteSet(D)
    BY <2>4, HeldType
  <2> HIDE DEF D
  <2>6. \A i \in Seats : i \in folded \/ bets[i] = 0 => p.awards[i] = 0
    <3>1. SUFFICES ASSUME NEW i \in Seats, i \in folded \/ bets[i] = 0 PROVE p.awards[i] = 0
      OBVIOUS
    <3>2. \A k \in D : A[k][i] = 0
      BY <2>3, <2>4, <3>1
    <3>3. [k \in D |-> A[k][i]] = [k \in D |-> 0]
      BY <3>2
    <3>4. SumFunction([k \in D |-> 0]) = 0
      BY <2>5, SumFunctionZero
    <3>5. QED
      BY <2>3, <3>3, <3>4
  <2>7. SumFunction(p.awards) \in Nat
    BY <2>2, SeatsFinite, SumFunctionType
  <2>8. QED
    BY <2>2, <2>6, <2>7 DEF p, PaysWithin
<1>2. CASE ~Live
  <2> DEFINE pots == calculate_side_pots(bets, folded, all_in)
             D == 1..Len(pots)
             rakes == allocate_rake_fixed_rate(pots)
             award(k) == pot_awards(pots[k], pots[k].amount - rakes[k], button, rankings)
  <2>1. /\ p.rake = SumFunction(rakes)
        /\ p.awards = [i \in Seats |-> SumFunction([k \in DOMAIN pots |-> award(k)[i]])]
    BY DEF derive_settlement_plan
  <2>2. /\ pots \in Seq(Layer)
        /\ \A i \in folded : \A k \in D : i \notin pots[k].eligible
        /\ \A i \in Seats : bets[i] = 0 => \A k \in D : i \notin pots[k].eligible
    BY SidePotsHold
  <2> HIDE DEF pots, p
  <2>3. DOMAIN pots = D /\ IsFiniteSet(D) /\ \A k \in D : pots[k].eligible \subseteq Seats
    BY <2>2, HeldType DEF Layer
  <2>4. \A k \in D : pots[k].eligible = {}
    <3>1. \A i \in Seats : i \in folded \/ bets[i] = 0
      BY <1>2
    <3>2. QED
      BY <2>2, <2>3, <3>1
  <2>5. \A k \in D : ~contested(pots[k])
    <3>1. Cardinality({}) = 0
      BY FS_EmptySet
    <3> HIDE DEF D
    <3>2. SUFFICES ASSUME NEW k \in D PROVE ~(Cardinality(pots[k].eligible) >= 2)
      BY DEF contested
    <3>3. pots[k].eligible = {}
      BY <2>4
    <3>4. Cardinality(pots[k].eligible) = 0
      BY <3>1, <3>3
    <3>5. QED
      BY <3>4
  <2>6. rakes = [k \in D |-> 0]
    <3>1. rakes \in [D -> Nat] /\ \A k \in D : ~contested(pots[k]) => rakes[k] = 0
      BY <2>2, RakeIs
    <3> HIDE DEF rakes, D
    <3>2. QED
      BY <2>5, <3>1
  <2>7. \A k \in D : \A i \in Seats : award(k)[i] = 0
    BY <2>4, <2>5 DEF pot_awards, split_among_winners
  <2> HIDE DEF rakes, award, D
  <2>8. SumFunction([k \in D |-> 0]) = 0 /\ SumFunction([i \in Seats |-> 0]) = 0
    BY <2>3, SeatsFinite, SumFunctionZero
  <2>9. p.rake = 0
    BY <2>1, <2>6, <2>8
  <2>10. p.awards = [i \in Seats |-> 0]
    <3>1. \A i \in Seats : [k \in DOMAIN pots |-> award(k)[i]] = [k \in D |-> 0]
      BY <2>3, <2>7
    <3>2. QED
      BY <2>1, <2>8, <3>1
  <2>11. SumFunction(bets) \in Nat
    BY SeatsFinite, SumFunctionType
  <2>12. QED
    BY <2>8, <2>9, <2>10, <2>11 DEF p, PaysWithin
<1>3. QED
  BY <1>1, <1>2

-----------------------------------------------------------------------------
(* The specification.                                                      *)

Showdowns == [bets : [Seats -> Contributions], kind : [Seats -> {"active", "allin", "out"}],
              button : Buttons, boards : Boards]

Derived(h) ==
  derive_settlement_plan(h.bets, With(h, "out"), With(h, "allin"), h.button, h.boards)

\* The inductive invariant: the showdown stays one that closed betting can
\* leave, and a plan is the one derived from it.
Planned ==
  /\ showdown \in Showdowns
  /\ Closed(showdown)
  /\ Settled => plan = Derived(showdown)

\* What a showdown that closed betting left provides.
LEMMA ClosedShowdown ==
  ASSUME NEW h \in Showdowns, Closed(h)
  PROVE  /\ h.bets \in [Seats -> Nat] /\ h.button \in Seats /\ h.boards \in Boards
         /\ With(h, "allin") \in SUBSET Seats
         /\ \A i \in Seats : i \in InHand(h) <=> i \notin With(h, "out")
         /\ \E j \in Seats \ With(h, "out") : h.bets[j] > 0
<1>1. /\ h.bets \in [Seats -> Contributions] /\ h.kind \in [Seats -> {"active", "allin", "out"}]
      /\ h.button \in Buttons /\ h.boards \in Boards
  BY DEF Showdowns
<1>2. h.bets \in [Seats -> Nat] /\ h.button \in Seats
  BY <1>1, PlanAssumption
<1>3. \A i \in Seats : i \in InHand(h) <=> i \notin With(h, "out")
  BY <1>1 DEF InHand, With
<1>4. InHand(h) # {} /\ InHand(h) \subseteq Seats
  <2>1. InHand(h) = {} => Cardinality(InHand(h)) = 0
    BY FS_EmptySet
  <2>2. Cardinality(InHand(h)) >= 2
    BY DEF Closed
  <2>3. InHand(h) # {}
    BY <2>1, <2>2
  <2>4. QED
    BY <2>3 DEF InHand, With
<1>5. \A i \in InHand(h) : h.bets[i] > 0
  BY DEF Closed
<1>6. \E j \in Seats \ With(h, "out") : h.bets[j] > 0
  BY <1>3, <1>4, <1>5
<1>7. With(h, "allin") \in SUBSET Seats
  BY DEF With
<1>8. QED
  BY <1>1, <1>2, <1>3, <1>6, <1>7

\* What is known of the plan derived from it.
LEMMA DerivedPlan ==
  ASSUME NEW h \in Showdowns, Closed(h)
  PROVE  /\ Derived(h).awards \in [Seats -> Nat] /\ Derived(h).rake \in Nat
         /\ SumFunction(Derived(h).awards) + Derived(h).rake = SumFunction(h.bets)
         /\ Derived(h).rake <= RakeCap
         /\ Derived(h).rake * 10000 <= RakeBps * SumFunction(h.bets)
<1> DEFINE bets == h.bets
           folded == With(h, "out")
           all_in == With(h, "allin")
           button == h.button
           rankings == h.boards
           p == derive_settlement_plan(bets, folded, all_in, button, rankings)
<1>1. Arguments(bets, folded, all_in, button, rankings)
  BY ClosedShowdown DEF Arguments
<1>2. Derived(h) = p
  BY DEF Derived
<1> HIDE DEF bets, folded, all_in, button, rankings
<1>3. p = derive_settlement_plan(bets, folded, all_in, button, rankings)
  OBVIOUS
<1> HIDE DEF p
<1>4. /\ p.awards \in [Seats -> Nat] /\ p.rake \in Nat
      /\ SumFunction(p.awards) + p.rake = SumFunction(bets)
      /\ p.rake <= RakeCap
      /\ p.rake * 10000 <= RakeBps * SumFunction(bets)
  BY <1>1, <1>3, PlanIs
<1>5. QED
  BY <1>2, <1>4 DEF bets

-----------------------------------------------------------------------------
(* What a seat wins.                                                       *)

\* The larger of two numbers.
LEMMA MaxPair ==
  ASSUME NEW a \in Int, NEW b \in Int
  PROVE  Max({a, b}) = IF a >= b THEN a ELSE b
<1>1. \E x \in {a, b} : \A y \in {a, b} : x >= y
  OBVIOUS
<1>2. Max({a, b}) \in {a, b} /\ \A y \in {a, b} : Max({a, b}) >= y
  BY <1>1 DEF Max
<1>3. QED
  BY <1>2

\* The largest bet of some seats is the bet of one of them.
LEMMA LargestBet ==
  ASSUME NEW bets \in [Seats -> Nat], NEW T \in SUBSET Seats, T # {}
  PROVE  /\ Max({bets[j] : j \in T}) \in Nat
         /\ \E t \in T : bets[t] = Max({bets[j] : j \in T})
         /\ \A j \in T : bets[j] <= Max({bets[k] : k \in T})
<1> DEFINE S == {bets[j] : j \in T}
<1>1. IsFiniteSet(Range(bets))
  BY TopIs
<1>2. S \in SUBSET Range(bets) /\ S \in SUBSET Nat /\ S # {}
  BY DEF Range
<1>3. IsFiniteSet(S)
  BY <1>1, <1>2, FS_Subset
<1>4. Max(S) \in S /\ \A y \in S : y <= Max(S)
  <2> HIDE DEF S
  <2>1. QED
    BY <1>2, <1>3, MaxIs
<1>5. QED
  BY <1>4

\* A seat wins at most its share of the side pots.
LEMMA AwardWithinShare ==
  ASSUME NEW bets, NEW folded, NEW all_in, NEW button, NEW rankings,
         Arguments(bets, folded, all_in, button, rankings), NEW i \in Seats
  PROVE  LET pots == calculate_side_pots(bets, folded, all_in)
             p == derive_settlement_plan(bets, folded, all_in, button, rankings)
         IN  /\ p.awards[i] \in Nat
             /\ p.awards[i] <= Share(pots, i)
             /\ (\A k \in 1..Len(pots) : i \notin pots[k].eligible) => p.awards[i] = 0
<1> DEFINE pots == calculate_side_pots(bets, folded, all_in)
           D == 1..Len(pots)
           A == Award(bets, folded, all_in, button, rankings)
           p == derive_settlement_plan(bets, folded, all_in, button, rankings)
           a == [k \in D |-> A[k][i]]
           c == [k \in D |-> IF i \in pots[k].eligible THEN pots[k].amount ELSE 0]
<1>1. /\ A \in [D -> [Seats -> Nat]]
      /\ \A k \in D : A[k][i] <= pots[k].amount /\ (i \notin pots[k].eligible => A[k][i] = 0)
      /\ p.awards \in [Seats -> Nat]
      /\ p.awards[i] = SumFunction(a)
  BY PlanIs
<1>2. pots \in Seq(Layer)
  BY SidePotsHold DEF Arguments
<1>3. DOMAIN pots = D /\ IsFiniteSet(D) /\ \A k \in D : pots[k].amount \in Nat
  BY <1>2, HeldType
<1>4. Share(pots, i) = SumFunction(c)
  BY <1>3 DEF Share
<1> HIDE DEF pots, D, A, p
<1>5. a \in [D -> Int] /\ c \in [D -> Int] /\ \A k \in D : a[k] <= c[k]
  BY <1>1, <1>3
<1>6. (\A k \in D : i \notin pots[k].eligible) => a = [k \in D |-> 0]
  BY <1>1
<1> HIDE DEF a, c
<1>7. SumFunction(a) <= SumFunction(c)
  BY <1>3, <1>5, SumFunctionMonotone
<1>8. (\A k \in D : i \notin pots[k].eligible) => SumFunction(a) = 0
  BY <1>3, <1>6, SumFunctionZero
<1>9. QED
  BY <1>1, <1>4, <1>7, <1>8 DEF pots, D, p

\* What is put in above a level and what is put in up to it.
LEMMA AboveAndBelow ==
  ASSUME NEW bets \in [Seats -> Nat], NEW top \in Nat
  PROVE  SumFunction([j \in Seats |-> Max({bets[j] - top, 0})]) = SumFunction(bets) - Below(bets, top)
<1> DEFINE hi == [j \in Seats |-> Max({bets[j] - top, 0})]
           lo == [j \in Seats |-> Min({bets[j], top})]
<1>1. \A j \in Seats : Min({bets[j], top}) = IF bets[j] <= top THEN bets[j] ELSE top
  BY MinPair
<1>2. \A j \in Seats : Max({bets[j] - top, 0}) = IF bets[j] - top >= 0 THEN bets[j] - top ELSE 0
  BY MaxPair
<1>3. /\ lo \in [Seats -> Int] /\ hi \in [Seats -> Int] /\ bets \in [Seats -> Int]
      /\ \A j \in Seats : bets[j] = hi[j] + lo[j]
  BY <1>1, <1>2
<1>4. Below(bets, top) = SumFunction(lo)
  BY DEF Below
<1>5. IsFiniteSet(Seats)
  BY SeatsFinite
<1> HIDE DEF lo, hi
<1>6. SumFunction(bets) = SumFunction(hi) + SumFunction(lo)
  BY <1>3, <1>5, SumFunctionPlus
<1>7. SumFunction(hi) \in Int /\ SumFunction(lo) \in Int
  BY <1>3, <1>5, SumFunctionType
<1>8. QED
  BY <1>4, <1>6, <1>7 DEF hi

\* A seat wins at most what it matched and what no seat in the hand put in.
LEMMA WinsAtMost ==
  ASSUME NEW h \in Showdowns, Closed(h), NEW i \in Seats
  PROVE  LET top == Max({h.bets[j] : j \in InHand(h)})
         IN  Derived(h).awards[i] <=
               SumFunction([j \in Seats |-> Min({h.bets[i], h.bets[j]})])
                 + SumFunction([j \in Seats |-> Max({h.bets[j] - top, 0})])
<1> DEFINE bets == h.bets
           folded == With(h, "out")
           all_in == With(h, "allin")
           button == h.button
           rankings == h.boards
           p == derive_settlement_plan(bets, folded, all_in, button, rankings)
           pots == calculate_side_pots(bets, folded, all_in)
           top == Max({bets[j] : j \in InHand(h)})
           b == bets[i]
<1>1. /\ bets \in [Seats -> Nat] /\ button \in Seats /\ rankings \in Boards
      /\ all_in \in SUBSET Seats
      /\ \A j \in Seats : j \in InHand(h) <=> j \notin folded
      /\ \E j \in Seats \ folded : bets[j] > 0
  BY ClosedShowdown
<1>2. Arguments(bets, folded, all_in, button, rankings)
  BY <1>1 DEF Arguments
<1>3. InHand(h) \in SUBSET Seats /\ InHand(h) # {}
  BY <1>1 DEF InHand, With
<1>4. top \in Nat /\ (\E t \in InHand(h) : bets[t] = top) /\ \A j \in InHand(h) : bets[j] <= top
  <2> HIDE DEF bets
  <2>1. QED
    BY <1>1, <1>3, LargestBet
<1>5. PICK t \in InHand(h) : bets[t] = top
  BY <1>4
<1>6. t \in Seats /\ t \notin folded
  BY <1>1, <1>3
<1>7. i \notin folded => i \in all_in \/ b = top
  <2> SUFFICES ASSUME i \notin folded, i \notin all_in PROVE b = top
    OBVIOUS
  <2>1. i \in InHand(h) /\ i \in With(h, "active")
    BY <1>1 DEF InHand
  <2>2. bets[t] <= bets[i]
    BY <2>1 DEF Closed
  <2>3. bets[i] <= top /\ bets[i] \in Nat
    BY <1>1, <1>4, <2>1
  <2>4. QED
    BY <1>4, <1>5, <2>2, <2>3
<1>8. Derived(h).awards[i] = p.awards[i]
  BY DEF Derived
<1>9. SumFunction([j \in Seats |-> Min({h.bets[i], h.bets[j]})]) = Below(bets, b)
  <2>1. \A j \in Seats : {h.bets[i], h.bets[j]} = {bets[j], b}
    OBVIOUS
  <2>2. QED
    BY <2>1 DEF Below
<1>10. SumFunction([j \in Seats |-> Max({h.bets[j] - top, 0})]) = SumFunction(bets) - Below(bets, top)
  <2> HIDE DEF top
  <2>1. SumFunction([j \in Seats |-> Max({bets[j] - top, 0})]) = SumFunction(bets) - Below(bets, top)
    <3> HIDE DEF bets
    <3>1. QED
      BY <1>1, <1>4, AboveAndBelow
  <2>2. QED
    BY <2>1
<1> HIDE DEF bets, folded, all_in, button, rankings, top
<1>11. /\ p.awards[i] \in Nat /\ p.awards[i] <= Share(pots, i)
       /\ (\A k \in 1..Len(pots) : i \notin pots[k].eligible) => p.awards[i] = 0
  BY <1>2, AwardWithinShare
<1>12. p.awards[i] <= Below(bets, b) + (SumFunction(bets) - Below(bets, top))
  <2>1. CASE i \notin folded
    <3>1. \A j \in Seats : j \notin folded => bets[j] <= bets[t]
      BY <1>1, <1>4, <1>5
    <3>2. i \in all_in \/ bets[i] = bets[t]
      BY <1>5, <1>7, <2>1
    <3>3. /\ Share(pots, i) \in Nat
          /\ Share(pots, i) <= Below(bets, bets[i]) + (SumFunction(bets) - Below(bets, bets[t]))
      BY <1>1, <1>6, <2>1, <3>1, <3>2, ShareBound
    <3>4. \A c \in Nat : Below(bets, c) \in Nat
      BY <1>1, BelowIs
    <3>5. Below(bets, bets[i]) \in Nat /\ Below(bets, top) \in Nat /\ SumFunction(bets) \in Nat
      <4>1. IsFiniteSet(Seats)
        BY SeatsFinite
      <4>2. QED
        BY <1>1, <1>4, <3>4, <4>1, SumFunctionType
    <3> HIDE DEF pots, p
    <3>6. QED
      BY <1>5, <1>11, <3>3, <3>5
  <2>2. CASE i \in folded
    <3>1. \A k \in 1..Len(pots) : i \notin pots[k].eligible
      BY <1>1, <2>2, SidePotsHold
    <3>2. p.awards[i] = 0
      BY <1>11, <3>1
    <3>3. b \in Nat /\ Top(bets) \in Nat /\ top <= Top(bets)
      BY <1>1, <1>5, <1>6, TopIs
    <3>4. Below(bets, b) \in Nat /\ Below(bets, Top(bets)) = SumFunction(bets)
      BY <1>1, <3>3, BelowIs
    <3>5. /\ Below(bets, top) \in Nat /\ Below(bets, Top(bets)) \in Nat
          /\ Below(bets, top) <= Below(bets, Top(bets))
      BY <1>1, <1>4, <3>3, BelowMonotone
    <3> HIDE DEF p
    <3>6. QED
      BY <3>2, <3>4, <3>5
  <2>3. QED
    BY <2>1, <2>2
<1>13. QED
  BY <1>8, <1>9, <1>10, <1>12 DEF top, bets

\* The seat in the hand that put in the most gets its lead back.
LEMMA LeadReturned ==
  ASSUME NEW h \in Showdowns, Closed(h), NEW i \in InHand(h)
  PROVE  Derived(h).awards[i] >= h.bets[i] - Max({h.bets[j] : j \in Seats \ {i}})
<1> DEFINE bets == h.bets
           folded == With(h, "out")
           all_in == With(h, "allin")
           button == h.button
           rankings == h.boards
           p == derive_settlement_plan(bets, folded, all_in, button, rankings)
           pots == calculate_side_pots(bets, folded, all_in)
           n == Len(pots)
           rakes == allocate_rake_fixed_rate(pots)
           A == Award(bets, folded, all_in, button, rankings)
           m == Max({bets[j] : j \in Seats \ {i}})
<1>1. /\ bets \in [Seats -> Nat] /\ button \in Seats /\ rankings \in Boards
      /\ all_in \in SUBSET Seats
      /\ \A j \in Seats : j \in InHand(h) <=> j \notin folded
      /\ \E j \in Seats \ folded : bets[j] > 0
  BY ClosedShowdown
<1>2. Arguments(bets, folded, all_in, button, rankings)
  BY <1>1 DEF Arguments
<1>3. i \in Seats /\ i \notin folded
  BY <1>1 DEF InHand, With
<1>4. m \in Nat /\ \A j \in Seats : j # i => bets[j] <= m
  <2>1. Seats \ {i} # {} /\ Seats \ {i} \in SUBSET Seats
    <3>1. 0 \in Seats /\ 1 \in Seats
      BY SidePotsAssumption DEF Seats
    <3>2. QED
      BY <3>1
  <2>2. \A j \in Seats \ {i} : bets[j] <= m
    <3> HIDE DEF bets
    <3>1. QED
      BY <1>1, <2>1, LargestBet
  <2>3. m \in Nat
    <3> HIDE DEF bets
    <3>1. QED
      BY <1>1, <2>1, LargestBet
  <2>4. QED
    BY <2>2, <2>3
<1>5. Derived(h).awards[i] = p.awards[i]
  BY DEF Derived
<1>6. ASSUME bets[i] > m
      PROVE  \A j \in Seats : j # i /\ j \notin folded => j \in all_in
  <2> SUFFICES ASSUME NEW j \in Seats, j # i, j \notin folded, j \notin all_in PROVE FALSE
    OBVIOUS
  <2>1. j \in InHand(h) /\ j \in With(h, "active")
    BY <1>1 DEF InHand
  <2>2. bets[i] <= bets[j]
    BY <2>1 DEF Closed
  <2>3. bets[j] <= m /\ bets[i] \in Nat /\ bets[j] \in Nat
    BY <1>1, <1>3, <1>4
  <2>4. QED
    BY <1>4, <1>6, <2>2, <2>3
<1> HIDE DEF bets, folded, all_in, button, rankings, m
<1>7. /\ A \in [1..n -> [Seats -> Nat]]
      /\ p.awards \in [Seats -> Nat]
      /\ \A k \in Seats : p.awards[k] = SumFunction([q \in 1..n |-> A[q][k]])
  BY <1>2, PlanIs
<1>8. pots \in Seq(Layer)
  BY <1>1, SidePotsHold
<1>9. /\ n \in Nat /\ DOMAIN pots = 1..n /\ IsFiniteSet(1..n)
      /\ \A k \in 1..n : pots[k] \in Layer /\ pots[k].amount \in Nat
  BY <1>8, HeldType
<1>10. p.awards[i] \in Nat
  BY <1>3, <1>7
<1>11. CASE ~(bets[i] > m)
  <2> HIDE DEF p
  <2>1. bets[i] \in Nat
    BY <1>1, <1>3
  <2>2. p.awards[i] >= bets[i] - m
    BY <1>4, <1>10, <1>11, <2>1
  <2>3. QED
    BY <1>5, <2>2 DEF p, m, bets
<1>12. CASE bets[i] > m
  <2>1. /\ n \in 1..n
        /\ \A y : y \in pots[n].eligible <=> y = i
        /\ pots[n].amount >= bets[i] - m
    BY <1>1, <1>3, <1>4, <1>6, <1>12, UncalledLayer
  <2>2. ~contested(pots[n])
    <3>1. pots[n].eligible = {i}
      BY <2>1
    <3>2. Cardinality({i}) = 1
      BY FS_Singleton
    <3>3. QED
      BY <3>1, <3>2 DEF contested
  <2>3. rakes[n] = 0
    BY <1>8, <2>1, <2>2, RakeIs
  <2>4. A[n] = pot_awards(pots[n], pots[n].amount - rakes[n], button, rankings)
    BY <1>9, <2>1 DEF Award
  <2> DEFINE pot == pots[n]
             x == pot.amount
  <2>5. pot \in Layer /\ x \in Nat /\ (\A y : y \in pot.eligible <=> y = i) /\ x - rakes[n] = x
    BY <1>9, <2>1, <2>3
  <2>6. A[n] = pot_awards(pot, x, button, rankings)
    BY <2>4, <2>5
  <2> HIDE DEF pot, x
  <2>7. A[n][i] = x
    BY <1>1, <1>3, <2>5, <2>6, AloneTakesAll
  <2> DEFINE a == [q \in 1..n |-> A[q][i]]
  <2> HIDE DEF n, A
  <2>8. a \in [1..n -> Nat] /\ a[n] = x /\ p.awards[i] = SumFunction(a)
    BY <1>3, <1>7, <2>1, <2>7
  <2> HIDE DEF a, p
  <2>9. a[n] <= SumFunction(a)
    BY <1>9, <2>1, <2>8, SumFunctionSummand
  <2>10. bets[i] \in Nat /\ x >= bets[i] - m
    BY <1>1, <1>3, <2>1 DEF x, pot
  <2>11. p.awards[i] >= bets[i] - m
    BY <1>4, <1>10, <2>5, <2>8, <2>9, <2>10
  <2>12. QED
    BY <1>5, <2>11 DEF p, m, bets
<1>13. QED
  BY <1>11, <1>12

\* The invariant holds of every reachable state.
LEMMA PlannedInvariant == Spec => []Planned
<1>1. Init => Planned
  BY DEF Init, Planned, Settled, Showdowns
<1>2. Planned /\ [Next]_vars => Planned'
  <2> SUFFICES ASSUME Planned, [Next]_vars PROVE Planned'
    OBVIOUS
  <2>1. CASE settle_hand
    BY <2>1 DEF Planned, settle_hand, Settled, Derived
  <2>2. CASE UNCHANGED vars
    BY <2>2 DEF Planned, vars, Settled
  <2>3. QED
    BY <2>1, <2>2 DEF Next
<1>3. QED
  BY <1>1, <1>2, PTL DEF Spec

\* Awards and rake add up to what was put in, whatever the contributions, the
\* all-ins, the rankings and the number of boards (derive_settlement_plan).
THEOREM PlanConserved == Spec => []PlanConserves
<1>1. Planned => PlanConserves
  <2> SUFFICES ASSUME Planned, Settled
               PROVE  SumFunction(plan.awards) + plan.rake = SumFunction(showdown.bets)
    BY DEF PlanConserves
  <2> DEFINE h == showdown
  <2>1. h \in Showdowns /\ Closed(h) /\ plan = Derived(h)
    BY DEF Planned
  <2> HIDE DEF h
  <2>2. SumFunction(plan.awards) + plan.rake = SumFunction(h.bets)
    BY <2>1, DerivedPlan
  <2>3. QED
    BY <2>2 DEF h
<1>2. QED
  BY <1>1, PlannedInvariant, PTL

\* The layers of a hand together pay at most the cap, and at most the rate
\* (allocate_rake_fixed_rate).
THEOREM RakeWithinBounds == Spec => []RakeBounded
<1>1. Planned => RakeBounded
  <2> SUFFICES ASSUME Planned, Settled
               PROVE  /\ plan.rake <= RakeCap
                      /\ plan.rake * 10000 <= RakeBps * SumFunction(showdown.bets)
    BY DEF RakeBounded
  <2> DEFINE h == showdown
  <2>1. h \in Showdowns /\ Closed(h) /\ plan = Derived(h)
    BY DEF Planned
  <2> HIDE DEF h
  <2>2. plan.rake <= RakeCap /\ plan.rake * 10000 <= RakeBps * SumFunction(h.bets)
    BY <2>1, DerivedPlan
  <2>3. QED
    BY <2>2 DEF h
<1>2. QED
  BY <1>1, PlannedInvariant, PTL

\* An all-in seat wins at most what it matched of every other seat, and on top of
\* it only what no seat left in the hand put in (calculate_side_pots).
THEOREM AllInWinsItsMatch == Spec => []WinsWhatItMatched
<1>1. Planned => WinsWhatItMatched
  <2> SUFFICES ASSUME Planned, Settled, NEW i \in Seats
               PROVE  plan.awards[i] <=
                        SumFunction([j \in Seats |-> Min({bet(i), bet(j)})]) + Orphaned
    BY DEF WinsWhatItMatched
  <2> DEFINE h == showdown
  <2>1. h \in Showdowns /\ Closed(h) /\ plan = Derived(h)
    BY DEF Planned
  <2>2. Orphaned = LET top == Max({h.bets[j] : j \in InHand(h)})
                   IN  SumFunction([j \in Seats |-> Max({h.bets[j] - top, 0})])
    BY DEF Orphaned, bet
  <2>3. \A j \in Seats : bet(j) = h.bets[j]
    BY DEF bet
  <2>4. SumFunction([j \in Seats |-> Min({bet(i), bet(j)})])
          = SumFunction([j \in Seats |-> Min({h.bets[i], h.bets[j]})])
    BY DEF bet
  <2> HIDE DEF h
  <2>5. QED
    BY <2>1, <2>2, <2>4, WinsAtMost
<1>2. QED
  BY <1>1, PlannedInvariant, PTL

\* A bet that nobody matched returns to its owner in full, without rake
\* (calculate_side_pots and allocate_rake_fixed_rate).
THEOREM UncalledReturned == Spec => []UncalledBetReturned
<1>1. Planned => UncalledBetReturned
  <2> SUFFICES ASSUME Planned, Settled, NEW i \in InHand(showdown)
               PROVE  plan.awards[i] >= bet(i) - Max({bet(j) : j \in Seats \ {i}})
    BY DEF UncalledBetReturned
  <2> DEFINE h == showdown
  <2>1. h \in Showdowns /\ Closed(h) /\ plan = Derived(h)
    BY DEF Planned
  <2>2. bet(i) - Max({bet(j) : j \in Seats \ {i}}) = h.bets[i] - Max({h.bets[j] : j \in Seats \ {i}})
    BY DEF bet
  <2>3. i \in InHand(h)
    OBVIOUS
  <2> HIDE DEF h
  <2>4. QED
    BY <2>1, <2>2, <2>3, LeadReturned
<1>2. QED
  BY <1>1, PlannedInvariant, PTL

-----------------------------------------------------------------------------
(* The side pots, chip by chip.                                            *)

\* A layer somebody reaches into is not empty.
LEMMA SlicePositive ==
  ASSUME NEW bets \in [Seats -> Nat], NEW folded, NEW prev \in Nat, NEW level \in Nat,
         prev < level, NEW i \in Seats, bets[i] > prev
  PROVE  slice_layer(bets, folded, prev, level).amount > 0
<1> DEFINE d == [j \in Seats |->
                   IF bets[j] > prev THEN Min({bets[j], level}) - prev ELSE 0]
<1>1. \A j \in Seats : Min({bets[j], level}) = IF bets[j] <= level THEN bets[j] ELSE level
  BY MinPair
<1>2. d \in [Seats -> Nat] /\ d[i] > 0
  BY <1>1
<1>3. slice_layer(bets, folded, prev, level).amount = SumFunction(d)
  BY DEF slice_layer
<1> HIDE DEF d
<1>4. d[i] <= SumFunction(d) /\ SumFunction(d) \in Nat /\ d[i] \in Nat
  BY <1>2, SeatsFinite, SumFunctionSummand, SumFunctionType
<1>5. QED
  BY <1>2, <1>3, <1>4

\* As long as every layer holds something and can be won, each is a pot of its own.
LEMMA OneByOne ==
  ASSUME NEW bets \in [Seats -> Nat], NEW folded, NEW all_in \in SUBSET Seats,
         NEW f, Steps(f, bets, folded, all_in),
         NEW m \in 0..Len(levels(bets, all_in)),
         \A k \in 1..m : /\ Layers(bets, folded, all_in)[k].amount > 0
                         /\ Layers(bets, folded, all_in)[k].eligible # {}
  PROVE  Len(f[m]) = m /\ \A k \in 1..m : f[m][k] = Layers(bets, folded, all_in)[k]
<1> DEFINE n == Len(levels(bets, all_in))
           L == Layers(bets, folded, all_in)
           Good(k) == Len(f[k]) = k /\ \A q \in 1..k : f[k][q] = L[q]
           Bad == {k \in 0..m : ~Good(k)}
<1>1. /\ f[0] = <<>> /\ \A k \in 1..n : f[k] = record_layer(f[k - 1], L[k])
      /\ \A k \in 0..n : f[k] \in Seq(Layer)
  BY DEF Steps
<1>2. n \in Nat /\ m \in Nat /\ m <= n
  BY LevelsAscend
<1>3. \A k \in 1..n : L[k] \in Layer
  BY Slices
<1>4. \A k \in 1..m : L[k].amount > 0 /\ L[k].eligible # {}
  OBVIOUS
<1> HIDE DEF n, L
<1>5. SUFFICES ASSUME Bad # {} PROVE FALSE
  BY <1>2 DEF L
<1>6. PICK k \in Bad : \A q \in Bad : k <= q
  <2>1. Bad \in SUBSET Nat
    OBVIOUS
  <2> HIDE DEF Bad
  <2>2. QED
    BY <1>5, <2>1, NatMinimum
<1>7. Good(0)
  BY <1>1, EmptySeq
<1>8. k \in 1..m /\ k \in 1..n /\ k - 1 \in 0..m /\ k - 1 \in 0..n /\ Good(k - 1)
  <2>1. k # 0
    BY <1>6, <1>7
  <2>2. k \in 1..m /\ k \in 1..n /\ k - 1 \in 0..m /\ k - 1 \in 0..n /\ k > k - 1
    BY <1>2, <1>6, <2>1
  <2>3. QED
    BY <1>6, <2>2
<1>9. /\ Len(f[k - 1]) = k - 1 /\ \A q \in 1..k - 1 : f[k - 1][q] = L[q]
      /\ f[k] = record_layer(f[k - 1], L[k]) /\ f[k - 1] \in Seq(Layer) /\ L[k] \in Layer
      /\ L[k].amount # 0 /\ L[k].eligible # {}
  BY <1>1, <1>3, <1>4, <1>8
<1>10. /\ Len(f[k]) = k /\ f[k][k] = L[k]
       /\ \A q \in 1..k - 1 : f[k][q] = f[k - 1][q]
  <2> DEFINE old == f[k - 1]
             layer == L[k]
             new == record_layer(old, layer)
  <2>1. old \in Seq(Layer) /\ layer \in Layer /\ layer.amount # 0 /\ layer.eligible # {}
    BY <1>9
  <2>2. f[k] = new /\ Len(old) = k - 1
    BY <1>9
  <2> HIDE DEF old, layer
  <2>3. /\ Len(new) = Len(old) + 1 /\ new[Len(old) + 1] = layer
        /\ \A q \in 1..Len(old) : new[q] = old[q]
    BY <2>1, RecordShape
  <2>4. (k - 1) + 1 = k
    BY <1>8
  <2> HIDE DEF new
  <2>5. QED
    BY <2>2, <2>3, <2>4 DEF old, layer
<1>11. Good(k)
  <2>1. \A q \in 1..k : q = k \/ q \in 1..k - 1
    BY <1>8
  <2>2. QED
    BY <1>9, <1>10, <2>1
<1>12. QED
  BY <1>6, <1>11

\* What betting that was closed makes of the layers: each holds something, each
\* but the last ends at the bet of an all-in seat, only the last may have
\* nobody to win it, and who reaches into a layer fills it or put in the most.
LEMMA ClosedLayers ==
  ASSUME NEW h \in Showdowns, Closed(h)
  PROVE  LET n == Len(levels(h.bets, With(h, "allin")))
             L == Layers(h.bets, With(h, "out"), With(h, "allin"))
             cap(k) == Cap(h.bets, With(h, "allin"), k)
         IN  /\ n \in Nat /\ n > 0
             /\ \A k \in 1..n :
                  /\ L[k].amount > 0
                  /\ L[k].eligible = {i \in InHand(h) : h.bets[i] > cap(k - 1)}
                  /\ \A i \in L[k].eligible :
                       h.bets[i] >= cap(k) \/ \A j \in InHand(h) : h.bets[j] <= h.bets[i]
                  /\ k < n => /\ \E j \in InHand(h) : h.bets[j] = cap(k)
                              /\ L[k].eligible # {}
             /\ n = 1 => L[1].eligible # {}
<1> DEFINE bets == h.bets
           out == With(h, "out")
           all_in == With(h, "allin")
           n == Len(levels(bets, all_in))
           L == Layers(bets, out, all_in)
           cap(k) == Cap(bets, all_in, k)
           in == InHand(h)
<1>1. /\ bets \in [Seats -> Nat] /\ all_in \in SUBSET Seats
      /\ \A i \in Seats : i \in in <=> i \notin out
      /\ \E j \in Seats \ out : bets[j] > 0
  BY ClosedShowdown
<1>2. /\ in \subseteq Seats /\ all_in \subseteq in
      /\ \A i \in in : bets[i] > 0
      /\ \A i \in in : i \in all_in \/ \A j \in in : bets[j] <= bets[i]
  BY DEF InHand, With, Closed
<1>3. /\ n \in Nat /\ \A k \in 0..n : cap(k) \in Nat
      /\ cap(0) = 0 /\ cap(n) = Top(bets)
      /\ \A j, k \in 0..n : j < k => cap(j) < cap(k)
      /\ \A k \in 1..n : cap(k) = Top(bets) \/ \E j \in all_in : cap(k) = bets[j]
      /\ \A j \in all_in : bets[j] > 0 => \E k \in 1..n : cap(k) = bets[j]
  BY <1>1, CapIs
<1>4. \A k \in 1..n : /\ L[k] = slice_layer(bets, out, cap(k - 1), cap(k))
                      /\ \A j : j \in L[k].eligible <=> j \in Seats /\ bets[j] > cap(k - 1) /\ j \notin out
  BY <1>1, Slices
<1>5. /\ Top(bets) \in Nat /\ \A j \in Seats : bets[j] <= Top(bets)
      /\ \E t \in Seats : bets[t] = Top(bets)
  BY <1>1, TopIs DEF Range
<1> HIDE DEF bets, out, all_in, n, L, cap, in
<1>6. n > 0
  <2>1. Top(bets) > 0
    BY <1>1, <1>5
  <2>2. QED
    BY <1>3, <2>1
<1>7. ASSUME NEW k \in 1..n
      PROVE  /\ k \in 0..n /\ k - 1 \in 0..n /\ cap(k - 1) < cap(k) /\ cap(k) <= Top(bets)
             /\ cap(k) \in Nat /\ cap(k - 1) \in Nat
  <2>1. k \in 0..n /\ k - 1 \in 0..n /\ k - 1 < k /\ (k = n \/ k < n) /\ n \in 0..n
    BY <1>3
  <2>2. cap(k) <= Top(bets)
    BY <1>3, <1>5, <2>1
  <2>3. QED
    BY <1>3, <2>1, <2>2
<1>8. ASSUME NEW k \in 1..n PROVE L[k].amount > 0
  <2>1. PICK t \in Seats : bets[t] = Top(bets)
    BY <1>5
  <2>2. bets[t] > cap(k - 1)
    BY <1>5, <1>7, <2>1
  <2>3. QED
    BY <1>1, <1>4, <1>7, <2>2, SlicePositive
<1>9. ASSUME NEW k \in 1..n PROVE L[k].eligible = {i \in in : bets[i] > cap(k - 1)}
  BY <1>1, <1>2, <1>4
<1>10. ASSUME NEW k \in 1..n, NEW i \in in, bets[i] > cap(k - 1)
       PROVE  bets[i] >= cap(k) \/ \A j \in in : bets[j] <= bets[i]
  <2>1. CASE i \in all_in
    <3>1. PICK q \in 1..n : cap(q) = bets[i]
      BY <1>2, <1>3, <2>1
    <3>2. q \in 0..n /\ cap(q) > cap(k - 1) /\ k - 1 \in 0..n /\ cap(q) \in Nat
      BY <1>3, <1>7, <1>10, <3>1
    <3>3. q >= k
      <4>1. CASE q < k - 1
        BY <1>3, <1>7, <3>2, <4>1
      <4>2. CASE q = k - 1
        BY <1>7, <3>2, <4>2
      <4>3. QED
        BY <1>3, <4>1, <4>2
    <3>4. q = k \/ cap(k) < cap(q)
      BY <1>3, <1>7, <3>2, <3>3
    <3>5. QED
      BY <1>7, <3>1, <3>2, <3>4
  <2>2. QED
    BY <1>2, <2>1
<1>11. ASSUME NEW k \in 1..n, k < n
       PROVE  (\E j \in in : bets[j] = cap(k)) /\ L[k].eligible # {}
  <2>1. cap(k) < Top(bets)
    BY <1>3, <1>7, <1>11
  <2>2. PICK j \in all_in : cap(k) = bets[j]
    BY <1>3, <1>5, <1>7, <2>1
  <2>3. QED
    BY <1>2, <1>7, <1>9, <2>2
<1>12. n = 1 => L[1].eligible # {}
  <2>1. \E j \in in : bets[j] > 0
    BY <1>1
  <2>2. QED
    BY <1>3, <1>9, <2>1
<1>13. QED
  BY <1>3, <1>6, <1>8, <1>9, <1>10, <1>11, <1>12 DEF n, L, cap, in, bets, out, all_in

\* c cuts the contributions where the pots lie: pot k holds what was put in
\* between c[k - 1] and c[k] and can be won by the seats that reach into it.
Cut(h, pots, n, c) ==
  /\ n \in Nat /\ n > 0
  /\ \A k \in 0..n : c[k] \in Nat
  /\ c[0] = 0 /\ c[n] = Top(h.bets)
  /\ \A j, k \in 0..n : j < k => c[j] < c[k]
  /\ pots \in Seq(Layer) /\ Len(pots) = n
  /\ \A k \in 1..n :
       /\ pots[k].eligible = {i \in InHand(h) : h.bets[i] > c[k - 1]}
       /\ pots[k].eligible # {}
       /\ Below(h.bets, c[k]) = Below(h.bets, c[k - 1]) + pots[k].amount
       /\ \A i \in pots[k].eligible :
            h.bets[i] >= c[k] \/ \A j \in InHand(h) : h.bets[j] <= h.bets[i]
       /\ k < n => \E j \in InHand(h) : h.bets[j] = c[k]

\* The side pots of a showdown lie between such cuts.
LEMMA PotsCut ==
  ASSUME NEW h \in Showdowns, Closed(h)
  PROVE  \E n, c : Cut(h, calculate_side_pots(h.bets, With(h, "out"), With(h, "allin")), n, c)
<1> DEFINE bets == h.bets
           out == With(h, "out")
           all_in == With(h, "allin")
           n == Len(levels(bets, all_in))
           L == Layers(bets, out, all_in)
           cap(k) == Cap(bets, all_in, k)
           in == InHand(h)
           pots == calculate_side_pots(bets, out, all_in)
           Filled(x) == Below(bets, x)
<1>1. bets \in [Seats -> Nat] /\ all_in \in SUBSET Seats
  BY ClosedShowdown
<1>2. /\ n \in Nat /\ n > 0
      /\ \A k \in 1..n :
           /\ L[k].amount > 0
           /\ L[k].eligible = {i \in in : bets[i] > cap(k - 1)}
           /\ \A i \in L[k].eligible : bets[i] >= cap(k) \/ \A j \in in : bets[j] <= bets[i]
           /\ k < n => (\E j \in in : bets[j] = cap(k)) /\ L[k].eligible # {}
      /\ n = 1 => L[1].eligible # {}
  BY ClosedLayers
<1>3. /\ \A k \in 0..n : cap(k) \in Nat
      /\ cap(0) = 0 /\ cap(n) = Top(bets)
      /\ \A j, k \in 0..n : j < k => cap(j) < cap(k)
  BY <1>1, CapIs
<1>4. \A k \in 1..n : /\ L[k] \in Layer /\ L[k].amount \in Nat
                      /\ Filled(cap(k)) = Filled(cap(k - 1)) + L[k].amount
  BY <1>1, Slices
<1>5. PICK f : Steps(f, bets, out, all_in)
  BY <1>1, SidePotsSteps
<1>6. /\ pots = f[n] /\ \A k \in 1..n : f[k] = record_layer(f[k - 1], L[k])
      /\ \A k \in 0..n : f[k] \in Seq(Layer)
  BY <1>5 DEF Steps
<1>7. ASSUME NEW m \in 0..n, \A k \in 1..m : L[k].eligible # {}
      PROVE  Len(f[m]) = m /\ \A k \in 1..m : f[m][k] = L[k]
  <2>1. \A k \in 1..m : L[k].amount > 0 /\ L[k].eligible # {}
    BY <1>2, <1>7
  <2>2. QED
    BY <1>1, <1>5, <2>1, OneByOne
<1>8. \A x \in Nat : Filled(x) \in Nat
  BY <1>1, BelowIs
<1>9. \A i \in in : bets[i] \in Nat
  BY <1>1 DEF in, InHand, With
<1> HIDE DEF bets, out, all_in, n, L, cap, in, pots, Filled
<1>10. CASE L[n].eligible # {}
  <2> DEFINE c == [k \in 0..n |-> cap(k)]
  <2>1. \A k \in 1..n : L[k].eligible # {}
    BY <1>2, <1>10
  <2>2. n \in 0..n /\ pots \in Seq(Layer) /\ Len(pots) = n /\ \A k \in 1..n : pots[k] = L[k]
    <3>1. n \in 0..n
      BY <1>2
    <3>2. Len(f[n]) = n /\ \A k \in 1..n : f[n][k] = L[k]
      BY <1>7, <2>1, <3>1
    <3>3. pots = f[n] /\ f[n] \in Seq(Layer)
      BY <1>6, <3>1
    <3>4. QED
      BY <3>1, <3>2, <3>3
  <2>3. \A k \in 0..n : c[k] = cap(k)
    OBVIOUS
  <2>4. \A k \in 1..n : k \in 0..n /\ k - 1 \in 0..n
    BY <1>2
  <2> HIDE DEF c
  <2>5. /\ \A k \in 0..n : c[k] \in Nat
        /\ c[0] = 0 /\ c[n] = Top(bets)
        /\ \A j, k \in 0..n : j < k => c[j] < c[k]
    BY <1>2, <1>3, <2>3
  <2>6. ASSUME NEW k \in 1..n
        PROVE  /\ pots[k].eligible = {i \in in : bets[i] > c[k - 1]}
               /\ pots[k].eligible # {}
               /\ Filled(c[k]) = Filled(c[k - 1]) + pots[k].amount
               /\ \A i \in pots[k].eligible : bets[i] >= c[k] \/ \A j \in in : bets[j] <= bets[i]
               /\ k < n => \E j \in in : bets[j] = c[k]
    <3>1. c[k] = cap(k) /\ c[k - 1] = cap(k - 1) /\ pots[k] = L[k]
      BY <2>2, <2>3, <2>4
    <3>2. Filled(c[k]) = Filled(c[k - 1]) + pots[k].amount
      BY <1>4, <3>1
    <3>3. QED
      BY <1>2, <2>1, <3>1, <3>2
  <2>7. Cut(h, pots, n, c)
    BY <1>2, <2>2, <2>5, <2>6 DEF Cut, bets, in, Filled
  <2>8. QED
    BY <2>7 DEF pots, bets, out, all_in
<1>11. CASE L[n].eligible = {}
  <2> DEFINE m == n - 1
             c == [k \in 0..m |-> IF k = m THEN cap(n) ELSE cap(k)]
  <2>1. n > 1 /\ m \in Nat /\ m > 0 /\ m \in 0..n /\ n \in 0..n /\ m < n /\ m \in 1..n /\ n \in 1..n
    BY <1>2, <1>11
  <2>2. \A k \in 0..m : /\ k \in 0..n /\ (k # 0 => k \in 1..n /\ k < n /\ k - 1 \in 0..m /\ k - 1 # m)
    BY <1>2, <2>1
  <2>3. \A k \in 1..m : k \in 0..m /\ k # 0
    BY <2>1
  <2>4. c[m] = cap(n) /\ \A k \in 0..m : k # m => c[k] = cap(k)
    BY <2>1
  <2>5. n = m + 1 /\ n - 1 = m
    BY <1>2
  <2> HIDE DEF m, c
  <2>6. Len(f[m]) = m /\ \A k \in 1..m : f[m][k] = L[k]
    <3>1. \A k \in 1..m : L[k].eligible # {}
      BY <1>2, <2>2, <2>3
    <3>2. QED
      BY <1>7, <2>1, <3>1
  <2>7. /\ pots \in Seq(Layer) /\ Len(pots) = m
        /\ \A k \in 1..m : k # m => pots[k] = L[k]
        /\ pots[m].amount = L[m].amount + L[n].amount
        /\ \A k \in 1..m : pots[k].eligible = L[k].eligible
    <3> DEFINE old == f[m]
               layer == L[n]
               new == record_layer(old, layer)
    <3>1. pots = new
      BY <1>6, <2>1, <2>5
    <3>2. /\ old \in Seq(Layer) /\ layer \in Layer /\ Len(old) = m /\ m \in 1..m
          /\ \A k \in 1..m : old[k] = L[k]
      BY <1>4, <1>6, <2>1, <2>6
    <3>3. old # <<>>
      BY <2>1, <3>2, EmptySeq
    <3>4. layer.amount # 0 /\ layer.eligible = {}
      BY <1>2, <1>11, <2>1
    <3> HIDE DEF old, layer
    <3>5. /\ new \in Seq(Layer) /\ Len(new) = m
          /\ \A k \in 1..m : k # m => new[k] = old[k]
          /\ new[m].amount = old[m].amount + layer.amount
          /\ \A k \in 1..m : new[k].eligible = old[k].eligible
      BY <3>2, <3>3, <3>4, RecordShape
    <3> HIDE DEF new
    <3>6. QED
      BY <3>1, <3>2, <3>5 DEF layer
  <2>8. /\ \A k \in 0..m : c[k] \in Nat
        /\ c[0] = 0 /\ c[m] = Top(bets)
    BY <1>3, <2>1, <2>2, <2>4
  <2>9. ASSUME NEW j \in 0..m, NEW k \in 0..m, j < k PROVE c[j] < c[k]
    <3>1. j # m /\ j \in 0..n /\ k \in 0..n /\ j < n
      BY <2>1, <2>2, <2>9
    <3>2. c[j] = cap(j) /\ (c[k] = cap(k) \/ c[k] = cap(n))
      BY <2>4, <3>1
    <3>3. QED
      BY <1>3, <2>1, <2>9, <3>1, <3>2
  <2>10. \A i \in in : bets[i] <= cap(m)
    <3>1. \A i \in in : ~(bets[i] > cap(n - 1))
      BY <1>2, <1>11, <2>1
    <3>2. cap(m) \in Nat
      BY <1>3, <2>1
    <3>3. QED
      BY <1>9, <2>5, <3>1, <3>2
  <2>11. ASSUME NEW k \in 1..m
         PROVE  /\ pots[k].eligible = {i \in in : bets[i] > c[k - 1]}
                /\ pots[k].eligible # {}
                /\ Filled(c[k]) = Filled(c[k - 1]) + pots[k].amount
                /\ \A i \in pots[k].eligible : bets[i] >= c[k] \/ \A j \in in : bets[j] <= bets[i]
                /\ k < m => \E j \in in : bets[j] = c[k]
    <3>1. k \in 1..n /\ k < n /\ k - 1 \in 0..m /\ c[k - 1] = cap(k - 1) /\ k \in 0..m
      BY <2>2, <2>3, <2>4
    <3>2. pots[k].eligible = L[k].eligible
      BY <2>7
    <3>3. /\ pots[k].eligible = {i \in in : bets[i] > c[k - 1]}
          /\ pots[k].eligible # {}
      BY <1>2, <3>1, <3>2
    <3>4. CASE k # m
      <4>1. c[k] = cap(k) /\ pots[k] = L[k]
        BY <2>4, <2>7, <3>1, <3>4
      <4>2. QED
        BY <1>2, <1>4, <3>1, <3>3, <4>1
    <3>5. CASE k = m
      <4>1. c[k] = cap(n)
        BY <2>4, <3>5
      <4>2. Filled(cap(n)) = Filled(cap(m)) + L[n].amount
        BY <1>4, <2>1, <2>5
      <4>3. Filled(cap(m)) = Filled(c[k - 1]) + L[m].amount
        BY <1>4, <2>1, <3>1, <3>5
      <4>4. Filled(c[k - 1]) \in Nat /\ L[m].amount \in Nat /\ L[n].amount \in Nat
        BY <1>4, <1>8, <2>1, <2>8, <3>1
      <4>5. Filled(c[k]) = Filled(c[k - 1]) + pots[k].amount
        BY <2>7, <3>5, <4>1, <4>2, <4>3, <4>4
      <4>6. ASSUME NEW i \in pots[k].eligible PROVE \A j \in in : bets[j] <= bets[i]
        <5>1. i \in in /\ (bets[i] >= cap(m) \/ \A j \in in : bets[j] <= bets[i])
          BY <1>2, <2>1, <3>2, <3>3, <3>5
        <5>2. cap(m) \in Nat
          BY <1>3, <2>1
        <5>3. QED
          BY <1>9, <2>10, <5>1, <5>2
      <4>7. QED
        BY <2>1, <3>3, <3>5, <4>5, <4>6
    <3>6. QED
      BY <3>4, <3>5
  <2>12. Cut(h, pots, m, c)
    BY <2>1, <2>7, <2>8, <2>9, <2>11 DEF Cut, bets, in, Filled
  <2>13. QED
    BY <2>12 DEF pots, bets, out, all_in
<1>12. QED
  BY <1>10, <1>11

\* The chips between two heights, one by one.
ChipsBetween(bets, lo, hi) == {c \in Seats \X (lo + 1 .. hi) : c[2] <= bets[c[1]]}

\* The chips at one height are as many as the seats that put in that many.
LEMMA ChipsAt ==
  ASSUME NEW bets \in [Seats -> Nat], NEW m \in Nat
  PROVE  /\ IsFiniteSet(ChipsBetween(bets, m, m + 1))
         /\ Below(bets, m + 1) = Below(bets, m) + Cardinality(ChipsBetween(bets, m, m + 1))
<1> DEFINE T == {j \in Seats : bets[j] > m}
           Row == ChipsBetween(bets, m, m + 1)
           lo == [j \in Seats |-> Min({bets[j], m})]
           hi == [j \in Seats |-> Min({bets[j], m + 1})]
           one == [j \in Seats |-> IF j \in T THEN 1 ELSE 0]
           up == [j \in T |-> <<j, m + 1>>]
<1>1. \A j \in Seats, c \in Nat : Min({bets[j], c}) = IF bets[j] <= c THEN bets[j] ELSE c
  BY MinPair
<1>2. lo \in [Seats -> Int] /\ hi \in [Seats -> Int] /\ one \in [Seats -> Int]
  BY <1>1
<1>3. \A j \in Seats : hi[j] = lo[j] + one[j]
  BY <1>1
<1>4. SumFunction(one) = Cardinality(T)
  BY SeatsFinite, SumFunctionIndicator
<1>5. Below(bets, m + 1) = SumFunction(hi) /\ Below(bets, m) = SumFunction(lo)
  BY DEF Below
<1>6. IsFiniteSet(T)
  BY SeatsFinite, FS_Subset
<1>7. up \in Bijection(T, Row)
  <2>1. \A c : c \in Row <=> \E j \in T : c = <<j, m + 1>>
    <3>1. \A x \in m + 1 .. m + 1 : x = m + 1
      OBVIOUS
    <3>2. m + 1 \in m + 1 .. m + 1
      OBVIOUS
    <3>3. \A j \in Seats : m + 1 <= bets[j] <=> bets[j] > m
      OBVIOUS
    <3>4. QED
      BY <3>1, <3>2, <3>3 DEF ChipsBetween
  <2>2. up \in [T -> Row]
    BY <2>1
  <2>3. \A i, j \in T : up[i] = up[j] => i = j
    OBVIOUS
  <2>4. \A c \in Row : \E j \in T : up[j] = c
    BY <2>1
  <2> HIDE DEF up, Row, T
  <2>5. QED
    BY <2>2, <2>3, <2>4 DEF Bijection, Injection, Surjection, IsInjective
<1> HIDE DEF T, Row, lo, hi, one, up
<1>8. IsFiniteSet(Row) /\ Cardinality(Row) = Cardinality(T)
  BY <1>6, <1>7, FS_Bijection DEF ExistsBijection
<1>9. SumFunction(hi) = SumFunction(lo) + SumFunction(one)
  <2>1. IsFiniteSet(Seats)
    BY SeatsFinite
  <2>2. QED
    BY <1>2, <1>3, <2>1, SumFunctionPlus
<1>10. QED
  BY <1>4, <1>5, <1>8, <1>9 DEF Row

\* The chips between two heights are what was put in between them.
LEMMA ChipsCount ==
  ASSUME NEW bets \in [Seats -> Nat], NEW lo \in Nat, NEW hi \in Nat, lo <= hi
  PROVE  /\ IsFiniteSet(ChipsBetween(bets, lo, hi))
         /\ Below(bets, hi) = Below(bets, lo) + Cardinality(ChipsBetween(bets, lo, hi))
<1> DEFINE P(x) == ChipsBetween(bets, lo, x)
           Good(x) == /\ IsFiniteSet(P(x))
                      /\ Below(bets, x) = Below(bets, lo) + Cardinality(P(x))
           Bad == {x \in lo..hi : ~Good(x)}
<1>1. \A x \in Nat : Below(bets, x) \in Nat
  BY BelowIs
<1>2. Good(lo)
  <2>1. P(lo) = {}
    <3>1. lo + 1 .. lo = {}
      OBVIOUS
    <3>2. QED
      BY <3>1 DEF ChipsBetween
  <2>2. QED
    BY <1>1, <2>1, FS_EmptySet
<1>3. ASSUME NEW x \in lo..hi, Good(x) PROVE Good(x + 1)
  <2> DEFINE R == ChipsBetween(bets, x, x + 1)
  <2>1. x \in Nat /\ x + 1 \in Nat /\ lo <= x
    OBVIOUS
  <2>2. IsFiniteSet(R) /\ Below(bets, x + 1) = Below(bets, x) + Cardinality(R)
    BY <2>1, ChipsAt
  <2>3. P(x + 1) = P(x) \cup R /\ P(x) \cap R = {}
    <3>1. \A y : y \in lo + 1 .. x + 1 <=> (y \in lo + 1 .. x \/ y \in x + 1 .. x + 1)
      BY <2>1
    <3>2. \A y : ~(y \in lo + 1 .. x /\ y \in x + 1 .. x + 1)
      BY <2>1
    <3>3. QED
      BY <3>1, <3>2 DEF ChipsBetween
  <2> HIDE DEF P, R
  <2>4. /\ IsFiniteSet(P(x + 1))
        /\ Cardinality(P(x + 1)) = Cardinality(P(x)) + Cardinality(R) - Cardinality(P(x) \cap R)
    BY <1>3, <2>2, <2>3, FS_Union
  <2>5. Cardinality(P(x) \cap R) = 0
    BY <2>3, FS_EmptySet
  <2>6. Cardinality(P(x)) \in Nat /\ Cardinality(R) \in Nat
    BY <1>3, <2>2, FS_CardinalityType
  <2>7. QED
    BY <1>1, <1>3, <2>1, <2>2, <2>4, <2>5, <2>6
<1> HIDE DEF Good
<1>4. Bad = {}
  <2>1. SUFFICES ASSUME Bad # {} PROVE FALSE
    OBVIOUS
  <2>2. PICK x \in Bad : \A y \in Bad : x <= y
    <3>1. Bad \in SUBSET Nat
      OBVIOUS
    <3> HIDE DEF Bad
    <3>2. QED
      BY <2>1, <3>1, NatMinimum
  <2>3. x # lo
    BY <1>2
  <2>4. x - 1 \in lo..hi /\ x - 1 \notin Bad /\ (x - 1) + 1 = x
    BY <2>2, <2>3
  <2>5. Good((x - 1) + 1)
    BY <1>3, <2>4
  <2>6. QED
    BY <2>4, <2>5
<1>5. QED
  BY <1>4 DEF Good

\* The seats that contest a chip are the seats of the pot it lies in.
LEMMA ContendersAre ==
  ASSUME showdown \in Showdowns, Closed(showdown), NEW pots, NEW n, NEW c,
         Cut(showdown, pots, n, c), NEW k \in 1..n, NEW m \in Nat, c[k - 1] < m, m <= c[k]
  PROVE  Contenders(m) = pots[k].eligible
<1> DEFINE h == showdown
           bets == h.bets
           in == InHand(h)
           top == Max({bets[i] : i \in in})
           E == pots[k].eligible
<1>1. /\ n \in Nat /\ k - 1 \in 0..n /\ k \in 0..n /\ c[k - 1] \in Nat /\ c[k] \in Nat
      /\ E = {i \in in : bets[i] > c[k - 1]} /\ E # {}
      /\ \A i \in E : bets[i] >= c[k] \/ \A j \in in : bets[j] <= bets[i]
  <2>1. n \in Nat /\ k - 1 \in 0..n /\ k \in 0..n
    BY DEF Cut
  <2>2. QED
    BY <2>1 DEF Cut
<1>2. bets \in [Seats -> Nat] /\ in \in SUBSET Seats
  BY ClosedShowdown DEF InHand, With
<1>3. Contenders(m) = {i \in in : bets[i] >= Min({m, top})}
  BY DEF Contenders, bet
<1>4. E \subseteq in /\ in # {}
  BY <1>1
<1> HIDE DEF h, bets, in, E
<1>5. /\ top \in Nat /\ \A j \in in : bets[j] <= top
      /\ \E t \in in : bets[t] = top
  BY <1>2, <1>4, LargestBet
<1>6. \A i \in in : bets[i] \in Nat
  BY <1>2
<1> HIDE DEF top
<1>7. Min({m, top}) = IF m <= top THEN m ELSE top
  BY <1>5, MinPair
<1>8. top > c[k - 1]
  BY <1>1, <1>5, <1>6
<1>9. \A i \in in : bets[i] >= Min({m, top}) <=> i \in E
  <2> SUFFICES ASSUME NEW i \in in PROVE bets[i] >= Min({m, top}) <=> i \in E
    OBVIOUS
  <2>1. ASSUME bets[i] >= Min({m, top}) PROVE i \in E
    BY <1>1, <1>5, <1>6, <1>7, <1>8, <2>1
  <2>2. ASSUME i \in E PROVE bets[i] >= Min({m, top})
    <3>1. CASE bets[i] >= c[k]
      BY <1>1, <1>5, <1>6, <1>7, <3>1
    <3>2. CASE \A j \in in : bets[j] <= bets[i]
      BY <1>5, <1>6, <1>7, <3>2
    <3>3. QED
      BY <1>1, <2>2, <3>1, <3>2
  <2>3. QED
    BY <2>1, <2>2
<1>10. QED
  BY <1>3, <1>4, <1>9 DEF E

\* Every height lies between two cuts.
LEMMA HeightBetween ==
  ASSUME NEW h, NEW pots, NEW n, NEW c, Cut(h, pots, n, c), NEW m \in Nat, 0 < m, m <= c[n]
  PROVE  \E k \in 1..n : c[k - 1] < m /\ m <= c[k]
<1> DEFINE S == {k \in 0..n : m <= c[k]}
<1>1. n \in Nat /\ n \in 0..n /\ c[0] = 0 /\ \A k \in 0..n : c[k] \in Nat
  BY DEF Cut
<1>2. S \in SUBSET Nat /\ n \in S
  BY <1>1
<1>3. PICK k \in S : \A q \in S : k <= q
  <2> HIDE DEF S
  <2>1. QED
    BY <1>2, NatMinimum
<1>4. k # 0
  BY <1>1
<1>5. k \in 1..n /\ k - 1 \in 0..n /\ k - 1 \notin S
  BY <1>1, <1>3, <1>4
<1>6. QED
  BY <1>1, <1>3, <1>5

\* No two pots are contested by the same seats: a seat that is all-in drops out.
LEMMA PotsDiffer ==
  ASSUME NEW h \in Showdowns, Closed(h), NEW pots, NEW n, NEW c, Cut(h, pots, n, c),
         NEW k \in 1..n, NEW l \in 1..n, pots[k].eligible = pots[l].eligible
  PROVE  k = l
<1>1. /\ n \in Nat /\ \A x \in 0..n : c[x] \in Nat
      /\ \A x, y \in 0..n : x < y => c[x] < c[y]
      /\ \A x \in 1..n : /\ pots[x].eligible = {i \in InHand(h) : h.bets[i] > c[x - 1]}
                         /\ x < n => \E j \in InHand(h) : h.bets[j] = c[x]
  BY DEF Cut
<1>2. ASSUME NEW x \in 1..n, NEW y \in 1..n, x < y
      PROVE  pots[x].eligible # pots[y].eligible
  <2>1. x < n /\ x \in 0..n /\ x - 1 \in 0..n /\ y - 1 \in 0..n /\ x - 1 < x
    BY <1>1, <1>2
  <2>2. PICK j \in InHand(h) : h.bets[j] = c[x]
    BY <1>1, <2>1
  <2>3. c[x - 1] < c[x]
    BY <1>1, <2>1
  <2>4. x = y - 1 \/ c[x] < c[y - 1]
    BY <1>1, <1>2, <2>1
  <2>5. c[x] \in Nat /\ c[x - 1] \in Nat /\ c[y - 1] \in Nat
    BY <1>1, <2>1
  <2>6. j \in pots[x].eligible /\ j \notin pots[y].eligible
    BY <1>1, <2>2, <2>3, <2>4, <2>5
  <2>7. QED
    BY <2>6
<1>3. k < l \/ l < k \/ k = l
  BY <1>1
<1>4. QED
  BY <1>2, <1>3

\* The chips that the seats of a pot compete for are as many as the pot holds.
LEMMA PotCounts ==
  ASSUME showdown \in Showdowns, Closed(showdown), NEW pots, NEW n, NEW c,
         Cut(showdown, pots, n, c), NEW k \in 1..n
  PROVE  Cardinality({x \in Seats \X Heights : x[2] <= bet(x[1]) /\ Contenders(x[2]) = pots[k].eligible})
           = pots[k].amount
<1> DEFINE bets == showdown.bets
           E == pots[k].eligible
           lo == c[k - 1]
           hi == c[k]
           P == ChipsBetween(bets, lo, hi)
<1>1. bets \in [Seats -> Nat]
  BY ClosedShowdown
<1>2. /\ n \in Nat /\ \A x \in 0..n : c[x] \in Nat
      /\ c[0] = 0 /\ c[n] = Top(bets)
      /\ \A x, y \in 0..n : x < y => c[x] < c[y]
      /\ pots \in Seq(Layer) /\ Len(pots) = n
      /\ Below(bets, c[k]) = Below(bets, c[k - 1]) + pots[k].amount
  BY DEF Cut
<1>3. k - 1 \in 0..n /\ k \in 0..n /\ n \in 0..n /\ k - 1 < k /\ (k = n \/ k < n)
  BY <1>2
<1>4. lo \in Nat /\ hi \in Nat /\ lo < hi /\ hi <= Top(bets)
  BY <1>2, <1>3
<1>5. Heights = 1..Top(bets)
  BY DEF Heights, Top
<1>6. ASSUME NEW m \in 1..Top(bets) PROVE Contenders(m) = E <=> m \in lo + 1 .. hi
  <2>1. m \in Nat /\ 0 < m /\ m <= c[n]
    BY <1>2
  <2>2. PICK l \in 1..n : c[l - 1] < m /\ m <= c[l]
    BY <2>1, HeightBetween
  <2>3. Contenders(m) = pots[l].eligible
    BY <2>1, <2>2, ContendersAre
  <2>4. ASSUME Contenders(m) = E PROVE m \in lo + 1 .. hi
    <3>1. l = k
      BY <2>3, <2>4, PotsDiffer
    <3>2. QED
      BY <1>4, <2>1, <2>2, <3>1
  <2>5. ASSUME m \in lo + 1 .. hi PROVE Contenders(m) = E
    <3>1. c[k - 1] < m /\ m <= c[k]
      BY <1>4, <2>5
    <3>2. QED
      BY <2>1, <3>1, ContendersAre
  <2>6. QED
    BY <2>4, <2>5
<1>7. \A m : m \in lo + 1 .. hi => m \in 1..Top(bets)
  <2>1. Top(bets) \in Nat
    BY <1>1, TopIs
  <2> HIDE DEF lo, hi
  <2>2. QED
    BY <1>4, <2>1
<1>8. {x \in Seats \X Heights : x[2] <= bet(x[1]) /\ Contenders(x[2]) = E} = P
  <2> HIDE DEF lo, hi, E
  <2>1. \A x \in Seats \X (1..Top(bets)) : x[2] \in 1..Top(bets) /\ bet(x[1]) = bets[x[1]]
    BY DEF bet
  <2>2. \A x : x \in P <=> x \in Seats \X (1..Top(bets)) /\ x[2] \in lo + 1 .. hi /\ x[2] <= bets[x[1]]
    BY <1>7 DEF ChipsBetween
  <2> HIDE DEF P, bets
  <2>3. QED
    BY <1>5, <1>6, <2>1, <2>2
<1>9. Below(bets, hi) = Below(bets, lo) + Cardinality(P) /\ IsFiniteSet(P)
  BY <1>1, <1>4, ChipsCount
<1>10. Below(bets, lo) \in Nat /\ Cardinality(P) \in Nat /\ pots[k].amount \in Nat
  <2>1. Below(bets, lo) \in Nat
    BY <1>1, <1>4, BelowIs
  <2>2. Cardinality(P) \in Nat
    BY <1>9, FS_CardinalityType
  <2>3. pots[k].amount \in Nat
    BY <1>2, HeldType
  <2>4. QED
    BY <2>1, <2>2, <2>3
<1>11. Cardinality(P) = pots[k].amount
  <2> HIDE DEF P, lo, hi
  <2>1. Below(bets, hi) = Below(bets, lo) + pots[k].amount
    BY <1>2 DEF lo, hi
  <2>2. QED
    BY <1>9, <1>10, <2>1
<1>12. QED
  BY <1>8, <1>11

\* The pots are the groups of chips the same seats compete for.
LEMMA PotsAreGroups ==
  ASSUME showdown \in Showdowns, Closed(showdown)
  PROVE  PotsMatchReference
<1> DEFINE pots == calculate_side_pots(showdown.bets, With(showdown, "out"), With(showdown, "allin"))
           amount(E) == Cardinality({x \in Seats \X Heights : x[2] <= bet(x[1]) /\ Contenders(x[2]) = E})
           group(E) == [eligible |-> E, amount |-> amount(E)]
<1>1. PICK n, c : Cut(showdown, pots, n, c)
  BY PotsCut
<1>2. ReferencePots = {group(E) : E \in {Contenders(m) : m \in Heights}}
  BY DEF ReferencePots
<1>3. \A k \in 1..n : amount(pots[k].eligible) = pots[k].amount
  BY <1>1, PotCounts
<1>4. PotsMatchReference <=> Range(pots) = ReferencePots /\ IsInjective(pots)
  BY DEF PotsMatchReference
<1> HIDE DEF pots, amount
<1>5. /\ n \in Nat /\ pots \in Seq(Layer) /\ DOMAIN pots = 1..n
      /\ \A x \in 0..n : c[x] \in Nat
      /\ c[0] = 0 /\ c[n] = Top(showdown.bets)
      /\ \A x, y \in 0..n : x < y => c[x] < c[y]
  <2>1. pots \in Seq(Layer) /\ Len(pots) = n
    BY <1>1 DEF Cut
  <2>2. DOMAIN pots = 1..n
    BY <2>1, LenProperties
  <2>3. QED
    BY <1>1, <2>1, <2>2 DEF Cut
<1>6. \A k \in 1..n : pots[k] = group(pots[k].eligible)
  <2>1. \A k \in 1..n : pots[k] \in Layer
    BY <1>5, HeldType
  <2>2. \A p \in Layer : p = [eligible |-> p.eligible, amount |-> p.amount]
    BY DEF Layer
  <2>3. QED
    BY <1>3, <2>1, <2>2
<1>7. ASSUME NEW k \in 1..n PROVE \E m \in Heights : Contenders(m) = pots[k].eligible
  <2>1. k - 1 \in 0..n /\ k \in 0..n /\ n \in 0..n /\ k - 1 < k /\ (k = n \/ k < n)
    BY <1>5
  <2>2. c[k] \in Nat /\ c[k - 1] \in Nat /\ c[k - 1] < c[k] /\ c[k] <= Top(showdown.bets)
    BY <1>5, <2>1
  <2>3. Contenders(c[k]) = pots[k].eligible
    BY <1>1, <2>2, ContendersAre
  <2>4. c[k] \in Heights
    BY <2>2 DEF Heights, Top
  <2>5. QED
    BY <2>3, <2>4
<1>8. ASSUME NEW m \in Heights PROVE \E k \in 1..n : Contenders(m) = pots[k].eligible
  <2>1. m \in Nat /\ 0 < m /\ m <= c[n]
    <3>1. Top(showdown.bets) \in Nat
      BY ClosedShowdown, TopIs
    <3>2. QED
      BY <1>5, <3>1 DEF Heights, Top
  <2>2. PICK k \in 1..n : c[k - 1] < m /\ m <= c[k]
    BY <1>1, <2>1, HeightBetween
  <2>3. QED
    BY <1>1, <2>1, <2>2, ContendersAre
<1>9. Range(pots) = ReferencePots
  <2>1. Range(pots) = {pots[k] : k \in 1..n}
    BY <1>5 DEF Range
  <2> HIDE DEF group
  <2>2. QED
    BY <1>2, <1>6, <1>7, <1>8, <2>1
<1>10. IsInjective(pots)
  BY <1>1, <1>5, PotsDiffer DEF IsInjective
<1>11. QED
  BY <1>4, <1>9, <1>10

\* calculate_side_pots cuts every hand that was bet out into exactly the groups
\* of chips that the same seats compete for, each once, for any number of seats,
\* any stacks and any mix of folds and all-ins.
THEOREM PotsAreReference == Spec => []PotsMatchReference
<1>1. Planned => PotsMatchReference
  BY PotsAreGroups DEF Planned
<1>2. QED
  BY <1>1, PlannedInvariant, PTL
=============================================================================
