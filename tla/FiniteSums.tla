----------------------------- MODULE FiniteSums ------------------------------
(***************************************************************************)
(* Facts about SumFunction of the community module Functions, the sum of   *)
(* an integer function over a finite domain.  The proofs avoid induction   *)
(* schemata, which quantify over an operator: each takes a smallest        *)
(* counterexample instead, by the well-foundedness of the naturals.        *)
(***************************************************************************)
EXTENDS Integers, FiniteSets, Functions, FiniteSetTheorems, TLAPS

\* Every non-empty set of naturals has a least element.
LEMMA NatMinimum ==
  ASSUME NEW T \in SUBSET Nat, T # {}
  PROVE  \E n \in T : \A m \in T : n <= m
<1> DEFINE R == {ss \in Nat \X Nat : ss[1] < ss[2]}
<1>1. IsWellFoundedOn(R, Nat)
  BY NatLessThanWellFounded DEF OpToRel
<1>2. PICK n \in T : \A m \in T : ~(<<m, n>> \in R)
  BY <1>1, WFMin
<1>3. \A m \in T : ~(m < n)
  BY <1>2
<1>4. QED
  BY <1>3

\* Every non-empty family of subsets of a finite set has a minimal member.
LEMMA MinimalSubset ==
  ASSUME NEW S, IsFiniteSet(S), NEW B \in SUBSET SUBSET S, B # {}
  PROVE  \E s \in B : \A t \in SUBSET s : t # s => t \notin B
<1>1. IsWellFoundedOn(StrictSubsetOrdering(S), SUBSET S)
  BY FS_StrictSubsetOrderingWellFounded, FS_FiniteSubsetsOfFinite
<1>2. PICK s \in B : \A t \in B : ~(<<t, s>> \in StrictSubsetOrdering(S))
  BY <1>1, WFMin
<1>3. \A t \in B : t \in SUBSET s => t = s
  BY <1>2 DEF StrictSubsetOrdering
<1>4. QED
  BY <1>3

\* The element the fold takes out of a set, and the equation of its recursion.
Pick(s) == CHOOSE x \in s : TRUE
Sums(f, S, n) ==
  {g \in [{s \in SUBSET S : Cardinality(s) <= n} -> Int] :
     \A s \in DOMAIN g : g[s] = IF s = {} THEN 0 ELSE f[Pick(s)] + g[s \ {Pick(s)}]}

\* The fold takes out a member.
LEMMA PickIn ==
  ASSUME NEW s, s # {}
  PROVE  Pick(s) \in s
BY DEF Pick

\* The recursion of the fold has a solution on the small subsets, of every size.
LEMMA SumsExist ==
  ASSUME NEW S, IsFiniteSet(S), NEW f, \A x \in S : f[x] \in Int, NEW n \in Nat
  PROVE  Sums(f, S, n) # {}
<1> DEFINE Bad == {k \in Nat : Sums(f, S, k) = {}}
<1>1. SUFFICES ASSUME Bad # {} PROVE FALSE
  OBVIOUS
<1>2. PICK k \in Bad : \A m \in Bad : k <= m
  <2>1. Bad \in SUBSET Nat
    OBVIOUS
  <2>2. QED
    BY <1>1, <2>1, NatMinimum
<1>3. \A s \in SUBSET S : IsFiniteSet(s) /\ Cardinality(s) \in Nat
  BY FS_Subset, FS_CardinalityType
<1>4. \A s \in SUBSET S : s # {} =>
         /\ Pick(s) \in s /\ Pick(s) \in S
         /\ s \ {Pick(s)} \in SUBSET S
         /\ Cardinality(s \ {Pick(s)}) = Cardinality(s) - 1
  BY <1>3, PickIn, FS_RemoveElement
<1>5. \A s \in SUBSET S : Cardinality(s) = 0 <=> s = {}
  BY <1>3, FS_EmptySet
<1>6. CASE k = 0
  <2> DEFINE g == [s \in {s \in SUBSET S : Cardinality(s) <= 0} |-> 0]
  <2>1. \A s \in DOMAIN g : s = {}
    BY <1>3, <1>5
  <2>2. g \in Sums(f, S, 0)
    BY <2>1 DEF Sums
  <2>3. QED
    BY <1>2, <1>6, <2>2
<1>7. CASE k # 0
  <2>1. k - 1 \in Nat /\ k - 1 \notin Bad
    BY <1>2, <1>7
  <2>2. PICK g : g \in Sums(f, S, k - 1)
    BY <2>1
  <2> DEFINE D == {s \in SUBSET S : Cardinality(s) <= k}
             E == {s \in SUBSET S : Cardinality(s) <= k - 1}
             e == [s \in D |-> IF s \in E THEN g[s]
                               ELSE f[Pick(s)] + g[s \ {Pick(s)}]]
  <2>3. /\ g \in [E -> Int]
        /\ \A s \in E : g[s] = IF s = {} THEN 0 ELSE f[Pick(s)] + g[s \ {Pick(s)}]
    BY <2>2 DEF Sums
  <2>4. \A s \in D : s # {} => s \ {Pick(s)} \in E /\ Pick(s) \in S
    BY <1>2, <1>3, <1>4
  <2>5. \A s \in D : s = {} => s \in E
    BY <1>2, <1>5, <2>1
  <2>6. e \in [D -> Int]
    <3>1. \A s \in D : s \notin E => f[Pick(s)] + g[s \ {Pick(s)}] \in Int
      <4>1. SUFFICES ASSUME NEW s \in D, s \notin E
                     PROVE  f[Pick(s)] + g[s \ {Pick(s)}] \in Int
        OBVIOUS
      <4>2. f[Pick(s)] \in Int /\ g[s \ {Pick(s)}] \in Int
        BY <4>1, <2>3, <2>4, <2>5
      <4>3. QED
        BY <4>2
    <3>2. QED
      BY <2>3, <3>1
  <2>7. \A s \in D : s # {} => e[s \ {Pick(s)}] = g[s \ {Pick(s)}]
    <3>1. \A s \in E : s \in D
      BY <1>2, <1>3
    <3>2. QED
      BY <2>4, <3>1
  <2>8. \A s \in D : e[s] = IF s = {} THEN 0 ELSE f[Pick(s)] + e[s \ {Pick(s)}]
    BY <2>3, <2>5, <2>7
  <2>9. e \in Sums(f, S, k)
    BY <2>6, <2>8 DEF Sums
  <2>10. QED
    BY <1>2, <2>9
<1>8. QED
  BY <1>6, <1>7

\* The fold satisfies its recursion on every subset of a finite domain.
Folds(f, S, g) ==
  \A s \in SUBSET S : g[s] = IF s = {} THEN 0 ELSE f[Pick(s)] + g[s \ {Pick(s)}]

LEMMA SumOnSetEquation ==
  ASSUME NEW S, IsFiniteSet(S), NEW f, \A x \in S : f[x] \in Int
  PROVE  \E g : /\ SumFunctionOnSet(f, S) = g[S]
                /\ Folds(f, S, g)
<1> DEFINE eq(g) == g = [s \in SUBSET S |->
                          IF s = {} THEN 0 ELSE f[Pick(s)] + g[s \ {Pick(s)}]]
           h == CHOOSE g : eq(g)
<1>1. PICK g : g \in Sums(f, S, Cardinality(S))
  BY SumsExist, FS_CardinalityType
<1>2. {s \in SUBSET S : Cardinality(s) <= Cardinality(S)} = SUBSET S
  BY FS_Subset
<1>3. eq(g)
  BY <1>1, <1>2 DEF Sums
<1>4. eq(h)
  BY <1>3
<1>5. SumFunctionOnSet(f, S) = h[S]
  BY DEF SumFunctionOnSet, FoldFunctionOnSet, MapThenFoldSet, Pick
<1>6. Folds(f, S, h)
  BY <1>4 DEF Folds
<1>7. QED
  BY <1>5, <1>6

\* Two folds of the same function agree, whatever domains they were made for.
LEMMA FoldsUnique ==
  ASSUME NEW S, IsFiniteSet(S), NEW T \in SUBSET S,
         NEW f, NEW g, NEW h, Folds(f, S, g), Folds(f, T, h)
  PROVE  g[T] = h[T]
<1> DEFINE B == {s \in SUBSET T : g[s] # h[s]}
<1>1. SUFFICES ASSUME B # {} PROVE FALSE
  OBVIOUS
<1>2. IsFiniteSet(T)
  BY FS_Subset
<1>3. PICK s \in B : \A t \in SUBSET s : t # s => t \notin B
  <2>1. B \in SUBSET SUBSET T
    OBVIOUS
  <2> HIDE DEF B
  <2>2. QED
    BY <2>1, <1>1, <1>2, MinimalSubset
<1>4. s # {}
  BY DEF Folds
<1>5. /\ s \ {Pick(s)} \in SUBSET s /\ s \ {Pick(s)} # s
      /\ s \ {Pick(s)} \in SUBSET T
  BY <1>4, PickIn
<1>6. g[s \ {Pick(s)}] = h[s \ {Pick(s)}]
  BY <1>3, <1>5
<1>7. QED
  BY <1>4, <1>6 DEF Folds

\* The empty sum.
LEMMA SumEmpty ==
  ASSUME NEW f
  PROVE  SumFunctionOnSet(f, {}) = 0
<1>1. PICK g : SumFunctionOnSet(f, {}) = g[{}] /\ Folds(f, {}, g)
  BY SumOnSetEquation, FS_EmptySet
<1>2. QED
  BY <1>1 DEF Folds

\* The element the fold takes out first splits off.
LEMMA SumSplitPick ==
  ASSUME NEW S, IsFiniteSet(S), NEW f, \A x \in S : f[x] \in Int, S # {}
  PROVE  SumFunctionOnSet(f, S) = f[Pick(S)] + SumFunctionOnSet(f, S \ {Pick(S)})
<1> DEFINE T == S \ {Pick(S)}
<1>1. PICK g : SumFunctionOnSet(f, S) = g[S] /\ Folds(f, S, g)
  BY SumOnSetEquation
<1>2. IsFiniteSet(T)
  BY FS_RemoveElement
<1>3. PICK h : SumFunctionOnSet(f, T) = h[T] /\ Folds(f, T, h)
  <2>1. \A x \in T : f[x] \in Int
    OBVIOUS
  <2>2. QED
    BY <1>2, <2>1, SumOnSetEquation
<1>4. g[T] = h[T]
  BY <1>1, <1>3, FoldsUnique
<1>5. g[S] = f[Pick(S)] + g[T]
  BY <1>1 DEF Folds
<1>6. QED
  BY <1>1, <1>3, <1>4, <1>5

\* A sum of integers is an integer.
LEMMA SumInt ==
  ASSUME NEW S, IsFiniteSet(S), NEW f, \A x \in S : f[x] \in Int
  PROVE  SumFunctionOnSet(f, S) \in Int
<1> DEFINE B == {s \in SUBSET S : SumFunctionOnSet(f, s) \notin Int}
<1>1. SUFFICES ASSUME B # {} PROVE FALSE
  OBVIOUS
<1>2. PICK s \in B : \A t \in SUBSET s : t # s => t \notin B
  <2>1. B \in SUBSET SUBSET S
    OBVIOUS
  <2> HIDE DEF B
  <2>2. QED
    BY <2>1, <1>1, MinimalSubset
<1>3. s # {}
  BY SumEmpty
<1>4. SumFunctionOnSet(f, s \ {Pick(s)}) \in Int
  BY <1>2, <1>3, PickIn
<1>5. SumFunctionOnSet(f, s) = f[Pick(s)] + SumFunctionOnSet(f, s \ {Pick(s)})
  BY <1>3, SumSplitPick, FS_Subset
<1>6. QED
  BY <1>3, <1>4, <1>5, PickIn

\* Any element splits off.
LEMMA SumSplit ==
  ASSUME NEW S, IsFiniteSet(S), NEW f, \A y \in S : f[y] \in Int, NEW x \in S
  PROVE  SumFunctionOnSet(f, S) = f[x] + SumFunctionOnSet(f, S \ {x})
<1> DEFINE sum(s) == SumFunctionOnSet(f, s)
           Splits(s) == \A y \in s : sum(s) = f[y] + sum(s \ {y})
           B == {s \in SUBSET S : ~Splits(s)}
<1> HIDE DEF sum
<1>1. SUFFICES ASSUME B # {} PROVE FALSE
  BY DEF sum
<1>2. PICK s \in B : \A t \in SUBSET s : t # s => t \notin B
  <2>1. B \in SUBSET SUBSET S
    OBVIOUS
  <2> HIDE DEF B
  <2>2. QED
    BY <2>1, <1>1, MinimalSubset
<1>3. PICK y \in s : sum(s) # f[y] + sum(s \ {y})
  OBVIOUS
<1> DEFINE c == Pick(s)
<1>4. c \in s /\ c \in S /\ y \in S
  BY PickIn
<1>5. \A t \in SUBSET S : IsFiniteSet(t) /\ sum(t) \in Int
  BY SumInt, FS_Subset DEF sum
<1>6. sum(s) = f[c] + sum(s \ {c})
  BY <1>4, <1>5, SumSplitPick DEF sum
<1>7. c # y
  BY <1>3, <1>6
<1> HIDE DEF c
<1>8. sum(s \ {c}) = f[y] + sum((s \ {c}) \ {y})
  BY <1>2, <1>4, <1>7
<1> DEFINE rest == sum((s \ {c}) \ {y})
<1>9. sum(s \ {y}) = f[c] + rest
  <2>1. (s \ {c}) \ {y} = (s \ {y}) \ {c}
    OBVIOUS
  <2>2. QED
    BY <1>2, <1>4, <1>7, <2>1
<1>10. f[c] \in Int /\ f[y] \in Int /\ rest \in Int
  BY <1>4, <1>5
<1>11. sum(s \ {c}) = f[y] + rest
  BY <1>8
<1> HIDE DEF B, rest
<1>12. QED
  BY <1>3, <1>6, <1>9, <1>10, <1>11

\* A sum of naturals is a natural.
LEMMA SumNat ==
  ASSUME NEW S, IsFiniteSet(S), NEW f, \A x \in S : f[x] \in Nat
  PROVE  SumFunctionOnSet(f, S) \in Nat
<1> DEFINE B == {s \in SUBSET S : SumFunctionOnSet(f, s) \notin Nat}
<1>1. SUFFICES ASSUME B # {} PROVE FALSE
  OBVIOUS
<1>2. PICK s \in B : \A t \in SUBSET s : t # s => t \notin B
  <2>1. B \in SUBSET SUBSET S
    OBVIOUS
  <2> HIDE DEF B
  <2>2. QED
    BY <2>1, <1>1, MinimalSubset
<1>3. s # {}
  BY SumEmpty
<1>4. SumFunctionOnSet(f, s \ {Pick(s)}) \in Nat
  BY <1>2, <1>3, PickIn
<1>5. SumFunctionOnSet(f, s) = f[Pick(s)] + SumFunctionOnSet(f, s \ {Pick(s)})
  <2>1. IsFiniteSet(s) /\ \A x \in s : f[x] \in Int
    BY FS_Subset
  <2>2. QED
    BY <1>3, <2>1, SumSplitPick
<1>6. QED
  BY <1>3, <1>4, <1>5, PickIn

\* The sum of two functions, taken point by point.
LEMMA SumPlus ==
  ASSUME NEW S, IsFiniteSet(S), NEW f, NEW g, NEW h,
         \A x \in S : f[x] \in Int /\ g[x] \in Int /\ h[x] = f[x] + g[x]
  PROVE  SumFunctionOnSet(h, S) = SumFunctionOnSet(f, S) + SumFunctionOnSet(g, S)
<1> DEFINE sum(k, s) == SumFunctionOnSet(k, s)
           B == {s \in SUBSET S : sum(h, s) # sum(f, s) + sum(g, s)}
<1>1. SUFFICES ASSUME B # {} PROVE FALSE
  OBVIOUS
<1>2. PICK s \in B : \A t \in SUBSET s : t # s => t \notin B
  <2>1. B \in SUBSET SUBSET S
    OBVIOUS
  <2> HIDE DEF B
  <2>2. QED
    BY <2>1, <1>1, MinimalSubset
<1>3. sum(h, s) # sum(f, s) + sum(g, s)
  OBVIOUS
<1>4. s # {}
  <2>1. sum(f, {}) = 0 /\ sum(g, {}) = 0 /\ sum(h, {}) = 0
    BY SumEmpty
  <2> HIDE DEF sum, B
  <2>2. QED
    BY <1>3, <2>1
<1> DEFINE c == Pick(s)
           t == s \ {c}
<1>5. c \in s /\ c \in S /\ t \in SUBSET s /\ t # s /\ t \in SUBSET S
  BY <1>4, PickIn
<1>6. IsFiniteSet(s) /\ IsFiniteSet(t)
  BY <1>5, FS_Subset
<1>7. /\ sum(f, s) = f[c] + sum(f, t) /\ sum(g, s) = g[c] + sum(g, t)
      /\ sum(h, s) = h[c] + sum(h, t)
  <2>1. \A x \in s : f[x] \in Int /\ g[x] \in Int /\ h[x] \in Int
    OBVIOUS
  <2>2. sum(f, s) = f[c] + sum(f, t)
    BY <1>4, <1>6, <2>1, SumSplitPick
  <2>3. sum(g, s) = g[c] + sum(g, t)
    BY <1>4, <1>6, <2>1, SumSplitPick
  <2>4. sum(h, s) = h[c] + sum(h, t)
    BY <1>4, <1>6, <2>1, SumSplitPick
  <2>5. QED
    BY <2>2, <2>3, <2>4
<1>8. sum(f, t) \in Int /\ sum(g, t) \in Int
  BY <1>5, <1>6, SumInt
<1>9. sum(h, t) = sum(f, t) + sum(g, t)
  BY <1>2, <1>5
<1>10. f[c] \in Int /\ g[c] \in Int /\ h[c] = f[c] + g[c]
  BY <1>5
<1> HIDE DEF B, c, t, sum
<1>11. QED
  BY <1>3, <1>7, <1>8, <1>9, <1>10

\* A function that is smaller point by point has the smaller sum.
LEMMA SumMonotone ==
  ASSUME NEW S, IsFiniteSet(S), NEW f, NEW g,
         \A x \in S : f[x] \in Int /\ g[x] \in Int /\ f[x] <= g[x]
  PROVE  SumFunctionOnSet(f, S) <= SumFunctionOnSet(g, S)
<1> DEFINE d == [x \in S |-> g[x] - f[x]]
<1>1. \A x \in S : d[x] \in Nat /\ d[x] \in Int /\ g[x] = f[x] + d[x]
  OBVIOUS
<1> HIDE DEF d
<1>2. SumFunctionOnSet(g, S) = SumFunctionOnSet(f, S) + SumFunctionOnSet(d, S)
  BY <1>1, SumPlus
<1>3. SumFunctionOnSet(d, S) \in Nat /\ SumFunctionOnSet(f, S) \in Int
  BY <1>1, SumNat, SumInt
<1>4. QED
  BY <1>2, <1>3

\* Functions that agree on the set have the same sum over it.
LEMMA SumAgree ==
  ASSUME NEW S, IsFiniteSet(S), NEW f, NEW g,
         \A x \in S : f[x] \in Int /\ f[x] = g[x]
  PROVE  SumFunctionOnSet(f, S) = SumFunctionOnSet(g, S)
<1>1. \A x \in S : f[x] <= g[x] /\ g[x] <= f[x] /\ g[x] \in Int
  OBVIOUS
<1>2. /\ SumFunctionOnSet(f, S) <= SumFunctionOnSet(g, S)
      /\ SumFunctionOnSet(g, S) <= SumFunctionOnSet(f, S)
  BY <1>1, SumMonotone
<1>3. SumFunctionOnSet(f, S) \in Int /\ SumFunctionOnSet(g, S) \in Int
  BY <1>1, SumInt
<1>4. QED
  BY <1>2, <1>3

-----------------------------------------------------------------------------
(* The facts that the proofs of the components cite.                       *)

\* The type of SumFunction.
LEMMA SumFunctionType ==
  ASSUME NEW S, IsFiniteSet(S)
  PROVE  /\ \A f \in [S -> Int] : SumFunction(f) \in Int
         /\ \A f \in [S -> Nat] : SumFunction(f) \in Nat
BY SumInt, SumNat DEF SumFunction

\* One value of a function changes: its sum changes by as much.
LEMMA SumFunctionUpdate ==
  ASSUME NEW S, IsFiniteSet(S), NEW f \in [S -> Int], NEW g \in [S -> Int], NEW x \in S,
         \A y \in S \ {x} : g[y] = f[y]
  PROVE  SumFunction(g) = SumFunction(f) - f[x] + g[x]
<1> DEFINE T == S \ {x}
<1>1. /\ DOMAIN g = S /\ DOMAIN f = S
      /\ \A y \in T : y \in S /\ g[y] \in Int /\ g[y] = f[y]
  OBVIOUS
<1>2. IsFiniteSet(T)
  BY FS_RemoveElement
<1>3. SumFunctionOnSet(g, T) = SumFunctionOnSet(f, T)
  BY <1>1, <1>2, SumAgree
<1>4. SumFunctionOnSet(f, T) \in Int
  BY <1>1, <1>2, SumInt
<1>5. SumFunctionOnSet(g, S) = g[x] + SumFunctionOnSet(g, T)
  BY SumSplit
<1>6. SumFunctionOnSet(f, S) = f[x] + SumFunctionOnSet(f, T)
  BY SumSplit
<1>7. f[x] \in Int /\ g[x] \in Int
  OBVIOUS
<1>8. SumFunction(g) = SumFunctionOnSet(g, S) /\ SumFunction(f) = SumFunctionOnSet(f, S)
  BY <1>1 DEF SumFunction
<1> HIDE DEF T
<1>9. QED
  BY <1>3, <1>4, <1>5, <1>6, <1>7, <1>8

\* The sum of a function that adds two others point by point.
LEMMA SumFunctionPlus ==
  ASSUME NEW S, IsFiniteSet(S), NEW f \in [S -> Int], NEW g \in [S -> Int],
         NEW h \in [S -> Int], \A x \in S : h[x] = f[x] + g[x]
  PROVE  SumFunction(h) = SumFunction(f) + SumFunction(g)
<1>1. /\ DOMAIN f = S /\ DOMAIN g = S /\ DOMAIN h = S
      /\ \A x \in S : f[x] \in Int /\ g[x] \in Int /\ h[x] = f[x] + g[x]
  OBVIOUS
<1>2. QED
  BY <1>1, SumPlus DEF SumFunction

\* The sum is monotone in the function.
LEMMA SumFunctionMonotone ==
  ASSUME NEW S, IsFiniteSet(S), NEW f \in [S -> Int], NEW g \in [S -> Int],
         \A x \in S : f[x] <= g[x]
  PROVE  SumFunction(f) <= SumFunction(g)
<1>1. /\ DOMAIN f = S /\ DOMAIN g = S
      /\ \A x \in S : f[x] \in Int /\ g[x] \in Int
  OBVIOUS
<1>2. QED
  BY <1>1, SumMonotone DEF SumFunction

\* The sum of a function that is zero everywhere.
LEMMA SumFunctionZero ==
  ASSUME NEW S, IsFiniteSet(S)
  PROVE  SumFunction([x \in S |-> 0]) = 0
<1> DEFINE z == [x \in S |-> 0]
<1>1. z \in [S -> Int] /\ SumFunction(z) \in Int
  BY SumFunctionType
<1>2. \A x \in S : z[x] = z[x] + z[x]
  OBVIOUS
<1> HIDE DEF z
<1>3. SumFunction(z) = SumFunction(z) + SumFunction(z)
  BY <1>1, <1>2, SumFunctionPlus
<1>4. SumFunction(z) = 0
  <2>1. PICK n \in Int : n = SumFunction(z)
    BY <1>1
  <2>2. n = n + n
    BY <1>3, <2>1
  <2>3. n = 0
    BY <2>2
  <2>4. QED
    BY <2>1, <2>3
<1>5. QED
  BY <1>4 DEF z

\* The sum of a set's characteristic function is the number of its elements.
LEMMA SumFunctionIndicator ==
  ASSUME NEW S, IsFiniteSet(S), NEW T \in SUBSET S
  PROVE  SumFunction([x \in S |-> IF x \in T THEN 1 ELSE 0]) = Cardinality(T)
<1> DEFINE ind(t) == [x \in S |-> IF x \in t THEN 1 ELSE 0]
           Bad == {t \in SUBSET S : SumFunction(ind(t)) # Cardinality(t)}
<1>1. SUFFICES ASSUME Bad # {} PROVE FALSE
  OBVIOUS
<1>2. PICK t \in Bad : \A u \in SUBSET t : u # t => u \notin Bad
  <2>1. Bad \in SUBSET SUBSET S
    OBVIOUS
  <2> HIDE DEF Bad
  <2>2. QED
    BY <1>1, <2>1, MinimalSubset
<1>3. t \in SUBSET S /\ IsFiniteSet(t) /\ Cardinality(t) \in Nat
  BY FS_Subset, FS_CardinalityType
<1>4. t # {}
  <2>1. SUFFICES ASSUME t = {} PROVE FALSE
    OBVIOUS
  <2>2. ind(t) = [x \in S |-> 0]
    BY <2>1
  <2>3. SumFunction(ind(t)) = 0
    BY <2>2, SumFunctionZero
  <2>4. QED
    BY <2>1, <2>3, FS_EmptySet
<1>5. PICK x : x \in t
  BY <1>4
<1> DEFINE u == t \ {x}
<1>6. u \in SUBSET t /\ u # t /\ u \in SUBSET S /\ x \in S
  BY <1>3, <1>5
<1>7. SumFunction(ind(u)) = Cardinality(u)
  BY <1>2, <1>6
<1>8. Cardinality(u) = Cardinality(t) - 1
  BY <1>3, <1>5, FS_RemoveElement
<1>9. /\ ind(u) \in [S -> Int] /\ ind(t) \in [S -> Int]
      /\ ind(u)[x] = 0 /\ ind(t)[x] = 1
      /\ \A y \in S \ {x} : ind(t)[y] = ind(u)[y]
  BY <1>5, <1>6
<1> DEFINE f == ind(u)
           g == ind(t)
<1> HIDE DEF f, g
<1>10. SumFunction(g) = SumFunction(f) - f[x] + g[x]
  <2>1. f \in [S -> Int] /\ g \in [S -> Int] /\ \A y \in S \ {x} : g[y] = f[y]
    BY <1>9 DEF f, g
  <2>2. QED
    BY <1>6, <2>1, SumFunctionUpdate
<1>11. SumFunction(g) = Cardinality(t)
  <2>1. f[x] = 0 /\ g[x] = 1 /\ SumFunction(f) = Cardinality(t) - 1
    BY <1>7, <1>8, <1>9 DEF f, g
  <2>2. QED
    BY <1>3, <1>10, <2>1
<1>12. QED
  BY <1>11 DEF g

-----------------------------------------------------------------------------
(* Maxima and ranks in finite sets.                                        *)

\* A finite set of naturals has a largest element.
LEMMA FiniteMaximum ==
  ASSUME NEW S \in SUBSET Nat, IsFiniteSet(S), S # {}
  PROVE  \E m \in S : \A y \in S : y <= m
<1> DEFINE HasMax(t) == \E m \in t : \A y \in t : y <= m
           B == {t \in SUBSET S : t # {} /\ ~HasMax(t)}
<1>1. SUFFICES ASSUME B # {} PROVE FALSE
  OBVIOUS
<1>2. PICK t \in B : \A u \in SUBSET t : u # t => u \notin B
  <2>1. B \in SUBSET SUBSET S
    OBVIOUS
  <2> HIDE DEF B
  <2>2. QED
    BY <1>1, <2>1, MinimalSubset
<1>3. PICK x : x \in t
  OBVIOUS
<1>4. CASE t \ {x} = {}
  <2>1. HasMax(t)
    BY <1>3, <1>4
  <2>2. QED
    BY <2>1
<1>5. CASE t \ {x} # {}
  <2>1. HasMax(t \ {x})
    BY <1>2, <1>3, <1>5
  <2>2. PICK m \in t \ {x} : \A y \in t \ {x} : y <= m
    BY <2>1
  <2>3. m \in Nat /\ x \in Nat /\ \A y \in t : y \in Nat
    BY <1>3
  <2>4. \A y \in t : y = x \/ y <= m
    BY <2>2
  <2>5. HasMax(t)
    <3>1. CASE m <= x
      <4>1. \A y \in t : y <= x
        BY <2>3, <2>4, <3>1
      <4>2. QED
        BY <1>3, <4>1
    <3>2. CASE ~(m <= x)
      <4>1. \A y \in t : y <= m
        BY <2>3, <2>4, <3>2
      <4>2. QED
        BY <4>1
    <3>3. QED
      BY <3>1, <3>2
  <2>6. QED
    BY <2>5
<1>6. QED
  BY <1>4, <1>5

\* How many elements come before x in the order of their keys.
Rank(S, f, x) == Cardinality({y \in S : f[y] < f[x]})

\* The ranks of n elements with different keys are 0 to n - 1, each of them once.
LEMMA Ranks ==
  ASSUME NEW S, IsFiniteSet(S), NEW f \in [S -> Int],
         \A x, y \in S : f[x] = f[y] => x = y
  PROVE  /\ \A x \in S : Rank(S, f, x) \in 0..Cardinality(S) - 1
         /\ \A x, y \in S : f[x] < f[y] => Rank(S, f, x) < Rank(S, f, y)
         /\ \A k \in 0..Cardinality(S) - 1 : \E x \in S : Rank(S, f, x) = k
<1> DEFINE below(x) == {y \in S : f[y] < f[x]}
           n == Cardinality(S)
<1>1. n \in Nat
  BY FS_CardinalityType
<1>2. \A x \in S : IsFiniteSet(below(x)) /\ Cardinality(below(x)) \in Nat
  <2>1. \A x \in S : below(x) \in SUBSET S
    OBVIOUS
  <2>2. QED
    BY <2>1, FS_Subset, FS_CardinalityType
<1>3. \A x \in S : Cardinality(below(x)) < n
  <2> SUFFICES ASSUME NEW x \in S PROVE Cardinality(below(x)) < n
    OBVIOUS
  <2>1. below(x) \in SUBSET S /\ below(x) # S
    OBVIOUS
  <2>2. QED
    BY <1>1, <1>2, <2>1, FS_Subset
<1>4. \A x, y \in S : f[x] < f[y] => Cardinality(below(x)) < Cardinality(below(y))
  <2> SUFFICES ASSUME NEW x \in S, NEW y \in S, f[x] < f[y]
               PROVE  Cardinality(below(x)) < Cardinality(below(y))
    OBVIOUS
  <2>1. f[x] \in Int /\ f[y] \in Int /\ \A z \in S : f[z] \in Int
    OBVIOUS
  <2>2. below(x) \in SUBSET below(y) /\ x \in below(y) /\ x \notin below(x)
    BY <2>1
  <2>3. QED
    BY <1>2, <2>2, FS_Subset
<1>5. /\ \A x \in S : Rank(S, f, x) \in Nat /\ Rank(S, f, x) < n
      /\ \A x, y \in S : f[x] < f[y] => Rank(S, f, x) < Rank(S, f, y)
  BY <1>2, <1>3, <1>4 DEF Rank
<1> HIDE DEF below, n
<1>6. ASSUME NEW x \in S, NEW y \in S, Rank(S, f, x) = Rank(S, f, y)
      PROVE  x = y
  <2>1. f[x] \in Int /\ f[y] \in Int
    OBVIOUS
  <2>2. ~(f[x] < f[y]) /\ ~(f[y] < f[x])
    BY <1>5, <1>6
  <2>3. QED
    BY <2>1, <2>2
<1> DEFINE r == [x \in S |-> Rank(S, f, x)]
           T == 0..n - 1
<1>7. \A x \in S : Rank(S, f, x) \in T
  BY <1>1, <1>5
<1>8. r \in Injection(S, T)
  <2>1. r \in [S -> T] /\ \A x, y \in S : r[x] = r[y] => x = y
    BY <1>6, <1>7
  <2>2. QED
    BY <2>1 DEF Injection, IsInjective
<1>9. IsFiniteSet(T) /\ Cardinality(T) = n
  BY <1>1, FS_Interval
<1>10. r \in Surjection(S, T)
  BY <1>8, <1>9, FS_Injection DEF n
<1>11. \A k \in T : \E x \in S : r[x] = k
  BY <1>10 DEF Surjection
<1>12. QED
  BY <1>5, <1>7, <1>11 DEF n

\* The first k elements in the order of their keys are k elements.
LEMMA FirstRanks ==
  ASSUME NEW S, IsFiniteSet(S), NEW f \in [S -> Int],
         \A x, y \in S : f[x] = f[y] => x = y,
         NEW k \in 0..Cardinality(S)
  PROVE  Cardinality({x \in S : Rank(S, f, x) < k}) = k
<1> DEFINE F == {x \in S : Rank(S, f, x) < k}
           T == 0..k - 1
           r == [x \in F |-> Rank(S, f, x)]
<1>1. Cardinality(S) \in Nat /\ k \in Nat
  BY FS_CardinalityType
<1>2. /\ \A x \in S : Rank(S, f, x) \in Nat
      /\ \A x, y \in S : f[x] < f[y] => Rank(S, f, x) < Rank(S, f, y)
      /\ \A m \in T : \E x \in S : Rank(S, f, x) = m
  BY <1>1, Ranks
<1>3. ASSUME NEW x \in S, NEW y \in S, Rank(S, f, x) = Rank(S, f, y)
      PROVE  x = y
  <2>1. f[x] \in Int /\ f[y] \in Int
    OBVIOUS
  <2>2. ~(f[x] < f[y]) /\ ~(f[y] < f[x])
    BY <1>2, <1>3
  <2>3. QED
    BY <2>1, <2>2
<1>4. r \in [F -> T] /\ \A x, y \in F : r[x] = r[y] => x = y
  BY <1>1, <1>2, <1>3
<1>5. \A m \in T : \E x \in F : r[x] = m
  BY <1>1, <1>2
<1>6. IsFiniteSet(F)
  <2>1. F \in SUBSET S
    OBVIOUS
  <2>2. QED
    BY <2>1, FS_Subset
<1> HIDE DEF r, F, T
<1>7. r \in Bijection(F, T)
  BY <1>4, <1>5 DEF Bijection, Injection, Surjection, IsInjective
<1>8. Cardinality(F) = Cardinality(T)
  BY <1>6, <1>7, FS_Bijection DEF ExistsBijection
<1>9. Cardinality(T) = k
  BY <1>1, FS_Interval DEF T
<1>10. QED
  BY <1>8, <1>9 DEF F

-----------------------------------------------------------------------------
(* Sums of sequences, multiples and tables.                                *)

\* The sum of a sequence after a number is appended.
LEMMA SumFunctionAppend ==
  ASSUME NEW n \in Nat, NEW f \in [1..n -> Int], NEW g \in [1..n + 1 -> Int],
         \A k \in 1..n : g[k] = f[k]
  PROVE  SumFunction(g) = SumFunction(f) + g[n + 1]
<1>1. IsFiniteSet(1..n) /\ IsFiniteSet(1..n + 1)
  BY FS_Interval
<1>2. n + 1 \in 1..n + 1 /\ (1..n + 1) \ {n + 1} = 1..n
  OBVIOUS
<1>3. SumFunctionOnSet(g, 1..n + 1) = g[n + 1] + SumFunctionOnSet(g, 1..n)
  <2>1. \A y \in 1..n + 1 : g[y] \in Int
    OBVIOUS
  <2>2. QED
    BY <1>1, <1>2, <2>1, SumSplit
<1>4. SumFunctionOnSet(f, 1..n) = SumFunctionOnSet(g, 1..n) /\ SumFunctionOnSet(f, 1..n) \in Int
  <2>1. \A k \in 1..n : f[k] \in Int /\ f[k] = g[k]
    OBVIOUS
  <2>2. QED
    BY <1>1, <2>1, SumAgree, SumInt
<1>5. SumFunction(g) = SumFunctionOnSet(g, 1..n + 1) /\ SumFunction(f) = SumFunctionOnSet(f, 1..n)
  BY DEF SumFunction
<1>6. g[n + 1] \in Int
  BY <1>2
<1>7. QED
  BY <1>3, <1>4, <1>5, <1>6

\* The empty sum.
LEMMA SumFunctionEmpty ==
  ASSUME NEW f, DOMAIN f = {}
  PROVE  SumFunction(f) = 0
BY SumEmpty DEF SumFunction

\* One summand is at most the sum of naturals.
LEMMA SumFunctionSummand ==
  ASSUME NEW S, IsFiniteSet(S), NEW f \in [S -> Nat], NEW x \in S
  PROVE  f[x] <= SumFunction(f)
<1> DEFINE T == S \ {x}
<1>1. IsFiniteSet(T)
  BY FS_RemoveElement
<1>2. SumFunctionOnSet(f, S) = f[x] + SumFunctionOnSet(f, T)
  BY SumSplit
<1>3. SumFunctionOnSet(f, T) \in Nat
  BY <1>1, SumNat
<1>4. SumFunction(f) = SumFunctionOnSet(f, S) /\ f[x] \in Nat
  BY DEF SumFunction
<1> HIDE DEF T
<1>5. QED
  BY <1>2, <1>3, <1>4

\* A common factor.
LEMMA SumTimes ==
  ASSUME NEW S, IsFiniteSet(S), NEW c \in Int, NEW f, NEW g,
         \A x \in S : f[x] \in Int /\ g[x] = c * f[x]
  PROVE  SumFunctionOnSet(g, S) = c * SumFunctionOnSet(f, S)
<1> DEFINE sum(h, s) == SumFunctionOnSet(h, s)
           B == {s \in SUBSET S : sum(g, s) # c * sum(f, s)}
<1>1. SUFFICES ASSUME B # {} PROVE FALSE
  OBVIOUS
<1>2. PICK s \in B : \A t \in SUBSET s : t # s => t \notin B
  <2>1. B \in SUBSET SUBSET S
    OBVIOUS
  <2> HIDE DEF B
  <2>2. QED
    BY <2>1, <1>1, MinimalSubset
<1>3. sum(g, s) # c * sum(f, s)
  OBVIOUS
<1>4. s # {}
  <2>1. sum(f, {}) = 0 /\ sum(g, {}) = 0
    BY SumEmpty
  <2>2. c * 0 = 0
    OBVIOUS
  <2> HIDE DEF sum, B
  <2>3. QED
    BY <1>3, <2>1, <2>2
<1> DEFINE p == Pick(s)
           t == s \ {p}
<1>5. p \in s /\ p \in S /\ t \in SUBSET s /\ t # s /\ t \in SUBSET S
  BY <1>4, PickIn
<1>6. IsFiniteSet(s) /\ IsFiniteSet(t)
  BY <1>5, FS_Subset
<1>7. \A x \in S : g[x] \in Int
  <2> SUFFICES ASSUME NEW x \in S PROVE g[x] \in Int
    OBVIOUS
  <2>1. f[x] \in Int /\ g[x] = c * f[x]
    OBVIOUS
  <2>2. QED
    BY <2>1
<1>8. sum(f, s) = f[p] + sum(f, t) /\ sum(g, s) = g[p] + sum(g, t)
  <2>1. \A x \in s : f[x] \in Int /\ g[x] \in Int
    BY <1>7
  <2>2. sum(f, s) = f[p] + sum(f, t)
    BY <1>4, <1>6, <2>1, SumSplitPick
  <2>3. sum(g, s) = g[p] + sum(g, t)
    BY <1>4, <1>6, <2>1, SumSplitPick
  <2>4. QED
    BY <2>2, <2>3
<1>9. sum(f, t) \in Int
  BY <1>5, <1>6, SumInt
<1>10. sum(g, t) = c * sum(f, t)
  BY <1>2, <1>5
<1>11. f[p] \in Int /\ g[p] = c * f[p]
  BY <1>5
<1>12. c * (f[p] + sum(f, t)) = c * f[p] + c * sum(f, t)
  <2>1. \A a, b \in Int : c * (a + b) = c * a + c * b
    OBVIOUS
  <2> HIDE DEF sum, p, t
  <2>2. QED
    BY <1>9, <1>11, <2>1
<1> HIDE DEF B, p, t, sum
<1>13. QED
  BY <1>3, <1>8, <1>10, <1>11, <1>12

LEMMA SumFunctionTimes ==
  ASSUME NEW S, IsFiniteSet(S), NEW c \in Int, NEW f \in [S -> Int], NEW g \in [S -> Int],
         \A x \in S : g[x] = c * f[x]
  PROVE  SumFunction(g) = c * SumFunction(f)
<1>1. DOMAIN f = S /\ DOMAIN g = S /\ \A x \in S : f[x] \in Int /\ g[x] = c * f[x]
  OBVIOUS
<1>2. QED
  BY <1>1, SumTimes DEF SumFunction

\* A table of numbers may be summed by rows or by columns.
LEMMA SumSwap ==
  ASSUME NEW S, IsFiniteSet(S), NEW T, IsFiniteSet(T), NEW f \in [S -> [T -> Int]]
  PROVE  SumFunction([i \in S |-> SumFunction(f[i])])
           = SumFunction([k \in T |-> SumFunction([i \in S |-> f[i][k]])])
<1> DEFINE row(t) == [i \in S |-> SumFunctionOnSet(f[i], t)]
           col == [k \in T |-> SumFunction([i \in S |-> f[i][k]])]
           B == {t \in SUBSET T : SumFunction(row(t)) # SumFunctionOnSet(col, t)}
<1>1. \A i \in S : DOMAIN f[i] = T /\ \A k \in T : f[i][k] \in Int
  OBVIOUS
<1>2. \A k \in T : [i \in S |-> f[i][k]] \in [S -> Int]
  BY <1>1
<1>3. \A k \in T : col[k] \in Int
  BY <1>2, SumFunctionType
<1>4. \A t \in SUBSET T : IsFiniteSet(t) /\ row(t) \in [S -> Int]
  <2> SUFFICES ASSUME NEW t \in SUBSET T PROVE IsFiniteSet(t) /\ row(t) \in [S -> Int]
    OBVIOUS
  <2>1. IsFiniteSet(t)
    BY FS_Subset
  <2>2. \A i \in S : SumFunctionOnSet(f[i], t) \in Int
    BY <1>1, <2>1, SumInt
  <2>3. QED
    BY <2>1, <2>2
<1>5. B = {}
  <2>1. SUFFICES ASSUME B # {} PROVE FALSE
    OBVIOUS
  <2>2. PICK t \in B : \A u \in SUBSET t : u # t => u \notin B
    <3>1. B \in SUBSET SUBSET T
      OBVIOUS
    <3> HIDE DEF B
    <3>2. QED
      BY <2>1, <3>1, MinimalSubset
  <2>3. t \in SUBSET T /\ SumFunction(row(t)) # SumFunctionOnSet(col, t)
    OBVIOUS
  <2>4. t # {}
    <3>1. row({}) = [i \in S |-> 0]
      BY SumEmpty
    <3>2. SumFunction(row({})) = 0 /\ SumFunctionOnSet(col, {}) = 0
      BY <3>1, SumFunctionZero, SumEmpty
    <3>3. QED
      BY <2>3, <3>2
  <2>5. PICK k : k \in t
    BY <2>4
  <2> DEFINE u == t \ {k}
             c == [i \in S |-> f[i][k]]
  <2>6. u \in SUBSET t /\ u # t /\ u \in SUBSET T /\ k \in T
    BY <2>3, <2>5
  <2>7. SumFunction(row(u)) = SumFunctionOnSet(col, u)
    BY <2>2, <2>6
  <2>8. \A i \in S : row(t)[i] = c[i] + row(u)[i]
    <3> SUFFICES ASSUME NEW i \in S
                 PROVE  SumFunctionOnSet(f[i], t) = f[i][k] + SumFunctionOnSet(f[i], t \ {k})
      OBVIOUS
    <3>1. \A y \in t : f[i][y] \in Int
      BY <1>1, <2>3
    <3>2. QED
      BY <1>4, <2>3, <2>5, <3>1, SumSplit
  <2>9. SumFunctionOnSet(col, t) = col[k] + SumFunctionOnSet(col, u)
    <3>1. \A y \in t : col[y] \in Int
      BY <1>3, <2>3
    <3> HIDE DEF col
    <3>2. QED
      BY <1>4, <2>3, <2>5, <3>1, SumSplit
  <2>10. c \in [S -> Int] /\ row(t) \in [S -> Int] /\ row(u) \in [S -> Int]
    BY <1>2, <1>4, <2>3, <2>6
  <2>11. col[k] = SumFunction(c)
    BY <2>6
  <2> DEFINE rt == row(t)
             ru == row(u)
  <2> HIDE DEF c, rt, ru, row, col, u, B
  <2>12. SumFunction(rt) = SumFunction(c) + SumFunction(ru)
    <3>1. c \in [S -> Int] /\ rt \in [S -> Int] /\ ru \in [S -> Int]
          /\ \A i \in S : rt[i] = c[i] + ru[i]
      BY <2>8, <2>10 DEF rt, ru
    <3>2. QED
      BY <3>1, SumFunctionPlus
  <2>13. QED
    BY <2>3, <2>7, <2>9, <2>11, <2>12 DEF rt, ru
<1>6. SumFunction(row(T)) = SumFunctionOnSet(col, T)
  BY <1>5
<1>7. row(T) = [i \in S |-> SumFunction(f[i])]
  BY <1>1 DEF SumFunction
<1>8. SumFunction(col) = SumFunctionOnSet(col, T)
  BY DEF SumFunction
<1> HIDE DEF row
<1>9. QED
  BY <1>6, <1>7, <1>8

\* A table of numbers by rows and by columns, with their sums.
Table(S, T, f, g, rows, cols) ==
  /\ IsFiniteSet(S) /\ f \in [S -> [T -> Int]]
  /\ IsFiniteSet(T) /\ g \in [T -> [S -> Int]]
  /\ \A i \in S, k \in T : f[i][k] = g[k][i]
  /\ rows \in [S -> Int] /\ \A i \in S : rows[i] = SumFunction(f[i])
  /\ cols \in [T -> Int] /\ \A k \in T : cols[k] = SumFunction(g[k])

\* The rows and the columns of a table add up to the same number.
LEMMA SumFunctionSwap ==
  ASSUME NEW S, NEW T, NEW f, NEW g, NEW rows, NEW cols, Table(S, T, f, g, rows, cols)
  PROVE  SumFunction(rows) = SumFunction(cols)
<1>1. rows = [i \in S |-> SumFunction(f[i])]
  BY DEF Table
<1>2. ASSUME NEW k \in T PROVE g[k] = [i \in S |-> f[i][k]]
  BY DEF Table
<1>3. cols = [k \in T |-> SumFunction([i \in S |-> f[i][k]])]
  <2>1. cols = [k \in T |-> SumFunction(g[k])]
    BY DEF Table
  <2>2. QED
    BY <1>2, <2>1
<1>4. QED
  BY <1>1, <1>3, SumSwap DEF Table
=============================================================================
