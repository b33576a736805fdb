---------------------------- MODULE SearchProofs ----------------------------
(***************************************************************************)
(* The pickers, for every target, chunk size, match table, mix and         *)
(* request: recipes fit, the fewest chunks are the fewest, refusals are    *)
(* honest, the accounts are true and the quotas are shared out exactly.    *)
(* The index, for every target and corpus: its answers are the first of    *)
(* the longest matches, and as long as the pickers take them to be.        *)
(*                                                                         *)
(* The proofs of the pickers rest on three things: what a sum over the     *)
(* chains is, by induction over the parts of a finite set (SumOf...,       *)
(* QuotasAre); that deficits, which are fractions, are ordered, so that    *)
(* there is a best offer (PreferredExists); and the costs of the backward  *)
(* pass, of which the code keeps a window only, as a table over all        *)
(* offsets that is below every tiling (Costs, CostIsLeast).  Those of the  *)
(* index say what its maps are of the records added so far (IndexInv).     *)
(***************************************************************************)
EXTENDS Search, FiniteSetTheorems, WellFoundedInduction, TLAPS

\* The least of some natural numbers.
LEMMA LeastNat ==
  ASSUME NEW S, S \subseteq Nat, S # {}
  PROVE  \E m \in S : \A k \in S : m <= k
<1>1. PICK m \in S : \A k \in S : ~(<<k, m>> \in OpToRel(<, Nat))
  BY NatLessThanWellFounded, WFMin
<1>2. \A k \in S : k < m => <<k, m>> \in OpToRel(<, Nat)
  BY DEF OpToRel
<1>3. \A k \in S : ~(k < m)
  BY <1>1, <1>2, Zenon
<1>4. QED
  BY <1>3

\* A set of natural numbers that holds 0 and with each number the next one holds all.
LEMMA Induction ==
  ASSUME NEW S, 0 \in S, \A n \in Nat : n \in S => n + 1 \in S
  PROVE  Nat \subseteq S
<1> SUFFICES ASSUME Nat \ S # {} PROVE FALSE
  OBVIOUS
<1>1. PICK m \in Nat \ S : \A k \in Nat \ S : m <= k
  BY LeastNat
<1>2. m # 0
  OBVIOUS
<1>3. m - 1 \in Nat /\ m - 1 \notin S
  BY <1>1, <1>2
<1> QED BY <1>1, <1>3

\* The element of T the sums take first, and the others.
First(T)  == CHOOSE c \in T : TRUE
Others(T) == T \ {First(T)}

\* A set of sets that holds the empty one, and each that it holds without its first
\* element, holds all parts of a finite set.
LEMMA PartsInduction ==
  ASSUME NEW S, IsFiniteSet(S), NEW W, {} \in W,
         \A T \in SUBSET S : T # {} /\ Others(T) \in W => T \in W
  PROVE  SUBSET S \subseteq W
<1> SUFFICES ASSUME (SUBSET S) \ W # {} PROVE FALSE
  OBVIOUS
<1>1. FiniteSubsetsOf(S) = SUBSET S
  BY FS_FiniteSubsetsOfFinite
<1>2. IsWellFoundedOn(StrictSubsetOrdering(S), SUBSET S)
  BY <1>1, FS_StrictSubsetOrderingWellFounded
<1>3. PICK T \in (SUBSET S) \ W : \A U \in (SUBSET S) \ W : <<U, T>> \notin StrictSubsetOrdering(S)
  <2>1. (SUBSET S) \ W \subseteq SUBSET S
    OBVIOUS
  <2> QED BY <1>2, <2>1, WFMin
<1>4. T # {}
  OBVIOUS
<1>5. First(T) \in T
  BY <1>4 DEF First
<1>6. Others(T) \in SUBSET S /\ Others(T) \subseteq T /\ Others(T) # T
  BY <1>5 DEF Others
<1>7. <<Others(T), T>> \in StrictSubsetOrdering(S)
  BY <1>6 DEF StrictSubsetOrdering
<1>8. Others(T) \in W
  BY <1>3, <1>6, <1>7
<1> QED BY <1>4, <1>8

----------------------------------------------------------------------------
(* Sums.                                                                   *)

\* g holds the sums of f over the parts of S.
IsSum(g, f, S) ==
  \A T \in SUBSET S : g[T] = IF T = {} THEN 0 ELSE f[First(T)] + g[Others(T)]

\* The sums of f over the sets of P.
SumOn(g, f, P) == g = [T \in P |-> IF T = {} THEN 0 ELSE f[First(T)] + g[Others(T)]]

\* The parts of S of at most n elements.
Small(S, n) == {T \in SUBSET S : Cardinality(T) <= n}

\* There is one such function on the parts of a finite set: the CHOOSE of SumOver finds it.
LEMMA SumsExist ==
  ASSUME NEW f, NEW S, IsFiniteSet(S)
  PROVE  \E g : SumOn(g, f, SUBSET S)
<1> DEFINE R == {n \in Nat : \E g : SumOn(g, f, Small(S, n))}
<1>1. 0 \in R
  <2> DEFINE g == [T \in Small(S, 0) |-> 0]
  <2>1. \A T \in Small(S, 0) : T = {}
    <3> TAKE T \in Small(S, 0)
    <3>1. IsFiniteSet(T) /\ Cardinality(T) <= 0
      BY FS_Subset DEF Small
    <3>2. Cardinality(T) \in Nat
      BY <3>1, FS_CardinalityType
    <3> QED BY <3>1, <3>2, FS_EmptySet
  <2>2. SumOn(g, f, Small(S, 0))
    BY <2>1 DEF SumOn
  <2> QED BY <2>2
<1>2. ASSUME NEW n \in Nat, n \in R PROVE n + 1 \in R
  <2>1. PICK g : SumOn(g, f, Small(S, n))
    BY <1>2
  <2> DEFINE h == [T \in Small(S, n + 1) |->
                     IF T = {} THEN 0 ELSE f[First(T)] + g[Others(T)]]
  <2>2. ASSUME NEW T \in Small(S, n)
        PROVE  T \in Small(S, n + 1) /\ h[T] = g[T]
    <3>1. T \in Small(S, n + 1)
      <4>1. Cardinality(T) \in Nat
        BY FS_Subset, FS_CardinalityType DEF Small
      <4> QED BY <4>1 DEF Small
    <3>2. g[T] = IF T = {} THEN 0 ELSE f[First(T)] + g[Others(T)]
      BY <2>1 DEF SumOn
    <3> QED BY <3>1, <3>2
  <2>3. ASSUME NEW T \in Small(S, n + 1), T # {} PROVE Others(T) \in Small(S, n)
    <3>1. First(T) \in T /\ T \in SUBSET S /\ Cardinality(T) <= n + 1
      BY <2>3 DEF First, Small
    <3>2. IsFiniteSet(T)
      BY <3>1, FS_Subset
    <3>3. Cardinality(Others(T)) = Cardinality(T) - 1 /\ Cardinality(T) \in Nat
      BY <3>1, <3>2, FS_RemoveElement, FS_CardinalityType DEF Others
    <3> QED BY <3>1, <3>3 DEF Small, Others
  <2>4. SumOn(h, f, Small(S, n + 1))
    <3>1. ASSUME NEW T \in Small(S, n + 1)
          PROVE  h[T] = IF T = {} THEN 0 ELSE f[First(T)] + h[Others(T)]
      <4>1. CASE T = {}
        BY <4>1
      <4>2. CASE T # {}
        <5>1. h[Others(T)] = g[Others(T)]
          BY <2>2, <2>3, <4>2
        <5> QED BY <4>2, <5>1
      <4> QED BY <4>1, <4>2
    <3>2. h = [T \in Small(S, n + 1) |-> h[T]]
      OBVIOUS
    <3> HIDE DEF h
    <3> QED BY <3>1, <3>2 DEF SumOn
  <2> QED BY <2>4
<1> HIDE DEF R
<1>3. Cardinality(S) \in R
  BY <1>1, <1>2, Induction, FS_CardinalityType
<1>4. Small(S, Cardinality(S)) = SUBSET S
  BY FS_Subset DEF Small
<1> QED BY <1>3, <1>4 DEF R

\* A sum is the value of a function that takes the terms one by one.
LEMMA SumIs ==
  ASSUME NEW f, NEW S, IsFiniteSet(S)
  PROVE  \E g : IsSum(g, f, S) /\ SumOver(f, S) = g[S]
<1> DEFINE sum == CHOOSE g : SumOn(g, f, SUBSET S)
<1>1. SumOver(f, S) = sum[S]
  BY DEF SumOver, SumOn, First, Others
<1>2. SumOn(sum, f, SUBSET S)
  BY SumsExist
<1> HIDE DEF sum
<1>3. IsSum(sum, f, S)
  BY <1>2 DEF SumOn, IsSum
<1> QED BY <1>1, <1>3

\* A sum of integers is an integer; of two sums with terms in a proportion, a
\* multiple and a rest, so are the sums.
LEMMA SumsAreInt ==
  ASSUME NEW S, IsFiniteSet(S), NEW f, \A c \in S : f[c] \in Int, NEW g, IsSum(g, f, S)
  PROVE  \A T \in SUBSET S : g[T] \in Int
<1> DEFINE W == {T \in SUBSET S : g[T] \in Int}
<1>1. {} \in W
  BY DEF IsSum
<1>2. ASSUME NEW T \in SUBSET S, T # {}, Others(T) \in W PROVE T \in W
  <2>1. f[First(T)] \in Int
    BY <1>2 DEF First
  <2>2. g[T] = f[First(T)] + g[Others(T)]
    BY <1>2 DEF IsSum
  <2> QED BY <1>2, <2>1, <2>2
<1> HIDE DEF W
<1>3. SUBSET S \subseteq W
  BY <1>1, <1>2, PartsInduction
<1> QED BY <1>3 DEF W

\* Sums whose terms are u * f + h.
LEMMA SumOfProduct ==
  ASSUME NEW S, IsFiniteSet(S), NEW u \in Int, NEW f, NEW h, NEW k,
         \A c \in S : f[c] \in Int /\ h[c] \in Int /\ k[c] = u * f[c] + h[c]
  PROVE  SumOver(k, S) = u * SumOver(f, S) + SumOver(h, S)
<1>1. PICK a : IsSum(a, f, S) /\ SumOver(f, S) = a[S]
  BY SumIs
<1>2. PICK b : IsSum(b, h, S) /\ SumOver(h, S) = b[S]
  BY SumIs
<1>3. PICK d : IsSum(d, k, S) /\ SumOver(k, S) = d[S]
  BY SumIs
<1>4. \A T \in SUBSET S : a[T] \in Int /\ b[T] \in Int
  BY <1>1, <1>2, SumsAreInt
<1> DEFINE W == {T \in SUBSET S : d[T] = u * a[T] + b[T]}
<1>5. {} \in W
  <2>1. a[{}] = 0 /\ b[{}] = 0 /\ d[{}] = 0
    BY <1>1, <1>2, <1>3 DEF IsSum
  <2>2. 0 = u * 0 + 0
    OBVIOUS
  <2> QED BY <2>1, <2>2
<1>6. ASSUME NEW T \in SUBSET S, T # {}, Others(T) \in W PROVE T \in W
  <2>1. First(T) \in S /\ Others(T) \in SUBSET S
    BY <1>6 DEF First, Others
  <2>2. /\ d[T] = k[First(T)] + d[Others(T)]
        /\ a[T] = f[First(T)] + a[Others(T)] /\ b[T] = h[First(T)] + b[Others(T)]
    BY <1>1, <1>2, <1>3, <1>6 DEF IsSum
  <2>3. d[Others(T)] = u * a[Others(T)] + b[Others(T)]
    BY <1>6
  <2> DEFINE x == f[First(T)]
             y == a[Others(T)]
             p == h[First(T)]
             q == b[Others(T)]
  <2>4. x \in Int /\ y \in Int /\ p \in Int /\ q \in Int /\ k[First(T)] = u * x + p
    BY <1>4, <2>1
  <2> HIDE DEF x, y, p, q
  <2>5. (u * x + p) + (u * y + q) = u * (x + y) + (p + q)
    BY <2>4
  <2>6. d[T] = u * a[T] + b[T]
    BY <2>2, <2>3, <2>4, <2>5 DEF x, y, p, q
  <2> QED BY <2>6
<1> HIDE DEF W
<1>7. SUBSET S \subseteq W
  BY <1>5, <1>6, PartsInduction
<1>8. S \in W
  BY <1>7
<1> QED BY <1>1, <1>2, <1>3, <1>8 DEF W

\* A sum of natural numbers is one, and no term exceeds it.
LEMMA SumOfNats ==
  ASSUME NEW S, IsFiniteSet(S), NEW f, \A c \in S : f[c] \in Nat
  PROVE  SumOver(f, S) \in Nat /\ \A c \in S : f[c] <= SumOver(f, S)
<1>1. PICK a : IsSum(a, f, S) /\ SumOver(f, S) = a[S]
  BY SumIs
<1> DEFINE W == {T \in SUBSET S : a[T] \in Nat /\ \A c \in T : f[c] <= a[T]}
<1>2. {} \in W
  BY <1>1 DEF IsSum
<1>3. ASSUME NEW T \in SUBSET S, T # {}, Others(T) \in W PROVE T \in W
  <2>1. a[T] = f[First(T)] + a[Others(T)] /\ First(T) \in S
    BY <1>1, <1>3 DEF IsSum, First
  <2>2. f[First(T)] \in Nat /\ a[Others(T)] \in Nat
    BY <1>3, <2>1
  <2>3. ASSUME NEW c \in T PROVE f[c] <= a[T]
    <3>1. CASE c = First(T)
      BY <2>1, <2>2, <3>1
    <3>2. CASE c # First(T)
      <4>1. f[c] <= a[Others(T)] /\ f[c] \in Nat
        BY <1>3, <3>2 DEF Others
      <4> QED BY <2>1, <2>2, <4>1
    <3> QED BY <3>1, <3>2
  <2> QED BY <2>1, <2>2, <2>3
<1> HIDE DEF W
<1>4. S \in W
  BY <1>2, <1>3, PartsInduction
<1> QED BY <1>1, <1>4 DEF W

\* A sum of ones counts, and one of terms below u stays below u for each that is not 0.
LEMMA SumOfFew ==
  ASSUME NEW S, IsFiniteSet(S), NEW u \in Nat, NEW f, \A c \in S : f[c] \in 0 .. u,
         NEW P, P = {c \in S : f[c] > 0}
  PROVE  /\ SumOver(f, S) <= u * Cardinality(P)
         /\ (\A c \in P : f[c] < u) /\ P # {} => SumOver(f, S) < u * Cardinality(P)
         /\ (\A c \in P : f[c] = u) => SumOver(f, S) = u * Cardinality(P)
<1>1. PICK a : IsSum(a, f, S) /\ SumOver(f, S) = a[S]
  BY SumIs
<1> DEFINE n(T) == Cardinality(T \cap P)
           W == {T \in SUBSET S :
                   /\ a[T] \in Int /\ n(T) \in Nat /\ a[T] <= u * n(T)
                   /\ (\A c \in P : f[c] < u) /\ T \cap P # {} => a[T] < u * n(T)
                   /\ (\A c \in P : f[c] = u) => a[T] = u * n(T)}
<1>2. {} \in W
  <2>1. {} \cap P = {} /\ Cardinality({}) = 0 /\ a[{}] = 0
    BY <1>1, FS_EmptySet DEF IsSum
  <2> QED BY <2>1
<1>3. ASSUME NEW T \in SUBSET S, T # {}, Others(T) \in W PROVE T \in W
  <2>1. a[T] = f[First(T)] + a[Others(T)] /\ First(T) \in T /\ f[First(T)] \in 0 .. u
    BY <1>1, <1>3 DEF IsSum, First
  <2>2. IsFiniteSet(T \cap P) /\ IsFiniteSet(Others(T) \cap P)
    BY FS_Subset DEF Others
  <2> DEFINE x == f[First(T)]
             y == a[Others(T)]
             m == n(Others(T))
  <2>3. x \in 0 .. u /\ y \in Int /\ m \in Nat /\ y <= u * m
    BY <1>3, <2>1
  <2>4. CASE First(T) \in P
    <3>1. T \cap P = (Others(T) \cap P) \cup {First(T)} /\ First(T) \notin Others(T) \cap P
      BY <2>1, <2>4 DEF Others
    <3>2. n(T) = m + 1
      BY <2>2, <3>1, FS_AddElement
    <3>3. a[T] = x + y
      BY <2>1
    <3>4. (\A c \in P : f[c] < u) => x < u
      BY <2>4
    <3>5. (\A c \in P : f[c] = u) => x = u /\ y = u * m
      BY <1>3, <2>4
    <3> HIDE DEF n, m, x, y
    <3>6. u * (m + 1) = u * m + u /\ u * m \in Int
      BY <2>3
    <3>7. /\ x + y \in Int /\ m + 1 \in Nat /\ x + y <= u * (m + 1)
          /\ (\A c \in P : f[c] < u) => x + y < u * (m + 1)
          /\ (\A c \in P : f[c] = u) => x + y = u * (m + 1)
      BY <2>3, <3>4, <3>5, <3>6
    <3> QED BY <3>2, <3>3, <3>7
  <2>5. CASE First(T) \notin P
    <3>1. T \cap P = Others(T) \cap P
      BY <2>5 DEF Others
    <3>2. x = 0
      BY <2>1, <2>5
    <3>3. a[T] = y
      BY <2>1, <2>3, <3>2
    <3> QED BY <1>3, <3>1, <3>3
  <2> QED BY <2>4, <2>5
<1> HIDE DEF W
<1>4. S \in W
  BY <1>2, <1>3, PartsInduction
<1>5. S \cap P = P
  OBVIOUS
<1> QED BY <1>1, <1>4, <1>5 DEF W

----------------------------------------------------------------------------
(* Quotas.                                                                 *)

\* R orders any two elements of S.
IsOrder(R, S) ==
  /\ \A c \in S : <<c, c>> \notin R
  /\ \A c, d \in S : c # d => <<c, d>> \in R \/ <<d, c>> \in R
  /\ \A c, d, e \in S : <<c, d>> \in R /\ <<d, e>> \in R => <<c, e>> \in R

\* How many elements of S are before each, and the elements that have fewer than k.
RankIn(R, S)    == [c \in S |-> Cardinality({d \in S : <<d, c>> \in R})]
Foremost(R, S, k) == {c \in S : RankIn(R, S)[c] < k}

\* In an ordered finite set k elements have fewer than k elements before them.
LEMMA Ranks ==
  ASSUME NEW S, IsFiniteSet(S), NEW R, IsOrder(R, S), NEW k \in Nat, k <= Cardinality(S)
  PROVE  IsFiniteSet(Foremost(R, S, k)) /\ Cardinality(Foremost(R, S, k)) = k
<1> DEFINE f == RankIn(R, S)
           n == Cardinality(S)
           T == 0 .. n - 1
           B(c) == {d \in S : <<d, c>> \in R}
<1>1. n \in Nat
  BY FS_CardinalityType
<1>2. \A c \in S : IsFiniteSet(B(c)) /\ Cardinality(B(c)) \in Nat
  BY FS_Subset, FS_CardinalityType
<1>3. ASSUME NEW c \in S PROVE f[c] \in T
  <2>1. B(c) \in SUBSET (S \ {c}) /\ f[c] = Cardinality(B(c))
    BY DEF RankIn, IsOrder
  <2>2. IsFiniteSet(S \ {c}) /\ Cardinality(S \ {c}) = n - 1
    BY FS_RemoveElement
  <2>3. Cardinality(B(c)) \in Nat
    BY <1>2
  <2> HIDE DEF B, n
  <2>4. Cardinality(B(c)) <= n - 1
    BY <2>1, <2>2, FS_Subset
  <2> QED BY <1>1, <2>1, <2>3, <2>4
<1>4. ASSUME NEW c \in S, NEW d \in S, <<c, d>> \in R PROVE f[c] # f[d]
  <2>1. B(c) \in SUBSET B(d)
    BY <1>4 DEF IsOrder
  <2>2. c \in B(d) /\ c \notin B(c)
    BY <1>4 DEF IsOrder
  <2>3. Cardinality(B(c)) # Cardinality(B(d))
    BY <1>2, <2>1, <2>2, FS_Subset
  <2> QED BY <2>3 DEF RankIn
<1>5. f \in Injection(S, T)
  <2>1. f \in [S -> T]
    BY <1>3 DEF RankIn
  <2>2. \A c, d \in S : f[c] = f[d] => c = d
    BY <1>4 DEF IsOrder
  <2> QED BY <2>1, <2>2 DEF Injection, IsInjective
<1>6. IsFiniteSet(T) /\ Cardinality(T) = n
  <2>1. 0 \in Int /\ n - 1 \in Int /\ (IF 0 > n - 1 THEN 0 ELSE n - 1 - 0 + 1) = n
    BY <1>1
  <2> HIDE DEF n
  <2> QED BY <2>1, FS_Interval
<1>7. f \in Surjection(S, T)
  BY <1>5, <1>6, FS_Injection
<1> DEFINE U == {c \in S : f[c] < k}
           V == 0 .. k - 1
           g == [c \in U |-> f[c]]
<1>8. IsFiniteSet(U)
  BY FS_Subset
<1>9. g \in Bijection(U, V)
  <2>1. \A c \in U : f[c] \in V
    BY <1>3
  <2>2. g \in [U -> V] /\ \A c, d \in U : g[c] = g[d] => c = d
    BY <1>5, <2>1 DEF Injection, IsInjective
  <2>3. ASSUME NEW v \in V PROVE \E c \in U : g[c] = v
    <3>1. v \in T
      BY <1>1
    <3>2. PICK c \in S : f[c] = v
      BY <1>7, <3>1 DEF Surjection
    <3>3. v < k
      OBVIOUS
    <3>4. c \in U
      BY <3>2, <3>3
    <3> QED BY <3>2, <3>4
  <2>4. g \in Injection(U, V) /\ g \in Surjection(U, V)
    <3> HIDE DEF g, U, V
    <3> QED BY <2>2, <2>3 DEF Injection, IsInjective, Surjection
  <2> QED BY <2>4 DEF Bijection
<1>10. Cardinality(V) = Cardinality(U)
  BY <1>8, <1>9, FS_Bijection DEF ExistsBijection
<1>11. Cardinality(V) = k
  BY FS_Interval
<1> QED BY <1>8, <1>10, <1>11 DEF Foremost

\* A quotient and its remainder.
LEMMA Quotient ==
  ASSUME NEW a \in Nat, NEW u \in Nat, u > 0
  PROVE  /\ a \div u \in Nat /\ a % u \in 0 .. u - 1
         /\ a = u * (a \div u) + (a % u)
OBVIOUS

\* The chains in the order of their fractions.
Order(fraction) ==
  {p \in Chains \X Chains : \/ fraction[p[1]] > fraction[p[2]]
                            \/ fraction[p[1]] = fraction[p[2]] /\ p[1] < p[2]}

\* As many chains get a byte more as bytes are left, and none that has no fraction.
LEMMA ExtraBytes ==
  ASSUME NEW u \in Nat, u > 0, NEW total \in Nat, NEW w \in [Chains -> Nat],
         NEW fraction, fraction = [c \in Chains |-> (total * w[c]) % u],
         NEW left \in Int, u * left = SumOver(fraction, Chains)
  PROVE  LET extra == RoundedUp(total, w, u, left)
         IN  /\ extra \in SUBSET Chains /\ IsFiniteSet(extra) /\ Cardinality(extra) = left
             /\ \A c \in extra : fraction[c] > 0
<1> DEFINE P == {c \in Chains : fraction[c] > 0}
           R == Order(fraction)
           f == RankIn(R, Chains)
           extra == Foremost(R, Chains, left)
<1>1. \A c \in Chains : fraction[c] \in 0 .. u - 1
  <2> TAKE c \in Chains
  <2>1. total * w[c] \in Nat
    OBVIOUS
  <2> QED BY <2>1, Quotient
<1>2. IsFiniteSet(Chains) /\ Chains \subseteq Nat
  BY PickerAssumption
<1>3. IsFiniteSet(P) /\ Cardinality(P) \in Nat /\ Cardinality(P) <= Cardinality(Chains)
      /\ Cardinality(Chains) \in Nat
  BY <1>2, FS_Subset, FS_CardinalityType
<1>4. left \in Nat /\ left <= Cardinality(P) /\ (P # {} => left < Cardinality(P))
  <2>1. /\ \A c \in Chains : fraction[c] \in 0 .. u /\ fraction[c] \in Nat
        /\ \A c \in P : fraction[c] < u
        /\ P = {c \in Chains : fraction[c] > 0}
    BY <1>1
  <2> HIDE DEF P
  <2>2. /\ SumOver(fraction, Chains) <= u * Cardinality(P)
        /\ P # {} => SumOver(fraction, Chains) < u * Cardinality(P)
    BY <1>2, <2>1, SumOfFew
  <2>3. SumOver(fraction, Chains) \in Nat
    BY <1>2, <2>1, SumOfNats
  <2>4. \A m \in Nat : /\ u * left <= u * m => left <= m
                       /\ u * left < u * m => left < m
    OBVIOUS
  <2>5. u * left >= 0 => left >= 0
    OBVIOUS
  <2> QED BY <1>3, <2>2, <2>3, <2>4, <2>5
<1>5. RoundedUp(total, w, u, left) = extra
  <2>1. \A c \in Chains : f[c] = Cardinality({d \in Chains :
             \/ (total * w[d]) % u > (total * w[c]) % u
             \/ (total * w[d]) % u = (total * w[c]) % u /\ d < c})
    <3> TAKE c \in Chains
    <3>1. {d \in Chains : <<d, c>> \in R} = {d \in Chains :
             \/ (total * w[d]) % u > (total * w[c]) % u
             \/ (total * w[d]) % u = (total * w[c]) % u /\ d < c}
      BY DEF Order
    <3> QED BY <3>1 DEF RankIn
  <2> HIDE DEF f
  <2> QED BY <2>1 DEF RoundedUp, Foremost, f
<1>6. IsFiniteSet(extra) /\ Cardinality(extra) = left
  <2>1. \A c, d \in Chains : fraction[c] \in Int /\ c \in Int
                             /\ (<<c, d>> \in R <=> \/ fraction[c] > fraction[d]
                                                    \/ fraction[c] = fraction[d] /\ c < d)
    BY <1>1, <1>2 DEF Order
  <2> HIDE DEF R
  <2>3. IsOrder(R, Chains)
    <3>1. \A c \in Chains : <<c, c>> \notin R
      BY <2>1
    <3>2. ASSUME NEW c \in Chains, NEW d \in Chains, c # d
          PROVE  <<c, d>> \in R \/ <<d, c>> \in R
      <4>1. fraction[c] \in Int /\ fraction[d] \in Int /\ c \in Int /\ d \in Int
        BY <2>1
      <4>2. \/ fraction[c] > fraction[d]
            \/ fraction[c] = fraction[d] /\ c < d
            \/ fraction[d] > fraction[c]
            \/ fraction[d] = fraction[c] /\ d < c
        BY ONLY <4>1, <3>2
      <4> QED BY <2>1, <4>2
    <3>3. ASSUME NEW c \in Chains, NEW d \in Chains, NEW e \in Chains, <<c, d>> \in R, <<d, e>> \in R
          PROVE  <<c, e>> \in R
      <4>1. \/ fraction[c] > fraction[d]
            \/ fraction[c] = fraction[d] /\ c < d
        BY <2>1, <3>3
      <4>2. \/ fraction[d] > fraction[e]
            \/ fraction[d] = fraction[e] /\ d < e
        BY <2>1, <3>3
      <4>3. /\ fraction[c] \in Int /\ fraction[d] \in Int /\ fraction[e] \in Int
            /\ c \in Int /\ d \in Int /\ e \in Int
        BY <2>1
      <4>4. \/ fraction[c] > fraction[e]
            \/ fraction[c] = fraction[e] /\ c < e
        BY ONLY <4>1, <4>2, <4>3
      <4> QED BY <2>1, <4>4
    <3> QED BY <3>1, <3>2, <3>3 DEF IsOrder
  <2>4. left <= Cardinality(Chains) /\ left \in Nat
    BY <1>3, <1>4
  <2> QED BY <1>2, <2>3, <2>4, Ranks
<1>7. ASSUME NEW c \in extra, ~(fraction[c] > 0) PROVE FALSE
  <2>1. fraction[c] = 0 /\ c \in Chains
    BY <1>1, <1>7 DEF Foremost
  <2>2. P \subseteq {d \in Chains : <<d, c>> \in R}
    BY <1>1, <2>1 DEF Order
  <2>3. /\ IsFiniteSet({d \in Chains : <<d, c>> \in R}) /\ f[c] \in Nat
        /\ f[c] = Cardinality({d \in Chains : <<d, c>> \in R}) /\ f[c] < left
    BY <1>2, FS_Subset, FS_CardinalityType DEF Foremost, RankIn
  <2>4. Cardinality(P) <= f[c]
    BY <2>2, <2>3, FS_Subset
  <2>5. f[c] < left
    BY <2>3
  <2> QED BY <1>3, <1>4, <2>3, <2>4, <2>5
<1>8. extra \in SUBSET Chains
  BY DEF Foremost
<1> HIDE DEF extra
<1> QED BY <1>5, <1>6, <1>7, <1>8 DEF extra

\* The quotas are shares of the total: together the total, and each within a byte of
\* its percentage.
LEMMA QuotasShare ==
  ASSUME NEW total \in Nat, NEW w \in Weightings
  PROVE  LET q == ByteQuotas(total, w)
             unit == SumOver(w, Chains)
         IN  /\ q \in [Chains -> 0 .. total]
             /\ SumOver(q, Chains) = total
             /\ \A c \in Chains : /\ q[c] * unit < total * w[c] + unit
                                  /\ total * w[c] < (q[c] + 1) * unit
<1> DEFINE q == ByteQuotas(total, w)
           u == SumOver(w, Chains)
           share == [c \in Chains |-> total * w[c]]
           floor == [c \in Chains |-> (total * w[c]) \div u]
           fraction == [c \in Chains |-> (total * w[c]) % u]
           zero == [c \in Chains |-> 0]
           left == total - SumOver(floor, Chains)
           extra == RoundedUp(total, w, u, left)
           one == [c \in Chains |-> IF c \in extra THEN 1 ELSE 0]
<1>1. IsFiniteSet(Chains) /\ w \in [Chains -> Nat] /\ \E c \in Chains : w[c] > 0
  BY PickerAssumption
<1>2. u \in Nat /\ u > 0
  <2>1. u \in Nat /\ \A c \in Chains : w[c] <= u
    BY <1>1, SumOfNats
  <2> QED BY <1>1, <2>1
<1> HIDE DEF u
<1>3. ASSUME NEW c \in Chains
      PROVE  /\ share[c] \in Nat /\ floor[c] \in Nat /\ fraction[c] \in 0 .. u - 1
             /\ share[c] = u * floor[c] + fraction[c]
  <2>1. total * w[c] \in Nat
    BY <1>1
  <2> QED BY <1>2, <2>1, Quotient
<1>4. SumOver(share, Chains) = total * u
  <2>1. SumOver(zero, Chains) = 0
    <3>1. \A c \in Chains : zero[c] \in Int /\ zero[c] = 0 * zero[c] + 0
      OBVIOUS
    <3> DEFINE none == {c \in Chains : zero[c] > 0}
    <3>2. none = {} /\ Cardinality({}) = 0
      BY FS_EmptySet
    <3>3. \A c \in Chains : zero[c] \in Nat /\ zero[c] \in 0 .. 0
      OBVIOUS
    <3>4. SumOver(zero, Chains) \in Nat
      BY <1>1, <3>3, SumOfNats
    <3>5. SumOver(zero, Chains) <= 0 * Cardinality(none)
      BY <1>1, <3>3, SumOfFew
    <3> HIDE DEF zero
    <3> QED BY <3>2, <3>4, <3>5
  <2>2. \A c \in Chains : w[c] \in Int /\ zero[c] \in Int /\ share[c] = total * w[c] + zero[c]
    BY <1>1
  <2> HIDE DEF share, zero
  <2>3. SumOver(share, Chains) = total * SumOver(w, Chains) + SumOver(zero, Chains)
    BY <1>1, <2>2, SumOfProduct
  <2> QED BY <1>2, <2>1, <2>3 DEF u
<1>5. SumOver(floor, Chains) \in Nat /\ SumOver(fraction, Chains) \in Nat
  <2>1. \A c \in Chains : floor[c] \in Nat /\ fraction[c] \in Nat
    BY <1>2, <1>3
  <2> QED BY <1>1, <2>1, SumOfNats
<1>6. u * left = SumOver(fraction, Chains)
  <2>1. \A c \in Chains : floor[c] \in Int /\ fraction[c] \in Int /\ share[c] = u * floor[c] + fraction[c]
    BY <1>2, <1>3
  <2> HIDE DEF share, floor, fraction
  <2>2. SumOver(share, Chains) = u * SumOver(floor, Chains) + SumOver(fraction, Chains)
    BY <1>1, <1>2, <2>1, u \in Int, SumOfProduct
  <2>3. ASSUME NEW a \in Nat, NEW b \in Nat, total * u = u * a + b PROVE u * (total - a) = b
    <3>1. u * (total - a) = total * u - u * a /\ u * a \in Int /\ total * u \in Int
      BY <1>2
    <3> QED BY <2>3, <3>1
  <2> QED BY <1>4, <1>5, <2>2, <2>3
<1>7. /\ extra \in SUBSET Chains /\ IsFiniteSet(extra) /\ Cardinality(extra) = left
      /\ \A c \in extra : fraction[c] > 0
  <2>1. left \in Int
    BY <1>5
  <2> HIDE DEF left
  <2> QED BY <1>1, <1>2, <1>6, <2>1, ExtraBytes
<1>8. q = [c \in Chains |-> floor[c] + one[c]]
  <2>1. q = [c \in Chains |-> floor[c] + (IF c \in extra THEN 1 ELSE 0)]
    BY DEF ByteQuotas, u
  <2> HIDE DEF q, floor, extra
  <2> QED BY <2>1
<1> HIDE DEF extra, q
<1>9. SumOver(one, Chains) = left
  <2>1. {c \in Chains : one[c] > 0} = extra /\ \A c \in Chains : one[c] \in 0 .. 1
    BY <1>7
  <2>2. \A c \in extra : one[c] = 1
    BY <1>7
  <2> HIDE DEF one
  <2>3. SumOver(one, Chains) = 1 * Cardinality(extra)
    BY <1>1, <2>1, <2>2, SumOfFew
  <2> QED BY <1>5, <1>7, <2>3
<1>10. SumOver(q, Chains) = total
  <2>1. \A c \in Chains : floor[c] \in Int /\ one[c] \in Int /\ q[c] = 1 * floor[c] + one[c]
    BY <1>3, <1>8
  <2> HIDE DEF floor, one
  <2>2. SumOver(q, Chains) = 1 * SumOver(floor, Chains) + SumOver(one, Chains)
    <3>1. 1 \in Int /\ IsFiniteSet(Chains)
      BY <1>1
    <3> QED BY ONLY <2>1, <3>1, SumOfProduct
  <2>3. SumOver(floor, Chains) \in Int /\ left \in Int /\ SumOver(floor, Chains) + left = total
    BY <1>5
  <2> HIDE DEF left
  <2> QED BY <1>9, <2>2, <2>3
<1>11. q \in [Chains -> 0 .. total]
  <2>1. \A c \in Chains : q[c] \in Nat
    BY <1>3, <1>8
  <2>2. \A c \in Chains : q[c] <= total
    BY <1>1, <1>10, <2>1, SumOfNats
  <2> QED BY <1>8, <2>1, <2>2
<1>12. ASSUME NEW c \in Chains
       PROVE  q[c] * u < total * w[c] + u /\ total * w[c] < (q[c] + 1) * u
  <2>1. q[c] = floor[c] + one[c] /\ share[c] = total * w[c]
        /\ one[c] = IF c \in extra THEN 1 ELSE 0
    BY <1>8
  <2> DEFINE x == floor[c]
             r == fraction[c]
  <2>2. x \in Nat /\ r \in 0 .. u - 1 /\ total * w[c] = u * x + r /\ (c \in extra => r > 0)
    BY <1>3, <1>7, <2>1
  <2>3. q[c] = IF c \in extra THEN x + 1 ELSE x
    BY <2>1, <2>2
  <2> HIDE DEF x, r, floor, fraction, share, one
  <2>4. x * u = u * x /\ (x + 1) * u = u * x + u /\ (x + 1 + 1) * u = u * x + u + u /\ u * x \in Nat
    BY <1>2, <2>2
  <2>5. CASE c \in extra
    BY <1>2, <2>2, <2>3, <2>4, <2>5
  <2>6. CASE c \notin extra
    BY <1>2, <2>2, <2>3, <2>4, <2>6
  <2> QED BY <2>5, <2>6
<1> QED BY <1>10, <1>11, <1>12 DEF q, u

\* The plans that weigh the chains.
WeightedPlans == {"exact", "soft", "proofExact", "proofSoft"}

\* The quotas of any plan are natural numbers, and those of a weighted one sum up to
\* what it is to cover.
LEMMA QuotasAre ==
  ASSUME NEW p \in Plans, GoalOf(p) \in 0 .. N, p \in WeightedPlans => weights \in Weightings
  PROVE  /\ QuotasOf(p) \in [Chains -> 0 .. N]
         /\ p \in WeightedPlans =>
              LET q == QuotasOf(p)
                  unit == SumOver(weights, Chains)
              IN  /\ SumOver(q, Chains) = GoalOf(p)
                  /\ \A c \in Chains : /\ q[c] * unit < GoalOf(p) * weights[c] + unit
                                       /\ GoalOf(p) * weights[c] < (q[c] + 1) * unit
<1>1. N \in Nat
  BY PickerAssumption
<1>2. CASE p \in WeightedPlans
  <2>1. QuotasOf(p) = ByteQuotas(GoalOf(p), weights)
    BY <1>2 DEF QuotasOf, WeightedPlans
  <2>2. QuotasOf(p) \in [Chains -> 0 .. GoalOf(p)]
    BY <1>2, <2>1, QuotasShare
  <2>3. QuotasOf(p) \in [Chains -> 0 .. N]
    BY <1>1, <2>2
  <2> QED BY <1>2, <2>1, <2>3, QuotasShare
<1>3. CASE p \notin WeightedPlans
  BY <1>1, <1>3 DEF QuotasOf, WeightedPlans
<1> QED BY <1>2, <1>3

----------------------------------------------------------------------------
(* The preferred offer.                                                    *)

\* Fractions with a denominator above 0 are ordered.
Fraction == [num : Int, den : Nat \ {0}]

\* The order of the deficits is transitive.
LEMMA LessOrEqual ==
  ASSUME NEW a \in Fraction, NEW b \in Fraction, NEW c \in Fraction, ~Less(b, a), ~Less(c, b)
  PROVE  ~Less(c, a) /\ (Less(a, b) \/ Less(b, c) => Less(a, c))
<1> DEFINE an == a.num
           ad == a.den
           bn == b.num
           bd == b.den
           cn == c.num
           cd == c.den
<1>1. an \in Int /\ bn \in Int /\ cn \in Int /\ ad \in Nat \ {0} /\ bd \in Nat \ {0} /\ cd \in Nat \ {0}
  BY DEF Fraction
<1>2. /\ Less(b, a) <=> bn * ad < an * bd
      /\ Less(c, b) <=> cn * bd < bn * cd
      /\ Less(c, a) <=> cn * ad < an * cd
      /\ Less(a, b) <=> an * bd < bn * ad
      /\ Less(b, c) <=> bn * cd < cn * bd
      /\ Less(a, c) <=> an * cd < cn * ad
  BY DEF Less
<1> HIDE DEF an, ad, bn, bd, cn, cd
<1>3. \A x, y \in Int, m \in Nat \ {0} : /\ x < y <=> m * x < m * y
                                         /\ x <= y <=> m * x <= m * y
  <2> TAKE x, y \in Int, m \in Nat \ {0}
  <2>1. x < y => m * x < m * y
    OBVIOUS
  <2>2. y < x => m * y < m * x
    OBVIOUS
  <2>3. x = y => m * x = m * y
    OBVIOUS
  <2>4. m * x \in Int /\ m * y \in Int
    OBVIOUS
  <2> QED BY <2>1, <2>2, <2>3, <2>4
<1> DEFINE X == cd * (an * bd)
           Y == cd * (bn * ad)
           Z == ad * (cn * bd)
           V == ad * (bn * cd)
<1>4. /\ Y = V /\ X = bd * (an * cd) /\ Z = bd * (cn * ad)
      /\ X \in Int /\ Y \in Int /\ Z \in Int /\ V \in Int
  BY <1>1
<1>5. /\ an * bd \in Int /\ bn * ad \in Int /\ cn * bd \in Int /\ bn * cd \in Int
      /\ an * cd \in Int /\ cn * ad \in Int
  BY <1>1
<1>6. /\ bn * ad < an * bd <=> Y < X
      /\ an * bd < bn * ad <=> X < Y
      /\ cn * bd < bn * cd <=> Z < V
      /\ bn * cd < cn * bd <=> V < Z
  BY <1>1, <1>3, <1>5
<1>7. /\ cn * ad < an * cd <=> Z < X
      /\ an * cd < cn * ad <=> X < Z
  BY <1>1, <1>3, <1>4, <1>5
<1> HIDE DEF X, Y, Z, V
<1> QED BY <1>2, <1>4, <1>6, <1>7

\* Two fractions can be compared.
LEMMA LessIsTotal ==
  ASSUME NEW a \in Fraction, NEW b \in Fraction
  PROVE  ~(Less(a, b) /\ Less(b, a))
BY DEF Less, Fraction

\* The invariant's types, of what the deficit is made of.
LEMMA DeficitIs ==
  ASSUME quotas \in [Chains -> 0 .. N], used \in [Chains -> 0 .. N], NEW c \in Chains
  PROVE  Deficit(c) \in Fraction
<1>1. N \in Nat /\ quotas[c] \in Int /\ used[c] \in Int
  BY PickerAssumption
<1> QED BY <1>1 DEF Deficit, Fraction

\* Among any offers there is one that is preferred to all.
LEMMA PreferredExists ==
  ASSUME quotas \in [Chains -> 0 .. N], used \in [Chains -> 0 .. N],
         NEW S, IsFiniteSet(S), S # {}, \A x \in S : x.chain \in Chains /\ x.len \in Int
  PROVE  \E x \in S : \A y \in S : Preferred(x, y)
<1> DEFINE D(x) == Deficit(x.chain)
<1>1. \A x \in S : D(x) \in Fraction /\ x.chain \in Int /\ x.len \in Int
  <2> TAKE x \in S
  <2>1. x.chain \in Chains /\ x.len \in Int
    OBVIOUS
  <2>2. D(x) \in Fraction
    BY <2>1, DeficitIs
  <2>3. Chains \subseteq Int
    BY PickerAssumption
  <2> QED BY <2>1, <2>2, <2>3
<1>2. \A x, y \in S : Preferred(x, y) <=>
         \/ Less(D(y), D(x))
         \/ ~Less(D(x), D(y)) /\ x.len > y.len
         \/ ~Less(D(x), D(y)) /\ x.len = y.len /\ x.chain >= y.chain
  BY DEF Preferred
<1>3. \A x, y \in S : ~(Less(D(x), D(y)) /\ Less(D(y), D(x)))
  BY <1>1, LessIsTotal
<1>4. \A x, y, z \in S : ~Less(D(y), D(x)) /\ ~Less(D(z), D(y)) =>
         /\ ~Less(D(z), D(x))
         /\ Less(D(x), D(y)) \/ Less(D(y), D(z)) => Less(D(x), D(z))
  <2> TAKE x, y, z \in S
  <2> HIDE DEF D
  <2> QED BY <1>1, LessOrEqual
<1> HIDE DEF D
<1>5. \A x, y \in S : Preferred(x, y) \/ Preferred(y, x)
  <2> TAKE x, y \in S
  <2>1. x.chain \in Int /\ y.chain \in Int /\ x.len \in Int /\ y.len \in Int
    BY <1>1
  <2> QED BY <1>2, <1>3, <2>1
<1>6. ASSUME NEW x \in S, NEW y \in S, NEW z \in S, Preferred(x, y), Preferred(y, z)
      PROVE  Preferred(x, z)
  <2>1. /\ x.chain \in Int /\ y.chain \in Int /\ z.chain \in Int
        /\ x.len \in Int /\ y.len \in Int /\ z.len \in Int
    BY <1>1
  <2>2. ~Less(D(x), D(y)) /\ ~Less(D(y), D(z))
    BY <1>2, <1>3, <1>6
  <2>3. /\ ~Less(D(x), D(z))
        /\ Less(D(z), D(y)) \/ Less(D(y), D(x)) => Less(D(z), D(x))
    BY <1>4, <2>2
  <2>4. \/ Less(D(y), D(x)) \/ x.len > y.len
        \/ x.len = y.len /\ x.chain >= y.chain
    BY <1>2, <1>6
  <2>5. \/ Less(D(z), D(y)) \/ y.len > z.len
        \/ y.len = z.len /\ y.chain >= z.chain
    BY <1>2, <1>6
  <2>6. \/ Less(D(z), D(x)) \/ x.len > z.len
        \/ x.len = z.len /\ x.chain >= z.chain
    BY ONLY <2>1, <2>3, <2>4, <2>5
  <2> QED BY <1>2, <2>3, <2>6
<1> DEFINE W == {T \in SUBSET S : T # {} => \E x \in T : \A y \in T : Preferred(x, y)}
<1>7. {} \in W
  OBVIOUS
<1>8. ASSUME NEW T \in SUBSET S, T # {}, Others(T) \in W PROVE T \in W
  <2>1. First(T) \in T /\ T = Others(T) \cup {First(T)}
    BY <1>8 DEF First, Others
  <2>2. CASE Others(T) = {}
    <3>1. \A y \in T : Preferred(First(T), y)
      BY <1>5, <2>1, <2>2
    <3> QED BY <2>1, <3>1
  <2>3. CASE Others(T) # {}
    <3>1. PICK x \in Others(T) : \A y \in Others(T) : Preferred(x, y)
      BY <1>8, <2>3
    <3>2. CASE Preferred(x, First(T))
      BY <2>1, <3>1, <3>2
    <3>3. CASE Preferred(First(T), x)
      <4>1. \A y \in T : Preferred(First(T), y)
        BY <1>5, <1>6, <2>1, <3>1, <3>3
      <4> QED BY <2>1, <4>1
    <3> QED BY <1>5, <2>1, <3>1, <3>2, <3>3
  <2> QED BY <2>2, <2>3
<1> HIDE DEF W
<1>9. S \in W
  BY <1>7, <1>8, PartsInduction
<1> QED BY <1>9 DEF W

----------------------------------------------------------------------------
(* The bytes of segments.                                                  *)

\* The bytes of a segment, and of those of s in S: Bytes(S), of any sequence.
Span(x)       == x.at .. End(x) - 1
BytesOf(s, S) == UNION {Span(s[i]) : i \in S}

\* The segments of s end before x begins.
Before(s, x) == \A i \in DOMAIN s : End(s[i]) <= x.at

\* What seg adds to the bytes of the segments of s in S.
Adds(s, seg, S) ==
  LET t == Append(s, seg) IN
  /\ BytesOf(t, S) = BytesOf(s, S)
  /\ BytesOf(t, S \cup {Len(s) + 1}) = BytesOf(s, S) \cup Span(seg)
  /\ Cardinality(BytesOf(s, S)) \in Nat
  /\ Cardinality(BytesOf(s, S)) <= Cardinality(BytesOf(s, DOMAIN s))
  /\ Cardinality(BytesOf(t, S \cup {Len(s) + 1})) = Cardinality(BytesOf(s, S)) + seg.len
  /\ BytesOf(s, S) \subseteq 0 .. seg.at - 1

\* A segment behind the others adds its bytes to theirs.
LEMMA BytesAdd ==
  ASSUME NEW s \in Seq(Segment), NEW seg \in Segment, Before(s, seg), NEW S, S \subseteq DOMAIN s
  PROVE  Adds(s, seg, S)
<1> DEFINE t == Append(s, seg)
<1>1. seg.at \in Nat /\ seg.len \in Nat /\ seg.len > 0
  BY PickerAssumption DEF Segment, Positions
<1>2. \A i \in DOMAIN s : t[i] = s[i] /\ s[i].at \in Nat /\ s[i].len \in Nat
  <2> TAKE i \in DOMAIN s
  <2>1. t[i] = s[i] /\ s[i] \in Segment
    OBVIOUS
  <2> QED BY <2>1, PickerAssumption DEF Segment, Positions
<1>3. t[Len(s) + 1] = seg
  OBVIOUS
<1>4. BytesOf(t, S) = BytesOf(s, S)
  BY <1>2 DEF BytesOf
<1>5. BytesOf(t, S \cup {Len(s) + 1}) = BytesOf(s, S) \cup Span(seg)
  <2>1. BytesOf(t, S \cup {Len(s) + 1}) = BytesOf(t, S) \cup BytesOf(t, {Len(s) + 1})
    BY DEF BytesOf
  <2>2. BytesOf(t, {Len(s) + 1}) = Span(seg)
    BY <1>3 DEF BytesOf
  <2> QED BY <1>4, <2>1, <2>2
<1>6. BytesOf(s, S) \subseteq 0 .. seg.at - 1
  BY <1>1, <1>2 DEF BytesOf, Span, Before, End
<1>7. IsFiniteSet(0 .. seg.at - 1)
  BY <1>1, 0 \in Int, seg.at - 1 \in Int, FS_Interval
<1>8. /\ IsFiniteSet(BytesOf(s, S)) /\ Cardinality(BytesOf(s, S)) \in Nat
      /\ Cardinality(BytesOf(s, S)) <= Cardinality(BytesOf(s, DOMAIN s))
  <2>1. BytesOf(s, DOMAIN s) \subseteq 0 .. seg.at - 1
    BY <1>1, <1>2 DEF BytesOf, Span, Before, End
  <2>2. BytesOf(s, S) \subseteq BytesOf(s, DOMAIN s)
    BY DEF BytesOf
  <2>3. IsFiniteSet(BytesOf(s, DOMAIN s))
    BY <1>7, <2>1, FS_Subset
  <2> QED BY <2>2, <2>3, FS_Subset, FS_CardinalityType
<1> DEFINE new == Span(seg)
<1>9. IsFiniteSet(new) /\ Cardinality(new) = seg.len
  <2> DEFINE a == seg.at
             b == seg.at + seg.len - 1
  <2>1. a \in Int /\ b \in Int /\ ~(a > b) /\ b - a + 1 = seg.len /\ new = a .. b
    BY <1>1 DEF Span, End
  <2> HIDE DEF a, b, new
  <2>2. IsFiniteSet(a .. b) /\ Cardinality(a .. b) = IF a > b THEN 0 ELSE b - a + 1
    BY <2>1, FS_Interval
  <2> QED BY <2>1, <2>2
<1>10. BytesOf(s, S) \cap new = {} /\ Cardinality({}) = 0
  BY <1>1, <1>6, FS_EmptySet DEF Span, End
<1> HIDE DEF new
<1>11. Cardinality(BytesOf(s, S) \cup new) = Cardinality(BytesOf(s, S)) + seg.len
  <2> DEFINE old == BytesOf(s, S)
  <2>1. IsFiniteSet(old) /\ IsFiniteSet(new) /\ Cardinality(old) \in Nat /\ Cardinality(old \cap new) = 0
    BY <1>8, <1>9, <1>10
  <2> HIDE DEF old
  <2>2. Cardinality(old \cup new) = Cardinality(old) + Cardinality(new) - Cardinality(old \cap new)
    BY <2>1, FS_Union
  <2> QED BY <1>1, <1>9, <2>1, <2>2 DEF old
<1> QED BY <1>4, <1>5, <1>6, <1>8, <1>9, <1>11 DEF new, Adds

----------------------------------------------------------------------------
(* The invariant of the pickers.                                           *)

\* The plans that leave no gap, and those for which an offset without an offer is one
\* that nothing matches.
GaplessPlans == {"exact", "soft", "trace"}
OpenPlans    == {"partial", "proofSoft"}

\* The plan is one for the request and the mix, and the quotas are its quotas.
PlanFits ==
  /\ longest \in Tables
  /\ plan \in ProofPlans <=> request < 100
  /\ plan \in WeightedPlans <=> weights # NoWeights
  /\ quotas = QuotasOf(plan)

\* The segments are fragments of the corpus that follow each other up to pos; a full
\* recipe has covered everything before it.
SegmentsFit ==
  /\ \A i \in DOMAIN segs : segs[i].len <= longest[segs[i].chain][segs[i].at]
  /\ \A i \in DOMAIN segs : End(segs[i]) <= pos
  /\ \A i, j \in DOMAIN segs : i < j => End(segs[i]) <= segs[j].at
  /\ plan = "fewest" => segs = <<>>
  /\ plan \in GaplessPlans =>
       /\ covered = pos
       /\ segs = <<>> => pos = 0
       /\ segs # <<>> => segs[1].at = 0 /\ End(segs[Len(segs)]) = pos
       /\ \A i \in 1 .. Len(segs) - 1 : End(segs[i]) = segs[i + 1].at

\* The bytes accounted for are those of the segments, and stay within goal and quotas.
AccountsFit ==
  /\ covered = Cardinality(BytesOf(segs, DOMAIN segs))
  /\ \A c \in Chains :
       used[c] = Cardinality(BytesOf(segs, {i \in DOMAIN segs : segs[i].chain = c}))
  /\ covered <= Goal
  /\ plan \in QuotaPlans => \A c \in Chains : used[c] <= quotas[c]

\* What a proof has left behind nothing could cover.
NothingMissed ==
  plan \in OpenPlans => \A p \in Coverable : p < pos => p \in BytesOf(segs, DOMAIN segs)

\* The ways to cut the target from offset p.
TilingsFrom(p) ==
  {S \in SUBSET (p .. N - 1) :
     p \in S /\ \A s \in S : \E c \in Chains : longest[c][s] >= NextCut(S, s) - s}

\* cost[p] is the number of segments the choices from p make, and no more than any
\* tiling from p has; it is Infinite where the choices do not reach the end.
Costs(cost, first) ==
  /\ cost \in [0 .. N -> 0 .. Infinite]
  /\ cost[N] = 0
  /\ \A p \in first .. N - 1 :
       /\ choice[p] = 0 => cost[p] = Infinite
       /\ choice[p] # 0 =>
            /\ \E c \in Chains : choice[p] <= longest[c][p]
            /\ p + choice[p] <= N
            /\ cost[p] = 1 + cost[p + choice[p]] /\ cost[p] <= N - p
       /\ \A S \in TilingsFrom(p) : cost[p] <= Cardinality(S)

\* The window shows the costs behind pos; the trace has spent what it has segments.
DecisionsFit ==
  /\ plan = "fewest" =>
       \E cost : /\ Costs(cost, pos)
                 /\ \A i \in 1 .. MaxChunk :
                      window[i] = IF pos + i - 1 <= N THEN cost[pos + i - 1] ELSE Infinite
  /\ plan = "trace" =>
       \E cost : Costs(cost, 0) /\ cost[pos] <= N /\ Len(segs) + cost[pos] = cost[0]

\* What is known when the search is over.
VerdictFits ==
  /\ stage = "built" =>
       plan # "fewest" /\ IF request = 100 THEN pos = N ELSE Accepted
  /\ stage = "refused" =>
       IF request = 100 THEN Tilings = {}
       ELSE plan \in OpenPlans /\ ~Accepted /\ ~(pos < N /\ covered < Goal)

PickInv ==
  /\ TypeOK /\ PlanFits /\ SegmentsFit /\ AccountsFit /\ NothingMissed
  /\ DecisionsFit /\ VerdictFits

----------------------------------------------------------------------------
(* What the steps rest on.                                                 *)

\* The constants as the steps need them.
LEMMA Constants ==
  /\ N \in Nat /\ N > 0 /\ MaxChunk \in Nat /\ MaxChunk > 0
  /\ Chains \subseteq Int /\ IsFiniteSet(Chains)
  /\ Positions = 0 .. N - 1 /\ Infinite = N + 1
BY PickerAssumption DEF Positions, Infinite

\* A fragment of the table ends within the target, and its tail is a fragment.
LEMMA Table ==
  ASSUME longest \in Tables, NEW c \in Chains, NEW p \in Positions
  PROVE  /\ longest[c][p] \in 0 .. MaxChunk /\ longest[c][p] <= N - p
         /\ \A q \in p .. N - 1 : longest[c][q] >= longest[c][p] - (q - p)
BY PickerAssumption

\* A proof covers the request, rounded up.
LEMMA NeededIs ==
  ASSUME request \in Requests
  PROVE  /\ Needed \in 1 .. N /\ 100 * Needed >= N * request
         /\ \A p \in Plans : GoalOf(p) \in 1 .. N
<1>1. request \in 1 .. 100 /\ N \in Nat /\ N > 0
  BY PickerAssumption
<1> DEFINE x == N * request
<1>2. x \in Nat /\ x >= 1 /\ x <= 100 * N
  <2>1. x \in Nat
    BY <1>1
  <2>2. x = N + N * (request - 1) /\ N * (request - 1) >= 0
    BY <1>1
  <2>3. 100 * N = x + N * (100 - request) /\ N * (100 - request) >= 0
    BY <1>1
  <2> HIDE DEF x
  <2> QED BY <1>1, <2>1, <2>2, <2>3
<1>3. Needed = (x + 99) \div 100
  BY DEF Needed
<1> HIDE DEF x
<1>4. Needed \in 1 .. N /\ 100 * Needed >= x
  BY <1>1, <1>2, <1>3
<1> QED BY <1>1, <1>4 DEF GoalOf, x

\* The best offer is one of the offers: a fragment its chain has at pos, within what
\* the chain may give.
LEMMA BestIs ==
  ASSUME TypeOK, longest \in Tables, pos < N, Offers # {}
  PROVE  /\ Best(Offers) \in Segment /\ Best(Offers).at = pos
         /\ Best(Offers).len <= longest[Best(Offers).chain][pos]
         /\ Best(Offers).len <= Allowance(Best(Offers).chain)
<1> DEFINE D == {d \in Chains : longest[d][pos] > 0 /\ Allowance(d) > 0}
           f == [c \in D |-> Offer(c)]
<1>1. Offers = {Offer(c) : c \in D}
  BY DEF Offers
<1>2. f \in Surjection(D, Offers)
  BY <1>1 DEF Surjection
<1>3. IsFiniteSet(D)
  BY Constants, FS_Subset
<1>4. IsFiniteSet(Offers)
  BY <1>2, <1>3, FS_Surjection
<1>5. ASSUME NEW c \in D
      PROVE  /\ Offer(c) \in Segment /\ Offer(c).at = pos /\ Offer(c).chain = c
             /\ Offer(c).len <= longest[c][pos] /\ Offer(c).len <= Allowance(c)
  <2>1. pos \in Positions
    BY Constants DEF TypeOK
  <2>2. longest[c][pos] \in 1 .. MaxChunk
    BY <2>1, Table
  <2>3. Allowance(c) \in Int /\ Allowance(c) > 0
    BY Constants DEF Allowance, MinOf, TypeOK
  <2> HIDE DEF D
  <2>4. MinOf(longest[c][pos], Allowance(c)) \in 1 .. MaxChunk
    BY <2>2, <2>3, Constants DEF MinOf
  <2>5. /\ MinOf(longest[c][pos], Allowance(c)) <= longest[c][pos]
        /\ MinOf(longest[c][pos], Allowance(c)) <= Allowance(c)
    BY <2>2, <2>3, Constants DEF MinOf
  <2> QED BY <2>1, <2>4, <2>5 DEF Offer, Segment, D
<1>6. \A x \in Offers : /\ x \in Segment /\ x.at = pos
                        /\ x.len <= longest[x.chain][pos] /\ x.len <= Allowance(x.chain)
  BY <1>1, <1>5
<1>7. \A x \in Offers : x.chain \in Chains /\ x.len \in Int
  BY <1>6, Constants DEF Segment
<1>8. \E x \in Offers : \A y \in Offers : Preferred(x, y)
  BY <1>4, <1>7, PreferredExists DEF TypeOK
<1>9. Best(Offers) \in Offers
  BY <1>8 DEF Best
<1> QED BY <1>6, <1>9

\* Adding a segment at pos that fits keeps the books.
LEMMA AddKeeps ==
  ASSUME TypeOK, PlanFits, SegmentsFit, AccountsFit, NothingMissed, plan # "fewest",
         NEW seg \in Segment, seg.at = pos, seg.len <= longest[seg.chain][pos],
         covered + seg.len <= Goal,
         plan \in QuotaPlans => used[seg.chain] + seg.len <= quotas[seg.chain],
         Add(seg), UNCHANGED <<inputs, plan, quotas>>
  PROVE  /\ segs' \in Seq(Segment) /\ pos' \in 0 .. N
         /\ used' \in [Chains -> 0 .. N] /\ covered' \in 0 .. N
         /\ Len(segs') = Len(segs) + 1 /\ pos' = pos + seg.len
         /\ PlanFits' /\ SegmentsFit' /\ AccountsFit' /\ NothingMissed'
<1> DEFINE c == seg.chain
           n == Len(segs) + 1
<1>1. /\ c \in Chains /\ pos \in Positions /\ seg.len \in 1 .. MaxChunk
      /\ seg.len <= N - pos
  <2>1. c \in Chains /\ pos \in Positions /\ seg.len \in 1 .. MaxChunk
    BY DEF Segment
  <2> QED BY <2>1, Table, Constants DEF PlanFits
<1>2. /\ segs' = Append(segs, seg) /\ used' = [used EXCEPT ![c] = @ + seg.len]
      /\ covered' = covered + seg.len /\ pos' = pos + seg.len
      /\ plan' = plan /\ quotas' = quotas /\ longest' = longest /\ weights' = weights /\ request' = request
  BY DEF Add, inputs
<1>3. /\ segs \in Seq(Segment) /\ used \in [Chains -> 0 .. N] /\ covered \in 0 .. N /\ pos \in 0 .. N
      /\ quotas \in [Chains -> 0 .. N]
  BY DEF TypeOK
<1>4. /\ DOMAIN segs = 1 .. n - 1 /\ DOMAIN segs' = 1 .. n /\ n \in Nat /\ Len(segs') = n
      /\ segs'[n] = seg /\ \A i \in 1 .. n - 1 : segs'[i] = segs[i] /\ segs[i] \in Segment
      /\ segs' \in Seq(Segment)
  BY <1>2, <1>3
<1>5. Before(segs, seg)
  BY DEF SegmentsFit, Before
<1>6. ASSUME NEW S \in SUBSET DOMAIN segs
      PROVE  /\ BytesOf(segs', S) = BytesOf(segs, S)
             /\ BytesOf(segs', S \cup {n}) = BytesOf(segs, S) \cup Span(seg)
             /\ Cardinality(BytesOf(segs, S)) \in Nat
             /\ Cardinality(BytesOf(segs, S)) <= Cardinality(BytesOf(segs, DOMAIN segs))
             /\ Cardinality(BytesOf(segs', S \cup {n})) = Cardinality(BytesOf(segs, S)) + seg.len
  <2>1. segs \in Seq(Segment) /\ segs' = Append(segs, seg)
    BY <1>2, <1>3
  <2>2. seg \in Segment /\ seg.at = pos /\ S \in SUBSET DOMAIN segs
    OBVIOUS
  <2>3. Adds(segs, seg, S)
    BY ONLY <2>1, <2>2, <1>5, BytesAdd
  <2> DEFINE t == Append(segs, seg)
             old == BytesOf(segs, S)
             new == BytesOf(t, S \cup {n})
  <2>4. /\ BytesOf(t, S) = old
        /\ new = old \cup Span(seg)
        /\ Cardinality(old) \in Nat
        /\ Cardinality(old) <= Cardinality(BytesOf(segs, DOMAIN segs))
        /\ Cardinality(new) = Cardinality(old) + seg.len
    BY <2>3 DEF Adds
  <2>5. segs' = t
    BY <2>1
  <2> HIDE DEF t
  <2> QED BY ONLY <2>4, <2>5
<1>7. Goal \in 1 .. N /\ Goal' = Goal
  BY <1>2, NeededIs DEF TypeOK, Goal, GoalOf, Needed
<1>8. covered' \in 0 .. N /\ pos' \in 0 .. N
  <2> DEFINE l == seg.len
  <2>1. /\ l \in 1 .. MaxChunk /\ l <= N - pos /\ covered + l <= Goal
        /\ covered' = covered + l /\ pos' = pos + l
    BY <1>1, <1>2
  <2>2. covered \in 0 .. N /\ pos \in 0 .. N /\ Goal \in 1 .. N /\ N \in Nat /\ MaxChunk \in Nat
    BY <1>3, <1>7, Constants
  <2> HIDE DEF l
  <2> QED BY ONLY <2>1, <2>2
<1> DEFINE Of(s, d) == {i \in DOMAIN s : s[i].chain = d}
<1>9. \A d \in Chains : Of(segs', d) = IF d = c THEN Of(segs, d) \cup {n} ELSE Of(segs, d)
  BY <1>4
<1>10. \A d \in Chains : /\ used[d] = Cardinality(BytesOf(segs, Of(segs, d))) /\ used[d] <= covered
                         /\ used'[d] = Cardinality(BytesOf(segs', Of(segs', d)))
  <2> TAKE d \in Chains
  <2>1. /\ covered = Cardinality(BytesOf(segs, DOMAIN segs))
        /\ used[d] = Cardinality(BytesOf(segs, Of(segs, d))) /\ Of(segs, d) \in SUBSET DOMAIN segs
    BY DEF AccountsFit
  <2>2. used[d] <= covered
    BY <1>6, <2>1
  <2>3. used'[d] = IF d = c THEN used[d] + seg.len ELSE used[d]
    BY <1>1, <1>2, <1>3
  <2> HIDE DEF Of
  <2>4. Cardinality(BytesOf(segs', Of(segs', d))) = IF d = c THEN used[d] + seg.len ELSE used[d]
    BY <1>6, <1>9, <2>1
  <2> QED BY <2>1, <2>2, <2>3, <2>4
<1>11. used' \in [Chains -> 0 .. N]
  <2>1. \A d \in Chains : used'[d] = (IF d = c THEN used[d] + seg.len ELSE used[d]) /\ used[d] \in 0 .. N
    BY <1>1, <1>2, <1>3
  <2>2. ASSUME NEW d \in Chains PROVE used'[d] \in 0 .. N
    <3>1. used[d] <= covered /\ used[d] \in 0 .. N
      BY <1>10, <2>1
    <3>2. used[d] + seg.len <= covered'
      BY <1>1, <1>2, <1>3, <3>1
    <3>3. used'[d] \in {used[d] + seg.len, used[d]} /\ seg.len \in Nat /\ covered' \in 0 .. N
      BY <1>1, <1>8, <2>1, Constants
    <3> QED BY ONLY <3>1, <3>2, <3>3, Constants
  <2> QED BY <1>2, <1>3, <2>2
<1>12. PlanFits'
  BY <1>2 DEF PlanFits, QuotasOf, GoalOf, Needed
<1>13. SegmentsFit'
  <2>1. \A i \in 1 .. n - 1 : /\ segs[i].len <= longest[segs[i].chain][segs[i].at]
                              /\ End(segs[i]) <= pos /\ End(segs[i]) \in Int
    <3> TAKE i \in 1 .. n - 1
    <3>1. segs[i] \in Segment /\ i \in DOMAIN segs
      BY <1>4
    <3> QED BY <3>1, Constants DEF SegmentsFit, End, Segment
  <2>2. End(seg) = pos'
    BY <1>2 DEF End
  <2>3. \A i \in DOMAIN segs' : segs'[i].len <= longest'[segs'[i].chain][segs'[i].at]
    BY <1>2, <1>4, <2>1
  <2>4. \A i \in DOMAIN segs' : End(segs'[i]) <= pos'
    BY <1>1, <1>2, <1>3, <1>4, <2>1, <2>2
  <2>5. ASSUME NEW i \in DOMAIN segs', NEW j \in DOMAIN segs', i < j
        PROVE  End(segs'[i]) <= segs'[j].at
    <3>1. CASE j = n
      BY <1>4, <2>1, <2>5, <3>1
    <3>2. CASE j # n
      <4>1. i \in 1 .. n - 1 /\ j \in 1 .. n - 1
        BY <1>4, <2>5, <3>2
      <4>2. End(segs[i]) <= segs[j].at
        BY <1>4, <2>5, <4>1 DEF SegmentsFit
      <4> QED BY <1>4, <4>1, <4>2
    <3> QED BY <3>1, <3>2
  <2>6. ASSUME plan \in GaplessPlans
        PROVE  /\ covered' = pos' /\ segs' # <<>>
               /\ segs'[1].at = 0 /\ End(segs'[n]) = pos'
               /\ \A i \in 1 .. n - 1 : End(segs'[i]) = segs'[i + 1].at
    <3>1. covered' = pos' /\ segs' # <<>> /\ End(segs'[n]) = pos'
      BY <1>2, <1>4, <2>2, <2>6 DEF SegmentsFit
    <3>2. segs'[1].at = 0
      <4>1. CASE segs = <<>>
        <5>1. n = 1 /\ pos = 0
          BY <2>6, <4>1 DEF SegmentsFit
        <5> QED BY <1>4, <5>1
      <4>2. CASE segs # <<>>
        <5>1. 1 \in 1 .. n - 1 /\ segs[1].at = 0
          BY <1>3, <1>4, <2>6, <4>2 DEF SegmentsFit
        <5> QED BY <1>4, <5>1
      <4> QED BY <4>1, <4>2
    <3>3. ASSUME NEW i \in 1 .. n - 1 PROVE End(segs'[i]) = segs'[i + 1].at
      <4>1. CASE i = n - 1
        <5>1. segs # <<>> /\ i = Len(segs) /\ i + 1 = n
          BY <1>4, <4>1
        <5>2. End(segs[i]) = pos
          BY <2>6, <5>1 DEF SegmentsFit
        <5> QED BY <1>4, <5>1, <5>2
      <4>2. CASE i # n - 1
        <5>1. i \in 1 .. Len(segs) - 1 /\ i + 1 \in 1 .. n - 1
          <6>1. Len(segs) \in Nat /\ i \in 1 .. Len(segs) /\ i # Len(segs)
            BY <1>3, <4>2
          <6> QED BY ONLY <6>1
        <5>2. End(segs[i]) = segs[i + 1].at
          BY <2>6, <5>1 DEF SegmentsFit
        <5> QED BY <1>4, <5>1, <5>2
      <4> QED BY <4>1, <4>2
    <3> QED BY <3>1, <3>2, <3>3
  <2> QED BY <1>2, <1>4, <2>3, <2>4, <2>5, <2>6 DEF SegmentsFit
<1>14. AccountsFit'
  <2>1. covered' = Cardinality(BytesOf(segs', DOMAIN segs'))
    <3>1. covered = Cardinality(BytesOf(segs, DOMAIN segs))
      BY DEF AccountsFit
    <3>2. DOMAIN segs' = DOMAIN segs \cup {n}
      BY <1>4
    <3> QED BY <1>2, <1>6, <3>1, <3>2
  <2>2. plan' \in QuotaPlans => \A d \in Chains : used'[d] <= quotas'[d]
    <3> SUFFICES ASSUME plan \in QuotaPlans, NEW d \in Chains PROVE used'[d] <= quotas[d]
      BY <1>2
    <3>1. used[d] <= quotas[d]
      BY DEF AccountsFit
    <3> QED BY <1>1, <1>2, <1>3, <3>1
  <2>3. covered' <= Goal'
    BY <1>2, <1>7
  <2> QED BY <1>10, <2>1, <2>2, <2>3 DEF AccountsFit
<1>15. NothingMissed'
  <2>1. Coverable' = Coverable /\ Coverable \subseteq Positions
    BY <1>2 DEF Coverable
  <2>2. BytesOf(segs', DOMAIN segs') = BytesOf(segs, DOMAIN segs) \cup Span(seg)
    <3>1. DOMAIN segs' = DOMAIN segs \cup {n}
      BY <1>4
    <3> QED BY <1>6, <3>1
  <2>3. \A p \in Coverable : plan \in OpenPlans /\ p < pos => p \in BytesOf(segs, DOMAIN segs)
    BY DEF NothingMissed
  <2>4. \A p \in Positions : p < pos + seg.len => p < pos \/ p \in Span(seg)
    BY <1>1, <1>3, Constants DEF Span, End
  <2>5. \A p \in Coverable : plan \in OpenPlans /\ p < pos' => p \in BytesOf(segs', DOMAIN segs')
    BY <1>2, <2>1, <2>2, <2>3, <2>4
  <2> QED BY <1>2, <2>1, <2>5 DEF NothingMissed
<1> QED BY <1>2, <1>4, <1>8, <1>11, <1>12, <1>13, <1>14, <1>15

----------------------------------------------------------------------------
(* Cuts.                                                                   *)

\* The next cut is the least one behind s.
LEMMA NextCutIs ==
  ASSUME NEW S \in SUBSET Positions, NEW s \in Positions
  PROVE  /\ NextCut(S, s) \in S \cup {N} /\ NextCut(S, s) > s
         /\ \A x \in S : x <= s \/ x >= NextCut(S, s)
<1> DEFINE R == {e \in S \cup {N} : e > s}
<1>1. R \subseteq Nat /\ R # {} /\ s \in Nat
  <2>1. N \in Nat /\ s \in 0 .. N - 1 /\ S \subseteq 0 .. N - 1
    BY Constants
  <2>2. N \in R
    BY <2>1
  <2>3. S \cup {N} \subseteq Nat
    BY <2>1
  <2>4. R \subseteq Nat
    BY <2>3
  <2>5. R # {}
    BY <2>2
  <2>6. s \in Nat
    BY <2>1
  <2> HIDE DEF R
  <2> QED BY <2>4, <2>5, <2>6
<1>2. PICK e \in R : \A k \in R : e <= k
  BY <1>1, LeastNat
<1>3. e \in S \cup {N} /\ e > s /\ \A x \in S : x <= s \/ x >= e
  BY <1>1, <1>2, Constants
<1> QED BY <1>3 DEF NextCut

\* Where no chain has a fragment no byte can be covered, since the tail of a match is
\* a match.
LEMMA NotCoverable ==
  ASSUME longest \in Tables, NEW p \in Positions, \A c \in Chains : ~(longest[c][p] > 0)
  PROVE  p \notin Coverable
<1> SUFFICES ASSUME NEW c \in Chains, NEW q \in 0 .. p, q + longest[c][q] > p PROVE FALSE
  BY DEF Coverable
<1>1. q \in Positions /\ p \in q .. N - 1
  BY Constants
<1>2. longest[c][p] >= longest[c][q] - (p - q) /\ longest[c][q] \in Int /\ longest[c][p] \in Int
  BY <1>1, Table
<1> QED BY <1>1, <1>2, Constants

\* A byte that cannot be covered is in no tiling.
LEMMA NoTiling ==
  ASSUME longest \in Tables, NEW p \in Positions, p \notin Coverable
  PROVE  Tilings = {}
<1> SUFFICES ASSUME NEW S \in Tilings PROVE FALSE
  OBVIOUS
<1>1. S \in SUBSET Positions /\ 0 \in S /\ p \in Nat
  BY Constants DEF Tilings
<1> DEFINE R == {p - x : x \in {y \in S : y <= p}}
<1>2. R \subseteq Nat /\ R # {}
  <2>1. p - 0 \in R
    BY <1>1
  <2> QED BY <1>1, <2>1, Constants
<1>3. PICK m \in R : \A k \in R : m <= k
  BY <1>2, LeastNat
<1>4. PICK s \in S : s <= p /\ m = p - s
  BY <1>3
<1>5. \A x \in S : x <= p => x <= s
  <2> TAKE x \in S
  <2> SUFFICES ASSUME x <= p PROVE x <= s
    OBVIOUS
  <2>1. p - x \in R
    OBVIOUS
  <2>2. p - s <= p - x
    BY <1>3, <1>4, <2>1
  <2>3. x \in Int /\ s \in Int /\ p \in Int
    BY <1>1, Constants
  <2> QED BY <2>2, <2>3
<1>6. PICK c \in Chains : longest[c][s] >= NextCut(S, s) - s
  BY DEF Tilings
<1>7. NextCut(S, s) > p /\ NextCut(S, s) \in Int
  <2>1. s \in Positions /\ NextCut(S, s) \in S \cup {N} /\ NextCut(S, s) > s
    BY <1>1, NextCutIs
  <2> DEFINE e == NextCut(S, s)
  <2>2. /\ \A x \in S \cup {N} : x \in Int
        /\ p < N /\ p \in Int /\ s \in Int /\ e \in S \cup {N} /\ e > s
    BY <1>1, <2>1, Constants
  <2> HIDE DEF e
  <2>3. e > p
    <3>1. CASE e \in S
      BY <1>5, <2>2, <3>1
    <3>2. CASE e = N
      BY <2>2, <3>2
    <3> QED BY <2>2, <3>1, <3>2
  <2> QED BY <2>2, <2>3 DEF e
<1>8. s \in Positions /\ s \in 0 .. p /\ longest[c][s] \in Int
  BY <1>1, <1>4, Table, Constants
<1>9. s + longest[c][s] > p
  BY <1>6, <1>7, <1>8
<1> QED BY <1>8, <1>9 DEF Coverable

\* A tiling of the rest of the target has no more cuts than bytes.
LEMMA TilingIsSmall ==
  ASSUME NEW p \in Positions, NEW S \in TilingsFrom(p)
  PROVE  IsFiniteSet(S) /\ Cardinality(S) \in Nat /\ Cardinality(S) <= N - p
<1> DEFINE a == p
           b == N - 1
<1>1. S \in SUBSET (a .. b)
  BY DEF TilingsFrom
<1>2. a \in Int /\ b \in Int /\ (IF a > b THEN 0 ELSE b - a + 1) = N - p
  BY Constants
<1> HIDE DEF a, b
<1>3. IsFiniteSet(a .. b) /\ Cardinality(a .. b) = IF a > b THEN 0 ELSE b - a + 1
  BY <1>2, FS_Interval
<1>4. IsFiniteSet(S) /\ Cardinality(S) <= Cardinality(a .. b)
  BY <1>1, <1>3, FS_Subset
<1> QED BY <1>2, <1>3, <1>4, FS_CardinalityType DEF a

\* A tiling of the target is one from its first byte.
LEMMA TilingsAre == Tilings = TilingsFrom(0)
BY Constants DEF Tilings, TilingsFrom

----------------------------------------------------------------------------
(* The steps of the greedy pickers.                                        *)

\* The end of a search is a stutter but for the verdict.
LEMMA ConcludeKeeps ==
  ASSUME PickInv, NEW v \in {"built", "refused", "cancelled"}, Conclude(v),
         v = "built" => plan # "fewest" /\ IF request = 100 THEN pos = N ELSE Accepted,
         v = "refused" => IF request = 100 THEN Tilings = {}
                          ELSE plan \in OpenPlans /\ ~Accepted /\ ~(pos < N /\ covered < Goal)
  PROVE  PickInv'
<1>1. /\ longest' = longest /\ weights' = weights /\ request' = request /\ plan' = plan
      /\ pos' = pos /\ quotas' = quotas /\ segs' = segs /\ used' = used /\ covered' = covered
      /\ window' = window /\ choice' = choice /\ stage' = v
  BY DEF Conclude, inputs, search, tables
<1>2. TypeOK'
  BY <1>1 DEF PickInv, TypeOK
<1>3. PlanFits'
  BY <1>1 DEF PickInv, PlanFits, QuotasOf, GoalOf, Needed
<1>4. SegmentsFit'
  BY <1>1 DEF PickInv, SegmentsFit
<1>5. AccountsFit'
  BY <1>1 DEF PickInv, AccountsFit, Goal, GoalOf, Needed
<1>6. NothingMissed'
  BY <1>1 DEF PickInv, NothingMissed, Coverable
<1>7. DecisionsFit'
  BY <1>1 DEF PickInv, DecisionsFit, Costs, TilingsFrom
<1>8. VerdictFits'
  BY <1>1 DEF VerdictFits, Accepted, Tilings, Goal, GoalOf, Needed
<1> QED BY <1>2, <1>3, <1>4, <1>5, <1>6, <1>7, <1>8 DEF PickInv

\* What the steps of the other half leave alone keeps the invariant.
LEMMA StutterKeeps == PickInv /\ UNCHANGED vars => PickInv'
<1> SUFFICES ASSUME PickInv, UNCHANGED vars PROVE PickInv'
  OBVIOUS
<1>1. /\ longest' = longest /\ weights' = weights /\ request' = request /\ plan' = plan
      /\ pos' = pos /\ quotas' = quotas /\ segs' = segs /\ used' = used /\ covered' = covered
      /\ window' = window /\ choice' = choice /\ stage' = stage
  BY DEF vars, inputs, search, tables
<1>2. TypeOK'
  BY <1>1 DEF PickInv, TypeOK
<1>3. PlanFits'
  BY <1>1 DEF PickInv, PlanFits, QuotasOf, GoalOf, Needed
<1>4. SegmentsFit'
  BY <1>1 DEF PickInv, SegmentsFit
<1>5. AccountsFit'
  BY <1>1 DEF PickInv, AccountsFit, Goal, GoalOf, Needed
<1>6. NothingMissed'
  BY <1>1 DEF PickInv, NothingMissed, Coverable
<1>7. DecisionsFit'
  BY <1>1 DEF PickInv, DecisionsFit, Costs, TilingsFrom
<1>8. VerdictFits'
  BY <1>1 DEF PickInv, VerdictFits, Accepted, Tilings, Goal, GoalOf, Needed
<1> QED BY <1>2, <1>3, <1>4, <1>5, <1>6, <1>7, <1>8 DEF PickInv

\* No segments have no bytes.
LEMMA NoBytes ==
  ASSUME NEW S, S = {}
  PROVE  BytesOf(<<>>, S) = {} /\ Cardinality(BytesOf(<<>>, S)) = 0
<1>1. BytesOf(<<>>, S) = {}
  BY DEF BytesOf
<1> QED BY <1>1, FS_EmptySet

\* A search that starts anew, with another plan for the same request and mix.
LEMMA RestartKeeps ==
  ASSUME PickInv, stage = "running", NEW next \in {"soft", "proofSoft", "trace"}, Restart(next),
         next \in ProofPlans <=> request < 100, next \in WeightedPlans <=> weights # NoWeights,
         next = "trace" => \E cost : Costs(cost, 0) /\ cost[0] <= N
  PROVE  PickInv'
<1>1. /\ longest' = longest /\ weights' = weights /\ request' = request /\ plan' = next
      /\ pos' = 0 /\ quotas' = QuotasOf(next) /\ segs' = <<>> /\ used' = [c \in Chains |-> 0] /\ covered' = 0
      /\ window' = window /\ choice' = choice /\ stage' = "running"
  BY DEF Restart, inputs, tables
<1>2. /\ next \in Plans /\ GoalOf(next) \in 1 .. N
      /\ next \in WeightedPlans => weights \in Weightings
  BY NeededIs DEF PickInv, TypeOK, Plans
<1>3. QuotasOf(next) \in [Chains -> 0 .. N]
  BY <1>2, QuotasAre, Constants
<1>4. TypeOK'
  <2>1. <<>> \in Seq(Segment) /\ 0 \in 0 .. N
    BY Constants
  <2> QED BY <1>1, <1>2, <1>3, <2>1 DEF PickInv, TypeOK
<1>5. PlanFits'
  BY <1>1 DEF PickInv, PlanFits, QuotasOf, GoalOf, Needed
<1>6. SegmentsFit'
  BY <1>1 DEF SegmentsFit
<1>7. AccountsFit'
  <2>1. DOMAIN <<>> = {} /\ \A c \in Chains : {i \in DOMAIN <<>> : <<>>[i].chain = c} = {}
    OBVIOUS
  <2>2. Goal' = GoalOf(next)
    BY <1>1 DEF Goal, GoalOf, Needed
  <2>3. covered' = Cardinality(BytesOf(segs', DOMAIN segs')) /\ covered' <= Goal'
    BY <1>1, <1>2, <2>1, <2>2, NoBytes, Constants
  <2>4. \A c \in Chains : used'[c] = Cardinality(BytesOf(segs', {i \in DOMAIN segs' : segs'[i].chain = c}))
    BY <1>1, <2>1, NoBytes
  <2>5. \A c \in Chains : used'[c] <= quotas'[c]
    BY <1>1, <1>3, Constants
  <2> QED BY <2>3, <2>4, <2>5 DEF AccountsFit
<1>8. NothingMissed'
  BY <1>1, Constants DEF NothingMissed, Coverable
<1>9. DecisionsFit'
  <2>1. plan' # "fewest"
    BY <1>1
  <2>2. ASSUME next = "trace"
        PROVE \E cost : Costs(cost, 0)' /\ cost[pos'] <= N /\ Len(segs') + cost[pos'] = cost[0]
    <3>1. PICK cost : Costs(cost, 0) /\ cost[0] <= N
      BY <2>2
    <3>2. Costs(cost, 0)'
      BY <1>1, <3>1 DEF Costs, TilingsFrom
    <3>3. 0 + cost[0] = cost[0] /\ Len(<<>>) = 0
      BY <3>1, Constants DEF Costs
    <3> QED BY <1>1, <3>1, <3>2, <3>3
  <2> QED BY <1>1, <2>1, <2>2 DEF DecisionsFit
<1>10. VerdictFits'
  BY <1>1 DEF VerdictFits
<1> QED BY <1>4, <1>5, <1>6, <1>7, <1>8, <1>9, <1>10 DEF PickInv

\* The best offer, cut down to what is missing, fits at pos and within its chain's quota.
LEMMA TakeFragmentKeeps == PickInv /\ TakeFragment => PickInv'
<1> SUFFICES ASSUME PickInv, TakeFragment PROVE PickInv'
  OBVIOUS
<1> DEFINE best == Best(Offers)
           seg  == [best EXCEPT !.len = MinOf(@, Goal - covered)]
<1>1. /\ TypeOK /\ PlanFits /\ SegmentsFit /\ AccountsFit /\ NothingMissed
      /\ stage = "running" /\ pos < N /\ covered < Goal /\ Offers # {}
      /\ plan \in Plans \ {"fewest", "trace"} /\ Add(seg)
      /\ UNCHANGED <<inputs, stage, plan, quotas, tables>>
  BY DEF PickInv, TakeFragment, Searching
<1>2. /\ best \in Segment /\ best.at = pos /\ best.len <= longest[best.chain][pos]
      /\ best.len <= Allowance(best.chain)
  BY <1>1, BestIs DEF PlanFits
<1>3. Goal \in 1 .. N /\ covered \in 0 .. N
  BY <1>1, NeededIs DEF TypeOK, Goal
<1> HIDE DEF best
<1>4. /\ best.chain \in Chains /\ best.at \in Positions /\ best.len \in 1 .. MaxChunk
      /\ seg = [chain |-> best.chain, at |-> best.at, len |-> MinOf(best.len, Goal - covered)]
  BY <1>2 DEF Segment
<1>5. /\ MinOf(best.len, Goal - covered) \in 1 .. MaxChunk
      /\ MinOf(best.len, Goal - covered) <= best.len
      /\ covered + MinOf(best.len, Goal - covered) <= Goal
  BY <1>1, <1>3, <1>4, Constants DEF MinOf
<1>6. /\ seg \in Segment /\ seg.at = pos /\ seg.chain = best.chain
      /\ seg.len = MinOf(best.len, Goal - covered)
  BY <1>2, <1>4, <1>5 DEF Segment
<1> HIDE DEF seg
<1>7. seg.len <= longest[seg.chain][pos]
  <2>1. longest[best.chain][pos] \in Int
    <3>1. longest \in Tables /\ best.chain \in Chains /\ pos \in Positions
      BY <1>1, <1>2, <1>4 DEF PlanFits
    <3>2. longest[best.chain][pos] \in 0 .. MaxChunk
      BY ONLY <3>1, Table
    <3> QED BY <3>2, Constants
  <2> QED BY <1>2, <1>4, <1>5, <1>6, <2>1, Constants
<1>8. plan \in QuotaPlans => used[seg.chain] + seg.len <= quotas[seg.chain]
  <2> SUFFICES ASSUME plan \in QuotaPlans PROVE used[best.chain] + seg.len <= quotas[best.chain]
    BY <1>6
  <2>1. used[best.chain] \in Int /\ quotas[best.chain] \in Int
    <3>1. quotas \in [Chains -> 0 .. N] /\ used \in [Chains -> 0 .. N] /\ best.chain \in Chains
      BY <1>1, <1>4 DEF TypeOK
    <3>2. \A c \in Chains : used[c] \in Int /\ quotas[c] \in Int
      BY <3>1, Constants
    <3> QED BY <3>1, <3>2
  <2>2. best.len <= MinOf(MaxChunk, quotas[best.chain] - used[best.chain])
    BY <1>2 DEF Allowance
  <2>3. best.len <= quotas[best.chain] - used[best.chain]
    BY <1>4, <2>1, <2>2, Constants DEF MinOf
  <2> QED BY <1>4, <1>5, <1>6, <2>1, <2>3, Constants
<1>9. /\ segs' \in Seq(Segment) /\ pos' \in 0 .. N
      /\ used' \in [Chains -> 0 .. N] /\ covered' \in 0 .. N
      /\ PlanFits' /\ SegmentsFit' /\ AccountsFit' /\ NothingMissed'
  BY <1>1, <1>5, <1>6, <1>7, <1>8, AddKeeps
<1>10. TypeOK'
  BY <1>1, <1>9 DEF TypeOK, inputs, tables
<1>11. DecisionsFit' /\ VerdictFits'
  BY <1>1 DEF DecisionsFit, VerdictFits
<1> QED BY <1>9, <1>10, <1>11 DEF PickInv

\* A proof without quotas steps over a byte only when nothing can cover it.
LEMMA SkipByteKeeps == PickInv /\ SkipByte => PickInv'
<1> SUFFICES ASSUME PickInv, SkipByte PROVE PickInv'
  OBVIOUS
<1>1. /\ TypeOK /\ PlanFits /\ SegmentsFit /\ AccountsFit /\ NothingMissed
      /\ stage = "running" /\ pos < N /\ Offers = {} /\ plan \in ProofPlans
      /\ longest' = longest /\ weights' = weights /\ request' = request /\ plan' = plan
      /\ pos' = pos + 1 /\ quotas' = quotas /\ segs' = segs /\ used' = used /\ covered' = covered
      /\ window' = window /\ choice' = choice /\ stage' = stage
  BY DEF PickInv, SkipByte, Searching, inputs, search, tables
<1>2. pos \in Positions /\ pos' \in 0 .. N /\ pos \in Int
  BY <1>1, Constants DEF TypeOK
<1>3. TypeOK'
  BY <1>1, <1>2 DEF TypeOK
<1>4. PlanFits'
  BY <1>1 DEF PlanFits, QuotasOf, GoalOf, Needed
<1>5. SegmentsFit'
  <2>1. \A i \in DOMAIN segs : End(segs[i]) <= pos + 1
    <3> TAKE i \in DOMAIN segs
    <3>1. segs[i] \in Segment /\ End(segs[i]) <= pos
      BY <1>1 DEF TypeOK, SegmentsFit
    <3> QED BY <1>2, <3>1, Constants DEF End, Segment
  <2>2. plan \notin GaplessPlans /\ plan # "fewest"
    BY <1>1 DEF ProofPlans, GaplessPlans
  <2> QED BY <1>1, <2>1, <2>2 DEF SegmentsFit
<1>6. AccountsFit'
  BY <1>1 DEF AccountsFit, Goal, GoalOf, Needed
<1>7. NothingMissed'
  <2> SUFFICES ASSUME plan \in OpenPlans, NEW p \in Coverable, p < pos + 1
               PROVE  p \in BytesOf(segs, DOMAIN segs)
    BY <1>1 DEF NothingMissed, Coverable
  <2>1. \A c \in Chains : ~(longest[c][pos] > 0)
    BY <1>1, Constants DEF Offers, Allowance, OpenPlans, QuotaPlans
  <2>2. pos \notin Coverable
    BY <1>1, <1>2, <2>1, NotCoverable DEF PlanFits
  <2>3. p \in Int
    BY Constants DEF Coverable
  <2> QED BY <1>1, <1>2, <2>2, <2>3 DEF NothingMissed
<1>8. DecisionsFit' /\ VerdictFits'
  BY <1>1 DEF DecisionsFit, VerdictFits, ProofPlans
<1> QED BY <1>3, <1>4, <1>5, <1>6, <1>7, <1>8 DEF PickInv

\* A full soft mix that finds no offer has met a byte that no tiling can cover.
LEMMA BlockedKeeps == PickInv /\ Blocked => PickInv'
<1> SUFFICES ASSUME PickInv, Blocked PROVE PickInv'
  OBVIOUS
<1>1. /\ stage = "running" /\ pos < N /\ Offers = {} /\ plan \in {"exact", "soft"}
      /\ TypeOK /\ PlanFits
  BY DEF PickInv, Blocked, Searching
<1>2. ~(request < 100) /\ weights # NoWeights
  BY <1>1 DEF PlanFits, ProofPlans, WeightedPlans
<1>3. CASE plan = "exact"
  <2>1. Restart("soft")
    BY <1>3 DEF Blocked
  <2> QED BY <1>1, <1>2, <2>1, RestartKeeps DEF ProofPlans, WeightedPlans
<1>4. CASE plan = "soft"
  <2>1. Conclude("refused")
    BY <1>4 DEF Blocked
  <2>2. \A c \in Chains : ~(longest[c][pos] > 0)
    BY <1>1, <1>4, Constants DEF Offers, Allowance, QuotaPlans
  <2>3. pos \in Positions
    BY <1>1, Constants DEF TypeOK
  <2>4. Tilings = {}
    BY <1>1, <2>2, <2>3, NotCoverable, NoTiling DEF PlanFits
  <2>5. request = 100
    BY <1>1, <1>2, PickerAssumption DEF TypeOK
  <2> QED BY <2>1, <2>4, <2>5, ConcludeKeeps
<1> QED BY <1>1, <1>3, <1>4

\* A full search that ends has covered the target; a proof is judged by the tolerance.
LEMMA EndOfSearchKeeps == PickInv /\ EndOfSearch => PickInv'
<1> SUFFICES ASSUME PickInv, EndOfSearch PROVE PickInv'
  OBVIOUS
<1>1. /\ stage = "running" /\ ~(pos < N /\ covered < Goal) /\ plan \in Plans \ {"fewest", "trace"}
      /\ TypeOK /\ PlanFits /\ SegmentsFit
  BY DEF PickInv, EndOfSearch, Searching
<1>2. request \in 1 .. 100
  BY <1>1, PickerAssumption DEF TypeOK
<1>3. CASE plan \in {"exact", "soft"}
  <2>1. request = 100 /\ weights # NoWeights
    BY <1>1, <1>2, <1>3 DEF PlanFits, ProofPlans, WeightedPlans
  <2>2. pos = N
    <3>1. Goal = N /\ covered = pos
      BY <1>1, <1>3 DEF Goal, GoalOf, ProofPlans, SegmentsFit, GaplessPlans
    <3> QED BY <1>1, <3>1, Constants DEF TypeOK
  <2>3. Conclude("built") \/ Restart("soft")
    BY <1>3 DEF EndOfSearch
  <2>4. CASE Conclude("built")
    BY <1>3, <2>1, <2>2, <2>4, ConcludeKeeps
  <2>5. CASE Restart("soft")
    BY <1>1, <2>1, <2>5, RestartKeeps DEF ProofPlans, WeightedPlans
  <2> QED BY <2>3, <2>4, <2>5
<1>4. CASE plan \in ProofPlans
  <2>1. request < 100 /\ request # 100
    BY <1>1, <1>2, <1>4 DEF PlanFits
  <2>2. CASE Accepted
    <3>1. Conclude("built")
      BY <1>1, <1>4, <2>2 DEF EndOfSearch, ProofPlans
    <3> QED BY <1>1, <2>1, <2>2, <3>1, ConcludeKeeps
  <2>3. CASE ~Accepted /\ plan = "proofExact"
    <3>1. Restart("proofSoft") /\ weights # NoWeights
      BY <1>1, <2>3 DEF EndOfSearch, PlanFits, WeightedPlans
    <3> QED BY <1>1, <2>1, <3>1, RestartKeeps DEF ProofPlans, WeightedPlans
  <2>4. CASE ~Accepted /\ plan # "proofExact"
    <3>1. Conclude("refused") /\ plan \in OpenPlans
      BY <1>1, <1>4, <2>4 DEF EndOfSearch, ProofPlans, OpenPlans
    <3> QED BY <1>1, <2>1, <2>4, <3>1, ConcludeKeeps
  <2> QED BY <2>2, <2>3, <2>4
<1> QED BY <1>1, <1>3, <1>4 DEF Plans, ProofPlans

----------------------------------------------------------------------------
(* The steps of the search for the fewest chunks.                          *)

\* The reach of an offset is the longest fragment some chain has there.
LEMMA ReachIs ==
  ASSUME longest \in Tables, NEW p \in Positions
  PROVE  /\ Reach(p) \in 0 .. MaxChunk
         /\ \A c \in Chains : longest[c][p] <= Reach(p)
         /\ Reach(p) > 0 => \E c \in Chains : longest[c][p] = Reach(p)
<1> DEFINE R == {MaxChunk - longest[c][p] : c \in Chains}
<1>1. \A c \in Chains : longest[c][p] \in 0 .. MaxChunk
  BY Table
<1>2. R \subseteq Nat
  BY <1>1, Constants
<1>3. R # {}
  <2>1. PICK c \in Chains : TRUE
    BY PickerAssumption
  <2>2. MaxChunk - longest[c][p] \in R
    BY <2>1
  <2> QED BY <2>2
<1>4. PICK m \in R : \A k \in R : m <= k
  BY <1>2, <1>3, LeastNat
<1>5. PICK d \in Chains : m = MaxChunk - longest[d][p]
  BY <1>4
<1>6. \A c \in Chains : longest[c][p] <= longest[d][p]
  <2> TAKE c \in Chains
  <2>1. MaxChunk - longest[d][p] <= MaxChunk - longest[c][p]
    BY <1>4, <1>5
  <2>2. longest[d][p] \in 0 .. MaxChunk /\ longest[c][p] \in 0 .. MaxChunk
    BY <1>1
  <2> QED BY <2>1, <2>2, Constants
<1>7. \E l \in 0 .. MaxChunk : /\ \A c \in Chains : longest[c][p] <= l
                               /\ l > 0 => \E c \in Chains : longest[c][p] = l
  BY <1>1, <1>6
<1> QED BY <1>7 DEF Reach

\* The best length is an affordable one of least cost.
LEMMA BestLengthIs ==
  ASSUME window \in [1 .. MaxChunk -> 0 .. Infinite], longest \in Tables, NEW p \in Positions,
         Affordable(p) # {}
  PROVE  BestLength(p) \in Affordable(p) /\ \A k \in Affordable(p) : Cost(BestLength(p)) <= Cost(k)
<1> DEFINE A == Affordable(p)
           R == {Cost(l) : l \in A}
<1>1. A \subseteq 1 .. MaxChunk
  BY ReachIs, Constants DEF Affordable
<1>2. \A l \in A : l \in Nat /\ l <= MaxChunk /\ Cost(l) \in Nat
  BY <1>1, Constants DEF Cost
<1> HIDE DEF A
<1>3. R \subseteq Nat /\ R # {}
  BY <1>2 DEF A
<1>4. PICK m \in R : \A k \in R : m <= k
  BY <1>3, LeastNat
<1> DEFINE T == {MaxChunk - l : l \in {k \in A : Cost(k) = m}}
<1>5. T \subseteq Nat /\ T # {}
  <2>1. T \subseteq Nat
    BY <1>2, Constants
  <2>2. PICK k \in A : Cost(k) = m
    BY <1>4
  <2> QED BY <2>1, <2>2
<1>6. PICK t \in T : \A k \in T : t <= k
  BY <1>5, LeastNat
<1>7. PICK l \in A : Cost(l) = m /\ t = MaxChunk - l
  BY <1>6
<1>8. \A k \in A : Cost(l) < Cost(k) \/ (Cost(l) = Cost(k) /\ l >= k)
  <2> TAKE k \in A
  <2>1. Cost(l) <= Cost(k) /\ Cost(l) \in Nat /\ Cost(k) \in Nat /\ l \in Nat /\ k \in Nat
    BY <1>2, <1>4, <1>7
  <2>2. Cost(k) = Cost(l) => MaxChunk - l <= MaxChunk - k
    BY <1>6, <1>7
  <2> QED BY <2>1, <2>2, Constants
<1> DEFINE b == BestLength(p)
<1>9. b \in A /\ \A k \in A : Cost(b) < Cost(k) \/ (Cost(b) = Cost(k) /\ b >= k)
  BY <1>7, <1>8 DEF BestLength, A
<1> HIDE DEF b
<1>10. \A k \in A : Cost(b) <= Cost(k)
  BY <1>2, <1>9
<1> QED BY <1>9, <1>10 DEF A, b

\* A tiling without its first fragment tiles what is behind it.
LEMMA TilingTail ==
  ASSUME NEW p \in Positions, NEW S \in TilingsFrom(p), NextCut(S, p) # N
  PROVE  /\ NextCut(S, p) \in Positions
         /\ S \ {p} \in TilingsFrom(NextCut(S, p))
         /\ Cardinality(S \ {p}) = Cardinality(S) - 1
<1> DEFINE e == NextCut(S, p)
           R == S \ {p}
<1>1. S \in SUBSET (p .. N - 1) /\ p \in S /\ S \in SUBSET Positions /\ p \in Nat
  BY Constants DEF TilingsFrom
<1>2. e \in S \cup {N} /\ e > p /\ \A x \in S : x <= p \/ x >= e
  BY <1>1, NextCutIs
<1>3. e \in S /\ e \in Positions /\ e \in R
  <2>1. e # N
    OBVIOUS
  <2> HIDE DEF e
  <2>2. e \in S /\ e \in Positions /\ e # p
    BY <1>1, <1>2, <2>1
  <2> QED BY <2>2
<1> HIDE DEF e
<1>4. R \in SUBSET (e .. N - 1) /\ R \in SUBSET Positions
  BY <1>1, <1>2, <1>3, Constants
<1>5. ASSUME NEW s \in R PROVE NextCut(R, s) = NextCut(S, s)
  <2> DEFINE a == NextCut(S, s)
             b == NextCut(R, s)
  <2>1. s \in Positions /\ s > p /\ s \in Int /\ p \in Int
    BY <1>1, <1>2, <1>3, <1>4, Constants
  <2>2. a \in S \cup {N} /\ a > s /\ \A x \in S : x <= s \/ x >= a
    BY <1>1, <2>1, NextCutIs
  <2>3. b \in R \cup {N} /\ b > s /\ \A x \in R : x <= s \/ x >= b
    BY <1>4, <2>1, NextCutIs
  <2> HIDE DEF a, b
  <2>4. /\ \A x \in S \cup {N} : x \in Int /\ x <= N
        /\ a \in Int /\ b \in Int
    BY <1>1, <2>2, <2>3, Constants
  <2>5. a \in R \cup {N} /\ b \in S \cup {N}
    BY <2>1, <2>2, <2>3
  <2>6. b <= a
    BY <2>2, <2>3, <2>4, <2>5, <2>1
  <2>7. a <= b
    BY <2>2, <2>3, <2>4, <2>5, <2>1
  <2>8. a = b
    BY <2>4, <2>6, <2>7
  <2> QED BY <2>8 DEF a, b
<1>6. \A s \in R : \E c \in Chains : longest[c][s] >= NextCut(R, s) - s
  BY <1>5 DEF TilingsFrom
<1>7. R \in TilingsFrom(e)
  BY <1>3, <1>4, <1>6 DEF TilingsFrom
<1>8. Cardinality(R) = Cardinality(S) - 1
  BY <1>1, TilingIsSmall, FS_RemoveElement
<1> QED BY <1>3, <1>7, <1>8 DEF e

\* What is known of the costs of the offsets that are decided.
LEMMA CostsAre ==
  ASSUME NEW cost, NEW first \in 0 .. N, Costs(cost, first)
  PROVE  \A q \in first .. N : cost[q] \in 0 .. Infinite /\ (cost[q] = Infinite \/ cost[q] <= N - q)
<1> TAKE q \in first .. N
<1>1. q \in 0 .. N /\ cost[q] \in 0 .. Infinite
  BY Constants DEF Costs
<1>2. CASE q = N
  BY <1>1, <1>2, Constants DEF Costs
<1>3. CASE q # N
  <2>1. q \in first .. N - 1
    BY <1>3, Constants
  <2> QED BY <1>1, <2>1 DEF Costs
<1> QED BY <1>2, <1>3

\* The new cost of an offset is no more than any tiling from there needs.
LEMMA CostIsLeast ==
  ASSUME TypeOK, longest \in Tables, stage = "running", plan = "fewest", pos > 0,
         NEW cost, Costs(cost, pos),
         \A i \in 1 .. MaxChunk :
           window[i] = IF pos + i - 1 <= N THEN cost[pos + i - 1] ELSE Infinite,
         NEW S \in TilingsFrom(pos - 1)
  PROVE  /\ Affordable(pos - 1) # {}
         /\ Cost(BestLength(pos - 1)) <= Cardinality(S)
<1> DEFINE p == pos - 1
           e == NextCut(S, p)
           l == e - p
<1>1. pos \in 1 .. N /\ pos \in 0 .. N /\ p \in Positions /\ p \in Int
  BY Constants DEF TypeOK
<1>2. /\ S \in SUBSET Positions /\ p \in S
      /\ \E c \in Chains : longest[c][p] >= e - p
  BY <1>1, Constants DEF TilingsFrom
<1>3. e \in S \cup {N} /\ e > p /\ e \in 0 .. N
  <2>1. e \in S \cup {N} /\ e > p
    BY <1>1, <1>2, NextCutIs
  <2> HIDE DEF e, p
  <2> QED BY <1>2, <2>1, Constants
<1>4. IsFiniteSet(S) /\ Cardinality(S) \in Nat /\ Cardinality(S) <= N - p
  <2>1. S \in TilingsFrom(p)
    OBVIOUS
  <2> HIDE DEF p
  <2> QED BY <1>1, <2>1, TilingIsSmall
<1>5. 1 + cost[e] <= Cardinality(S) /\ cost[e] \in Nat
  <2>1. CASE e = N
    <3>1. Cardinality(S) # 0
      BY <1>2, <1>4, FS_EmptySet
    <3>2. cost[N] = 0
      BY DEF Costs
    <3> HIDE DEF e, p
    <3> QED BY <1>4, <2>1, <3>1, <3>2
  <2>2. CASE e # N
    <3>1. /\ e \in Positions /\ S \ {p} \in TilingsFrom(e)
          /\ Cardinality(S \ {p}) = Cardinality(S) - 1
      <4>1. S \in TilingsFrom(p) /\ NextCut(S, p) # N
        BY <2>2
      <4> HIDE DEF p
      <4> QED BY <1>1, <4>1, TilingTail
    <3> DEFINE R == S \ {p}
    <3>2. e \in pos .. N - 1
      <4>1. pos = p + 1 /\ p \in Int
        BY <1>1
      <4> HIDE DEF p, e
      <4> QED BY <1>1, <1>3, <2>2, <4>1, Constants
    <3>3. cost[e] <= Cardinality(R)
      <4>1. R \in TilingsFrom(e)
        BY <3>1
      <4> HIDE DEF R, e
      <4> QED BY <3>2, <4>1 DEF Costs
    <3>4. cost[e] \in 0 .. Infinite
      BY <1>3 DEF Costs
    <3> HIDE DEF e, p
    <3> QED BY <1>4, <3>1, <3>3, <3>4, Constants
  <2> QED BY <2>1, <2>2
<1>6. l \in 1 .. Reach(p) /\ l \in 1 .. MaxChunk
  <2>1. PICK c \in Chains : longest[c][p] >= l
    BY <1>2
  <2>2. longest[c][p] <= Reach(p) /\ Reach(p) \in 0 .. MaxChunk
    BY <1>1, ReachIs
  <2>3. longest[c][p] \in 0 .. MaxChunk
    BY <1>1, Table
  <2>4. l = e - p
    OBVIOUS
  <2> DEFINE m == longest[c][p]
             r == Reach(p)
  <2>5. m >= l /\ m <= r /\ r \in 0 .. MaxChunk /\ m \in 0 .. MaxChunk
    BY <2>1, <2>2, <2>3
  <2> HIDE DEF e, p, l, m, r
  <2>6. l \in 1 .. r /\ l \in 1 .. MaxChunk
    BY <1>1, <1>3, <2>4, <2>5, Constants
  <2> QED BY <2>6 DEF r
<1>7. Cost(l) = 1 + cost[e]
  <2>1. pos + l - 1 = e
    <3>1. pos = p + 1
      BY <1>1
    <3> HIDE DEF e, p
    <3> QED BY <1>1, <1>3, <3>1
  <2>2. window[l] = cost[e]
    <3> HIDE DEF l, e
    <3>1. pos + l - 1 <= N
      BY <1>3, <2>1, Constants
    <3> QED BY <1>6, <2>1, <3>1
  <2> HIDE DEF l, e
  <2> QED BY <2>2 DEF Cost
<1>8. l \in Affordable(p)
  <2>1. Cost(l) <= Infinite
    <3> HIDE DEF l, e, p
    <3> QED BY <1>1, <1>4, <1>5, <1>7, Constants
  <2> QED BY <1>6, <2>1 DEF Affordable
<1>9. /\ BestLength(p) \in Affordable(p) /\ Cost(BestLength(p)) <= Cost(l)
      /\ BestLength(p) \in 1 .. MaxChunk
  <2>1. window \in [1 .. MaxChunk -> 0 .. Infinite]
    BY DEF TypeOK
  <2>2. Reach(p) \in 0 .. MaxChunk
    BY <1>1, ReachIs
  <2> HIDE DEF l, p
  <2>3. BestLength(p) \in Affordable(p) /\ \A k \in Affordable(p) : Cost(BestLength(p)) <= Cost(k)
    BY <1>1, <1>8, <2>1, BestLengthIs
  <2>4. Affordable(p) \subseteq 1 .. MaxChunk
    BY <2>2, Constants DEF Affordable
  <2> QED BY <1>8, <2>3, <2>4
<1>10. Cost(BestLength(p)) \in Int
  <2> HIDE DEF p
  <2> QED BY <1>9, Constants DEF Cost, TypeOK
<1> HIDE DEF l, e
<1> QED BY <1>4, <1>5, <1>7, <1>8, <1>9, <1>10

\* A chosen length reaches an offset with a cost, along a fragment some chain has.
LEMMA ChoiceIs ==
  ASSUME TypeOK, longest \in Tables, stage = "running", plan = "fewest", pos > 0,
         NEW cost, Costs(cost, pos),
         \A i \in 1 .. MaxChunk :
           window[i] = IF pos + i - 1 <= N THEN cost[pos + i - 1] ELSE Infinite,
         NEW l \in Affordable(pos - 1)
  PROVE  /\ l \in 1 .. MaxChunk /\ \E c \in Chains : l <= longest[c][pos - 1]
         /\ pos - 1 + l <= N /\ Cost(l) = 1 + cost[pos - 1 + l]
         /\ Cost(l) <= N - (pos - 1) /\ Cost(l) \in 0 .. Infinite
<1> DEFINE p == pos - 1
<1>1. pos \in 1 .. N /\ pos \in 0 .. N /\ p \in Positions /\ p \in 0 .. N - 1 /\ pos = p + 1
  BY Constants DEF TypeOK
<1>2. l \in 1 .. Reach(p) /\ Cost(l) <= Infinite
  BY DEF Affordable
<1> HIDE DEF p
<1>3. Reach(p) \in 0 .. MaxChunk /\ (Reach(p) > 0 => \E c \in Chains : longest[c][p] = Reach(p))
  BY <1>1, ReachIs
<1>4. l \in 1 .. MaxChunk /\ l \in Int /\ Reach(p) > 0 /\ l <= Reach(p)
  BY <1>2, <1>3, Constants
<1>5. PICK c \in Chains : longest[c][p] = Reach(p)
  BY <1>3, <1>4
<1>6. longest[c][p] <= N - p
  BY <1>1, Table
<1>7. p + l <= N /\ p + l \in pos .. N /\ pos + l - 1 = p + l
  BY <1>1, <1>3, <1>4, <1>5, <1>6, Constants
<1> DEFINE q == p + l
<1>8. window[l] = cost[q]
  <2>1. pos + l - 1 = q /\ q <= N
    BY <1>7
  <2> HIDE DEF q
  <2> QED BY <1>4, <2>1
<1>9. Cost(l) = 1 + cost[q]
  BY <1>8 DEF Cost
<1>10. cost[q] \in 0 .. Infinite /\ (cost[q] = Infinite \/ cost[q] <= N - q)
  BY <1>1, <1>7, CostsAre
<1>11. cost[q] # Infinite
  <2> HIDE DEF q
  <2> QED BY <1>2, <1>9, <1>10, Constants
<1>12. Cost(l) <= N - p /\ Cost(l) \in 0 .. Infinite
  <2>1. q = p + l
    OBVIOUS
  <2> HIDE DEF q
  <2> QED BY <1>1, <1>4, <1>9, <1>10, <1>11, <2>1, Constants
<1>13. \E d \in Chains : l <= longest[d][p]
  BY <1>4, <1>5
<1> QED BY <1>4, <1>7, <1>9, <1>12, <1>13 DEF p

\* The offset decided now has the least cost of all that can start there.
LEMMA DecideOffsetKeeps == PickInv /\ DecideOffset => PickInv'
<1> SUFFICES ASSUME PickInv, DecideOffset PROVE PickInv'
  OBVIOUS
<1> DEFINE p == pos - 1
           l == BestLength(p)
           new == IF l = 0 THEN Infinite ELSE Cost(l)
<1>1. /\ TypeOK /\ PlanFits /\ SegmentsFit /\ AccountsFit /\ longest \in Tables
      /\ stage = "running" /\ plan = "fewest" /\ pos > 0
      /\ longest' = longest /\ weights' = weights /\ request' = request /\ plan' = plan
      /\ pos' = pos - 1 /\ quotas' = quotas /\ segs' = segs /\ used' = used /\ covered' = covered
      /\ stage' = stage
  BY DEF PickInv, PlanFits, DecideOffset, inputs, search
<1>2. /\ choice' = [choice EXCEPT ![p] = l]
      /\ window' = [i \in 1 .. MaxChunk |-> IF i = 1 THEN new ELSE window[i - 1]]
  BY DEF DecideOffset
<1>3. pos \in 1 .. N /\ pos \in 0 .. N /\ p \in Positions /\ p \in 0 .. N - 1 /\ pos = p + 1
  BY <1>1, Constants DEF TypeOK
<1>4. PICK cost : /\ Costs(cost, pos)
                  /\ \A i \in 1 .. MaxChunk :
                       window[i] = IF pos + i - 1 <= N THEN cost[pos + i - 1] ELSE Infinite
  BY <1>1 DEF PickInv, DecisionsFit
<1>5. l # 0 => l \in Affordable(p)
  <2>1. window \in [1 .. MaxChunk -> 0 .. Infinite]
    BY <1>1 DEF TypeOK
  <2> HIDE DEF p
  <2>2. CASE Affordable(p) = {}
    BY <2>2 DEF BestLength
  <2>3. CASE Affordable(p) # {}
    BY <1>1, <1>3, <2>1, <2>3, BestLengthIs
  <2> QED BY <2>2, <2>3
<1>6. l # 0 =>
        /\ l \in 1 .. MaxChunk /\ \E c \in Chains : l <= longest[c][p]
        /\ p + l <= N /\ Cost(l) = 1 + cost[p + l]
        /\ Cost(l) <= N - p /\ Cost(l) \in 0 .. Infinite
  <2> HIDE DEF l
  <2> QED BY <1>1, <1>4, <1>5, ChoiceIs
<1>7. \A S \in TilingsFrom(p) : new <= Cardinality(S)
  <2> SUFFICES ASSUME NEW S \in TilingsFrom(p) PROVE new <= Cardinality(S)
    OBVIOUS
  <2>1. Affordable(p) # {} /\ Cost(l) <= Cardinality(S)
    BY <1>1, <1>4, CostIsLeast
  <2>2. l # 0
    <3>1. l \in Affordable(p)
      <4>1. window \in [1 .. MaxChunk -> 0 .. Infinite]
        BY <1>1 DEF TypeOK
      <4> HIDE DEF p
      <4> QED BY <1>1, <1>3, <2>1, <4>1, BestLengthIs
    <3> HIDE DEF l
    <3> QED BY <3>1 DEF Affordable
  <2> QED BY <2>1, <2>2
<1>8. new \in 0 .. Infinite /\ l \in 0 .. MaxChunk
  <2> HIDE DEF l
  <2> QED BY <1>6, Constants
<1>9. cost \in [0 .. N -> 0 .. Infinite]
  BY <1>4 DEF Costs
<1>10. PICK next : /\ next \in [0 .. N -> 0 .. Infinite] /\ next[p] = new
                   /\ \A q \in 0 .. N : q # p => next[q] = cost[q]
  <2> DEFINE f == [cost EXCEPT ![p] = new]
  <2>1. /\ f \in [0 .. N -> 0 .. Infinite] /\ f[p] = new
        /\ \A q \in 0 .. N : q # p => f[q] = cost[q]
    <3>1. p \in 0 .. N
      <4> HIDE DEF p
      <4> QED BY <1>3, Constants
    <3> HIDE DEF new, p
    <3> QED BY <3>1, <1>8, <1>9
  <2> HIDE DEF f, new, p
  <2> QED BY <2>1
<1>11. /\ choice' \in [Positions -> 0 .. MaxChunk] /\ choice'[p] = l
       /\ \A q \in Positions : q # p => choice'[q] = choice[q]
  <2>1. choice \in [Positions -> 0 .. MaxChunk]
    BY <1>1 DEF TypeOK
  <2> HIDE DEF l, p
  <2> QED BY <1>2, <1>3, <1>8, <2>1
<1>12. Costs(next, pos)'
  <2>1. next[N] = 0
    <3>1. cost[N] = 0 /\ N # p /\ N \in 0 .. N
      BY <1>3, <1>4, Constants DEF Costs
    <3> QED BY <1>10, <3>1
  <2>2. ASSUME NEW q \in p .. N - 1
        PROVE  /\ choice'[q] = 0 => next[q] = Infinite
               /\ choice'[q] # 0 =>
                    /\ \E c \in Chains : choice'[q] <= longest[c][q]
                    /\ q + choice'[q] <= N
                    /\ next[q] = 1 + next[q + choice'[q]] /\ next[q] <= N - q
               /\ \A S \in TilingsFrom(q) : next[q] <= Cardinality(S)
    <3>1. CASE q = p
      <4>1. l # 0 => p + l \in 0 .. N /\ p + l # p
        <5> HIDE DEF l, p
        <5> QED BY <1>3, <1>6, Constants
      <4>2. l # 0 => next[p + l] = cost[p + l]
        <5> HIDE DEF l, p
        <5> QED BY <1>10, <4>1
      <4>3. new = IF l = 0 THEN Infinite ELSE Cost(l)
        OBVIOUS
      <4> HIDE DEF l, p, new
      <4> QED BY <1>6, <1>7, <1>10, <1>11, <3>1, <4>2, <4>3
    <3>2. CASE q # p
      <4>1. q \in pos .. N - 1 /\ q \in Positions /\ q \in 0 .. N
        <5> HIDE DEF p
        <5> QED BY <1>3, <3>2, Constants
      <4>2. choice'[q] = choice[q] /\ next[q] = cost[q] /\ choice[q] \in 0 .. MaxChunk
        <5> HIDE DEF p, l
        <5> QED BY <1>1, <1>10, <1>11, <3>2, <4>1 DEF TypeOK
      <4>3. /\ choice[q] = 0 => cost[q] = Infinite
            /\ choice[q] # 0 =>
                 /\ \E c \in Chains : choice[q] <= longest[c][q]
                 /\ q + choice[q] <= N
                 /\ cost[q] = 1 + cost[q + choice[q]] /\ cost[q] <= N - q
            /\ \A S \in TilingsFrom(q) : cost[q] <= Cardinality(S)
        BY <1>4, <4>1 DEF Costs
      <4>4. choice[q] # 0 => next[q + choice[q]] = cost[q + choice[q]]
        <5> SUFFICES ASSUME choice[q] # 0 PROVE next[q + choice[q]] = cost[q + choice[q]]
          OBVIOUS
        <5>1. q + choice[q] \in 0 .. N /\ q + choice[q] # p
          <6> HIDE DEF p
          <6> QED BY <1>3, <4>1, <4>2, <4>3, Constants
        <5> HIDE DEF p
        <5> QED BY <1>10, <5>1
      <4> QED BY <4>2, <4>3, <4>4
    <3> QED BY <3>1, <3>2
  <2>3. pos' = p /\ \A q : TilingsFrom(q)' = TilingsFrom(q)
    BY <1>1 DEF TilingsFrom
  <2> HIDE DEF p
  <2> QED BY <1>1, <1>10, <2>1, <2>2, <2>3 DEF Costs
<1>13. \A i \in 1 .. MaxChunk :
         window'[i] = IF pos' + i - 1 <= N THEN next[pos' + i - 1] ELSE Infinite
  <2> TAKE i \in 1 .. MaxChunk
  <2>1. pos' = p
    BY <1>1
  <2>2. CASE i = 1
    <3>1. window'[i] = new /\ p + i - 1 = p /\ p <= N
      <4> HIDE DEF new, p
      <4> QED BY <1>2, <1>3, <2>2, Constants
    <3> HIDE DEF new, p
    <3> QED BY <1>10, <2>1, <3>1
  <2>3. CASE i # 1
    <3> DEFINE j == i - 1
    <3>1. j \in 1 .. MaxChunk /\ p + i - 1 = pos + j - 1
      <4> HIDE DEF p
      <4> QED BY <1>3, <2>3, Constants
    <3>2. window'[i] = window[j]
      BY <1>2, <2>3
    <3>3. window[j] = IF pos + j - 1 <= N THEN cost[pos + j - 1] ELSE Infinite
      <4> HIDE DEF j
      <4> QED BY <1>4, <3>1
    <3> DEFINE q == pos + j - 1
    <3>4. q <= N => q \in 0 .. N /\ q # p
      <4>1. q = p + j /\ j \in 1 .. MaxChunk
        <5> HIDE DEF j, p
        <5> QED BY <1>3, <3>1
      <4> HIDE DEF q, j, p
      <4> QED BY <1>3, <4>1, Constants
    <3>5. q <= N => next[q] = cost[q]
      <4> HIDE DEF q, p
      <4> QED BY <1>10, <3>4
    <3> HIDE DEF p, j
    <3> QED BY <2>1, <3>1, <3>2, <3>3, <3>5
  <2> QED BY <2>2, <2>3
<1>14. TypeOK'
  <2>1. window' \in [1 .. MaxChunk -> 0 .. Infinite]
    <3>1. window \in [1 .. MaxChunk -> 0 .. Infinite]
      BY <1>1 DEF TypeOK
    <3> HIDE DEF new
    <3>2. \A i \in 1 .. MaxChunk : (IF i = 1 THEN new ELSE window[i - 1]) \in 0 .. Infinite
      <4> TAKE i \in 1 .. MaxChunk
      <4>1. i # 1 => i - 1 \in 1 .. MaxChunk
        BY Constants
      <4> QED BY <1>8, <3>1, <4>1
    <3> QED BY <1>2, <3>2
  <2>2. pos' \in 0 .. N
    BY <1>1, <1>3, Constants
  <2> QED BY <1>1, <1>11, <2>1, <2>2 DEF TypeOK
<1>15. PlanFits'
  BY <1>1 DEF PlanFits, QuotasOf, GoalOf, Needed
<1>16. SegmentsFit'
  BY <1>1 DEF SegmentsFit, GaplessPlans
<1>17. AccountsFit'
  BY <1>1 DEF AccountsFit, Goal, GoalOf, Needed
<1>18. NothingMissed'
  BY <1>1 DEF NothingMissed, OpenPlans
<1>19. DecisionsFit'
  <2>1. plan' # "trace"
    BY <1>1
  <2>2. \E f : /\ Costs(f, pos)'
               /\ \A i \in 1 .. MaxChunk :
                    window'[i] = IF pos' + i - 1 <= N THEN f[pos' + i - 1] ELSE Infinite
    BY <1>12, <1>13
  <2> QED BY <2>1, <2>2 DEF DecisionsFit
<1>20. VerdictFits'
  BY <1>1 DEF VerdictFits
<1> QED BY <1>14, <1>15, <1>16, <1>17, <1>18, <1>19, <1>20 DEF PickInv

\* The backward pass refuses when the first byte has no cost, so no tiling, and is traced otherwise.
LEMMA EndOfDecisionsKeeps == PickInv /\ EndOfDecisions => PickInv'
<1> SUFFICES ASSUME PickInv, EndOfDecisions PROVE PickInv'
  OBVIOUS
<1>1. /\ TypeOK /\ PlanFits /\ stage = "running" /\ plan = "fewest" /\ pos = 0
      /\ IF window[1] >= Infinite \/ choice[0] = 0 THEN Conclude("refused") ELSE Restart("trace")
  BY DEF PickInv, EndOfDecisions
<1>2. request = 100 /\ weights = NoWeights
  <2>1. ~(request < 100) /\ request \in 1 .. 100
    BY <1>1, PickerAssumption DEF TypeOK, PlanFits, ProofPlans
  <2> QED BY <1>1, <2>1 DEF PlanFits, WeightedPlans
<1>3. PICK cost : /\ Costs(cost, pos)
                  /\ \A i \in 1 .. MaxChunk :
                       window[i] = IF pos + i - 1 <= N THEN cost[pos + i - 1] ELSE Infinite
  BY <1>1 DEF PickInv, DecisionsFit
<1>4. Costs(cost, 0) /\ window[1] = cost[0]
  <2>1. 1 \in 1 .. MaxChunk /\ pos + 1 - 1 = 0 /\ 0 <= N
    BY <1>1, Constants
  <2> QED BY <1>1, <1>3, <2>1
<1>5. /\ 0 \in 0 .. N /\ 0 \in 0 .. N - 1 /\ 0 \in Positions
      /\ cost[0] \in 0 .. Infinite /\ (choice[0] = 0 => cost[0] = Infinite)
      /\ \A S \in TilingsFrom(0) : cost[0] <= Cardinality(S)
  <2>1. 0 \in 0 .. N /\ 0 \in 0 .. N - 1 /\ 0 \in Positions
    BY Constants
  <2> QED BY <1>4, <2>1 DEF Costs
<1>6. CASE window[1] >= Infinite \/ choice[0] = 0
  <2>1. cost[0] = Infinite
    BY <1>4, <1>5, <1>6, Constants
  <2>2. ASSUME NEW S \in TilingsFrom(0) PROVE FALSE
    <3>1. Cardinality(S) \in Nat /\ Cardinality(S) <= N - 0
      BY <1>5, TilingIsSmall
    <3> QED BY <1>5, <2>1, <3>1, Constants
  <2>3. Tilings = {}
    BY <2>2, TilingsAre
  <2> QED BY <1>1, <1>2, <1>6, <2>3, ConcludeKeeps
<1>7. CASE ~(window[1] >= Infinite \/ choice[0] = 0)
  <2>1. cost[0] <= N
    BY <1>4, <1>5, <1>7, Constants
  <2>2. Restart("trace")
    BY <1>1, <1>7
  <2> QED BY <1>1, <1>2, <1>4, <2>1, <2>2, RestartKeeps DEF ProofPlans, WeightedPlans
<1> QED BY <1>6, <1>7

\* The trace never meets an offset without a choice, and spends one segment of the cost at each.
LEMMA TraceKeeps == PickInv /\ Trace => PickInv'
<1> SUFFICES ASSUME PickInv, Trace PROVE PickInv'
  OBVIOUS
<1> DEFINE l == choice[pos]
           sources == {c \in Chains : longest[c][pos] >= l}
<1>1. /\ TypeOK /\ PlanFits /\ SegmentsFit /\ AccountsFit /\ NothingMissed
      /\ stage = "running" /\ plan = "trace" /\ pos < N /\ longest \in Tables
  BY DEF PickInv, PlanFits, Trace
<1>2. pos \in Positions /\ pos \in 0 .. N - 1 /\ pos \in 0 .. N
  BY <1>1, Constants DEF TypeOK
<1>3. PICK cost : Costs(cost, 0) /\ cost[pos] <= N /\ Len(segs) + cost[pos] = cost[0]
  BY <1>1 DEF PickInv, DecisionsFit
<1>4. /\ l = 0 => cost[pos] = Infinite
      /\ l # 0 => /\ \E c \in Chains : l <= longest[c][pos]
                  /\ pos + l <= N /\ cost[pos] = 1 + cost[pos + l]
  BY <1>2, <1>3 DEF Costs
<1>5. l # 0 /\ l \in 1 .. MaxChunk
  <2>1. l \in 0 .. MaxChunk
    BY <1>1, <1>2 DEF TypeOK
  <2> HIDE DEF l
  <2>2. cost[pos] # Infinite
    BY <1>3, Constants
  <2> QED BY <1>4, <2>1, <2>2, Constants
<1>6. sources # {}
  <2>1. PICK c \in Chains : l <= longest[c][pos]
    BY <1>4, <1>5
  <2>2. longest[c][pos] \in 0 .. MaxChunk
    BY <1>1, <1>2, Table
  <2> HIDE DEF l
  <2>3. longest[c][pos] >= l
    BY <1>5, <2>1, <2>2, Constants
  <2> QED BY <2>3
<1>7. PICK c \in sources : /\ Add([chain |-> c, at |-> pos, len |-> l])
                           /\ UNCHANGED <<inputs, stage, plan, quotas, tables>>
  BY <1>5, <1>6 DEF Trace
<1> DEFINE seg == [chain |-> c, at |-> pos, len |-> l]
<1>8. seg \in Segment /\ seg.at = pos /\ seg.chain = c /\ seg.len = l
  <2>1. c \in Chains
    OBVIOUS
  <2> HIDE DEF l, sources
  <2> QED BY <1>2, <1>5, <2>1 DEF Segment
<1>9. l <= longest[c][pos]
  <2>1. c \in Chains /\ longest[c][pos] >= l
    OBVIOUS
  <2>2. longest[c][pos] \in 0 .. MaxChunk
    BY <1>1, <1>2, Table
  <2> HIDE DEF l
  <2> QED BY <1>5, <2>1, <2>2, Constants
<1>10. Goal = N /\ covered = pos /\ plan \notin QuotaPlans
  BY <1>1 DEF Goal, GoalOf, ProofPlans, QuotaPlans, SegmentsFit, GaplessPlans
<1>11. covered + l <= Goal
  BY <1>4, <1>5, <1>10
<1>12. Add(seg)
  BY <1>7
<1> HIDE DEF seg
<1>13. /\ segs' \in Seq(Segment) /\ pos' \in 0 .. N
       /\ used' \in [Chains -> 0 .. N] /\ covered' \in 0 .. N
       /\ Len(segs') = Len(segs) + 1 /\ pos' = pos + seg.len
       /\ PlanFits' /\ SegmentsFit' /\ AccountsFit' /\ NothingMissed'
  BY <1>1, <1>7, <1>8, <1>9, <1>10, <1>11, <1>12, AddKeeps
<1>14. TypeOK'
  BY <1>1, <1>7, <1>13 DEF TypeOK, inputs, tables
<1>15. DecisionsFit'
  <2>1. plan' = "trace" /\ longest' = longest /\ choice' = choice
    BY <1>1, <1>7 DEF inputs, tables
  <2>2. Costs(cost, 0)'
    BY <1>3, <2>1 DEF Costs, TilingsFrom
  <2>3. pos' = pos + l
    BY <1>8, <1>13
  <2>4. cost[pos'] <= N /\ Len(segs') + cost[pos'] = cost[0]
    <3>1. cost[pos] = 1 + cost[pos']
      BY <1>4, <1>5, <2>3
    <3>2. cost[pos'] \in 0 .. Infinite /\ Len(segs) \in Nat
      BY <1>1, <1>3, <1>13 DEF Costs, TypeOK
    <3> DEFINE x == cost[pos']
               y == cost[pos]
               n == Len(segs)
    <3>3. /\ y = 1 + x /\ x \in Int /\ n \in Int /\ y <= N /\ n + y = cost[0] /\ Len(segs') = n + 1
          /\ N \in Int
      BY <1>3, <1>13, <3>1, <3>2, Constants
    <3> HIDE DEF x, y, n
    <3>4. x <= N /\ Len(segs') + x = cost[0]
      BY ONLY <3>3
    <3> QED BY <3>4 DEF x
  <2> QED BY <2>1, <2>2, <2>4 DEF DecisionsFit
<1>16. VerdictFits'
  BY <1>1, <1>7 DEF VerdictFits
<1> QED BY <1>13, <1>14, <1>15, <1>16 DEF PickInv

\* A trace that arrives at the end of the target is the recipe.
LEMMA EndOfTraceKeeps == PickInv /\ EndOfTrace => PickInv'
<1> SUFFICES ASSUME PickInv, EndOfTrace PROVE PickInv'
  OBVIOUS
<1>1. TypeOK /\ PlanFits /\ plan = "trace" /\ pos = N /\ Conclude("built")
  BY DEF PickInv, EndOfTrace
<1>2. request = 100
  BY <1>1, PickerAssumption DEF TypeOK, PlanFits, ProofPlans
<1> QED BY <1>1, <1>2, ConcludeKeeps

\* A cancelled search promises nothing.
LEMMA CancelKeeps == PickInv /\ Cancel => PickInv'
<1> SUFFICES ASSUME PickInv, Conclude("cancelled") PROVE PickInv'
  BY DEF Cancel
<1> QED BY ConcludeKeeps

\* Every search begins with the invariant, whatever the corpus and the request.
LEMMA InitIsSound == Init => PickInv
<1> SUFFICES ASSUME Init PROVE PickInv
  OBVIOUS
<1>1. /\ longest \in Tables /\ weights \in Weightings \cup {NoWeights} /\ request \in Requests
      /\ stage = "running" /\ plan \in {"partial", "proofExact", "fewest", "exact"}
      /\ plan = IF request < 100 THEN IF weights = NoWeights THEN "partial" ELSE "proofExact"
                ELSE IF weights = NoWeights THEN "fewest" ELSE "exact"
      /\ pos = IF plan = "fewest" THEN N ELSE 0
      /\ quotas = QuotasOf(plan) /\ segs = <<>> /\ used = [c \in Chains |-> 0] /\ covered = 0
      /\ window = [i \in 1 .. MaxChunk |-> IF i = 1 THEN 0 ELSE Infinite]
      /\ choice = [p \in Positions |-> 0]
  BY DEF Init
<1>2. /\ plan \in ProofPlans <=> request < 100
      /\ plan \in WeightedPlans <=> weights # NoWeights
  BY <1>1, PickerAssumption DEF ProofPlans, WeightedPlans
<1>3. quotas \in [Chains -> 0 .. N] /\ Goal \in 1 .. N
  <2>1. plan \in Plans /\ (plan \in WeightedPlans => weights \in Weightings)
    BY <1>1, <1>2 DEF Plans
  <2>2. GoalOf(plan) \in 1 .. N /\ GoalOf(plan) \in 0 .. N
    BY <1>1, <2>1, NeededIs, Constants
  <2> QED BY <1>1, <2>1, <2>2, QuotasAre DEF Goal
<1>4. TypeOK
  <2>1. longest \in [Chains -> [Positions -> 0 .. MaxChunk]]
    BY <1>1, PickerAssumption
  <2>2. <<>> \in Seq(Segment) /\ 0 \in 0 .. N /\ N \in 0 .. N /\ 0 \in 0 .. MaxChunk
    BY Constants
  <2>3. window \in [1 .. MaxChunk -> 0 .. Infinite]
    BY <1>1, Constants
  <2>4. choice \in [Positions -> 0 .. MaxChunk] /\ used \in [Chains -> 0 .. N]
    BY <1>1, <2>2
  <2>5. plan \in Plans /\ pos \in 0 .. N
    BY <1>1, <2>2 DEF Plans
  <2> QED BY <1>1, <1>3, <2>1, <2>2, <2>3, <2>4, <2>5 DEF TypeOK
<1>5. PlanFits
  BY <1>1, <1>2 DEF PlanFits
<1>6. SegmentsFit
  BY <1>1 DEF SegmentsFit, GaplessPlans
<1>7. AccountsFit
  <2>1. DOMAIN <<>> = {} /\ \A c \in Chains : {i \in DOMAIN <<>> : <<>>[i].chain = c} = {}
    OBVIOUS
  <2>2. covered = Cardinality(BytesOf(segs, DOMAIN segs)) /\ covered <= Goal
    BY <1>1, <1>3, <2>1, NoBytes, Constants
  <2>3. \A c \in Chains : used[c] = Cardinality(BytesOf(segs, {i \in DOMAIN segs : segs[i].chain = c}))
    BY <1>1, <2>1, NoBytes
  <2>4. \A c \in Chains : used[c] <= quotas[c]
    BY <1>1, <1>3, Constants
  <2> QED BY <2>2, <2>3, <2>4 DEF AccountsFit
<1>8. NothingMissed
  BY <1>1, Constants DEF NothingMissed, Coverable, OpenPlans
<1>9. DecisionsFit
  <2> SUFFICES ASSUME plan = "fewest"
               PROVE  \E cost : /\ Costs(cost, pos)
                                /\ \A i \in 1 .. MaxChunk :
                                     window[i] = IF pos + i - 1 <= N THEN cost[pos + i - 1] ELSE Infinite
    BY <1>1 DEF DecisionsFit
  <2> DEFINE cost == [p \in 0 .. N |-> IF p = N THEN 0 ELSE Infinite]
  <2>1. pos = N
    BY <1>1
  <2>2. cost \in [0 .. N -> 0 .. Infinite] /\ cost[N] = 0 /\ N .. N - 1 = {}
    BY Constants
  <2>3. Costs(cost, pos)
    <3> HIDE DEF cost
    <3> QED BY <2>1, <2>2 DEF Costs
  <2>4. \A i \in 1 .. MaxChunk : window[i] = IF pos + i - 1 <= N THEN cost[pos + i - 1] ELSE Infinite
    <3> TAKE i \in 1 .. MaxChunk
    <3>1. window[i] = IF i = 1 THEN 0 ELSE Infinite
      BY <1>1
    <3>2. i = 1 <=> pos + i - 1 <= N
      BY <2>1, Constants
    <3>3. i = 1 => pos + i - 1 = N
      BY <2>1, Constants
    <3> HIDE DEF cost
    <3> QED BY <2>2, <3>1, <3>2, <3>3
  <2> HIDE DEF cost
  <2> QED BY <2>3, <2>4
<1>10. VerdictFits
  BY <1>1 DEF VerdictFits
<1> QED BY <1>4, <1>5, <1>6, <1>7, <1>8, <1>9, <1>10 DEF PickInv

----------------------------------------------------------------------------
(* The invariant holds of every search, and the properties follow from it. *)

\* Every step of the pickers keeps the invariant.
LEMMA StepKeeps == PickInv /\ [Next]_vars => PickInv'
BY StutterKeeps, TakeFragmentKeeps, SkipByteKeeps, BlockedKeeps, EndOfSearchKeeps, DecideOffsetKeeps,
   EndOfDecisionsKeeps, TraceKeeps, EndOfTraceKeeps, CancelKeeps
DEF Next, Search

\* The invariant holds in every reachable state of a search, for every target length,
\* chunk size, match table, mix and request, whichever half of the search is followed.
THEOREM SearchIsSound == SearchSpec => []PickInv
<1>1. SearchInit => PickInv
  BY InitIsSound DEF SearchInit
<1>2. PickInv /\ [SearchNext]_all_vars => PickInv'
  BY StepKeeps DEF SearchNext, InPick, InIndex, all_vars
<1> QED BY <1>1, <1>2, PTL DEF SearchSpec

\* The variables of build_manifest's search stay in their types: no account, quota or
\* cost leaves the target's size.
THEOREM TypesAreCorrect == SearchSpec => []TypeOK
<1>1. PickInv => TypeOK
  BY DEF PickInv
<1> QED BY <1>1, SearchIsSound, PTL

\* A recipe quotes only fragments its chains have, in order and without overlap, and a
\* full recipe that is built leaves no byte of the target out, in all plans.
THEOREM RecipesFit == SearchSpec => []RecipeFits
<1>1. PickInv => RecipeFits
  <2> SUFFICES ASSUME PickInv PROVE RecipeFits
    OBVIOUS
  <2>1. TypeOK /\ PlanFits /\ SegmentsFit /\ DecisionsFit
    BY DEF PickInv
  <2>2. ASSUME stage = "built", request = 100
        PROVE  /\ segs # <<>> /\ segs[1].at = 0 /\ End(segs[Len(segs)]) = N
               /\ \A i \in 1 .. Len(segs) - 1 : End(segs[i]) = segs[i + 1].at
    <3>1. pos = N /\ N # 0
      BY <2>2, Constants DEF PickInv, VerdictFits
    <3>2. plan \notin ProofPlans
      BY <2>1, <2>2 DEF PlanFits
    <3>3. plan # "fewest"
      BY <2>2 DEF PickInv, VerdictFits
    <3>4. plan \in GaplessPlans
      BY <2>1, <3>2, <3>3 DEF TypeOK, Plans, ProofPlans, GaplessPlans
    <3> QED BY <2>1, <3>1, <3>4 DEF SegmentsFit
  <2> QED BY <2>1, <2>2 DEF SegmentsFit, RecipeFits
<1> QED BY <1>1, SearchIsSound, PTL

\* pick_fewest_chunks, with its window of MaxChunk costs, gives a recipe no longer than
\* any other way to cut the target.
THEOREM FewestChunks == SearchSpec => []FewestIsMinimal
<1>1. PickInv => FewestIsMinimal
  <2> SUFFICES ASSUME PickInv, stage = "built", plan = "trace", NEW S \in Tilings
               PROVE  Len(segs) <= Cardinality(S)
    BY DEF FewestIsMinimal
  <2>1. TypeOK /\ pos = N
    <3>1. request = 100
      BY PickerAssumption DEF PickInv, TypeOK, PlanFits, ProofPlans
    <3> QED BY <3>1 DEF PickInv, VerdictFits
  <2>2. PICK cost : Costs(cost, 0) /\ Len(segs) + cost[pos] = cost[0]
    BY DEF PickInv, DecisionsFit
  <2>3. 0 \in 0 .. N - 1 /\ S \in TilingsFrom(0)
    BY TilingsAre, Constants
  <2>4. cost[N] = 0 /\ cost[0] <= Cardinality(S)
    BY <2>2, <2>3 DEF Costs
  <2>5. Len(segs) \in Nat
    BY <2>1 DEF TypeOK
  <2> QED BY <2>1, <2>2, <2>4, <2>5
<1> QED BY <1>1, SearchIsSound, PTL

\* A full request is refused only when no recipe of any mix exists, a proof only when
\* all chains together stay below its tolerance.
THEOREM RefusalsAreHonest == SearchSpec => []RefusalIsHonest
<1>1. PickInv => RefusalIsHonest
  <2> SUFFICES ASSUME PickInv, stage = "refused", request # 100,
                      100 * Needed <= (request + 2) * N
               PROVE  100 * Cardinality(Coverable) < (request - 1) * N
    BY DEF PickInv, VerdictFits, RefusalIsHonest
  <2>1. /\ TypeOK /\ PlanFits /\ AccountsFit /\ NothingMissed
        /\ plan \in OpenPlans /\ ~Accepted /\ ~(pos < N /\ covered < Goal)
    BY DEF PickInv, VerdictFits
  <2>2. Goal = Needed /\ Needed \in 1 .. N /\ 100 * Needed >= N * request
    BY <2>1, NeededIs DEF TypeOK, Goal, GoalOf, OpenPlans, ProofPlans
  <2>3. covered <= Needed /\ covered \in 0 .. N /\ request \in 1 .. 100
    BY <2>1, <2>2, PickerAssumption DEF AccountsFit, TypeOK
  <2>4. 100 * covered <= (request + 2) * N
    BY <2>2, <2>3, Constants
  <2>5. 100 * covered < (request - 1) * N
    BY <2>1, <2>3, <2>4, Constants DEF Accepted
  <2>6. covered < Needed
    <3>1. (request - 1) * N <= N * request
      BY <2>3, Constants
    <3> QED BY <2>2, <2>3, <2>5, <3>1, Constants
  <2>7. pos = N
    BY <2>1, <2>2, <2>6, Constants DEF TypeOK
  <2>8. Coverable \subseteq BytesOf(segs, DOMAIN segs)
    BY <2>1, <2>7, Constants DEF NothingMissed, Coverable
  <2>9. Cardinality(Coverable) <= covered /\ Cardinality(Coverable) \in Nat
    <3>1. BytesOf(segs, DOMAIN segs) \subseteq 0 .. N
      <4>1. \A i \in DOMAIN segs : segs[i] \in Segment /\ End(segs[i]) <= N
        BY <2>1, <2>7 DEF PickInv, SegmentsFit, TypeOK
      <4> QED BY <4>1, Constants DEF BytesOf, Span, End, Segment
    <3>2. IsFiniteSet(BytesOf(segs, DOMAIN segs))
      <4>1. 0 \in Int /\ N \in Int
        BY Constants
      <4> QED BY <3>1, <4>1, FS_Interval, FS_Subset
    <3> QED BY <2>1, <2>8, <3>2, FS_Subset, FS_CardinalityType DEF AccountsFit
  <2> QED BY <2>3, <2>5, <2>9, Constants
<1> QED BY <1>1, SearchIsSound, PTL

\* The bytes a recipe accounts for, per chain and in all, are those of its segments; a
\* proof that is built is within its tolerance.
THEOREM AccountsStayTrue == SearchSpec => []AccountsAreTrue
<1>1. PickInv => AccountsAreTrue
  <2> SUFFICES ASSUME PickInv PROVE AccountsAreTrue
    OBVIOUS
  <2>1. AccountsFit /\ PlanFits /\ VerdictFits /\ TypeOK
    BY DEF PickInv
  <2>2. \A S : Bytes(S) = BytesOf(segs, S)
    BY DEF Bytes, BytesOf, Span
  <2>3. ASSUME stage = "built", request < 100
        PROVE  covered <= Needed /\ 100 * covered >= (request - 1) * N
    <3>1. request # 100 /\ Goal = Needed
      BY <2>1, <2>3, PickerAssumption DEF PlanFits, Goal, GoalOf, TypeOK
    <3> QED BY <2>1, <2>3, <3>1 DEF AccountsFit, VerdictFits, Accepted
  <2> QED BY <2>1, <2>2, <2>3 DEF AccountsFit, AccountsAreTrue
<1> QED BY <1>1, SearchIsSound, PTL

\* _byte_quotas shares out exactly the bytes to be covered, each share within a byte of
\* its percentage, and no chain of an exact mix gives more than its quota.
THEOREM QuotasAreKept == SearchSpec => []QuotasHold
<1>1. PickInv => QuotasHold
  <2> SUFFICES ASSUME PickInv, plan \in QuotaPlans PROVE QuotasHold
    BY DEF QuotasHold
  <2>1. /\ TypeOK /\ plan \in Plans /\ plan \in WeightedPlans /\ quotas = QuotasOf(plan)
        /\ weights \in Weightings
        /\ \A c \in Chains : used[c] <= quotas[c]
    BY DEF PickInv, TypeOK, PlanFits, AccountsFit, QuotaPlans, WeightedPlans
  <2>2. GoalOf(plan) \in 0 .. N
    BY <2>1, NeededIs, Constants DEF TypeOK
  <2>3. /\ SumOver(quotas, Chains) = Goal
        /\ \A c \in Chains : /\ quotas[c] * SumOver(weights, Chains) < Goal * weights[c] + SumOver(weights, Chains)
                             /\ Goal * weights[c] < (quotas[c] + 1) * SumOver(weights, Chains)
    BY <2>1, <2>2, QuotasAre DEF Goal
  <2> QED BY <2>1, <2>3 DEF QuotasHold
<1> QED BY <1>1, SearchIsSound, PTL

----------------------------------------------------------------------------
(* Slices.                                                                 *)

\* A slice within its data holds the bytes from its offset on.
LEMMA SliceIs ==
  ASSUME NEW S, NEW a \in Seq(S), NEW o \in Nat, NEW l \in Nat, o + l <= Len(a)
  PROVE  /\ Index!Slice(a, o, l) \in Seq(S) /\ Len(Index!Slice(a, o, l)) = l
         /\ \A k \in 1 .. l : Index!Slice(a, o, l)[k] = a[o + k]
<1>1. Index!Slice(a, o, l) = SubSeq(a, o + 1, o + l)
  BY DEF Index!Slice
<1>2. (o + l) - (o + 1) + 1 = l /\ \A k \in 1 .. l : (o + 1) + k - 1 = o + k /\ o + k \in 1 .. Len(a)
  OBVIOUS
<1>3. Len(a) \in Nat
  OBVIOUS
<1>4. SubSeq(a, o + 1, o + l) \in Seq(S)
  BY <1>2
<1>5. Len(SubSeq(a, o + 1, o + l)) = l
  BY <1>2
<1>6. \A k \in 1 .. l : SubSeq(a, o + 1, o + l)[k] = a[o + k]
  BY <1>2
<1> QED BY <1>1, <1>4, <1>5, <1>6

\* Two slices of one length are the same if their bytes are.
LEMMA SameSlices ==
  ASSUME NEW S, NEW a \in Seq(S), NEW b \in Seq(S), NEW o \in Nat, NEW p \in Nat, NEW l \in Nat,
         o + l <= Len(a), p + l <= Len(b)
  PROVE  Index!Slice(a, o, l) = Index!Slice(b, p, l) <=> \A k \in 1 .. l : a[o + k] = b[p + k]
<1> DEFINE x == Index!Slice(a, o, l)
           y == Index!Slice(b, p, l)
<1>1. /\ x \in Seq(S) /\ Len(x) = l /\ \A k \in 1 .. l : x[k] = a[o + k]
      /\ y \in Seq(S) /\ Len(y) = l /\ \A k \in 1 .. l : y[k] = b[p + k]
  BY SliceIs
<1> HIDE DEF x, y
<1>2. x = y <=> \A k \in 1 .. l : x[k] = y[k]
  BY <1>1
<1> QED BY <1>1, <1>2 DEF x, y

\* Slices that agree agree in their beginnings.
LEMMA SlicesBegin ==
  ASSUME NEW S, NEW a \in Seq(S), NEW b \in Seq(S), NEW o \in Nat, NEW p \in Nat, NEW l \in Nat,
         o + l <= Len(a), p + l <= Len(b), Index!Slice(a, o, l) = Index!Slice(b, p, l), NEW k \in 0 .. l
  PROVE  Index!Slice(a, o, k) = Index!Slice(b, p, k)
<1>1. \A i \in 1 .. l : a[o + i] = b[p + i]
  BY SameSlices
<1>2. k \in Nat /\ o + k <= Len(a) /\ p + k <= Len(b)
  OBVIOUS
<1>3. \A i \in 1 .. k : a[o + i] = b[p + i]
  BY <1>1
<1> DEFINE x == Index!Slice(a, o, k)
           y == Index!Slice(b, p, k)
<1>4. /\ x \in Seq(S) /\ Len(x) = k /\ \A i \in 1 .. k : x[i] = a[o + i]
      /\ y \in Seq(S) /\ Len(y) = k /\ \A i \in 1 .. k : y[i] = b[p + i]
  BY <1>2, SliceIs
<1> HIDE DEF x, y
<1>5. x = y <=> \A i \in 1 .. k : x[i] = y[i]
  <2>1. x \in Seq(S) /\ y \in Seq(S) /\ Len(x) = k /\ Len(y) = k
    BY <1>4
  <2> QED BY ONLY <2>1
<1>6. \A i \in 1 .. k : x[i] = y[i]
  BY <1>3, <1>4
<1> QED BY <1>5, <1>6 DEF x, y

----------------------------------------------------------------------------
(* The invariant of the index.                                             *)

\* Data carries frag at offset o within the longest chunk.
Carries(data, o, frag) == Len(frag) <= Index!Available(data, o) /\ Index!Slice(data, o, Len(frag)) = frag

\* Where the records carry a long prefix.
PointsFor(key) ==
  {point \in Nat \X Nat :
     /\ point[1] \in DOMAIN records
     /\ point[2] \in Index!LongOffsets(records[point[1]])
     /\ Index!Slice(records[point[1]], point[2], LongPrefix) = key}

\* frag is first carried by the record and at the offset of hit.
FirstCarrier(hit, frag) ==
  \E r \in DOMAIN records : \E o \in Index!Offsets(records[r]) :
    /\ hit = <<r, o>> /\ Carries(records[r], o, frag)
    /\ \A r2 \in DOMAIN records : \A o2 \in Index!Offsets(records[r2]) :
         Index!Earlier(r2, o2, r, o) => ~Carries(records[r2], o2, frag)

\* Points are in the order of the records and of their offsets.
Ascending(points) ==
  \A i, j \in DOMAIN points : i < j => Index!Earlier(points[i][1], points[i][2], points[j][1], points[j][2])

\* The exact maps know every short fragment, and where it comes first.
ShortFits ==
  /\ DOMAIN short = UNION {Index!Fragments(records[r]) : r \in DOMAIN records}
  /\ \A frag \in DOMAIN short : FirstCarrier(short[frag], frag)

\* The fan-out knows every long prefix, and all points that carry it, in order.
LongFits ==
  /\ \A r \in DOMAIN records : \A o \in Index!LongOffsets(records[r]) :
       Index!Slice(records[r], o, LongPrefix) \in DOMAIN long
  /\ \A key \in DOMAIN long :
       /\ long[key] \in Seq(Nat \X Nat) /\ long[key] # <<>>
       /\ {long[key][i] : i \in DOMAIN long[key]} = PointsFor(key)
       /\ Ascending(long[key])

IndexInv ==
  /\ target \in Seq(ByteValues) /\ records \in Seq(Sources)
  /\ ShortFits /\ LongFits

----------------------------------------------------------------------------
(* The answers of the index.                                               *)

\* m is the first of the longest matches of at most cap bytes.
FirstLongest(m, place, cap) ==
  /\ m.length \in 1 .. cap
  /\ m.record \in DOMAIN records /\ m.offset \in Index!Offsets(records[m.record])
  /\ Index!Matches(records[m.record], m.offset, place, m.length)
  /\ \A r \in DOMAIN records : \A o \in Index!Offsets(records[r]) : \A l \in 1 .. cap :
       Index!Matches(records[r], o, place, l) =>
         l <= m.length /\ (l = m.length => ~Index!Earlier(r, o, m.record, m.offset))

\* The constants and a record.
LEMMA RecordIs ==
  ASSUME IndexInv, NEW r \in DOMAIN records
  PROVE  /\ MaxChunk \in Nat /\ MaxChunk > 0 /\ ShortMax \in Nat /\ ShortMax > 0
         /\ LongPrefix = ShortMax + 1
         /\ r \in Nat /\ records[r] \in Seq(ByteValues) /\ target \in Seq(ByteValues)
         /\ Len(records[r]) \in Nat /\ Len(target) \in Nat
         /\ Index!Offsets(records[r]) = 0 .. Len(records[r]) - 1
         /\ \A o \in Index!Offsets(records[r]) :
              /\ Index!Available(records[r], o) = Index!Min2(MaxChunk, Len(records[r]) - o)
              /\ o \in Index!LongOffsets(records[r]) <=>
                   LongPrefix <= MaxChunk /\ o + LongPrefix <= Len(records[r])
<1>1. /\ MaxChunk \in Nat /\ MaxChunk > 0 /\ ShortMax \in Nat /\ ShortMax > 0
      /\ LongPrefix = ShortMax + 1 /\ Sources \subseteq Seq(ByteValues)
  BY SearchAssumption DEF Index!IndexAssumption
<1>2. r \in Nat /\ records[r] \in Seq(ByteValues) /\ target \in Seq(ByteValues)
  <2>1. records \in Seq(Sources) /\ target \in Seq(ByteValues)
    BY DEF IndexInv
  <2> QED BY <1>1, <2>1
<1> DEFINE n == Len(records[r])
<1>3. n \in Nat /\ Len(target) \in Nat
  BY <1>2
<1>4. Index!Offsets(records[r]) = 0 .. n - 1
  BY DEF Index!Offsets
<1>5. \A o \in Index!Offsets(records[r]) :
        /\ Index!Available(records[r], o) = Index!Min2(MaxChunk, n - o)
        /\ o \in Index!LongOffsets(records[r]) <=> LongPrefix <= MaxChunk /\ o + LongPrefix <= n
  <2> TAKE o \in Index!Offsets(records[r])
  <2>1. Index!Available(records[r], o) = Index!Min2(MaxChunk, n - o)
    BY DEF Index!Available
  <2>2. o \in Index!LongOffsets(records[r]) <=> Index!Min2(MaxChunk, n - o) >= LongPrefix
    BY <2>1 DEF Index!LongOffsets
  <2> HIDE DEF n
  <2>3. o \in 0 .. n - 1
    BY <1>4
  <2>4. Index!Min2(MaxChunk, n - o) >= LongPrefix <=> LongPrefix <= MaxChunk /\ o + LongPrefix <= n
    BY <1>1, <1>3, <2>3 DEF Index!Min2
  <2> QED BY <2>1, <2>2, <2>4
<1> QED BY <1>1, <1>2, <1>3, <1>4, <1>5

LEMMA PlaceIs ==
  ASSUME IndexInv, NEW r \in DOMAIN records, NEW o \in Index!Offsets(records[r])
  PROVE  r \in Nat /\ o \in Nat
<1>1. /\ Len(records[r]) \in Nat /\ r \in Nat
      /\ Index!Offsets(records[r]) = 0 .. Len(records[r]) - 1
  BY RecordIs
<1> QED BY <1>1

\* A match, with its beginnings.
LEMMA MatchBegins ==
  ASSUME IndexInv, NEW r \in DOMAIN records, NEW o \in Index!Offsets(records[r]), NEW place \in Nat,
         NEW l \in Nat, Index!Matches(records[r], o, place, l), NEW k \in 0 .. l
  PROVE  Index!Matches(records[r], o, place, k)
<1>1. /\ records[r] \in Seq(ByteValues) /\ target \in Seq(ByteValues)
      /\ o \in Nat /\ o + l <= Len(records[r]) /\ place + l <= Len(target)
      /\ Index!Slice(records[r], o, l) = Index!Slice(target, place, l)
      /\ Len(records[r]) \in Nat /\ Len(target) \in Nat
  BY RecordIs DEF Index!Matches
<1>2. Index!Slice(records[r], o, k) = Index!Slice(target, place, k)
  BY <1>1, SlicesBegin
<1>3. o + k <= Len(records[r]) /\ place + k <= Len(target)
  BY <1>1
<1> QED BY <1>2, <1>3 DEF Index!Matches

\* The comparison behind a prefix hit ends at the longest match of that point.
LEMMA ExtentIs ==
  ASSUME IndexInv, NEW r \in DOMAIN records, NEW o \in Index!LongOffsets(records[r]),
         NEW place \in Nat, NEW cap \in Nat, LongPrefix <= cap, place + cap <= Len(target),
         Index!Slice(records[r], o, LongPrefix) = Index!Slice(target, place, LongPrefix)
  PROVE  /\ o \in Index!Offsets(records[r])
         /\ Index!Extent(<<r, o>>, place, cap) \in LongPrefix .. cap
         /\ Index!Matches(records[r], o, place, Index!Extent(<<r, o>>, place, cap))
         /\ \A l \in 1 .. cap : Index!Matches(records[r], o, place, l) =>
               l <= Index!Extent(<<r, o>>, place, cap)
<1> DEFINE data == records[r]
           n == Len(data)
           limit == Index!Min2(cap, Index!Min2(n - o, Len(target) - place))
           agree(l) == Index!Slice(data, o, l) = Index!Slice(target, place, l)
           T == {limit - l : l \in {k \in LongPrefix .. limit : agree(k)}}
           e == Index!Extent(<<r, o>>, place, cap)
<1>1. /\ o \in Index!Offsets(data) /\ data \in Seq(ByteValues) /\ target \in Seq(ByteValues)
      /\ o \in Nat /\ n \in Nat /\ Len(target) \in Nat /\ o + LongPrefix <= n
      /\ LongPrefix \in Nat /\ LongPrefix > 0
  <2>1. o \in Index!Offsets(data)
    BY DEF Index!LongOffsets
  <2> QED BY <2>1, RecordIs
<1>2. /\ limit \in Nat /\ LongPrefix <= limit /\ limit <= cap /\ o + limit <= n /\ place + limit <= Len(target)
      /\ \A l \in Nat : l <= cap /\ o + l <= n /\ place + l <= Len(target) => l <= limit
  <2> HIDE DEF n
  <2> QED BY <1>1 DEF Index!Min2
<1>3. \A l \in 0 .. limit : Index!Matches(data, o, place, l) <=> agree(l)
  <2> TAKE l \in 0 .. limit
  <2>1. o + l <= n /\ place + l <= Len(target)
    <3> HIDE DEF limit, n
    <3> QED BY <1>1, <1>2
  <2> QED BY <2>1 DEF Index!Matches
<1>4. \A l \in Nat : Index!Matches(data, o, place, l) /\ l <= cap => l <= limit
  <2> SUFFICES ASSUME NEW l \in Nat, Index!Matches(data, o, place, l), l <= cap PROVE l <= limit
    OBVIOUS
  <2>1. o + l <= n /\ place + l <= Len(target)
    BY DEF Index!Matches
  <2> HIDE DEF limit, n
  <2> QED BY <1>2, <2>1
<1>5. \A l \in 0 .. limit, k \in 0 .. limit : agree(l) /\ k <= l => agree(k)
  <2> SUFFICES ASSUME NEW l \in 0 .. limit, NEW k \in 0 .. limit, agree(l), k <= l PROVE agree(k)
    OBVIOUS
  <2>1. Index!Matches(data, o, place, l)
    BY <1>3
  <2>2. l \in Nat /\ k \in 0 .. l
    <3> HIDE DEF limit
    <3> QED BY <1>2
  <2>3. Index!Matches(data, o, place, k)
    BY <1>1, <2>1, <2>2, MatchBegins
  <2> QED BY <1>3, <2>3
<1> HIDE DEF limit
<1>6. T \subseteq Nat /\ T # {}
  <2>1. LongPrefix \in {k \in LongPrefix .. limit : agree(k)}
    BY <1>1, <1>2
  <2>2. limit - LongPrefix \in T
    BY <2>1
  <2>3. T \subseteq Nat
    BY <1>1, <1>2
  <2> QED BY <2>2, <2>3
<1>7. PICK m \in T : \A k \in T : m <= k
  BY <1>6, LeastNat
<1>8. PICK x \in LongPrefix .. limit : agree(x) /\ m = limit - x
  BY <1>7
<1>9. \E l \in LongPrefix .. limit : agree(l) /\ (l = limit \/ ~agree(l + 1))
  <2>1. ASSUME x # limit, agree(x + 1) PROVE FALSE
    <3>1. x + 1 \in LongPrefix .. limit
      BY <1>1, <1>2, <2>1
    <3>2. limit - (x + 1) \in T
      BY <2>1, <3>1
    <3>3. limit - x <= limit - (x + 1)
      BY <1>7, <1>8, <3>2
    <3> QED BY <1>1, <1>2, <3>3
  <2> QED BY <1>8, <2>1
<1>10. e = CHOOSE l \in LongPrefix .. limit : agree(l) /\ (l = limit \/ ~agree(l + 1))
  BY DEF Index!Extent, limit
<1>11. e \in LongPrefix .. limit /\ agree(e) /\ (e = limit \/ ~agree(e + 1))
  <2> HIDE DEF e
  <2> QED BY <1>9, <1>10
<1>12. ASSUME NEW l \in 1 .. cap, Index!Matches(data, o, place, l) PROVE l <= e
  <2>1. l \in 0 .. limit /\ agree(l)
    <3>1. l \in Nat /\ l <= cap
      OBVIOUS
    <3>2. l <= limit
      BY <1>4, <1>12, <3>1
    <3> QED BY <1>2, <1>3, <1>12, <3>1, <3>2
  <2> SUFFICES ASSUME e < l PROVE FALSE
    <3> HIDE DEF e
    <3> QED BY <1>1, <1>2, <1>11
  <2>2. e + 1 \in 0 .. limit /\ e + 1 <= l /\ e # limit
    <3> HIDE DEF e
    <3> QED BY <1>1, <1>2, <1>11, <2>1
  <2>3. agree(e + 1)
    BY <1>5, <2>1, <2>2
  <2> QED BY <1>11, <2>2, <2>3
<1>13. Index!Matches(data, o, place, e) /\ e \in LongPrefix .. cap
  <2>1. e \in 0 .. limit /\ e \in LongPrefix .. cap
    <3> HIDE DEF e
    <3> QED BY <1>1, <1>2, <1>11
  <2> QED BY <1>3, <1>11, <2>1
<1> QED BY <1>1, <1>12, <1>13

\* Of finitely many things with a size there is a first one of the greatest size.
LEMMA FirstGreatest ==
  ASSUME NEW n \in Nat, n > 0, NEW most \in Nat, NEW f \in [1 .. n -> 0 .. most]
  PROVE  \E i \in 1 .. n : \A j \in 1 .. n : f[j] < f[i] \/ (f[j] = f[i] /\ i <= j)
<1> DEFINE T == {most - f[i] : i \in 1 .. n}
<1>1. T \subseteq Nat /\ T # {}
  <2>1. \A i \in 1 .. n : f[i] \in 0 .. most
    OBVIOUS
  <2>2. \A i \in 1 .. n : most - f[i] \in Nat
    BY <2>1
  <2>3. 1 \in 1 .. n
    OBVIOUS
  <2>4. most - f[1] \in T
    BY <2>3
  <2> QED BY <2>2, <2>4
<1>2. PICK m \in T : \A k \in T : m <= k
  BY <1>1, LeastNat
<1> DEFINE I == {i \in 1 .. n : most - f[i] = m}
<1>3. I \subseteq Nat /\ I # {}
  <2>1. I \subseteq Nat
    OBVIOUS
  <2>2. \E i \in 1 .. n : m = most - f[i]
    BY <1>2
  <2>3. PICK i \in 1 .. n : m = most - f[i]
    BY <2>2
  <2>4. i \in I
    BY <2>3
  <2> QED BY <2>1, <2>4
<1>4. PICK i \in I : \A j \in I : i <= j
  BY <1>3, LeastNat
<1>5. ASSUME NEW j \in 1 .. n PROVE f[j] < f[i] \/ (f[j] = f[i] /\ i <= j)
  <2>1. m <= most - f[j] /\ m = most - f[i] /\ f[i] \in 0 .. most /\ f[j] \in 0 .. most
    BY <1>2
  <2>2. f[j] <= f[i]
    BY <2>1
  <2>3. f[j] = f[i] => i <= j
    BY <1>4, <2>1
  <2> QED BY <2>1, <2>2, <2>3
<1> QED BY <1>5

\* The fan-out answers with the first of the longest matches, or has none that long.
LEMMA LongCandidateIs ==
  ASSUME IndexInv, NEW place \in Nat, NEW cap \in 1 .. MaxChunk, place + cap <= Len(target)
  PROVE  \/ /\ Index!LongCandidate(place, cap) # Index!NoMatch
            /\ FirstLongest(Index!LongCandidate(place, cap), place, cap)
         \/ /\ Index!LongCandidate(place, cap) = Index!NoMatch
            /\ \A r \in DOMAIN records : \A o \in Index!Offsets(records[r]) : \A l \in LongPrefix .. cap :
                 ~Index!Matches(records[r], o, place, l)
<1> DEFINE key == Index!Slice(target, place, LongPrefix)
           none == cap < LongPrefix \/ place + LongPrefix > Len(target) \/ key \notin DOMAIN long
<1>1. /\ MaxChunk \in Nat /\ MaxChunk > 0 /\ LongPrefix \in Nat /\ LongPrefix > 0 /\ cap \in Nat
      /\ cap <= MaxChunk /\ Len(target) \in Nat /\ ShortFits /\ LongFits
  BY SearchAssumption DEF Index!IndexAssumption, IndexInv
<1>2. ASSUME NEW r \in DOMAIN records, NEW o \in Index!Offsets(records[r]), NEW l \in LongPrefix .. cap,
             Index!Matches(records[r], o, place, l)
      PROVE  ~none /\ o \in Index!LongOffsets(records[r]) /\ <<r, o>> \in PointsFor(key)
  <2>1. l \in Nat /\ LongPrefix \in 0 .. l
    BY <1>1
  <2>2. Index!Matches(records[r], o, place, LongPrefix)
    BY <1>2, <2>1, MatchBegins
  <2>3. /\ LongPrefix <= cap /\ place + LongPrefix <= Len(target) /\ o + LongPrefix <= Len(records[r])
        /\ Index!Slice(records[r], o, LongPrefix) = key
    BY <1>1, <2>2 DEF Index!Matches
  <2>4. o \in Index!LongOffsets(records[r]) /\ r \in Nat /\ o \in Nat
    <3>1. LongPrefix <= MaxChunk
      BY <1>1, <2>3
    <3> QED BY <2>3, <3>1, RecordIs
  <2>5. key \in DOMAIN long
    BY <1>1, <2>3, <2>4 DEF LongFits
  <2>6. <<r, o>> \in PointsFor(key)
    BY <2>3, <2>4 DEF PointsFor
  <2>7. ~none
    <3> HIDE DEF key
    <3> QED BY <1>1, <2>3, <2>5
  <2> QED BY <2>4, <2>6, <2>7
<1>3. CASE none
  <2>1. Index!LongCandidate(place, cap) = Index!NoMatch
    BY <1>3 DEF Index!LongCandidate
  <2> QED BY <1>2, <1>3, <2>1
<1>4. CASE ~none
  <2> DEFINE points == long[key]
             extent(i) == Index!Extent(points[i], place, cap)
             first == CHOOSE i \in DOMAIN points :
                        \A j \in DOMAIN points :
                          extent(j) < extent(i) \/ (extent(j) = extent(i) /\ i <= j)
             m == Index!LongCandidate(place, cap)
  <2>1. m = [record |-> points[first][1], offset |-> points[first][2], length |-> extent(first)]
    BY <1>4 DEF Index!LongCandidate
  <2>2. /\ points \in Seq(Nat \X Nat) /\ points # <<>> /\ Ascending(points)
        /\ {points[i] : i \in DOMAIN points} = PointsFor(key)
        /\ LongPrefix <= cap /\ place + LongPrefix <= Len(target)
    <3> HIDE DEF key
    <3> QED BY <1>1, <1>4 DEF LongFits
  <2> HIDE DEF points
  <2> DEFINE n == Len(points)
  <2>3. n \in Nat /\ n > 0 /\ DOMAIN points = 1 .. n
    BY <2>2
  <2>4. ASSUME NEW i \in 1 .. n
        PROVE  /\ points[i] = <<points[i][1], points[i][2]>>
               /\ points[i][1] \in DOMAIN records /\ points[i][2] \in Index!LongOffsets(records[points[i][1]])
               /\ points[i][2] \in Index!Offsets(records[points[i][1]])
               /\ extent(i) \in LongPrefix .. cap
               /\ Index!Matches(records[points[i][1]], points[i][2], place, extent(i))
               /\ \A l \in 1 .. cap :
                    Index!Matches(records[points[i][1]], points[i][2], place, l) => l <= extent(i)
    <3> DEFINE r == points[i][1]
               o == points[i][2]
    <3>1. points[i] \in PointsFor(key)
      BY <2>2, <2>3
    <3>2. /\ points[i] = <<r, o>> /\ r \in DOMAIN records /\ o \in Index!LongOffsets(records[r])
          /\ Index!Slice(records[r], o, LongPrefix) = key
      BY <3>1 DEF PointsFor
    <3>3. extent(i) = Index!Extent(<<r, o>>, place, cap)
      BY <3>2
    <3> HIDE DEF r, o
    <3>4. /\ o \in Index!Offsets(records[r])
          /\ Index!Extent(<<r, o>>, place, cap) \in LongPrefix .. cap
          /\ Index!Matches(records[r], o, place, Index!Extent(<<r, o>>, place, cap))
          /\ \A l \in 1 .. cap : Index!Matches(records[r], o, place, l) =>
                l <= Index!Extent(<<r, o>>, place, cap)
      BY <1>1, <2>2, <3>2, ExtentIs
    <3> HIDE DEF extent
    <3>5. /\ points[i] = <<r, o>> /\ r \in DOMAIN records /\ o \in Index!LongOffsets(records[r])
          /\ o \in Index!Offsets(records[r]) /\ extent(i) \in LongPrefix .. cap
          /\ Index!Matches(records[r], o, place, extent(i))
          /\ \A l \in 1 .. cap : Index!Matches(records[r], o, place, l) => l <= extent(i)
      BY <3>2, <3>3, <3>4
    <3> QED BY <3>5 DEF r, o
  <2> HIDE DEF extent
  <2>5. first \in 1 .. n /\ \A j \in 1 .. n :
          extent(j) < extent(first) \/ (extent(j) = extent(first) /\ first <= j)
    <3> DEFINE f == [i \in 1 .. n |-> extent(i)]
    <3>1. f \in [1 .. n -> 0 .. cap]
      BY <1>1, <2>4
    <3>2. \E i \in 1 .. n : \A j \in 1 .. n : f[j] < f[i] \/ (f[j] = f[i] /\ i <= j)
      <4> HIDE DEF f, n
      <4> QED BY <1>1, <2>3, <3>1, FirstGreatest
    <3>3. \E i \in 1 .. n : \A j \in 1 .. n : extent(j) < extent(i) \/ (extent(j) = extent(i) /\ i <= j)
      BY <3>2
    <3> QED BY <2>3, <3>3
  <2> HIDE DEF first
  <2>6. m # Index!NoMatch
    <3>1. m.length = extent(first) /\ extent(first) \in LongPrefix .. cap
      BY <2>1, <2>4, <2>5
    <3>2. m.length # 0
      BY <1>1, <3>1
    <3> QED BY <3>2 DEF Index!NoMatch
  <2>7. FirstLongest(m, place, cap)
    <3> DEFINE r == m.record
               o == m.offset
               e == m.length
    <3>1. /\ r = points[first][1] /\ o = points[first][2] /\ e = extent(first)
      BY <2>1
    <3>2. /\ r \in DOMAIN records /\ o \in Index!Offsets(records[r]) /\ e \in LongPrefix .. cap
          /\ Index!Matches(records[r], o, place, e)
      BY <2>4, <2>5, <3>1
    <3> HIDE DEF r, o, e
    <3>3. e \in 1 .. cap
      BY <1>1, <3>2
    <3>4. ASSUME NEW q \in DOMAIN records, NEW p \in Index!Offsets(records[q]), NEW l \in 1 .. cap,
                 Index!Matches(records[q], p, place, l)
          PROVE  l <= e /\ (l = e => ~Index!Earlier(q, p, r, o))
      <4>1. CASE l < LongPrefix
        BY <1>1, <3>2, <4>1
      <4>2. CASE ~(l < LongPrefix)
        <5>1. l \in LongPrefix .. cap
          BY <1>1, <4>2
        <5>2. <<q, p>> \in PointsFor(key)
          BY <1>2, <3>4, <5>1
        <5>3. PICK j \in 1 .. n : points[j] = <<q, p>>
          BY <2>2, <2>3, <5>2
        <5>4. l <= extent(j)
          BY <2>4, <3>4, <5>3
        <5>5. extent(j) < e \/ (extent(j) = e /\ first <= j)
          BY <2>5, <3>1
        <5>6. extent(j) \in Int /\ e \in Int /\ l \in Int
          BY <1>1, <2>4, <3>2
        <5>7. l = e => ~Index!Earlier(q, p, r, o)
          <6> SUFFICES ASSUME l = e, Index!Earlier(q, p, r, o) PROVE FALSE
            OBVIOUS
          <6>1. first <= j
            BY <5>4, <5>5, <5>6
          <6>2. r \in Nat /\ o \in Nat /\ q \in Nat /\ p \in Nat
            <7>1. q \in Nat /\ p \in Nat
              BY PlaceIs
            <7>2. r \in DOMAIN records /\ o \in Index!Offsets(records[r])
              BY <3>2
            <7>3. r \in Nat /\ o \in Nat
              BY <7>2, PlaceIs
            <7> QED BY <7>1, <7>3
          <6>3. first # j
            <7>1. first = j => r = q /\ o = p
              BY <3>1, <5>3
            <7> QED BY <6>2, <7>1 DEF Index!Earlier
          <6>4. first < j
            BY <2>5, <6>1, <6>3
          <6>5. Index!Earlier(r, o, q, p)
            <7>1. Index!Earlier(points[first][1], points[first][2], points[j][1], points[j][2])
              BY <2>2, <2>3, <2>5, <6>4 DEF Ascending
            <7>2. points[j][1] = q /\ points[j][2] = p
              BY <5>3
            <7> QED BY <3>1, <7>1, <7>2
          <6> QED BY <6>2, <6>5 DEF Index!Earlier
        <5> QED BY <5>4, <5>5, <5>6, <5>7
      <4> QED BY <4>1, <4>2
    <3>5. FirstLongest([record |-> r, offset |-> o, length |-> e], place, cap)
      BY <3>2, <3>3, <3>4 DEF FirstLongest
    <3>6. m = [record |-> r, offset |-> o, length |-> e]
      BY <2>1 DEF r, o, e
    <3> QED BY <3>5, <3>6
  <2> QED BY <2>6, <2>7
<1> QED BY <1>3, <1>4

\* Where the fan-out has nothing the exact maps answer with the first of the longest
\* matches, or there is none at all.
LEMMA ShortCandidateIs ==
  ASSUME IndexInv, NEW place \in Nat, NEW cap \in 1 .. MaxChunk, place + cap <= Len(target),
         \A r \in DOMAIN records : \A o \in Index!Offsets(records[r]) : \A l \in LongPrefix .. cap :
           ~Index!Matches(records[r], o, place, l)
  PROVE  \/ FirstLongest(Index!ShortCandidate(place, cap), place, cap)
         \/ /\ Index!ShortCandidate(place, cap) = Index!NoMatch
            /\ \A r \in DOMAIN records : \A o \in Index!Offsets(records[r]) : \A l \in 1 .. cap :
                 ~Index!Matches(records[r], o, place, l)
<1> DEFINE top == Index!Min2(ShortMax, cap)
           known == {l \in 1 .. top : Index!Slice(target, place, l) \in DOMAIN short}
           most == CHOOSE l \in known : \A k \in known : k <= l
           hit == short[Index!Slice(target, place, most)]
           m == Index!ShortCandidate(place, cap)
<1>1. /\ MaxChunk \in Nat /\ MaxChunk > 0 /\ ShortMax \in Nat /\ ShortMax > 0 /\ LongPrefix = ShortMax + 1
      /\ cap \in Nat /\ cap <= MaxChunk /\ Len(target) \in Nat /\ ShortFits
      /\ target \in Seq(ByteValues)
  BY SearchAssumption DEF Index!IndexAssumption, IndexInv
<1>2. top \in 1 .. cap /\ top <= ShortMax /\ \A l \in Nat : l <= ShortMax /\ l <= cap => l <= top
  BY <1>1 DEF Index!Min2
<1> HIDE DEF top
<1>3. ASSUME NEW l \in 1 .. top, NEW r \in DOMAIN records, NEW o \in Index!Offsets(records[r])
      PROVE  /\ Carries(records[r], o, Index!Slice(target, place, l)) <=> Index!Matches(records[r], o, place, l)
             /\ Carries(records[r], o, Index!Slice(target, place, l)) =>
                  Index!Slice(target, place, l) \in Index!Fragments(records[r])
  <2> DEFINE data == records[r]
             n == Len(data)
             frag == Index!Slice(target, place, l)
  <2>1. l \in Nat /\ l > 0 /\ l <= ShortMax /\ l <= MaxChunk /\ place + l <= Len(target)
    BY <1>1, <1>2
  <2>2. Len(frag) = l
    BY <1>1, <2>1, SliceIs
  <2>3. o \in 0 .. n - 1 /\ n \in Nat /\ Index!Available(data, o) = Index!Min2(MaxChunk, n - o)
    BY RecordIs
  <2>4. l <= Index!Available(data, o) <=> o + l <= n
    <3> HIDE DEF n
    <3> QED BY <1>1, <2>1, <2>3 DEF Index!Min2
  <2>5. Carries(data, o, frag) <=> l <= Index!Available(data, o) /\ Index!Slice(data, o, l) = frag
    <3> HIDE DEF frag
    <3> QED BY <2>2 DEF Carries
  <2>6. Carries(data, o, frag) <=> Index!Matches(data, o, place, l)
    BY <2>1, <2>4, <2>5 DEF Index!Matches
  <2>7. Carries(data, o, frag) => frag \in Index!Fragments(data)
    <3> SUFFICES ASSUME l <= Index!Available(data, o), frag = Index!Slice(data, o, l)
                 PROVE  frag \in Index!Fragments(data)
      BY <2>5
    <3>1. l \in 1 .. Index!Min2(ShortMax, Index!Available(data, o))
      <4> DEFINE av == Index!Available(data, o)
      <4>1. av \in Int
        <5> HIDE DEF n
        <5> QED BY <1>1, <2>3 DEF Index!Min2
      <4>2. l <= av
        OBVIOUS
      <4> HIDE DEF av
      <4> QED BY <1>1, <2>1, <4>1, <4>2 DEF Index!Min2
    <3> HIDE DEF frag
    <3> QED BY <3>1 DEF Index!Fragments
  <2> QED BY <2>6, <2>7
<1>4. \A l \in 1 .. top : l \in known <=>
        \E r \in DOMAIN records : \E o \in Index!Offsets(records[r]) : Index!Matches(records[r], o, place, l)
  <2> TAKE l \in 1 .. top
  <2>1. ASSUME l \in known
        PROVE  \E r \in DOMAIN records : \E o \in Index!Offsets(records[r]) :
                 Index!Matches(records[r], o, place, l)
    <3>1. FirstCarrier(short[Index!Slice(target, place, l)], Index!Slice(target, place, l))
      BY <1>1, <2>1 DEF ShortFits
    <3>2. PICK r \in DOMAIN records : \E o \in Index!Offsets(records[r]) :
            Carries(records[r], o, Index!Slice(target, place, l))
      BY <3>1 DEF FirstCarrier
    <3> QED BY <1>3, <3>2
  <2>2. ASSUME NEW r \in DOMAIN records, NEW o \in Index!Offsets(records[r]),
               Index!Matches(records[r], o, place, l)
        PROVE  l \in known
    <3>1. Index!Slice(target, place, l) \in Index!Fragments(records[r])
      BY <1>3, <2>2
    <3>2. Index!Slice(target, place, l) \in DOMAIN short
      BY <1>1, <3>1 DEF ShortFits
    <3> QED BY <3>2
  <2> QED BY <2>1, <2>2
<1>5. ASSUME NEW r \in DOMAIN records, NEW o \in Index!Offsets(records[r]), NEW l \in 1 .. cap,
             Index!Matches(records[r], o, place, l)
      PROVE  l \in 1 .. top /\ l \in known
  <2>1. l \notin LongPrefix .. cap
    BY <1>5
  <2>2. l \in 1 .. top
    BY <1>1, <1>2, <2>1
  <2> QED BY <1>4, <1>5, <2>2
<1>6. CASE known = {}
  <2>1. m = Index!NoMatch
    BY <1>6 DEF Index!ShortCandidate, top
  <2> HIDE DEF known
  <2> QED BY <1>5, <1>6, <2>1
<1>7. CASE known # {}
  <2>1. m = [record |-> hit[1], offset |-> hit[2], length |-> most]
    BY <1>7 DEF Index!ShortCandidate, top
  <2>2. \E l \in known : \A k \in known : k <= l
    <3> DEFINE T == {top - l : l \in known}
    <3>1. T \subseteq Nat /\ T # {}
      BY <1>1, <1>2, <1>7
    <3>2. PICK x \in T : \A k \in T : x <= k
      BY <3>1, LeastNat
    <3>3. PICK l \in known : x = top - l
      BY <3>2
    <3>4. ASSUME NEW k \in known PROVE k <= l
      <4>1. top - l <= top - k
        BY <3>2, <3>3
      <4> QED BY <1>1, <1>2, <4>1
    <3> QED BY <3>4
  <2>3. most \in known /\ \A k \in known : k <= most
    <3> HIDE DEF known
    <3> QED BY <2>2
  <2>4. most \in 1 .. top /\ Index!Slice(target, place, most) \in DOMAIN short
    BY <2>3
  <2> HIDE DEF most
  <2> DEFINE frag == Index!Slice(target, place, most)
  <2>5. FirstCarrier(hit, frag)
    BY <1>1, <2>4 DEF ShortFits
  <2> HIDE DEF hit, frag
  <2> DEFINE Earliest(r, o) ==
               /\ hit = <<r, o>> /\ Carries(records[r], o, frag)
               /\ \A r2 \in DOMAIN records : \A o2 \in Index!Offsets(records[r2]) :
                    Index!Earlier(r2, o2, r, o) => ~Carries(records[r2], o2, frag)
  <2>a. PICK r \in DOMAIN records : \E o \in Index!Offsets(records[r]) : Earliest(r, o)
    BY <2>5 DEF FirstCarrier
  <2>6. PICK o \in Index!Offsets(records[r]) : Earliest(r, o)
    BY <2>a
  <2>7. Index!Matches(records[r], o, place, most)
    BY <1>3, <2>4, <2>6 DEF frag
  <2>8. ASSUME NEW q \in DOMAIN records, NEW p \in Index!Offsets(records[q]), NEW l \in 1 .. cap,
               Index!Matches(records[q], p, place, l)
        PROVE  l <= most /\ (l = most => ~Index!Earlier(q, p, r, o))
    <3>1. l <= most
      BY <1>5, <2>3, <2>8
    <3>2. l = most => Carries(records[q], p, frag)
      BY <1>3, <2>4, <2>8 DEF frag
    <3> QED BY <2>6, <3>1, <3>2
  <2>9. m = [record |-> r, offset |-> o, length |-> most] /\ most \in 1 .. cap
    BY <1>1, <1>2, <2>1, <2>4, <2>6
  <2>10. FirstLongest([record |-> r, offset |-> o, length |-> most], place, cap)
    BY <2>7, <2>8, <2>9 DEF FirstLongest
  <2> QED BY <2>9, <2>10
<1> QED BY <1>6, <1>7

\* The longest match by definition.
LEMMA LongestMatchIs ==
  ASSUME NEW place \in Nat
  PROVE  /\ Index!LongestMatch(place) \in 0 .. MaxChunk
         /\ Index!LongestMatch(place) = 0 \/ Index!LongestMatch(place) \in Index!MatchLengths(place)
         /\ \A k \in Index!MatchLengths(place) : k <= Index!LongestMatch(place)
<1> DEFINE A == {0} \cup Index!MatchLengths(place)
           T == {MaxChunk - l : l \in A}
<1>1. MaxChunk \in Nat /\ A \subseteq 0 .. MaxChunk
  BY SearchAssumption DEF Index!IndexAssumption, Index!MatchLengths
<1>2. T \subseteq Nat /\ T # {}
  BY <1>1
<1>3. PICK m \in T : \A k \in T : m <= k
  BY <1>2, LeastNat
<1>4. PICK l \in A : m = MaxChunk - l
  BY <1>3
<1>5. ASSUME NEW k \in A PROVE k <= l
  <2>1. MaxChunk - l <= MaxChunk - k
    BY <1>3, <1>4
  <2> HIDE DEF A
  <2> QED BY <1>1, <2>1
<1>6. \E x \in A : \A k \in Index!MatchLengths(place) : k <= x
  BY <1>5
<1> DEFINE L == Index!LongestMatch(place)
<1>7. L \in A /\ \A k \in Index!MatchLengths(place) : k <= L
  BY <1>6 DEF Index!LongestMatch
<1> HIDE DEF L
<1> QED BY <1>1, <1>7 DEF L

\* Slices that agree agree in their ends.
LEMMA SlicesEnd ==
  ASSUME NEW S, NEW a \in Seq(S), NEW b \in Seq(S), NEW o \in Nat, NEW p \in Nat, NEW l \in Nat,
         o + l <= Len(a), p + l <= Len(b), Index!Slice(a, o, l) = Index!Slice(b, p, l),
         NEW d \in 0 .. l, NEW x \in Nat, NEW y \in Nat, NEW h \in Nat, x = o + d, y = p + d, h = l - d
  PROVE  x + h <= Len(a) /\ y + h <= Len(b) /\ Index!Slice(a, x, h) = Index!Slice(b, y, h)
<1>1. \A i \in 1 .. l : a[o + i] = b[p + i]
  BY SameSlices
<1>2. x + h <= Len(a) /\ y + h <= Len(b)
  OBVIOUS
<1>3. ASSUME NEW i \in 1 .. h PROVE a[x + i] = b[y + i]
  <2>1. d + i \in 1 .. l /\ o + (d + i) = x + i /\ p + (d + i) = y + i
    OBVIOUS
  <2>2. a[o + (d + i)] = b[p + (d + i)]
    BY <1>1, <2>1
  <2> QED BY <2>1, <2>2
<1> DEFINE v == Index!Slice(a, x, h)
           w == Index!Slice(b, y, h)
<1>4. /\ v \in Seq(S) /\ Len(v) = h /\ \A i \in 1 .. h : v[i] = a[x + i]
      /\ w \in Seq(S) /\ Len(w) = h /\ \A i \in 1 .. h : w[i] = b[y + i]
  <2>1. x + h <= Len(a) /\ y + h <= Len(b) /\ a \in Seq(S) /\ b \in Seq(S)
    BY <1>2
  <2>2. x \in Nat /\ y \in Nat /\ h \in Nat
    OBVIOUS
  <2>3. v \in Seq(S) /\ Len(v) = h /\ \A i \in 1 .. h : v[i] = a[x + i]
    BY ONLY <2>1, <2>2, SliceIs
  <2>4. w \in Seq(S) /\ Len(w) = h /\ \A i \in 1 .. h : w[i] = b[y + i]
    BY ONLY <2>1, <2>2, SliceIs
  <2> HIDE DEF v, w
  <2> QED BY <2>3, <2>4
<1> HIDE DEF v, w
<1>5. v = w <=> \A i \in 1 .. h : v[i] = w[i]
  <2>1. v \in Seq(S) /\ w \in Seq(S) /\ Len(v) = h /\ Len(w) = h
    BY <1>4
  <2> QED BY ONLY <2>1
<1>6. \A i \in 1 .. h : v[i] = w[i]
  BY <1>3, <1>4
<1> QED BY <1>2, <1>5, <1>6 DEF v, w

\* A match without its first d bytes is a match d bytes further on.
LEMMA MatchEnds ==
  ASSUME IndexInv, NEW r \in DOMAIN records, NEW o \in Index!Offsets(records[r]), NEW place \in Nat,
         NEW l \in Nat, Index!Matches(records[r], o, place, l), NEW d \in Nat, d < l,
         NEW x \in Nat, NEW y \in Nat, NEW h \in Nat, x = o + d, y = place + d, h = l - d
  PROVE  x \in Index!Offsets(records[r]) /\ Index!Matches(records[r], x, y, h)
<1>1. /\ records[r] \in Seq(ByteValues) /\ target \in Seq(ByteValues)
      /\ Len(records[r]) \in Nat /\ Len(target) \in Nat
      /\ Index!Offsets(records[r]) = 0 .. Len(records[r]) - 1 /\ o \in Nat
  BY RecordIs, PlaceIs
<1>2. /\ o + l <= Len(records[r]) /\ place + l <= Len(target)
      /\ Index!Slice(records[r], o, l) = Index!Slice(target, place, l)
  BY DEF Index!Matches
<1>3. /\ x + h <= Len(records[r]) /\ y + h <= Len(target)
      /\ Index!Slice(records[r], x, h) = Index!Slice(target, y, h)
  BY <1>1, <1>2, SlicesEnd
<1>4. x \in 0 .. Len(records[r]) - 1
  BY <1>1, <1>2
<1> QED BY <1>1, <1>3, <1>4 DEF Index!Matches

\* The tables of matches a picker may be given, as PickerAssumption has them, are what the
\* index says of the target: no match is longer than a fragment or than what is left of the
\* target, and behind the first byte of a match there is one that is at most a byte shorter.
TablesFit ==
  \A p \in 0 .. Len(target) - 1 :
    /\ Index!LongestMatch(p) \in 0 .. MaxChunk
    /\ Index!LongestMatch(p) <= Len(target) - p
    /\ \A q \in p .. Len(target) - 1 : Index!LongestMatch(q) >= Index!LongestMatch(p) - (q - p)

LEMMA TablesDoFit == IndexInv => TablesFit
<1> SUFFICES ASSUME IndexInv, NEW p \in 0 .. Len(target) - 1
             PROVE  /\ Index!LongestMatch(p) \in 0 .. MaxChunk
                    /\ Index!LongestMatch(p) <= Len(target) - p
                    /\ \A q \in p .. Len(target) - 1 :
                         Index!LongestMatch(q) >= Index!LongestMatch(p) - (q - p)
  BY DEF TablesFit
<1> DEFINE L == Index!LongestMatch(p)
           n == Len(target)
<1>1. n \in Nat /\ p \in Nat /\ p < n /\ MaxChunk \in Nat
  BY SearchAssumption DEF IndexInv, Index!IndexAssumption
<1>2. L \in 0 .. MaxChunk /\ (L = 0 \/ L \in Index!MatchLengths(p))
  BY <1>1, LongestMatchIs
<1> HIDE DEF L, n
<1>3. CASE L = 0
  <2>1. ASSUME NEW q \in p .. n - 1 PROVE Index!LongestMatch(q) >= L - (q - p)
    <3>1. q \in Nat /\ q >= p
      BY <1>1
    <3>2. Index!LongestMatch(q) \in 0 .. MaxChunk
      BY <3>1, LongestMatchIs
    <3> QED BY <1>1, <1>3, <3>1, <3>2
  <2> QED BY <1>1, <1>2, <1>3, <2>1 DEF L, n
<1>4. CASE L # 0
  <2>1. PICK r \in DOMAIN records : \E o \in Index!Offsets(records[r]) : Index!Matches(records[r], o, p, L)
    BY <1>2, <1>4 DEF Index!MatchLengths
  <2>2. PICK o \in Index!Offsets(records[r]) : Index!Matches(records[r], o, p, L)
    BY <2>1
  <2>3. p + L <= n
    BY <2>2 DEF Index!Matches, n
  <2>4. ASSUME NEW q \in p .. n - 1 PROVE Index!LongestMatch(q) >= L - (q - p)
    <3>1. q \in Nat /\ q >= p /\ L \in Nat
      BY <1>1, <1>2
    <3>2. Index!LongestMatch(q) \in 0 .. MaxChunk /\ \A k \in Index!MatchLengths(q) : k <= Index!LongestMatch(q)
      BY <3>1, LongestMatchIs
    <3>3. CASE L <= q - p
      BY <1>1, <3>1, <3>2, <3>3
    <3>4. CASE ~(L <= q - p)
      <4>1. PICK d \in Nat, h \in Nat : d = q - p /\ h = L - d
        BY <1>1, <1>2, <3>1, <3>4
      <4>2. PICK x \in Nat : x = o + d
        BY PlaceIs
      <4>3. d < L /\ q = p + d /\ h \in 1 .. MaxChunk
        BY <1>1, <1>2, <3>1, <3>4, <4>1
      <4>4. x \in Index!Offsets(records[r]) /\ Index!Matches(records[r], x, q, h)
        BY <1>1, <2>2, <3>1, <4>1, <4>2, <4>3, MatchEnds
      <4>5. h \in Index!MatchLengths(q)
        BY <4>3, <4>4 DEF Index!MatchLengths
      <4> QED BY <3>2, <4>1, <4>5
    <3> QED BY <3>3, <3>4
  <2> QED BY <1>1, <1>2, <2>3, <2>4 DEF L, n
<1> QED BY <1>3, <1>4

\* The index answers as CandidateIsFirstLongest says.
LEMMA CandidatesAreLongest == IndexInv => Index!CandidateIsFirstLongest
<1> SUFFICES ASSUME IndexInv, NEW place \in 0 .. Len(target) - 1, NEW maxLen \in 1 .. MaxChunk
             PROVE  LET m == Index!Candidate(place, maxLen)
                    IN  /\ m.length = Index!Min2(Index!LongestMatch(place), maxLen)
                        /\ m.length > 0 =>
                             /\ Index!Matches(records[m.record], m.offset, place, m.length)
                             /\ \A r \in DOMAIN records : \A o \in Index!Offsets(records[r]) :
                                  Index!Earlier(r, o, m.record, m.offset) => ~Index!Matches(records[r], o, place, m.length)
  BY DEF Index!CandidateIsFirstLongest
<1> DEFINE cap == Index!Min2(MaxChunk, Index!Min2(Len(target) - place, maxLen))
           m == Index!Candidate(place, maxLen)
           L == Index!LongestMatch(place)
<1>1. MaxChunk \in Nat /\ MaxChunk > 0 /\ Len(target) \in Nat /\ place \in Nat /\ maxLen \in Nat
  BY SearchAssumption DEF Index!IndexAssumption, IndexInv
<1>2. /\ cap \in 1 .. MaxChunk /\ place + cap <= Len(target) /\ cap <= maxLen
      /\ \A l \in Nat : l <= maxLen /\ place + l <= Len(target) /\ l <= MaxChunk => l <= cap
  BY <1>1 DEF Index!Min2
<1>3. m = IF Index!LongCandidate(place, cap) # Index!NoMatch THEN Index!LongCandidate(place, cap)
          ELSE Index!ShortCandidate(place, cap)
  BY DEF Index!Candidate
<1> HIDE DEF cap, m, L
<1>4. \/ FirstLongest(m, place, cap)
      \/ /\ m = Index!NoMatch
         /\ \A r \in DOMAIN records : \A o \in Index!Offsets(records[r]) : \A l \in 1 .. cap :
              ~Index!Matches(records[r], o, place, l)
  BY <1>1, <1>2, <1>3, LongCandidateIs, ShortCandidateIs
<1>5. /\ L \in 0 .. MaxChunk /\ (L = 0 \/ L \in Index!MatchLengths(place))
      /\ \A k \in Index!MatchLengths(place) : k <= L
  BY <1>1, LongestMatchIs DEF L
<1>6. L > 0 => \E r \in DOMAIN records : \E o \in Index!Offsets(records[r]) :
                 /\ Index!Min2(L, maxLen) \in 1 .. cap
                 /\ Index!Matches(records[r], o, place, Index!Min2(L, maxLen))
  <2> SUFFICES ASSUME L > 0
               PROVE  \E r \in DOMAIN records : \E o \in Index!Offsets(records[r]) :
                        /\ Index!Min2(L, maxLen) \in 1 .. cap
                        /\ Index!Matches(records[r], o, place, Index!Min2(L, maxLen))
    OBVIOUS
  <2>a. PICK r \in DOMAIN records : \E o \in Index!Offsets(records[r]) : Index!Matches(records[r], o, place, L)
    BY <1>5 DEF Index!MatchLengths
  <2>1. PICK o \in Index!Offsets(records[r]) : Index!Matches(records[r], o, place, L)
    BY <2>a
  <2>2. place + L <= Len(target) /\ L \in Nat /\ L <= MaxChunk
    BY <1>1, <1>5, <2>1 DEF Index!Matches
  <2>3. Index!Min2(L, maxLen) \in 0 .. L /\ Index!Min2(L, maxLen) \in 1 .. cap
    BY <1>1, <1>2, <2>2 DEF Index!Min2
  <2>4. Index!Matches(records[r], o, place, Index!Min2(L, maxLen))
    BY <1>1, <2>1, <2>2, <2>3, MatchBegins
  <2> QED BY <2>3, <2>4
<1>7. CASE FirstLongest(m, place, cap)
  <2>1. /\ m.length \in 1 .. cap /\ m.length \in Nat /\ m.length <= maxLen /\ m.length \in 1 .. MaxChunk
        /\ m.record \in DOMAIN records /\ m.offset \in Index!Offsets(records[m.record])
        /\ Index!Matches(records[m.record], m.offset, place, m.length)
    BY <1>1, <1>2, <1>7 DEF FirstLongest
  <2>2. m.length \in Index!MatchLengths(place)
    BY <2>1 DEF Index!MatchLengths
  <2>3. m.length <= L /\ L > 0
    BY <1>1, <1>5, <2>1, <2>2
  <2>4. Index!Min2(L, maxLen) <= m.length
    BY <1>6, <1>7, <2>3 DEF FirstLongest
  <2>5. m.length = Index!Min2(L, maxLen)
    BY <1>1, <1>5, <2>1, <2>3, <2>4 DEF Index!Min2
  <2>6. \A r \in DOMAIN records : \A o \in Index!Offsets(records[r]) :
          Index!Earlier(r, o, m.record, m.offset) => ~Index!Matches(records[r], o, place, m.length)
    BY <1>7, <2>1 DEF FirstLongest
  <2> QED BY <2>1, <2>5, <2>6 DEF m, L
<1>8. CASE /\ m = Index!NoMatch
           /\ \A r \in DOMAIN records : \A o \in Index!Offsets(records[r]) : \A l \in 1 .. cap :
                ~Index!Matches(records[r], o, place, l)
  <2>1. L = 0
    BY <1>1, <1>5, <1>6, <1>8
  <2>2. m.length = 0 /\ Index!Min2(L, maxLen) = 0
    BY <1>1, <1>8, <2>1 DEF Index!NoMatch, Index!Min2
  <2> QED BY <2>2 DEF m, L
<1> QED BY <1>4, <1>7, <1>8

----------------------------------------------------------------------------
(* The index is kept.                                                      *)

\* The i-th of the finitely many numbers of a set, by how many are before it.
LEMMA InOrder ==
  ASSUME NEW S \in SUBSET Nat, IsFiniteSet(S)
  PROVE  /\ Cardinality(S) \in Nat
         /\ \A i \in 1 .. Cardinality(S) :
              \E o \in S : Cardinality({p \in S : p < o}) = i - 1
         /\ \A o \in S : Cardinality({p \in S : p < o}) \in 0 .. Cardinality(S) - 1
         /\ \A o, p \in S : p < o => Cardinality({q \in S : q < p}) < Cardinality({q \in S : q < o})
<1> DEFINE R == {x \in S \X S : x[1] < x[2]}
           n == Cardinality(S)
           before(o) == {p \in S : p < o}
           f == RankIn(R, S)
<1>1. n \in Nat
  BY FS_CardinalityType
<1>2. \A c, d \in S : <<c, d>> \in R <=> c < d
  OBVIOUS
<1>3. IsOrder(R, S)
  <2> HIDE DEF R
  <2> QED BY <1>2 DEF IsOrder
<1>4. \A o \in S : f[o] = Cardinality(before(o)) /\ IsFiniteSet(before(o)) /\ f[o] \in Nat
  <2> TAKE o \in S
  <2>1. {d \in S : <<d, o>> \in R} = before(o)
    <3> HIDE DEF R
    <3> QED BY <1>2
  <2>2. f[o] = Cardinality(before(o))
    BY <2>1 DEF RankIn
  <2>3. IsFiniteSet(before(o))
    BY FS_Subset
  <2> QED BY <2>2, <2>3, FS_CardinalityType
<1> HIDE DEF f
<1>5. ASSUME NEW i \in 1 .. n PROVE \E o \in S : f[o] = i - 1
  <2> SUFFICES ASSUME \A o \in S : f[o] # i - 1 PROVE FALSE
    OBVIOUS
  <2>1. i \in Nat /\ i <= n /\ i - 1 \in Nat /\ i - 1 <= n
    BY <1>1
  <2>2. Cardinality(Foremost(R, S, i)) = i /\ Cardinality(Foremost(R, S, i - 1)) = i - 1
    <3> HIDE DEF R, n
    <3>1. i <= Cardinality(S) /\ i - 1 <= Cardinality(S)
      BY <2>1 DEF n
    <3> QED BY <1>3, <2>1, <3>1, Ranks
  <2>3. Foremost(R, S, i) = Foremost(R, S, i - 1)
    <3>1. \A o \in S : f[o] < i <=> f[o] < i - 1
      <4> TAKE o \in S
      <4>1. f[o] \in Nat /\ f[o] # i - 1
        BY <1>4
      <4> QED BY ONLY <2>1, <4>1
    <3> HIDE DEF R
    <3> QED BY <3>1 DEF Foremost, f
  <2> QED BY <2>1, <2>2, <2>3
<1>6. ASSUME NEW o \in S PROVE f[o] \in 0 .. n - 1
  <2>1. before(o) \subseteq S \ {o}
    OBVIOUS
  <2>2. IsFiniteSet(S \ {o}) /\ Cardinality(S \ {o}) = n - 1
    BY FS_RemoveElement
  <2>3. Cardinality(before(o)) <= n - 1
    BY <2>1, <2>2, FS_Subset
  <2> HIDE DEF n
  <2> QED BY <1>1, <1>4, <2>3
<1>7. ASSUME NEW o \in S, NEW p \in S, p < o PROVE f[p] < f[o]
  <2>1. before(p) \subseteq before(o) \ {p} /\ p \in before(o)
    <3>1. \A q \in S : q \in Int
      OBVIOUS
    <3>2. \A q \in S : q < p => q < o /\ q # p
      BY <1>7, <3>1
    <3> QED BY <1>7, <3>2
  <2>2. IsFiniteSet(before(o) \ {p}) /\ Cardinality(before(o) \ {p}) = Cardinality(before(o)) - 1
    BY <1>4, <2>1, FS_RemoveElement
  <2>3. Cardinality(before(p)) <= Cardinality(before(o)) - 1
    <3> HIDE DEF before
    <3> QED BY <2>1, <2>2, FS_Subset
  <2> QED BY <1>4, <2>3
<1> QED BY <1>1, <1>4, <1>5, <1>6, <1>7

\* The points of a record that carry a long prefix are all of them, in order.
LEMMA PointsOfIs ==
  ASSUME NEW r \in Nat, NEW data \in Seq(ByteValues), NEW key
  PROVE  /\ Index!PointsOf(r, data, key) \in Seq(Nat \X Nat)
         /\ {Index!PointsOf(r, data, key)[i] : i \in DOMAIN Index!PointsOf(r, data, key)} =
              {<<r, o>> : o \in {p \in Index!LongOffsets(data) : Index!Slice(data, p, LongPrefix) = key}}
         /\ Ascending(Index!PointsOf(r, data, key))
<1> DEFINE at == {o \in Index!LongOffsets(data) : Index!Slice(data, o, LongPrefix) = key}
           before(o) == {p \in at : p < o}
           n == Cardinality(at)
           nth(i) == CHOOSE o \in at : Cardinality(before(o)) = i - 1
           points == Index!PointsOf(r, data, key)
<1>1. at \in SUBSET Nat /\ IsFiniteSet(at)
  <2> DEFINE a == 0
             b == Len(data) - 1
  <2>1. at \subseteq a .. b /\ a \in Int /\ b \in Int
    BY DEF Index!LongOffsets, Index!Offsets
  <2> HIDE DEF at, a, b
  <2>2. IsFiniteSet(a .. b)
    BY <2>1, FS_Interval
  <2>3. IsFiniteSet(at)
    BY <2>1, <2>2, FS_Subset
  <2> QED BY <2>1, <2>3 DEF a
<1>a. \A x \in at : x \in Int
  BY <1>1
<1>2. points = [i \in 1 .. n |-> <<r, nth(i)>>]
  BY DEF Index!PointsOf, Index!Cardinality, Cardinality
<1> HIDE DEF at, points
<1>3. /\ n \in Nat
      /\ \A i \in 1 .. n : \E o \in at : Cardinality(before(o)) = i - 1
      /\ \A o \in at : Cardinality(before(o)) \in 0 .. n - 1
      /\ \A o, p \in at : p < o => Cardinality(before(p)) < Cardinality(before(o))
  BY <1>1, InOrder
<1> HIDE DEF n, before
<1>4. \A i \in 1 .. n : nth(i) \in at /\ Cardinality(before(nth(i))) = i - 1
  <2> TAKE i \in 1 .. n
  <2>1. \E o \in at : Cardinality(before(o)) = i - 1
    BY <1>3
  <2> QED BY <2>1
<1> HIDE DEF nth
<1>5. \A o \in at : \E i \in 1 .. n : nth(i) = o
  <2> TAKE o \in at
  <2> DEFINE i == Cardinality(before(o)) + 1
  <2>1. i \in 1 .. n /\ i - 1 = Cardinality(before(o)) /\ Cardinality(before(o)) \in Nat
    BY <1>3
  <2> HIDE DEF i
  <2>2. nth(i) \in at /\ Cardinality(before(nth(i))) = Cardinality(before(o))
    BY <1>4, <2>1
  <2>3. ~(nth(i) < o) /\ ~(o < nth(i))
    BY <1>3, <2>1, <2>2
  <2>4. nth(i) = o
    BY <1>a, <2>2, <2>3
  <2> QED BY <2>1, <2>4
<1>6. \A i, j \in 1 .. n : i < j => nth(i) < nth(j)
  <2> TAKE i, j \in 1 .. n
  <2> SUFFICES ASSUME i < j PROVE nth(i) < nth(j)
    OBVIOUS
  <2>1. /\ nth(i) \in at /\ Cardinality(before(nth(i))) = i - 1
        /\ nth(j) \in at /\ Cardinality(before(nth(j))) = j - 1
    BY <1>4
  <2>2. nth(i) # nth(j)
    BY <1>3, <2>1
  <2>3. ~(nth(j) < nth(i))
    <3> SUFFICES ASSUME nth(j) < nth(i) PROVE FALSE
      OBVIOUS
    <3>1. Cardinality(before(nth(j))) < Cardinality(before(nth(i)))
      BY <1>3, <2>1
    <3> QED BY <1>3, <2>1, <3>1
  <2> QED BY <1>a, <2>1, <2>2, <2>3
<1>7. points \in Seq(Nat \X Nat) /\ DOMAIN points = 1 .. n
  <2>1. \A i \in 1 .. n : <<r, nth(i)>> \in Nat \X Nat
    BY <1>1, <1>4
  <2> QED BY <1>2, <1>3, <2>1
<1>8. {points[i] : i \in DOMAIN points} = {<<r, o>> : o \in at}
  <2>1. \A i \in 1 .. n : points[i] = <<r, nth(i)>> /\ nth(i) \in at
    BY <1>2, <1>4
  <2> QED BY <1>5, <1>7, <2>1
<1>9. Ascending(points)
  <2>1. \A i, j \in 1 .. n : i < j => points[i][1] = r /\ points[j][1] = r /\ points[i][2] < points[j][2]
    BY <1>2, <1>6
  <2> QED BY <1>7, <2>1 DEF Ascending, Index!Earlier
<1> QED BY <1>7, <1>8, <1>9 DEF at, points

\* A fragment's first offset in a record that supplies it.
LEMMA FirstOffsetIs ==
  ASSUME NEW data \in Seq(ByteValues), NEW frag \in Index!Fragments(data)
  PROVE  /\ Index!FirstOffset(data, frag) \in Index!Offsets(data)
         /\ Carries(data, Index!FirstOffset(data, frag), frag)
         /\ \A p \in Index!Offsets(data) : Carries(data, p, frag) => Index!FirstOffset(data, frag) <= p
<1> DEFINE T == {o \in Index!Offsets(data) : Carries(data, o, frag)}
<1>1. T \subseteq Nat
  BY DEF Index!Offsets
<1>2. T # {}
  <2>1. PICK o \in Index!Offsets(data) :
          \E l \in 1 .. Index!Min2(ShortMax, Index!Available(data, o)) : frag = Index!Slice(data, o, l)
    BY DEF Index!Fragments
  <2>2. PICK l \in 1 .. Index!Min2(ShortMax, Index!Available(data, o)) : frag = Index!Slice(data, o, l)
    BY <2>1
  <2> DEFINE n == Len(data)
             av == Index!Available(data, o)
  <2>3. n \in Nat /\ o \in 0 .. n - 1 /\ av = Index!Min2(MaxChunk, n - o) /\ MaxChunk \in Nat /\ ShortMax \in Nat
    BY SearchAssumption DEF Index!IndexAssumption, Index!Offsets, Index!Available
  <2>4. l \in 1 .. Index!Min2(ShortMax, av)
    OBVIOUS
  <2> HIDE DEF n, av
  <2>5. l \in Nat /\ l <= av /\ o + l <= n /\ o \in Nat
    BY <2>3, <2>4 DEF Index!Min2
  <2>6. Len(frag) = l
    BY <2>2, <2>5, SliceIs DEF n
  <2>7. Carries(data, o, frag)
    BY <2>2, <2>5, <2>6 DEF Carries, av
  <2> QED BY <2>7
<1>3. PICK o \in T : \A p \in T : o <= p
  BY <1>1, <1>2, LeastNat
<1>4. \E x \in Index!Offsets(data) :
        /\ Len(frag) <= Index!Available(data, x) /\ Index!Slice(data, x, Len(frag)) = frag
        /\ \A p \in Index!Offsets(data) :
             Len(frag) <= Index!Available(data, p) /\ Index!Slice(data, p, Len(frag)) = frag => x <= p
  BY <1>3 DEF Carries
<1> QED BY <1>4 DEF Index!FirstOffset, Carries

\* What a record can supply it carries somewhere.
LEMMA SuppliesCarried ==
  ASSUME NEW data \in Seq(ByteValues), NEW o \in Index!Offsets(data), NEW frag, Carries(data, o, frag),
         Len(frag) \in 1 .. ShortMax
  PROVE  frag \in Index!Fragments(data)
<1>1. /\ Len(frag) \in Nat /\ ShortMax \in Nat
      /\ Len(frag) <= Index!Available(data, o) /\ Index!Slice(data, o, Len(frag)) = frag
  BY SearchAssumption DEF Index!IndexAssumption, Carries
<1>2. Index!Available(data, o) \in Int
  BY SearchAssumption DEF Index!IndexAssumption, Index!Available, Index!Min2, Index!Offsets
<1>3. Len(frag) \in 1 .. Index!Min2(ShortMax, Index!Available(data, o))
  BY <1>1, <1>2 DEF Index!Min2
<1> QED BY <1>1, <1>3 DEF Index!Fragments

\* A fragment has 1 to ShortMax bytes.
LEMMA FragmentIsShort ==
  ASSUME NEW data \in Seq(ByteValues), NEW frag \in Index!Fragments(data)
  PROVE  Len(frag) \in 1 .. ShortMax
<1>1. PICK o \in Index!Offsets(data) :
        \E l \in 1 .. Index!Min2(ShortMax, Index!Available(data, o)) : frag = Index!Slice(data, o, l)
  BY DEF Index!Fragments
<1>2. PICK l \in 1 .. Index!Min2(ShortMax, Index!Available(data, o)) : frag = Index!Slice(data, o, l)
  BY <1>1
<1> DEFINE n == Len(data)
           av == Index!Available(data, o)
<1>3. n \in Nat /\ o \in 0 .. n - 1 /\ av = Index!Min2(MaxChunk, n - o) /\ MaxChunk \in Nat /\ ShortMax \in Nat
  BY SearchAssumption DEF Index!IndexAssumption, Index!Offsets, Index!Available
<1>4. l \in 1 .. Index!Min2(ShortMax, av)
  OBVIOUS
<1> HIDE DEF n, av
<1>5. l \in Nat /\ l \in 1 .. ShortMax /\ o + l <= n /\ o \in Nat
  BY <1>3, <1>4 DEF Index!Min2
<1> QED BY <1>2, <1>5, SliceIs DEF n

\* What a new record changes.
Recorded(data) ==
  /\ records' = Append(records, data)
  /\ short' = Index!ShortWith(short, Len(records) + 1, data)
  /\ long' = Index!LongWith(long, Len(records) + 1, data)
  /\ target' = target

\* The records before and after.
LEMMA RecordsAre ==
  ASSUME IndexInv, NEW data \in Sources, Recorded(data)
  PROVE  /\ Len(records) \in Nat /\ data \in Seq(ByteValues)
         /\ records' \in Seq(Sources) /\ Len(records) + 1 \in Nat
         /\ DOMAIN records = 1 .. Len(records) /\ DOMAIN records' = 1 .. Len(records) + 1
         /\ records'[Len(records) + 1] = data
         /\ \A r \in DOMAIN records : records'[r] = records[r] /\ records[r] \in Seq(ByteValues) /\ r \in Nat
<1>1. records \in Seq(Sources) /\ Sources \subseteq Seq(ByteValues)
  BY SearchAssumption DEF IndexInv, Index!IndexAssumption
<1>2. records' = Append(records, data)
  BY DEF Recorded
<1> QED BY <1>1, <1>2

\* The exact maps: what was known stays, and what is new comes first in the new record.
LEMMA ShortKept ==
  ASSUME IndexInv, NEW data \in Sources, Recorded(data)
  PROVE  ShortFits'
<1> DEFINE n == Len(records) + 1
<1>1. /\ data \in Seq(ByteValues) /\ n \in Nat /\ n > 0 /\ DOMAIN records = 1 .. n - 1 /\ DOMAIN records' = 1 .. n
      /\ records'[n] = data
      /\ \A r \in DOMAIN records : records'[r] = records[r] /\ records[r] \in Seq(ByteValues) /\ r \in Nat
  BY RecordsAre
<1>2. /\ DOMAIN short' = DOMAIN short \cup Index!Fragments(data)
      /\ \A f \in DOMAIN short : short'[f] = short[f]
      /\ \A f \in Index!Fragments(data) : f \notin DOMAIN short => short'[f] = <<n, Index!FirstOffset(data, f)>>
  BY DEF Recorded, Index!ShortWith
<1>3. /\ DOMAIN short = UNION {Index!Fragments(records[r]) : r \in DOMAIN records}
      /\ \A f \in DOMAIN short : FirstCarrier(short[f], f)
  BY DEF IndexInv, ShortFits
<1> HIDE DEF n
<1>4. /\ DOMAIN records' = DOMAIN records \cup {n} /\ n \notin DOMAIN records
      /\ \A r \in DOMAIN records : r < n /\ r \in Nat
  <2>1. n \in Nat /\ n > 0
    BY <1>1
  <2>2. \A r : r \in 1 .. n <=> r \in 1 .. n - 1 \/ r = n
    BY ONLY <2>1
  <2>3. n \notin 1 .. n - 1 /\ \A r \in 1 .. n - 1 : r < n /\ r \in Nat
    BY ONLY <2>1
  <2> QED BY <1>1, <2>2, <2>3
<1>5. DOMAIN short' = UNION {Index!Fragments(records'[r]) : r \in DOMAIN records'}
  <2>1. \A f : f \in DOMAIN short <=> \E r \in DOMAIN records : f \in Index!Fragments(records[r])
    BY <1>3
  <2>2. \A f : f \in DOMAIN short' <=> \E r \in DOMAIN records' : f \in Index!Fragments(records'[r])
    BY <1>1, <1>2, <1>4, <2>1
  <2> QED BY <2>2
<1>6. ASSUME NEW f \in DOMAIN short PROVE FirstCarrier(short[f], f)'
  <2>1. PICK r \in DOMAIN records : \E o \in Index!Offsets(records[r]) :
          /\ short[f] = <<r, o>> /\ Carries(records[r], o, f)
          /\ \A r2 \in DOMAIN records : \A o2 \in Index!Offsets(records[r2]) :
               Index!Earlier(r2, o2, r, o) => ~Carries(records[r2], o2, f)
    BY <1>3 DEF FirstCarrier
  <2>2. PICK o \in Index!Offsets(records[r]) :
          /\ short[f] = <<r, o>> /\ Carries(records[r], o, f)
          /\ \A r2 \in DOMAIN records : \A o2 \in Index!Offsets(records[r2]) :
               Index!Earlier(r2, o2, r, o) => ~Carries(records[r2], o2, f)
    BY <2>1
  <2>3. \A o2 : ~Index!Earlier(n, o2, r, o)
    BY <1>1, <1>4 DEF Index!Earlier
  <2>4. \A r2 \in DOMAIN records' : \A o2 \in Index!Offsets(records'[r2]) :
          Index!Earlier(r2, o2, r, o) => ~Carries(records'[r2], o2, f)
    BY <1>1, <1>4, <2>2, <2>3
  <2>5. /\ r \in DOMAIN records' /\ o \in Index!Offsets(records'[r])
        /\ Carries(records'[r], o, f) /\ short'[f] = <<r, o>>
    BY <1>1, <1>2, <1>4, <2>2
  <2> QED BY <2>4, <2>5 DEF FirstCarrier
<1>7. ASSUME NEW f \in Index!Fragments(data), f \notin DOMAIN short PROVE FirstCarrier(short[f], f)'
  <2> DEFINE o == Index!FirstOffset(data, f)
  <2>1. /\ o \in Index!Offsets(data) /\ Carries(data, o, f)
        /\ \A p \in Index!Offsets(data) : Carries(data, p, f) => o <= p
    BY <1>1, FirstOffsetIs
  <2>2. short'[f] = <<n, o>>
    BY <1>2, <1>7
  <2> HIDE DEF o
  <2>3. ASSUME NEW r2 \in DOMAIN records', NEW o2 \in Index!Offsets(records'[r2]), Index!Earlier(r2, o2, n, o)
        PROVE  ~Carries(records'[r2], o2, f)
    <3>1. CASE r2 = n
      <4>1. o2 < o /\ o2 \in Index!Offsets(data) /\ o2 \in Int /\ o \in Int
        BY <1>1, <2>1, <2>3, <3>1 DEF Index!Earlier, Index!Offsets
      <4> QED BY <1>1, <2>1, <3>1, <4>1
    <3>2. CASE r2 \in DOMAIN records
      <4>1. f \notin Index!Fragments(records[r2]) /\ Len(f) \in 1 .. ShortMax
        BY <1>1, <1>3, <1>7, <3>2, FragmentIsShort
      <4>2. records'[r2] = records[r2] /\ records[r2] \in Seq(ByteValues)
        BY <1>1, <3>2
      <4> QED BY <4>1, <4>2, <2>3, SuppliesCarried
    <3> QED BY <1>4, <3>1, <3>2
  <2>4. n \in DOMAIN records' /\ o \in Index!Offsets(records'[n]) /\ Carries(records'[n], o, f)
    BY <1>1, <1>4, <2>1
  <2> QED BY <2>2, <2>3, <2>4 DEF FirstCarrier
<1>8. \A f \in DOMAIN short' : FirstCarrier(short[f], f)'
  BY <1>2, <1>6, <1>7
<1> QED BY <1>5, <1>8 DEF ShortFits

\* The fan-out: the points of the new record come behind those known.
LEMMA LongKept ==
  ASSUME IndexInv, NEW data \in Sources, Recorded(data)
  PROVE  LongFits'
<1> DEFINE n == Len(records) + 1
           keys == {Index!Slice(data, o, LongPrefix) : o \in Index!LongOffsets(data)}
           New(key) == {<<n, o>> : o \in {p \in Index!LongOffsets(data) : Index!Slice(data, p, LongPrefix) = key}}
           old(key) == IF key \in DOMAIN long THEN long[key] ELSE <<>>
           new(key) == Index!PointsOf(n, data, key)
<1>1. /\ data \in Seq(ByteValues) /\ n \in Nat /\ n > 0 /\ DOMAIN records = 1 .. n - 1 /\ DOMAIN records' = 1 .. n
      /\ records'[n] = data
      /\ \A r \in DOMAIN records : records'[r] = records[r] /\ records[r] \in Seq(ByteValues) /\ r \in Nat
  BY RecordsAre
<1>2. /\ DOMAIN long' = DOMAIN long \cup keys
      /\ \A key \in DOMAIN long' : long'[key] = old(key) \o new(key)
  BY DEF Recorded, Index!LongWith
<1>3. LongFits
  BY DEF IndexInv
<1> HIDE DEF n
<1>4. /\ DOMAIN records' = DOMAIN records \cup {n} /\ n \notin DOMAIN records
      /\ \A r \in DOMAIN records : r < n /\ r \in Nat
  <2>1. n \in Nat /\ n > 0
    BY <1>1
  <2>2. \A r : r \in 1 .. n <=> r \in 1 .. n - 1 \/ r = n
    BY ONLY <2>1
  <2>3. n \notin 1 .. n - 1 /\ \A r \in 1 .. n - 1 : r < n /\ r \in Nat
    BY ONLY <2>1
  <2> QED BY <1>1, <2>2, <2>3
<1>5. ASSUME NEW key
      PROVE  /\ old(key) \in Seq(Nat \X Nat) /\ Ascending(old(key))
             /\ {old(key)[i] : i \in DOMAIN old(key)} = PointsFor(key)
  <2>1. CASE key \in DOMAIN long
    BY <1>3, <2>1 DEF LongFits
  <2>2. CASE key \notin DOMAIN long
    <3>1. PointsFor(key) = {}
      BY <1>3, <2>2 DEF LongFits, PointsFor
    <3>2. old(key) = <<>> /\ <<>> \in Seq(Nat \X Nat) /\ DOMAIN <<>> = {}
      BY <2>2
    <3> HIDE DEF old
    <3> QED BY <3>1, <3>2 DEF Ascending
  <2> QED BY <2>1, <2>2
<1>6. ASSUME NEW key
      PROVE  /\ new(key) \in Seq(Nat \X Nat) /\ Ascending(new(key))
             /\ {new(key)[i] : i \in DOMAIN new(key)} = New(key)
  BY <1>1, PointsOfIs
<1>7. ASSUME NEW key PROVE PointsFor(key)' = PointsFor(key) \cup New(key)
  <2>1. ASSUME NEW x \in PointsFor(key)' PROVE x \in PointsFor(key) \cup New(key)
    <3>1. /\ x \in Nat \X Nat /\ x = <<x[1], x[2]>> /\ x[1] \in DOMAIN records'
          /\ x[2] \in Index!LongOffsets(records'[x[1]]) /\ Index!Slice(records'[x[1]], x[2], LongPrefix) = key
      BY <2>1 DEF PointsFor
    <3>2. CASE x[1] = n
      BY <1>1, <3>1, <3>2
    <3>3. CASE x[1] \in DOMAIN records
      BY <1>1, <3>1, <3>3 DEF PointsFor
    <3> QED BY <1>4, <3>1, <3>2, <3>3
  <2>2. ASSUME NEW x \in PointsFor(key) PROVE x \in PointsFor(key)'
    BY <1>1, <1>4, <2>2 DEF PointsFor
  <2>3. ASSUME NEW o \in Index!LongOffsets(data), Index!Slice(data, o, LongPrefix) = key
        PROVE  <<n, o>> \in PointsFor(key)'
    <3>1. o \in Nat
      BY DEF Index!LongOffsets, Index!Offsets
    <3> QED BY <1>1, <1>4, <2>3, <3>1 DEF PointsFor
  <2> QED BY <2>1, <2>2, <2>3
<1>8. \A r \in DOMAIN records' : \A o \in Index!LongOffsets(records'[r]) :
        Index!Slice(records'[r], o, LongPrefix) \in DOMAIN long'
  <2>1. \A r \in DOMAIN records : \A o \in Index!LongOffsets(records[r]) :
          Index!Slice(records[r], o, LongPrefix) \in DOMAIN long
    BY <1>3 DEF LongFits
  <2> QED BY <1>1, <1>2, <1>4, <2>1
<1>9. ASSUME NEW key \in DOMAIN long'
      PROVE  /\ long'[key] \in Seq(Nat \X Nat) /\ long'[key] # <<>>
             /\ {long'[key][i] : i \in DOMAIN long'[key]} = PointsFor(key)'
             /\ Ascending(long'[key])
  <2> DEFINE a == old(key)
             b == new(key)
             c == long'[key]
  <2>1. /\ a \in Seq(Nat \X Nat) /\ Ascending(a) /\ {a[i] : i \in DOMAIN a} = PointsFor(key)
        /\ b \in Seq(Nat \X Nat) /\ Ascending(b) /\ {b[i] : i \in DOMAIN b} = New(key)
        /\ c = a \o b
    BY <1>2, <1>5, <1>6
  <2>2. a # <<>> \/ New(key) # {}
    <3>1. CASE key \in DOMAIN long
      BY <1>3, <3>1 DEF LongFits
    <3>2. CASE key \notin DOMAIN long
      <4>1. key \in keys
        BY <1>2, <3>2
      <4> QED BY <4>1
    <3> QED BY <3>1, <3>2
  <2>3. /\ \A i \in DOMAIN a : a[i][1] < n
        /\ \A i \in DOMAIN b : b[i][1] = n
    <3>1. \A x \in PointsFor(key) : x[1] < n
      BY <1>4 DEF PointsFor
    <3>2. \A x \in New(key) : x[1] = n
      OBVIOUS
    <3> HIDE DEF a, b, New
    <3> QED BY <2>1, <3>1, <3>2
  <2>4. PointsFor(key)' = PointsFor(key) \cup New(key)
    BY <1>7
  <2> HIDE DEF a, b, c, New
  <2> DEFINE p == Len(a)
             q == Len(b)
  <2>5. /\ p \in Nat /\ q \in Nat /\ DOMAIN a = 1 .. p /\ DOMAIN b = 1 .. q /\ c \in Seq(Nat \X Nat)
        /\ Len(c) = p + q /\ DOMAIN c = 1 .. p + q
        /\ \A i \in 1 .. p : c[i] = a[i]
        /\ \A i \in 1 .. q : c[p + i] = b[i]
    BY <2>1
  <2> HIDE DEF p, q
  <2>6. \A i \in 1 .. p + q : i \in 1 .. p \/ (i - p \in 1 .. q /\ c[i] = b[i - p])
    <3> TAKE i \in 1 .. p + q
    <3>1. i \in 1 .. p \/ (i - p \in 1 .. q /\ i = p + (i - p))
      BY <2>5
    <3> QED BY <2>5, <3>1
  <2>7. {c[i] : i \in DOMAIN c} = PointsFor(key) \cup New(key)
    <3>1. \A i \in 1 .. p : i \in DOMAIN c
      BY <2>5
    <3>2. \A i \in 1 .. q : p + i \in DOMAIN c
      BY <2>5
    <3>3. \A i \in DOMAIN c : c[i] \in {a[j] : j \in DOMAIN a} \cup {b[j] : j \in DOMAIN b}
      BY <2>5, <2>6
    <3>4. \A j \in DOMAIN a : a[j] \in {c[i] : i \in DOMAIN c}
      BY <2>5, <3>1
    <3>5. \A j \in DOMAIN b : b[j] \in {c[i] : i \in DOMAIN c}
      BY <2>5, <3>2
    <3>6. {c[i] : i \in DOMAIN c} = {a[j] : j \in DOMAIN a} \cup {b[j] : j \in DOMAIN b}
      BY <3>3, <3>4, <3>5
    <3> QED BY <2>1, <3>6
  <2>8. c # <<>>
    <3>1. p + q > 0
      <4>1. CASE a # <<>>
        BY <2>1, <2>5, <4>1 DEF p
      <4>2. CASE New(key) # {}
        <5>1. DOMAIN b # {}
          BY <2>1, <4>2
        <5> QED BY <2>5, <5>1
      <4> QED BY <2>2, <4>1, <4>2
    <3> QED BY <2>5, <3>1
  <2>a. Ascending(a) /\ DOMAIN a = 1 .. p /\ \A i \in 1 .. p : c[i] = a[i]
    BY <2>1, <2>5
  <2>9. ASSUME NEW i \in DOMAIN c, NEW j \in DOMAIN c, i < j
        PROVE  Index!Earlier(c[i][1], c[i][2], c[j][1], c[j][2])
    <3>1. i \in Int /\ j \in Int
      BY <2>5
    <3>2. CASE j \in 1 .. p
      <4>1. i \in 1 .. p
        BY <2>5, <2>9, <3>2
      <4> QED BY <2>9, <2>a, <3>2, <4>1 DEF Ascending
    <3>3. CASE j \notin 1 .. p /\ i \in 1 .. p
      <4>1. j - p \in 1 .. q /\ c[j] = b[j - p] /\ c[i] = a[i]
        BY <2>5, <2>6, <3>3
      <4> QED BY <2>3, <2>5, <3>3, <4>1 DEF Index!Earlier
    <3>4. CASE j \notin 1 .. p /\ i \notin 1 .. p
      <4>1. /\ j - p \in 1 .. q /\ c[j] = b[j - p]
            /\ i - p \in 1 .. q /\ c[i] = b[i - p]
        BY <2>5, <2>6, <3>4
      <4>2. i - p < j - p
        BY <2>5, <2>9, <3>1
      <4>3. Ascending(b) /\ DOMAIN b = 1 .. q
        BY <2>1, <2>5
      <4> QED BY <4>1, <4>2, <4>3 DEF Ascending
    <3> QED BY <3>2, <3>3, <3>4
  <2>10. Ascending(c)
    BY <2>9 DEF Ascending
  <2> QED BY <2>4, <2>5, <2>7, <2>8, <2>10 DEF c
<1> QED BY <1>8, <1>9 DEF LongFits

\* The index begins empty, for any target.
LEMMA IndexBegins == Index!Init => IndexInv
<1> SUFFICES ASSUME Index!Init PROVE IndexInv
  OBVIOUS
<1>1. target \in Seq(ByteValues)
  <2>1. PICK n \in 0 .. MaxTarget : target \in [1 .. n -> ByteValues]
    BY DEF Index!Init
  <2>2. n \in Nat
    BY SearchAssumption DEF Index!IndexAssumption
  <2> QED BY <2>1, <2>2
<1>2. records = <<>> /\ records \in Seq(Sources) /\ DOMAIN records = {}
  BY DEF Index!Init
<1>3. DOMAIN short = {} /\ DOMAIN long = {}
  BY DEF Index!Init
<1> QED BY <1>1, <1>2, <1>3 DEF IndexInv, ShortFits, LongFits

\* Every step of the index keeps the invariant.
LEMMA IndexKept == IndexInv /\ [Index!Next]_(Index!vars) => IndexInv'
<1> SUFFICES ASSUME IndexInv, [Index!Next]_(Index!vars) PROVE IndexInv'
  OBVIOUS
<1>1. CASE Index!AddRecord
  <2>1. PICK data \in Sources : Recorded(data)
    BY <1>1 DEF Index!AddRecord, Recorded
  <2>2. records' \in Seq(Sources) /\ target' \in Seq(ByteValues)
    BY <2>1, RecordsAre DEF Recorded, IndexInv
  <2> QED BY <2>1, <2>2, ShortKept, LongKept DEF IndexInv
<1>2. CASE UNCHANGED <<target, records, short, long>>
  <2>1. target' = target /\ records' = records /\ short' = short /\ long' = long
    BY <1>2
  <2>2. ShortFits'
    BY <2>1 DEF IndexInv, ShortFits, FirstCarrier
  <2>3. ASSUME NEW key PROVE PointsFor(key)' = PointsFor(key)
    BY <2>1 DEF PointsFor
  <2>4. LongFits'
    <3>1. \A r \in DOMAIN records' : \A o \in Index!LongOffsets(records'[r]) :
               Index!Slice(records'[r], o, LongPrefix) \in DOMAIN long'
      BY <2>1 DEF IndexInv, LongFits
    <3>2. ASSUME NEW key \in DOMAIN long'
          PROVE  /\ long'[key] \in Seq(Nat \X Nat) /\ long'[key] # <<>>
                 /\ {long'[key][i] : i \in DOMAIN long'[key]} = PointsFor(key)'
                 /\ Ascending(long'[key])
      BY <2>1, <2>3 DEF IndexInv, LongFits
    <3> QED BY <3>1, <3>2 DEF LongFits
  <2> QED BY <2>1, <2>2, <2>4 DEF IndexInv
<1> QED BY <1>1, <1>2 DEF Index!Next, Index!Ready, Index!Cancel, Index!vars

\* The picker's half of the search leaves the index as it is, and the index's half keeps it.
LEMMA IndexStepKeeps == IndexInv /\ [SearchNext]_all_vars => IndexInv'
<1> SUFFICES ASSUME IndexInv, [SearchNext]_all_vars PROVE IndexInv'
  OBVIOUS
<1>1. CASE Index!Next
  BY <1>1, IndexKept
<1>2. CASE UNCHANGED index_vars
  BY <1>2, IndexKept DEF index_vars, Index!vars
<1> QED BY <1>1, <1>2 DEF SearchNext, InPick, InIndex, all_vars

\* TargetSpecificIndex.candidate answers every question with the longest fragment that an
\* added source really has there, as long as the picker allows, and quotes the first of the
\* sources that have it: for every corpus, target and longest chunk, and for every
\* collision of the prefixes in the fan-out, also when the build was cancelled midway.
THEOREM CandidatesAreFirstLongest == SearchSpec => []CandidateIsFirstLongest
<1>1. SearchInit => IndexInv
  BY IndexBegins DEF SearchInit
<1>2. IndexInv => CandidateIsFirstLongest
  BY CandidatesAreLongest DEF CandidateIsFirstLongest
<1> QED BY <1>1, <1>2, IndexStepKeeps, PTL DEF SearchSpec

\* What the two halves of a search assume of each other holds: in every state the index can
\* reach, the lengths of its answers make a table of matches as PickerAssumption describes
\* it, for every target, corpus and longest chunk.
THEOREM AnswersAreTables == SearchSpec => []TablesFit
<1>1. SearchInit => IndexInv
  BY IndexBegins DEF SearchInit
<1> QED BY <1>1, TablesDoFit, IndexStepKeeps, PTL DEF SearchSpec

=============================================================================
