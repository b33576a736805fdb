--------------------------- MODULE RecipesProofs ---------------------------
(***************************************************************************)
(* What a report says of a recipe, what an accepted recipe rebuilds, and   *)
(* what its two files and the names in them give back, for every source,   *)
(* target, name and list of segments.                                      *)
(*                                                                         *)
(* The resolver looks at the segments in the order of their offsets, one   *)
(* after the other, so its invariant says what the segments it has passed  *)
(* add up to: they are disjoint, they ascend, and the merged runs cover    *)
(* what they cover, until one of them fails.  The lemmas before it are     *)
(* about the sort, about the merge and the holes, which are folds, and     *)
(* about the verifier, which sorts by the offset alone and appends.        *)
(*                                                                         *)
(* Writing the files of a recipe and reading them are folds as well: after *)
(* every segment the reader of what the writer has written so far has the  *)
(* segments before it.  For the theorems about conversions it is enough    *)
(* that what a behaviour converts is of its kind, which every step keeps.  *)
(***************************************************************************)
EXTENDS Recipes, FiniteSetTheorems, SequenceTheorems, WellFoundedInduction, TLAPS

----------------------------------------------------------------------------
(* Induction over the natural numbers, for what is computed in steps.      *)

\* The least of some natural numbers.
LEMMA LeastNat ==
  ASSUME NEW S, S \subseteq Nat, S # {}
  PROVE  \E m \in S : \A k \in S : m <= k
<1>1. PICK m \in S : \A k \in S : ~(<<k, m>> \in OpToRel(<, Nat))
  BY NatLessThanWellFounded, WFMin
<1>2. \A k \in S : k < m => <<k, m>> \in OpToRel(<, Nat)
  BY DEF OpToRel
<1>3. \A k \in S : ~(k < m)
  BY <1>1, <1>2, Zenon
<1>4. QED
  BY <1>3

\* A set of natural numbers that holds 0 and with each number the next one holds all.
LEMMA Induction ==
  ASSUME NEW S, 0 \in S, \A n \in Nat : n \in S => n + 1 \in S
  PROVE  Nat \subseteq S
<1> SUFFICES ASSUME Nat \ S # {} PROVE FALSE
  OBVIOUS
<1>1. PICK m \in Nat \ S : \A k \in Nat \ S : m <= k
  BY LeastNat
<1>2. m # 0
  OBVIOUS
<1>3. m - 1 \in Nat /\ m - 1 \notin S
  BY <1>1, <1>2
<1> QED BY <1>1, <1>3

----------------------------------------------------------------------------
(* Sorting.                                                                *)

\* R orders any two elements of S.
IsOrder(R, S) ==
  /\ \A c \in S : <<c, c>> \notin R
  /\ \A c, d \in S : c # d => <<c, d>> \in R \/ <<d, c>> \in R
  /\ \A c, d, e \in S : <<c, d>> \in R /\ <<d, e>> \in R => <<c, e>> \in R

\* How many elements of S are before each.
RankIn(R, S) == [c \in S |-> Cardinality({d \in S : <<d, c>> \in R})]

\* The elements of an ordered finite set have the ranks from 0 up, in their order.
LEMMA Ranks ==
  ASSUME NEW S, IsFiniteSet(S), NEW R, IsOrder(R, S)
  PROVE  /\ RankIn(R, S) \in Surjection(S, 0 .. Cardinality(S) - 1)
         /\ \A c, d \in S : <<c, d>> \in R => RankIn(R, S)[c] < RankIn(R, S)[d]
<1> DEFINE f == RankIn(R, S)
           n == Cardinality(S)
           T == 0 .. n - 1
           B(c) == {d \in S : <<d, c>> \in R}
<1>1. n \in Nat
  BY FS_CardinalityType
<1>2. \A c \in S : IsFiniteSet(B(c)) /\ Cardinality(B(c)) \in Nat
  BY FS_Subset, FS_CardinalityType
<1>3. ASSUME NEW c \in S PROVE f[c] \in T
  <2>1. B(c) \in SUBSET (S \ {c}) /\ f[c] = Cardinality(B(c))
    BY DEF RankIn, IsOrder
  <2>2. IsFiniteSet(S \ {c}) /\ Cardinality(S \ {c}) = n - 1
    BY FS_RemoveElement
  <2>3. Cardinality(B(c)) \in Nat
    BY <1>2
  <2> HIDE DEF B, n
  <2>4. Cardinality(B(c)) <= n - 1
    BY <2>1, <2>2, FS_Subset
  <2> QED BY <1>1, <2>1, <2>3, <2>4
<1>4. ASSUME NEW c \in S, NEW d \in S, <<c, d>> \in R PROVE f[c] < f[d]
  <2>1. B(c) \in SUBSET (B(d) \ {c}) /\ c \in B(d)
    BY <1>4 DEF IsOrder
  <2>2. IsFiniteSet(B(d) \ {c}) /\ Cardinality(B(d) \ {c}) = Cardinality(B(d)) - 1
    BY <1>2, <2>1, FS_RemoveElement
  <2>3. f[c] = Cardinality(B(c)) /\ f[d] = Cardinality(B(d))
    BY DEF RankIn
  <2>4. Cardinality(B(c)) \in Nat /\ Cardinality(B(d)) \in Nat
    BY <1>2
  <2> HIDE DEF B
  <2>5. Cardinality(B(c)) <= Cardinality(B(d)) - 1
    BY <2>1, <2>2, FS_Subset
  <2> QED BY <2>3, <2>4, <2>5
<1>5. f \in Injection(S, T)
  <2>1. f \in [S -> T]
    BY <1>3 DEF RankIn
  <2>2. \A c \in S : f[c] \in Int
    BY <1>1, <1>3
  <2>3. \A c, d \in S : f[c] = f[d] => c = d
    <3> TAKE c \in S, d \in S
    <3>1. c # d => <<c, d>> \in R \/ <<d, c>> \in R
      BY DEF IsOrder
    <3>2. c # d => f[c] < f[d] \/ f[d] < f[c]
      BY <1>4, <3>1
    <3>3. f[c] \in Int /\ f[d] \in Int
      BY <2>2
    <3> HIDE DEF f
    <3> QED BY <3>2, <3>3
  <2> QED BY <2>1, <2>3 DEF Injection, IsInjective
<1>6. IsFiniteSet(T) /\ Cardinality(T) = n
  <2>1. 0 \in Int /\ n - 1 \in Int /\ (IF 0 > n - 1 THEN 0 ELSE n - 1 - 0 + 1) = n
    BY <1>1
  <2> HIDE DEF n
  <2> QED BY <2>1, FS_Interval
<1>7. f \in Surjection(S, T)
  BY <1>5, <1>6, FS_Injection
<1> QED BY <1>4, <1>7

\* R says of some numbers up to n which are less; the others of them are equals.
IsWeakOrder(R, n) ==
  /\ \A i \in 1 .. n : <<i, i>> \notin R
  /\ \A i, j, k \in 1 .. n : <<i, j>> \in R /\ <<j, k>> \in R => <<i, k>> \in R
  /\ \A i, j, k \in 1 .. n : <<i, k>> \in R => <<i, j>> \in R \/ <<j, k>> \in R

\* The numbers before i: the lesser ones and its lower equals.
Ahead(R, n, i) == {j \in 1 .. n : <<j, i>> \in R \/ (<<i, j>> \notin R /\ j < i)}

\* p lists the numbers up to n, none behind one that is less.
IsSorting(p, n, R) ==
  /\ p \in [1 .. n -> 1 .. n]
  /\ \A i, j \in 1 .. n : i # j => p[i] # p[j]
  /\ \A m \in 1 .. n : \E i \in 1 .. n : p[i] = m
  /\ \A i, j \in 1 .. n : i < j => <<p[j], p[i]>> \notin R

\* Taking for the k-th the one that k - 1 come before of sorts.
LEMMA SortingIs ==
  ASSUME NEW n \in Nat, NEW R, IsWeakOrder(R, n)
  PROVE  /\ \A k \in 1 .. n : \E i \in 1 .. n : Cardinality(Ahead(R, n, i)) = k - 1
         /\ \A p \in [1 .. n -> 1 .. n] :
              (\A k \in 1 .. n : Cardinality(Ahead(R, n, p[k])) = k - 1) => IsSorting(p, n, R)
<1> DEFINE D == 1 .. n
           Q == {x \in D \X D : <<x[1], x[2]>> \in R \/ (<<x[2], x[1]>> \notin R /\ x[1] < x[2])}
           f == RankIn(Q, D)
<1>1. IsFiniteSet(D) /\ Cardinality(D) = n
  <2>1. 1 \in Int /\ n \in Int /\ (IF 1 > n THEN 0 ELSE n - 1 + 1) = n
    OBVIOUS
  <2> QED BY <2>1, FS_Interval
<1>2. \A i, j \in D : <<i, j>> \in Q <=> <<i, j>> \in R \/ (<<j, i>> \notin R /\ i < j)
  OBVIOUS
<1>3. IsOrder(Q, D)
  <2>1. \A i, j \in D : i \in Int /\ (i < j \/ j < i \/ i = j) /\ ~(i < i)
    OBVIOUS
  <2>2. \A i, j, k \in D : i < j /\ j < k => i < k
    OBVIOUS
  <2> HIDE DEF Q
  <2>3. \A i \in D : <<i, i>> \notin Q
    BY <1>2, <2>1 DEF IsWeakOrder
  <2>4. \A i, j \in D : i # j => <<i, j>> \in Q \/ <<j, i>> \in Q
    BY <1>2, <2>1 DEF IsWeakOrder
  <2>5. \A i, j, k \in D : <<i, j>> \in Q /\ <<j, k>> \in Q => <<i, k>> \in Q
    BY <1>2, <2>1, <2>2 DEF IsWeakOrder
  <2> QED BY <2>3, <2>4, <2>5 DEF IsOrder
<1>4. \A i \in D : f[i] = Cardinality(Ahead(R, n, i))
  <2> TAKE i \in D
  <2>1. {j \in D : <<j, i>> \in Q} = Ahead(R, n, i)
    <3> HIDE DEF Q
    <3> QED BY <1>2 DEF Ahead
  <2> HIDE DEF Q
  <2> QED BY <2>1 DEF RankIn
<1> HIDE DEF Q
<1>5. f \in Surjection(D, 0 .. n - 1) /\ \A c, d \in D : <<c, d>> \in Q => f[c] < f[d]
  <2> HIDE DEF D
  <2> QED BY <1>1, <1>3, Ranks
<1> HIDE DEF f
<1>6. \A i \in D : f[i] \in 0 .. n - 1
  BY <1>5 DEF Surjection
<1>7. \A m \in 0 .. n - 1 : \E i \in D : f[i] = m
  BY <1>5 DEF Surjection
<1>8. ASSUME NEW k \in D PROVE \E i \in D : Cardinality(Ahead(R, n, i)) = k - 1
  <2>1. k - 1 \in 0 .. n - 1
    OBVIOUS
  <2> QED BY <1>4, <1>7, <2>1
<1>s1. \A v \in 0 .. n - 1 : \E k \in D : k - 1 = v
  <2> TAKE v \in 0 .. n - 1
  <2>1. v + 1 \in D /\ (v + 1) - 1 = v
    OBVIOUS
  <2> QED BY <2>1
<1>s. SUFFICES ASSUME NEW p \in [D -> D], \A k \in D : Cardinality(Ahead(R, n, p[k])) = k - 1
              PROVE  IsSorting(p, n, R)
  BY <1>8
<1>9. \A k \in D : p[k] \in D /\ f[p[k]] = k - 1
  BY <1>4, <1>s
<1>10. \A i, j \in D : i # j => p[i] # p[j]
  <2>1. \A i, j \in D : i # j => i - 1 # j - 1
    OBVIOUS
  <2> QED BY <1>9, <2>1
<1>11. ASSUME NEW m \in D PROVE \E i \in D : p[i] = m
  <2>1. f[m] \in 0 .. n - 1
    BY <1>6
  <2>2. PICK k \in D : k - 1 = f[m]
    BY <1>s1, <2>1
  <2>3. p[k] \in D /\ f[p[k]] = f[m]
    BY <1>9, <2>2
  <2>4. \A c, d \in D : f[c] = f[d] => c = d
    <3> TAKE c \in D, d \in D
    <3>1. f[c] \in Int /\ f[d] \in Int
      BY <1>6
    <3> HIDE DEF D
    <3>2. c # d => f[c] < f[d] \/ f[d] < f[c]
      BY <1>3, <1>5 DEF IsOrder
    <3> QED BY <3>1, <3>2
  <2> QED BY <2>3, <2>4
<1>12. ASSUME NEW i \in D, NEW j \in D, i < j PROVE <<p[j], p[i]>> \notin R
  <2> SUFFICES ASSUME <<p[j], p[i]>> \in R PROVE FALSE
    OBVIOUS
  <2>1. p[i] \in D /\ p[j] \in D /\ f[p[i]] = i - 1 /\ f[p[j]] = j - 1
    BY <1>9
  <2>2. f[p[j]] < f[p[i]]
    BY <1>2, <1>5, <2>1
  <2> QED BY <1>12, <2>1, <2>2
<1> QED BY <1>10, <1>11, <1>12 DEF IsSorting, D

----------------------------------------------------------------------------
(* Folds.                                                                  *)

\* A set that holds 0 and with each number below n the next one holds all up to n.
LEMMA InductionTo ==
  ASSUME NEW n \in Nat, NEW S, 0 \in S, \A k \in 0 .. n - 1 : k \in S => k + 1 \in S
  PROVE  \A k \in 0 .. n : k \in S
<1> DEFINE W == {k \in Nat : k <= n => k \in S}
<1>1. 0 \in W
  OBVIOUS
<1>2. ASSUME NEW k \in Nat, k \in W PROVE k + 1 \in W
  <2>1. k + 1 <= n => k \in 0 .. n - 1
    OBVIOUS
  <2> QED BY <1>2, <2>1
<1> HIDE DEF W
<1>3. Nat \subseteq W
  BY <1>1, <1>2, Induction
<1> QED BY <1>3 DEF W

\* The greatest of some numbers up to n; of all of them it is n.
LEMMA GreatestIs ==
  ASSUME NEW n \in Nat
  PROVE  /\ \A T \in SUBSET (1 .. n) : T # {} => Max(T) \in T /\ \A y \in T : y <= Max(T)
         /\ \A T \in SUBSET (1 .. n) : n \in T => Max(T) = n
         /\ n > 0 => 1 .. n # {} /\ Max(1 .. n) = n /\ (1 .. n) \ {n} = 1 .. n - 1
<1>1. ASSUME NEW T \in SUBSET (1 .. n), T # {} PROVE Max(T) \in T /\ \A y \in T : y <= Max(T)
  <2> DEFINE U == {n - y : y \in T}
  <2>1. U \subseteq Nat /\ U # {}
    <3>1. PICK y \in T : TRUE
      BY <1>1
    <3>2. n - y \in U
      OBVIOUS
    <3>3. \A z \in T : n - z \in Nat
      OBVIOUS
    <3>4. \A v \in U : \E z \in T : v = n - z
      OBVIOUS
    <3>5. U # {}
      BY <3>2
    <3>6. U \subseteq Nat
      BY <3>3, <3>4
    <3> QED BY <3>5, <3>6
  <2> HIDE DEF U
  <2>2. PICK u \in U : \A v \in U : u <= v
    BY <2>1, LeastNat
  <2>3. PICK x \in T : u = n - x
    BY <2>2 DEF U
  <2>4. \A y \in T : n - y \in U /\ y \in Int /\ x \in Int
    BY DEF U
  <2>5. \A y \in T : x >= y
    BY <2>2, <2>3, <2>4
  <2>6. Max(T) \in T /\ \A y \in T : Max(T) >= y
    BY <2>5, Zenon DEF Max
  <2>7. \A y \in T : y \in Int
    OBVIOUS
  <2> QED BY <2>6, <2>7
<1>2. ASSUME NEW T \in SUBSET (1 .. n), n \in T PROVE Max(T) = n
  <2>1. Max(T) \in T /\ \A y \in T : y <= Max(T)
    BY <1>1, <1>2
  <2>2. Max(T) \in 1 .. n /\ n <= Max(T)
    BY <1>2, <2>1
  <2> QED BY <2>2
<1>3. n > 0 => 1 .. n \in SUBSET (1 .. n) /\ n \in 1 .. n /\ (1 .. n) \ {n} = 1 .. n - 1
  OBVIOUS
<1>4. n > 0 => Max(1 .. n) = n
  BY <1>2, <1>3
<1> QED BY <1>1, <1>2, <1>3, <1>4

\* g folds step over the numbers up to n: the greatest of a set is taken last.
Folds(g, n, base, step) ==
  g = [T \in SUBSET (1 .. n) |-> IF T = {} THEN base ELSE step[<<Max(T), g[T \ {Max(T)}]>>]]

\* There is a fold of every step, so the CHOOSE of a FoldLeft finds one.
LEMMA FoldsExist ==
  ASSUME NEW n \in Nat, NEW A, NEW base \in A, NEW step \in [(1 .. n) \X A -> A]
  PROVE  \E g \in [SUBSET (1 .. n) -> A] : Folds(g, n, base, step)
<1> DEFINE Has(m) == \E g \in [SUBSET (1 .. m) -> A] : Folds(g, m, base, step)
           W == {m \in Nat : Has(m)}
<1>1. 0 \in W
  <2>1. SUBSET (1 .. 0) = {{}}
    OBVIOUS
  <2> DEFINE g == [T \in SUBSET (1 .. 0) |-> base]
  <2>2. g \in [SUBSET (1 .. 0) -> A] /\ Folds(g, 0, base, step)
    BY <2>1 DEF Folds
  <2> QED BY <2>2
<1>2. ASSUME NEW m \in 0 .. n - 1, m \in W PROVE m + 1 \in W
  <2>1. PICK g \in [SUBSET (1 .. m) -> A] : Folds(g, m, base, step)
    BY <1>2
  <2> DEFINE k == m + 1
             D == SUBSET (1 .. m)
             E == SUBSET (1 .. k)
             h == [T \in E |-> IF k \in T THEN step[<<k, g[T \ {k}]>>] ELSE g[T]]
  <2>2. k \in Nat /\ k \in 1 .. n /\ m \in Nat
    OBVIOUS
  <2>3. \A T \in E : (k \in T => T \ {k} \in D) /\ (k \notin T => T \in D)
    OBVIOUS
  <2>4. \A T \in D : T \in E /\ k \notin T
    OBVIOUS
  <2>5. \A T \in D : g[T] = IF T = {} THEN base ELSE step[<<Max(T), g[T \ {Max(T)}]>>]
    BY <2>1 DEF Folds
  <2> HIDE DEF D, E, k
  <2>6. \A T \in E : h[T] \in A
    BY <2>1, <2>2, <2>3 DEF D
  <2>7. h \in [E -> A]
    BY <2>6
  <2>8. \A T \in D : h[T] = g[T]
    BY <2>4
  <2>9. ASSUME NEW T \in E
        PROVE  h[T] = IF T = {} THEN base ELSE step[<<Max(T), h[T \ {Max(T)}]>>]
    <3>1. CASE k \in T
      <4>1. Max(T) = k
        BY <2>2, <3>1, GreatestIs DEF E
      <4>2. h[T \ {k}] = g[T \ {k}]
        BY <2>3, <2>8, <3>1
      <4> QED BY <3>1, <4>1, <4>2
    <3>2. CASE k \notin T
      <4>1. T \in D /\ h[T] = g[T]
        BY <2>3, <3>2
      <4>2. T \ {Max(T)} \in D
        BY <4>1 DEF D
      <4>3. h[T \ {Max(T)}] = g[T \ {Max(T)}]
        BY <2>8, <4>2
      <4> QED BY <2>5, <4>1, <4>3
    <3> QED BY <3>1, <3>2
  <2>10. h = [T \in E |-> h[T]]
    OBVIOUS
  <2> HIDE DEF h
  <2>11. Folds(h, k, base, step)
    BY <2>9, <2>10 DEF Folds, E
  <2> QED BY <2>2, <2>7, <2>11 DEF E, k
<1> HIDE DEF W
<1>3. \A m \in 0 .. n : m \in W
  BY <1>1, <1>2, InductionTo
<1>4. n \in W
  BY <1>3
<1> QED BY <1>4 DEF W

\* The sets a fold goes through.
LEMMA UpToIs ==
  ASSUME NEW n \in Nat, NEW k \in 1 .. n
  PROVE  /\ 1 .. k \in SUBSET (1 .. n) /\ 1 .. k # {}
         /\ Max(1 .. k) = k /\ (1 .. k) \ {k} = 1 .. k - 1
<1>1. k \in Nat /\ k > 0 /\ 1 .. k \in SUBSET (1 .. n)
  OBVIOUS
<1>2. k > 0 => 1 .. k # {} /\ Max(1 .. k) = k /\ (1 .. k) \ {k} = 1 .. k - 1
  BY GreatestIs, SMTT(30)
<1> QED BY <1>1, <1>2

----------------------------------------------------------------------------
(* The segments of a recipe in the order of their target offsets.          *)

RecipeTyped == full \in BOOLEAN /\ total \in Nat /\ segs \in Seq(Segments)

\* Segments have whole numbers.
LEMMA SegmentIs ==
  ASSUME NEW s \in Segments
  PROVE  s.at \in Int /\ s.len \in Int /\ s.from \in Int /\ End(s) \in Int /\ End(s) = s.at + s.len
BY RecipeAssumption DEF End

\* p lists every number up to n once.
IsListing(p, n) ==
  /\ p \in [1 .. n -> 1 .. n]
  /\ \A i, j \in 1 .. n : i # j => p[i] # p[j]
  /\ \A m \in 1 .. n : \E i \in 1 .. n : p[i] = m

\* list has the segments of the recipe in the order of their target offsets.
IsArranged(list) ==
  /\ \E p : IsListing(p, Len(segs)) /\ list = [k \in 1 .. Len(segs) |-> segs[p[k]]]
  /\ \A i, j \in 1 .. Len(segs) : i < j => list[i].at <= list[j].at

\* An order of places that says which target offsets are less sorts the segments.
LEMMA AscendingArranges ==
  ASSUME RecipeTyped, NEW R, IsWeakOrder(R, Len(segs)),
         \A i, j \in 1 .. Len(segs) : segs[i].at < segs[j].at => <<i, j>> \in R,
         NEW p \in [1 .. Len(segs) -> 1 .. Len(segs)],
         \A k \in 1 .. Len(segs) : Cardinality(Ahead(R, Len(segs), p[k])) = k - 1
  PROVE  IsArranged([k \in 1 .. Len(segs) |-> segs[p[k]]])
<1> DEFINE n == Len(segs)
           list == [k \in 1 .. n |-> segs[p[k]]]
<1>1. n \in Nat /\ \A i \in 1 .. n : segs[i] \in Segments
  BY DEF RecipeTyped
<1> HIDE DEF n
<1>2. IsSorting(p, n, R)
  BY <1>1, SortingIs DEF n
<1>3. IsListing(p, n)
  BY <1>2 DEF IsSorting, IsListing
<1>4. ASSUME NEW i \in 1 .. n, NEW j \in 1 .. n, i < j PROVE list[i].at <= list[j].at
  <2>1. p[i] \in 1 .. n /\ p[j] \in 1 .. n /\ <<p[j], p[i]>> \notin R
    BY <1>2, <1>4 DEF IsSorting
  <2>2. ~(segs[p[j]].at < segs[p[i]].at)
    BY <2>1 DEF n
  <2>3. segs[p[j]].at \in Int /\ segs[p[i]].at \in Int
    BY <1>1, <2>1, SegmentIs
  <2> QED BY <2>2, <2>3
<1> QED BY <1>3, <1>4 DEF IsArranged, n

\* The resolver and the streams look at the segments in that order.
LEMMA SortedIs == ASSUME RecipeTyped PROVE IsArranged(Sorted(segs))
<1> DEFINE n == Len(segs)
           D == 1 .. n
           Less(s, t) == s.at < t.at \/ (s.at = t.at /\ s.from < t.from)
<1>1. n \in Nat /\ DOMAIN segs = D /\ segs \in [D -> Segments]
  BY DEF RecipeTyped
<1>2. \A i \in D : segs[i] \in Segments /\ segs[i].at \in Int /\ segs[i].from \in Int
  BY <1>1, SegmentIs
<1>3. CASE \A i \in 1 .. n - 1 : segs[i].at <= segs[i + 1].at
  <2>1. Sorted(segs) = segs
    BY <1>3 DEF Sorted
  <2> DEFINE p == [k \in D |-> k]
  <2>2. IsListing(p, n)
    BY DEF IsListing
  <2>3. segs = [k \in D |-> segs[p[k]]]
    BY <1>1
  <2>4. ASSUME NEW i \in D PROVE \A j \in D : i <= j => segs[i].at <= segs[j].at
    <3> DEFINE W == {d \in Nat : i + d <= n => segs[i].at <= segs[i + d].at}
    <3>1. 0 \in W
      BY <1>2
    <3>2. ASSUME NEW d \in Nat, d \in W PROVE d + 1 \in W
      <4> SUFFICES ASSUME i + (d + 1) <= n PROVE segs[i].at <= segs[i + (d + 1)].at
        BY DEF W
      <4>1. PICK k : k = i + d
        OBVIOUS
      <4>2. k \in 1 .. n - 1 /\ k \in D /\ k + 1 \in D /\ i + (d + 1) = k + 1 /\ i + d <= n
        BY <1>1, <4>1
      <4>3. segs[i].at <= segs[k].at /\ segs[k].at <= segs[k + 1].at
        BY <1>3, <3>2, <4>1, <4>2
      <4>4. segs[i].at \in Int /\ segs[k].at \in Int /\ segs[k + 1].at \in Int
        BY <1>2, <4>2
      <4>5. segs[i].at <= segs[k + 1].at
        BY <4>3, <4>4
      <4> QED BY <4>2, <4>5
    <3> HIDE DEF W
    <3>3. Nat \subseteq W
      BY <3>1, <3>2, Induction
    <3> SUFFICES ASSUME NEW j \in D, i <= j PROVE segs[i].at <= segs[j].at
      OBVIOUS
    <3>4. j - i \in Nat /\ i + (j - i) = j /\ j <= n
      BY <1>1
    <3>5. j - i \in W
      BY <3>3, <3>4
    <3>6. i + (j - i) <= n => segs[i].at <= segs[i + (j - i)].at
      BY <3>5 DEF W
    <3> QED BY <3>4, <3>6
  <2>5. \A i, j \in D : i < j => segs[i].at <= segs[j].at
    BY <2>4
  <2> HIDE DEF p
  <2> QED BY <2>1, <2>2, <2>3, <2>5 DEF IsArranged
<1>4. CASE ~\A i \in 1 .. n - 1 : segs[i].at <= segs[i + 1].at
  <2> DEFINE R == {x \in D \X D : Less(segs[x[1]], segs[x[2]])}
             Before(i) == {j \in D : Less(segs[j], segs[i]) \/ (~Less(segs[i], segs[j]) /\ j < i)}
             p == [k \in D |-> CHOOSE i \in D : Cardinality(Before(i)) = k - 1]
  <2>1. \A i, j \in D : <<i, j>> \in R <=> Less(segs[i], segs[j])
    OBVIOUS
  <2>2. Sorted(segs) = [k \in D |-> segs[p[k]]]
    <3>1. Sorted(segs) = [k \in D |-> segs[CHOOSE i \in D : Cardinality(Before(i)) = k - 1]]
      BY <1>1, <1>4 DEF Sorted, Ascending
    <3> QED BY <3>1
  <2> HIDE DEF R
  <2>3. \A i \in D : Before(i) = Ahead(R, n, i)
    BY <2>1 DEF Ahead
  <2>4. IsWeakOrder(R, n)
    <3>1. \A i \in D : ~Less(segs[i], segs[i])
      BY <1>2
    <3>2. \A i, j, k \in D : Less(segs[i], segs[j]) /\ Less(segs[j], segs[k]) => Less(segs[i], segs[k])
      BY <1>2
    <3>3. \A i, j, k \in D : Less(segs[i], segs[k]) => Less(segs[i], segs[j]) \/ Less(segs[j], segs[k])
      BY <1>2
    <3> HIDE DEF Less
    <3> QED BY <2>1, <3>1, <3>2, <3>3 DEF IsWeakOrder
  <2>5. \A i, j \in D : segs[i].at < segs[j].at => <<i, j>> \in R
    BY <2>1
  <2> HIDE DEF Before
  <2>6. \A k \in D : \E i \in D : Cardinality(Before(i)) = k - 1
    <3>1. \A k \in D : \E i \in D : Cardinality(Ahead(R, n, i)) = k - 1
      BY <1>1, <2>4, SortingIs
    <3> QED BY <2>3, <3>1
  <2>7. \A k \in D : p[k] \in D /\ Cardinality(Before(p[k])) = k - 1
    BY <2>6
  <2>8. p \in [D -> D] /\ \A k \in D : Cardinality(Ahead(R, n, p[k])) = k - 1
    <3>1. p \in [D -> D]
      BY <2>7
    <3> HIDE DEF p
    <3> QED BY <2>3, <2>7, <3>1
  <2> HIDE DEF p
  <2>9. IsArranged([k \in D |-> segs[p[k]]])
    BY <2>4, <2>5, <2>8, AscendingArranges
  <2> QED BY <2>2, <2>9
<1> QED BY <1>3, <1>4

\* So does the verifier.
LEMMA VerifierOrderIs == ASSUME RecipeTyped PROVE IsArranged(VerifierOrder)
<1> DEFINE n == Len(segs)
           D == 1 .. n
           Less(s, t) == s.at < t.at
           R == {x \in D \X D : Less(segs[x[1]], segs[x[2]])}
           Before(i) == {j \in D : Less(segs[j], segs[i]) \/ (~Less(segs[i], segs[j]) /\ j < i)}
           p == [k \in D |-> CHOOSE i \in D : Cardinality(Before(i)) = k - 1]
<1>1. n \in Nat /\ DOMAIN segs = D
  BY DEF RecipeTyped
<1>2. \A i \in D : segs[i].at \in Int
  BY SegmentIs DEF RecipeTyped
<1>3. \A i, j \in D : <<i, j>> \in R <=> segs[i].at < segs[j].at
  OBVIOUS
<1>4. VerifierOrder = [k \in D |-> segs[p[k]]]
  <2>1. VerifierOrder = [k \in D |-> segs[CHOOSE i \in D : Cardinality(Before(i)) = k - 1]]
    BY <1>1 DEF VerifierOrder, Ascending
  <2> QED BY <2>1
<1> HIDE DEF R
<1>5. \A i \in D : Before(i) = Ahead(R, n, i)
  BY <1>3 DEF Ahead
<1>6. IsWeakOrder(R, n)
  BY <1>2, <1>3, SMTT(30) DEF IsWeakOrder
<1> HIDE DEF Before
<1>7. \A k \in D : \E i \in D : Cardinality(Before(i)) = k - 1
  <2>1. \A k \in D : \E i \in D : Cardinality(Ahead(R, n, i)) = k - 1
    BY <1>1, <1>6, SortingIs
  <2> QED BY <1>5, <2>1
<1>8. \A k \in D : p[k] \in D /\ Cardinality(Before(p[k])) = k - 1
  BY <1>7
<1>9. p \in [D -> D] /\ \A k \in D : Cardinality(Ahead(R, n, p[k])) = k - 1
  <2>1. p \in [D -> D]
    BY <1>8
  <2> HIDE DEF p
  <2> QED BY <1>5, <1>8, <2>1
<1> HIDE DEF p
<1>10. \A i, j \in D : segs[i].at < segs[j].at => <<i, j>> \in R
  BY <1>3
<1>11. IsArranged([k \in D |-> segs[p[k]]])
  BY <1>6, <1>9, <1>10, AscendingArranges
<1> QED BY <1>4, <1>11

----------------------------------------------------------------------------
(* Sound recipes.                                                          *)

\* Where the first k segments of a list end.
EndAt(list, k) == IF k = 0 THEN 0 ELSE End(list[k])

\* The k-th segment goes on where the one before it ends, or in a proof behind it.
GoodAt(list, k) ==
  /\ InSource(list[k]) /\ InTarget(list[k])
  /\ IF full THEN list[k].at = EndAt(list, k - 1) ELSE list[k].at >= EndAt(list, k - 1)

\* The arranged segments are those of the recipe.
LEMMA ArrangedIs ==
  ASSUME RecipeTyped, NEW list, IsArranged(list)
  PROVE  /\ Len(segs) \in Nat /\ list \in [1 .. Len(segs) -> Segments]
         /\ Listed = {list[k] : k \in 1 .. Len(segs)}
         /\ (\A i, k \in 1 .. Len(segs) : i # k => Bytes(list[i]) \cap Bytes(list[k]) = {})
              <=> \A i, k \in DOMAIN segs : i # k => Bytes(segs[i]) \cap Bytes(segs[k]) = {}
<1> DEFINE n == Len(segs)
           D == 1 .. n
<1>1. n \in Nat /\ DOMAIN segs = D /\ segs \in [D -> Segments]
  BY DEF RecipeTyped
<1>2. PICK p : IsListing(p, n) /\ list = [k \in D |-> segs[p[k]]]
  BY DEF IsArranged
<1> HIDE DEF D, n
<1>3. /\ p \in [D -> D]
      /\ \A i, j \in D : i # j => p[i] # p[j]
      /\ \A m \in D : \E i \in D : p[i] = m
  BY <1>2 DEF IsListing, D
<1>4. \A k \in D : p[k] \in D /\ list[k] = segs[p[k]]
  BY <1>2, <1>3
<1>5. list \in [D -> Segments]
  BY <1>1, <1>2, <1>3
<1>6. Listed = {list[k] : k \in D}
  <2>1. Listed = {segs[k] : k \in D}
    BY <1>1 DEF Listed, ToSet
  <2> QED BY <1>3, <1>4, <2>1
<1> DEFINE Apart(s, t) == Bytes(s) \cap Bytes(t) = {}
<1> HIDE DEF Apart
<1>7. (\A i, k \in D : i # k => Apart(list[i], list[k]))
        <=> \A i, k \in D : i # k => Apart(segs[i], segs[k])
  <2>1. ASSUME \A i, k \in D : i # k => Apart(segs[i], segs[k]), NEW i \in D, NEW k \in D, i # k
        PROVE  Apart(list[i], list[k])
    BY <1>3, <1>4, <2>1
  <2>2. ASSUME \A i, k \in D : i # k => Apart(list[i], list[k]), NEW i \in D, NEW k \in D, i # k
        PROVE  Apart(segs[i], segs[k])
    <3>1. PICK a \in D : p[a] = i
      BY <1>3
    <3>2. PICK b \in D : p[b] = k
      BY <1>3
    <3>3. a # b
      BY <2>2, <3>1, <3>2
    <3> QED BY <1>4, <2>2, <3>1, <3>2, <3>3
  <2> QED BY <2>1, <2>2
<1> QED BY <1>1, <1>5, <1>6, <1>7 DEF Apart, n, D

\* The first segments of a list that goes on as it should are in order, end in the
\* target, and in a full recipe cover everything before their end.
LEMMA ChainIs ==
  ASSUME RecipeTyped, NEW n \in Nat, NEW list \in [1 .. n -> Segments],
         \A k \in 1 .. n : GoodAt(list, k)
  PROVE  /\ \A i, k \in 1 .. n : i < k => End(list[i]) <= list[k].at
         /\ EndAt(list, n) \in 0 .. total
         /\ full => \A b \in 0 .. EndAt(list, n) - 1 : \E k \in 1 .. n : b \in Bytes(list[k])
<1> DEFINE D == 1 .. n
           E(k) == EndAt(list, k)
<1>1. \A k \in D : /\ list[k].at \in Int /\ list[k].len \in Int /\ list[k].len > 0
                   /\ list[k].at >= 0 /\ E(k) = End(list[k]) /\ E(k) \in Int
                   /\ E(k) = list[k].at + list[k].len /\ E(k) <= total
                   /\ list[k].at >= E(k - 1) /\ (full => list[k].at = E(k - 1))
  <2> TAKE k \in D
  <2>1. list[k] \in Segments /\ k # 0
    OBVIOUS
  <2>2. /\ list[k].at \in Int /\ list[k].len \in Int
        /\ End(list[k]) \in Int /\ End(list[k]) = list[k].at + list[k].len
    BY <2>1, SegmentIs
  <2>3. E(k) = End(list[k])
    BY <2>1 DEF EndAt
  <2>4. list[k].len > 0 /\ list[k].at >= 0 /\ End(list[k]) <= total
    BY DEF GoodAt, InSource, InTarget
  <2>5. /\ ~full => list[k].at >= E(k - 1)
        /\ full => list[k].at = E(k - 1)
    BY DEF GoodAt
  <2> HIDE DEF E
  <2> QED BY <2>2, <2>3, <2>4, <2>5
<1>2. E(0) = 0 /\ total \in Nat
  BY DEF EndAt, RecipeTyped
<1> HIDE DEF E
<1> DEFINE W == {m \in Nat : /\ \A i \in 1 .. m : E(i) <= E(m)
                             /\ \A i, k \in 1 .. m : i < k => E(i) <= list[k].at
                             /\ E(m) \in 0 .. total
                             /\ full => \A b \in 0 .. E(m) - 1 :
                                          \E k \in 1 .. m : b \in Bytes(list[k])}
<1>3. 0 \in W
  BY <1>2
<1>4. ASSUME NEW m \in 0 .. n - 1, m \in W PROVE m + 1 \in W
  <2>1. PICK j : j = m + 1
    OBVIOUS
  <2>2. j \in D /\ j - 1 = m /\ m \in Nat /\ j \in Nat
    BY <2>1
  <2>3. /\ list[j].at \in Int /\ list[j].len \in Int /\ list[j].len > 0 /\ list[j].at >= 0
        /\ E(j) \in Int /\ E(j) = list[j].at + list[j].len /\ E(j) <= total
        /\ list[j].at >= E(m) /\ (full => list[j].at = E(m)) /\ E(j) = End(list[j])
    BY <1>1, <2>2
  <2>4. /\ \A i \in 1 .. m : E(i) <= E(m)
        /\ \A i, k \in 1 .. m : i < k => E(i) <= list[k].at
        /\ E(m) \in 0 .. total
        /\ full => \A b \in 0 .. E(m) - 1 : \E k \in 1 .. m : b \in Bytes(list[k])
    BY <1>4
  <2> HIDE DEF W
  <2>5. \A i \in 1 .. j : i \in 1 .. m \/ i = j
    BY <2>1, <2>2
  <2>6. \A i \in 1 .. m : E(i) \in Int /\ i \in 1 .. j
    <3>1. \A i \in 1 .. m : i \in D /\ i \in 1 .. j
      BY <2>1, <2>2
    <3> QED BY <1>1, <3>1
  <2>7. \A i \in 1 .. m : E(i) <= list[j].at
    BY <1>2, <2>3, <2>4, <2>6
  <2>8. \A i \in 1 .. j : E(i) <= E(j)
    BY <2>3, <2>5, <2>6, <2>7
  <2>9. \A i, k \in 1 .. j : i < k => E(i) <= list[k].at
    <3> TAKE i \in 1 .. j, k \in 1 .. j
    <3>1. i \in Int /\ k \in Int /\ (i < k => i # j)
      BY <2>2
    <3> QED BY <2>4, <2>5, <2>7, <3>1
  <2>10. E(j) \in 0 .. total
    BY <1>2, <2>3
  <2>11. ASSUME full, NEW b \in 0 .. E(j) - 1 PROVE \E k \in 1 .. j : b \in Bytes(list[k])
    <3>1. b \in Int /\ b >= 0 /\ b <= E(j) - 1
      BY <2>3
    <3>2. CASE b < E(m)
      <4>1. b \in 0 .. E(m) - 1
        BY <1>2, <2>4, <3>1, <3>2
      <4> QED BY <2>4, <2>6, <2>11, <4>1
    <3>3. CASE ~(b < E(m))
      <4>1. j \in 1 .. j /\ b >= list[j].at
        BY <1>2, <2>2, <2>3, <2>4, <2>11, <3>1, <3>3
      <4>2. b \in Bytes(list[j])
        BY <2>3, <3>1, <4>1 DEF Bytes
      <4> QED BY <4>1, <4>2
    <3> QED BY <3>2, <3>3
  <2>12. j \in W
    BY <2>2, <2>8, <2>9, <2>10, <2>11 DEF W
  <2> QED BY <2>1, <2>12
<1> HIDE DEF W
<1>5. \A m \in 0 .. n : m \in W
  BY <1>3, <1>4, InductionTo
<1>6. n \in W
  BY <1>5
<1>7. /\ \A i, k \in D : i < k => E(i) <= list[k].at
      /\ E(n) \in 0 .. total
      /\ full => \A b \in 0 .. E(n) - 1 : \E k \in D : b \in Bytes(list[k])
  BY <1>6 DEF W
<1>8. \A i \in D : E(i) = End(list[i])
  BY <1>1
<1> QED BY <1>7, <1>8 DEF E

\* A recipe is sound exactly when its arranged segments go on as they should, in a full
\* recipe to the end of the target.
LEMMA SoundIs ==
  ASSUME RecipeTyped, NEW list, IsArranged(list)
  PROVE  Sound <=> /\ \A k \in 1 .. Len(segs) : GoodAt(list, k)
                   /\ full => EndAt(list, Len(segs)) = total
<1> DEFINE n == Len(segs)
           D == 1 .. n
           Apart == \A i, k \in D : i # k => Bytes(list[i]) \cap Bytes(list[k]) = {}
           Whole == full => \A b \in 0 .. total - 1 : \E k \in D : b \in Bytes(list[k])
           Within == \A k \in D : InSource(list[k]) /\ InTarget(list[k])
<1>1. /\ n \in Nat /\ list \in [D -> Segments]
      /\ Listed = {list[k] : k \in D}
      /\ Apart <=> \A i, k \in DOMAIN segs : i # k => Bytes(segs[i]) \cap Bytes(segs[k]) = {}
  BY ArrangedIs
<1>2. total \in Nat /\ full \in BOOLEAN
  BY DEF RecipeTyped
<1>3. \A i, k \in D : i < k => list[i].at <= list[k].at
  BY DEF IsArranged
<1> HIDE DEF D, n
<1>4. \A k \in D : /\ list[k].at \in Int /\ list[k].len \in Int /\ End(list[k]) \in Int
                   /\ End(list[k]) = list[k].at + list[k].len
  BY <1>1, SegmentIs
<1>5. Within => \A k \in D : /\ list[k].len > 0 /\ list[k].at >= 0 /\ End(list[k]) <= total
                             /\ \A b \in Bytes(list[k]) : b \in 0 .. total - 1
  <2> SUFFICES ASSUME Within, NEW k \in D
               PROVE  /\ list[k].len > 0 /\ list[k].at >= 0 /\ End(list[k]) <= total
                      /\ \A b \in Bytes(list[k]) : b \in 0 .. total - 1
    OBVIOUS
  <2>1. list[k].len > 0 /\ list[k].at >= 0 /\ End(list[k]) <= total
    BY DEF InSource, InTarget
  <2> QED BY <1>2, <1>4, <2>1 DEF Bytes
<1>6. Sound <=> Within /\ Apart /\ Whole
  <2>1. (\A s \in Listed : InSource(s) /\ InTarget(s)) <=> Within
    BY <1>1
  <2>2. UNION {Bytes(s) : s \in Listed} = UNION {Bytes(list[k]) : k \in D}
    BY <1>1
  <2>3. Within => (UNION {Bytes(list[k]) : k \in D} = 0 .. total - 1
                     <=> \A b \in 0 .. total - 1 : \E k \in D : b \in Bytes(list[k]))
    <3> SUFFICES ASSUME Within
                 PROVE  UNION {Bytes(list[k]) : k \in D} = 0 .. total - 1
                          <=> \A b \in 0 .. total - 1 : \E k \in D : b \in Bytes(list[k])
      OBVIOUS
    <3>1. \A k \in D : \A b \in Bytes(list[k]) : b \in 0 .. total - 1
      BY <1>5
    <3> DEFINE Target == 0 .. total - 1
               C(k) == Bytes(list[k])
    <3> HIDE DEF Target, C, Within
    <3>2. UNION {C(k) : k \in D} = Target <=> \A b \in Target : \E k \in D : b \in C(k)
      BY <3>1 DEF Target, C
    <3> QED BY <3>2 DEF Target, C
  <2> HIDE DEF Within, Apart
  <2> QED BY <1>1, <2>1, <2>2, <2>3 DEF Sound
<1>7. ASSUME \A k \in D : GoodAt(list, k), full => EndAt(list, n) = total
      PROVE  Within /\ Apart /\ Whole
  <2>1. Within
    BY <1>7 DEF GoodAt
  <2>2. /\ \A i, k \in D : i < k => End(list[i]) <= list[k].at
        /\ full => \A b \in 0 .. EndAt(list, n) - 1 : \E k \in D : b \in Bytes(list[k])
    BY <1>1, <1>7, ChainIs DEF D
  <2>3. \A i, k \in D : i < k => Bytes(list[i]) \cap Bytes(list[k]) = {}
    <3> TAKE i \in D, k \in D
    <3>1. /\ list[i].at \in Int /\ End(list[i]) \in Int /\ list[k].at \in Int /\ End(list[k]) \in Int
          /\ i < k => End(list[i]) <= list[k].at
      BY <1>4, <2>2
    <3> QED BY <3>1 DEF Bytes
  <2>4. \A i, k \in D : i # k => i < k \/ k < i
    BY <1>1 DEF D
  <2>5. Apart
    BY <2>3, <2>4
  <2> QED BY <1>7, <2>1, <2>2, <2>5
<1>8. ASSUME Within, Apart, Whole
      PROVE  (\A k \in D : GoodAt(list, k)) /\ (full => EndAt(list, n) = total)
  <2>1. \A k \in D : list[k].len > 0 /\ list[k].at >= 0 /\ End(list[k]) <= total
    BY <1>5, <1>8
  <2>2. ASSUME NEW i \in D, NEW k \in D, i < k PROVE End(list[i]) <= list[k].at
    <3>1. i # k
      BY <1>1, <2>2 DEF D
    <3>2. Bytes(list[i]) \cap Bytes(list[k]) = {}
      BY <1>8, <3>1
    <3>3. list[i].at <= list[k].at
      BY <1>3, <2>2
    <3>4. list[k].at \in Bytes(list[k])
      BY <1>4, <2>1 DEF Bytes
    <3>5. list[k].at \notin Bytes(list[i])
      BY <3>2, <3>4
    <3> QED BY <1>4, <3>3, <3>5 DEF Bytes
  <2>3. \A k \in 0 .. n : EndAt(list, k) \in 0 .. total
    BY <1>1, <1>2, <1>4, <2>1 DEF EndAt, D
  <2>4. \A k \in 0 .. n : \A j \in D : j <= k => End(list[j]) <= EndAt(list, k)
    <3> TAKE k \in 0 .. n
    <3> TAKE j \in D
    <3>1. CASE j = k
      BY <1>1, <1>4, <3>1 DEF EndAt, D
    <3>2. CASE j < k
      <4>1. k \in D /\ k # 0
        BY <1>1, <3>2 DEF D
      <4>2. End(list[j]) <= list[k].at /\ list[k].at < End(list[k])
        BY <1>4, <2>1, <2>2, <3>2, <4>1
      <4> QED BY <1>4, <4>1, <4>2 DEF EndAt
    <3>3. j <= k => j = k \/ j < k
      BY <1>1 DEF D
    <3> QED BY <3>1, <3>2, <3>3
  <2>5. ASSUME NEW k \in D PROVE list[k].at >= EndAt(list, k - 1)
    <3>1. CASE k = 1
      BY <1>4, <2>1, <3>1 DEF EndAt
    <3>2. CASE k # 1
      <4>1. k - 1 \in D /\ k - 1 < k /\ k - 1 # 0
        BY <1>1, <3>2 DEF D
      <4>2. End(list[k - 1]) <= list[k].at
        BY <2>2, <4>1
      <4> QED BY <1>4, <4>1, <4>2 DEF EndAt
    <3> QED BY <3>1, <3>2
  <2>6. ASSUME full, NEW k \in 0 .. n, EndAt(list, k) < total,
               \A j \in D : j > k => list[j].at > EndAt(list, k)
        PROVE  FALSE
    <3>1. EndAt(list, k) \in 0 .. total - 1
      BY <1>2, <2>3, <2>6
    <3>2. PICK j \in D : EndAt(list, k) \in Bytes(list[j])
      BY <1>8, <2>6, <3>1
    <3>3. list[j].at <= EndAt(list, k) /\ EndAt(list, k) < End(list[j])
      BY <1>4, <3>1, <3>2 DEF Bytes
    <3>4. EndAt(list, k) \in Int /\ list[j].at \in Int /\ End(list[j]) \in Int
      BY <1>4, <2>3
    <3>5. j <= k \/ j > k
      BY <1>1 DEF D
    <3>6. CASE j <= k
      BY <2>4, <3>3, <3>4, <3>6
    <3>7. CASE j > k
      BY <2>6, <3>3, <3>4, <3>7
    <3> QED BY <3>5, <3>6, <3>7
  <2>7. ASSUME full, NEW k \in D PROVE list[k].at = EndAt(list, k - 1)
    <3> SUFFICES ASSUME list[k].at # EndAt(list, k - 1) PROVE FALSE
      OBVIOUS
    <3>1. k - 1 \in 0 .. n /\ EndAt(list, k - 1) \in Int
      BY <1>1, <2>3 DEF D
    <3>2. list[k].at > EndAt(list, k - 1)
      BY <1>4, <2>5, <3>1
    <3>3. EndAt(list, k - 1) < total
      BY <1>2, <1>4, <2>1, <3>1, <3>2
    <3>4. \A j \in D : j > k - 1 => list[j].at > EndAt(list, k - 1)
      <4> TAKE j \in D
      <4>1. j > k - 1 => j = k \/ k < j
        BY <1>1 DEF D
      <4>2. k < j => list[k].at <= list[j].at
        BY <1>3
      <4>3. list[k].at \in Int /\ list[j].at \in Int
        BY <1>4
      <4> QED BY <3>1, <3>2, <4>1, <4>2, <4>3
    <3> QED BY <2>6, <2>7, <3>1, <3>3, <3>4
  <2>8. \A k \in D : GoodAt(list, k)
    BY <1>2, <1>8, <2>5, <2>7 DEF GoodAt
  <2>9. full => EndAt(list, n) = total
    <3>1. n \in 0 .. n /\ \A j \in D : ~(j > n)
      BY <1>1 DEF D
    <3>2. full => ~(EndAt(list, n) < total)
      BY <2>6, <3>1
    <3>3. EndAt(list, n) \in 0 .. total
      BY <2>3, <3>1
    <3> QED BY <1>2, <3>2, <3>3
  <2> QED BY <2>8, <2>9
<1> QED BY <1>6, <1>7, <1>8 DEF n, D

----------------------------------------------------------------------------
(* The covered runs and the holes.                                         *)

\* Ranges of the target that are not empty.
Ranges == {r \in Int \X Int : 0 <= r[1] /\ r[1] < r[2] /\ r[2] <= total}

Separate(runs) == \A i, j \in 1 .. Len(runs) : i < j => runs[i][2] < runs[j][1]
Covers(list, b) == \E i \in 1 .. Len(list) : b \in RunBytes(list[i])

\* One step of Merged.
Extended(runs, r) ==
  IF runs = <<>> \/ r[1] > Last(runs)[2] THEN Append(runs, r)
  ELSE Append(Front(runs), <<Last(runs)[1], MaxOf(Last(runs)[2], r[2])>>)

\* A range that does not start before the last run is added to the runs.
LEMMA ExtendedIs ==
  ASSUME total \in Nat, NEW runs \in Seq(Ranges), Separate(runs),
         NEW r \in Ranges, runs # <<>> => Last(runs)[1] <= r[1]
  PROVE  /\ Extended(runs, r) \in Seq(Ranges) /\ Separate(Extended(runs, r))
         /\ Extended(runs, r) # <<>> /\ Last(Extended(runs, r))[1] <= r[1]
         /\ \A b \in Int : Covers(Extended(runs, r), b) <=> Covers(runs, b) \/ b \in RunBytes(r)
<1> DEFINE n == Len(runs)
<1>1. n \in Nat /\ \A i \in 1 .. n : runs[i] \in Ranges
  OBVIOUS
<1>2. r[1] \in Int /\ r[2] \in Int /\ r[1] < r[2] /\ r[2] <= total /\ 0 <= r[1]
  BY DEF Ranges
<1>3. \A i \in 1 .. n : /\ runs[i][1] \in Int /\ runs[i][2] \in Int /\ runs[i][1] < runs[i][2]
                        /\ 0 <= runs[i][1] /\ runs[i][2] <= total
                        /\ runs[i] = <<runs[i][1], runs[i][2]>>
  BY <1>1 DEF Ranges
<1>4. \A i, j \in 1 .. n : i < j => runs[i][2] < runs[j][1]
  BY DEF Separate
<1>5. CASE runs = <<>> \/ r[1] > Last(runs)[2]
  <2> DEFINE new == Append(runs, r)
  <2>1. Extended(runs, r) = new
    BY <1>5 DEF Extended
  <2>2. /\ new \in Seq(Ranges) /\ Len(new) = n + 1 /\ new # <<>>
        /\ \A i \in 1 .. n : new[i] = runs[i]
        /\ new[n + 1] = r
    <3> HIDE DEF n
    <3>1. new \in Seq(Ranges) /\ Len(new) = n + 1
      BY DEF n
    <3>2. new # <<>>
      BY <1>1, <3>1
    <3>3. \A i \in 1 .. n + 1 : new[i] = IF i <= n THEN runs[i] ELSE r
      BY AppendProperties DEF n
    <3> QED BY <1>1, <3>1, <3>2, <3>3
  <2>3. \A i \in 1 .. n : runs[i][2] < r[1]
    <3> TAKE i \in 1 .. n
    <3>1. n \in 1 .. n /\ runs # <<>> /\ Last(runs) = runs[n]
      BY <1>1 DEF Last
    <3>2. i < n \/ i = n
      BY <1>1
    <3>3. runs[n][2] < r[1]
      BY <1>2, <1>3, <1>5, <3>1
    <3> QED BY <1>2, <1>3, <1>4, <3>1, <3>2, <3>3
  <2> HIDE DEF new
  <2>4. Separate(new)
    <3> SUFFICES ASSUME NEW i \in 1 .. n + 1, NEW j \in 1 .. n + 1, i < j PROVE new[i][2] < new[j][1]
      BY <2>2 DEF Separate
    <3>1. i \in 1 .. n /\ (j \in 1 .. n \/ j = n + 1)
      BY <1>1
    <3> QED BY <1>4, <2>2, <2>3, <3>1
  <2>5. Last(new) = r
    BY <2>2 DEF Last
  <2>6. \A b \in Int : Covers(new, b) <=> Covers(runs, b) \/ b \in RunBytes(r)
    <3>1. \A i \in 1 .. n + 1 : i \in 1 .. n \/ i = n + 1
      BY <1>1
    <3>2. \A i \in 1 .. n : i \in 1 .. n + 1
      BY <1>1
    <3>3. n + 1 \in 1 .. n + 1
      BY <1>1
    <3> QED BY <2>2, <3>1, <3>2, <3>3 DEF Covers
  <2> QED BY <1>2, <2>1, <2>2, <2>4, <2>5, <2>6
<1>6. CASE ~(runs = <<>> \/ r[1] > Last(runs)[2])
  <2>1. n \in 1 .. n /\ n - 1 \in Nat /\ Last(runs) = runs[n]
    BY <1>1, <1>6 DEF Last
  <2>2. PICK a, m : a = runs[n][1] /\ m = MaxOf(runs[n][2], r[2])
    OBVIOUS
  <2>3. /\ runs[n][1] \in Int /\ runs[n][2] \in Int /\ runs[n][1] < runs[n][2]
        /\ 0 <= runs[n][1] /\ runs[n][2] <= total
    BY <1>3, <2>1
  <2>4. r[1] <= runs[n][2] /\ a <= r[1]
    BY <1>2, <1>6, <2>1, <2>2, <2>3
  <2>5. /\ a \in Int /\ m \in Int /\ 0 <= a /\ a < m /\ m <= total
        /\ m >= runs[n][2] /\ m >= r[2] /\ (m = runs[n][2] \/ m = r[2])
    BY <1>2, <2>2, <2>3 DEF MaxOf
  <2>6. <<a, m>> \in Ranges
    BY <2>5 DEF Ranges
  <2> DEFINE new == Append(Front(runs), <<a, m>>)
  <2>7. Extended(runs, r) = new
    BY <1>6, <2>1, <2>2 DEF Extended
  <2>8. /\ Front(runs) \in Seq(Ranges) /\ Len(Front(runs)) = n - 1
        /\ \A i \in 1 .. n - 1 : Front(runs)[i] = runs[i]
    <3>1. Front(runs) = SubSeq(runs, 1, n - 1)
      BY DEF Front
    <3>2. 1 \in Int /\ n - 1 \in Int /\ n - 1 - 1 + 1 = n - 1 /\ (1 <= n - 1 \/ n - 1 = 0)
      BY <1>1, <2>1
    <3>3. \A i \in 1 .. n - 1 : runs[i] \in Ranges /\ 1 + i - 1 = i
      BY <1>1
    <3> HIDE DEF n
    <3>4. /\ SubSeq(runs, 1, n - 1) \in Seq(Ranges)
          /\ Len(SubSeq(runs, 1, n - 1)) = IF 1 <= n - 1 THEN n - 1 - 1 + 1 ELSE 0
          /\ \A i \in 1 .. n - 1 - 1 + 1 : SubSeq(runs, 1, n - 1)[i] = runs[1 + i - 1]
      BY <3>2, <3>3, SubSeqProperties
    <3> QED BY <3>1, <3>2, <3>3, <3>4
  <2>9. /\ new \in Seq(Ranges) /\ Len(new) = n /\ new # <<>>
        /\ \A i \in 1 .. n - 1 : new[i] = runs[i]
        /\ new[n] = <<a, m>>
    <3> HIDE DEF n
    <3> QED BY <2>1, <2>6, <2>8
  <2> HIDE DEF new
  <2>10. \A i \in 1 .. n : i \in 1 .. n - 1 \/ i = n
    BY <1>1
  <2>11. \A i \in 1 .. n - 1 : i \in 1 .. n /\ i < n
    BY <1>1
  <2>12. Separate(new)
    <3> SUFFICES ASSUME NEW i \in 1 .. n, NEW j \in 1 .. n, i < j PROVE new[i][2] < new[j][1]
      BY <2>9 DEF Separate
    <3>1. i \in 1 .. n - 1
      BY <1>1
    <3>2. CASE j \in 1 .. n - 1
      BY <1>4, <2>9, <3>1, <3>2
    <3>3. CASE j = n
      <4>1. runs[i][2] < runs[n][1]
        BY <1>4, <2>1, <3>3
      <4> QED BY <2>2, <2>9, <3>1, <3>3, <4>1
    <3> QED BY <2>10, <3>2, <3>3
  <2>13. Last(new)[1] = a
    BY <2>9 DEF Last
  <2>14. \A b \in Int : b \in a .. m - 1 <=> b \in RunBytes(runs[n]) \/ b \in RunBytes(r)
    BY <1>2, <2>2, <2>3, <2>4, <2>5, SMTT(30) DEF RunBytes
  <2>15. RunBytes(new[n]) = a .. m - 1
    BY <2>9 DEF RunBytes
  <2>16. \A b \in Int : Covers(new, b) <=> Covers(runs, b) \/ b \in RunBytes(r)
    <3> TAKE b \in Int
    <3>1. Covers(new, b) <=> b \in RunBytes(new[n]) \/ \E i \in 1 .. n - 1 : b \in RunBytes(runs[i])
      <4>1. \A i \in 1 .. n - 1 : RunBytes(new[i]) = RunBytes(runs[i])
        BY <2>9
      <4> QED BY <2>1, <2>9, <2>10, <2>11, <4>1 DEF Covers
    <3>2. Covers(runs, b) <=> b \in RunBytes(runs[n]) \/ \E i \in 1 .. n - 1 : b \in RunBytes(runs[i])
      BY <2>1, <2>10, <2>11 DEF Covers
    <3> QED BY <2>14, <2>15, <3>1, <3>2
  <2> QED BY <2>4, <2>7, <2>9, <2>12, <2>13, <2>16
<1> QED BY <1>5, <1>6

\* An order of ranges by their starts.
LEMMA RangesAscend ==
  ASSUME NEW list \in Seq(Ranges)
  PROVE  \E p : /\ IsListing(p, Len(list))
                /\ Ascending(list, LAMBDA a, b : a[1] < b[1] \/ (a[1] = b[1] /\ a[2] < b[2]))
                     = [k \in 1 .. Len(list) |-> list[p[k]]]
                /\ \A i, j \in 1 .. Len(list) : i < j => list[p[i]][1] <= list[p[j]][1]
<1> DEFINE n == Len(list)
           D == 1 .. n
           Less(a, b) == a[1] < b[1] \/ (a[1] = b[1] /\ a[2] < b[2])
           R == {x \in D \X D : Less(list[x[1]], list[x[2]])}
           Before(i) == {j \in D : Less(list[j], list[i]) \/ (~Less(list[i], list[j]) /\ j < i)}
           p == [k \in D |-> CHOOSE i \in D : Cardinality(Before(i)) = k - 1]
           asc == Ascending(list, LAMBDA a, b : a[1] < b[1] \/ (a[1] = b[1] /\ a[2] < b[2]))
<1>1. n \in Nat /\ DOMAIN list = D
  OBVIOUS
<1>2. \A i \in D : list[i][1] \in Int /\ list[i][2] \in Int
  BY DEF Ranges
<1>3. \A i, j \in D : <<i, j>> \in R <=> Less(list[i], list[j])
  OBVIOUS
<1>4. asc = [k \in D |-> list[p[k]]]
  <2>1. asc = [k \in D |-> list[CHOOSE i \in D : Cardinality(Before(i)) = k - 1]]
    BY <1>1 DEF Ascending
  <2> QED BY <2>1
<1> HIDE DEF R, asc
<1>5. \A i \in D : Before(i) = Ahead(R, n, i)
  BY <1>3 DEF Ahead
<1>6. IsWeakOrder(R, n)
  <2>1. \A i \in D : ~Less(list[i], list[i])
    BY <1>2
  <2>2. \A i, j, k \in D : Less(list[i], list[j]) /\ Less(list[j], list[k]) => Less(list[i], list[k])
    BY <1>2
  <2>3. \A i, j, k \in D : Less(list[i], list[k]) => Less(list[i], list[j]) \/ Less(list[j], list[k])
    BY <1>2
  <2> HIDE DEF Less
  <2> QED BY <1>3, <2>1, <2>2, <2>3 DEF IsWeakOrder
<1> HIDE DEF Before
<1>7. \A k \in D : \E i \in D : Cardinality(Before(i)) = k - 1
  <2>1. \A k \in D : \E i \in D : Cardinality(Ahead(R, n, i)) = k - 1
    BY <1>1, <1>6, SortingIs
  <2> QED BY <1>5, <2>1
<1>8. \A k \in D : p[k] \in D /\ Cardinality(Before(p[k])) = k - 1
  BY <1>7
<1>9. p \in [D -> D] /\ \A k \in D : Cardinality(Ahead(R, n, p[k])) = k - 1
  <2>1. p \in [D -> D]
    BY <1>8
  <2> HIDE DEF p
  <2> QED BY <1>5, <1>8, <2>1
<1> HIDE DEF p
<1>10. IsSorting(p, n, R)
  <2> HIDE DEF n
  <2> QED BY <1>1, <1>6, <1>9, SortingIs
<1>11. IsListing(p, n)
  BY <1>10 DEF IsSorting, IsListing
<1>12. ASSUME NEW i \in D, NEW j \in D, i < j PROVE list[p[i]][1] <= list[p[j]][1]
  <2>1. p[i] \in D /\ p[j] \in D /\ <<p[j], p[i]>> \notin R
    BY <1>10, <1>12 DEF IsSorting
  <2>2. ~(list[p[j]][1] < list[p[i]][1])
    BY <1>3, <2>1
  <2>3. list[p[j]][1] \in Int /\ list[p[i]][1] \in Int
    BY <1>2, <2>1
  <2> QED BY <2>2, <2>3
<1> QED BY <1>4, <1>11, <1>12 DEF asc

\* The covered runs are apart from each other and cover what the ranges do.
LEMMA MergedIs ==
  ASSUME total \in Nat, NEW list \in Seq(Ranges)
  PROVE  /\ Merged(list) \in Seq(Ranges) /\ Separate(Merged(list))
         /\ \A b \in Int : Covers(Merged(list), b) <=> Covers(list, b)
<1> DEFINE n == Len(list)
           D == 1 .. n
           asc == Ascending(list, LAMBDA a, b : a[1] < b[1] \/ (a[1] = b[1] /\ a[2] < b[2]))
           P(g) == g = [T \in SUBSET (DOMAIN asc) |->
                          IF T = {} THEN <<>> ELSE Extended(g[T \ {Max(T)}], asc[Max(T)])]
           A == Seq(Int \X Int)
<1>1. Merged(list) = (CHOOSE g : P(g))[DOMAIN asc]
  BY DEF Merged, FoldLeft, MapThenFoldSet, Extended
<1>2. PICK p : /\ IsListing(p, n) /\ asc = [k \in D |-> list[p[k]]]
               /\ \A i, j \in D : i < j => list[p[i]][1] <= list[p[j]][1]
  BY RangesAscend
<1> HIDE DEF asc
<1>3. n \in Nat /\ \A i \in D : list[i] \in Ranges
  OBVIOUS
<1> HIDE DEF n
<1>4. /\ \A k \in D : p[k] \in D
      /\ \A m \in D : \E i \in D : p[i] = m
  BY <1>2 DEF IsListing
<1>5. /\ DOMAIN asc = D /\ \A k \in D : asc[k] \in Ranges /\ asc[k] = list[p[k]]
      /\ \A i, j \in D : i < j => asc[i][1] <= asc[j][1]
  BY <1>2, <1>3, <1>4
<1>6. \A k \in D : asc[k] \in Int \X Int /\ asc[k][1] \in Int /\ asc[k][2] \in Int
  BY <1>5 DEF Ranges
<1>7. \E g : P(g)
  <2> DEFINE step == [x \in D \X A |-> Extended(x[2], asc[x[1]])]
  <2>1. \A k \in D : \A runs \in A : Extended(runs, asc[k]) \in A
    <3> TAKE k \in D
    <3> TAKE runs \in A
    <3>1. Append(runs, asc[k]) \in A
      BY <1>6
    <3>2. CASE runs = <<>>
      BY <3>1, <3>2 DEF Extended
    <3>3. CASE runs # <<>>
      <4>1. Front(runs) \in A /\ Last(runs) \in Int \X Int
        <5>1. Len(runs) \in Nat /\ Len(runs) # 0
          BY <3>3, EmptySeq
        <5>2. \A i \in 1 .. Len(runs) - 1 : runs[i] \in Int \X Int
          BY <5>1
        <5>3. SubSeq(runs, 1, Len(runs) - 1) \in A
          BY <5>1, <5>2, SubSeqProperties
        <5>4. Len(runs) \in 1 .. Len(runs)
          BY <5>1
        <5> QED BY <5>3, <5>4 DEF Front, Last
      <4>2. <<Last(runs)[1], MaxOf(Last(runs)[2], asc[k][2])>> \in Int \X Int
        BY <1>6, <4>1 DEF MaxOf
      <4>3. Append(Front(runs), <<Last(runs)[1], MaxOf(Last(runs)[2], asc[k][2])>>) \in A
        BY <4>1, <4>2, AppendProperties
      <4> QED BY <3>1, <4>3 DEF Extended
    <3> QED BY <3>2, <3>3
  <2>2. step \in [D \X A -> A]
    <3> HIDE DEF A, D
    <3> QED BY <2>1
  <2>3. <<>> \in A
    OBVIOUS
  <2>4. PICK g \in [SUBSET D -> A] : Folds(g, n, <<>>, step)
    BY <1>3, <2>2, <2>3, FoldsExist
  <2>5. \A T \in SUBSET D : g[T] = IF T = {} THEN <<>> ELSE step[<<Max(T), g[T \ {Max(T)}]>>]
    BY <2>4 DEF Folds
  <2>6. \A k \in D : \A runs \in A : step[<<k, runs>>] = Extended(runs, asc[k])
    OBVIOUS
  <2> HIDE DEF step, A
  <2>7. ASSUME NEW T \in SUBSET D
        PROVE  g[T] = IF T = {} THEN <<>> ELSE Extended(g[T \ {Max(T)}], asc[Max(T)])
    <3>1. CASE T = {}
      BY <2>5, <3>1
    <3>2. CASE T # {}
      <4>1. Max(T) \in D /\ T \ {Max(T)} \in SUBSET D
        BY <1>3, <3>2, GreatestIs
      <4>2. g[T \ {Max(T)}] \in A
        BY <2>4, <4>1
      <4> QED BY <2>5, <2>6, <3>2, <4>1, <4>2
    <3> QED BY <3>1, <3>2
  <2>8. g = [T \in SUBSET D |-> g[T]]
    BY <2>4
  <2>9. P(g)
    BY <1>5, <2>7, <2>8, Zenon
  <2> QED BY <2>9
<1>8. PICK g : P(g) /\ Merged(list) = g[D]
  BY <1>1, <1>5, <1>7
<1>9. \A T \in SUBSET D : g[T] = IF T = {} THEN <<>> ELSE Extended(g[T \ {Max(T)}], asc[Max(T)])
  BY <1>5, <1>8
<1> HIDE DEF P
<1> DEFINE h(k) == g[1 .. k]
<1>10. h(0) = <<>>
  <2>1. 1 .. 0 = {} /\ {} \in SUBSET D
    OBVIOUS
  <2> QED BY <1>9, <2>1
<1>11. \A k \in D : h(k) = Extended(h(k - 1), asc[k])
  <2> TAKE k \in D
  <2>1. /\ 1 .. k \in SUBSET D /\ 1 .. k # {}
        /\ Max(1 .. k) = k /\ (1 .. k) \ {k} = 1 .. k - 1
    BY <1>3, UpToIs
  <2> QED BY <1>9, <2>1
<1> HIDE DEF h
<1> DEFINE W == {k \in Nat : /\ h(k) \in Seq(Ranges) /\ Separate(h(k))
                             /\ k > 0 => h(k) # <<>> /\ Last(h(k))[1] <= asc[k][1]
                             /\ \A b \in Int : Covers(h(k), b)
                                  <=> \E i \in 1 .. k : b \in RunBytes(asc[i])}
<1>12. 0 \in W
  <2>1. <<>> \in Seq(Ranges) /\ Separate(<<>>) /\ \A b \in Int : ~Covers(<<>>, b)
    BY DEF Separate, Covers
  <2>2. \A i \in 1 .. 0 : FALSE
    OBVIOUS
  <2>3. \A b \in Int : Covers(h(0), b) <=> \E i \in 1 .. 0 : b \in RunBytes(asc[i])
    BY <1>10, <2>1, <2>2
  <2>4. h(0) \in Seq(Ranges) /\ Separate(h(0))
    BY <1>10, <2>1
  <2> QED BY <2>3, <2>4
<1>13. ASSUME NEW m \in 0 .. n - 1, m \in W PROVE m + 1 \in W
  <2>1. PICK k : k = m + 1
    OBVIOUS
  <2>2. k \in D /\ k - 1 = m /\ m \in Nat /\ k \in Nat /\ k > 0 /\ (m > 0 => m \in D /\ m < k)
    BY <1>3, <2>1
  <2>3. h(k) = Extended(h(m), asc[k])
    BY <1>11, <2>2
  <2>4. /\ h(m) \in Seq(Ranges) /\ Separate(h(m))
        /\ m > 0 => h(m) # <<>> /\ Last(h(m))[1] <= asc[m][1]
        /\ \A b \in Int : Covers(h(m), b) <=> \E i \in 1 .. m : b \in RunBytes(asc[i])
    BY <1>13
  <2> HIDE DEF W
  <2>5. h(m) # <<>> => Last(h(m))[1] <= asc[k][1]
    <3>1. CASE m = 0
      BY <1>10, <3>1
    <3>2. CASE m > 0
      <4>1. m \in D /\ asc[m][1] <= asc[k][1] /\ Last(h(m))[1] <= asc[m][1]
        BY <1>5, <2>2, <2>4, <3>2
      <4>2. asc[m][1] \in Int /\ asc[k][1] \in Int
        BY <1>6, <2>2, <4>1
      <4>3. h(m) # <<>> => Last(h(m))[1] \in Int
        <5>1. h(m) # <<>> => Last(h(m)) \in Ranges
          <6>1. h(m) # <<>> => Len(h(m)) \in 1 .. Len(h(m))
            BY <2>4, EmptySeq
          <6> QED BY <2>4, <6>1 DEF Last
        <5> QED BY <5>1 DEF Ranges
      <4> QED BY <4>1, <4>2, <4>3
    <3> QED BY <2>2, <3>1, <3>2
  <2>6. asc[k] \in Ranges
    BY <1>5, <2>2
  <2>7. /\ h(k) \in Seq(Ranges) /\ Separate(h(k)) /\ h(k) # <<>> /\ Last(h(k))[1] <= asc[k][1]
        /\ \A b \in Int : Covers(h(k), b) <=> Covers(h(m), b) \/ b \in RunBytes(asc[k])
    BY <2>3, <2>4, <2>5, <2>6, ExtendedIs, Zenon
  <2>8. \A b \in Int : Covers(h(k), b) <=> \E i \in 1 .. k : b \in RunBytes(asc[i])
    <3>1. \A i \in 1 .. k : i \in 1 .. m \/ i = k
      BY <2>1, <2>2
    <3>2. k \in 1 .. k /\ \A i \in 1 .. m : i \in 1 .. k
      BY <2>1, <2>2
    <3> QED BY <2>4, <2>7, <3>1, <3>2
  <2>9. k \in W
    BY <2>2, <2>7, <2>8 DEF W
  <2> QED BY <2>1, <2>9
<1> HIDE DEF W
<1>14. \A k \in 0 .. n : k \in W
  BY <1>3, <1>12, <1>13, InductionTo
<1>15. n \in W
  BY <1>3, <1>14
<1>16. /\ h(n) \in Seq(Ranges) /\ Separate(h(n))
       /\ \A b \in Int : Covers(h(n), b) <=> \E i \in D : b \in RunBytes(asc[i])
  BY <1>15 DEF W
<1>17. \A b \in Int : Covers(list, b) <=> \E i \in D : b \in RunBytes(asc[i])
  <2> TAKE b \in Int
  <2>1. Covers(list, b) <=> \E i \in D : b \in RunBytes(list[i])
    BY DEF Covers, n
  <2> HIDE DEF D
  <2> QED BY <1>4, <1>5, <2>1
<1>18. Merged(list) = h(n)
  BY <1>8 DEF h
<1> QED BY <1>16, <1>17, <1>18

\* The holes are what runs leave of the target.
LEMMA HolesAre ==
  ASSUME total \in Nat, NEW runs \in Seq(Ranges), Separate(runs)
  PROVE  \A b \in Int : (\E h \in HolesOf(runs) : b \in RunBytes(h))
                          <=> b \in 0 .. total - 1 /\ ~Covers(runs, b)
<1> DEFINE n == Len(runs)
           start(i) == IF i = 1 THEN 0 ELSE runs[i - 1][2]
           stop(i)  == IF i > n THEN total ELSE runs[i][1]
<1>1. n \in Nat
  OBVIOUS
<1>2. \A i \in 1 .. n : /\ runs[i][1] \in Int /\ runs[i][2] \in Int /\ runs[i][1] < runs[i][2]
                        /\ 0 <= runs[i][1] /\ runs[i][2] <= total
  BY DEF Ranges
<1>3. \A i, j \in 1 .. n : i < j => runs[i][2] < runs[j][1]
  BY DEF Separate
<1> TAKE b \in Int
<1>4. Covers(runs, b) <=> \E i \in 1 .. n : runs[i][1] <= b /\ b < runs[i][2]
  BY <1>2 DEF Covers, RunBytes
<1>5. HolesOf(runs) = {<<start(i), stop(i)>> : i \in {k \in 1 .. n + 1 : start(k) < stop(k)}}
  BY DEF HolesOf
<1> HIDE DEF n
<1>6. \A i \in 1 .. n + 1 : /\ start(i) \in Int /\ stop(i) \in Int
                            /\ 0 <= start(i) /\ stop(i) <= total
  <2> TAKE i \in 1 .. n + 1
  <2>1. i # 1 => i - 1 \in 1 .. n
    BY <1>1
  <2>2. ~(i > n) => i \in 1 .. n
    BY <1>1
  <2>3. start(i) \in Int /\ 0 <= start(i)
    BY <1>2, <2>1
  <2>4. stop(i) \in Int /\ stop(i) <= total
    BY <1>2, <2>2
  <2> QED BY <2>3, <2>4
<1>7. (\E h \in HolesOf(runs) : b \in RunBytes(h))
        <=> \E i \in 1 .. n + 1 : start(i) <= b /\ b < stop(i)
  <2> HIDE DEF start, stop
  <2>1. \A i \in 1 .. n + 1 : b \in RunBytes(<<start(i), stop(i)>>) <=> start(i) <= b /\ b < stop(i)
    BY <1>6 DEF RunBytes
  <2>2. \A i \in 1 .. n + 1 : start(i) <= b /\ b < stop(i) => start(i) < stop(i)
    BY <1>6
  <2> QED BY <1>5, <2>1, <2>2
<1>8. ASSUME NEW i \in 1 .. n + 1, start(i) <= b, b < stop(i)
      PROVE  b \in 0 .. total - 1 /\ ~\E j \in 1 .. n : runs[j][1] <= b /\ b < runs[j][2]
  <2>1. b \in 0 .. total - 1
    <3>1. start(i) \in Int /\ stop(i) \in Int /\ 0 <= start(i) /\ stop(i) <= total
      BY <1>6
    <3> HIDE DEF start, stop
    <3> QED BY <1>8, <3>1
  <2>2. ASSUME NEW j \in 1 .. n, runs[j][1] <= b, b < runs[j][2] PROVE FALSE
    <3>1. CASE j < i
      <4>1. i # 1 /\ i - 1 \in 1 .. n /\ (j < i - 1 \/ j = i - 1)
        BY <1>1, <3>1
      <4>2. runs[i - 1][2] <= b
        BY <1>8, <4>1
      <4>3. PICK m \in 1 .. n : m = i - 1
        BY <4>1
      <4>4. j < m => runs[j][2] < runs[m][1] /\ runs[m][1] < runs[m][2]
        BY <1>2, <1>3
      <4>5. runs[j][2] \in Int /\ runs[m][1] \in Int /\ runs[m][2] \in Int /\ runs[m][2] <= b
        BY <1>2, <4>2, <4>3
      <4>6. CASE j < m
        BY <2>2, <4>4, <4>5, <4>6
      <4>7. CASE j = m
        BY <2>2, <4>5, <4>7
      <4> QED BY <4>1, <4>3, <4>6, <4>7
    <3>2. CASE j >= i
      <4>1. i \in 1 .. n /\ ~(i > n) /\ (i < j \/ i = j)
        BY <1>1, <3>2
      <4>2. b < runs[i][1]
        BY <1>8, <4>1
      <4>3. i < j => runs[i][1] < runs[i][2] /\ runs[i][2] < runs[j][1]
        BY <1>2, <1>3, <4>1
      <4>4. runs[i][1] \in Int /\ runs[i][2] \in Int /\ runs[j][1] \in Int /\ runs[j][1] <= b
        BY <1>2, <2>2, <4>1
      <4>5. CASE i < j
        BY <4>2, <4>3, <4>4, <4>5
      <4>6. CASE i = j
        BY <4>2, <4>4, <4>6
      <4> QED BY <4>1, <4>5, <4>6
    <3> QED BY <1>1, <3>1, <3>2
  <2> QED BY <2>1, <2>2
<1>9. ASSUME b \in 0 .. total - 1, ~\E j \in 1 .. n : runs[j][1] <= b /\ b < runs[j][2]
      PROVE  \E i \in 1 .. n + 1 : start(i) <= b /\ b < stop(i)
  <2> DEFINE V == {i \in 1 .. n + 1 : b < stop(i)}
  <2>1. n + 1 \in V
    BY <1>1, <1>9
  <2>2. PICK i \in V : \A j \in V : i <= j
    <3>1. V \subseteq Nat /\ V # {}
      BY <2>1
    <3> HIDE DEF V
    <3> QED BY <3>1, LeastNat
  <2>3. CASE i = 1
    BY <1>9, <2>2, <2>3
  <2>4. CASE i # 1
    <3>1. i - 1 \in 1 .. n /\ i - 1 \in 1 .. n + 1 /\ ~(i - 1 > n) /\ ~(i <= i - 1)
      BY <1>1, <2>2, <2>4
    <3>2. i - 1 \notin V
      BY <2>2, <3>1
    <3>3. ~(b < runs[i - 1][1])
      BY <3>1, <3>2
    <3>4. runs[i - 1][2] <= b
      BY <1>2, <1>9, <3>1, <3>3
    <3> QED BY <2>2, <2>4, <3>4
  <2> QED BY <2>3, <2>4
<1> QED BY <1>4, <1>7, <1>8, <1>9

----------------------------------------------------------------------------
(* The verifier.                                                           *)

\* A range of a source is as long as it says exactly when the source has it all.
LEMMA FragmentIs ==
  ASSUME NEW s \in Segments
  PROVE  /\ InSource(s) => Cardinality(Fragment(s)) = s.len
         /\ s.from >= 0 /\ s.len > 0 /\ Cardinality(Fragment(s)) = s.len => InSource(s)
<1>1. s.len \in Int /\ s.from \in Int /\ s.from + s.len \in Int
  BY SegmentIs
<1>2. SourceSize \in Nat
  BY RecipeAssumption
<1>3. PICK a, e : a = Cut(s.from) /\ e = Cut(s.from + s.len)
  OBVIOUS
<1>4. SUFFICES ASSUME s.from >= 0, s.len > 0
               PROVE  /\ InSource(s) => Cardinality(Fragment(s)) = s.len
                      /\ Cardinality(Fragment(s)) = s.len => InSource(s)
  BY DEF InSource
<1>5. /\ a = IF s.from > SourceSize THEN SourceSize ELSE s.from
      /\ e = IF s.from + s.len > SourceSize THEN SourceSize ELSE s.from + s.len
  <2>1. ~(s.from < 0) /\ ~(s.from + s.len < 0)
    BY <1>1, <1>4
  <2> QED BY <1>3, <2>1 DEF Cut
<1>6. a \in Int /\ e \in Int /\ e - 1 \in Int
  BY <1>1, <1>2, <1>5
<1>7. Cardinality(a .. e - 1) = IF a > e - 1 THEN 0 ELSE e - 1 - a + 1
  BY <1>6, FS_Interval
<1>8. Fragment(s) = a .. e - 1
  BY <1>3 DEF Fragment
<1>9. Cardinality(Fragment(s)) = IF a > e - 1 THEN 0 ELSE e - a
  BY <1>6, <1>7, <1>8
<1>10. InSource(s) <=> s.from + s.len <= SourceSize
  BY <1>4 DEF InSource
<1> QED BY <1>1, <1>2, <1>4, <1>5, <1>9, <1>10

\* One segment of the verifier's rebuilding.
Advanced(expected, s) ==
  IF expected = Raised \/ Cardinality(Fragment(s)) # s.len \/ s.at # expected THEN Raised
  ELSE expected + s.len

\* The rebuilding as a function of the number of segments.
LEMMA RebuiltIs ==
  ASSUME RecipeTyped
  PROVE  \E h : /\ h[0] = 0 /\ Rebuilt = h[Len(segs)]
                /\ \A k \in 1 .. Len(segs) : h[k] = Advanced(h[k - 1], VerifierOrder[k])
<1> DEFINE n == Len(segs)
           D == 1 .. n
           P(g) == g = [T \in SUBSET (DOMAIN VerifierOrder) |->
                          IF T = {} THEN 0 ELSE Advanced(g[T \ {Max(T)}], VerifierOrder[Max(T)])]
<1>1. Rebuilt = (CHOOSE g : P(g))[DOMAIN VerifierOrder]
  BY DEF Rebuilt, FoldLeft, MapThenFoldSet, Advanced
<1>2. n \in Nat /\ VerifierOrder \in [D -> Segments]
  BY VerifierOrderIs, ArrangedIs
<1> HIDE DEF n
<1>3. DOMAIN VerifierOrder = D /\ \A k \in D : VerifierOrder[k].len \in Int
  BY <1>2, SegmentIs
<1>4. \E g : P(g)
  <2> DEFINE step == [x \in D \X Int |-> Advanced(x[2], VerifierOrder[x[1]])]
  <2>1. \A k \in D : \A v \in Int : Advanced(v, VerifierOrder[k]) \in Int
    BY <1>3 DEF Advanced, Raised
  <2>2. step \in [D \X Int -> Int] /\ 0 \in Int
    <3> HIDE DEF D
    <3> QED BY <2>1
  <2>3. PICK g \in [SUBSET D -> Int] : Folds(g, n, 0, step)
    <3> HIDE DEF step
    <3> QED BY <1>2, <2>2, FoldsExist
  <2>4. \A T \in SUBSET D : g[T] = IF T = {} THEN 0 ELSE step[<<Max(T), g[T \ {Max(T)}]>>]
    BY <2>3 DEF Folds
  <2>5. \A k \in D : \A v \in Int : step[<<k, v>>] = Advanced(v, VerifierOrder[k])
    OBVIOUS
  <2> HIDE DEF step
  <2>6. ASSUME NEW T \in SUBSET D
        PROVE  g[T] = IF T = {} THEN 0 ELSE Advanced(g[T \ {Max(T)}], VerifierOrder[Max(T)])
    <3>1. CASE T = {}
      BY <2>4, <3>1
    <3>2. CASE T # {}
      <4>1. Max(T) \in D /\ T \ {Max(T)} \in SUBSET D
        BY <1>2, <3>2, GreatestIs
      <4>2. g[T \ {Max(T)}] \in Int
        BY <2>3, <4>1
      <4> QED BY <2>4, <2>5, <3>2, <4>1, <4>2
    <3> QED BY <3>1, <3>2
  <2>7. g = [T \in SUBSET D |-> g[T]]
    BY <2>3
  <2>8. P(g)
    BY <1>3, <2>6, <2>7, Zenon
  <2> QED BY <2>8
<1>5. PICK g : P(g) /\ Rebuilt = g[D]
  BY <1>1, <1>3, <1>4
<1>6. \A T \in SUBSET D :
        g[T] = IF T = {} THEN 0 ELSE Advanced(g[T \ {Max(T)}], VerifierOrder[Max(T)])
  BY <1>3, <1>5
<1> HIDE DEF P
<1> DEFINE h == [k \in 0 .. n |-> g[1 .. k]]
<1>7. h[0] = 0
  <2>1. 1 .. 0 = {} /\ {} \in SUBSET D /\ 0 \in 0 .. n
    BY <1>2
  <2> QED BY <1>6, <2>1
<1>8. ASSUME NEW k \in D PROVE h[k] = Advanced(h[k - 1], VerifierOrder[k])
  <2>1. /\ 1 .. k \in SUBSET D /\ 1 .. k # {}
        /\ Max(1 .. k) = k /\ (1 .. k) \ {k} = 1 .. k - 1
    BY <1>2, UpToIs
  <2>2. k \in 0 .. n /\ k - 1 \in 0 .. n
    BY <1>2
  <2>3. h[k] = g[1 .. k] /\ h[k - 1] = g[1 .. k - 1]
    BY <2>2
  <2> HIDE DEF h
  <2> QED BY <1>6, <2>1, <2>3
<1>9. Rebuilt = h[n]
  BY <1>2, <1>5
<1> HIDE DEF h
<1> QED BY <1>7, <1>8, <1>9 DEF n

\* The verifier rebuilds every sound full recipe, and of plain segments no other.
LEMMA VerifiesSound ==
  ASSUME RecipeTyped, full
  PROVE  /\ Sound => VerifiesFully
         /\ PlainSegments /\ VerifiesFully => Sound
<1> DEFINE n == Len(segs)
           D == 1 .. n
<1>1. PICK h : /\ h[0] = 0 /\ Rebuilt = h[n]
               /\ \A k \in D : h[k] = Advanced(h[k - 1], VerifierOrder[k])
  BY RebuiltIs
<1>2. PICK list : list = VerifierOrder
  OBVIOUS
<1>3. IsArranged(list)
  BY <1>2, VerifierOrderIs
<1>4. n \in Nat /\ list \in [D -> Segments] /\ Listed = {list[k] : k \in D} /\ total \in Nat
  BY <1>3, ArrangedIs DEF RecipeTyped
<1>5. Sound <=> (\A k \in D : GoodAt(list, k)) /\ EndAt(list, n) = total
  BY <1>3, SoundIs
<1> HIDE DEF n
<1>6. \A k \in D : /\ list[k] \in Segments /\ list[k].at \in Int /\ list[k].len \in Int
                   /\ End(list[k]) \in Int /\ End(list[k]) = list[k].at + list[k].len
                   /\ EndAt(list, k) = End(list[k])
  BY <1>4, SegmentIs DEF EndAt
<1>7. EndAt(list, 0) = 0
  BY DEF EndAt
<1>8. ASSUME Sound PROVE VerifiesFully
  <2> DEFINE W == {k \in Nat : h[k] = EndAt(list, k) /\ h[k] >= 0 /\ h[k] \in Int}
  <2>1. 0 \in W
    BY <1>1, <1>7
  <2>2. ASSUME NEW m \in 0 .. n - 1, m \in W PROVE m + 1 \in W
    <3>1. PICK k : k = m + 1
      OBVIOUS
    <3>2. k \in D /\ k - 1 = m /\ k \in Nat
      BY <1>4, <3>1
    <3>3. h[m] = EndAt(list, m) /\ h[m] >= 0 /\ h[m] \in Int
      BY <2>2
    <3> HIDE DEF W
    <3>4. GoodAt(list, k)
      BY <1>5, <1>8, <3>2
    <3>5. InSource(list[k]) /\ list[k].len > 0 /\ list[k].at = EndAt(list, k - 1)
      BY <3>4 DEF GoodAt, InSource
    <3>6. Cardinality(Fragment(list[k])) = list[k].len
      BY <1>6, <3>2, <3>5, FragmentIs
    <3>7. h[k] = Advanced(h[m], list[k])
      BY <1>1, <1>2, <3>2
    <3>8. h[m] # Raised /\ list[k].at = h[m]
      BY <3>2, <3>3, <3>5 DEF Raised
    <3>9. h[k] = h[m] + list[k].len
      BY <3>6, <3>7, <3>8 DEF Advanced
    <3>10. h[k] = EndAt(list, k) /\ h[k] >= 0 /\ h[k] \in Int
      BY <1>6, <3>2, <3>3, <3>5, <3>8, <3>9
    <3> QED BY <3>1, <3>2, <3>10 DEF W
  <2> HIDE DEF W
  <2>3. \A k \in 0 .. n : k \in W
    BY <1>4, <2>1, <2>2, InductionTo
  <2>4. h[n] = EndAt(list, n)
    BY <1>4, <2>3 DEF W
  <2> QED BY <1>1, <1>5, <1>8, <2>4 DEF VerifiesFully
<1>9. ASSUME PlainSegments, VerifiesFully PROVE Sound
  <2>1. \A k \in D : list[k].len > 0 /\ list[k].from >= 0
    BY <1>4, <1>9 DEF PlainSegments
  <2> DEFINE W == {k \in Nat : h[k] # Raised =>
                     /\ h[k] = EndAt(list, k) /\ h[k] \in Nat
                     /\ \A j \in 1 .. k : /\ InSource(list[j]) /\ list[j].at >= 0
                                          /\ End(list[j]) <= h[k]
                                          /\ list[j].at = EndAt(list, j - 1)}
  <2>2. 0 \in W
    BY <1>1, <1>7
  <2>3. ASSUME NEW m \in 0 .. n - 1, m \in W PROVE m + 1 \in W
    <3>1. PICK k : k = m + 1
      OBVIOUS
    <3>2. k \in D /\ k - 1 = m /\ k \in Nat /\ \A j \in 1 .. k : j \in 1 .. m \/ j = k
      BY <1>4, <3>1
    <3>3. h[m] # Raised =>
            /\ h[m] = EndAt(list, m) /\ h[m] \in Nat
            /\ \A j \in 1 .. m : /\ InSource(list[j]) /\ list[j].at >= 0
                                 /\ End(list[j]) <= h[m]
                                 /\ list[j].at = EndAt(list, j - 1)
      BY <2>3
    <3> HIDE DEF W
    <3> SUFFICES ASSUME h[k] # Raised
                 PROVE  /\ h[k] = EndAt(list, k) /\ h[k] \in Nat
                        /\ \A j \in 1 .. k : /\ InSource(list[j]) /\ list[j].at >= 0
                                             /\ End(list[j]) <= h[k]
                                             /\ list[j].at = EndAt(list, j - 1)
      BY <3>1, <3>2 DEF W
    <3>4. h[k] = Advanced(h[m], list[k])
      BY <1>1, <1>2, <3>2
    <3>5. /\ h[m] # Raised /\ Cardinality(Fragment(list[k])) = list[k].len
          /\ list[k].at = h[m] /\ h[k] = h[m] + list[k].len
      BY <3>4 DEF Advanced
    <3>6. list[k].len > 0 /\ list[k].from >= 0 /\ list[k] \in Segments
      BY <1>6, <2>1, <3>2
    <3>7. InSource(list[k])
      BY <3>5, <3>6, FragmentIs
    <3>8. h[m] = EndAt(list, m) /\ h[m] \in Nat
      BY <3>3, <3>5
    <3>9. list[k].len \in Int /\ EndAt(list, k) = list[k].at + list[k].len /\ End(list[k]) = EndAt(list, k)
      BY <1>6, <3>2
    <3>10. h[k] = EndAt(list, k) /\ h[k] \in Nat /\ h[m] <= h[k]
      BY <3>5, <3>6, <3>8, <3>9
    <3>11. InSource(list[k]) /\ list[k].at >= 0 /\ End(list[k]) <= h[k] /\ list[k].at = EndAt(list, k - 1)
      BY <3>2, <3>5, <3>7, <3>8, <3>9, <3>10
    <3>12. ASSUME NEW j \in 1 .. m
           PROVE  /\ InSource(list[j]) /\ list[j].at >= 0
                  /\ End(list[j]) <= h[k] /\ list[j].at = EndAt(list, j - 1)
      <4>1. j \in D
        BY <1>4
      <4>2. End(list[j]) <= h[m] /\ End(list[j]) \in Int
        BY <1>6, <3>3, <3>5, <4>1
      <4> QED BY <3>3, <3>5, <3>8, <3>10, <4>2
    <3> QED BY <3>2, <3>10, <3>11, <3>12
  <2> HIDE DEF W
  <2>4. \A k \in 0 .. n : k \in W
    BY <1>4, <2>2, <2>3, InductionTo
  <2>5. n \in W
    BY <1>4, <2>4
  <2>6. h[n] = total /\ h[n] # Raised
    BY <1>1, <1>4, <1>9 DEF VerifiesFully, Raised
  <2>7. /\ h[n] = EndAt(list, n)
        /\ \A j \in D : /\ InSource(list[j]) /\ list[j].at >= 0
                        /\ End(list[j]) <= h[n] /\ list[j].at = EndAt(list, j - 1)
    BY <2>5, <2>6 DEF W
  <2>8. \A k \in D : GoodAt(list, k)
    BY <2>6, <2>7 DEF GoodAt, InTarget
  <2> QED BY <1>5, <2>6, <2>7, <2>8
<1> QED BY <1>8, <1>9

\* The lengths of segments that share no byte add up to what they cover.
LEMMA VerifiedBytesIs ==
  ASSUME RecipeTyped, \A s \in Listed : s.len > 0,
         \A i, k \in DOMAIN segs : i # k => Bytes(segs[i]) \cap Bytes(segs[k]) = {}
  PROVE  VerifiedBytes = Cardinality(UNION {Bytes(s) : s \in Listed})
<1> DEFINE n == Len(segs)
           D == 1 .. n
           P(g) == g = [T \in SUBSET (DOMAIN segs) |->
                          IF T = {} THEN 0 ELSE g[T \ {Max(T)}] + segs[Max(T)].len]
           C(k) == UNION {Bytes(segs[i]) : i \in 1 .. k}
<1>1. VerifiedBytes = (CHOOSE g : P(g))[DOMAIN segs]
  BY DEF VerifiedBytes, FoldLeft, MapThenFoldSet
<1>2. n \in Nat /\ segs \in [D -> Segments] /\ DOMAIN segs = D
  BY DEF RecipeTyped
<1> HIDE DEF n
<1>3. \A k \in D : segs[k].len \in Int /\ segs[k].at \in Int /\ segs[k].len > 0
  <2>1. \A k \in D : segs[k] \in Listed /\ segs[k] \in Segments
    BY <1>2 DEF Listed, ToSet
  <2> QED BY <2>1, SegmentIs
<1>4. \E g : P(g)
  <2> DEFINE step == [x \in D \X Int |-> x[2] + segs[x[1]].len]
  <2>1. step \in [D \X Int -> Int] /\ 0 \in Int
    <3>1. \A k \in D : \A v \in Int : v + segs[k].len \in Int
      BY <1>3
    <3> HIDE DEF D
    <3> QED BY <3>1
  <2>2. PICK g \in [SUBSET D -> Int] : Folds(g, n, 0, step)
    <3> HIDE DEF step
    <3> QED BY <1>2, <2>1, FoldsExist, Zenon
  <2>3. \A T \in SUBSET D : g[T] = IF T = {} THEN 0 ELSE step[<<Max(T), g[T \ {Max(T)}]>>]
    BY <2>2, Zenon DEF Folds
  <2>4. \A k \in D : \A v \in Int : step[<<k, v>>] = v + segs[k].len
    OBVIOUS
  <2> HIDE DEF step
  <2>5. ASSUME NEW T \in SUBSET D
        PROVE  g[T] = IF T = {} THEN 0 ELSE g[T \ {Max(T)}] + segs[Max(T)].len
    <3>1. CASE T = {}
      BY <2>3, <3>1
    <3>2. CASE T # {}
      <4>1. Max(T) \in D /\ T \ {Max(T)} \in SUBSET D
        BY <1>2, <3>2, GreatestIs
      <4>2. g[T \ {Max(T)}] \in Int
        BY <2>2, <4>1
      <4> QED BY <2>3, <2>4, <3>2, <4>1, <4>2
    <3> QED BY <3>1, <3>2
  <2>6. g = [T \in SUBSET D |-> g[T]]
    BY <2>2
  <2>7. P(g)
    BY <1>2, <2>5, <2>6, Zenon
  <2> QED BY <2>7
<1>5. PICK g : P(g) /\ VerifiedBytes = g[D]
  BY <1>1, <1>2, <1>4
<1>6. \A T \in SUBSET D : g[T] = IF T = {} THEN 0 ELSE g[T \ {Max(T)}] + segs[Max(T)].len
  BY <1>2, <1>5
<1> HIDE DEF P
<1>7. ASSUME NEW k \in D PROVE g[1 .. k] = g[1 .. k - 1] + segs[k].len
  <2>1. /\ 1 .. k \in SUBSET D /\ 1 .. k # {}
        /\ Max(1 .. k) = k /\ (1 .. k) \ {k} = 1 .. k - 1
    BY <1>2, UpToIs
  <2> QED BY <1>6, <2>1
<1> DEFINE W == {k \in Nat : IsFiniteSet(C(k)) /\ g[1 .. k] = Cardinality(C(k))}
<1>8. 0 \in W
  <2>1. 1 .. 0 = {} /\ {} \in SUBSET D /\ C(0) = {}
    OBVIOUS
  <2> QED BY <1>6, <2>1, FS_EmptySet
<1>9. ASSUME NEW m \in 0 .. n - 1, m \in W PROVE m + 1 \in W
  <2>1. PICK k : k = m + 1
    OBVIOUS
  <2>2. /\ k \in D /\ k - 1 = m /\ k \in Nat
        /\ \A i \in 1 .. k : i \in 1 .. m \/ i = k
        /\ \A i \in 1 .. m : i \in 1 .. k /\ i \in D /\ i # k
    BY <1>2, <2>1
  <2>3. IsFiniteSet(C(m)) /\ g[1 .. m] = Cardinality(C(m))
    BY <1>9
  <2> HIDE DEF W
  <2>4. C(k) = C(m) \cup Bytes(segs[k])
    <3>1. k \in 1 .. k
      BY <2>2
    <3> QED BY <2>2, <3>1
  <2>5. C(m) \cap Bytes(segs[k]) = {}
    BY <1>2, <2>2
  <2>6. IsFiniteSet(Bytes(segs[k])) /\ Cardinality(Bytes(segs[k])) = segs[k].len
    <3>1. PICK a, e : a = segs[k].at /\ e = segs[k].at + segs[k].len - 1
      OBVIOUS
    <3>2. a \in Int /\ e \in Int /\ (IF a > e THEN 0 ELSE e - a + 1) = segs[k].len
      BY <1>3, <2>2, <3>1
    <3>3. Bytes(segs[k]) = a .. e
      BY <1>3, <2>2, <3>1 DEF Bytes, End
    <3> QED BY <3>2, <3>3, FS_Interval
  <2> HIDE DEF C
  <2>7. IsFiniteSet(C(k)) /\ Cardinality(C(k)) = Cardinality(C(m)) + segs[k].len
    <3>1. /\ IsFiniteSet(C(k))
          /\ Cardinality(C(k)) = Cardinality(C(m)) + segs[k].len - Cardinality({})
      BY <2>3, <2>4, <2>5, <2>6, FS_Union
    <3>2. Cardinality({}) = 0 /\ Cardinality(C(m)) \in Nat /\ segs[k].len \in Int
      BY <1>3, <2>2, <2>3, FS_EmptySet, FS_CardinalityType
    <3> QED BY <3>1, <3>2
  <2>8. g[1 .. k] = g[1 .. m] + segs[k].len
    BY <1>7, <2>2
  <2> QED BY <2>1, <2>2, <2>3, <2>7, <2>8 DEF W
<1> HIDE DEF W
<1>10. \A k \in 0 .. n : k \in W
  BY <1>2, <1>8, <1>9, InductionTo
<1>11. g[1 .. n] = Cardinality(C(n))
  <2>1. n \in W
    BY <1>2, <1>10
  <2> HIDE DEF C
  <2> QED BY <2>1 DEF W
<1>12. C(n) = UNION {Bytes(s) : s \in Listed}
  BY <1>2 DEF Listed, ToSet
<1> QED BY <1>5, <1>11, <1>12

----------------------------------------------------------------------------
(* The inductive invariant.                                                *)

\* The target ranges of the first m segments in order.
RangesOf(m) == [k \in 1 .. m |-> <<Sorted(segs)[k].at, End(Sorted(segs)[k])>>]

\* So far all segments went on as they should, or it is noted that one did not.
Looking ==
  /\ structural <=> \A k \in 1 .. next - 1 : GoodAt(Sorted(segs), k)
  /\ structural => previous_end = EndAt(Sorted(segs), next - 1) /\ ranges = RangesOf(next - 1)

\* The report: a recipe is accepted exactly when all its segments did.
ReportMade ==
  /\ structural <=> Sound
  /\ structural => ranges = RangesOf(Len(segs))
  /\ covered = Merged(ranges) /\ holes = HolesOf(covered)

\* The stream has yielded the segments it has passed.
Yielded ==
  /\ previous_end = EndAt(Sorted(segs), next - 1)
  /\ out = [k \in 1 .. next - 1 |-> Sorted(segs)[k]]

CheckInv ==
  /\ RecipeTyped
  /\ phase \in {"resolve", "refused", "stream", "done", "cancelled"}
  /\ next \in 1 .. Len(segs) + 1 /\ structural \in BOOLEAN
  /\ ranges \in Seq(Ranges)
  /\ phase = "resolve" => Looking /\ out = <<>>
  /\ phase # "resolve" => ReportMade
  /\ phase = "stream" => structural /\ Yielded
  /\ phase = "done" => structural /\ out = [k \in 1 .. Len(segs) |-> Sorted(segs)[k]]

\* A recipe that has just been opened has been asked for nothing.
LEMMA CheckBegins == Init => CheckInv
<1> SUFFICES ASSUME Init PROVE CheckInv
  OBVIOUS
<1>1. RecipeTyped /\ Len(segs) \in Nat
  BY RecipeAssumption DEF Init, RecipeTyped
<1>2. next \in 1 .. Len(segs) + 1 /\ next = 1 /\ structural = TRUE /\ phase = "resolve"
  BY <1>1 DEF Init
<1>3. ranges = <<>> /\ previous_end = 0 /\ out = <<>>
  BY DEF Init
<1>4. Looking
  <2>1. next - 1 = 0 /\ 1 .. 0 = {}
    BY <1>2
  <2>2. RangesOf(0) = <<>>
    BY DEF RangesOf
  <2> QED BY <1>2, <1>3, <2>1, <2>2 DEF Looking, EndAt
<1> QED BY <1>1, <1>2, <1>3, <1>4 DEF CheckInv

\* What is said of the recipe alone stays as it is.
LEMMA SameRecipe ==
  ASSUME UNCHANGED recipe
  PROVE  /\ full' = full /\ total' = total /\ segs' = segs
         /\ RecipeTyped' = RecipeTyped
         /\ Sorted(segs)' = Sorted(segs)
         /\ \A k : GoodAt(Sorted(segs), k)' = GoodAt(Sorted(segs), k)
         /\ \A k : RangesOf(k)' = RangesOf(k)
         /\ Ranges' = Ranges
         /\ Sound' = Sound
         /\ \A runs : HolesOf(runs)' = HolesOf(runs)
<1>1. full' = full /\ total' = total /\ segs' = segs
  BY DEF recipe
<1>2. Sorted(segs)' = Sorted(segs)
  BY <1>1
<1>3. \A k : GoodAt(Sorted(segs), k)' = GoodAt(Sorted(segs), k)
  <2>1. \A s : InTarget(s)' = InTarget(s)
    BY <1>1 DEF InTarget
  <2>2. \A k : EndAt(Sorted(segs), k)' = EndAt(Sorted(segs), k)
    BY <1>2
  <2> QED BY <1>1, <1>2, <2>1, <2>2, Zenon DEF GoodAt, InTarget
<1>4. \A k : RangesOf(k)' = RangesOf(k)
  BY <1>1 DEF RangesOf
<1>5. RecipeTyped' = RecipeTyped /\ Ranges' = Ranges
  BY <1>1 DEF RecipeTyped, Ranges
<1>6. Sound' = Sound
  <2>1. Listed' = Listed
    BY <1>1 DEF Listed
  <2> QED BY <1>1, <2>1, Zenon DEF Sound, InTarget
<1>7. \A runs : HolesOf(runs)' = HolesOf(runs)
  BY <1>1 DEF HolesOf
<1> QED BY <1>1, <1>2, <1>3, <1>4, <1>5, <1>6, <1>7

\* The checks of the resolver are those of the order when all went well so far.
LEMMA ChecksAre ==
  ASSUME CheckInv, Resolving, previous_end = EndAt(Sorted(segs), next - 1)
  PROVE  LET s == Sorted(segs)[next] IN
         /\ InSource(s) /\ InTarget(s) /\ Follows(s) <=> GoodAt(Sorted(segs), next)
         /\ InSource(s) /\ InTarget(s) /\ Follows(s)
              => EndAt(Sorted(segs), next) = IF full THEN End(s) ELSE MaxOf(previous_end, End(s))
<1> DEFINE s == Sorted(segs)[next]
<1>1. next \in 1 .. Len(segs) /\ Len(segs) \in Nat /\ Sorted(segs) \in [1 .. Len(segs) -> Segments]
  BY SortedIs, ArrangedIs DEF CheckInv, Resolving
<1>2. s \in Segments
  BY <1>1
<1>3. /\ s.at \in Int /\ s.len \in Int /\ End(s) \in Int /\ End(s) = s.at + s.len
      /\ EndAt(Sorted(segs), next) = End(s)
  BY <1>1, <1>2, SegmentIs DEF EndAt
<1>4. next = 1 => previous_end = 0
  BY DEF EndAt
<1>5. full \in BOOLEAN
  BY DEF CheckInv, RecipeTyped
<1>6. InSource(s) => s.len > 0
  BY DEF InSource
<1>7. InTarget(s) => s.at >= 0
  BY DEF InTarget
<1>8. GoodAt(Sorted(segs), next)
        <=> InSource(s) /\ InTarget(s) /\ (IF full THEN s.at = previous_end ELSE s.at >= previous_end)
  BY DEF GoodAt
<1>9. previous_end \in Int
  <2>1. next # 1 => next - 1 # 0 /\ next - 1 \in 1 .. Len(segs)
    BY <1>1
  <2>2. next # 1 => previous_end = End(Sorted(segs)[next - 1]) /\ Sorted(segs)[next - 1] \in Segments
    BY <1>1, <2>1 DEF EndAt
  <2> QED BY <1>4, <2>2, SegmentIs
<1> HIDE DEF s
<1>10. InSource(s) /\ InTarget(s) /\ Follows(s)
        <=> InSource(s) /\ InTarget(s) /\ (IF full THEN s.at = previous_end ELSE s.at >= previous_end)
  BY <1>4, <1>5, <1>7 DEF Follows
<1>11. InSource(s) /\ InTarget(s) /\ Follows(s) /\ ~full => MaxOf(previous_end, End(s)) = End(s)
  BY <1>3, <1>6, <1>9, <1>10 DEF MaxOf
<1> QED BY <1>3, <1>8, <1>10, <1>11 DEF s

\* A segment that passes its checks becomes part of the accepted prefix.
LEMMA AcceptKeeps == CheckInv /\ Accept => CheckInv'
<1> SUFFICES ASSUME CheckInv, Accept PROVE CheckInv'
  OBVIOUS
<1> DEFINE S == Sorted(segs)
           s == S[next]
<1>1. /\ Resolving /\ InSource(s) /\ InTarget(s) /\ Follows(s)
      /\ previous_end' = IF full THEN End(s) ELSE MaxOf(previous_end, End(s))
      /\ ranges' = Append(ranges, <<s.at, End(s)>>)
      /\ next' = next + 1
      /\ UNCHANGED <<recipe, phase, structural, covered, holes, out>>
  BY DEF Accept
<1>2. /\ full' = full /\ total' = total /\ segs' = segs /\ RecipeTyped' = RecipeTyped
      /\ S' = S /\ (\A k : GoodAt(S, k)' = GoodAt(S, k))
      /\ (\A k : RangesOf(k)' = RangesOf(k)) /\ Ranges' = Ranges
  BY <1>1, SameRecipe
<1>3. /\ RecipeTyped /\ phase = "resolve" /\ structural \in BOOLEAN /\ ranges \in Seq(Ranges)
      /\ next \in 1 .. Len(segs)
  BY <1>1 DEF CheckInv, Resolving
<1>4. /\ Len(segs) \in Nat /\ S \in [1 .. Len(segs) -> Segments] /\ total \in Nat
  BY <1>3, SortedIs, ArrangedIs DEF RecipeTyped
<1>5. <<s.at, End(s)>> \in Ranges
  <2>1. s.at \in Int /\ s.len \in Int /\ End(s) \in Int /\ End(s) = s.at + s.len
    BY <1>3, <1>4, SegmentIs
  <2>2. s.at >= 0 /\ End(s) <= total /\ s.len > 0
    BY <1>1 DEF InSource, InTarget
  <2> HIDE DEF s
  <2> QED BY <2>1, <2>2 DEF Ranges
<1>6. ranges' \in Seq(Ranges)
  BY <1>1, <1>3, <1>5, AppendProperties
<1>7. Looking
  BY <1>3 DEF CheckInv
<1>8. next' - 1 = next /\ next' \in 1 .. Len(segs) + 1
  BY <1>1, <1>3, <1>4
<1>9. \A k \in 1 .. next : k \in 1 .. next - 1 \/ k = next
  BY <1>3, <1>4
<1>10. \A k \in 1 .. next - 1 : k \in 1 .. next
  BY <1>3, <1>4
<1>11. ASSUME structural
       PROVE  /\ GoodAt(S, next) /\ previous_end' = EndAt(S, next) /\ ranges' = RangesOf(next)
  <2>1. previous_end = EndAt(S, next - 1) /\ ranges = RangesOf(next - 1)
    BY <1>7, <1>11 DEF Looking
  <2>2. GoodAt(S, next) /\ EndAt(S, next) = IF full THEN End(s) ELSE MaxOf(previous_end, End(s))
    BY <1>1, <2>1, ChecksAre
  <2>3. ranges' = RangesOf(next)
    <3>1. PICK m : m = next - 1
      OBVIOUS
    <3>2. m \in Nat /\ next = m + 1
      BY <1>3, <3>1
    <3>3. ranges = [k \in 1 .. m |-> <<S[k].at, End(S[k])>>]
      BY <2>1, <3>1 DEF RangesOf
    <3>4. Len(ranges) = m /\ ranges \in Seq(Ranges)
      <4>1. DOMAIN ranges = 1 .. m
        BY <3>3
      <4>2. DOMAIN ranges = 1 .. Len(ranges) /\ Len(ranges) \in Nat
        BY <1>3, LenProperties
      <4>3. PICK l : l = Len(ranges)
        OBVIOUS
      <4>4. 1 .. m = 1 .. l /\ l \in Nat
        BY <4>1, <4>2, <4>3
      <4>5. l = m
        BY <3>2, <4>4
      <4> QED BY <1>3, <4>3, <4>5
    <3>5. PICK new : new = Append(ranges, <<s.at, End(s)>>)
      OBVIOUS
    <3>6. /\ new \in Seq(Ranges) /\ Len(new) = m + 1
          /\ \A k \in 1 .. m + 1 : new[k] = IF k <= m THEN ranges[k] ELSE <<s.at, End(s)>>
      <4> HIDE DEF s
      <4> QED BY <1>5, <3>4, <3>5, AppendProperties
    <3>7. \A k \in 1 .. m + 1 : new[k] = <<S[k].at, End(S[k])>>
      <4> TAKE k \in 1 .. m + 1
      <4>1. CASE k <= m
        <5>1. k \in 1 .. m
          BY <3>2, <4>1
        <5> QED BY <3>3, <3>6, <4>1, <5>1
      <4>2. CASE ~(k <= m)
        <5>1. k = next
          BY <3>2, <4>2
        <5> QED BY <3>6, <4>2, <5>1
      <4> QED BY <4>1, <4>2
    <3>8. new = [k \in 1 .. m + 1 |-> new[k]]
      BY <3>6, <3>2
    <3> HIDE DEF s, S
    <3>9. new = [k \in 1 .. m + 1 |-> <<S[k].at, End(S[k])>>]
      BY <3>7, <3>8
    <3> QED BY <1>1, <3>2, <3>5, <3>9 DEF RangesOf, S
  <2> QED BY <1>1, <2>2, <2>3
<1>12. ASSUME ~structural PROVE ~\A k \in 1 .. next : GoodAt(S, k)
  BY <1>7, <1>10, <1>12 DEF Looking
<1>13. structural => \A k \in 1 .. next : GoodAt(S, k)
  BY <1>7, <1>9, <1>11 DEF Looking
<1>14. Looking'
  <2>1. structural' = structural
    BY <1>1
  <2>2. structural <=> \A k \in 1 .. next : GoodAt(S, k)'
    BY <1>2, <1>12, <1>13
  <2>3. structural => previous_end' = EndAt(S, next - 1)'
    <3>1. EndAt(S, next - 1)' = EndAt(S, next)
      BY <1>2, <1>8, Zenon DEF EndAt
    <3> QED BY <1>11, <3>1
  <2>4. structural => ranges' = RangesOf(next - 1)'
    <3>1. RangesOf(next - 1)' = RangesOf(next)
      BY <1>2, <1>8, Zenon DEF RangesOf
    <3> QED BY <1>11, <3>1
  <2>5. (\A k \in 1 .. next - 1 : GoodAt(S, k))' <=> \A k \in 1 .. next : GoodAt(S, k)
    BY <1>2, <1>8, Zenon
  <2> QED BY <1>12, <1>13, <2>1, <2>3, <2>4, <2>5, Zenon DEF Looking
<1> QED
  BY <1>1, <1>2, <1>3, <1>6, <1>8, <1>14 DEF CheckInv

\* A segment that fails them is bad, so that the recipe is not sound.
LEMMA NoteErrorKeeps == CheckInv /\ NoteError => CheckInv'
<1> SUFFICES ASSUME CheckInv, NoteError PROVE CheckInv'
  OBVIOUS
<1> DEFINE S == Sorted(segs)
           s == S[next]
<1>1. /\ Resolving /\ ~(InSource(s) /\ InTarget(s) /\ Follows(s))
      /\ structural' = FALSE /\ next' = next + 1
      /\ UNCHANGED <<recipe, phase, previous_end, ranges, covered, holes, out>>
  BY DEF NoteError
<1>2. /\ segs' = segs /\ RecipeTyped' = RecipeTyped /\ S' = S
      /\ (\A k : GoodAt(S, k)' = GoodAt(S, k)) /\ Ranges' = Ranges
  BY <1>1, SameRecipe
<1>3. /\ RecipeTyped /\ phase = "resolve" /\ structural \in BOOLEAN /\ ranges \in Seq(Ranges)
      /\ next \in 1 .. Len(segs) /\ Len(segs) \in Nat /\ Looking
  BY <1>1 DEF CheckInv, Resolving, RecipeTyped
<1>4. next' - 1 = next /\ next' \in 1 .. Len(segs) + 1 /\ next \in 1 .. next
  BY <1>1, <1>3
<1>5. \A k \in 1 .. next - 1 : k \in 1 .. next
  BY <1>3
<1>6. ~\A k \in 1 .. next : GoodAt(S, k)
  <2>1. CASE structural
    <3>1. ~GoodAt(S, next)
      BY <1>1, <1>3, <2>1, ChecksAre DEF Looking
    <3> QED BY <1>4, <3>1
  <2>2. CASE ~structural
    BY <1>3, <1>5, <2>2 DEF Looking
  <2> QED BY <1>3, <2>1, <2>2
<1>7. Looking'
  <2>1. (\A k \in 1 .. next - 1 : GoodAt(S, k))' <=> \A k \in 1 .. next : GoodAt(S, k)
    BY <1>2, <1>4, Zenon
  <2> QED BY <1>1, <1>6, <2>1, Zenon DEF Looking
<1> QED
  BY <1>1, <1>2, <1>3, <1>4, <1>7 DEF CheckInv

\* A report is closed when every segment has been looked at.
LEMMA FinishReportKeeps == CheckInv /\ FinishReport => CheckInv'
<1> SUFFICES ASSUME CheckInv, FinishReport PROVE CheckInv'
  OBVIOUS
<1> DEFINE S == Sorted(segs)
           n == Len(segs)
<1>1. /\ phase = "resolve" /\ next > n
      /\ structural' = (structural /\ (full => previous_end = total))
      /\ covered' = Merged(ranges) /\ holes' = HolesOf(covered')
      /\ phase' = IF structural' THEN "stream" ELSE "refused"
      /\ next' = 1 /\ previous_end' = 0
      /\ UNCHANGED <<recipe, ranges, out>>
  BY DEF FinishReport
<1>2. /\ full' = full /\ total' = total /\ segs' = segs /\ RecipeTyped' = RecipeTyped /\ S' = S
      /\ Ranges' = Ranges /\ Sound' = Sound
      /\ (\A k : RangesOf(k)' = RangesOf(k)) /\ (\A runs : HolesOf(runs)' = HolesOf(runs))
  BY <1>1, SameRecipe
<1>3. /\ RecipeTyped /\ structural \in BOOLEAN /\ ranges \in Seq(Ranges)
      /\ next \in 1 .. n + 1 /\ n \in Nat /\ Looking
  BY <1>1 DEF CheckInv, RecipeTyped
<1>4. next - 1 = n /\ 1 \in 1 .. n + 1
  BY <1>1, <1>3
<1>5. structural <=> \A k \in 1 .. n : GoodAt(S, k)
  BY <1>3, <1>4 DEF Looking
<1>6. structural => previous_end = EndAt(S, n) /\ ranges = RangesOf(n)
  BY <1>3, <1>4 DEF Looking
<1>7. Sound <=> (\A k \in 1 .. n : GoodAt(S, k)) /\ (full => EndAt(S, n) = total)
  BY <1>3, SortedIs, SoundIs
<1>8. structural' <=> Sound
  BY <1>1, <1>5, <1>6, <1>7
<1>9. structural' \in BOOLEAN /\ (structural' => structural)
  BY <1>1, <1>3
<1>10. ReportMade'
  <2>1. (covered = Merged(ranges))'
    BY <1>1
  <2>2. structural' => ranges' = RangesOf(Len(segs))'
    <3>1. RangesOf(Len(segs))' = RangesOf(n)
      BY <1>2, Zenon DEF RangesOf
    <3> QED BY <1>1, <1>6, <1>9, <3>1
  <2>3. structural' <=> Sound'
    BY <1>2, <1>8
  <2>4. (holes = HolesOf(covered))'
    <3>1. HolesOf(covered)' = HolesOf(covered')
      BY <1>2, Zenon DEF HolesOf
    <3> QED BY <1>1, <3>1
  <2> QED BY <2>1, <2>2, <2>3, <2>4, Zenon DEF ReportMade
<1>11. phase' = "stream" => Yielded'
  <2>1. CheckInv => (phase = "resolve" => out = <<>>)
    BY DEF CheckInv
  <2>2. previous_end' = EndAt(Sorted(segs), next - 1)'
    BY <1>1 DEF EndAt
  <2>3. out' = <<>>
    BY <1>1, <2>1
  <2>4. 1 .. next' - 1 = {}
    BY <1>1
  <2> QED BY <2>2, <2>3, <2>4 DEF Yielded
<1>12. /\ phase' \in {"resolve", "refused", "stream", "done", "cancelled"}
       /\ phase' # "resolve" /\ phase' # "done" /\ (phase' = "stream" => structural')
  BY <1>1, <1>9
<1>13. next' \in 1 .. Len(segs') + 1
  BY <1>1, <1>2, <1>4
<1>14. ranges' \in Seq(Ranges')
  BY <1>1, <1>2, <1>3
<1> HIDE DEF S, n
<1> QED
  BY <1>2, <1>3, <1>9, <1>10, <1>11, <1>12, <1>13, <1>14 DEF CheckInv

\* While the bytes are streamed the report stands still.
LEMMA SameReport ==
  ASSUME UNCHANGED <<recipe, report>>, ReportMade
  PROVE  ReportMade'
<1>1. UNCHANGED <<structural, ranges, covered, holes>>
  BY DEF report
<1>2. Sound' = Sound /\ segs' = segs /\ total' = total /\ Sorted(segs)' = Sorted(segs)
  BY SameRecipe
<1>3. RangesOf(Len(segs))' = RangesOf(Len(segs))
  BY <1>2, Zenon DEF RangesOf
<1>4. HolesOf(covered)' = HolesOf(covered)
  BY <1>1, <1>2, Zenon DEF HolesOf
<1>5. Merged(ranges)' = Merged(ranges)
  BY <1>1
<1> QED BY <1>1, <1>2, <1>3, <1>4, <1>5, Zenon DEF ReportMade

\* In the stream the checks of an accepted recipe pass.
LEMMA StreamSegmentKeeps == CheckInv /\ StreamSegment => CheckInv'
<1> SUFFICES ASSUME CheckInv, StreamSegment PROVE CheckInv'
  OBVIOUS
<1> DEFINE S == Sorted(segs)
           n == Len(segs)
           s == S[next]
<1>1. phase = "stream" /\ next <= n /\ UNCHANGED <<recipe, report>>
  BY DEF StreamSegment, Streaming
<1>2. /\ full' = full /\ total' = total /\ segs' = segs /\ RecipeTyped' = RecipeTyped /\ S' = S
      /\ Ranges' = Ranges /\ Sound' = Sound
      /\ (\A runs : HolesOf(runs)' = HolesOf(runs))
  BY <1>1, SameRecipe
<1>3. /\ RecipeTyped /\ structural \in BOOLEAN /\ ranges \in Seq(Ranges)
      /\ next \in 1 .. n /\ n \in Nat /\ ReportMade /\ structural /\ Yielded
  BY <1>1 DEF CheckInv, RecipeTyped
<1>4. GoodAt(S, next)
  BY <1>3, SortedIs, SoundIs DEF ReportMade
<1>5. S \in [1 .. n -> Segments] /\ s \in Segments /\ full \in BOOLEAN
  BY <1>3, SortedIs, ArrangedIs DEF RecipeTyped
<1>6. InOrder(s)
  BY <1>3, <1>4, <1>5 DEF GoodAt, InOrder, Yielded
<1>7. Cardinality(Fragment(s)) = s.len
  BY <1>4, <1>5, FragmentIs DEF GoodAt
<1>8. /\ out' = Append(out, s) /\ previous_end' = End(s)
      /\ next' = next + 1 /\ phase' = phase
  BY <1>6, <1>7 DEF StreamSegment, StreamOrder
<1>9. next' - 1 = next /\ next' \in 1 .. n + 1
  BY <1>3, <1>8
<1>10. previous_end' = EndAt(S, next - 1)'
  <2>1. EndAt(S, next - 1)' = EndAt(S, next)
    BY <1>2, <1>9, Zenon DEF EndAt
  <2>2. EndAt(S, next) = End(s)
    BY <1>3 DEF EndAt
  <2> QED BY <1>8, <2>1, <2>2
<1>11. out' = [k \in 1 .. next |-> S[k]]
  <2>1. PICK m : m = next - 1
    OBVIOUS
  <2>2. m \in Nat /\ next = m + 1 /\ m + 1 \in 1 .. n
    BY <1>3, <2>1
  <2>3. out = [k \in 1 .. m |-> S[k]]
    BY <1>3, <2>1 DEF Yielded
  <2>4. \A k \in 1 .. m : S[k] \in Segments
    BY <1>5, <2>2, <1>3
  <2>5. out \in Seq(Segments) /\ Len(out) = m
    <3> HIDE DEF S
    <3> QED BY <2>2, <2>3, <2>4
  <2>6. PICK new : new = Append(out, s)
    OBVIOUS
  <2>7. /\ new \in Seq(Segments) /\ Len(new) = m + 1
        /\ \A k \in 1 .. m + 1 : new[k] = IF k <= m THEN out[k] ELSE s
    <3> HIDE DEF s, S
    <3> QED BY <1>5, <2>5, <2>6, AppendProperties
  <2>8. \A k \in 1 .. m + 1 : new[k] = S[k]
    <3> TAKE k \in 1 .. m + 1
    <3>1. CASE k <= m
      <4>1. k \in 1 .. m
        BY <2>2, <3>1
      <4> QED BY <2>3, <2>7, <3>1, <4>1
    <3>2. CASE ~(k <= m)
      <4>1. k = next
        BY <2>2, <3>2
      <4> QED BY <2>7, <3>2, <4>1
    <3> QED BY <3>1, <3>2
  <2>9. new = [k \in 1 .. m + 1 |-> new[k]]
    BY <2>2, <2>7
  <2> HIDE DEF s, S
  <2>10. new = [k \in 1 .. m + 1 |-> S[k]]
    BY <2>8, <2>9
  <2> QED BY <1>8, <2>2, <2>6, <2>10 DEF s
<1>12. Yielded'
  <2>1. (out = [k \in 1 .. next - 1 |-> S[k]])'
    BY <1>2, <1>9, <1>11, Zenon
  <2> QED BY <1>10, <2>1, Zenon DEF Yielded
<1>13. ReportMade'
  BY <1>1, <1>3, SameReport
<1>14. UNCHANGED <<structural, ranges>>
  BY <1>1 DEF report
<1>15. next' \in 1 .. Len(segs') + 1 /\ ranges' \in Seq(Ranges') /\ structural' /\ structural' \in BOOLEAN
  BY <1>2, <1>3, <1>9, <1>14
<1> HIDE DEF S, n, s
<1> QED
  BY <1>1, <1>2, <1>3, <1>8, <1>12, <1>13, <1>15 DEF CheckInv

\* A cancelled recipe has streamed what it had streamed.
LEMMA CancelKeeps == CheckInv /\ Cancel => CheckInv'
<1> SUFFICES ASSUME CheckInv, Cancel PROVE CheckInv'
  OBVIOUS
<1>1. /\ phase = "stream" /\ phase' = "cancelled"
      /\ UNCHANGED <<recipe, report>> /\ UNCHANGED <<next, structural, ranges>>
  BY DEF Cancel, Streaming, report
<1>2. segs' = segs /\ RecipeTyped' = RecipeTyped /\ Ranges' = Ranges
  BY <1>1, SameRecipe
<1>3. ReportMade'
  BY <1>1, SameReport DEF CheckInv
<1> QED
  BY <1>1, <1>2, <1>3 DEF CheckInv

\* The stream ends when its last segment has been written.
LEMMA EndOfStreamKeeps == CheckInv /\ EndOfStream => CheckInv'
<1> SUFFICES ASSUME CheckInv, EndOfStream PROVE CheckInv'
  OBVIOUS
<1>1. /\ phase = "stream" /\ next > Len(segs) /\ phase' = "done"
      /\ UNCHANGED <<recipe, report>> /\ UNCHANGED <<next, structural, ranges, out>>
  BY DEF EndOfStream, report
<1>2. segs' = segs /\ RecipeTyped' = RecipeTyped /\ Ranges' = Ranges /\ Sorted(segs)' = Sorted(segs)
  BY <1>1, SameRecipe
<1>3. ReportMade'
  BY <1>1, SameReport DEF CheckInv
<1>4. next - 1 = Len(segs) /\ Yielded /\ structural
  BY <1>1 DEF CheckInv, RecipeTyped
<1>5. (out = [k \in 1 .. Len(segs) |-> Sorted(segs)[k]])'
  BY <1>1, <1>2, <1>4, Zenon DEF Yielded
<1>6. phase' = "done" /\ structural' /\ structural' \in BOOLEAN /\ next' \in 1 .. Len(segs') + 1
  BY <1>1, <1>2, <1>4 DEF CheckInv
<1>7. RecipeTyped' /\ ranges' \in Seq(Ranges')
  BY <1>1, <1>2 DEF CheckInv
<1> QED
  BY <1>3, <1>5, <1>6, <1>7 DEF CheckInv

\* Nothing changes when nothing happens.
LEMMA CheckStutterKeeps == CheckInv /\ UNCHANGED vars => CheckInv'
<1> SUFFICES ASSUME CheckInv, UNCHANGED vars PROVE CheckInv'
  OBVIOUS
<1>1. /\ UNCHANGED <<recipe, report>>
      /\ UNCHANGED <<phase, next, previous_end, structural, ranges, out>>
  BY DEF vars, report
<1>2. /\ segs' = segs /\ RecipeTyped' = RecipeTyped /\ Ranges' = Ranges /\ Sorted(segs)' = Sorted(segs)
      /\ (\A k : GoodAt(Sorted(segs), k)' = GoodAt(Sorted(segs), k))
  BY <1>1, SameRecipe
<1>3. phase # "resolve" => ReportMade'
  BY <1>1, SameReport DEF CheckInv
<1>4. phase = "resolve" => Looking'
  <2> SUFFICES ASSUME phase = "resolve" PROVE Looking'
    OBVIOUS
  <2>1. Looking
    BY DEF CheckInv
  <2>2. (\A k \in 1 .. next - 1 : GoodAt(Sorted(segs), k))'
          <=> \A k \in 1 .. next - 1 : GoodAt(Sorted(segs), k)
    BY <1>1, <1>2, Zenon
  <2>3. EndAt(Sorted(segs), next - 1)' = EndAt(Sorted(segs), next - 1)
    BY <1>1, <1>2, Zenon DEF EndAt
  <2>4. RangesOf(next - 1)' = RangesOf(next - 1)
    BY <1>1, <1>2, Zenon DEF RangesOf
  <2> QED BY <1>1, <2>1, <2>2, <2>3, <2>4, Zenon DEF Looking
<1>5. phase = "stream" => Yielded'
  <2>1. EndAt(Sorted(segs), next - 1)' = EndAt(Sorted(segs), next - 1)
    BY <1>1, <1>2, Zenon DEF EndAt
  <2>2. Yielded' <=> Yielded
    BY <1>1, <1>2, <2>1, Zenon DEF Yielded
  <2> QED BY <2>2 DEF CheckInv
<1>6. phase = "done" => (out = [k \in 1 .. Len(segs) |-> Sorted(segs)[k]])'
  <2>1. (out = [k \in 1 .. Len(segs) |-> Sorted(segs)[k]])'
          <=> out = [k \in 1 .. Len(segs) |-> Sorted(segs)[k]]
    BY <1>1, <1>2, Zenon
  <2> QED BY <2>1 DEF CheckInv
<1>7. /\ phase' \in {"resolve", "refused", "stream", "done", "cancelled"}
      /\ next' \in 1 .. Len(segs') + 1 /\ structural' \in BOOLEAN
      /\ (phase' \in {"stream", "done"} => structural') /\ (phase' = "resolve" => out' = <<>>)
  BY <1>1, <1>2 DEF CheckInv
<1>8. RecipeTyped' /\ ranges' \in Seq(Ranges') /\ phase' = phase
  BY <1>1, <1>2 DEF CheckInv
<1> QED
  BY <1>3, <1>4, <1>5, <1>6, <1>7, <1>8 DEF CheckInv

\* The inductive invariant of the checks of a recipe: while it is looked at the resolver
\* knows whether all went on as it should, its report is right, and the stream has
\* yielded what it has passed.
THEOREM ChecksInvariant == RecipesSpec => []CheckInv
<1>1. RecipesInit => CheckInv
  BY CheckBegins DEF RecipesInit
<1>2. CheckInv /\ [RecipesNext]_all_vars => CheckInv'
  <2> SUFFICES ASSUME CheckInv, [RecipesNext]_all_vars PROVE CheckInv'
    OBVIOUS
  <2>1. Checked => Accept \/ NoteError \/ FinishReport \/ StreamSegment \/ Cancel \/ EndOfStream
    BY DEF Checked, Next
  <2>2. RecipesNext => Checked \/ UNCHANGED vars
    BY Zenon DEF RecipesNext, NameChar, TargetFragment, RecipeFragment, CorpusHash, WrittenSegment,
                 Given
  <2>3. CASE RecipesNext
    BY <2>1, <2>2, <2>3, AcceptKeeps, NoteErrorKeeps, FinishReportKeeps, StreamSegmentKeeps,
       CancelKeeps, EndOfStreamKeeps, CheckStutterKeeps, Zenon
  <2>4. CASE UNCHANGED all_vars
    BY <2>4, CheckStutterKeeps DEF all_vars
  <2> QED BY <2>3, <2>4
<1> QED BY <1>1, <1>2, PTL DEF RecipesSpec

----------------------------------------------------------------------------
(* The two properties.                                                     *)

\* The bytes of some ranges.
LEMMA UnionIs ==
  ASSUME NEW list \in Seq(Ranges)
  PROVE  \A b : b \in UNION {RunBytes(r) : r \in ToSet(list)} <=> b \in Int /\ Covers(list, b)
<1>1. DOMAIN list = 1 .. Len(list) /\ \A i \in 1 .. Len(list) : list[i] \in Int \X Int
  BY DEF Ranges
<1>2. \A i \in 1 .. Len(list) : \A b : b \in RunBytes(list[i]) => b \in Int
  BY <1>1 DEF RunBytes
<1>3. ToSet(list) = {list[i] : i \in 1 .. Len(list)}
  BY <1>1 DEF ToSet
<1> QED BY <1>2, <1>3, Zenon DEF Covers

\* The report of a recipe says what it covers and what it leaves out.
LEMMA ReportCovers ==
  ASSUME CheckInv, Reported
  PROVE  CoverageIsExact
<1>1. RecipeTyped /\ total \in Nat /\ ranges \in Seq(Ranges) /\ ReportMade
  BY DEF CheckInv, RecipeTyped, Reported
<1>2. covered = Merged(ranges) /\ holes = HolesOf(covered)
  BY <1>1 DEF ReportMade
<1>3. /\ covered \in Seq(Ranges) /\ Separate(covered)
      /\ \A b \in Int : Covers(covered, b) <=> Covers(ranges, b)
  BY <1>1, <1>2, MergedIs
<1> DEFINE runs == UNION {RunBytes(r) : r \in ToSet(covered)}
           passed == UNION {RunBytes(r) : r \in ToSet(ranges)}
           rest == UNION {RunBytes(h) : h \in holes}
<1>4. \A b : b \in runs <=> b \in Int /\ Covers(covered, b)
  BY <1>3, UnionIs
<1>5. \A b : b \in passed <=> b \in Int /\ Covers(ranges, b)
  BY <1>1, UnionIs
<1>6. runs = passed
  <2> HIDE DEF runs, passed
  <2> QED BY <1>3, <1>4, <1>5
<1>7. \A b \in Int : b \in rest <=> b \in 0 .. total - 1 /\ ~Covers(covered, b)
  BY <1>1, <1>2, <1>3, HolesAre
<1>8. \A h \in holes : RunBytes(h) \subseteq Int
  <2> DEFINE start(i) == IF i = 1 THEN 0 ELSE covered[i - 1][2]
             stop(i)  == IF i > Len(covered) THEN total ELSE covered[i][1]
  <2>1. holes = {<<start(i), stop(i)>> : i \in {k \in 1 .. Len(covered) + 1 : start(k) < stop(k)}}
    BY <1>2 DEF HolesOf
  <2>2. Len(covered) \in Nat
    BY <1>3
  <2>3. \A i \in 1 .. Len(covered) : covered[i] \in Int \X Int
    BY <1>3 DEF Ranges
  <2>4. ASSUME NEW i \in 1 .. Len(covered) + 1 PROVE start(i) \in Int /\ stop(i) \in Int
    <3>1. i # 1 => i - 1 \in 1 .. Len(covered)
      BY <2>2
    <3>2. ~(i > Len(covered)) => i \in 1 .. Len(covered)
      BY <2>2
    <3> QED BY <1>1, <2>3, <3>1, <3>2
  <2> HIDE DEF start, stop
  <2>5. TAKE h \in holes
  <2>6. PICK i \in 1 .. Len(covered) + 1 : h = <<start(i), stop(i)>>
    BY <2>1
  <2> QED BY <2>4, <2>6 DEF RunBytes
<1>9. \A b : b \in rest <=> b \in 0 .. total - 1 /\ ~Covers(covered, b)
  <2>1. \A b : b \in rest => b \in Int
    BY <1>8
  <2>2. \A b : b \in 0 .. total - 1 => b \in Int
    OBVIOUS
  <2> HIDE DEF rest
  <2> QED BY <1>7, <2>1, <2>2
<1>10. \A b \in Int : Covers(covered, b) => b \in 0 .. total - 1
  <2> SUFFICES ASSUME NEW b \in Int, NEW i \in 1 .. Len(covered), b \in RunBytes(covered[i])
               PROVE  b \in 0 .. total - 1
    BY DEF Covers
  <2>1. covered[i] \in Ranges
    BY <1>3
  <2> QED BY <1>1, <2>1 DEF Ranges, RunBytes
<1>11. runs \cup rest = 0 .. total - 1 /\ runs \cap rest = {}
  <2>1. \A b : b \in 0 .. total - 1 => b \in Int
    OBVIOUS
  <2> DEFINE T == 0 .. total - 1
  <2>2. /\ \A b : b \in T => b \in Int
        /\ \A b \in Int : Covers(covered, b) => b \in T
        /\ \A b : b \in rest <=> b \in T /\ ~Covers(covered, b)
    BY <2>1, <1>9, <1>10
  <2> HIDE DEF runs, rest, T
  <2>3. runs \cup rest = T /\ runs \cap rest = {}
    BY <1>4, <2>2
  <2> QED BY <2>3 DEF T
<1>12. \A i \in 1 .. Len(covered) - 1 : covered[i][2] < covered[i + 1][1]
  <2>1. Len(covered) \in Nat
    BY <1>3
  <2> TAKE i \in 1 .. Len(covered) - 1
  <2>2. i \in 1 .. Len(covered) /\ i + 1 \in 1 .. Len(covered) /\ i < i + 1
    BY <2>1
  <2> QED BY <1>3, <2>2 DEF Separate
<1>13. structural => runs = UNION {Bytes(s) : s \in Listed}
  <2> SUFFICES ASSUME structural PROVE passed = UNION {Bytes(s) : s \in Listed}
    BY <1>6
  <2> DEFINE S == Sorted(segs)
             D == 1 .. Len(segs)
  <2>1. Listed = {S[k] : k \in D}
    BY <1>1, SortedIs, ArrangedIs
  <2>2. ranges = [k \in D |-> <<S[k].at, End(S[k])>>]
    BY <1>1 DEF ReportMade, RangesOf
  <2>3. ToSet(ranges) = {<<S[k].at, End(S[k])>> : k \in D}
    <3> HIDE DEF S, D
    <3> QED BY <2>2 DEF ToSet
  <2>4. \A k \in D : RunBytes(<<S[k].at, End(S[k])>>) = Bytes(S[k])
    BY DEF RunBytes, Bytes
  <2> DEFINE row(k) == <<S[k].at, End(S[k])>>
  <2>5. \A b : b \in passed <=> \E k \in D : b \in RunBytes(row(k))
    <3> HIDE DEF S, D, row
    <3>1. ToSet(ranges) = {row(k) : k \in D}
      BY <2>3 DEF row
    <3> QED BY <3>1
  <2>6. \A b : b \in UNION {Bytes(s) : s \in Listed} <=> \E k \in D : b \in Bytes(S[k])
    <3> HIDE DEF S, D
    <3> QED BY <2>1
  <2> HIDE DEF S, D, passed
  <2>7. \A k \in D : RunBytes(row(k)) = Bytes(S[k])
    BY <2>4
  <2> HIDE DEF row
  <2> QED BY <2>5, <2>6, <2>7
<1> HIDE DEF runs, passed, rest
<1>14. /\ runs = passed /\ runs \cup rest = 0 .. total - 1 /\ runs \cap rest = {}
       /\ \A i \in 1 .. Len(covered) - 1 : covered[i][2] < covered[i + 1][1]
       /\ structural => runs = UNION {Bytes(s) : s \in Listed}
  BY <1>6, <1>11, <1>12, <1>13
<1> QED BY <1>14, Zenon DEF CoverageIsExact, runs, passed, rest

\* The resolver accepts exactly the sound recipes, in whatever order their segments are
\* listed, and reports exactly what they cover and leave out.
THEOREM ReportsAreExact == RecipesSpec => []ReportIsExact
<1>1. CheckInv => ReportIsExact
  <2>1. CheckInv => ResolverIsExact
    BY DEF CheckInv, ResolverIsExact, Reported, ReportMade
  <2>2. CheckInv => CoverageIsExact
    BY ReportCovers DEF CoverageIsExact
  <2> QED BY <2>1, <2>2 DEF ReportIsExact
<1> QED BY <1>1, ChecksInvariant, PTL

\* A recipe that was accepted streams to its end, in the order of the target.
LEMMA AcceptedStream ==
  ASSUME CheckInv
  PROVE  AcceptedStreams
<1> SUFFICES ASSUME phase = "done"
             PROVE  /\ \A i \in 1 .. Len(out) - 1 : End(out[i]) <= out[i + 1].at
                    /\ UNION {Bytes(s) : s \in ToSet(out)} = UNION {RunBytes(r) : r \in ToSet(covered)}
                    /\ full => UNION {Bytes(s) : s \in ToSet(out)} = 0 .. total - 1
  BY DEF AcceptedStreams, CheckInv
<1> DEFINE S == Sorted(segs)
           n == Len(segs)
<1>1. RecipeTyped /\ structural /\ ReportMade /\ out = [k \in 1 .. n |-> S[k]]
  BY DEF CheckInv
<1>2. /\ n \in Nat /\ S \in [1 .. n -> Segments] /\ Listed = {S[k] : k \in 1 .. n}
  BY <1>1, SortedIs, ArrangedIs
<1>3. Sound
  BY <1>1 DEF ReportMade
<1>4. \A k \in 1 .. n : GoodAt(S, k)
  BY <1>1, <1>3, SortedIs, SoundIs
<1>5. \A i, k \in 1 .. n : i < k => End(S[i]) <= S[k].at
  <2> HIDE DEF S, n
  <2> QED BY <1>1, <1>2, <1>4, ChainIs
<1>6. Len(out) = n /\ ToSet(out) = Listed
  <2> HIDE DEF S, n
  <2>1. DOMAIN out = 1 .. n /\ out \in Seq(Segments)
    BY <1>1, <1>2
  <2>2. Len(out) = n
    BY <1>1, <1>2
  <2>3. ToSet(out) = {S[k] : k \in 1 .. n}
    BY <1>1 DEF ToSet
  <2> QED BY <1>2, <2>2, <2>3
<1>7. \A i \in 1 .. Len(out) - 1 : End(out[i]) <= out[i + 1].at
  <2> HIDE DEF S, n
  <2> SUFFICES ASSUME NEW i \in 1 .. n - 1 PROVE End(out[i]) <= out[i + 1].at
    BY <1>6
  <2>1. i \in 1 .. n /\ i + 1 \in 1 .. n /\ i < i + 1
    BY <1>2
  <2> QED BY <1>1, <1>5, <2>1
<1>8. CoverageIsExact /\ Reported
  BY ReportCovers DEF Reported
<1>9. UNION {Bytes(s) : s \in Listed} = UNION {RunBytes(r) : r \in ToSet(covered)}
  BY <1>1, <1>8, Zenon DEF CoverageIsExact
<1>10. full => UNION {Bytes(s) : s \in Listed} = 0 .. total - 1
  BY <1>3 DEF Sound
<1> QED BY <1>6, <1>7, <1>9, <1>10

\* What the resolver accepts streams to the end, each covered byte once and in the order
\* of the target, and the verifier, which sorts and checks by rules of its own, agrees.
THEOREM AcceptedRecipesRebuild == RecipesSpec => []AcceptedRebuilds
<1>1. CheckInv => AcceptedStreams
  BY AcceptedStream
<1>2. ASSUME CheckInv, Reported
      PROVE  /\ full /\ PlainSegments => (structural <=> VerifiesFully)
             /\ ~full /\ structural =>
                  VerifiedBytes = Cardinality(UNION {RunBytes(r) : r \in ToSet(covered)})
  <2>1. RecipeTyped /\ (structural <=> Sound)
    BY <1>2 DEF CheckInv, Reported, ReportMade
  <2>2. full /\ PlainSegments => (structural <=> VerifiesFully)
    BY <2>1, VerifiesSound
  <2>3. ASSUME structural
        PROVE  VerifiedBytes = Cardinality(UNION {RunBytes(r) : r \in ToSet(covered)})
    <3>1. /\ \A s \in Listed : InSource(s)
          /\ \A i, k \in DOMAIN segs : i # k => Bytes(segs[i]) \cap Bytes(segs[k]) = {}
      BY <2>1, <2>3 DEF Sound
    <3>2. \A s \in Listed : s.len > 0
      BY <3>1 DEF InSource
    <3>3. VerifiedBytes = Cardinality(UNION {Bytes(s) : s \in Listed})
      BY <2>1, <3>1, <3>2, VerifiedBytesIs
    <3>4. UNION {Bytes(s) : s \in Listed} = UNION {RunBytes(r) : r \in ToSet(covered)}
      BY <1>2, <2>3, ReportCovers, Zenon DEF CoverageIsExact
    <3> QED BY <3>3, <3>4
  <2> QED BY <2>2, <2>3
<1>3. CheckInv => CheckersAgree
  BY <1>2 DEF CheckersAgree
<1>4. CheckInv => AcceptedRebuilds
  BY <1>1, <1>3 DEF AcceptedRebuilds
<1> QED BY <1>4, ChecksInvariant, PTL

----------------------------------------------------------------------------
(* The two files of a recipe.                                              *)

\* A written segment is a record of its fields.
LEMMA WrittenIs ==
  ASSUME NEW s \in WrittenSegments
  PROVE  /\ s = [chain |-> s.chain, network |-> s.network, height |-> s.height, branch |-> s.branch,
                 hash |-> s.hash, tx |-> s.tx, verified |-> s.verified, grade |-> s.grade,
                 from |-> s.from, len |-> s.len, at |-> s.at]
         /\ s.height \in Int /\ s.from \in Int /\ s.len \in Int /\ s.at \in Int
BY RecipesAssumption

\* What the steps of a fold keep holds at its end.
LEMMA FoldKeeps ==
  ASSUME NEW n \in Nat, NEW A, NEW h, h[0] \in A, \A k \in 1 .. n : h[k - 1] \in A => h[k] \in A
  PROVE  \A k \in 0 .. n : h[k] \in A
<1> DEFINE W == {k \in Nat : h[k] \in A}
<1>1. 0 \in W
  OBVIOUS
<1>2. \A k \in 0 .. n - 1 : k \in W => k + 1 \in W
  <2> TAKE k \in 0 .. n - 1
  <2>1. k + 1 \in 1 .. n /\ (k + 1) - 1 = k /\ k + 1 \in Nat
    OBVIOUS
  <2> QED BY <2>1
<1> HIDE DEF W
<1>3. \A k \in 0 .. n : k \in W
  BY <1>1, <1>2, InductionTo
<1> QED BY <1>3 DEF W

\* The table as a function of the number of segments.
LEMMA TableSteps ==
  ASSUME NEW list \in Seq(WrittenSegments)
  PROVE  \E h : /\ h[0] = <<>> /\ Files!BlockTable(list) = h[Len(list)]
                /\ \A k \in 1 .. Len(list) :
                     /\ h[k - 1] \in Seq({Files!SourceOf(s) : s \in WrittenSegments})
                     /\ h[k] = Files!Interned(h[k - 1], list[k])
<1> DEFINE n == Len(list)
           D == 1 .. n
           A == Seq({Files!SourceOf(s) : s \in WrittenSegments})
           P(g) == g = [T \in SUBSET (DOMAIN list) |->
                          IF T = {} THEN <<>> ELSE Files!Interned(g[T \ {Files!Max(T)}], list[Files!Max(T)])]
           step == [x \in D \X A |-> Files!Interned(x[2], list[x[1]])]
<1>1. Files!BlockTable(list) = (CHOOSE g : P(g))[DOMAIN list]
  BY DEF Files!BlockTable, Files!FoldLeft, Files!MapThenFoldSet
<1>2. n \in Nat /\ DOMAIN list = D /\ \A k \in D : list[k] \in WrittenSegments
  OBVIOUS
<1> HIDE DEF n
<1>3. \A k \in D : \A v \in A : step[<<k, v>>] = Files!Interned(v, list[k])
  OBVIOUS
<1>4. \A k \in D : \A v \in A : Files!Interned(v, list[k]) \in A
  <2> TAKE k \in D
  <2> TAKE v \in A
  <2>1. Files!SourceOf(list[k]) \in {Files!SourceOf(s) : s \in WrittenSegments}
    BY <1>2
  <2>2. Append(v, Files!SourceOf(list[k])) \in A
    BY <2>1, AppendProperties
  <2> HIDE DEF A
  <2> QED BY <2>2 DEF Files!Interned
<1>5. step \in [D \X A -> A]
  <2> HIDE DEF D, A
  <2> QED BY <1>4
<1>6. <<>> \in A
  OBVIOUS
<1> HIDE DEF step, A
<1>7. PICK f \in [SUBSET D -> A] : Folds(f, n, <<>>, step)
  BY <1>2, <1>5, <1>6, FoldsExist
<1>8. P(f)
  <2>1. \A T \in SUBSET D : f[T] = IF T = {} THEN <<>> ELSE step[<<Max(T), f[T \ {Max(T)}]>>]
    BY <1>7 DEF Folds
  <2>2. ASSUME NEW T \in SUBSET D
        PROVE  f[T] = IF T = {} THEN <<>> ELSE Files!Interned(f[T \ {Max(T)}], list[Max(T)])
    <3>1. CASE T = {}
      BY <2>1, <3>1
    <3>2. CASE T # {}
      <4>1. Max(T) \in D /\ T \ {Max(T)} \in SUBSET D
        BY <1>2, <3>2, GreatestIs
      <4>2. f[T \ {Max(T)}] \in A
        BY <1>7, <4>1
      <4> QED BY <1>3, <2>1, <3>2, <4>1, <4>2
    <3> QED BY <3>1, <3>2
  <2>3. f = [T \in SUBSET D |-> f[T]]
    BY <1>7
  <2>4. \A T : Files!Max(T) = Max(T)
    BY DEF Files!Max, Max
  <2> QED BY <1>2, <2>2, <2>3, <2>4, Zenon
<1>9. PICK g : P(g) /\ Files!BlockTable(list) = g[D]
  BY <1>1, <1>2, <1>8
<1>10. \A T \in SUBSET D : g[T] = IF T = {} THEN <<>> ELSE Files!Interned(g[T \ {Max(T)}], list[Max(T)])
  <2>1. \A T : Files!Max(T) = Max(T)
    BY DEF Files!Max, Max
  <2> QED BY <1>2, <1>9, <2>1
<1> HIDE DEF P
<1> DEFINE h == [k \in 0 .. n |-> g[1 .. k]]
<1>11. h[0] = <<>> /\ h[n] = Files!BlockTable(list)
  <2>1. 1 .. 0 = {} /\ {} \in SUBSET D /\ 0 \in 0 .. n /\ n \in 0 .. n
    BY <1>2
  <2> QED BY <1>9, <1>10, <2>1
<1>12. \A k \in D : h[k] = Files!Interned(h[k - 1], list[k])
  <2> TAKE k \in D
  <2>1. /\ 1 .. k \in SUBSET D /\ 1 .. k # {} /\ k \in 0 .. n /\ k - 1 \in 0 .. n
        /\ Max(1 .. k) = k /\ (1 .. k) \ {k} = 1 .. k - 1
    BY <1>2, UpToIs
  <2> QED BY <1>10, <2>1
<1> HIDE DEF h
<1>13. \A k \in 0 .. n : h[k] \in A
  <2>1. \A k \in D : h[k - 1] \in A => h[k] \in A
    BY <1>4, <1>12
  <2> QED BY <1>2, <1>6, <1>11, <2>1, FoldKeeps
<1>14. \A k \in D : h[k - 1] \in A
  <2>1. \A k \in D : k - 1 \in 0 .. n
    BY <1>2
  <2> QED BY <1>13, <2>1
<1> QED BY <1>11, <1>12, <1>14 DEF A, n

\* Every source of the segments is in the table, so the machine file gives them back.
LEMMA MachineReturns ==
  ASSUME NEW list \in Seq(WrittenSegments)
  PROVE  Files!ReadMachine(Files!Machine(list)) = list
<1> DEFINE n == Len(list)
           D == 1 .. n
           S == {Files!SourceOf(s) : s \in WrittenSegments}
           table == Files!BlockTable(list)
           Has(t, s) == \E i \in DOMAIN t : Files!KeyOf(t[i]) = Files!KeyOf(s)
<1>1. n \in Nat /\ DOMAIN list = D /\ (\A k \in D : list[k] \in WrittenSegments) /\ list = [i \in D |-> list[i]]
  OBVIOUS
<1>2. PICK h : /\ h[0] = <<>> /\ table = h[n]
               /\ \A k \in D : h[k - 1] \in Seq(S) /\ h[k] = Files!Interned(h[k - 1], list[k])
  BY TableSteps
<1>3. \A s : Files!KeyOf(Files!SourceOf(s)) = Files!KeyOf(s)
  BY DEF Files!KeyOf, Files!SourceOf
<1> HIDE DEF table, n
<1>4. ASSUME NEW t \in Seq(S), NEW s \in WrittenSegments
      PROVE  /\ Has(Files!Interned(t, s), s)
             /\ \A r : Has(t, r) => Has(Files!Interned(t, s), r)
  <2>1. CASE Has(t, s)
    BY <2>1 DEF Files!Interned
  <2>2. CASE ~Has(t, s)
    <3> DEFINE e == Files!SourceOf(s)
               u == Append(t, e)
    <3>1. Files!Interned(t, s) = u
      BY <2>2 DEF Files!Interned
    <3>2. e \in S
      OBVIOUS
    <3> HIDE DEF S, e
    <3>3. /\ Len(t) \in Nat /\ DOMAIN t = 1 .. Len(t) /\ DOMAIN u = 1 .. Len(t) + 1
          /\ u[Len(t) + 1] = e /\ \A i \in 1 .. Len(t) : u[i] = t[i]
      BY <3>2, AppendProperties
    <3>4. Len(t) + 1 \in DOMAIN u /\ \A i \in DOMAIN t : i \in DOMAIN u
      BY <3>3
    <3>5. Files!KeyOf(e) = Files!KeyOf(s)
      BY <1>3 DEF e
    <3> HIDE DEF u
    <3> QED BY <3>1, <3>3, <3>4, <3>5
  <2> QED BY <2>1, <2>2
<1> HIDE DEF S, Has
<1> DEFINE W == {k \in Nat : \A j \in 1 .. k : Has(h[k], list[j])}
<1>5. 0 \in W
  OBVIOUS
<1>6. ASSUME NEW m \in 0 .. n - 1, m \in W PROVE m + 1 \in W
  <2>1. PICK k : k = m + 1
    OBVIOUS
  <2>2. k \in D /\ k - 1 = m /\ k \in Nat /\ \A j \in 1 .. k : j \in 1 .. m \/ j = k
    BY <1>1, <2>1
  <2>3. h[m] \in Seq(S) /\ h[k] = Files!Interned(h[m], list[k]) /\ list[k] \in WrittenSegments
    BY <1>1, <1>2, <2>2
  <2>4. \A j \in 1 .. m : Has(h[m], list[j])
    BY <1>6
  <2> HIDE DEF W
  <2>5. \A j \in 1 .. k : Has(h[k], list[j])
    BY <1>4, <2>2, <2>3, <2>4
  <2> QED BY <2>1, <2>2, <2>5 DEF W
<1> HIDE DEF W
<1>7. \A j \in D : Has(table, list[j])
  <2>1. n \in W
    <3>1. \A k \in 0 .. n : k \in W
      BY <1>1, <1>5, <1>6, InductionTo
    <3> QED BY <1>1, <3>1
  <2> QED BY <1>2, <2>1 DEF W
<1> DEFINE row(i) == Files!Row(table, list[i])
           rows == [i \in D |-> row(i)]
           read(i) == [chain |-> table[row(i).block].chain, network |-> table[row(i).block].network,
                       height |-> table[row(i).block].height, branch |-> table[row(i).block].branch,
                       hash |-> table[row(i).block].hash, tx |-> table[row(i).block].tx,
                       verified |-> table[row(i).block].verified, grade |-> table[row(i).block].grade,
                       from |-> row(i).from, len |-> row(i).len, at |-> row(i).at]
<1>8. Files!ReadMachine(Files!Machine(list)) = [i \in D |-> read(i)]
  <2>1. Files!Machine(list) = [block_table |-> table, rows |-> rows]
    BY <1>1 DEF Files!Machine, table
  <2>2. DOMAIN rows = D /\ \A i \in D : rows[i] = row(i)
    OBVIOUS
  <2>3. PICK file : file = Files!Machine(list)
    OBVIOUS
  <2> HIDE DEF rows, row
  <2>4. file.block_table = table /\ file.rows = rows
    BY <2>1, <2>3
  <2> HIDE DEF D
  <2>5. Files!ReadMachine(file) = [i \in D |-> read(i)]
    BY <2>2, <2>4 DEF Files!ReadMachine
  <2> QED BY <2>3, <2>5
<1>9. \A i \in D : read(i) = list[i]
  <2> TAKE i \in D
  <2> DEFINE s == list[i]
             b == table[row(i).block]
  <2>1. /\ row(i).block = CHOOSE j \in DOMAIN table : Files!KeyOf(table[j]) = Files!KeyOf(s)
        /\ row(i).from = s.from /\ row(i).len = s.len /\ row(i).at = s.at
    BY DEF Files!Row
  <2>2. Files!KeyOf(b) = Files!KeyOf(s)
    BY <1>7, <2>1, Zenon DEF Has
  <2> HIDE DEF b, s
  <2>3. /\ b.chain = s.chain /\ b.network = s.network /\ b.height = s.height /\ b.branch = s.branch
        /\ b.hash = s.hash /\ b.verified = s.verified /\ b.grade = s.grade /\ b.tx = s.tx
    BY <2>2 DEF Files!KeyOf
  <2>4. s = [chain |-> s.chain, network |-> s.network, height |-> s.height, branch |-> s.branch,
             hash |-> s.hash, tx |-> s.tx, verified |-> s.verified, grade |-> s.grade,
             from |-> s.from, len |-> s.len, at |-> s.at]
    BY <1>1, WrittenIs DEF s
  <2>5. read(i) = [chain |-> b.chain, network |-> b.network, height |-> b.height, branch |-> b.branch,
                   hash |-> b.hash, tx |-> b.tx, verified |-> b.verified, grade |-> b.grade,
                   from |-> row(i).from, len |-> row(i).len, at |-> row(i).at]
    BY DEF b
  <2> HIDE DEF row
  <2> QED BY <2>1, <2>3, <2>4, <2>5, SMTT(30) DEF s
<1> HIDE DEF read
<1> QED BY <1>1, <1>8, <1>9

\* The lines of a human recipe, and what the reader knows between two of them.
Chains  == {s.chain : s \in WrittenSegments} \cup {NoSection}
Lines   == {Files!Section(c) : c \in Chains} \cup {Files!Selector(s) : s \in WrittenSegments}
             \cup {Files!Close, Files!TargetLine}
Written == [chain : Chains, lines : Seq(Lines)]
Parsed  == [chain : Chains, network : {"mainnet"}, height : Int,
            branch : {s.branch : s \in WrittenSegments} \cup {0},
            hash : {s.hash : s \in WrittenSegments}, tx : {s.tx : s \in WrittenSegments},
            verified : {TRUE}, grade : {Files!Verified, Files!Unverified},
            from : Int, len : Int, at : Int]
Reader  == [chain : Chains, at : Int, segs : Seq(Parsed)]

WriterStart == [chain |-> NoSection, lines |-> <<>>]
ReaderStart == [chain |-> NoSection, at |-> 0, segs |-> <<>>]

\* One segment more for the writer, one line more for the reader.
LEMMA WriterStep ==
  ASSUME NEW st \in Written, NEW s \in WrittenSegments
  PROVE  /\ Files!Written(st, s) \in Written
         /\ Files!Written(st, s).chain = s.chain
         /\ Files!Selector(s) \in Lines /\ Files!Close \in Lines /\ Files!Section(s.chain) \in Lines
<1> DEFINE x == IF st.chain \in {s.chain, NoSection} THEN <<>> ELSE <<Files!Close>>
           y == IF st.chain = s.chain THEN <<>> ELSE <<Files!Section(s.chain)>>
           z == <<Files!Selector(s)>>
<1>1. Files!Selector(s) \in Lines /\ Files!Close \in Lines /\ Files!Section(s.chain) \in Lines
  BY DEF Lines, Chains
<1>2. st.lines \in Seq(Lines) /\ s.chain \in Chains
  BY DEF Written, Chains
<1>3. Files!Written(st, s) = [chain |-> s.chain, lines |-> st.lines \o x \o y \o z]
  BY DEF Files!Written
<1>4. x \in Seq(Lines) /\ y \in Seq(Lines) /\ z \in Seq(Lines)
  BY <1>1
<1> HIDE DEF x, y, z
<1>5. st.lines \o x \o y \o z \in Seq(Lines)
  BY <1>2, <1>4, ConcatProperties
<1> QED BY <1>1, <1>2, <1>3, <1>5 DEF Written

\* A line of the selector file leaves its reader in one of its states.
LEMMA ReaderStep ==
  ASSUME NEW st \in Reader, NEW l \in Lines
  PROVE  Files!ReadLine(st, l) \in Reader
<1>1. st.chain \in Chains /\ st.at \in Int /\ st.segs \in Seq(Parsed) /\ NoSection \in Chains
  BY DEF Reader, Chains
<1>2. CASE \E c \in Chains : l = Files!Section(c)
  <2>1. PICK c \in Chains : l = Files!Section(c)
    BY <1>2
  <2>2. l.line = "section" /\ l.chain = c
    BY <2>1 DEF Files!Section
  <2>3. Files!ReadLine(st, l) = [st EXCEPT !.chain = c]
    BY <2>2 DEF Files!ReadLine, Files!IsSelector
  <2> QED BY <2>3 DEF Reader
<1>3. CASE l = Files!Close
  <2>1. l.line = "close"
    BY <1>3 DEF Files!Close
  <2>2. Files!ReadLine(st, l) = [st EXCEPT !.chain = NoSection]
    BY <2>1 DEF Files!ReadLine, Files!IsSelector
  <2> QED BY <1>1, <2>2 DEF Reader
<1>4. CASE l = Files!TargetLine
  <2>1. l.line = "target"
    BY <1>4 DEF Files!TargetLine
  <2>2. Files!ReadLine(st, l) = st
    BY <2>1 DEF Files!ReadLine, Files!IsSelector
  <2> QED BY <2>2
<1>5. CASE \E s \in WrittenSegments : l = Files!Selector(s)
  <2>1. PICK s \in WrittenSegments : l = Files!Selector(s)
    BY <1>5
  <2>2. /\ l.line = "selector" /\ l.tx = s.tx /\ l.hash = s.hash
        /\ l.height \in Int /\ l.branch \in {s.branch, 0}
        /\ l.first \in Int /\ l.last \in Int
    BY <2>1, WrittenIs DEF Files!Selector
  <2>3. CASE ~Files!IsSelector(l)
    <3>1. Files!ReadLine(st, l) = st
      BY <2>2, <2>3 DEF Files!ReadLine
    <3> QED BY <3>1
  <2>4. CASE Files!IsSelector(l)
    <3> DEFINE n == l.last - l.first + 1
               e == [chain |-> st.chain, network |-> "mainnet", height |-> l.height, branch |-> l.branch,
                     hash |-> l.hash, tx |-> l.tx, verified |-> TRUE,
                     grade |-> IF l.tx = NoTx THEN Files!Verified ELSE Files!Unverified,
                     from |-> l.first, len |-> n, at |-> st.at]
    <3>1. Files!ReadLine(st, l) = [st EXCEPT !.at = @ + n, !.segs = Append(@, e)]
      BY <2>2, <2>4 DEF Files!ReadLine
    <3>2. n \in Int /\ st.at + n \in Int
      BY <1>1, <2>2
    <3> HIDE DEF n
    <3>3. e \in Parsed
      BY <1>1, <2>2, <3>2 DEF Parsed
    <3> HIDE DEF e
    <3>4. Append(st.segs, e) \in Seq(Parsed)
      BY <1>1, <3>3, AppendProperties
    <3> QED BY <1>1, <3>1, <3>2, <3>4 DEF Reader
  <2> QED BY <2>3, <2>4
<1> QED BY <1>2, <1>3, <1>4, <1>5 DEF Lines

\* The writer's and the reader's states one after the other.
LEMMA WriterSteps ==
  ASSUME NEW list \in Seq(WrittenSegments)
  PROVE  \E h : /\ h[0] = WriterStart
                /\ Files!Text(list) = h[Len(list)].lines \o (IF list = <<>> THEN <<>> ELSE <<Files!Close>>)
                                        \o <<Files!TargetLine>>
                /\ \A k \in 1 .. Len(list) : h[k] = Files!Written(h[k - 1], list[k])
                /\ \A k \in 0 .. Len(list) : h[k] \in Written
<1> DEFINE n == Len(list)
           D == 1 .. n
           P(g) == g = [T \in SUBSET (DOMAIN list) |->
                          IF T = {} THEN WriterStart
                          ELSE Files!Written(g[T \ {Files!Max(T)}], list[Files!Max(T)])]
           last == (CHOOSE g : P(g))[DOMAIN list]
           step == [x \in D \X Written |-> Files!Written(x[2], list[x[1]])]
<1>1. Files!Text(list) = last.lines \o (IF list = <<>> THEN <<>> ELSE <<Files!Close>>) \o <<Files!TargetLine>>
  BY DEF Files!Text, Files!FoldLeft, Files!MapThenFoldSet, WriterStart
<1>2. n \in Nat /\ DOMAIN list = D /\ \A k \in D : list[k] \in WrittenSegments
  OBVIOUS
<1> HIDE DEF n
<1>3. \A k \in D : \A v \in Written : step[<<k, v>>] = Files!Written(v, list[k])
  OBVIOUS
<1>4. \A k \in D : \A v \in Written : Files!Written(v, list[k]) \in Written
  BY <1>2, WriterStep
<1>5. step \in [D \X Written -> Written]
  <2> HIDE DEF D
  <2> QED BY <1>4
<1>6. WriterStart \in Written
  BY DEF WriterStart, Written, Chains
<1>7. \A T : Files!Max(T) = Max(T)
  BY DEF Files!Max, Max
<1> HIDE DEF step
<1>8. PICK f \in [SUBSET D -> Written] : Folds(f, n, WriterStart, step)
  BY <1>2, <1>5, <1>6, FoldsExist
<1>9. P(f)
  <2>1. \A T \in SUBSET D : f[T] = IF T = {} THEN WriterStart ELSE step[<<Max(T), f[T \ {Max(T)}]>>]
    BY <1>8 DEF Folds
  <2>2. ASSUME NEW T \in SUBSET D
        PROVE  f[T] = IF T = {} THEN WriterStart ELSE Files!Written(f[T \ {Max(T)}], list[Max(T)])
    <3>1. CASE T = {}
      BY <2>1, <3>1
    <3>2. CASE T # {}
      <4>1. Max(T) \in D /\ T \ {Max(T)} \in SUBSET D
        BY <1>2, <3>2, GreatestIs
      <4>2. f[T \ {Max(T)}] \in Written
        BY <1>8, <4>1
      <4> QED BY <1>3, <2>1, <3>2, <4>1, <4>2
    <3> QED BY <3>1, <3>2
  <2>3. f = [T \in SUBSET D |-> f[T]]
    BY <1>8
  <2> QED BY <1>2, <1>7, <2>2, <2>3, Zenon
<1>10. PICK g : P(g) /\ last = g[D]
  BY <1>2, <1>9
<1>11. \A T \in SUBSET D : g[T] = IF T = {} THEN WriterStart ELSE Files!Written(g[T \ {Max(T)}], list[Max(T)])
  BY <1>2, <1>7, <1>10
<1> HIDE DEF P, last
<1> DEFINE h == [k \in 0 .. n |-> g[1 .. k]]
<1>12. h[0] = WriterStart /\ h[n] = last
  <2>1. 1 .. 0 = {} /\ {} \in SUBSET D /\ 0 \in 0 .. n /\ n \in 0 .. n
    BY <1>2
  <2> QED BY <1>10, <1>11, <2>1
<1>13. \A k \in D : h[k] = Files!Written(h[k - 1], list[k])
  <2> TAKE k \in D
  <2>1. /\ 1 .. k \in SUBSET D /\ 1 .. k # {} /\ k \in 0 .. n /\ k - 1 \in 0 .. n
        /\ Max(1 .. k) = k /\ (1 .. k) \ {k} = 1 .. k - 1
    BY <1>2, UpToIs
  <2> QED BY <1>11, <2>1
<1> HIDE DEF h
<1>14. \A k \in 0 .. n : h[k] \in Written
  <2>1. \A k \in D : h[k - 1] \in Written => h[k] \in Written
    BY <1>4, <1>13
  <2> QED BY <1>2, <1>6, <1>12, <2>1, FoldKeeps
<1> QED BY <1>1, <1>12, <1>13, <1>14 DEF n

\* Reading a text is a fold of its lines.
LEMMA ReaderSteps ==
  ASSUME NEW text \in Seq(Lines)
  PROVE  \E h : /\ h[0] = ReaderStart /\ Files!ReadText(text) = h[Len(text)].segs
                /\ \A k \in 1 .. Len(text) : h[k] = Files!ReadLine(h[k - 1], text[k])
<1> DEFINE n == Len(text)
           D == 1 .. n
           P(g) == g = [T \in SUBSET (DOMAIN text) |->
                          IF T = {} THEN ReaderStart
                          ELSE Files!ReadLine(g[T \ {Files!Max(T)}], text[Files!Max(T)])]
           step == [x \in D \X Reader |-> Files!ReadLine(x[2], text[x[1]])]
<1>1. Files!ReadText(text) = (CHOOSE g : P(g))[DOMAIN text].segs
  BY DEF Files!ReadText, Files!FoldLeft, Files!MapThenFoldSet, ReaderStart
<1>2. n \in Nat /\ DOMAIN text = D /\ \A k \in D : text[k] \in Lines
  OBVIOUS
<1> HIDE DEF n
<1>3. \A k \in D : \A v \in Reader : step[<<k, v>>] = Files!ReadLine(v, text[k])
  OBVIOUS
<1>4. \A k \in D : \A v \in Reader : Files!ReadLine(v, text[k]) \in Reader
  BY <1>2, ReaderStep
<1>5. step \in [D \X Reader -> Reader]
  <2> HIDE DEF D
  <2> QED BY <1>4
<1>6. ReaderStart \in Reader
  BY DEF ReaderStart, Reader, Chains
<1>7. \A T : Files!Max(T) = Max(T)
  BY DEF Files!Max, Max
<1> HIDE DEF step
<1>8. PICK f \in [SUBSET D -> Reader] : Folds(f, n, ReaderStart, step)
  BY <1>2, <1>5, <1>6, FoldsExist
<1>9. P(f)
  <2>1. \A T \in SUBSET D : f[T] = IF T = {} THEN ReaderStart ELSE step[<<Max(T), f[T \ {Max(T)}]>>]
    BY <1>8 DEF Folds
  <2>2. ASSUME NEW T \in SUBSET D
        PROVE  f[T] = IF T = {} THEN ReaderStart ELSE Files!ReadLine(f[T \ {Max(T)}], text[Max(T)])
    <3>1. CASE T = {}
      BY <2>1, <3>1
    <3>2. CASE T # {}
      <4>1. Max(T) \in D /\ T \ {Max(T)} \in SUBSET D
        BY <1>2, <3>2, GreatestIs
      <4>2. f[T \ {Max(T)}] \in Reader
        BY <1>8, <4>1
      <4> QED BY <1>3, <2>1, <3>2, <4>1, <4>2
    <3> QED BY <3>1, <3>2
  <2>3. f = [T \in SUBSET D |-> f[T]]
    BY <1>8
  <2> QED BY <1>2, <1>7, <2>2, <2>3, Zenon
<1>10. PICK g : P(g) /\ Files!ReadText(text) = g[D].segs
  BY <1>1, <1>2, <1>9
<1>11. \A T \in SUBSET D : g[T] = IF T = {} THEN ReaderStart ELSE Files!ReadLine(g[T \ {Max(T)}], text[Max(T)])
  BY <1>2, <1>7, <1>10
<1> HIDE DEF P
<1> DEFINE h == [k \in 0 .. n |-> g[1 .. k]]
<1>12. h[0] = ReaderStart /\ Files!ReadText(text) = h[n].segs
  <2>1. 1 .. 0 = {} /\ {} \in SUBSET D /\ 0 \in 0 .. n /\ n \in 0 .. n
    BY <1>2
  <2> QED BY <1>10, <1>11, <2>1
<1>13. \A k \in D : h[k] = Files!ReadLine(h[k - 1], text[k])
  <2> TAKE k \in D
  <2>1. /\ 1 .. k \in SUBSET D /\ 1 .. k # {} /\ k \in 0 .. n /\ k - 1 \in 0 .. n
        /\ Max(1 .. k) = k /\ (1 .. k) \ {k} = 1 .. k - 1
    BY <1>2, UpToIs
  <2> QED BY <1>11, <2>1
<1> HIDE DEF h
<1> QED BY <1>12, <1>13 DEF n

\* The reader gets to a state by reading the lines.
Reads(text, st) ==
  \E r : /\ r[0] = ReaderStart /\ r[Len(text)] = st
         /\ \A j \in 1 .. Len(text) : r[j] = Files!ReadLine(r[j - 1], text[j])

\* A reader that has been given nothing is where it starts.
LEMMA ReadsNothing == Reads(<<>>, ReaderStart)
<1>1. [j \in {0} |-> ReaderStart][0] = ReaderStart /\ Len(<<>>) = 0 /\ 1 .. 0 = {}
  OBVIOUS
<1> QED BY <1>1 DEF Reads

\* What the reader makes of one more line follows from what it has read.
LEMMA ReadsMore ==
  ASSUME NEW text \in Seq(Lines), NEW st, Reads(text, st), NEW l \in Lines
  PROVE  Append(text, l) \in Seq(Lines) /\ Reads(Append(text, l), Files!ReadLine(st, l))
<1>1. PICK n : n = Len(text)
  OBVIOUS
<1>2. PICK more : more = Append(text, l)
  OBVIOUS
<1>3. /\ n \in Nat /\ more \in Seq(Lines) /\ Len(more) = n + 1
      /\ more[n + 1] = l /\ \A j \in 1 .. n : more[j] = text[j]
  BY <1>1, <1>2, AppendProperties
<1>4. PICK r : /\ r[0] = ReaderStart /\ r[n] = st
               /\ \A j \in 1 .. n : r[j] = Files!ReadLine(r[j - 1], text[j])
  BY <1>1 DEF Reads
<1> DEFINE q == [j \in 0 .. n + 1 |-> IF j = n + 1 THEN Files!ReadLine(st, l) ELSE r[j]]
<1>5. /\ q[0] = r[0] /\ q[n + 1] = Files!ReadLine(st, l)
      /\ \A j \in 0 .. n : q[j] = r[j]
  BY <1>3
<1> HIDE DEF q
<1>6. \A j \in 1 .. n + 1 : q[j] = Files!ReadLine(q[j - 1], more[j])
  <2> TAKE j \in 1 .. n + 1
  <2>1. CASE j = n + 1
    <3>1. j - 1 = n /\ n \in 0 .. n
      BY <1>3, <2>1
    <3> QED BY <1>3, <1>4, <1>5, <2>1, <3>1
  <2>2. CASE j # n + 1
    <3>1. j \in 1 .. n /\ j \in 0 .. n /\ j - 1 \in 0 .. n
      BY <1>3, <2>2
    <3> QED BY <1>3, <1>4, <1>5, <3>1
  <2> QED BY <2>1, <2>2
<1> QED BY <1>2, <1>3, <1>4, <1>5, <1>6 DEF Reads

\* There is one such state, and parse_bnp returns its segments.
LEMMA ReadsReturns ==
  ASSUME NEW text \in Seq(Lines), NEW st, Reads(text, st)
  PROVE  Files!ReadText(text) = st.segs
<1>1. PICK n : n = Len(text) /\ n \in Nat
  OBVIOUS
<1>2. PICK h : /\ h[0] = ReaderStart /\ Files!ReadText(text) = h[n].segs
               /\ \A k \in 1 .. n : h[k] = Files!ReadLine(h[k - 1], text[k])
  BY <1>1, ReaderSteps
<1>3. PICK r : /\ r[0] = ReaderStart /\ r[n] = st
               /\ \A j \in 1 .. n : r[j] = Files!ReadLine(r[j - 1], text[j])
  BY <1>1 DEF Reads
<1> DEFINE W == {k \in Nat : h[k] = r[k]}
<1>4. 0 \in W
  BY <1>2, <1>3
<1>5. \A k \in 0 .. n - 1 : k \in W => k + 1 \in W
  <2> TAKE k \in 0 .. n - 1
  <2>1. k + 1 \in 1 .. n /\ (k + 1) - 1 = k /\ k + 1 \in Nat
    BY <1>1
  <2> QED BY <1>2, <1>3, <2>1
<1> HIDE DEF W
<1>6. n \in W
  <2>1. \A k \in 0 .. n : k \in W
    BY <1>1, <1>4, <1>5, InductionTo
  <2> QED BY <1>1, <2>1
<1> QED BY <1>2, <1>3, <1>6 DEF W

\* Each written segment starts where the one before it ends.
Contiguous(list) ==
  \A k \in 1 .. Len(list) : list[k].at = IF k = 1 THEN 0 ELSE End(list[k - 1])

\* What the reader makes of a selector.
Read(s) ==
  [chain |-> s.chain, network |-> "mainnet", height |-> Files!Selector(s).height,
   branch |-> Files!Selector(s).branch, hash |-> s.hash, tx |-> s.tx, verified |-> TRUE,
   grade |-> IF s.tx = NoTx THEN Files!Verified ELSE Files!Unverified,
   from |-> s.from, len |-> s.len, at |-> s.at]

\* The state of the reader behind the lines of the first k segments.
ReadUpTo(list, k) ==
  [chain |-> IF k = 0 THEN NoSection ELSE list[k].chain,
   at |-> IF k = 0 THEN 0 ELSE End(list[k]),
   segs |-> [i \in 1 .. k |-> Read(list[i])]]

\* A segment's selector, read behind the segments before it.
LEMMA SelectorReads ==
  ASSUME NEW list \in Seq(WrittenSegments), Contiguous(list), Files!Selectable(list),
         NEW k \in 1 .. Len(list)
  PROVE  Files!ReadLine([ReadUpTo(list, k - 1) EXCEPT !.chain = list[k].chain], Files!Selector(list[k]))
           = ReadUpTo(list, k)
<1> DEFINE s == list[k]
           st == [ReadUpTo(list, k - 1) EXCEPT !.chain = s.chain]
           l == Files!Selector(s)
           n == l.last - l.first + 1
<1>1. s \in WrittenSegments /\ s.from \in Int /\ s.len \in Int /\ s.at \in Int /\ s.height \in Int
  BY WrittenIs
<1>2. /\ l.line = "selector" /\ l.tx = s.tx /\ l.hash = s.hash
      /\ l.first = s.from /\ l.last = s.from + s.len - 1
  BY DEF Files!Selector
<1>3. n = s.len
  BY <1>1, <1>2
<1>4. Files!IsSelector(l)
  <2>1. k \in DOMAIN list
    BY LenProperties
  <2>2. l.tx = NoTx => l.height = s.height /\ s.height >= 0
    BY <1>2, <2>1 DEF Files!Selectable, Files!Selector
  <2> QED BY <1>2, <2>2 DEF Files!IsSelector
<1>5. st.at = s.at /\ st.chain = s.chain /\ st.segs = [i \in 1 .. k - 1 |-> Read(list[i])]
  <2>1. ReadUpTo(list, k - 1).at = s.at
    BY DEF Contiguous, ReadUpTo
  <2> QED BY <2>1 DEF ReadUpTo
<1>6. st = [chain |-> s.chain, at |-> s.at, segs |-> [i \in 1 .. k - 1 |-> Read(list[i])]]
  <2>1. ReadUpTo(list, k - 1).at = s.at
    BY DEF Contiguous, ReadUpTo
  <2>2. PICK c : ReadUpTo(list, k - 1) = [chain |-> c, at |-> ReadUpTo(list, k - 1).at,
                                          segs |-> [i \in 1 .. k - 1 |-> Read(list[i])]]
    BY DEF ReadUpTo
  <2>3. PICK q : q = [i \in 1 .. k - 1 |-> Read(list[i])]
    OBVIOUS
  <2> HIDE DEF s
  <2>4. ReadUpTo(list, k - 1) = [chain |-> c, at |-> s.at, segs |-> q]
    BY <2>1, <2>2, <2>3
  <2>5. st = [chain |-> s.chain, at |-> s.at, segs |-> q]
    BY <2>4
  <2> QED BY <2>3, <2>5
<1> DEFINE e == [chain |-> st.chain, network |-> "mainnet", height |-> l.height, branch |-> l.branch,
                 hash |-> l.hash, tx |-> l.tx, verified |-> TRUE,
                 grade |-> IF l.tx = NoTx THEN Files!Verified ELSE Files!Unverified,
                 from |-> l.first, len |-> n, at |-> st.at]
<1>7. Files!ReadLine(st, l) = [st EXCEPT !.at = @ + n, !.segs = Append(@, e)]
  BY <1>2, <1>4 DEF Files!ReadLine
<1>8. e = Read(s)
  BY <1>2, <1>3, <1>5 DEF Read
<1>9. Append([i \in 1 .. k - 1 |-> Read(list[i])], Read(s)) = [i \in 1 .. k |-> Read(list[i])]
  <2>1. PICK m : m = k - 1
    OBVIOUS
  <2>2. m \in Nat /\ k = m + 1
    BY <2>1
  <2> DEFINE R == {Read(x) : x \in WrittenSegments}
             head == [i \in 1 .. m |-> Read(list[i])]
             all == [i \in 1 .. m + 1 |-> Read(list[i])]
  <2>3. \A i \in 1 .. m + 1 : Read(list[i]) \in R
    BY <2>2
  <2> HIDE DEF R
  <2>4. head \in Seq(R) /\ Len(head) = m /\ all \in Seq(R) /\ Len(all) = m + 1
    BY <2>2, <2>3
  <2>5. Read(s) \in R /\ all[m + 1] = Read(s) /\ \A i \in 1 .. m : head[i] = all[i]
    BY <2>2, <2>3
  <2> HIDE DEF head, all
  <2>6. PICK new : new = Append(head, Read(s))
    OBVIOUS
  <2>7. /\ new \in Seq(R) /\ Len(new) = m + 1
        /\ \A i \in 1 .. m + 1 : new[i] = IF i <= m THEN head[i] ELSE Read(s)
    <3> HIDE DEF s
    <3> QED BY <2>4, <2>5, <2>6, AppendProperties
  <2>8. \A i \in 1 .. Len(new) : new[i] = all[i]
    <3> TAKE i \in 1 .. Len(new)
    <3>1. i \in 1 .. m + 1 /\ (i <= m => i \in 1 .. m) /\ (~(i <= m) => i = m + 1)
      BY <2>2, <2>7
    <3> QED BY <2>5, <2>7, <3>1
  <2>9. new = all
    BY <2>4, <2>7, <2>8, SeqEqual
  <2> QED BY <2>1, <2>2, <2>6, <2>9 DEF head, all
<1>10. ReadUpTo(list, k) = [chain |-> s.chain, at |-> s.at + s.len, segs |-> [i \in 1 .. k |-> Read(list[i])]]
  BY <1>1 DEF ReadUpTo, End
<1> HIDE DEF e, l, n
<1>11. Files!ReadLine(st, l) = [chain |-> s.chain, at |-> s.at + n,
                                segs |-> Append([i \in 1 .. k - 1 |-> Read(list[i])], e)]
  <2> HIDE DEF st, s
  <2> QED BY <1>6, <1>7
<1> QED BY <1>3, <1>8, <1>9, <1>10, <1>11 DEF l

\* A text and one more line.
LEMMA ConcatOne ==
  ASSUME NEW S, NEW text \in Seq(S), NEW e \in S
  PROVE  text \o <<e>> = Append(text, e) /\ text \o <<>> = text
<1>1. PICK n : n = Len(text) /\ n \in Nat
  OBVIOUS
<1>2. PICK one : one = <<e>>
  OBVIOUS
<1>3. one \in Seq(S) /\ Len(one) = 1 /\ one[1] = e
  BY <1>2
<1>4. PICK a, b : a = text \o one /\ b = Append(text, e)
  OBVIOUS
<1>5. a \in Seq(S) /\ Len(a) = n + 1 /\ \A i \in 1 .. n + 1 : a[i] = IF i <= n THEN text[i] ELSE one[i - n]
  <2>1. /\ a \in Seq(S) /\ Len(a) = n + Len(one)
        /\ \A i \in 1 .. n + Len(one) : a[i] = IF i <= n THEN text[i] ELSE one[i - n]
    BY <1>1, <1>3, <1>4, ConcatProperties
  <2> QED BY <1>3, <2>1
<1>6. b \in Seq(S) /\ Len(b) = n + 1 /\ \A i \in 1 .. n + 1 : b[i] = IF i <= n THEN text[i] ELSE e
  BY <1>1, <1>4, AppendProperties
<1>7. \A i \in 1 .. Len(a) : a[i] = b[i]
  <2> TAKE i \in 1 .. Len(a)
  <2>1. i \in 1 .. n + 1 /\ (~(i <= n) => i - n = 1)
    BY <1>1, <1>5
  <2> QED BY <1>3, <1>5, <1>6, <2>1
<1>8. a = b
  BY <1>5, <1>6, <1>7, SeqEqual
<1> QED BY <1>2, <1>4, <1>8, ConcatEmptySeq

\* What the reader does at the lines between selectors.
LEMMA SectionReads ==
  ASSUME NEW st, NEW c
  PROVE  /\ Files!ReadLine(st, Files!Section(c)) = [st EXCEPT !.chain = c]
         /\ Files!ReadLine(st, Files!Close) = [st EXCEPT !.chain = NoSection]
         /\ Files!ReadLine(st, Files!TargetLine) = st
<1>1. /\ Files!Section(c).line = "section" /\ Files!Section(c).chain = c
      /\ Files!Close.line = "close" /\ Files!TargetLine.line = "target"
  BY DEF Files!Section, Files!Close, Files!TargetLine
<1> QED BY <1>1 DEF Files!ReadLine, Files!IsSelector

\* Behind the lines of a segment the reader has read the segment.
LEMMA SegmentReads ==
  ASSUME NEW list \in Seq(WrittenSegments), Contiguous(list), Files!Selectable(list),
         NEW k \in 1 .. Len(list), NEW st \in Written,
         st.chain = ReadUpTo(list, k - 1).chain, Reads(st.lines, ReadUpTo(list, k - 1))
  PROVE  Reads(Files!Written(st, list[k]).lines, ReadUpTo(list, k))
<1> DEFINE s == list[k]
           sel == Files!Selector(s)
           old == ReadUpTo(list, k - 1)
           x == IF st.chain \in {s.chain, NoSection} THEN <<>> ELSE <<Files!Close>>
           y == IF st.chain = s.chain THEN <<>> ELSE <<Files!Section(s.chain)>>
<1>1. /\ s \in WrittenSegments /\ st.lines \in Seq(Lines)
      /\ sel \in Lines /\ Files!Close \in Lines /\ Files!Section(s.chain) \in Lines
  BY WriterStep, SMTT(30) DEF Written
<1>2. Files!Written(st, s).lines = st.lines \o x \o y \o <<sel>>
  BY DEF Files!Written
<1>3. PICK text : text = st.lines \o x \o y
  OBVIOUS
<1>4. old = [chain |-> old.chain, at |-> old.at, segs |-> old.segs]
  BY DEF ReadUpTo
<1> HIDE DEF s, sel, old
<1>5. text \in Seq(Lines) /\ Reads(text, [old EXCEPT !.chain = s.chain])
  <2>1. CASE st.chain = s.chain
    <3>1. x = <<>> /\ y = <<>>
      BY <2>1
    <3>2. text = st.lines
      <4> HIDE DEF x, y
      <4> QED BY <1>1, <1>3, <3>1, ConcatEmptySeq
    <3>3. old = [old EXCEPT !.chain = s.chain]
      BY <1>4, <2>1 DEF old
    <3> QED BY <1>1, <3>2, <3>3 DEF old
  <2>2. CASE st.chain # s.chain /\ st.chain = NoSection
    <3>1. x = <<>> /\ y = <<Files!Section(s.chain)>>
      BY <2>2
    <3>2. text = Append(st.lines, Files!Section(s.chain))
      <4> HIDE DEF x, y
      <4> QED BY <1>1, <1>3, <3>1, ConcatOne
    <3>3. Files!ReadLine(old, Files!Section(s.chain)) = [old EXCEPT !.chain = s.chain]
      BY SectionReads
    <3> QED BY <1>1, <3>2, <3>3, ReadsMore DEF old
  <2>3. CASE st.chain # s.chain /\ st.chain # NoSection
    <3>1. x = <<Files!Close>> /\ y = <<Files!Section(s.chain)>>
      BY <2>3
    <3>2. PICK closed : closed = Append(st.lines, Files!Close)
      OBVIOUS
    <3>3. PICK mid : mid = [old EXCEPT !.chain = NoSection]
      OBVIOUS
    <3>4. closed \in Seq(Lines) /\ Reads(closed, mid)
      <4>1. Files!ReadLine(old, Files!Close) = mid
        BY <3>3, SectionReads
      <4> QED BY <1>1, <3>2, <4>1, ReadsMore DEF old
    <3>5. text = Append(closed, Files!Section(s.chain))
      <4>1. st.lines \o x = closed
        BY <1>1, <3>1, <3>2, ConcatOne
      <4> HIDE DEF x, y
      <4>2. text = closed \o y
        BY <1>3, <4>1
      <4> QED BY <1>1, <3>1, <3>4, <4>2, ConcatOne
    <3>6. Files!ReadLine(mid, Files!Section(s.chain)) = [old EXCEPT !.chain = s.chain]
      <4>1. Files!ReadLine(mid, Files!Section(s.chain)) = [mid EXCEPT !.chain = s.chain]
        BY SectionReads
      <4>2. [mid EXCEPT !.chain = s.chain] = [old EXCEPT !.chain = s.chain]
        BY <1>4, <3>3
      <4> QED BY <4>1, <4>2
    <3>7. Append(closed, Files!Section(s.chain)) \in Seq(Lines)
      BY <1>1, <3>4, AppendProperties
    <3> QED BY <1>1, <3>4, <3>5, <3>6, <3>7, ReadsMore
  <2> QED BY <2>1, <2>2, <2>3
<1>6. Files!Written(st, s).lines = Append(text, sel)
  <2> HIDE DEF x, y
  <2> QED BY <1>1, <1>2, <1>3, <1>5, ConcatOne
<1>7. Files!ReadLine([old EXCEPT !.chain = s.chain], sel) = ReadUpTo(list, k)
  BY SelectorReads DEF old, s, sel
<1>8. Reads(Append(text, sel), Files!ReadLine([old EXCEPT !.chain = s.chain], sel))
  BY <1>1, <1>5, ReadsMore
<1> QED BY <1>6, <1>7, <1>8 DEF s

\* The human file gives back what it has.
LEMMA TextReturns ==
  ASSUME NEW list \in Seq(WrittenSegments), Contiguous(list), Files!Selectable(list)
  PROVE  Files!ReadText(Files!Text(list)) = [i \in 1 .. Len(list) |-> Read(list[i])]
<1>1. PICK n : n = Len(list) /\ n \in Nat
  OBVIOUS
<1>2. PICK h : /\ h[0] = WriterStart
               /\ Files!Text(list) = h[n].lines \o (IF list = <<>> THEN <<>> ELSE <<Files!Close>>)
                                        \o <<Files!TargetLine>>
               /\ \A k \in 1 .. n : h[k] = Files!Written(h[k - 1], list[k])
               /\ \A k \in 0 .. n : h[k] \in Written
  BY <1>1, WriterSteps
<1> DEFINE W == {k \in Nat : /\ h[k].chain = ReadUpTo(list, k).chain
                             /\ Reads(h[k].lines, ReadUpTo(list, k))}
<1>3. 0 \in W
  <2>1. ReadUpTo(list, 0) = ReaderStart
    BY DEF ReadUpTo, ReaderStart
  <2>2. h[0].chain = NoSection /\ h[0].lines = <<>>
    BY <1>2 DEF WriterStart
  <2> QED BY <2>1, <2>2, ReadsNothing DEF ReaderStart
<1>4. ASSUME NEW m \in 0 .. n - 1, m \in W PROVE m + 1 \in W
  <2>1. PICK k : k = m + 1
    OBVIOUS
  <2>2. k \in 1 .. n /\ k - 1 = m /\ k \in Nat /\ m \in 0 .. n /\ k # 0
    BY <1>1, <2>1
  <2>3. h[m].chain = ReadUpTo(list, k - 1).chain /\ Reads(h[m].lines, ReadUpTo(list, k - 1))
    BY <1>4, <2>2
  <2> HIDE DEF W
  <2>4. h[m] \in Written /\ h[k] = Files!Written(h[m], list[k]) /\ list[k] \in WrittenSegments
    BY <1>1, <1>2, <2>2
  <2>5. Reads(h[k].lines, ReadUpTo(list, k))
    BY <1>1, <2>2, <2>3, <2>4, SegmentReads
  <2>6. h[k].chain = ReadUpTo(list, k).chain
    <3>1. h[k].chain = list[k].chain
      BY <2>4, WriterStep
    <3> QED BY <2>2, <3>1 DEF ReadUpTo
  <2> QED BY <2>1, <2>2, <2>5, <2>6 DEF W
<1> HIDE DEF W
<1>5. Reads(h[n].lines, ReadUpTo(list, n)) /\ h[n].lines \in Seq(Lines)
  <2>1. n \in W
    <3>1. \A k \in 0 .. n : k \in W
      BY <1>1, <1>3, <1>4, InductionTo
    <3> QED BY <1>1, <3>1
  <2>2. h[n] \in Written
    BY <1>1, <1>2
  <2> QED BY <2>1, <2>2 DEF W, Written
<1>6. Files!Close \in Lines /\ Files!TargetLine \in Lines
  BY DEF Lines
<1>7. PICK text : text = h[n].lines \o (IF list = <<>> THEN <<>> ELSE <<Files!Close>>)
  OBVIOUS
<1>8. \E st : text \in Seq(Lines) /\ Reads(text, st) /\ st.segs = ReadUpTo(list, n).segs
  <2>1. CASE list = <<>>
    <3>1. text = h[n].lines
      BY <1>5, <1>7, <2>1, ConcatEmptySeq
    <3> QED BY <1>5, <3>1
  <2>2. CASE list # <<>>
    <3>1. text = Append(h[n].lines, Files!Close)
      BY <1>5, <1>6, <1>7, <2>2, ConcatOne
    <3>2. PICK st : st = Files!ReadLine(ReadUpTo(list, n), Files!Close)
      OBVIOUS
    <3>3. text \in Seq(Lines) /\ Reads(text, st)
      BY <1>5, <1>6, <3>1, <3>2, ReadsMore
    <3>4. st.segs = ReadUpTo(list, n).segs
      <4>1. st = [ReadUpTo(list, n) EXCEPT !.chain = NoSection]
        BY <3>2, SectionReads
      <4> QED BY <4>1 DEF ReadUpTo
    <3> QED BY <3>3, <3>4
  <2> QED BY <2>1, <2>2
<1>9. PICK st : text \in Seq(Lines) /\ Reads(text, st) /\ st.segs = ReadUpTo(list, n).segs
  BY <1>8
<1>10. Files!Text(list) = Append(text, Files!TargetLine)
  BY <1>2, <1>6, <1>7, <1>9, ConcatOne
<1>11. Append(text, Files!TargetLine) \in Seq(Lines) /\ Reads(Append(text, Files!TargetLine), st)
  <2>1. Files!ReadLine(st, Files!TargetLine) = st
    BY SectionReads
  <2> QED BY <1>6, <1>9, <2>1, ReadsMore
<1>12. Files!ReadText(Files!Text(list)) = st.segs
  BY <1>10, <1>11, ReadsReturns
<1> QED BY <1>1, <1>9, <1>12 DEF ReadUpTo

\* Both files give back what they have.
LEMMA BothFilesReturn ==
  ASSUME NEW list \in Seq(WrittenSegments), Contiguous(list)
  PROVE  Files!FilesReturn(list)
<1>1. Files!ReadMachine(Files!Machine(list)) = list
  BY MachineReturns
<1> DEFINE text == Files!ReadText(Files!Text(list))
<1>2. ASSUME Files!Selectable(list)
      PROVE  /\ Len(text) = Len(list)
             /\ \A i \in DOMAIN list :
                  /\ Files!Material(text[i]) = Files!Material(list[i])
                  /\ list[i].height >= 0 => Files!Place(text[i]) = Files!Place(list[i])
  <2>1. text = [i \in 1 .. Len(list) |-> Read(list[i])]
    BY <1>2, TextReturns
  <2>2. PICK n : n = Len(list) /\ n \in Nat /\ DOMAIN list = 1 .. n
    OBVIOUS
  <2> HIDE DEF text
  <2>3. Len(text) = n
    <3> DEFINE R == {Read(x) : x \in WrittenSegments}
    <3>1. \A i \in 1 .. n : Read(list[i]) \in R
      BY <2>2
    <3> HIDE DEF R
    <3> QED BY <2>1, <2>2, <3>1
  <2>4. ASSUME NEW i \in 1 .. n
        PROVE  /\ Files!Material(text[i]) = Files!Material(list[i])
               /\ list[i].height >= 0 => Files!Place(text[i]) = Files!Place(list[i])
    <3>1. text[i] = Read(list[i])
      BY <2>1, <2>2
    <3>2. list[i].height \in Int
      BY <2>2, WrittenIs
    <3>3. /\ text[i].hash = list[i].hash /\ text[i].tx = list[i].tx /\ text[i].from = list[i].from
          /\ text[i].len = list[i].len /\ text[i].at = list[i].at /\ text[i].chain = list[i].chain
      BY <3>1 DEF Read
    <3>4. list[i].height >= 0 => text[i].height = list[i].height /\ text[i].branch = list[i].branch
      BY <3>1, <3>2 DEF Read, Files!Selector
    <3> QED BY <3>3, <3>4 DEF Files!Material, Files!Place
  <2> QED BY <2>2, <2>3, <2>4
<1> QED BY <1>1, <1>2 DEF Files!FilesReturn

----------------------------------------------------------------------------
(* Sequences one after the other.                                          *)

\* FlattenSeq appends them one by one.
LEMMA FlatSteps ==
  ASSUME NEW S, NEW list \in Seq(Seq(S))
  PROVE  \E f : /\ f[0] = <<>> /\ f[Len(list)] = FlattenSeq(list)
                /\ \A k \in 1 .. Len(list) : f[k] = f[k - 1] \o list[k]
                /\ \A k \in 0 .. Len(list) : f[k] \in Seq(S)
<1> DEFINE n == Len(list)
           D == 1 .. n
           A == Seq(S)
           P(g) == g = [i \in D |-> IF i = 1 THEN list[i] ELSE g[i - 1] \o list[i]]
           step == [x \in D \X A |-> x[2] \o list[x[1]]]
<1>1. n \in Nat /\ (\A k \in D : list[k] \in A) /\ <<>> \in A
  OBVIOUS
<1>2. FlattenSeq(list) = IF n = 0 THEN list ELSE (CHOOSE g : P(g))[n]
  BY DEF FlattenSeq
<1>3. CASE n = 0
  <2>1. list = <<>>
    BY <1>3, EmptySeq
  <2> DEFINE f == [k \in {0} |-> <<>>]
  <2>2. f[0] = <<>> /\ 0 .. 0 = {0} /\ 1 .. 0 = {}
    OBVIOUS
  <2> HIDE DEF f
  <2>3. FlattenSeq(list) = <<>>
    BY <1>2, <1>3, <2>1
  <2>4. <<>> \in Seq(S)
    OBVIOUS
  <2>5. Len(list) = 0
    BY <1>3
  <2> HIDE DEF n, P
  <2> QED BY <2>2, <2>3, <2>4, <2>5
<1>4. CASE n # 0
  <2> HIDE DEF n
  <2>1. \A k \in D : \A v \in A : step[<<k, v>>] = v \o list[k]
    OBVIOUS
  <2>2. \A k \in D : \A v \in A : v \o list[k] \in A
    BY <1>1, ConcatProperties
  <2>3. step \in [D \X A -> A]
    <3> HIDE DEF D, A
    <3> QED BY <2>2
  <2> HIDE DEF step, A
  <2>4. PICK g \in [SUBSET D -> A] : Folds(g, n, <<>>, step)
    BY <1>1, <2>3, FoldsExist
  <2>5. \A T \in SUBSET D : g[T] = IF T = {} THEN <<>> ELSE step[<<Max(T), g[T \ {Max(T)}]>>]
    BY <2>4 DEF Folds
  <2> DEFINE f == [k \in 0 .. n |-> g[1 .. k]]
             q == [k \in D |-> f[k]]
  <2>6. f[0] = <<>>
    <3>1. 1 .. 0 = {} /\ {} \in SUBSET D /\ 0 \in 0 .. n
      BY <1>1
    <3> QED BY <2>5, <3>1
  <2>7. \A k \in 0 .. n : f[k] \in A
    <3>1. \A k \in 0 .. n : 1 .. k \in SUBSET D
      BY <1>1
    <3> QED BY <2>4, <3>1
  <2>8. \A k \in D : f[k] = f[k - 1] \o list[k]
    <3> TAKE k \in D
    <3>1. /\ 1 .. k \in SUBSET D /\ 1 .. k # {}
          /\ Max(1 .. k) = k /\ (1 .. k) \ {k} = 1 .. k - 1
      <4>1. n \in Nat
        BY <1>1
      <4> QED BY <4>1, UpToIs
    <3>2. k \in 0 .. n /\ k - 1 \in 0 .. n
      <4>1. n \in Nat
        BY <1>1
      <4> QED BY <4>1
    <3>3. f[k] = step[<<k, f[k - 1]>>] /\ f[k - 1] \in A
      <4>1. f[k] = g[1 .. k] /\ f[k - 1] = g[1 .. k - 1]
        BY <3>2
      <4>2. f[k - 1] \in A
        BY <2>7, <3>2
      <4> HIDE DEF f
      <4> QED BY <2>5, <3>1, <4>1, <4>2
    <3> HIDE DEF f
    <3> QED BY <2>1, <3>3
  <2> HIDE DEF f
  <2>9. P(q)
    <3>1. ASSUME NEW i \in D PROVE q[i] = IF i = 1 THEN list[i] ELSE q[i - 1] \o list[i]
      <4>1. CASE i = 1
        <5>1. f[1] = f[0] \o list[1] /\ list[1] \in A
          <6>1. 1 \in D /\ 1 - 1 = 0
            BY <4>1
          <6> QED BY <1>1, <2>8, <6>1
        <5>2. f[1] = list[1]
          BY <2>6, <5>1, ConcatEmptySeq DEF A
        <5> QED BY <4>1, <5>2
      <4>2. CASE i # 1
        <5>1. i - 1 \in D
          BY <1>1, <4>2
        <5> QED BY <2>8, <4>2, <5>1
      <4> QED BY <4>1, <4>2
    <3>2. q = [i \in D |-> q[i]]
      OBVIOUS
    <3> HIDE DEF q
    <3> QED BY <3>1, <3>2
  <2>10. PICK c : P(c) /\ FlattenSeq(list) = c[n]
    BY <1>2, <1>4, <2>9
  <2>11. \A i \in D : c[i] = IF i = 1 THEN list[i] ELSE c[i - 1] \o list[i]
    BY <2>10
  <2> HIDE DEF P
  <2> DEFINE W == {k \in Nat : k = 0 \/ c[k] = f[k]}
  <2>12. 0 \in W
    OBVIOUS
  <2>13. ASSUME NEW m \in 0 .. n - 1, m \in W PROVE m + 1 \in W
    <3>1. PICK k : k = m + 1
      OBVIOUS
    <3>2. k \in D /\ k - 1 = m /\ k \in Nat /\ (k = 1 <=> m = 0)
      BY <1>1, <3>1
    <3>3. m = 0 \/ c[m] = f[m]
      BY <2>13
    <3> HIDE DEF W
    <3>4. c[k] = f[k]
      <4>1. CASE m = 0
        <5>1. f[1] = <<>> \o list[1] /\ list[1] \in A
          BY <1>1, <2>6, <2>8, <3>2, <4>1
        <5>2. f[1] = list[1]
          BY <5>1, ConcatEmptySeq DEF A
        <5> QED BY <2>11, <3>2, <4>1, <5>2
      <4>2. CASE m # 0
        BY <2>8, <2>11, <3>2, <3>3, <4>2
      <4> QED BY <4>1, <4>2
    <3> QED BY <3>1, <3>2, <3>4 DEF W
  <2> HIDE DEF W
  <2>14. n \in W
    <3>1. \A k \in 0 .. n : k \in W
      BY <1>1, <2>12, <2>13, InductionTo
    <3> QED BY <1>1, <3>1
  <2>15. FlattenSeq(list) = f[n]
    BY <1>4, <2>10, <2>14 DEF W
  <2> QED BY <2>6, <2>7, <2>8, <2>15 DEF A, n
<1> QED BY <1>3, <1>4

\* Where they stand in it.
LEMMA FlatIs ==
  ASSUME NEW S, NEW list \in Seq(Seq(S))
  PROVE  /\ FlattenSeq(list) \in Seq(S)
         /\ \E at : /\ at[0] = 0 /\ at[Len(list)] = Len(FlattenSeq(list))
                    /\ \A k \in 0 .. Len(list) : at[k] \in Nat /\ at[k] <= at[Len(list)]
                    /\ \A k \in 1 .. Len(list) : at[k] = at[k - 1] + Len(list[k])
                    /\ \A k \in 1 .. Len(list) : \A j \in 1 .. Len(list[k]) :
                         FlattenSeq(list)[at[k - 1] + j] = list[k][j]
<1>1. PICK n : n = Len(list) /\ n \in Nat
  OBVIOUS
<1>2. PICK f : /\ f[0] = <<>> /\ f[n] = FlattenSeq(list)
               /\ \A k \in 1 .. n : f[k] = f[k - 1] \o list[k]
               /\ \A k \in 0 .. n : f[k] \in Seq(S)
  BY <1>1, FlatSteps
<1>3. \A k \in 1 .. n : list[k] \in Seq(S) /\ Len(list[k]) \in Nat
  BY <1>1
<1> DEFINE at == [k \in 0 .. n |-> Len(f[k])]
           Has(m) == /\ \A k \in 0 .. m : at[k] <= at[m]
                     /\ \A k \in 1 .. m : \A j \in 1 .. Len(list[k]) : f[m][at[k - 1] + j] = list[k][j]
<1>4. \A k \in 0 .. n : at[k] = Len(f[k]) /\ at[k] \in Nat
  BY <1>2
<1>5. at[0] = 0
  BY <1>1, <1>2
<1> HIDE DEF at
<1>6. \A k \in 1 .. n : /\ k - 1 \in 0 .. n /\ k \in 0 .. n
                        /\ at[k] = at[k - 1] + Len(list[k])
                        /\ \A i \in 1 .. at[k] : f[k][i] = IF i <= at[k - 1] THEN f[k - 1][i]
                                                           ELSE list[k][i - at[k - 1]]
  <2> TAKE k \in 1 .. n
  <2>1. k - 1 \in 0 .. n /\ k \in 0 .. n
    BY <1>1
  <2>2. PICK a, b, c : a = f[k - 1] /\ b = list[k] /\ c = a \o b
    OBVIOUS
  <2>3. a \in Seq(S) /\ b \in Seq(S) /\ f[k] = c
    BY <1>2, <1>3, <2>1, <2>2
  <2>4. /\ Len(c) = Len(a) + Len(b)
        /\ \A i \in 1 .. Len(a) + Len(b) : c[i] = IF i <= Len(a) THEN a[i] ELSE b[i - Len(a)]
    <3>1. /\ Len(a \o b) = Len(a) + Len(b)
          /\ \A i \in 1 .. Len(a) + Len(b) : (a \o b)[i] = IF i <= Len(a) THEN a[i] ELSE b[i - Len(a)]
      BY <2>3, ConcatProperties
    <3> QED BY <2>2, <3>1
  <2>5. at[k] = Len(c) /\ at[k - 1] = Len(a)
    BY <1>4, <2>1, <2>2, <2>3
  <2> QED BY <2>1, <2>2, <2>3, <2>4, <2>5
<1> DEFINE W == {m \in Nat : Has(m)}
<1>7. 0 \in W
  BY <1>4, <1>5
<1>8. ASSUME NEW l \in 0 .. n - 1, l \in W PROVE l + 1 \in W
  <2>1. PICK m : m = l + 1
    OBVIOUS
  <2>2. m \in 1 .. n /\ m - 1 = l /\ m \in Nat /\ l \in 0 .. n
    BY <1>1, <2>1
  <2>3. Has(l)
    BY <1>8
  <2> HIDE DEF W
  <2>4. /\ at[m] = at[l] + Len(list[m]) /\ at[l] \in Nat /\ at[m] \in Nat /\ Len(list[m]) \in Nat
        /\ \A i \in 1 .. at[m] : f[m][i] = IF i <= at[l] THEN f[l][i] ELSE list[m][i - at[l]]
    BY <1>3, <1>4, <1>6, <2>2
  <2>5. \A k \in 0 .. m : at[k] <= at[m]
    <3> TAKE k \in 0 .. m
    <3>1. CASE k = m
      BY <2>4, <3>1
    <3>2. CASE k # m
      <4>1. k \in 0 .. l /\ k \in 0 .. n
        BY <1>1, <2>1, <2>2, <3>2
      <4>2. at[k] <= at[l] /\ at[k] \in Nat
        BY <1>4, <2>3, <4>1
      <4> QED BY <2>4, <4>2
    <3> QED BY <3>1, <3>2
  <2>6. ASSUME NEW k \in 1 .. m, NEW j \in 1 .. Len(list[k])
        PROVE  f[m][at[k - 1] + j] = list[k][j]
    <3>1. k \in 1 .. n /\ k - 1 \in 0 .. n
      BY <1>1, <2>1, <2>2
    <3>2. PICK i : i = at[k - 1] + j
      OBVIOUS
    <3>3. /\ at[k - 1] \in Nat /\ j \in Nat /\ i \in Nat /\ i >= 1 /\ i <= at[k]
          /\ at[k] \in Nat /\ at[k] = at[k - 1] + Len(list[k]) /\ i > at[k - 1]
      <4>1. /\ at[k - 1] \in Nat /\ j \in 1 .. Len(list[k]) /\ Len(list[k]) \in Nat
            /\ at[k] = at[k - 1] + Len(list[k])
        BY <1>3, <1>4, <1>6, <3>1
      <4>2. j \in Nat /\ j >= 1 /\ j <= Len(list[k])
        BY <4>1
      <4>3. at[k] \in Nat
        BY <4>1
      <4> QED BY <3>2, <4>1, <4>2, <4>3, SMTT(30)
    <3>4. at[k] <= at[m]
      BY <2>2, <2>5
    <3>5. i \in 1 .. at[m]
      BY <2>4, <3>3, <3>4
    <3>6. CASE k = m
      <4>1. ~(i <= at[l]) /\ i - at[l] = j
        BY <2>2, <2>4, <3>2, <3>3, <3>6
      <4> QED BY <2>4, <3>2, <3>5, <3>6, <4>1
    <3>7. CASE k # m
      <4>1. k \in 1 .. l /\ k \in 0 .. l
        BY <2>2, <3>7
      <4>2. i <= at[l]
        BY <2>3, <2>4, <3>3, <4>1, SMTT(30)
      <4>3. f[l][i] = list[k][j]
        BY <2>3, <3>2, <4>1
      <4> QED BY <2>4, <3>2, <3>5, <4>2, <4>3
    <3> QED BY <3>6, <3>7
  <2> HIDE DEF Has
  <2>7. Has(m)
    BY <2>5, <2>6 DEF Has
  <2> QED BY <2>1, <2>2, <2>7 DEF W
<1> HIDE DEF W, Has
<1>9. Has(n)
  <2>1. \A m \in 0 .. n : m \in W
    BY <1>1, <1>7, <1>8, InductionTo
  <2>2. n \in W
    BY <1>1, <2>1
  <2> QED BY <2>2 DEF W
<1>10. /\ FlattenSeq(list) \in Seq(S) /\ at[n] = Len(FlattenSeq(list))
  BY <1>1, <1>2, <1>4
<1>11. PICK text : text = FlattenSeq(list)
  OBVIOUS
<1>12. /\ text \in Seq(S) /\ at[0] = 0 /\ at[n] = Len(text)
       /\ \A k \in 0 .. n : at[k] \in Nat /\ at[k] <= at[n]
       /\ \A k \in 1 .. n : at[k] = at[k - 1] + Len(list[k])
       /\ \A k \in 1 .. n : \A j \in 1 .. Len(list[k]) : text[at[k - 1] + j] = list[k][j]
  BY <1>2, <1>4, <1>5, <1>6, <1>9, <1>10, <1>11 DEF Has
<1> QED BY <1>1, <1>11, <1>12

----------------------------------------------------------------------------
(* Reading a text from left to right.                                      *)

\* g says what a reader makes of a text from every place on: at some places it stops,
\* from another it takes something and reads on at a later place.
ReadsFrom(g, L, stop, end, take, nxt) ==
  \A i \in 1 .. L + 1 : g[i] = IF i \in stop THEN end[i] ELSE take[i] \o g[nxt[i]]

\* There is a reading of every text, and it is a sequence.
LEMMA ReadingExists ==
  ASSUME NEW L \in Nat, NEW S, NEW stop,
         NEW end \in [1 .. L + 1 -> Seq(S)], NEW take \in [1 .. L + 1 -> Seq(S)], NEW nxt,
         \A i \in 1 .. L + 1 : i \notin stop => nxt[i] \in i + 1 .. L + 1
  PROVE  /\ \E g \in [1 .. L + 1 -> Seq(S)] : ReadsFrom(g, L, stop, end, take, nxt)
         /\ \A g : ReadsFrom(g, L, stop, end, take, nxt) => \A i \in 1 .. L + 1 : g[i] \in Seq(S)
<1> DEFINE A == Seq(S)
           D == 1 .. L + 1
           From(m) == L + 1 - m .. L + 1
           Does(g, i) == g[i] = IF i \in stop THEN end[i] ELSE take[i] \o g[nxt[i]]
           Readable(m) == \E g \in [From(m) -> A] : \A i \in From(m) : Does(g, i)
           W == {m \in Nat : m <= L => Readable(m)}
<1>1. \A v, w \in A : v \o w \in A
  BY ConcatProperties
<1>2. \A i \in D : end[i] \in A /\ take[i] \in A /\ (i \notin stop => nxt[i] \in i + 1 .. L + 1)
  OBVIOUS
<1>3. L + 1 \in stop /\ L + 1 \in D
  BY <1>2, SMTT(30)
<1>4. 0 \in W
  <2> DEFINE g == [i \in {L + 1} |-> end[L + 1]]
  <2>1. From(0) = {L + 1}
    OBVIOUS
  <2>2. g \in [{L + 1} -> A] /\ g[L + 1] = end[L + 1]
    BY <1>2, <1>3
  <2> HIDE DEF g, A, From
  <2>3. Readable(0)
    BY <1>3, <2>1, <2>2
  <2> QED BY <2>3
<1>5. ASSUME NEW m \in Nat, m \in W PROVE m + 1 \in W
  <2>0. m <= L => Readable(m)
    BY <1>5
  <2> SUFFICES ASSUME m + 1 <= L PROVE Readable(m + 1)
    <3> HIDE DEF Readable
    <3> QED OBVIOUS
  <2>1. PICK g \in [From(m) -> A] : \A i \in From(m) : Does(g, i)
    <3>1. m <= L
      OBVIOUS
    <3> HIDE DEF From, A
    <3> QED BY <2>0, <3>1
  <2>2. PICK p : p = L - m
    OBVIOUS
  <2>3. /\ p \in D /\ p \notin From(m)
        /\ \A i \in From(m + 1) : i = p \/ i \in From(m)
        /\ \A i \in From(m) : i \in From(m + 1) /\ i \in D
        /\ \A i : i \in p + 1 .. L + 1 => i \in From(m)
        /\ \A i \in From(m) : \A j : j \in i + 1 .. L + 1 => j \in From(m)
    BY <2>2
  <2> HIDE DEF W, From, A, D
  <2> DEFINE v == IF p \in stop THEN end[p] ELSE take[p] \o g[nxt[p]]
             q == [i \in From(m + 1) |-> IF i = p THEN v ELSE g[i]]
  <2>4. v \in A
    <3>1. p \notin stop => nxt[p] \in From(m)
      BY <1>2, <2>3
    <3> QED BY <1>1, <1>2, <2>3, <3>1
  <2>5. p \in From(m + 1)
    BY <2>2 DEF From
  <2>6. q[p] = v /\ \A i \in From(m) : q[i] = g[i]
    BY <2>3, <2>5
  <2>7. q \in [From(m + 1) -> A]
    <3> HIDE DEF v
    <3>1. \A i \in From(m + 1) : (IF i = p THEN v ELSE g[i]) \in A
      BY <2>3, <2>4
    <3> QED BY <3>1
  <2> HIDE DEF q
  <2>8. \A i \in From(m + 1) : Does(q, i)
    <3> TAKE i \in From(m + 1)
    <3>1. CASE i = p
      <4>1. p \notin stop => nxt[p] \in From(m)
        BY <1>2, <2>3
      <4> QED BY <2>6, <3>1, <4>1
    <3>2. CASE i \in From(m)
      <4>1. i \in D /\ i \notin stop => nxt[i] \in From(m)
        BY <1>2, <2>3, <3>2
      <4> QED BY <2>1, <2>3, <2>6, <3>2, <4>1
    <3> QED BY <2>3, <3>1, <3>2
  <2> QED BY <2>7, <2>8
<1>6. \E g \in [D -> A] : \A i \in D : Does(g, i)
  <2>1. Nat \subseteq W
    <3> HIDE DEF W
    <3> QED BY <1>4, <1>5, Induction
  <2>2. Readable(L)
    <3> HIDE DEF Readable
    <3> QED BY <2>1
  <2>3. From(L) = D
    OBVIOUS
  <2> HIDE DEF From, D, A
  <2> QED BY <2>2, <2>3
<1>7. ASSUME NEW g, \A i \in D : Does(g, i) PROVE \A i \in D : g[i] \in A
  <2> DEFINE V == {m \in Nat : \A i \in D : i >= L + 1 - m => g[i] \in A}
  <2>1. 0 \in V
    <3> SUFFICES ASSUME NEW i \in D, i >= L + 1 PROVE g[i] \in A
      OBVIOUS
    <3>1. i = L + 1
      OBVIOUS
    <3> HIDE DEF A
    <3> QED BY <1>2, <1>3, <1>7, <3>1
  <2>2. ASSUME NEW m \in Nat, m \in V PROVE m + 1 \in V
    <3> SUFFICES ASSUME NEW i \in D, i >= L + 1 - (m + 1) PROVE g[i] \in A
      OBVIOUS
    <3>1. \A j \in D : j >= L + 1 - m => g[j] \in A
      BY <2>2
    <3>2. i \notin stop => nxt[i] \in D /\ nxt[i] >= L + 1 - m
      BY <1>2
    <3>3. Does(g, i)
      BY <1>7
    <3> HIDE DEF V, A, D
    <3> QED BY <1>1, <1>2, <3>1, <3>2, <3>3
  <2>3. Nat \subseteq V
    <3> HIDE DEF V
    <3> QED BY <2>1, <2>2, Induction
  <2>4. L \in V
    BY <2>3
  <2> HIDE DEF A
  <2> QED BY <2>4
<1> QED BY <1>6, <1>7 DEF ReadsFrom

----------------------------------------------------------------------------
(* Names.                                                                  *)

NameChars == {Dot, Bang, OtherChar}

\* The escaping character is not the dot.
LEMMA TwoChars == Dot # Bang
BY RecipesAssumption

\* The safe form has no dot, and the code of each character at its place.
LEMMA EncodedIs ==
  ASSUME NEW name \in Seq(NameChars)
  PROVE  LET text == Name!EncodeSafe(name) IN
         /\ text \in Seq(NameChars \ {Dot})
         /\ \E at : /\ at[0] = 0 /\ at[Len(name)] = Len(text)
                    /\ \A k \in 0 .. Len(name) : at[k] \in Nat /\ at[k] <= Len(text)
                    /\ \A k \in 1 .. Len(name) :
                         /\ at[k] = at[k - 1] + Len(Name!SafeChar(name[k]))
                         /\ \A j \in 1 .. Len(Name!SafeChar(name[k])) :
                              text[at[k - 1] + j] = Name!SafeChar(name[k])[j]
<1> DEFINE K == NameChars \ {Dot}
           codes == [i \in DOMAIN name |-> Name!SafeChar(name[i])]
<1>1. PICK n : n = Len(name) /\ n \in Nat /\ DOMAIN name = 1 .. n /\ \A i \in 1 .. n : name[i] \in NameChars
  OBVIOUS
<1>2. \A ch \in NameChars : Name!SafeChar(ch) \in Seq(K)
  <2> TAKE ch \in NameChars
  <2>1. CASE ch = Bang
    <3>1. Name!SafeChar(ch) = <<Bang, Bang>> /\ Bang \in K
      BY <2>1, TwoChars DEF Name!SafeChar, NameChars
    <3> HIDE DEF K
    <3> QED BY <3>1
  <2>2. CASE ch = Dot
    <3>1. Name!SafeChar(ch) = <<Bang>> /\ Bang \in K
      BY <2>2, TwoChars DEF Name!SafeChar, NameChars
    <3> HIDE DEF K
    <3> QED BY <3>1
  <2>3. CASE ch # Bang /\ ch # Dot
    <3>1. Name!SafeChar(ch) = <<ch>> /\ ch \in K
      BY <2>3 DEF Name!SafeChar
    <3> HIDE DEF K
    <3> QED BY <3>1
  <2> QED BY <2>1, <2>2, <2>3
<1> HIDE DEF K
<1>3. codes = [i \in 1 .. n |-> Name!SafeChar(name[i])] /\ codes \in Seq(Seq(K)) /\ Len(codes) = n
  BY <1>1, <1>2
<1>4. Name!EncodeSafe(name) = FlattenSeq(codes)
  <2>1. Name!FlattenSeq(codes) = FlattenSeq(codes)
    BY DEF Name!FlattenSeq, FlattenSeq
  <2> QED BY <2>1 DEF Name!EncodeSafe
<1> HIDE DEF codes
<1>5. PICK text : text = FlattenSeq(codes)
  OBVIOUS
<1>6. \A k \in 1 .. n : codes[k] = Name!SafeChar(name[k])
  BY <1>3
<1>7. text \in Seq(K)
  BY <1>3, <1>5, FlatIs
<1>8. PICK at : /\ at[0] = 0 /\ at[Len(codes)] = Len(FlattenSeq(codes))
                /\ \A k \in 0 .. Len(codes) : at[k] \in Nat /\ at[k] <= at[Len(codes)]
                /\ \A k \in 1 .. Len(codes) : at[k] = at[k - 1] + Len(codes[k])
                /\ \A k \in 1 .. Len(codes) : \A j \in 1 .. Len(codes[k]) :
                     FlattenSeq(codes)[at[k - 1] + j] = codes[k][j]
  <2>1. codes \in Seq(Seq(K))
    BY <1>3
  <2> QED BY <2>1, FlatIs, Zenon
<1>9. /\ at[0] = 0 /\ at[n] = Len(text)
      /\ \A k \in 0 .. n : at[k] \in Nat /\ at[k] <= Len(text)
      /\ \A k \in 1 .. n :
           /\ at[k] = at[k - 1] + Len(Name!SafeChar(name[k]))
           /\ \A j \in 1 .. Len(Name!SafeChar(name[k])) :
                text[at[k - 1] + j] = Name!SafeChar(name[k])[j]
  <2>1. /\ at[0] = 0 /\ at[n] = Len(text)
        /\ \A k \in 0 .. n : at[k] \in Nat /\ at[k] <= at[n]
        /\ \A k \in 1 .. n : at[k] = at[k - 1] + Len(codes[k])
        /\ \A k \in 1 .. n : \A j \in 1 .. Len(codes[k]) : text[at[k - 1] + j] = codes[k][j]
    BY <1>3, <1>5, <1>8, ZenonT(40)
  <2> QED BY <1>6, <2>1
<1>10. text = Name!EncodeSafe(name) /\ n = Len(name)
  BY <1>1, <1>4, <1>5
<1> QED BY <1>7, <1>9, <1>10 DEF K

\* Decoding, place by place.
LEMMA DecodedIs ==
  ASSUME NEW text \in Seq(NameChars)
  PROVE  \E g : /\ Name!DecodeSafe(text) = g[1] /\ g[Len(text) + 1] = <<>>
                /\ \A i \in 1 .. Len(text) + 1 : g[i] \in Seq(NameChars)
                /\ \A i \in 1 .. Len(text) :
                     g[i] = IF text[i] # Bang THEN <<text[i]>> \o g[i + 1]
                            ELSE IF i < Len(text) /\ text[i + 1] = Bang THEN <<Bang>> \o g[i + 2]
                            ELSE <<Dot>> \o g[i + 1]
<1> DEFINE L == Len(text)
           D == 1 .. L + 1
           P(g) == g = [i \in D |->
                     CASE i > L    -> <<>>
                       [] i <= L /\ text[i] # Bang -> <<text[i]>> \o g[i + 1]
                       [] i < L /\ text[i] = Bang /\ text[i + 1] = Bang -> <<Bang>> \o g[i + 2]
                       [] OTHER    -> <<Dot>> \o g[i + 1]]
           double(i) == i < L /\ text[i] = Bang /\ text[i + 1] = Bang
           stop == {L + 1}
           end == [i \in D |-> <<>>]
           take == [i \in D |-> IF i = L + 1 THEN <<>> ELSE
                                IF text[i] # Bang THEN <<text[i]>>
                                ELSE IF double(i) THEN <<Bang>> ELSE <<Dot>>]
           nxt == [i \in D |-> IF double(i) THEN i + 2 ELSE i + 1]
           Value(g, i) == CASE i > L    -> <<>>
                       [] i <= L /\ text[i] # Bang -> <<text[i]>> \o g[i + 1]
                       [] i < L /\ text[i] = Bang /\ text[i + 1] = Bang -> <<Bang>> \o g[i + 2]
                       [] OTHER    -> <<Dot>> \o g[i + 1]
<1>1. Name!DecodeSafe(text) = (CHOOSE g : P(g))[1]
  BY DEF Name!DecodeSafe
<1>2. L \in Nat /\ \A i \in 1 .. L : text[i] \in NameChars
  OBVIOUS
<1> HIDE DEF L
<1>3. end \in [D -> Seq(NameChars)]
  OBVIOUS
<1>4. take \in [D -> Seq(NameChars)]
  <2>1. Bang \in NameChars /\ Dot \in NameChars
    BY DEF NameChars
  <2>2. \A i \in D : i # L + 1 => text[i] \in NameChars
    BY <1>2
  <2>3. \A c \in NameChars : <<c>> \in Seq(NameChars)
    OBVIOUS
  <2> HIDE DEF double, D
  <2> QED BY <2>1, <2>2, <2>3
<1>5. \A i \in D : i \notin stop => nxt[i] \in i + 1 .. L + 1
  BY <1>2
<1>6. ASSUME NEW g, NEW i \in D
      PROVE  Value(g, i) = IF i \in stop THEN end[i] ELSE take[i] \o g[nxt[i]]
  <2>1. CASE i = L + 1
    BY <1>2, <2>1
  <2>2. CASE i # L + 1
    <3>1. i <= L /\ ~(i > L)
      BY <1>2, <2>2
    <3>2. CASE text[i] # Bang
      <4>1. take[i] = <<text[i]>> /\ nxt[i] = i + 1
        BY <2>2, <3>2
      <4> HIDE DEF take, nxt
      <4> QED BY <2>2, <3>1, <3>2, <4>1
    <3>3. CASE text[i] = Bang /\ double(i)
      <4>1. take[i] = <<Bang>> /\ nxt[i] = i + 2
        BY <2>2, <3>3
      <4> HIDE DEF take, nxt
      <4> QED BY <2>2, <3>1, <3>3, <4>1
    <3>4. CASE text[i] = Bang /\ ~double(i)
      <4>1. take[i] = <<Dot>> /\ nxt[i] = i + 1
        BY <2>2, <3>4
      <4> HIDE DEF take, nxt
      <4> QED BY <2>2, <3>1, <3>4, <4>1
    <3> QED BY <3>2, <3>3, <3>4
  <2> QED BY <2>1, <2>2
<1>7. \A i \in 1 .. L : \A g :
        (IF i \in stop THEN end[i] ELSE take[i] \o g[nxt[i]])
          = IF text[i] # Bang THEN <<text[i]>> \o g[i + 1]
            ELSE IF i < L /\ text[i + 1] = Bang THEN <<Bang>> \o g[i + 2]
            ELSE <<Dot>> \o g[i + 1]
  <2> TAKE i \in 1 .. L
  <2> TAKE g
  <2>1. i \in D /\ i # L + 1 /\ i <= L /\ ~(i > L)
    BY <1>2
  <2>2. Value(g, i) = IF i \in stop THEN end[i] ELSE take[i] \o g[nxt[i]]
    BY <1>6, <2>1
  <2> HIDE DEF stop, end, take, nxt, D
  <2> QED BY <2>1, <2>2
<1>8. end[L + 1] = <<>> /\ L + 1 \in stop /\ L + 1 \in D /\ 1 \in D
  BY <1>2
<1> HIDE DEF stop, end, take, nxt, Value
<1>9. PICK r \in [D -> Seq(NameChars)] : ReadsFrom(r, L, stop, end, take, nxt)
  BY <1>2, <1>3, <1>4, <1>5, ReadingExists
<1>10. P(r)
  <2>1. \A i \in D : r[i] = Value(r, i)
    BY <1>6, <1>9 DEF ReadsFrom
  <2>2. r = [i \in D |-> r[i]]
    BY <1>9
  <2>3. r = [i \in D |-> Value(r, i)]
    BY <2>1, <2>2
  <2> QED BY <2>3, Zenon DEF Value
<1>11. PICK g : P(g) /\ Name!DecodeSafe(text) = g[1]
  BY <1>1, <1>10
<1>12. \A i \in D : g[i] = Value(g, i)
  BY <1>11, Zenon DEF Value
<1> HIDE DEF P
<1>13. ReadsFrom(g, L, stop, end, take, nxt)
  BY <1>6, <1>12 DEF ReadsFrom
<1>14. \A i \in D : g[i] \in Seq(NameChars)
  BY <1>2, <1>3, <1>4, <1>5, <1>13, ReadingExists
<1>15. \A i \in D : g[i] = IF i \in stop THEN end[i] ELSE take[i] \o g[nxt[i]]
  BY <1>13 DEF ReadsFrom
<1>16. g[L + 1] = <<>>
  BY <1>8, <1>15
<1>17. \A i \in 1 .. L :
         g[i] = IF text[i] # Bang THEN <<text[i]>> \o g[i + 1]
                ELSE IF i < L /\ text[i + 1] = Bang THEN <<Bang>> \o g[i + 2]
                ELSE <<Dot>> \o g[i + 1]
  <2>1. \A i \in 1 .. L : i \in D
    BY <1>2
  <2> QED BY <1>7, <1>15, <2>1
<1> QED BY <1>11, <1>14, <1>16, <1>17 DEF L

\* The dot of a name that its safe form loses.
Clear(name, k) == ~(k < Len(name) /\ name[k] = Dot /\ name[k + 1] \in {Dot, Bang})

\* Decoding the safe form of a name at the code of a character gives the character, or
\* a bang for a dot that stands before a dot or a bang.
LEMMA CharReturns ==
  ASSUME NEW name \in Seq(NameChars)
  PROVE  \E q : /\ q[0] = Name!DecodeSafe(Name!EncodeSafe(name)) /\ q[Len(name)] = <<>>
                /\ \A k \in 0 .. Len(name) : q[k] \in Seq(NameChars)
                /\ \A k \in 1 .. Len(name) :
                     /\ Clear(name, k) => q[k - 1] = <<name[k]>> \o q[k]
                     /\ ~Clear(name, k) => \E r \in Seq(NameChars) : q[k - 1] = <<Bang>> \o r
<1>1. PICK n : n = Len(name) /\ n \in Nat /\ \A i \in 1 .. n : name[i] \in NameChars
  OBVIOUS
<1>2. PICK text : text = Name!EncodeSafe(name)
  OBVIOUS
<1>3. PICK L : L = Len(text)
  OBVIOUS
<1>4. /\ text \in Seq(NameChars \ {Dot})
      /\ \E at : /\ at[0] = 0 /\ at[n] = L
                 /\ \A k \in 0 .. n : at[k] \in Nat /\ at[k] <= L
                 /\ \A k \in 1 .. n :
                      /\ at[k] = at[k - 1] + Len(Name!SafeChar(name[k]))
                      /\ \A j \in 1 .. Len(Name!SafeChar(name[k])) :
                           text[at[k - 1] + j] = Name!SafeChar(name[k])[j]
  BY <1>1, <1>2, <1>3, EncodedIs, SMTT(30)
<1>5. text \in Seq(NameChars) /\ L \in Nat
  <2>1. NameChars \ {Dot} \subseteq NameChars
    OBVIOUS
  <2> QED BY <1>3, <1>4, <2>1, SeqMonotonic, LenProperties
<1>6. PICK at : /\ at[0] = 0 /\ at[n] = L
                /\ \A k \in 0 .. n : at[k] \in Nat /\ at[k] <= L
                /\ \A k \in 1 .. n :
                     /\ at[k] = at[k - 1] + Len(Name!SafeChar(name[k]))
                     /\ \A j \in 1 .. Len(Name!SafeChar(name[k])) :
                          text[at[k - 1] + j] = Name!SafeChar(name[k])[j]
  BY <1>4
<1>7. PICK g : /\ Name!DecodeSafe(text) = g[1] /\ g[L + 1] = <<>>
               /\ \A i \in 1 .. L + 1 : g[i] \in Seq(NameChars)
               /\ \A i \in 1 .. L :
                    g[i] = IF text[i] # Bang THEN <<text[i]>> \o g[i + 1]
                           ELSE IF i < L /\ text[i + 1] = Bang THEN <<Bang>> \o g[i + 2]
                           ELSE <<Dot>> \o g[i + 1]
  BY <1>3, <1>5, DecodedIs, ZenonT(40)
<1> DEFINE q == [k \in 0 .. n |-> g[at[k] + 1]]
<1>8. \A ch : /\ ch = Bang => Len(Name!SafeChar(ch)) = 2 /\ Name!SafeChar(ch)[1] = Bang
                              /\ Name!SafeChar(ch)[2] = Bang
              /\ ch = Dot => Len(Name!SafeChar(ch)) = 1 /\ Name!SafeChar(ch)[1] = Bang
              /\ ch # Bang /\ ch # Dot => Len(Name!SafeChar(ch)) = 1 /\ Name!SafeChar(ch)[1] = ch
  BY TwoChars DEF Name!SafeChar
<1>9. ASSUME NEW k \in 1 .. n
      PROVE  /\ at[k - 1] \in Nat /\ at[k] \in Nat /\ at[k] <= L
             /\ name[k] = Bang => /\ at[k] = at[k - 1] + 2
                                  /\ text[at[k - 1] + 1] = Bang /\ text[at[k - 1] + 2] = Bang
             /\ name[k] # Bang => at[k] = at[k - 1] + 1
             /\ name[k] = Dot => text[at[k - 1] + 1] = Bang
             /\ name[k] # Bang /\ name[k] # Dot => text[at[k - 1] + 1] = name[k]
  <2>1. k - 1 \in 0 .. n /\ k \in 0 .. n
    BY <1>1
  <2>2. at[k - 1] \in Nat /\ at[k] \in Nat /\ at[k] <= L
    BY <1>6, <2>1
  <2>3. PICK c : c = Name!SafeChar(name[k])
    OBVIOUS
  <2>4. /\ at[k] = at[k - 1] + Len(c)
        /\ \A j \in 1 .. Len(c) : text[at[k - 1] + j] = c[j]
    BY <1>6, <2>3
  <2>5. CASE name[k] = Bang
    <3>1. Len(c) = 2 /\ c[1] = Bang /\ c[2] = Bang
      BY <1>8, <2>3, <2>5
    <3>2. 1 \in 1 .. 2 /\ 2 \in 1 .. 2
      OBVIOUS
    <3> QED BY <2>2, <2>4, <2>5, <3>1, <3>2, TwoChars
  <2>6. CASE name[k] = Dot
    <3>1. Len(c) = 1 /\ c[1] = Bang
      BY <1>8, <2>3, <2>6
    <3>2. 1 \in 1 .. 1
      OBVIOUS
    <3> QED BY <2>2, <2>4, <2>6, <3>1, <3>2, TwoChars
  <2>7. CASE name[k] # Dot /\ name[k] # Bang
    <3>1. Len(c) = 1 /\ c[1] = name[k]
      BY <1>8, <2>3, <2>7
    <3>2. 1 \in 1 .. 1
      OBVIOUS
    <3> QED BY <2>2, <2>4, <2>7, <3>1, <3>2
  <2> QED BY <2>5, <2>6, <2>7
<1>10. \A k \in 0 .. n : at[k] + 1 \in 1 .. L + 1
  BY <1>5, <1>6
<1>11. /\ q[0] = Name!DecodeSafe(text) /\ q[n] = <<>>
       /\ \A k \in 0 .. n : q[k] \in Seq(NameChars)
  <2>1. 0 \in 0 .. n /\ n \in 0 .. n
    BY <1>1
  <2>2. at[0] + 1 = 1 /\ at[n] + 1 = L + 1
    BY <1>6
  <2> QED BY <1>7, <1>10, <2>1, <2>2
<1>12. ASSUME NEW k \in 1 .. n
       PROVE  /\ Clear(name, k) => q[k - 1] = <<name[k]>> \o q[k]
              /\ ~Clear(name, k) => \E r \in Seq(NameChars) : q[k - 1] = <<Bang>> \o r
  <2>1. PICK p : p = at[k - 1] + 1
    OBVIOUS
  <2>2. /\ q[k - 1] = g[p] /\ q[k] = g[at[k] + 1]
    <3>1. k - 1 \in 0 .. n /\ k \in 0 .. n
      BY <1>1
    <3> QED BY <2>1, <3>1
  <2>3. p \in 1 .. L /\ p \in Nat
    BY <1>5, <1>9, <2>1, SMTT(30)
  <2> HIDE DEF q
  <2>4. g[p] = IF text[p] # Bang THEN <<text[p]>> \o g[p + 1]
               ELSE IF p < L /\ text[p + 1] = Bang THEN <<Bang>> \o g[p + 2]
               ELSE <<Dot>> \o g[p + 1]
    BY <1>7, <2>3
  <2>5. CASE name[k] = Bang
    <3>1. text[p] = Bang /\ text[p + 1] = Bang /\ at[k] + 1 = p + 2 /\ p < L
      BY <1>5, <1>9, <2>1, <2>5, SMTT(30)
    <3>2. g[p] = <<Bang>> \o g[p + 2]
      BY <2>4, <3>1, Zenon
    <3>3. q[k - 1] = <<name[k]>> \o q[k]
      BY <2>2, <2>5, <3>1, <3>2, Zenon
    <3>4. Clear(name, k)
      BY <2>5, TwoChars, Zenon DEF Clear
    <3> QED BY <3>3, <3>4
  <2>6. CASE name[k] = Dot
    <3>1. text[p] = Bang /\ at[k] = p
      BY <1>9, <2>1, <2>6, TwoChars
    <3>2. CASE k = n
      <4>1. ~(p < L) /\ Clear(name, k)
        BY <1>1, <1>5, <1>6, <3>1, <3>2 DEF Clear
      <4> QED BY <2>2, <2>4, <2>6, <3>1, <4>1
    <3>3. CASE k # n
      <4>1. PICK i : i = k + 1
        OBVIOUS
      <4>2. i \in 1 .. n /\ i - 1 = k /\ k < n
        BY <1>1, <3>3, <4>1
      <4>3. p < L /\ (text[p + 1] = Bang <=> name[i] \in {Dot, Bang})
        <5>1. at[i] <= L /\ at[i] \in Nat /\ at[k] \in Nat
          BY <1>9, <4>2
        <5>2. CASE name[i] = Bang
          BY <1>5, <1>9, <3>1, <4>2, <5>1, <5>2
        <5>3. CASE name[i] = Dot
          BY <1>5, <1>9, <3>1, <4>2, <5>1, <5>3, TwoChars
        <5>4. CASE name[i] # Dot /\ name[i] # Bang
          BY <1>5, <1>9, <3>1, <4>2, <5>1, <5>4
        <5> QED BY <5>2, <5>3, <5>4
      <4>4. CASE Clear(name, k)
        <5>1. ~(name[i] \in {Dot, Bang})
          BY <1>1, <2>6, <4>1, <4>2, <4>4 DEF Clear
        <5> QED BY <2>2, <2>4, <2>6, <3>1, <4>3, <4>4, <5>1
      <4>5. CASE ~Clear(name, k)
        <5>1. name[i] \in {Dot, Bang}
          BY <4>1, <4>5 DEF Clear
        <5>2. p + 2 \in 1 .. L + 1
          BY <1>5, <2>3, <4>3
        <5>3. g[p + 2] \in Seq(NameChars)
          BY <1>7, <5>2
        <5> QED BY <2>2, <2>4, <3>1, <4>3, <4>5, <5>1, <5>3
      <4> QED BY <4>4, <4>5
    <3> QED BY <3>2, <3>3
  <2>7. CASE name[k] # Bang /\ name[k] # Dot
    <3>1. text[p] = name[k] /\ at[k] = p
      BY <1>9, <2>1, <2>7
    <3> QED BY <2>2, <2>4, <2>7, <3>1 DEF Clear
  <2> QED BY <2>5, <2>6, <2>7
<1> HIDE DEF q
<1> QED BY <1>1, <1>2, <1>11, <1>12

\* A name comes back exactly when no dot in it stands before a dot or a bang.
LEMMA NameComesBack ==
  ASSUME NEW name \in Seq(NameChars)
  PROVE  Name!NameReturns(name)
<1>1. PICK n : n = Len(name) /\ n \in Nat /\ \A i \in 1 .. n : name[i] \in NameChars
  OBVIOUS
<1>2. PICK back : back = Name!DecodeSafe(Name!EncodeSafe(name))
  OBVIOUS
<1>3. PICK q : /\ q[0] = back /\ q[n] = <<>>
               /\ \A k \in 0 .. n : q[k] \in Seq(NameChars)
               /\ \A k \in 1 .. n :
                    /\ Clear(name, k) => q[k - 1] = <<name[k]>> \o q[k]
                    /\ ~Clear(name, k) => \E r \in Seq(NameChars) : q[k - 1] = <<Bang>> \o r
  <2>1. PICK q : /\ q[0] = Name!DecodeSafe(Name!EncodeSafe(name)) /\ q[Len(name)] = <<>>
                 /\ \A k \in 0 .. Len(name) : q[k] \in Seq(NameChars)
                 /\ \A k \in 1 .. Len(name) :
                      /\ Clear(name, k) => q[k - 1] = <<name[k]>> \o q[k]
                      /\ ~Clear(name, k) => \E r \in Seq(NameChars) : q[k - 1] = <<Bang>> \o r
    BY CharReturns, Zenon
  <2> QED BY <1>1, <1>2, <2>1
<1> DEFINE Start(m) == SubSeq(name, 1, m)
           W == {m \in Nat : (\A k \in 1 .. m : Clear(name, k)) => back = Start(m) \o q[m]}
<1>4. \A m \in 0 .. n : Start(m) \in Seq(NameChars) /\ Len(Start(m)) = m
  <2> TAKE m \in 0 .. n
  <2>1. 1 \in Int /\ m \in Int /\ \A i \in 1 .. m : name[i] \in NameChars
    BY <1>1
  <2>2. (IF 1 <= m THEN m - 1 + 1 ELSE 0) = m
    BY <1>1
  <2> QED BY <2>1, <2>2, SubSeqProperties
<1>5. 0 \in W
  <2>1. Start(0) = <<>>
    BY SubSeqEmpty
  <2>2. q[0] \in Seq(NameChars)
    BY <1>1, <1>3
  <2>3. <<>> \o q[0] = q[0]
    BY <2>2, ConcatEmptySeq
  <2> HIDE DEF Start
  <2> QED BY <1>3, <2>1, <2>3
<1>6. ASSUME NEW l \in 0 .. n - 1, l \in W PROVE l + 1 \in W
  <2>1. PICK m : m = l + 1
    OBVIOUS
  <2>2. m \in 1 .. n /\ m - 1 = l /\ m \in Nat /\ l \in 0 .. n /\ m \in 0 .. n
    BY <1>1, <2>1
  <2> SUFFICES ASSUME \A k \in 1 .. m : Clear(name, k) PROVE back = Start(m) \o q[m]
    <3> HIDE DEF Start
    <3> QED BY <2>1, <2>2
  <2>3. Clear(name, m) /\ \A k \in 1 .. l : Clear(name, k)
    BY <2>2
  <2>4. back = Start(l) \o q[l]
    <3> HIDE DEF Start
    <3> QED BY <1>6, <2>3
  <2>5. q[l] = <<name[m]>> \o q[m] /\ q[m] \in Seq(NameChars)
    BY <1>3, <2>2, <2>3
  <2>6. Start(m) = Start(l) \o <<name[m]>>
    <3>1. 1 \in 1 .. Len(name) /\ m \in 1 .. Len(name)
      BY <1>1, <2>2
    <3> QED BY <2>2, <3>1, SubSeqRecursiveSecond
  <2>7. Start(l) \in Seq(NameChars) /\ <<name[m]>> \in Seq(NameChars)
    <3>1. name[m] \in NameChars
      BY <1>1, <2>2
    <3> HIDE DEF Start
    <3> QED BY <1>4, <2>2, <3>1
  <2>8. PICK one : one = <<name[m]>>
    OBVIOUS
  <2> HIDE DEF Start
  <2>9. (Start(l) \o one) \o q[m] = Start(l) \o (one \o q[m])
    <3>1. one \in Seq(NameChars)
      BY <2>7, <2>8
    <3>2. Start(l) \in Seq(NameChars) /\ q[m] \in Seq(NameChars)
      BY <2>5, <2>7
    <3>3. PICK a, c : a = Start(l) /\ c = q[m]
      OBVIOUS
    <3>4. a \in Seq(NameChars) /\ c \in Seq(NameChars)
      BY <3>2, <3>3
    <3>5. (a \o one) \o c = a \o (one \o c)
      BY <3>1, <3>4, ConcatAssociative
    <3> QED BY <3>3, <3>5
  <2> QED BY <2>4, <2>5, <2>6, <2>8, <2>9
<1> HIDE DEF W
<1>7. \A m \in 0 .. n : (\A k \in 1 .. m : Clear(name, k)) => back = Start(m) \o q[m]
  <2>1. \A m \in 0 .. n : m \in W
    BY <1>1, <1>5, <1>6, InductionTo
  <2> QED BY <2>1 DEF W
<1>8. \A k \in 1 .. n : ~Clear(name, k) => k \in 1 .. n - 1 /\ name[k] = Dot /\ name[k + 1] \in {Dot, Bang}
  BY <1>1 DEF Clear
<1>9. \A k \in 1 .. n - 1 : k \in 1 .. n /\ (name[k] = Dot /\ name[k + 1] \in {Dot, Bang} => ~Clear(name, k))
  BY <1>1 DEF Clear
<1>10. Name!Ambiguous(name) <=> \E k \in 1 .. n : ~Clear(name, k)
  BY <1>1, <1>8, <1>9 DEF Name!Ambiguous
<1>11. ASSUME \A k \in 1 .. n : Clear(name, k) PROVE back = name
  <2>1. n \in 0 .. n
    BY <1>1
  <2>2. Start(n) = name
    BY <1>1, SubSeqFull
  <2>3. name \o <<>> = name
    BY ConcatEmptySeq
  <2> HIDE DEF Start
  <2> QED BY <1>3, <1>7, <1>11, <2>1, <2>2, <2>3
<1>12. ASSUME ~\A k \in 1 .. n : Clear(name, k) PROVE back # name
  <2> DEFINE S == {k \in 1 .. n : ~Clear(name, k)}
  <2>1. PICK i \in S : \A k \in S : i <= k
    <3>1. S \subseteq Nat /\ S # {}
      BY <1>1, <1>12
    <3> HIDE DEF S
    <3> QED BY <3>1, LeastNat
  <2>2. PICK m : m = i - 1
    OBVIOUS
  <2>3. /\ i \in 1 .. n /\ ~Clear(name, i) /\ name[i] = Dot /\ m \in 0 .. n /\ i = m + 1 /\ m \in Nat
        /\ \A k \in 1 .. m : k \in 1 .. n /\ ~(i <= k)
    BY <1>1, <1>8, <2>1, <2>2
  <2>4. \A k \in 1 .. m : Clear(name, k)
    BY <2>1, <2>3
  <2>5. PICK r \in Seq(NameChars) : q[m] = <<Bang>> \o r
    BY <1>3, <2>2, <2>3
  <2>6. PICK a, b, one : a = Start(m) /\ one = <<Bang>> /\ b = one \o r
    OBVIOUS
  <2>7. a \in Seq(NameChars) /\ Len(a) = m /\ one \in Seq(NameChars) /\ Len(one) = 1 /\ one[1] = Bang
    <3>1. Bang \in NameChars
      BY DEF NameChars
    <3>2. a \in Seq(NameChars) /\ Len(a) = m
      BY <1>4, <2>3, <2>6
    <3>3. <<Bang>> \in Seq(NameChars)
      BY <3>1
    <3> QED BY <2>6, <3>2, <3>3
  <2>8. Len(r) \in Nat
    OBVIOUS
  <2>9. b \in Seq(NameChars) /\ Len(b) = 1 + Len(r) /\ b[1] = Bang
    <3>1. /\ one \o r \in Seq(NameChars) /\ Len(one \o r) = Len(one) + Len(r)
          /\ \A j \in 1 .. Len(one) + Len(r) : (one \o r)[j] = IF j <= Len(one) THEN one[j] ELSE r[j - Len(one)]
      BY <2>7, ConcatProperties
    <3>2. 1 \in 1 .. 1 + Len(r)
      BY <2>8
    <3> QED BY <2>6, <2>7, <3>1, <3>2
  <2>10. back = a \o b
    BY <1>7, <2>3, <2>4, <2>5, <2>6
  <2>11. (a \o b)[i] = Bang
    <3>1. \A j \in 1 .. Len(a) + Len(b) : (a \o b)[j] = IF j <= Len(a) THEN a[j] ELSE b[j - Len(a)]
      BY <2>7, <2>9, ConcatProperties
    <3>2. i \in 1 .. Len(a) + Len(b) /\ ~(i <= Len(a)) /\ i - Len(a) = 1
      BY <2>3, <2>7, <2>8, <2>9
    <3> QED BY <2>9, <3>1, <3>2
  <2> QED BY <2>3, <2>10, <2>11, TwoChars
<1>13. Dot \notin Name!ToSet(Name!EncodeSafe(name))
  <2>1. PICK text : text = Name!EncodeSafe(name) /\ text \in Seq(NameChars \ {Dot})
    BY EncodedIs
  <2>2. \A i \in DOMAIN text : text[i] # Dot
    BY <2>1
  <2> QED BY <2>1, <2>2 DEF Name!ToSet
<1> QED BY <1>2, <1>10, <1>11, <1>12, <1>13 DEF Name!NameReturns

----------------------------------------------------------------------------
(* What the conversions are given, and the theorems about them.            *)

\* The digits of a hash.
Hex == Clean!Digits \cup {Letter}

\* The inductive invariant: the input of a conversion so far is a name, fragments of
\* bytes, fragments of a Base64 text, hashes, or segments one behind the other.
SubjectInv ==
  /\ topic = "name"   => subject \in Seq(NameChars)
  /\ topic = "encode" => subject \in Seq(Seq(Int))
  /\ topic = "decode" => subject \in Seq(Seq(Int \cup {Pad}))
  /\ topic = "clean"  => subject \in Seq([1 .. Width -> Hex])
  /\ topic = "files"  => subject \in Seq(WrittenSegments) /\ Contiguous(subject)

\* How much has been streamed is a number.
LEMMA StreamedIs ==
  ASSUME NEW S, subject \in Seq(Seq(S))
  PROVE  Streamed \in Nat
<1>1. FlattenSeq(subject) \in Seq(S)
  BY FlatIs, Zenon
<1>2. PICK t : t = FlattenSeq(subject)
  OBVIOUS
<1>3. Len(t) \in Nat
  BY <1>1, <1>2
<1> QED BY <1>2, <1>3 DEF Streamed

\* A name grows by one of its characters.
LEMMA NameCharKeeps ==
  ASSUME SubjectInv, topic = "name", NameChar
  PROVE  SubjectInv'
<1>1. PICK ch \in NameChars : subject' = Append(subject, ch) /\ topic' = topic
  BY DEF NameChar, Given, NameChars
<1>2. subject' \in Seq(NameChars)
  BY <1>1 DEF SubjectInv
<1>3. NameChars' = NameChars
  BY DEF NameChars
<1> QED BY <1>1, <1>2, <1>3 DEF SubjectInv

\* A target grows by a fragment of bytes.
LEMMA TargetFragmentKeeps ==
  ASSUME SubjectInv, topic = "encode", TargetFragment
  PROVE  SubjectInv'
<1>1. subject \in Seq(Seq(Int)) /\ Streamed \in Nat
  BY StreamedIs DEF SubjectInv
<1>2. PICK n \in 1 .. MaxBytes - Streamed : Given("encode", [i \in 1 .. n |-> Streamed + i])
  BY DEF TargetFragment
<1>3. PICK piece : piece = [i \in 1 .. n |-> Streamed + i]
  OBVIOUS
<1>4. piece \in Seq(Int)
  BY <1>1, <1>2, <1>3
<1>5. subject' = Append(subject, piece) /\ topic' = topic
  BY <1>2, <1>3 DEF Given
<1>6. subject' \in Seq(Seq(Int))
  BY <1>1, <1>4, <1>5
<1> QED BY <1>5, <1>6 DEF SubjectInv

\* A Base64 text grows by a fragment of letters and pads.
LEMMA RecipeFragmentKeeps ==
  ASSUME SubjectInv, topic = "decode", RecipeFragment
  PROVE  SubjectInv'
<1>1. subject \in Seq(Seq(Int \cup {Pad})) /\ Streamed \in Nat
  BY StreamedIs DEF SubjectInv
<1>0. PICK n \in 1 .. MaxChars - Streamed :
           \E pads \in SUBSET (1 .. n) :
             Given("decode", [i \in 1 .. n |-> IF i \in pads THEN Pad ELSE Streamed + i])
  BY DEF RecipeFragment
<1>2. PICK pads \in SUBSET (1 .. n) :
           Given("decode", [i \in 1 .. n |-> IF i \in pads THEN Pad ELSE Streamed + i])
  BY <1>0
<1>3. PICK piece : piece = [i \in 1 .. n |-> IF i \in pads THEN Pad ELSE Streamed + i]
  OBVIOUS
<1>4. piece \in Seq(Int \cup {Pad})
  <2>1. n \in Nat /\ \A i \in 1 .. n : Streamed + i \in Int
    BY <1>1, <1>2
  <2>2. \A i \in 1 .. n : (IF i \in pads THEN Pad ELSE Streamed + i) \in Int \cup {Pad}
    BY <2>1
  <2> QED BY <1>3, <2>1, <2>2
<1>5. subject' = Append(subject, piece) /\ topic' = topic
  BY <1>2, <1>3 DEF Given
<1>6. subject' \in Seq(Seq(Int \cup {Pad}))
  BY <1>1, <1>4, <1>5
<1> QED BY <1>5, <1>6 DEF SubjectInv

\* A corpus grows by a hash.
LEMMA CorpusHashKeeps ==
  ASSUME SubjectInv, topic = "clean", CorpusHash
  PROVE  SubjectInv'
<1>1. PICK h \in [1 .. Width -> Hex] : subject' = Append(subject, h) /\ topic' = topic
  BY DEF CorpusHash, Given, Hex
<1>2. subject' \in Seq([1 .. Width -> Hex])
  BY <1>1 DEF SubjectInv
<1>3. Hex' = Hex
  BY DEF Hex, Clean!Digits
<1> QED BY <1>1, <1>2, <1>3 DEF SubjectInv

\* A recipe grows by a segment that starts where the last one ends.
LEMMA WrittenSegmentKeeps ==
  ASSUME SubjectInv, topic = "files", WrittenSegment
  PROVE  SubjectInv'
<1>1. subject \in Seq(WrittenSegments) /\ Contiguous(subject)
  BY DEF SubjectInv
<1>2. PICK s \in WrittenSegments :
        /\ s.at = (IF subject = <<>> THEN 0 ELSE End(Last(subject)))
        /\ subject' = Append(subject, s) /\ topic' = topic
  BY DEF WrittenSegment, Given
<1>3. PICK n, t : n = Len(subject) /\ t = subject'
  OBVIOUS
<1>4. /\ n \in Nat /\ t \in Seq(WrittenSegments) /\ Len(t) = n + 1 /\ t[n + 1] = s
      /\ \A k \in 1 .. n : t[k] = subject[k]
  BY <1>1, <1>2, <1>3
<1>5. ASSUME NEW k \in 1 .. n + 1 PROVE t[k].at = IF k = 1 THEN 0 ELSE End(t[k - 1])
  <2>1. CASE k \in 1 .. n
    <3>1. subject[k].at = IF k = 1 THEN 0 ELSE End(subject[k - 1])
      BY <1>1, <1>3, <2>1 DEF Contiguous
    <3>2. k # 1 => k - 1 \in 1 .. n
      BY <1>4, <2>1
    <3> QED BY <1>4, <2>1, <3>1, <3>2
  <2>2. CASE k = n + 1
    <3>1. CASE n = 0
      <4>1. subject = <<>>
        <5>1. subject \in Seq(WrittenSegments) /\ Len(subject) = 0
          BY <1>1, <1>3, <3>1
        <5> QED BY <5>1, EmptySeq
      <4> QED BY <1>2, <1>4, <2>2, <3>1, <4>1
    <3>2. CASE n # 0
      <4>1. subject # <<>> /\ n \in 1 .. n /\ k # 1 /\ k - 1 = n
        BY <1>1, <1>3, <1>4, <2>2, <3>2
      <4>2. Last(subject) = t[n]
        BY <1>3, <1>4, <4>1 DEF Last
      <4> QED BY <1>2, <1>4, <2>2, <4>1, <4>2
    <3> QED BY <3>1, <3>2
  <2> QED BY <1>4, <2>1, <2>2
<1>6. Contiguous(t)
  BY <1>4, <1>5 DEF Contiguous
<1>7. Contiguous(subject)' = Contiguous(subject')
  BY Zenon DEF Contiguous, End
<1>8. subject' \in Seq(WrittenSegments) /\ Contiguous(subject)'
  BY <1>3, <1>4, <1>6, <1>7
<1> QED BY <1>2, <1>8 DEF SubjectInv

\* Nothing else touches the input.
LEMMA SubjectStays ==
  ASSUME SubjectInv, UNCHANGED <<topic, subject>>
  PROVE  SubjectInv'
<1>1. NameChars' = NameChars /\ Hex' = Hex
  BY DEF NameChars, Hex, Clean!Digits
<1>2. Contiguous(subject)' = Contiguous(subject)
  BY Zenon DEF Contiguous, End
<1> QED BY <1>1, <1>2 DEF SubjectInv

\* In every state the conversion followed has an input of its kind, whatever pieces it
\* came in.
THEOREM SubjectsAreTyped == RecipesSpec => []SubjectInv
<1>1. RecipesInit => SubjectInv
  <2>1. \A X : <<>> \in Seq(X)
    OBVIOUS
  <2>2. Contiguous(<<>>)
    BY DEF Contiguous
  <2> QED BY <2>1, <2>2 DEF RecipesInit, SubjectInv
<1>2. SubjectInv /\ [RecipesNext]_all_vars => SubjectInv'
  <2> SUFFICES ASSUME SubjectInv, [RecipesNext]_all_vars PROVE SubjectInv'
    OBVIOUS
  <2>1. CASE Checked
    BY <2>1, SubjectStays DEF Checked
  <2>2. CASE topic = "name" /\ NameChar
    BY <2>2, NameCharKeeps
  <2>3. CASE topic = "encode" /\ TargetFragment
    BY <2>3, TargetFragmentKeeps
  <2>4. CASE topic = "decode" /\ RecipeFragment
    BY <2>4, RecipeFragmentKeeps
  <2>5. CASE topic = "clean" /\ CorpusHash
    BY <2>5, CorpusHashKeeps
  <2>6. CASE topic = "files" /\ WrittenSegment
    BY <2>6, WrittenSegmentKeeps
  <2>7. CASE UNCHANGED all_vars
    BY <2>7, SubjectStays DEF all_vars
  <2> QED BY <2>1, <2>2, <2>3, <2>4, <2>5, <2>6, <2>7 DEF RecipesNext
<1> QED BY <1>1, <1>2, PTL DEF RecipesSpec

\* A name of any length comes back from its safe form (safe_notation.py) unless a dot in
\* it stands before a dot or a bang.
THEOREM NamesComeBack == RecipesSpec => []NamesReturn
<1>1. SubjectInv => NamesReturn
  BY NameComesBack DEF SubjectInv, NamesReturn
<1> QED BY <1>1, SubjectsAreTyped, PTL

\* Both files of a recipe of any length give back the segments that were written
\* (recipe.py, bnp2_format.py).
THEOREM SegmentsComeBack == RecipesSpec => []FilesReturn
<1>1. SubjectInv => FilesReturn
  BY BothFilesReturn DEF SubjectInv, FilesReturn
<1> QED BY <1>1, SubjectsAreTyped, PTL
=============================================================================
