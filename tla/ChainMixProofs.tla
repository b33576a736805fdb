--------------------------- MODULE ChainMixProofs ---------------------------
(***************************************************************************)
(* The chain mix stays whole, for any number of chains and any whole.      *)
(*                                                                         *)
(* The sums of the model are recursive functions over the chains; what is  *)
(* needed of them is proved by induction: sums add up, and what is shared  *)
(* equally adds up to what was to be shared.  The same way, the pinned     *)
(* chains that give way together give way by the overflow and no more.     *)
(***************************************************************************)
EXTENDS ChainMix, FiniteSetTheorems, WellFoundedInduction, TLAPS

\* The least of some natural numbers.
LEMMA LeastNat ==
  ASSUME NEW S, S \subseteq Nat, S # {}
  PROVE  \E m \in S : \A k \in S : m <= k
<1>1. PICK m \in S : \A k \in S : ~(<<k, m>> \in OpToRel(<, Nat))
  BY NatLessThanWellFounded, WFMin
<1>2. \A k \in S : k < m => <<k, m>> \in OpToRel(<, Nat)
  BY DEF OpToRel
<1>3. \A k \in S : ~(k < m)
  BY <1>1, <1>2, Zenon
<1>4. QED
  BY <1>3

\* A set of natural numbers that holds 0 and with each number the next one holds all.
LEMMA Induction ==
  ASSUME NEW S, 0 \in S, \A n \in Nat : n \in S => n + 1 \in S
  PROVE  Nat \subseteq S
<1> SUFFICES ASSUME Nat \ S # {} PROVE FALSE
  OBVIOUS
<1>1. PICK m \in Nat \ S : \A k \in Nat \ S : m <= k
  BY LeastNat
<1>2. m # 0
  OBVIOUS
<1>3. m - 1 \in Nat /\ m - 1 \notin S
  BY <1>1, <1>2
<1> QED BY <1>1, <1>3

----------------------------------------------------------------------------
(* Sums.                                                                   *)

\* What chain n adds to a sum.
Term(f, S, n) == IF n \in S THEN f[n] ELSE 0

\* g holds the sums up to each chain.
IsSum(g, f, S) ==
  /\ g[0] = 0
  /\ \A n \in 1 .. NumChains : g[n] = g[n - 1] + Term(f, S, n)

\* The sums up to chain n, for the chains up to m.
SumTo(f, S, g, m) ==
  g = [n \in 0 .. m |-> IF n = 0 THEN 0 ELSE g[n - 1] + (IF n \in S THEN f[n] ELSE 0)]

\* There are sums to any chain.
LEMMA SumsAre ==
  ASSUME NEW f, NEW S, NEW m \in Nat
  PROVE  \E g : SumTo(f, S, g, m)
<1> DEFINE T == {k \in Nat : \E g : SumTo(f, S, g, k)}
<1>1. 0 \in T
  <2>1. SumTo(f, S, [n \in 0 .. 0 |-> 0], 0)
    BY DEF SumTo
  <2> QED BY <2>1
<1>2. ASSUME NEW k \in Nat, k \in T PROVE k + 1 \in T
  <2>1. PICK g : SumTo(f, S, g, k)
    BY <1>2
  <2> DEFINE h == [n \in 0 .. k + 1 |-> IF n = k + 1 THEN g[k] + Term(f, S, k + 1) ELSE g[n]]
  <2>2. \A n \in 0 .. k : h[n] = g[n] /\ g[n] = IF n = 0 THEN 0 ELSE g[n - 1] + Term(f, S, n)
    BY <2>1 DEF SumTo, Term
  <2>3. ASSUME NEW n \in 0 .. k + 1
        PROVE  h[n] = IF n = 0 THEN 0 ELSE h[n - 1] + Term(f, S, n)
    <3>1. CASE n = k + 1
      <4>1. h[n] = g[k] + Term(f, S, n) /\ n # 0 /\ n - 1 = k /\ h[k] = g[k]
        BY <3>1
      <4> QED BY <4>1
    <3>2. CASE n # k + 1
      <4>1. n \in 0 .. k /\ (n # 0 => n - 1 \in 0 .. k)
        BY <3>2
      <4> QED BY <2>2, <4>1
    <3> QED BY <3>1, <3>2
  <2>4. SumTo(f, S, h, k + 1)
    <3> HIDE DEF h
    <3>1. h = [n \in 0 .. k + 1 |-> h[n]]
      BY DEF h
    <3> QED BY <2>3, <3>1 DEF SumTo, Term
  <2> QED BY <2>4
<1> HIDE DEF T
<1>3. m \in T
  BY <1>1, <1>2, Induction
<1> QED BY <1>3 DEF T

LEMMA MixConstants == MixAssumption => NumChains \in Nat \ {0} /\ Total \in Nat /\ NumChains \in Chains
BY DEF MixAssumption, Chains

\* A sum is the last of the sums up to each chain.
LEMMA SumIs ==
  ASSUME MixAssumption, NEW f, NEW S
  PROVE  \E g : IsSum(g, f, S) /\ SumOn(f, S) = g[NumChains]
<1> DEFINE sum == CHOOSE g : SumTo(f, S, g, NumChains)
<1>1. SumOn(f, S) = sum[NumChains]
  BY DEF SumOn, SumTo
<1>2. SumTo(f, S, sum, NumChains)
  BY SumsAre, MixConstants
<1> HIDE DEF sum
<1>3. IsSum(sum, f, S)
  <2>1. sum[0] = 0
    BY <1>2, MixConstants DEF SumTo
  <2>2. ASSUME NEW n \in 1 .. NumChains PROVE sum[n] = sum[n - 1] + Term(f, S, n)
    <3>1. n \in 0 .. NumChains /\ n # 0
      BY MixConstants
    <3> QED BY <1>2, <3>1 DEF SumTo, Term
  <2> QED BY <2>1, <2>2 DEF IsSum
<1> QED BY <1>1, <1>3

\* The sums up to each chain are integers.
LEMMA SumsAreInt ==
  ASSUME MixAssumption, NEW f, NEW S, NEW g, IsSum(g, f, S),
         \A n \in Chains : n \in S => f[n] \in Int
  PROVE  \A n \in 0 .. NumChains : g[n] \in Int
<1> DEFINE T == {k \in Nat : k <= NumChains => g[k] \in Int}
<1>1. 0 \in T
  BY DEF IsSum
<1>2. ASSUME NEW k \in Nat, k \in T PROVE k + 1 \in T
  <2> SUFFICES ASSUME k + 1 <= NumChains PROVE g[k + 1] \in Int
    OBVIOUS
  <2>1. k + 1 \in 1 .. NumChains /\ k + 1 - 1 = k /\ g[k] \in Int
    BY <1>2, MixConstants
  <2>2. Term(f, S, k + 1) \in Int
    BY <2>1 DEF Term, Chains
  <2>3. g[k + 1] = g[k] + Term(f, S, k + 1)
    BY <2>1 DEF IsSum
  <2> QED BY <2>1, <2>2, <2>3
<1> HIDE DEF T
<1>3. Nat \subseteq T
  BY <1>1, <1>2, Induction
<1> QED BY <1>3, MixConstants DEF T

\* Two sums whose terms are together those of a third are together the third.
LEMMA SumsAdd ==
  ASSUME MixAssumption, NEW f, NEW S, NEW g, NEW T, NEW h, NEW U,
         \A n \in Chains : Term(f, S, n) \in Int /\ Term(g, T, n) \in Int,
         \A n \in Chains : Term(h, U, n) = Term(f, S, n) + Term(g, T, n)
  PROVE  /\ SumOn(h, U) = SumOn(f, S) + SumOn(g, T)
         /\ SumOn(f, S) \in Int /\ SumOn(g, T) \in Int
<1>1. PICK a : IsSum(a, f, S) /\ SumOn(f, S) = a[NumChains]
  BY SumIs
<1>2. PICK b : IsSum(b, g, T) /\ SumOn(g, T) = b[NumChains]
  BY SumIs
<1>3. PICK c : IsSum(c, h, U) /\ SumOn(h, U) = c[NumChains]
  BY SumIs
<1> DEFINE R == {k \in Nat : k <= NumChains => c[k] = a[k] + b[k] /\ a[k] \in Int /\ b[k] \in Int}
<1>4. 0 \in R
  BY <1>1, <1>2, <1>3 DEF IsSum
<1>5. ASSUME NEW k \in Nat, k \in R PROVE k + 1 \in R
  <2> SUFFICES ASSUME k + 1 <= NumChains
               PROVE  c[k + 1] = a[k + 1] + b[k + 1] /\ a[k + 1] \in Int /\ b[k + 1] \in Int
    OBVIOUS
  <2>1. k + 1 \in 1 .. NumChains /\ k + 1 - 1 = k /\ c[k] = a[k] + b[k] /\ a[k] \in Int /\ b[k] \in Int
    BY <1>5, MixConstants
  <2>2. /\ a[k + 1] = a[k] + Term(f, S, k + 1) /\ b[k + 1] = b[k] + Term(g, T, k + 1)
        /\ c[k + 1] = c[k] + Term(h, U, k + 1)
    BY <1>1, <1>2, <1>3, <2>1 DEF IsSum
  <2>3. /\ Term(f, S, k + 1) \in Int /\ Term(g, T, k + 1) \in Int
        /\ Term(h, U, k + 1) = Term(f, S, k + 1) + Term(g, T, k + 1)
    BY <2>1 DEF Chains
  <2> QED BY <2>1, <2>2, <2>3
<1> HIDE DEF R
<1>6. Nat \subseteq R
  BY <1>4, <1>5, Induction
<1> QED BY <1>1, <1>2, <1>3, <1>6, MixConstants DEF R

\* The sum over no chain is 0.
LEMMA SumOfNone == ASSUME MixAssumption, NEW f PROVE SumOn(f, {}) = 0
<1>1. \A n \in Chains : /\ Term(f, {}, n) \in Int
                        /\ Term(f, {}, n) = Term(f, {}, n) + Term(f, {}, n)
  BY DEF Term
<1>2. SumOn(f, {}) = SumOn(f, {}) + SumOn(f, {}) /\ SumOn(f, {}) \in Int
  BY <1>1, SumsAdd
<1>3. \A x \in Int : x = x + x => x = 0
  OBVIOUS
<1> QED BY <1>2, <1>3, Zenon

\* A sum depends on its terms only.
LEMMA SumsAgree ==
  ASSUME MixAssumption, NEW f, NEW S, NEW g, NEW T,
         \A n \in Chains : Term(f, S, n) \in Int /\ Term(g, T, n) = Term(f, S, n)
  PROVE  SumOn(g, T) = SumOn(f, S) /\ SumOn(f, S) \in Int
<1>1. \A n \in Chains : Term(f, {}, n) = 0
  BY DEF Term
<1>2. SumOn(f, {}) = 0
  BY SumOfNone
<1>3. SumOn(g, T) = SumOn(f, S) + SumOn(f, {}) /\ SumOn(f, S) \in Int
  <2>1. \A n \in Chains : /\ Term(f, S, n) \in Int /\ Term(f, {}, n) \in Int
                          /\ Term(g, T, n) = Term(f, S, n) + Term(f, {}, n)
    BY <1>1
  <2> QED BY <2>1, SumsAdd
<1> QED BY <1>2, <1>3

\* The sums over two parts add up.
LEMMA SumOfParts ==
  ASSUME MixAssumption, NEW f, NEW S, NEW T, NEW U, U = S \cup T, S \cap T = {},
         \A n \in U : f[n] \in Int
  PROVE  /\ SumOn(f, U) = SumOn(f, S) + SumOn(f, T)
         /\ SumOn(f, S) \in Int /\ SumOn(f, T) \in Int
<1>1. \A n \in Chains : /\ Term(f, S, n) \in Int /\ Term(f, T, n) \in Int
                        /\ Term(f, U, n) = Term(f, S, n) + Term(f, T, n)
  BY DEF Term
<1>2. SumOn(f, U) = SumOn(f, S) + SumOn(f, T)
  BY ONLY <1>1, SumsAdd, MixAssumption
<1>3. SumOn(f, S) \in Int /\ SumOn(f, T) \in Int
  BY ONLY <1>1, SumsAdd, MixAssumption
<1> QED BY <1>2, <1>3

\* The sum over one chain.
LEMMA SumOfOne ==
  ASSUME MixAssumption, NEW f, NEW c \in Chains, f[c] \in Int
  PROVE  SumOn(f, {c}) = f[c]
<1>1. PICK g : IsSum(g, f, {c}) /\ SumOn(f, {c}) = g[NumChains]
  BY SumIs
<1> DEFINE T == {k \in Nat : k <= NumChains => g[k] = IF k < c THEN 0 ELSE f[c]}
<1>2. 0 \in T
  BY <1>1 DEF IsSum, Chains
<1>3. ASSUME NEW k \in Nat, k \in T PROVE k + 1 \in T
  <2> SUFFICES ASSUME k + 1 <= NumChains PROVE g[k + 1] = IF k + 1 < c THEN 0 ELSE f[c]
    OBVIOUS
  <2>1. k + 1 \in 1 .. NumChains /\ k + 1 - 1 = k /\ g[k] = IF k < c THEN 0 ELSE f[c]
    BY <1>3, MixConstants
  <2>2. g[k + 1] = g[k] + Term(f, {c}, k + 1)
    BY <1>1, <2>1 DEF IsSum
  <2>3. CASE k + 1 = c
    BY <2>1, <2>2, <2>3 DEF Term
  <2>4. CASE k + 1 # c
    <3>1. c \in Nat /\ (k < c <=> k + 1 < c)
      BY <2>4, MixConstants DEF Chains
    <3>2. g[k + 1] = g[k] + 0
      BY <2>2, <2>4 DEF Term
    <3> QED BY <2>1, <3>1, <3>2
  <2> QED BY <2>3, <2>4
<1> HIDE DEF T
<1>4. Nat \subseteq T
  BY <1>2, <1>3, Induction
<1>5. NumChains \in T /\ ~(NumChains < c)
  BY <1>4, MixConstants DEF Chains
<1> QED BY <1>1, <1>5 DEF T

\* A sum of natural numbers is one, and none of them exceeds it.
LEMMA SumOfShares ==
  ASSUME MixAssumption, NEW f, NEW S \in SUBSET Chains, \A n \in S : f[n] \in Nat
  PROVE  SumOn(f, S) \in Nat /\ \A c \in S : f[c] <= SumOn(f, S)
<1>1. ASSUME NEW U \in SUBSET S PROVE SumOn(f, U) \in Nat
  <2>1. PICK g : IsSum(g, f, U) /\ SumOn(f, U) = g[NumChains]
    BY SumIs
  <2> DEFINE T == {k \in Nat : k <= NumChains => g[k] \in Nat}
  <2>2. 0 \in T
    BY <2>1 DEF IsSum
  <2>3. ASSUME NEW k \in Nat, k \in T PROVE k + 1 \in T
    <3> SUFFICES ASSUME k + 1 <= NumChains PROVE g[k + 1] \in Nat
      OBVIOUS
    <3>1. k + 1 \in 1 .. NumChains /\ k + 1 - 1 = k /\ g[k] \in Nat
      BY <2>3, MixConstants
    <3>2. g[k + 1] = g[k] + Term(f, U, k + 1)
      BY <2>1, <3>1 DEF IsSum
    <3>3. Term(f, U, k + 1) \in Nat
      BY DEF Term
    <3> QED BY <3>1, <3>2, <3>3
  <2> HIDE DEF T
  <2>4. Nat \subseteq T
    BY <2>2, <2>3, Induction
  <2> QED BY <2>1, <2>4, MixConstants DEF T
<1>2. ASSUME NEW c \in S PROVE f[c] <= SumOn(f, S)
  <2>1. S = (S \ {c}) \cup {c} /\ (S \ {c}) \cap {c} = {} /\ S \ {c} \in SUBSET S
    OBVIOUS
  <2>2. \A n \in S : f[n] \in Int
    OBVIOUS
  <2>3. SumOn(f, S) = SumOn(f, S \ {c}) + SumOn(f, {c})
    BY <2>1, <2>2, SumOfParts
  <2>4. SumOn(f, {c}) = f[c] /\ SumOn(f, S \ {c}) \in Nat /\ f[c] \in Nat
    BY <1>1, <2>1, SumOfOne
  <2> QED BY <2>3, <2>4
<1> QED BY <1>1, <1>2

----------------------------------------------------------------------------
(* Equal shares.                                                           *)

\* How many of S are among the first k chains.
Among(S, k) == Cardinality(S \cap 1 .. k)

LEMMA ChainsAreFinite ==
  ASSUME MixAssumption, NEW S \in SUBSET Chains
  PROVE  IsFiniteSet(S)
<1>1. 1 \in Int /\ NumChains \in Int
  BY MixConstants
<1>2. IsFiniteSet(Chains)
  BY <1>1, FS_Interval DEF Chains
<1> QED BY <1>2, FS_Subset

LEMMA AmongGrows ==
  ASSUME MixAssumption, NEW S \in SUBSET Chains
  PROVE  /\ Among(S, 0) = 0 /\ Among(S, NumChains) = Cardinality(S)
         /\ \A k \in Nat : /\ Among(S, k) \in Nat
                           /\ Among(S, k + 1) = Among(S, k) + (IF k + 1 \in S THEN 1 ELSE 0)
         /\ \A c \in S : Cardinality({d \in S : d < c}) = Among(S, c - 1)
<1>1. IsFiniteSet(S)
  BY ChainsAreFinite
<1>2. Among(S, 0) = 0
  <2>1. S \cap 1 .. 0 = {}
    OBVIOUS
  <2> QED BY <2>1, FS_EmptySet DEF Among
<1>3. Among(S, NumChains) = Cardinality(S)
  <2>1. S \cap 1 .. NumChains = S
    BY DEF Chains
  <2> QED BY <2>1 DEF Among
<1>4. ASSUME NEW k \in Nat
      PROVE  /\ Among(S, k) \in Nat
             /\ Among(S, k + 1) = Among(S, k) + (IF k + 1 \in S THEN 1 ELSE 0)
  <2>1. IsFiniteSet(S \cap 1 .. k)
    BY <1>1, FS_Subset
  <2>2. CASE k + 1 \in S
    <3>1. S \cap 1 .. k + 1 = (S \cap 1 .. k) \cup {k + 1} /\ k + 1 \notin S \cap 1 .. k
      BY <2>2
    <3> QED BY <2>1, <2>2, <3>1, FS_AddElement, FS_CardinalityType DEF Among
  <2>3. CASE k + 1 \notin S
    <3>1. S \cap 1 .. k + 1 = S \cap 1 .. k
      BY <2>3 DEF Chains
    <3>2. Among(S, k) \in Nat
      BY <2>1, FS_CardinalityType DEF Among
    <3>3. Among(S, k + 1) = Among(S, k)
      BY <3>1 DEF Among
    <3> QED BY <2>3, <3>2, <3>3
  <2> QED BY <2>2, <2>3
<1>5. ASSUME NEW c \in S PROVE Cardinality({d \in S : d < c}) = Among(S, c - 1)
  <2>1. \A d \in S : d < c <=> d \in 1 .. c - 1
    BY MixConstants DEF Chains
  <2>2. {d \in S : d < c} = S \cap 1 .. c - 1
    BY <2>1
  <2> QED BY <2>2 DEF Among
<1> QED BY <1>2, <1>3, <1>4, <1>5

\* Equal shares add up to what is shared, and none is negative.
LEMMA SharesAddUp ==
  ASSUME MixAssumption, NEW S \in SUBSET Chains, S # {}, NEW whole \in Nat
  PROVE  /\ SumOn(EqualSplit(S, whole), S) = whole
         /\ DOMAIN EqualSplit(S, whole) = S
         /\ \A c \in S : EqualSplit(S, whole)[c] \in Nat
<1> DEFINE base == whole \div Cardinality(S)
           over == whole % Cardinality(S)
           f    == EqualSplit(S, whole)
<1>1. Cardinality(S) \in Nat \ {0}
  <2>1. IsFiniteSet(S)
    BY ChainsAreFinite
  <2> QED BY <2>1, FS_CardinalityType, FS_EmptySet
<1>2. /\ base \in Nat /\ over \in Nat /\ over < Cardinality(S)
      /\ whole = Cardinality(S) * base + over
  BY <1>1
<1>3. /\ DOMAIN f = S
      /\ \A c \in S : f[c] = base + (IF Among(S, c - 1) < over THEN 1 ELSE 0)
  BY AmongGrows DEF EqualSplit
<1> HIDE DEF base, over, f
<1>4. PICK g : IsSum(g, f, S) /\ SumOn(f, S) = g[NumChains]
  BY SumIs
<1> DEFINE T == {k \in Nat : k <= NumChains => g[k] = Among(S, k) * base + MinOf(over, Among(S, k))}
<1>5. 0 \in T
  <2>1. Among(S, 0) = 0 /\ g[0] = 0
    BY <1>4, AmongGrows DEF IsSum
  <2>2. 0 * base = 0 /\ MinOf(over, 0) = 0
    BY <1>2 DEF MinOf
  <2> QED BY <2>1, <2>2
<1>6. ASSUME NEW k \in Nat, k \in T PROVE k + 1 \in T
  <2> SUFFICES ASSUME k + 1 <= NumChains
               PROVE  g[k + 1] = Among(S, k + 1) * base + MinOf(over, Among(S, k + 1))
    OBVIOUS
  <2>1. /\ k + 1 \in 1 .. NumChains /\ k + 1 - 1 = k
        /\ g[k] = Among(S, k) * base + MinOf(over, Among(S, k))
    BY <1>6, MixConstants
  <2>2. g[k + 1] = g[k] + Term(f, S, k + 1)
    BY <1>4, <2>1 DEF IsSum
  <2>3. Among(S, k) \in Nat /\ Among(S, k + 1) = Among(S, k) + (IF k + 1 \in S THEN 1 ELSE 0)
    BY AmongGrows
  <2>4. CASE k + 1 \in S
    <3>1. Term(f, S, k + 1) = base + (IF Among(S, k) < over THEN 1 ELSE 0)
      BY <1>3, <2>1, <2>4 DEF Term
    <3>2. (Among(S, k) + 1) * base = Among(S, k) * base + base /\ Among(S, k) * base \in Int
      BY <1>2, <2>3
    <3>3. MinOf(over, Among(S, k) + 1) = MinOf(over, Among(S, k)) + (IF Among(S, k) < over THEN 1 ELSE 0)
      BY <1>2, <2>3 DEF MinOf
    <3>4. MinOf(over, Among(S, k)) \in Int
      BY <1>2, <2>3 DEF MinOf
    <3> QED BY <1>2, <2>1, <2>2, <2>3, <2>4, <3>1, <3>2, <3>3, <3>4
  <2>5. CASE k + 1 \notin S
    <3>1. Term(f, S, k + 1) = 0 /\ Among(S, k + 1) = Among(S, k)
      BY <2>3, <2>5 DEF Term
    <3>2. g[k] \in Int
      <4>1. Among(S, k) * base \in Int
        BY <1>2, <2>3
      <4>2. MinOf(over, Among(S, k)) \in Int
        BY <1>2, <2>3 DEF MinOf
      <4> QED BY <2>1, <4>1, <4>2
    <3> QED BY <2>1, <2>2, <3>1, <3>2
  <2> QED BY <2>4, <2>5
<1> HIDE DEF T
<1>7. Nat \subseteq T
  BY <1>5, <1>6, Induction
<1>8. g[NumChains] = Cardinality(S) * base + over
  <2>1. NumChains \in T
    BY <1>7, MixConstants
  <2>2. g[NumChains] = Cardinality(S) * base + MinOf(over, Cardinality(S))
    BY <2>1, AmongGrows, MixConstants DEF T
  <2>3. MinOf(over, Cardinality(S)) = over
    BY <1>1, <1>2 DEF MinOf
  <2> QED BY <2>2, <2>3
<1>9. \A c \in S : f[c] \in Nat
  BY <1>2, <1>3
<1> QED BY <1>2, <1>3, <1>4, <1>8, <1>9 DEF f

----------------------------------------------------------------------------
(* The order of edits.                                                     *)

Distinct(order) == \A i, k \in DOMAIN order : order[i] = order[k] => i = k

\* What is in S of the first n of an order is itself an order, of exactly those
\* elements, in which none overtakes another.
Thinned(kept, order, S, n) ==
  /\ kept \in Seq(Chains) /\ Distinct(kept)
  /\ ChainsIn(kept) = {order[i] : i \in 1 .. n} \cap S
  /\ \A i, k \in 1 .. n :
       i < k /\ {order[i], order[k]} \subseteq S =>
         \E p, q \in DOMAIN kept : p < q /\ kept[p] = order[i] /\ kept[q] = order[k]

\* Orders grow by a chain that is not in them yet.
LEMMA Appended ==
  ASSUME NEW order \in Seq(Chains), Distinct(order), NEW c \in Chains, c \notin ChainsIn(order)
  PROVE  /\ Append(order, c) \in Seq(Chains) /\ Distinct(Append(order, c))
         /\ Len(Append(order, c)) = Len(order) + 1
         /\ ChainsIn(Append(order, c)) = ChainsIn(order) \cup {c}
         /\ Append(order, c)[Len(order) + 1] = c
         /\ \A i \in 1 .. Len(order) : Append(order, c)[i] = order[i]
<1> DEFINE l == Append(order, c)
<1>1. /\ l \in Seq(Chains) /\ Len(l) = Len(order) + 1 /\ l[Len(order) + 1] = c
      /\ \A i \in 1 .. Len(order) : l[i] = order[i]
  OBVIOUS
<1>2. DOMAIN order = 1 .. Len(order) /\ DOMAIN l = 1 .. Len(order) + 1 /\ Len(order) \in Nat
  BY <1>1
<1> HIDE DEF l
<1>3. ChainsIn(l) = ChainsIn(order) \cup {c}
  <2>1. ASSUME NEW i \in DOMAIN l PROVE l[i] \in ChainsIn(order) \cup {c}
    <3>1. i \in DOMAIN order \/ i = Len(order) + 1
      BY <1>2
    <3> QED BY <1>1, <1>2, <3>1 DEF ChainsIn
  <2>2. ASSUME NEW i \in DOMAIN order PROVE order[i] \in ChainsIn(l)
    <3>1. i \in DOMAIN l /\ l[i] = order[i]
      BY <1>1, <1>2
    <3> QED BY <3>1 DEF ChainsIn
  <2>3. c \in ChainsIn(l)
    BY <1>1, <1>2 DEF ChainsIn
  <2> QED BY <2>1, <2>2, <2>3 DEF ChainsIn
<1>4. Distinct(l)
  <2> SUFFICES ASSUME NEW i \in DOMAIN l, NEW k \in DOMAIN l, l[i] = l[k] PROVE i = k
    BY DEF Distinct
  <2>1. \A j \in DOMAIN l : (j \in DOMAIN order /\ l[j] = order[j] /\ l[j] # c) \/ (j = Len(order) + 1 /\ l[j] = c)
    BY <1>1, <1>2 DEF ChainsIn
  <2> QED BY <2>1 DEF Distinct
<1> QED BY <1>1, <1>3, <1>4 DEF l

\* What the n-th of an order adds to those kept of it.
AddedTo(s, order, S, n) == IF order[n] \in S THEN Append(s, order[n]) ELSE s

\* The parts kept of the first n of an order, for n up to m.
KeptTo(order, S, g, m) ==
  g = [n \in 0 .. m |->
         IF n = 0 THEN <<>>
         ELSE IF order[n] \in S THEN Append(g[n - 1], order[n]) ELSE g[n - 1]]

LEMMA OnlyOfThins ==
  ASSUME MixAssumption, NEW order \in Seq(Chains), Distinct(order), NEW S
  PROVE  Thinned(OnlyOf(order, S), order, S, Len(order))
<1> DEFINE Keeps(g, m) == KeptTo(order, S, g, m)
           next(s, n)  == AddedTo(s, order, S, n)
           T == {m \in Nat : \E g : Keeps(g, m)}
<1>1. 0 \in T
  <2>1. Keeps([n \in 0 .. 0 |-> <<>>], 0)
    BY DEF KeptTo
  <2> QED BY <2>1
<1>2. ASSUME NEW m \in Nat, m \in T PROVE m + 1 \in T
  <2>1. PICK g : Keeps(g, m)
    BY <1>2
  <2> DEFINE h == [n \in 0 .. m + 1 |-> IF n = m + 1 THEN next(g[m], m + 1) ELSE g[n]]
  <2>2. /\ \A n \in 0 .. m : h[n] = g[n]
        /\ \A n \in 0 .. m : g[n] = IF n = 0 THEN <<>> ELSE next(g[n - 1], n)
    <3>1. \A n \in 0 .. m : n \in 0 .. m + 1 /\ n # m + 1
      OBVIOUS
    <3>2. \A n \in 0 .. m : h[n] = g[n]
      BY <3>1
    <3>3. \A n \in 0 .. m : g[n] = IF n = 0 THEN <<>> ELSE next(g[n - 1], n)
      BY <2>1 DEF KeptTo, AddedTo
    <3> QED BY <3>2, <3>3
  <2>3. ASSUME NEW n \in 0 .. m + 1 PROVE h[n] = IF n = 0 THEN <<>> ELSE next(h[n - 1], n)
    <3>1. CASE n = m + 1
      <4>1. h[n] = next(g[m], n) /\ n # 0 /\ n - 1 = m /\ h[m] = g[m]
        BY <3>1
      <4> QED BY <4>1
    <3>2. CASE n # m + 1
      <4>1. n \in 0 .. m /\ (n # 0 => n - 1 \in 0 .. m)
        BY <3>2
      <4> QED BY <2>2, <4>1
    <3> QED BY <3>1, <3>2
  <2>4. Keeps(h, m + 1)
    <3> HIDE DEF h
    <3>1. h = [n \in 0 .. m + 1 |-> h[n]]
      BY DEF h
    <3> QED BY <2>3, <3>1 DEF KeptTo, AddedTo
  <2> QED BY <2>4
<1> HIDE DEF T
<1>3. Len(order) \in T
  BY <1>1, <1>2, Induction
<1> DEFINE kept == CHOOSE g : Keeps(g, Len(order))
<1>4. OnlyOf(order, S) = kept[Len(order)]
  BY DEF OnlyOf, KeptTo
<1>5. Keeps(kept, Len(order))
  BY <1>3 DEF T
<1> HIDE DEF kept
<1>6. kept[0] = <<>> /\ \A n \in 1 .. Len(order) : kept[n] = next(kept[n - 1], n)
  <2>1. \A n \in 0 .. Len(order) : kept[n] = IF n = 0 THEN <<>> ELSE next(kept[n - 1], n)
    BY <1>5 DEF KeptTo, AddedTo
  <2> QED BY <2>1
<1> HIDE DEF Keeps
<1> DEFINE R == {m \in Nat : m <= Len(order) => Thinned(kept[m], order, S, m)}
<1>7. 0 \in R
  <2>1. Thinned(<<>>, order, S, 0)
    BY DEF Thinned, Distinct, ChainsIn
  <2> QED BY <1>6, <2>1
<1>8. ASSUME NEW m \in Nat, m \in R PROVE m + 1 \in R
  <2> SUFFICES ASSUME m + 1 <= Len(order) PROVE Thinned(kept[m + 1], order, S, m + 1)
    OBVIOUS
  <2> DEFINE s == kept[m]
             c == order[m + 1]
  <2>1. /\ m + 1 \in 1 .. Len(order) /\ m + 1 - 1 = m /\ Thinned(s, order, S, m)
        /\ DOMAIN order = 1 .. Len(order) /\ m + 1 \in DOMAIN order
    BY <1>8
  <2>2. kept[m + 1] = next(s, m + 1)
    BY <1>6, <2>1
  <2>3. c \in Chains /\ c \notin ChainsIn(s)
    <3>1. c \in Chains
      BY <2>1
    <3>2. \A i \in 1 .. m : i \in DOMAIN order /\ i # m + 1
      BY <2>1
    <3>3. \A i \in 1 .. m : order[i] # c
      BY <2>1, <3>2 DEF Distinct
    <3> QED BY <2>1, <3>1, <3>3 DEF Thinned
  <2>4. {order[i] : i \in 1 .. m + 1} = {order[i] : i \in 1 .. m} \cup {c}
    <3>1. 1 .. m + 1 = (1 .. m) \cup {m + 1}
      OBVIOUS
    <3> QED BY <3>1
  <2> HIDE DEF s
  <2>5. CASE c \in S
    <3>1. kept[m + 1] = Append(s, c)
      BY <2>2, <2>5 DEF AddedTo
    <3> HIDE DEF c
    <3> DEFINE l == Append(s, c)
    <3>2. s \in Seq(Chains) /\ Distinct(s) /\ ChainsIn(s) = {order[i] : i \in 1 .. m} \cap S
      BY <2>1 DEF Thinned
    <3>3. /\ l \in Seq(Chains) /\ Distinct(l) /\ Len(l) = Len(s) + 1
          /\ ChainsIn(l) = ChainsIn(s) \cup {c}
          /\ l[Len(s) + 1] = c /\ \A i \in 1 .. Len(s) : l[i] = s[i]
      BY <2>3, <3>2, Appended
    <3>4. DOMAIN s = 1 .. Len(s) /\ DOMAIN l = 1 .. Len(s) + 1 /\ Len(s) \in Nat
      BY <3>2, <3>3
    <3> HIDE DEF l
    <3>5. ChainsIn(l) = {order[i] : i \in 1 .. m + 1} \cap S
      BY <2>4, <2>5, <3>2, <3>3
    <3>6. ASSUME NEW i \in 1 .. m + 1, NEW k \in 1 .. m + 1, i < k, {order[i], order[k]} \subseteq S
          PROVE  \E p, q \in DOMAIN l : p < q /\ l[p] = order[i] /\ l[q] = order[k]
      <4>1. CASE k = m + 1
        <5>1. i \in 1 .. m /\ order[k] = c
          BY <3>6, <4>1 DEF c
        <5>2. order[i] \in ChainsIn(s)
          BY <3>2, <3>6, <5>1
        <5>3. PICK p \in DOMAIN s : s[p] = order[i]
          BY <5>2 DEF ChainsIn
        <5>4. p \in DOMAIN l /\ l[p] = order[i] /\ p < Len(s) + 1
          BY <3>3, <3>4, <5>3
        <5>5. Len(s) + 1 \in DOMAIN l /\ l[Len(s) + 1] = order[k]
          BY <3>3, <3>4, <5>1
        <5> QED BY <5>4, <5>5
      <4>2. CASE k # m + 1
        <5>1. i \in 1 .. m /\ k \in 1 .. m
          BY <3>6, <4>2
        <5>2. PICK p \in DOMAIN s, q \in DOMAIN s : p < q /\ s[p] = order[i] /\ s[q] = order[k]
          BY <2>1, <3>6, <5>1 DEF Thinned
        <5>3. p \in DOMAIN l /\ q \in DOMAIN l /\ l[p] = s[p] /\ l[q] = s[q]
          BY <3>3, <3>4
        <5> QED BY <5>2, <5>3
      <4> QED BY <4>1, <4>2
    <3>7. Thinned(l, order, S, m + 1)
      BY <3>3, <3>5, <3>6 DEF Thinned
    <3> QED BY <3>1, <3>7 DEF l
  <2>6. CASE c \notin S
    <3>1. kept[m + 1] = s
      BY <2>2, <2>6 DEF AddedTo
    <3>2. {order[i] : i \in 1 .. m + 1} \cap S = {order[i] : i \in 1 .. m} \cap S
      BY <2>4, <2>6
    <3>3. ASSUME NEW i \in 1 .. m + 1, NEW k \in 1 .. m + 1, i < k, {order[i], order[k]} \subseteq S
          PROVE  i \in 1 .. m /\ k \in 1 .. m
      <4>1. i # m + 1 /\ k # m + 1
        BY <2>6, <3>3
      <4> QED BY <4>1
    <3> HIDE DEF c
    <3>4. Thinned(s, order, S, m + 1)
      BY <2>1, <3>2, <3>3 DEF Thinned
    <3> QED BY <3>1, <3>4
  <2> QED BY <2>5, <2>6
<1> HIDE DEF R
<1>9. Nat \subseteq R
  BY <1>7, <1>8, Induction
<1> QED BY <1>4, <1>9 DEF R

----------------------------------------------------------------------------
(* The pinned chains give way.                                             *)

Overflow(values, order) == Positive(SumOn(values, ChainsIn(order)) - Total)
Newer(order, changed, i) == {order[k] : k \in i + 1 .. Len(order)} \ {changed}
Cut(values, order, changed, i) ==
  MinOf(values[order[i]], Positive(Overflow(values, order) - SumOn(values, Newer(order, changed, i))))

\* What one chain gives way by of an overflow o when the newer ones have m: together
\* they give way by all of it, or by what they have.
LEMMA CutsMeet ==
  ASSUME NEW o \in Nat, NEW m \in Nat, NEW x \in Nat
  PROVE  /\ MinOf(o, m) + MinOf(x, Positive(o - m)) = MinOf(o, m + x)
         /\ MinOf(x, Positive(o - m)) \in Nat /\ MinOf(x, Positive(o - m)) <= x
         /\ MinOf(x, Positive(o - m)) < x => o < m + x
         /\ o <= m => MinOf(x, Positive(o - m)) = 0
<1>1. CASE o <= m
  <2>1. Positive(o - m) = 0
    BY <1>1 DEF Positive
  <2>2. MinOf(x, 0) = 0 /\ MinOf(o, m) = o /\ MinOf(o, m + x) = o
    BY <1>1 DEF MinOf
  <2> QED BY <1>1, <2>1, <2>2
<1>2. CASE ~(o <= m)
  <2>1. Positive(o - m) = o - m /\ MinOf(o, m) = m /\ o - m \in Nat
    BY <1>2 DEF MinOf, Positive
  <2>2. CASE x < o - m
    BY <1>2, <2>1, <2>2 DEF MinOf
  <2>3. CASE ~(x < o - m)
    BY <1>2, <2>1, <2>3 DEF MinOf
  <2> QED BY <2>2, <2>3
<1> QED BY <1>1, <1>2

\* Sums of parts of an order are natural numbers, and larger parts have larger sums.
LEMMA SumsOfPins ==
  ASSUME MixAssumption, NEW values \in [Chains -> 0 .. Total]
  PROVE  /\ \A S \in SUBSET Chains : SumOn(values, S) \in Nat
         /\ \A S, T \in SUBSET Chains : S \subseteq T => SumOn(values, S) <= SumOn(values, T)
         /\ \A S \in SUBSET Chains : \A c \in Chains \ S :
              SumOn(values, S \cup {c}) = SumOn(values, S) + values[c]
<1>1. \A c \in Chains : values[c] \in Nat /\ values[c] \in Int
  BY MixConstants
<1>2. \A S \in SUBSET Chains : SumOn(values, S) \in Nat
  BY <1>1, SumOfShares
<1>3. ASSUME NEW S \in SUBSET Chains, NEW T \in SUBSET Chains, S \subseteq T
      PROVE  SumOn(values, S) <= SumOn(values, T)
  <2>1. T = S \cup (T \ S) /\ S \cap (T \ S) = {} /\ T \ S \in SUBSET Chains
    BY <1>3
  <2>2. \A n \in T : values[n] \in Int
    BY <1>1
  <2>3. SumOn(values, T) = SumOn(values, S) + SumOn(values, T \ S)
    BY <2>1, <2>2, SumOfParts
  <2>4. SumOn(values, S) \in Nat /\ SumOn(values, T \ S) \in Nat
    BY <1>2, <2>1
  <2> QED BY <2>3, <2>4
<1>4. ASSUME NEW S \in SUBSET Chains, NEW c \in Chains \ S
      PROVE  SumOn(values, S \cup {c}) = SumOn(values, S) + values[c]
  <2>1. S \cap {c} = {} /\ \A n \in S \cup {c} : values[n] \in Int
    BY <1>1
  <2>2. SumOn(values, S \cup {c}) = SumOn(values, S) + SumOn(values, {c})
    BY <2>1, SumOfParts
  <2>3. SumOn(values, {c}) = values[c]
    BY <1>1, SumOfOne
  <2> QED BY <2>2, <2>3
<1> QED BY <1>2, <1>3, <1>4

\* What comes after a place of an order is one chain more than what comes after the
\* next, unless that chain is the one being edited.
LEMMA NewerGrows ==
  ASSUME NEW order \in Seq(Chains), Distinct(order), NEW changed
  PROVE  /\ Newer(order, changed, Len(order)) = {}
         /\ Newer(order, changed, 0) = ChainsIn(order) \ {changed}
         /\ \A i \in 0 .. Len(order) : Newer(order, changed, i) \in SUBSET Chains
         /\ \A i \in 1 .. Len(order) :
              /\ order[i] \in Chains \ Newer(order, changed, i)
              /\ Newer(order, changed, i - 1) =
                   IF order[i] = changed THEN Newer(order, changed, i)
                                         ELSE Newer(order, changed, i) \cup {order[i]}
         /\ \A i, k \in 1 .. Len(order) :
              i < k /\ order[k] # changed =>
                Newer(order, changed, k) \cup {order[k]} \subseteq Newer(order, changed, i)
<1>1. Len(order) \in Nat /\ DOMAIN order = 1 .. Len(order) /\ \A i \in 1 .. Len(order) : order[i] \in Chains
  OBVIOUS
<1>2. Newer(order, changed, Len(order)) = {}
  <2>1. Len(order) + 1 .. Len(order) = {}
    BY <1>1
  <2> QED BY <2>1 DEF Newer
<1>3. Newer(order, changed, 0) = ChainsIn(order) \ {changed}
  <2>1. 0 + 1 .. Len(order) = DOMAIN order
    BY <1>1
  <2> QED BY <2>1 DEF Newer, ChainsIn
<1>4. \A i \in 0 .. Len(order) : Newer(order, changed, i) \in SUBSET Chains
  <2>1. \A i \in 0 .. Len(order) : \A k \in i + 1 .. Len(order) : order[k] \in Chains
    BY <1>1
  <2> QED BY <2>1 DEF Newer
<1>5. ASSUME NEW i \in 1 .. Len(order)
      PROVE  /\ order[i] \in Chains \ Newer(order, changed, i)
             /\ Newer(order, changed, i - 1) =
                  IF order[i] = changed THEN Newer(order, changed, i)
                                        ELSE Newer(order, changed, i) \cup {order[i]}
  <2>1. \A k \in i + 1 .. Len(order) : k \in DOMAIN order /\ i \in DOMAIN order /\ k # i
    BY <1>1
  <2>2. \A k \in i + 1 .. Len(order) : order[k] # order[i]
    BY <2>1 DEF Distinct
  <2>3. order[i] \in Chains \ Newer(order, changed, i)
    BY <1>1, <2>2 DEF Newer
  <2>4. i - 1 + 1 .. Len(order) = (i + 1 .. Len(order)) \cup {i}
    BY <1>1
  <2>5. {order[k] : k \in i - 1 + 1 .. Len(order)} = {order[k] : k \in i + 1 .. Len(order)} \cup {order[i]}
    BY <2>4
  <2> QED BY <2>2, <2>3, <2>5 DEF Newer
<1>6. ASSUME NEW i \in 1 .. Len(order), NEW k \in 1 .. Len(order), i < k, order[k] # changed
      PROVE  Newer(order, changed, k) \cup {order[k]} \subseteq Newer(order, changed, i)
  <2>1. k \in i + 1 .. Len(order) /\ \A n \in k + 1 .. Len(order) : n \in i + 1 .. Len(order)
    BY <1>1, <1>6
  <2> QED BY <1>6, <2>1 DEF Newer
<1> QED BY <1>2, <1>3, <1>4, <1>5, <1>6

\* Between them the chains after a place give way by the overflow, as far as they can.
LEMMA CutsAddUp ==
  ASSUME MixAssumption, NEW values \in [Chains -> 0 .. Total],
         NEW order \in Seq(Chains), Distinct(order), NEW changed,
         NEW lost, \A i \in 1 .. Len(order) :
                     order[i] # changed => lost[order[i]] = Cut(values, order, changed, i)
  PROVE  \A i \in 0 .. Len(order) :
           SumOn(lost, Newer(order, changed, i)) =
             MinOf(Overflow(values, order), SumOn(values, Newer(order, changed, i)))
<1> DEFINE N(i) == Newer(order, changed, i)
           over == Overflow(values, order)
           P(i) == SumOn(lost, N(i)) = MinOf(over, SumOn(values, N(i)))
           T    == {k \in Nat : k <= Len(order) => P(Len(order) - k)}
<1>1. Len(order) \in Nat /\ DOMAIN order = 1 .. Len(order)
  OBVIOUS
<1>2. over \in Nat
  <2>1. ChainsIn(order) \in SUBSET Chains
    BY <1>1 DEF ChainsIn
  <2>2. SumOn(values, ChainsIn(order)) \in Nat
    BY <2>1, SumsOfPins
  <2> QED BY <2>2, MixConstants DEF Overflow, Positive
<1>3. 0 \in T
  <2>1. N(Len(order)) = {}
    BY NewerGrows
  <2>2. SumOn(lost, {}) = 0 /\ SumOn(values, {}) = 0
    BY SumOfNone
  <2>3. MinOf(over, 0) = 0
    BY <1>2 DEF MinOf
  <2>4. Len(order) - 0 = Len(order)
    BY <1>1
  <2> HIDE DEF N, over
  <2> QED BY <2>1, <2>2, <2>3, <2>4
<1>4. ASSUME NEW k \in Nat, k \in T PROVE k + 1 \in T
  <2> SUFFICES ASSUME k + 1 <= Len(order) PROVE P(Len(order) - (k + 1))
    OBVIOUS
  <2> DEFINE i == Len(order) - k
             c == order[i]
  <2>1. i \in 1 .. Len(order) /\ i \in 0 .. Len(order) /\ Len(order) - (k + 1) = i - 1
    BY <1>1
  <2>2. P(i)
    BY <1>1, <1>4
  <2> HIDE DEF i
  <2>3. /\ c \in Chains \ N(i) /\ N(i) \in SUBSET Chains
        /\ N(i - 1) = IF c = changed THEN N(i) ELSE N(i) \cup {c}
    BY <2>1, NewerGrows
  <2>4. SumOn(values, N(i)) \in Nat /\ values[c] \in Nat
    <3>1. values[c] \in Nat
      BY <2>3, MixConstants
    <3> HIDE DEF N
    <3>2. SumOn(values, N(i)) \in Nat
      BY <2>3, SumsOfPins
    <3> QED BY <3>1, <3>2
  <2>5. CASE c = changed
    BY <2>1, <2>2, <2>3, <2>5
  <2>6. CASE c # changed
    <3>1. SumOn(values, N(i - 1)) = SumOn(values, N(i)) + values[c]
      BY <2>3, <2>6, SumsOfPins
    <3>2. lost[c] = MinOf(values[c], Positive(over - SumOn(values, N(i))))
      BY <2>1, <2>6 DEF Cut
    <3>3. lost[c] \in Int
      <4> HIDE DEF over, N
      <4> QED BY <1>2, <2>4, <3>2 DEF MinOf, Positive
    <3>4. SumOn(lost, N(i - 1)) = SumOn(lost, N(i)) + lost[c]
      <4>1. \A n \in N(i) : lost[n] \in Int
        <5> SUFFICES ASSUME NEW j \in i + 1 .. Len(order), order[j] # changed
                     PROVE  lost[order[j]] \in Int
          BY DEF Newer
        <5>1. j \in 1 .. Len(order) /\ j \in 0 .. Len(order)
          BY <1>1, <2>1
        <5>2. lost[order[j]] = MinOf(values[order[j]], Positive(over - SumOn(values, N(j))))
          BY <5>1 DEF Cut
        <5>3. values[order[j]] \in Nat /\ SumOn(values, N(j)) \in Nat
          <6>1. order[j] \in Chains /\ N(j) \in SUBSET Chains
            BY <1>1, <5>1, NewerGrows
          <6> HIDE DEF N
          <6> QED BY <6>1, SumsOfPins, MixConstants
        <5> HIDE DEF over, N
        <5> QED BY <1>2, <5>2, <5>3 DEF MinOf, Positive
      <4> HIDE DEF N
      <4>2. N(i - 1) = N(i) \cup {c} /\ N(i) \cap {c} = {} /\ \A n \in N(i - 1) : lost[n] \in Int
        BY <2>3, <2>6, <3>3, <4>1
      <4>3. SumOn(lost, N(i - 1)) = SumOn(lost, N(i)) + SumOn(lost, {c})
        BY <4>2, SumOfParts
      <4>4. SumOn(lost, {c}) = lost[c]
        BY <2>3, <3>3, SumOfOne
      <4> QED BY <4>3, <4>4
    <3> HIDE DEF over, N
    <3>5. P(i - 1)
      <4>2. MinOf(over, SumOn(values, N(i))) + MinOf(values[c], Positive(over - SumOn(values, N(i))))
              = MinOf(over, SumOn(values, N(i)) + values[c])
        BY <1>2, <2>4, CutsMeet
      <4> QED BY <2>2, <3>1, <3>2, <3>4, <4>2, Zenon
    <3> QED BY <2>1, <3>5
  <2> QED BY <2>5, <2>6
<1> HIDE DEF T
<1>5. Nat \subseteq T
  BY <1>3, <1>4, Induction
<1>6. ASSUME NEW i \in 0 .. Len(order) PROVE P(i)
  <2>1. Len(order) - i \in T /\ Len(order) - (Len(order) - i) = i /\ Len(order) - i <= Len(order)
    BY <1>1, <1>5
  <2> QED BY <2>1 DEF T
<1> QED BY <1>6

\* What the pinned chains keep when they claim too much: the edited chain all of it,
\* the others no less than nothing, together no more than the whole, and an older
\* one loses nothing while a newer one has something left.
LEMMA CutBackKeeps ==
  ASSUME MixAssumption, NEW values \in [Chains -> 0 .. Total],
         NEW order \in Seq(Chains), Distinct(order), NEW changed
  PROVE  LET kept == CutBack(values, order, changed)
         IN  /\ kept \in [ChainsIn(order) -> 0 .. Total]
             /\ \A c \in ChainsIn(order) : kept[c] <= values[c]
             /\ changed \in ChainsIn(order) => kept[changed] = values[changed]
             /\ SumOn(kept, ChainsIn(order)) = MinOf(SumOn(values, ChainsIn(order)), Total)
             /\ SumOn(values, ChainsIn(order)) <= Total =>
                  \A c \in ChainsIn(order) : kept[c] = values[c]
             /\ \A i, k \in DOMAIN order :
                  i < k /\ changed \notin {order[i], order[k]} /\ kept[order[k]] > 0 =>
                    kept[order[i]] = values[order[i]]
<1> DEFINE S    == ChainsIn(order)
           kept == CutBack(values, order, changed)
           over == Overflow(values, order)
           N(i) == Newer(order, changed, i)
           lost == [c \in S |-> IF c = changed THEN 0 ELSE values[c] - kept[c]]
<1>1. /\ Len(order) \in Nat /\ DOMAIN order = 1 .. Len(order) /\ S \in SUBSET Chains
      /\ \A i \in 1 .. Len(order) : order[i] \in S
      /\ \A c \in S : \E i \in 1 .. Len(order) : order[i] = c
  BY DEF ChainsIn
<1>2. SumOn(values, S) \in Nat /\ over \in Nat /\ over = Positive(SumOn(values, S) - Total)
  <2>1. SumOn(values, S) \in Nat
    BY <1>1, SumsOfPins
  <2> HIDE DEF S
  <2>2. over = Positive(SumOn(values, S) - Total)
    BY DEF Overflow, S
  <2> HIDE DEF over
  <2> QED BY <2>1, <2>2, MixConstants DEF Positive
<1>3. DOMAIN kept = S /\ (changed \in S => kept[changed] = values[changed])
  BY DEF CutBack
<1>4. ASSUME NEW i \in 1 .. Len(order), order[i] # changed
      PROVE  kept[order[i]] = values[order[i]] - Cut(values, order, changed, i)
  <2> DEFINE j == CHOOSE j \in DOMAIN order : order[j] = order[i]
  <2>1. j = i
    <3>1. j \in DOMAIN order /\ order[j] = order[i]
      BY <1>1
    <3> HIDE DEF j
    <3> QED BY <1>1, <3>1 DEF Distinct
  <2>2. kept[order[i]] = values[order[i]] - Cut(values, order, changed, j)
    BY <1>1, <1>4 DEF CutBack, Cut, Overflow, Newer
  <2> QED BY <2>1, <2>2
<1> HIDE DEF kept
<1>5. \A c \in S : values[c] \in 0 .. Total /\ values[c] \in Nat /\ values[c] <= Total
  BY <1>1, MixConstants
<1>6. ASSUME NEW i \in 1 .. Len(order)
      PROVE  /\ N(i) \in SUBSET Chains /\ SumOn(values, N(i)) \in Nat
             /\ Cut(values, order, changed, i) \in Nat
             /\ Cut(values, order, changed, i) = MinOf(values[order[i]], Positive(over - SumOn(values, N(i))))
             /\ Cut(values, order, changed, i) <= values[order[i]]
  <2>1. i \in 0 .. Len(order)
    BY <1>1
  <2>2. N(i) \in SUBSET Chains
    BY <2>1, NewerGrows
  <2>3. SumOn(values, N(i)) \in Nat
    BY <2>2, SumsOfPins
  <2>4. Cut(values, order, changed, i) = MinOf(values[order[i]], Positive(over - SumOn(values, N(i))))
    BY DEF Cut
  <2>5. values[order[i]] \in Nat
    BY <1>1, <1>5
  <2> HIDE DEF over, N
  <2> DEFINE cut == MinOf(values[order[i]], Positive(over - SumOn(values, N(i))))
  <2>6. cut \in Nat /\ cut <= values[order[i]]
    BY <1>2, <2>3, <2>5, CutsMeet
  <2> QED BY <2>2, <2>3, <2>4, <2>6, Zenon
<1>7. \A c \in S : kept[c] \in 0 .. Total /\ kept[c] <= values[c]
  <2> TAKE c \in S
  <2>1. CASE c = changed
    BY <1>3, <1>5, <2>1
  <2>2. CASE c # changed
    <3>1. PICK i \in 1 .. Len(order) : order[i] = c
      BY <1>1
    <3>2. kept[c] = values[c] - Cut(values, order, changed, i)
      BY <1>4, <2>2, <3>1
    <3> QED BY <1>5, <1>6, <3>1, <3>2, MixConstants
  <2> QED BY <2>1, <2>2
<1>8. \A i \in 1 .. Len(order) : order[i] # changed => lost[order[i]] = Cut(values, order, changed, i)
  <2> SUFFICES ASSUME NEW i \in 1 .. Len(order), order[i] # changed
               PROVE  lost[order[i]] = Cut(values, order, changed, i)
    OBVIOUS
  <2>1. lost[order[i]] = values[order[i]] - kept[order[i]]
    BY <1>1
  <2> HIDE DEF lost
  <2> QED BY <1>1, <1>4, <1>5, <1>6, <2>1
<1>9. \A c \in S : lost[c] \in Int /\ kept[c] \in Int /\ values[c] = kept[c] + lost[c]
  <2> TAKE c \in S
  <2>1. lost[c] = IF c = changed THEN 0 ELSE values[c] - kept[c]
    OBVIOUS
  <2> HIDE DEF lost
  <2> QED BY <1>3, <1>5, <1>7, <2>1
<1>10. (changed \in S => lost[changed] = 0) /\ DOMAIN lost = S
  OBVIOUS
<1> HIDE DEF lost
<1>11. SumOn(values, S) = SumOn(kept, S) + SumOn(lost, S) /\ SumOn(kept, S) \in Int /\ SumOn(lost, S) \in Int
  <2> HIDE DEF S
  <2>1. \A n \in Chains : /\ Term(kept, S, n) \in Int /\ Term(lost, S, n) \in Int
                          /\ Term(values, S, n) = Term(kept, S, n) + Term(lost, S, n)
    BY <1>9 DEF Term
  <2>2. SumOn(values, S) = SumOn(kept, S) + SumOn(lost, S)
    BY ONLY <2>1, SumsAdd, MixAssumption
  <2>3. \A n \in Chains : Term(kept, S, n) \in Int /\ Term(kept, S, n) = Term(kept, S, n)
    BY <2>1
  <2>4. SumOn(kept, S) \in Int
    BY ONLY <2>3, SumsAgree, MixAssumption
  <2>5. \A n \in Chains : Term(lost, S, n) \in Int /\ Term(lost, S, n) = Term(lost, S, n)
    BY <2>1
  <2>6. SumOn(lost, S) \in Int
    BY ONLY <2>5, SumsAgree, MixAssumption
  <2> QED BY <2>2, <2>4, <2>6
<1>12. SumOn(lost, S) = over
  <2>1. SumOn(lost, N(0)) = MinOf(over, SumOn(values, N(0))) /\ N(0) = S \ {changed}
    <3>1. 0 \in 0 .. Len(order)
      BY <1>1
    <3> QED BY <1>8, <3>1, CutsAddUp, NewerGrows
  <2> HIDE DEF S, N, over
  <2>2. N(0) \in SUBSET Chains
    BY <1>1, <2>1
  <2>3. SumOn(values, N(0)) \in Nat
    BY <2>2, SumsOfPins
  <2>4. CASE changed \in S
    <3>1. S = N(0) \cup {changed} /\ N(0) \cap {changed} = {} /\ changed \in Chains
      BY <1>1, <2>1, <2>4
    <3>2. SumOn(lost, S) = SumOn(lost, N(0)) + SumOn(lost, {changed})
      BY <1>9, <3>1, SumOfParts
    <3>3. SumOn(lost, {changed}) = 0
      BY <1>10, <2>4, <3>1, SumOfOne
    <3>4. changed \in Chains \ N(0)
      BY <3>1
    <3>5. SumOn(values, S) = SumOn(values, N(0)) + values[changed]
      BY <2>2, <3>1, <3>4, SumsOfPins
    <3>6. over <= SumOn(values, N(0))
      <4>1. values[changed] \in Nat /\ values[changed] <= Total
        BY <1>5, <2>4
      <4> QED BY <1>2, <2>3, <3>5, <4>1, MixConstants DEF Positive
    <3>7. SumOn(lost, N(0)) = over
      BY <1>2, <2>1, <2>3, <3>6 DEF MinOf
    <3> QED BY <1>2, <3>2, <3>3, <3>7
  <2>5. CASE changed \notin S
    <3>1. N(0) = S
      BY <2>1, <2>5
    <3> QED BY <1>2, <2>1, <3>1, MixConstants DEF MinOf, Positive
  <2> QED BY <2>4, <2>5
<1>13. SumOn(kept, S) = MinOf(SumOn(values, S), Total)
  <2> HIDE DEF S, over
  <2>1. CASE SumOn(values, S) <= Total
    <3>1. over = 0
      BY <1>2, <2>1, MixConstants DEF Positive
    <3>2. SumOn(kept, S) = SumOn(values, S)
      BY <1>2, <1>11, <1>12, <3>1
    <3> QED BY <1>2, <2>1, <3>2, MixConstants DEF MinOf
  <2>2. CASE ~(SumOn(values, S) <= Total)
    <3>1. SumOn(values, S) - Total > 0
      BY <1>2, <2>2, MixConstants
    <3>2. over = SumOn(values, S) - Total
      BY <1>2, <3>1 DEF Positive
    <3>3. SumOn(kept, S) = Total
      BY <1>2, <1>11, <1>12, <3>2, MixConstants
    <3> QED BY <1>2, <2>2, <3>3, MixConstants DEF MinOf
  <2> QED BY <2>1, <2>2
<1>14. ASSUME NEW i \in DOMAIN order, NEW k \in DOMAIN order, i < k,
              changed \notin {order[i], order[k]}, kept[order[k]] > 0
       PROVE  kept[order[i]] = values[order[i]]
  <2>1. i \in 1 .. Len(order) /\ k \in 1 .. Len(order) /\ order[i] # changed /\ order[k] # changed
    BY <1>1, <1>14
  <2>2. N(k) \cup {order[k]} \subseteq N(i) /\ order[k] \in Chains \ N(k)
    BY <1>14, <2>1, NewerGrows
  <2>3. kept[order[i]] = values[order[i]] - Cut(values, order, changed, i)
    BY <1>4, <2>1
  <2>4. kept[order[k]] = values[order[k]] - Cut(values, order, changed, k)
    BY <1>4, <2>1
  <2>5. values[order[i]] \in Nat /\ values[order[k]] \in Nat
    BY <1>1, <1>5, <2>1
  <2>6. /\ SumOn(values, N(i)) \in Nat /\ SumOn(values, N(k)) \in Nat
        /\ N(i) \in SUBSET Chains /\ N(k) \in SUBSET Chains
    BY <1>6, <2>1
  <2>7. SumOn(values, N(k)) + values[order[k]] <= SumOn(values, N(i))
    <3> HIDE DEF N
    <3>1. SumOn(values, N(k) \cup {order[k]}) = SumOn(values, N(k)) + values[order[k]]
      BY <2>2, <2>6, SumsOfPins
    <3>2. N(k) \cup {order[k]} \in SUBSET Chains
      BY <2>2, <2>6
    <3>3. SumOn(values, N(k) \cup {order[k]}) <= SumOn(values, N(i))
      BY <2>2, <2>6, <3>2, SumsOfPins
    <3> QED BY <3>1, <3>3
  <2>8. /\ Cut(values, order, changed, i) = MinOf(values[order[i]], Positive(over - SumOn(values, N(i))))
        /\ Cut(values, order, changed, k) = MinOf(values[order[k]], Positive(over - SumOn(values, N(k))))
        /\ Cut(values, order, changed, k) \in Nat
    BY <1>6, <2>1
  <2> HIDE DEF N, over
  <2>9. over < SumOn(values, N(k)) + values[order[k]]
    <3>1. Cut(values, order, changed, k) < values[order[k]]
      BY <1>14, <2>4, <2>5, <2>8
    <3> QED BY <1>2, <2>5, <2>6, <2>8, <3>1, CutsMeet
  <2>10. Cut(values, order, changed, i) = 0
    <3>1. over <= SumOn(values, N(i))
      BY <1>2, <2>5, <2>6, <2>7, <2>9
    <3>2. Positive(over - SumOn(values, N(i))) = 0
      BY <1>2, <2>6, <3>1 DEF Positive
    <3>3. MinOf(values[order[i]], 0) = 0
      BY <2>5 DEF MinOf
    <3> QED BY <2>8, <3>2, <3>3
  <2> QED BY <2>3, <2>5, <2>10
<1>15. kept \in [S -> 0 .. Total]
  <2>1. kept = [c \in S |-> kept[c]]
    BY <1>3 DEF kept, CutBack
  <2> QED BY <1>7, <2>1
<1>16. ASSUME SumOn(values, S) <= Total, NEW c \in S
       PROVE  kept[c] = values[c]
  <2>1. CASE c = changed
    BY <1>3, <2>1
  <2>2. CASE c # changed
    <3>1. PICK i \in 1 .. Len(order) : order[i] = c
      BY <1>1
    <3>2. kept[c] = values[c] - Cut(values, order, changed, i)
      BY <1>4, <2>2, <3>1
    <3>3. over = 0
      <4> HIDE DEF over, S
      <4> QED BY <1>2, <1>16, MixConstants DEF Positive
    <3>4. /\ Cut(values, order, changed, i) = MinOf(values[c], Positive(over - SumOn(values, N(i))))
          /\ SumOn(values, N(i)) \in Nat
      BY <1>6, <3>1
    <3> HIDE DEF over, N
    <3>5. over <= SumOn(values, N(i)) /\ over \in Nat /\ values[c] \in Nat
      BY <1>2, <1>5, <3>3, <3>4
    <3>6. Cut(values, order, changed, i) = 0
      BY <3>4, <3>5, CutsMeet
    <3> QED BY <3>2, <3>5, <3>6
  <2> QED BY <2>1, <2>2
<1> QED BY <1>3, <1>7, <1>13, <1>14, <1>15, <1>16 DEF kept

----------------------------------------------------------------------------
(* The rest is filled in.                                                  *)

LEMMA LastChain ==
  ASSUME MixAssumption, NEW S \in SUBSET Chains, S # {}
  PROVE  Max(S) \in S
<1> DEFINE T == {NumChains - c : c \in S}
<1>1. \A c \in S : c \in Nat /\ NumChains - c \in Nat /\ NumChains - c \in Int
  BY MixConstants DEF Chains
<1>2. T \subseteq Nat /\ T # {}
  BY <1>1
<1>3. PICK m \in T : \A k \in T : m <= k
  BY <1>2, LeastNat
<1>4. PICK x \in S : m = NumChains - x
  BY <1>3
<1>5. \A y \in S : x >= y
  <2> TAKE y \in S
  <2>1. NumChains - y \in T
    OBVIOUS
  <2> HIDE DEF T
  <2> QED BY <1>1, <1>3, <1>4, <2>1, MixConstants
<1> HIDE DEF T
<1> QED BY <1>4, <1>5 DEF Max

\* The sum over equal values is the same.
LEMMA SameSum ==
  ASSUME MixAssumption, NEW f, NEW g, NEW S, \A n \in S : f[n] \in Int /\ g[n] = f[n]
  PROVE  SumOn(g, S) = SumOn(f, S) /\ SumOn(f, S) \in Int
<1>1. \A n \in Chains : Term(f, S, n) \in Int /\ Term(g, S, n) = Term(f, S, n)
  BY DEF Term
<1> QED BY ONLY <1>1, SumsAgree, MixAssumption

\* A mix that sums to the whole asks no chain for more than the whole.
LEMMA WholeBounds ==
  ASSUME MixAssumption, NEW S \in SUBSET Chains, NEW mix, DOMAIN mix = S, mix = [c \in S |-> mix[c]],
         \A c \in S : mix[c] \in Nat, SumOn(mix, S) = Total
  PROVE  mix \in [S -> 0 .. Total]
<1>1. \A c \in S : mix[c] <= Total
  BY SumOfShares
<1>2. \A c \in S : mix[c] \in 0 .. Total
  BY <1>1, MixConstants
<1> QED BY <1>2

\* Shares of some chains.
Shares(P) == [P -> 0 .. Total]

\* Filling up what some pinned chains keep makes the mix whole.
LEMMA FilledIsWhole ==
  ASSUME MixAssumption, selected' \in SUBSET Chains,
         NEW P \in SUBSET selected', P # {},
         NEW kept, kept \in Shares(P), SumOn(kept, P) <= Total, NEW changed
  PROVE  LET mix == Filled(kept, changed)
         IN  mix \in [selected' -> 0 .. Total] /\ SumOn(mix, selected') = Total
<1> DEFINE mix  == Filled(kept, changed)
           open == selected' \ P
           rest == Total - SumOn(kept, P)
           side == IF selected' = {changed} THEN selected' ELSE selected' \ {changed}
           sink == Max(side)
<1>1. DOMAIN kept = P /\ P \in SUBSET Chains /\ \A c \in P : kept[c] \in Nat /\ kept[c] \in Int
  BY MixConstants DEF Shares
<1>2. SumOn(kept, P) \in Nat /\ rest \in Nat /\ SumOn(kept, P) + rest = Total
  <2>1. SumOn(kept, P) \in Nat
    BY <1>1, SumOfShares
  <2> QED BY <2>1, MixConstants
<1>3. mix = IF open # {}
              THEN [c \in selected' |-> IF c \in open THEN EqualSplit(open, rest)[c] ELSE kept[c]]
              ELSE [kept EXCEPT ![sink] = @ + rest]
  BY <1>1 DEF Filled
<1> HIDE DEF mix
<1>4. CASE open # {}
  <2> DEFINE share == EqualSplit(open, rest)
  <2>1. open \in SUBSET Chains
    OBVIOUS
  <2> HIDE DEF rest
  <2>2. SumOn(share, open) = rest /\ \A c \in open : share[c] \in Nat
    BY <1>2, <1>4, <2>1, SharesAddUp
  <2> HIDE DEF share
  <2>3. mix = [c \in selected' |-> IF c \in open THEN share[c] ELSE kept[c]]
    BY <1>3, <1>4 DEF share
  <2>4. /\ \A c \in open : mix[c] = share[c] /\ share[c] \in Int
        /\ \A c \in P : mix[c] = kept[c] /\ kept[c] \in Int
    BY <1>1, <2>2, <2>3
  <2>5. SumOn(mix, open) = SumOn(share, open)
    BY <2>4, SameSum
  <2>6. SumOn(mix, P) = SumOn(kept, P)
    BY <2>4, SameSum
  <2>7. SumOn(mix, selected') = SumOn(mix, P) + SumOn(mix, open)
    <3>1. selected' = P \cup open /\ P \cap open = {} /\ \A n \in selected' : mix[n] \in Int
      BY <2>4
    <3> HIDE DEF open
    <3> QED BY <3>1, SumOfParts
  <2>8. SumOn(mix, selected') = Total
    BY <1>2, <2>2, <2>5, <2>6, <2>7
  <2>9. mix \in [selected' -> 0 .. Total]
    <3>1. \A c \in selected' : mix[c] \in Nat
      BY <1>1, <2>2, <2>4
    <3>2. DOMAIN mix = selected' /\ mix = [c \in selected' |-> mix[c]]
      BY <2>3
    <3> QED BY <2>8, <3>1, <3>2, WholeBounds
  <2> QED BY <2>8, <2>9 DEF mix
<1>5. CASE open = {}
  <2>1. P = selected'
    BY <1>5
  <2>2. side # {} /\ side \in SUBSET P /\ side \in SUBSET Chains
    BY <1>1, <2>1
  <2> HIDE DEF side
  <2>3. sink \in P /\ sink \in side
    BY <2>2, LastChain
  <2> HIDE DEF sink, rest
  <2>4. mix = [kept EXCEPT ![sink] = @ + rest]
    BY <1>3, <1>5
  <2>5. DOMAIN mix = P /\ mix[sink] = kept[sink] + rest /\ \A c \in P \ {sink} : mix[c] = kept[c]
    BY <1>1, <2>3, <2>4
  <2>6. \A c \in P : mix[c] \in Nat /\ mix[c] \in Int
    BY <1>1, <1>2, <2>3, <2>5
  <2>7. SumOn(mix, P \ {sink}) = SumOn(kept, P \ {sink})
    BY <1>1, <2>5, SameSum
  <2>8. P = (P \ {sink}) \cup {sink} /\ (P \ {sink}) \cap {sink} = {} /\ sink \in Chains
    BY <1>1, <2>3
  <2>9. SumOn(mix, P) = SumOn(mix, P \ {sink}) + SumOn(mix, {sink})
    BY <2>6, <2>8, SumOfParts
  <2>10. SumOn(kept, P) = SumOn(kept, P \ {sink}) + SumOn(kept, {sink}) /\ SumOn(kept, P \ {sink}) \in Int
    <3>1. \A n \in P : kept[n] \in Int
      BY <1>1
    <3>2. SumOn(kept, P) = SumOn(kept, P \ {sink}) + SumOn(kept, {sink})
      BY <2>8, <3>1, SumOfParts
    <3>3. SumOn(kept, P \ {sink}) \in Int
      BY <3>1, SameSum
    <3> QED BY <3>2, <3>3
  <2>11. SumOn(mix, {sink}) = kept[sink] + rest /\ SumOn(kept, {sink}) = kept[sink] /\ kept[sink] \in Int
    <3>1. kept[sink] \in Int /\ mix[sink] \in Int
      BY <1>1, <2>3, <2>6
    <3>2. SumOn(mix, {sink}) = mix[sink]
      BY <2>8, <3>1, SumOfOne
    <3>3. SumOn(kept, {sink}) = kept[sink]
      BY <2>8, <3>1, SumOfOne
    <3> QED BY <2>5, <3>1, <3>2, <3>3
  <2>12. SumOn(mix, P) = Total
    BY <1>2, <2>7, <2>9, <2>10, <2>11
  <2>13. mix \in [P -> 0 .. Total]
    <3>1. mix = [c \in P |-> mix[c]]
      BY <2>4, <2>5
    <3> QED BY <1>1, <2>5, <2>6, <2>12, <3>1, WholeBounds
  <2> QED BY <2>1, <2>12, <2>13 DEF mix
<1> QED BY <1>4, <1>5 DEF mix

\* Filling up takes nothing from a pinned chain, and gives it something only when all
\* are pinned and there is no other or it is not the one being edited.
LEMMA FilledAt ==
  ASSUME MixAssumption, selected' \in SUBSET Chains,
         NEW P \in SUBSET selected', P # {},
         NEW kept, kept \in Shares(P), SumOn(kept, P) <= Total, NEW changed, NEW c \in P
  PROVE  \/ Filled(kept, changed)[c] = kept[c]
         \/ /\ P = selected' /\ (selected' = {changed} \/ c # changed)
            /\ Filled(kept, changed)[c] = kept[c] + (Total - SumOn(kept, P))
<1> DEFINE mix  == Filled(kept, changed)
           open == selected' \ P
           rest == Total - SumOn(kept, P)
           side == IF selected' = {changed} THEN selected' ELSE selected' \ {changed}
           sink == Max(side)
<1>1. DOMAIN kept = P
  BY DEF Shares
<1>2. mix = IF open # {}
              THEN [d \in selected' |-> IF d \in open THEN EqualSplit(open, rest)[d] ELSE kept[d]]
              ELSE [kept EXCEPT ![sink] = @ + rest]
  BY <1>1 DEF Filled
<1> HIDE DEF mix, rest
<1>3. CASE open # {}
  BY <1>2, <1>3 DEF mix
<1>4. CASE open = {}
  <2>1. P = selected'
    BY <1>4
  <2>2. sink \in side
    <3>1. side # {} /\ side \in SUBSET Chains
      BY <2>1
    <3> HIDE DEF side
    <3> QED BY <3>1, LastChain
  <2>3. selected' = {changed} \/ sink # changed
    BY <2>2
  <2> HIDE DEF sink, side
  <2>4. mix = [kept EXCEPT ![sink] = @ + rest]
    BY <1>2, <1>4
  <2>5. CASE c = sink
    <3>1. mix[c] = kept[c] + rest
      BY <1>1, <2>4, <2>5
    <3> QED BY <2>1, <2>3, <2>5, <3>1 DEF mix, rest
  <2>6. CASE c # sink
    <3>1. mix[c] = kept[c]
      BY <1>1, <2>4, <2>6
    <3> QED BY <3>1 DEF mix
  <2> QED BY <2>5, <2>6
<1> QED BY <1>3, <1>4

----------------------------------------------------------------------------
(* The invariant.                                                          *)

\* The new mix is whole, and what it leaves of the values it was made from.
LEMMA RebalancedIsWhole ==
  ASSUME MixAssumption, selected' \in SUBSET Chains, selected' # {},
         NEW values \in [Chains -> 0 .. Total],
         NEW order \in Seq(Chains), Distinct(order), ChainsIn(order) \subseteq selected',
         NEW changed
  PROVE  LET mix == Rebalanced(values, order, changed)
         IN  /\ mix \in [selected' -> 0 .. Total] /\ SumOn(mix, selected') = Total
             /\ SumOn(values, ChainsIn(order)) <= Total =>
                  \A c \in ChainsIn(order) :
                    mix[c] = values[c] \/ (mix[c] > values[c] /\ ChainsIn(order) = selected')
             /\ \A i, k \in DOMAIN order :
                  i < k /\ changed \notin {order[i], order[k]} /\ mix[order[k]] > 0 =>
                    mix[order[i]] >= values[order[i]]
<1> DEFINE mix == Rebalanced(values, order, changed)
           P   == ChainsIn(order)
<1>1. CASE order = <<>>
  <2>1. mix = EqualSplit(selected', Total) /\ P = {} /\ DOMAIN order = {}
    BY <1>1 DEF Rebalanced, ChainsIn
  <2>2. SumOn(mix, selected') = Total /\ DOMAIN mix = selected' /\ \A c \in selected' : mix[c] \in Nat
    BY <2>1, SharesAddUp, MixConstants
  <2>3. mix = [c \in selected' |-> mix[c]]
    BY <2>1 DEF EqualSplit
  <2>4. mix \in [selected' -> 0 .. Total]
    <3> HIDE DEF mix
    <3> QED BY <2>2, <2>3, WholeBounds
  <2> HIDE DEF mix, P
  <2>5. QED
    BY <2>1, <2>2, <2>4 DEF mix, P
<1>2. CASE order # <<>>
  <2> DEFINE kept == CutBack(values, order, changed)
  <2>1. mix = Filled(kept, changed)
    BY <1>2 DEF Rebalanced
  <2>2. /\ kept \in [P -> 0 .. Total]
        /\ \A c \in P : kept[c] <= values[c]
        /\ changed \in P => kept[changed] = values[changed]
        /\ SumOn(kept, P) = MinOf(SumOn(values, P), Total)
        /\ SumOn(values, P) <= Total => \A c \in P : kept[c] = values[c]
        /\ \A i, k \in DOMAIN order :
             i < k /\ changed \notin {order[i], order[k]} /\ kept[order[k]] > 0 =>
               kept[order[i]] = values[order[i]]
    BY CutBackKeeps
  <2>3. P # {} /\ P \in SUBSET selected' /\ P \in SUBSET Chains /\ \A i \in DOMAIN order : order[i] \in P
    <3>1. 1 \in DOMAIN order
      BY <1>2
    <3> QED BY <3>1 DEF ChainsIn
  <2> HIDE DEF kept, P
  <2>4. SumOn(values, P) \in Nat /\ SumOn(kept, P) <= Total /\ SumOn(kept, P) \in Nat
    <3>1. SumOn(values, P) \in Nat
      BY <2>3, SumsOfPins
    <3> QED BY <2>2, <3>1, MixConstants DEF MinOf
  <2> HIDE DEF mix
  <2>5. /\ mix \in [selected' -> 0 .. Total] /\ SumOn(mix, selected') = Total
        /\ \A c \in P : mix[c] >= kept[c]
        /\ SumOn(kept, P) >= Total => \A c \in P : mix[c] = kept[c]
        /\ P # selected' => \A c \in P : mix[c] = kept[c]
    <3>1. kept \in Shares(P)
      BY <2>2 DEF Shares
    <3>2. SumOn(kept, P) <= Total
      BY <2>4
    <3>3. mix \in [selected' -> 0 .. Total] /\ SumOn(mix, selected') = Total
      BY <2>1, <2>3, <3>1, <3>2, FilledIsWhole
    <3>4. ASSUME NEW c \in P
          PROVE  \/ mix[c] = kept[c]
                 \/ P = selected' /\ mix[c] = kept[c] + (Total - SumOn(kept, P))
      BY <2>1, <2>3, <3>1, <3>2, FilledAt
    <3>5. \A c \in P : kept[c] \in Int /\ SumOn(kept, P) \in Int
      BY <2>2, <2>4, MixConstants
    <3>6. \A c \in P : mix[c] >= kept[c]
      BY <3>2, <3>4, <3>5, MixConstants
    <3>7. ASSUME SumOn(kept, P) >= Total PROVE \A c \in P : mix[c] = kept[c]
      BY <3>2, <3>4, <3>5, <3>7, MixConstants
    <3>8. ASSUME P # selected' PROVE \A c \in P : mix[c] = kept[c]
      BY <3>4, <3>8
    <3> QED BY <3>3, <3>6, <3>7, <3>8
  <2>6. \A c \in P : kept[c] \in Nat /\ mix[c] \in Nat /\ values[c] \in Nat
    BY <2>2, <2>3, <2>5, MixConstants
  <2>7. ASSUME SumOn(values, P) <= Total, NEW c \in P
        PROVE  mix[c] = values[c] \/ (mix[c] > values[c] /\ P = selected')
    <3>1. kept[c] = values[c]
      BY <2>2, <2>7
    <3>2. mix[c] >= kept[c] /\ (P # selected' => mix[c] = kept[c])
      BY <2>5
    <3> QED BY <2>6, <3>1, <3>2
  <2>8. ASSUME NEW i \in DOMAIN order, NEW k \in DOMAIN order,
               i < k, changed \notin {order[i], order[k]}, mix[order[k]] > 0
        PROVE  mix[order[i]] >= values[order[i]]
    <3>1. order[i] \in P /\ order[k] \in P
      BY <2>3
    <3>2. kept[order[i]] = values[order[i]]
      <4>1. CASE kept[order[k]] > 0
        BY <2>2, <2>8, <4>1
      <4>2. CASE ~(kept[order[k]] > 0)
        <5>1. SumOn(kept, P) < Total
          BY <2>4, <2>5, <2>6, <2>8, <3>1, <4>2, MixConstants
        <5>2. SumOn(values, P) <= Total
          BY <2>2, <2>4, <5>1, MixConstants DEF MinOf
        <5> QED BY <2>2, <3>1, <5>2
      <4> QED BY <4>1, <4>2
    <3> QED BY <2>5, <3>1, <3>2
  <2> QED BY <2>5, <2>7, <2>8 DEF mix, P
<1> QED BY <1>1, <1>2

\* The value of the edited chain goes into the mix as it is, when there are others.
LEMMA RebalancedSticks ==
  ASSUME MixAssumption, selected' \in SUBSET Chains, selected' # {},
         NEW values \in [Chains -> 0 .. Total],
         NEW order \in Seq(Chains), Distinct(order), ChainsIn(order) \subseteq selected',
         NEW changed, changed \in ChainsIn(order), selected' # {changed}
  PROVE  Rebalanced(values, order, changed)[changed] = values[changed]
<1> DEFINE P    == ChainsIn(order)
           kept == CutBack(values, order, changed)
<1>1. Rebalanced(values, order, changed) = Filled(kept, changed)
  <2>1. order # <<>>
    BY DEF ChainsIn
  <2> QED BY <2>1 DEF Rebalanced
<1>2. P \in SUBSET selected' /\ P \in SUBSET Chains /\ P # {} /\ changed \in P
  OBVIOUS
<1>3. /\ kept \in [P -> 0 .. Total] /\ kept[changed] = values[changed]
      /\ SumOn(kept, P) = MinOf(SumOn(values, P), Total)
  BY CutBackKeeps
<1> HIDE DEF P, kept
<1>4. SumOn(kept, P) <= Total
  <2>1. SumOn(values, P) \in Nat
    BY <1>2, SumsOfPins
  <2> QED BY <1>3, <2>1, MixConstants DEF MinOf
<1>5. kept \in Shares(P)
  BY <1>3 DEF Shares
<1>6. Filled(kept, changed)[changed] = kept[changed]
  BY <1>2, <1>4, <1>5, FilledAt
<1> QED BY <1>1, <1>3, <1>6

\* The order of edits after a step.
LEMMA RepinnedKeeps ==
  ASSUME MixAssumption, selected' \in SUBSET Chains,
         NEW order \in Seq(Chains), Distinct(order), NEW changed
  PROVE  LET pins == Repinned(order, changed)
         IN  /\ pins \in Seq(Chains) /\ Distinct(pins)
             /\ ChainsIn(pins) = (ChainsIn(order) \cup {changed}) \cap selected'
                \/ (changed \notin selected' /\ ChainsIn(pins) = ChainsIn(order) \cap selected')
             /\ changed \in selected' => pins # <<>> /\ pins[Len(pins)] = changed
<1> DEFINE pins   == Repinned(order, changed)
           others == OnlyOf(order, selected' \ {changed})
<1>1. DOMAIN order = 1 .. Len(order) /\ ChainsIn(order) = {order[i] : i \in 1 .. Len(order)}
  BY DEF ChainsIn
<1>2. Thinned(others, order, selected' \ {changed}, Len(order))
  BY OnlyOfThins
<1>3. pins = IF changed \in selected' THEN Append(others, changed) ELSE others
  BY DEF Repinned
<1> HIDE DEF pins, others
<1>4. /\ others \in Seq(Chains) /\ Distinct(others)
      /\ ChainsIn(others) = ChainsIn(order) \cap (selected' \ {changed})
  BY <1>1, <1>2 DEF Thinned
<1>5. CASE changed \in selected'
  <2>1. pins = Append(others, changed) /\ changed \in Chains /\ changed \notin ChainsIn(others)
    BY <1>3, <1>4, <1>5
  <2>2. /\ pins \in Seq(Chains) /\ Distinct(pins) /\ Len(pins) = Len(others) + 1
        /\ ChainsIn(pins) = ChainsIn(others) \cup {changed}
        /\ pins[Len(others) + 1] = changed /\ \A i \in 1 .. Len(others) : pins[i] = others[i]
    BY <1>4, <2>1, Appended
  <2>3. ChainsIn(pins) = (ChainsIn(order) \cup {changed}) \cap selected'
    BY <1>4, <1>5, <2>2
  <2>4. pins # <<>> /\ pins[Len(pins)] = changed
    <3>1. Len(others) \in Nat /\ Len(<<>>) = 0
      BY <1>4
    <3> QED BY <2>2, <3>1
  <2> QED BY <2>2, <2>3, <2>4 DEF pins
<1>6. CASE changed \notin selected'
  <2>1. pins = others /\ ChainsIn(pins) = ChainsIn(order) \cap selected'
    BY <1>3, <1>4, <1>6
  <2> QED BY <1>4, <1>6, <2>1 DEF pins
<1> QED BY <1>5, <1>6

\* Of two pinned chains that stay pinned, the older edit stays the older.
LEMMA NoneOvertakes ==
  ASSUME MixAssumption, selected' \in SUBSET Chains,
         NEW order, order \in Seq(Chains), Distinct(order), NEW changed,
         NEW i, NEW k, i \in DOMAIN order, k \in DOMAIN order,
         i < k, {order[i], order[k]} \subseteq selected' \ {changed}
  PROVE  \E p, q \in DOMAIN Repinned(order, changed) :
           p < q /\ Repinned(order, changed)[p] = order[i] /\ Repinned(order, changed)[q] = order[k]
<1> DEFINE pins   == Repinned(order, changed)
           others == OnlyOf(order, selected' \ {changed})
<1>1. DOMAIN order = 1 .. Len(order)
  OBVIOUS
<1>2. Thinned(others, order, selected' \ {changed}, Len(order))
  BY OnlyOfThins
<1>3. pins = IF changed \in selected' THEN Append(others, changed) ELSE others
  BY DEF Repinned
<1> HIDE DEF pins, others
<1>4. others \in Seq(Chains)
  BY <1>2 DEF Thinned
<1>5. PICK p \in DOMAIN others, q \in DOMAIN others :
           p < q /\ others[p] = order[i] /\ others[q] = order[k]
  BY <1>1, <1>2 DEF Thinned
<1>6. CASE changed \in selected'
  <2>1. pins = Append(others, changed) /\ changed \in Chains
    BY <1>3, <1>6
  <2>2. \A n \in DOMAIN others : n \in DOMAIN pins /\ pins[n] = others[n]
    BY <1>4, <2>1
  <2> QED BY <1>5, <2>2 DEF pins
<1>7. CASE changed \notin selected'
  BY <1>3, <1>5, <1>7 DEF pins
<1> QED BY <1>6, <1>7

\* The selected chains share the whole, and the pinned ones are among them, each once.
MixInv ==
  /\ selected \in SUBSET Chains
  /\ pinned \in Seq(Chains) /\ Distinct(pinned) /\ ChainsIn(pinned) \subseteq selected
  /\ MixIsWhole

LEMMA MixStarts == MixAssumption /\ Init => MixInv
<1> SUFFICES ASSUME MixAssumption, Init PROVE MixInv
  OBVIOUS
<1>1. 1 \in Chains /\ selected = {1} /\ pinned = <<>>
  BY MixConstants DEF Init, Chains
<1>2. percent \in [Chains -> 0 .. Total] /\ percent[1] = Total /\ \A c \in Chains \ selected : percent[c] = 0
  BY <1>1, MixConstants DEF Init
<1>3. SumOn(percent, selected) = Total
  <2>1. percent[1] \in Int
    BY <1>2, MixConstants
  <2>2. SumOn(percent, {1}) = percent[1]
    BY <1>1, <2>1, SumOfOne
  <2> QED BY <1>1, <1>2, <2>2
<1>4. Distinct(<<>>) /\ ChainsIn(<<>>) = {}
  BY DEF Distinct, ChainsIn
<1> QED BY <1>1, <1>2, <1>3, <1>4 DEF MixInv, MixIsWhole

\* A tick takes a chain in or out and shares the whole among those that are left.
LEMMA ToggleKeeps ==
  ASSUME MixAssumption, MixInv, NEW c \in Chains, Toggle(c)
  PROVE  MixInv'
<1>1. selected' \in SUBSET Chains
  BY DEF MixInv, Toggle
<1>2. pinned \in Seq(Chains) /\ Distinct(pinned) /\ percent \in [Chains -> 0 .. Total]
  BY DEF MixInv, MixIsWhole
<1>3. Nobody \notin selected'
  BY <1>1, MixConstants DEF Nobody, Chains
<1>4. /\ pinned' \in Seq(Chains) /\ Distinct(pinned') /\ ChainsIn(pinned') \subseteq selected'
  <2> DEFINE order == Repinned(pinned, Nobody)
  <2>1. order \in Seq(Chains) /\ Distinct(order) /\ ChainsIn(order) \subseteq selected'
    <3>1. order \in Seq(Chains) /\ Distinct(order)
      BY <1>1, <1>2, RepinnedKeeps
    <3>2. \/ ChainsIn(order) = (ChainsIn(pinned) \cup {Nobody}) \cap selected'
          \/ ChainsIn(order) = ChainsIn(pinned) \cap selected'
      BY <1>1, <1>2, RepinnedKeeps, Zenon
    <3> HIDE DEF order
    <3> QED BY <3>1, <3>2
  <2>2. <<>> \in Seq(Chains) /\ Distinct(<<>>) /\ ChainsIn(<<>>) \subseteq selected'
    BY DEF Distinct, ChainsIn
  <2>3. pinned' = <<>> \/ pinned' = order
    BY DEF Toggle
  <2> HIDE DEF order
  <2> QED BY <2>1, <2>2, <2>3
<1>5. CASE selected' = {}
  <2>1. percent' = [d \in Chains |-> 0]
    BY <1>5 DEF Toggle
  <2>2. percent' \in [Chains -> 0 .. Total] /\ \A d \in Chains : percent'[d] = 0
    BY <2>1, MixConstants
  <2> QED BY <1>1, <1>4, <1>5, <2>2 DEF MixInv, MixIsWhole
<1>6. CASE selected' # {}
  <2> DEFINE mix == Rebalanced(percent, pinned', Nobody)
  <2>1. mix \in [selected' -> 0 .. Total] /\ SumOn(mix, selected') = Total
    BY <1>1, <1>2, <1>4, <1>6, RebalancedIsWhole
  <2>2. percent' = OnEveryChain(mix)
    BY <1>6 DEF Toggle
  <2> HIDE DEF mix
  <2>3. percent' = [d \in Chains |-> IF d \in selected' THEN mix[d] ELSE 0]
    BY <2>1, <2>2 DEF OnEveryChain
  <2>4. /\ \A d \in selected' : percent'[d] = mix[d] /\ mix[d] \in 0 .. Total
        /\ \A d \in Chains \ selected' : percent'[d] = 0
    BY <1>1, <2>1, <2>3
  <2>5. percent' \in [Chains -> 0 .. Total]
    BY <2>1, <2>3, MixConstants
  <2>6. SumOn(percent', selected') = Total
    <3>1. \A d \in selected' : mix[d] \in Int /\ percent'[d] = mix[d]
      BY <2>4, MixConstants
    <3>2. SumOn(percent', selected') = SumOn(mix, selected')
      BY <3>1, SameSum
    <3> QED BY <2>1, <3>2
  <2> QED BY <1>1, <1>4, <2>4, <2>5, <2>6 DEF MixInv, MixIsWhole
<1> QED BY <1>5, <1>6

\* What an edit of a chain among others is: its value is put into the mix and it is
\* pinned last, and the others are rebalanced around it.
LEMMA EditAmongOthers ==
  ASSUME MixAssumption, MixInv, NEW c \in Chains, NEW v \in 0 .. Total, Edit(c, v), selected # {c}
  PROVE  LET values == [percent EXCEPT ![c] = v]
             mix    == Rebalanced(values, pinned', c)
         IN  /\ selected' = selected /\ selected' \in SUBSET Chains /\ c \in selected'
             /\ values \in [Chains -> 0 .. Total] /\ values[c] = v
             /\ \A d \in Chains \ {c} : values[d] = percent[d]
             /\ pinned' = Repinned(pinned, c)
             /\ pinned' \in Seq(Chains) /\ Distinct(pinned')
             /\ ChainsIn(pinned') = ChainsIn(pinned) \cup {c} /\ ChainsIn(pinned') \subseteq selected'
             /\ pinned' # <<>> /\ Edited = c
             /\ percent' = [d \in Chains |-> IF d \in selected' THEN mix[d] ELSE percent[d]]
<1> DEFINE values == [percent EXCEPT ![c] = v]
<1>1. selected' = selected /\ selected' \in SUBSET Chains /\ c \in selected' /\ pinned' = Repinned(pinned, c)
  BY DEF MixInv, Edit
<1>2. /\ values \in [Chains -> 0 .. Total] /\ values[c] = v
      /\ \A d \in Chains \ {c} : values[d] = percent[d]
  BY DEF MixInv, MixIsWhole
<1>3. pinned \in Seq(Chains) /\ Distinct(pinned) /\ ChainsIn(pinned) \subseteq selected'
  BY <1>1 DEF MixInv
<1>4. /\ pinned' \in Seq(Chains) /\ Distinct(pinned')
      /\ ChainsIn(pinned') = (ChainsIn(pinned) \cup {c}) \cap selected'
      /\ pinned' # <<>> /\ pinned'[Len(pinned')] = c
  BY <1>1, <1>3, RepinnedKeeps
<1>5. ChainsIn(pinned') = ChainsIn(pinned) \cup {c} /\ ChainsIn(pinned') \subseteq selected'
  BY <1>1, <1>3, <1>4
<1>6. percent' = [d \in Chains |-> IF d \in selected' THEN Rebalanced(values, pinned', c)[d] ELSE percent[d]]
  BY <1>1 DEF Edit
<1> HIDE DEF values
<1> QED BY <1>1, <1>2, <1>4, <1>5, <1>6 DEF values, Edited

LEMMA EditKeeps ==
  ASSUME MixAssumption, MixInv, NEW c \in Chains, NEW v \in 0 .. Total, Edit(c, v)
  PROVE  MixInv'
<1>1. CASE selected = {c}
  <2>1. selected' = selected /\ pinned' = <<>> /\ percent' = [percent EXCEPT ![c] = Total]
    BY <1>1 DEF Edit
  <2>2. /\ percent' \in [Chains -> 0 .. Total] /\ percent'[c] = Total
        /\ \A d \in Chains \ selected' : percent'[d] = 0
    BY <1>1, <2>1, MixConstants DEF MixInv, MixIsWhole
  <2>3. SumOn(percent', selected') = Total
    <3>1. percent'[c] \in Int
      BY <2>2, MixConstants
    <3>2. SumOn(percent', {c}) = percent'[c]
      BY <3>1, SumOfOne
    <3> QED BY <1>1, <2>1, <2>2, <3>2
  <2>4. <<>> \in Seq(Chains) /\ Distinct(<<>>) /\ ChainsIn(<<>>) = {}
    BY DEF Distinct, ChainsIn
  <2> QED BY <1>1, <2>1, <2>2, <2>3, <2>4 DEF MixInv, MixIsWhole
<1>2. CASE selected # {c}
  <2> DEFINE values == [percent EXCEPT ![c] = v]
             mix    == Rebalanced(values, pinned', c)
  <2>1. /\ selected' = selected /\ selected' \in SUBSET Chains /\ c \in selected'
        /\ values \in [Chains -> 0 .. Total]
        /\ pinned' \in Seq(Chains) /\ Distinct(pinned') /\ ChainsIn(pinned') \subseteq selected'
        /\ percent' = [d \in Chains |-> IF d \in selected' THEN mix[d] ELSE percent[d]]
    BY <1>2, EditAmongOthers
  <2> HIDE DEF values
  <2>2. mix \in [selected' -> 0 .. Total] /\ SumOn(mix, selected') = Total
    BY <2>1, RebalancedIsWhole
  <2> HIDE DEF mix
  <2>3. /\ \A d \in selected' : percent'[d] = mix[d] /\ mix[d] \in 0 .. Total
        /\ \A d \in Chains \ selected' : percent'[d] = percent[d]
    BY <2>1, <2>2
  <2>4. percent \in [Chains -> 0 .. Total] /\ \A d \in Chains \ selected' : percent[d] = 0
    BY <2>1 DEF MixInv, MixIsWhole
  <2>5. percent' \in [Chains -> 0 .. Total]
    BY <2>1, <2>3, <2>4
  <2>6. SumOn(percent', selected') = Total
    <3>1. \A d \in selected' : mix[d] \in Int /\ percent'[d] = mix[d]
      BY <2>3, MixConstants
    <3>2. SumOn(percent', selected') = SumOn(mix, selected')
      BY <3>1, SameSum
    <3> QED BY <2>2, <3>2
  <2> QED BY <2>1, <2>3, <2>4, <2>5, <2>6 DEF MixInv, MixIsWhole
<1> QED BY <1>1, <1>2

LEMMA MixStep == ASSUME MixAssumption, MixInv, [Next]_vars PROVE MixInv'
<1>1. CASE Next
  <2>1. PICK c \in Chains : Toggle(c) \/ \E v \in 0 .. Total : Edit(c, v)
    BY <1>1 DEF Next
  <2> QED BY <2>1, ToggleKeeps, EditKeeps
<1>2. CASE UNCHANGED vars
  BY <1>2 DEF vars, MixInv, MixIsWhole
<1> QED BY <1>1, <1>2

\* The mix stays whole after any sequence of ticks and edits: the selected chains
\* share exactly the total, no share is negative, the others ask for nothing.
THEOREM MixStaysWhole ==
  ASSUME MixAssumption
  PROVE  Spec => []MixIsWhole
<1>1. Init => MixInv
  BY MixStarts
<1>2. MixInv /\ [Next]_vars => MixInv'
  BY MixStep
<1>3. MixInv => MixIsWhole
  BY DEF MixInv
<1> QED BY <1>1, <1>2, <1>3, PTL DEF Spec

\* With several chains selected none of them is the only one.
LEMMA NotAlone ==
  ASSUME NEW S, Cardinality(S) > 1, NEW c
  PROVE  S # {c}
<1>1. Cardinality({c}) = 1
  BY FS_Singleton
<1>2. ~(1 > 1)
  OBVIOUS
<1> QED BY <1>1, <1>2

LEMMA StepSticks ==
  ASSUME MixAssumption, MixInv, EditStep, NEW v \in 0 .. Total, Edit(Edited, v)
  PROVE  percent'[Edited] = v
<1> DEFINE c == Edited
<1>1. c \in selected
  BY DEF Edit
<1>2. c \in Chains /\ selected # {c}
  BY <1>1, NotAlone DEF MixInv, EditStep
<1> HIDE DEF c
<1> DEFINE values == [percent EXCEPT ![c] = v]
           mix    == Rebalanced(values, pinned', c)
<1>3. Edit(c, v)
  BY DEF c
<1>4. /\ selected' = selected /\ selected' \in SUBSET Chains /\ c \in selected'
      /\ values \in [Chains -> 0 .. Total] /\ values[c] = v
      /\ pinned' \in Seq(Chains) /\ Distinct(pinned')
      /\ ChainsIn(pinned') = ChainsIn(pinned) \cup {c} /\ ChainsIn(pinned') \subseteq selected'
      /\ percent' = [d \in Chains |-> IF d \in selected' THEN mix[d] ELSE percent[d]]
  BY <1>2, <1>3, EditAmongOthers
<1> HIDE DEF values
<1>5. mix[c] = values[c]
  <2>1. c \in ChainsIn(pinned') /\ selected' # {c} /\ selected' # {}
    BY <1>2, <1>4
  <2> QED BY <1>4, <2>1, RebalancedSticks
<1> HIDE DEF mix
<1> QED BY <1>2, <1>4, <1>5 DEF c

\* The value that was typed stands, among two chains or more.
THEOREM EditedValueSticks ==
  ASSUME MixAssumption
  PROVE  Spec => EditSticks
<1>1. Init => MixInv
  BY MixStarts
<1>2. MixInv /\ [Next]_vars => MixInv'
  BY MixStep
<1>3. MixInv => [EditStep => \A v \in 0 .. Total : Edit(Edited, v) => percent'[Edited] = v]_vars
  BY StepSticks
<1> QED BY <1>1, <1>2, <1>3, PTL DEF Spec, EditSticks

LEMMA StepPins ==
  ASSUME MixAssumption, MixInv, Next, EditStep
  PROVE  PinsStand
<1>1. PICK c \in Chains : Toggle(c) \/ \E v \in 0 .. Total : Edit(c, v)
  BY DEF Next
<1>2. ~ Toggle(c)
  BY DEF Toggle, EditStep
<1>3. PICK v \in 0 .. Total : Edit(c, v)
  BY <1>1, <1>2
<1>4. selected # {c}
  BY NotAlone DEF EditStep
<1> DEFINE values == [percent EXCEPT ![c] = v]
           mix    == Rebalanced(values, pinned', c)
           all    == ChainsIn(pinned')
           pins   == ChainsIn(pinned) \ {c}
<1>5. /\ selected' = selected /\ selected' \in SUBSET Chains /\ c \in selected'
      /\ values \in [Chains -> 0 .. Total] /\ values[c] = v
      /\ \A d \in Chains \ {c} : values[d] = percent[d]
      /\ pinned' = Repinned(pinned, c)
      /\ pinned' \in Seq(Chains) /\ Distinct(pinned')
      /\ all = ChainsIn(pinned) \cup {c} /\ all \subseteq selected'
      /\ Edited = c
      /\ percent' = [d \in Chains |-> IF d \in selected' THEN mix[d] ELSE percent[d]]
  BY <1>3, <1>4, EditAmongOthers
<1> HIDE DEF values
<1>6. /\ mix \in [selected' -> 0 .. Total]
      /\ c \in all /\ selected' # {c} => mix[c] = values[c]
      /\ SumOn(values, all) <= Total =>
           \A d \in all : mix[d] = values[d] \/ (mix[d] > values[d] /\ all = selected')
      /\ \A i, k \in DOMAIN pinned' :
           i < k /\ c \notin {pinned'[i], pinned'[k]} /\ mix[pinned'[k]] > 0 =>
             mix[pinned'[i]] >= values[pinned'[i]]
  <2>1. /\ selected' \in SUBSET Chains /\ selected' # {} /\ values \in [Chains -> 0 .. Total]
        /\ pinned' \in Seq(Chains) /\ Distinct(pinned') /\ ChainsIn(pinned') \subseteq selected'
    BY <1>5
  <2>2. mix \in [selected' -> 0 .. Total]
    BY <2>1, RebalancedIsWhole
  <2>3. ASSUME c \in all, selected' # {c} PROVE mix[c] = values[c]
    BY <2>1, <2>3, RebalancedSticks
  <2>4. ASSUME SumOn(values, all) <= Total, NEW d \in all
        PROVE  mix[d] = values[d] \/ (mix[d] > values[d] /\ all = selected')
    BY <2>1, <2>4, RebalancedIsWhole
  <2>5. ASSUME NEW i \in DOMAIN pinned', NEW k \in DOMAIN pinned',
               i < k, c \notin {pinned'[i], pinned'[k]}, mix[pinned'[k]] > 0
        PROVE  mix[pinned'[i]] >= values[pinned'[i]]
    BY <2>1, <2>5, RebalancedIsWhole
  <2> HIDE DEF mix, all
  <2> QED BY <2>2, <2>3, <2>4, <2>5
<1> HIDE DEF mix, all
<1>7. /\ \A d \in selected' : percent'[d] = mix[d]
      /\ percent'[c] = v
      /\ percent \in [Chains -> 0 .. Total]
  BY <1>4, <1>5, <1>6 DEF MixInv, MixIsWhole
<1>8. /\ pins \in SUBSET Chains /\ c \notin pins /\ all = pins \cup {c} /\ pins \subseteq selected'
      /\ \A d \in pins : values[d] = percent[d] /\ percent[d] \in Nat /\ percent[d] \in Int
  BY <1>5, <1>7, MixConstants
<1>9. ASSUME SumOn(percent, pins) + percent'[c] <= Total, NEW d \in pins
      PROVE  percent'[d] = percent[d] \/ (percent'[d] > percent[d] /\ pins \cup {c} = selected)
  <2>1. SumOn(values, pins) = SumOn(percent, pins)
    <3> HIDE DEF pins
    <3> QED BY <1>8, SameSum
  <2>2. SumOn(values, all) = SumOn(values, pins) + values[c]
    <3>1. c \in Chains \ pins
      BY <1>8
    <3>2. values \in [Chains -> 0 .. Total] /\ pins \in SUBSET Chains /\ all = pins \cup {c}
      BY <1>5, <1>8
    <3> HIDE DEF pins
    <3>3. SumOn(values, pins \cup {c}) = SumOn(values, pins) + values[c]
      BY <3>1, <3>2, SumsOfPins
    <3> QED BY <3>2, <3>3
  <2>3. SumOn(values, all) <= Total
    BY <1>5, <1>7, <1>9, <2>1, <2>2
  <2>4. mix[d] = values[d] \/ (mix[d] > values[d] /\ all = selected')
    BY <1>6, <1>8, <2>3
  <2> HIDE DEF pins
  <2>5. percent'[d] = mix[d] /\ values[d] = percent[d]
    BY <1>7, <1>8
  <2> QED BY <1>5, <1>8, <2>4, <2>5
<1>10. ASSUME NEW i \in DOMAIN pinned, NEW k \in DOMAIN pinned,
              i < k, {pinned[i], pinned[k]} \subseteq pins, percent'[pinned[k]] > 0
       PROVE  percent'[pinned[i]] >= percent[pinned[i]]
  <2>1. {pinned[i], pinned[k]} \subseteq selected' \ {c}
    BY <1>8, <1>10
  <2>2. pinned \in Seq(Chains) /\ Distinct(pinned)
    BY DEF MixInv
  <2>3. PICK p \in DOMAIN pinned', q \in DOMAIN pinned' :
             p < q /\ pinned'[p] = pinned[i] /\ pinned'[q] = pinned[k]
    <3>1. selected' \in SUBSET Chains /\ pinned' = Repinned(pinned, c)
      BY <1>5
    <3>2. i < k
      BY <1>10
    <3>3. \E p, q \in DOMAIN Repinned(pinned, c) :
            p < q /\ Repinned(pinned, c)[p] = pinned[i] /\ Repinned(pinned, c)[q] = pinned[k]
      BY <2>1, <2>2, <3>1, <3>2, NoneOvertakes
    <3> QED BY <3>1, <3>3
  <2>4. mix[pinned[k]] > 0 /\ c \notin {pinned'[p], pinned'[q]}
    BY <1>7, <1>10, <2>1, <2>3
  <2>5. mix[pinned[i]] >= values[pinned[i]]
    BY <1>6, <2>3, <2>4
  <2>6. values[pinned[i]] = percent[pinned[i]] /\ percent'[pinned[i]] = mix[pinned[i]]
    BY <1>7, <1>8, <1>10, <2>1
  <2> QED BY <2>5, <2>6
<1>11. Edited = c
  BY <1>5
<1> QED BY <1>9, <1>10, <1>11 DEF PinsStand

\* An edit lowers a pinned chain only when the pinned values do not fit into the mix
\* together, raises one only when all chains are pinned, and lets an older one lose
\* only when the newer have nothing left.
THEOREM PinnedChainsHold ==
  ASSUME MixAssumption
  PROVE  Spec => PinsHold
<1>1. Init => MixInv
  BY MixStarts
<1>2. MixInv /\ [Next]_vars => MixInv'
  BY MixStep
<1>3. MixInv /\ [Next]_vars => [EditStep => PinsStand]_vars
  BY StepPins
<1> QED BY <1>1, <1>2, <1>3, PTL DEF Spec, PinsHold
=============================================================================
