---------------------------- MODULE StreamProofs ----------------------------
(***************************************************************************)
(* Base64 in pieces and the Clean Stream, for inputs of every length cut   *)
(* at any places.                                                          *)
(*                                                                         *)
(* Each conversion is a fold over what it is given, so each proof says     *)
(* what the fold holds after every element, by induction over their        *)
(* number: what has been written or read so far is what the input before   *)
(* it stands for, the carry being the rest that no group took yet.         *)
(***************************************************************************)
EXTENDS RecipesProofs

----------------------------------------------------------------------------
(* Base64 in pieces.                                                       *)

\* G are the m groups of N letters of a text s of n letters over X.
AreGroups(X, s, N, n, m, G) ==
  /\ G \in Seq(Seq(X)) /\ Len(G) = m
  /\ \A k \in 1 .. m :
       /\ G[k] \in Seq(X)
       /\ Len(G[k]) = IF N * k < n THEN N ELSE n - N * (k - 1)
       /\ \A j \in 1 .. Len(G[k]) : N * (k - 1) + j \in 1 .. n /\ G[k][j] = s[N * (k - 1) + j]

\* The groups of a text, by their places in it.
LEMMA GroupsAre ==
  ASSUME NEW X, NEW s \in Seq(X), NEW N \in {3, 4}
  PROVE  AreGroups(X, s, N, Len(s), (Len(s) + N - 1) \div N, Base64!Groups(s, N))
<1>0. PICK n, m, G : n = Len(s) /\ m = (n + N - 1) \div N /\ G = Base64!Groups(s, N)
  OBVIOUS
<1>1. n = Len(s) /\ n \in Nat /\ \A i \in 1 .. n : s[i] \in X
  BY <1>0
<1>2. m = (n + N - 1) \div N
  BY <1>0
<1>3. m \in Nat
  BY <1>1, <1>2
<1> DEFINE lo(k) == N * (k - 1) + 1
           hi(k) == IF N * k < n THEN N * k ELSE n
<1>4. G = [k \in 1 .. m |-> SubSeq(s, lo(k), hi(k))]
  BY <1>0 DEF Base64!Groups
<1>5. ASSUME NEW k \in 1 .. m
      PROVE  LET g == SubSeq(s, lo(k), hi(k)) IN
             /\ g \in Seq(X)
             /\ Len(g) = IF N * k < n THEN N ELSE n - N * (k - 1)
             /\ \A j \in 1 .. Len(g) : N * (k - 1) + j \in 1 .. n /\ g[j] = s[N * (k - 1) + j]
  <2>1. PICK a, b : a = lo(k) /\ b = hi(k)
    OBVIOUS
  <2>2. /\ a \in Int /\ b \in Int /\ a >= 1 /\ b <= n /\ a <= b
        /\ b - a + 1 = IF N * k < n THEN N ELSE n - N * (k - 1)
        /\ N * (k - 1) = a - 1
    <3>1. CASE N = 3
      <4>1. m = (n + 2) \div 3
        BY <1>1, <1>2, <3>1
      <4>2. a = 3 * (k - 1) + 1 /\ b = IF 3 * k < n THEN 3 * k ELSE n
        BY <2>1, <3>1
      <4>3. 3 * m <= n + 2 /\ k <= m /\ k >= 1 /\ k \in Int
        BY <1>1, <1>3, <4>1
      <4>4. /\ a \in Int /\ b \in Int /\ a >= 1 /\ b <= n /\ a <= b
            /\ b - a + 1 = IF 3 * k < n THEN 3 ELSE n - 3 * (k - 1)
            /\ 3 * (k - 1) = a - 1
        <5>1. k \in Int /\ n \in Int /\ 3 * (k - 1) = 3 * k - 3 /\ 4 * (k - 1) = 4 * k - 4
          BY <1>1, <4>3
        <5>2. CASE 3 * k < n
          BY <1>1, <4>2, <4>3, <5>1, <5>2
        <5>3. CASE ~(3 * k < n)
          <6>1. b = n /\ 3 * k >= n /\ 3 * k <= n + 2 /\ a = 3 * k - 2
            BY <1>1, <1>3, <4>2, <4>3, <5>1, <5>3
          <6> QED BY <1>1, <5>1, <5>3, <6>1
        <5> QED BY <5>2, <5>3
      <4> QED BY <3>1, <4>4
    <3>2. CASE N = 4
      <4>1. m = (n + 3) \div 4
        BY <1>1, <1>2, <3>2
      <4>2. a = 4 * (k - 1) + 1 /\ b = IF 4 * k < n THEN 4 * k ELSE n
        BY <2>1, <3>2
      <4>3. 4 * m <= n + 3 /\ k <= m /\ k >= 1 /\ k \in Int
        BY <1>1, <1>3, <4>1
      <4>4. /\ a \in Int /\ b \in Int /\ a >= 1 /\ b <= n /\ a <= b
            /\ b - a + 1 = IF 4 * k < n THEN 4 ELSE n - 4 * (k - 1)
            /\ 4 * (k - 1) = a - 1
        <5>1. k \in Int /\ n \in Int /\ 3 * (k - 1) = 3 * k - 3 /\ 4 * (k - 1) = 4 * k - 4
          BY <1>1, <4>3
        <5>2. CASE 4 * k < n
          BY <1>1, <4>2, <4>3, <5>1, <5>2
        <5>3. CASE ~(4 * k < n)
          <6>1. b = n /\ 4 * k >= n /\ 4 * k <= n + 3 /\ a = 4 * k - 3
            BY <1>1, <1>3, <4>2, <4>3, <5>1, <5>3
          <6> QED BY <1>1, <5>1, <5>3, <6>1
        <5> QED BY <5>2, <5>3
      <4> QED BY <3>2, <4>4
    <3> QED BY <3>1, <3>2
  <2>3. PICK g : g = SubSeq(s, a, b)
    OBVIOUS
  <2>4. \A i \in a .. b : s[i] \in X
    BY <1>1, <2>2
  <2>5. /\ g \in Seq(X) /\ Len(g) = b - a + 1
        /\ \A i \in 1 .. b - a + 1 : g[i] = s[a + i - 1]
    BY <2>2, <2>3, <2>4, SubSeqProperties
  <2>6. \A j \in 1 .. Len(g) : (a - 1) + j \in 1 .. n /\ g[j] = s[(a - 1) + j]
    <3> TAKE j \in 1 .. Len(g)
    <3>1. a + j - 1 = (a - 1) + j /\ j \in 1 .. b - a + 1
      BY <2>2, <2>5
    <3>2. (a - 1) + j \in 1 .. n
      BY <1>1, <2>2, <3>1
    <3> QED BY <2>5, <3>1, <3>2
  <2> HIDE DEF lo, hi
  <2> QED BY <2>1, <2>2, <2>3, <2>5, <2>6
<1> HIDE DEF lo, hi
<1>6. \A k \in 1 .. m : SubSeq(s, lo(k), hi(k)) \in Seq(X)
  BY <1>5, Zenon
<1>7. G \in Seq(Seq(X)) /\ Len(G) = m
  BY <1>3, <1>4, <1>6
<1>8. ASSUME NEW k \in 1 .. m
      PROVE  /\ G[k] \in Seq(X)
             /\ Len(G[k]) = IF N * k < n THEN N ELSE n - N * (k - 1)
             /\ \A j \in 1 .. Len(G[k]) : N * (k - 1) + j \in 1 .. n /\ G[k][j] = s[N * (k - 1) + j]
  <2>1. G[k] = SubSeq(s, lo(k), hi(k))
    BY <1>4
  <2>2. LET g == SubSeq(s, lo(k), hi(k)) IN
        /\ g \in Seq(X)
        /\ Len(g) = IF N * k < n THEN N ELSE n - N * (k - 1)
        /\ \A j \in 1 .. Len(g) : N * (k - 1) + j \in 1 .. n /\ g[j] = s[N * (k - 1) + j]
    BY <1>5, Zenon
  <2> QED BY <2>1, <2>2, Zenon
<1>9. AreGroups(X, s, N, n, m, G)
  BY <1>7, <1>8, Zenon DEF AreGroups
<1> QED BY <1>0, <1>9, Zenon

\* Behind whole groups the groups go on as they would alone.
LEMMA GroupsAfter ==
  ASSUME NEW X, NEW s \in Seq(X), NEW t \in Seq(X), NEW N \in {3, 4},
         NEW q \in Nat, Len(s) = N * q
  PROVE  Base64!Groups(s \o t, N) = Base64!Groups(s, N) \o Base64!Groups(t, N)
<1>1. PICK a, b : a = Len(s) /\ b = Len(t) /\ a \in Nat /\ b \in Nat /\ a = N * q
  OBVIOUS
<1>2. PICK w : w = s \o t
  OBVIOUS
<1>3. w \in Seq(X) /\ Len(w) = a + b /\ \A i \in 1 .. a + b : w[i] = IF i <= a THEN s[i] ELSE t[i - a]
  <2>1. /\ s \o t \in Seq(X) /\ Len(s \o t) = Len(s) + Len(t)
        /\ \A i \in 1 .. Len(s) + Len(t) : (s \o t)[i] = IF i <= Len(s) THEN s[i] ELSE t[i - Len(s)]
    BY ConcatProperties
  <2> QED BY <1>1, <1>2, <2>1
<1>4. PICK gs, gt, gw : gs = Base64!Groups(s, N) /\ gt = Base64!Groups(t, N) /\ gw = Base64!Groups(w, N)
  OBVIOUS
<1>5. PICK m : m = (b + N - 1) \div N /\ m \in Nat
  BY <1>1
<1>6. (a + N - 1) \div N = q /\ (a + b + N - 1) \div N = q + m
  <2>1. CASE N = 3
    <3>1. a = 3 * q /\ m = (b + 2) \div 3
      BY <1>1, <1>5, <2>1
    <3>2. (a + 2) \div 3 = q /\ (a + b + 2) \div 3 = q + m
      BY <1>1, <3>1
    <3> QED BY <1>1, <2>1, <3>2
  <2>2. CASE N = 4
    <3>1. a = 4 * q /\ m = (b + 3) \div 4
      BY <1>1, <1>5, <2>2
    <3>2. (a + 3) \div 4 = q /\ (a + b + 3) \div 4 = q + m
      BY <1>1, <3>1
    <3> QED BY <1>1, <2>2, <3>2
  <2> QED BY <2>1, <2>2
<1>7. /\ gs \in Seq(Seq(X)) /\ Len(gs) = q
      /\ \A k \in 1 .. q :
           /\ gs[k] \in Seq(X)
           /\ Len(gs[k]) = IF N * k < a THEN N ELSE a - N * (k - 1)
           /\ \A j \in 1 .. Len(gs[k]) : gs[k][j] = s[N * (k - 1) + j]
  <2>1. AreGroups(X, s, N, Len(s), (Len(s) + N - 1) \div N, Base64!Groups(s, N))
    BY GroupsAre, Zenon
  <2>2. AreGroups(X, s, N, a, q, gs)
    BY <1>1, <1>4, <1>6, <2>1, Zenon
  <2> QED BY <2>2, Zenon DEF AreGroups
<1>8. /\ gt \in Seq(Seq(X)) /\ Len(gt) = m
      /\ \A k \in 1 .. m :
           /\ gt[k] \in Seq(X)
           /\ Len(gt[k]) = IF N * k < b THEN N ELSE b - N * (k - 1)
           /\ \A j \in 1 .. Len(gt[k]) : N * (k - 1) + j \in 1 .. b /\ gt[k][j] = t[N * (k - 1) + j]
  <2>1. AreGroups(X, t, N, Len(t), (Len(t) + N - 1) \div N, Base64!Groups(t, N))
    BY GroupsAre, Zenon
  <2>2. AreGroups(X, t, N, b, m, gt)
    BY <1>1, <1>4, <1>5, <2>1, Zenon
  <2> QED BY <2>2, Zenon DEF AreGroups
<1>9. /\ gw \in Seq(Seq(X)) /\ Len(gw) = q + m
      /\ \A k \in 1 .. q + m :
           /\ gw[k] \in Seq(X)
           /\ Len(gw[k]) = IF N * k < a + b THEN N ELSE (a + b) - N * (k - 1)
           /\ \A j \in 1 .. Len(gw[k]) : N * (k - 1) + j \in 1 .. a + b /\ gw[k][j] = w[N * (k - 1) + j]
  <2>1. AreGroups(X, w, N, Len(w), (Len(w) + N - 1) \div N, Base64!Groups(w, N))
    BY <1>3, GroupsAre, Zenon
  <2>2. AreGroups(X, w, N, a + b, q + m, gw)
    BY <1>3, <1>4, <1>6, <2>1, Zenon
  <2> QED BY <2>2, Zenon DEF AreGroups
<1>10. ASSUME NEW k \in 1 .. q PROVE gw[k] = gs[k]
  <2>1. k \in 1 .. q + m
    BY <1>5
  <2>2. /\ Len(gs[k]) = N /\ Len(gw[k]) = N
        /\ \A j \in 1 .. N : N * (k - 1) + j \in 1 .. a
    <3>1. CASE N = 3
      <4>1. a = 3 * q
        BY <1>1, <3>1
      <4>2. /\ Len(gs[k]) = IF 3 * k < a THEN 3 ELSE a - 3 * (k - 1)
            /\ Len(gw[k]) = IF 3 * k < a + b THEN 3 ELSE (a + b) - 3 * (k - 1)
        BY <1>7, <1>9, <2>1, <3>1
      <4>3. Len(gs[k]) = 3 /\ Len(gw[k]) = 3 /\ \A j \in 1 .. 3 : 3 * (k - 1) + j \in 1 .. a
        BY <1>1, <4>1, <4>2, SMTT(30)
      <4> QED BY <3>1, <4>3
    <3>2. CASE N = 4
      <4>1. a = 4 * q
        BY <1>1, <3>2
      <4>2. /\ Len(gs[k]) = IF 4 * k < a THEN 4 ELSE a - 4 * (k - 1)
            /\ Len(gw[k]) = IF 4 * k < a + b THEN 4 ELSE (a + b) - 4 * (k - 1)
        BY <1>7, <1>9, <2>1, <3>2
      <4>3. Len(gs[k]) = 4 /\ Len(gw[k]) = 4 /\ \A j \in 1 .. 4 : 4 * (k - 1) + j \in 1 .. a
        BY <1>1, <4>1, <4>2
      <4> QED BY <3>2, <4>3
    <3> QED BY <3>1, <3>2
  <2>3. gw[k] \in Seq(X) /\ gs[k] \in Seq(X)
    BY <1>7, <1>9, <2>1
  <2>4. \A j \in 1 .. Len(gw[k]) : gw[k][j] = gs[k][j]
    <3> TAKE j \in 1 .. Len(gw[k])
    <3>1. PICK i : i = N * (k - 1) + j
      OBVIOUS
    <3>2. j \in 1 .. N /\ j \in 1 .. Len(gs[k]) /\ i \in 1 .. a
      BY <2>2, <3>1
    <3>3. i \in 1 .. a + b /\ i <= a
      BY <1>1, <3>2
    <3>4. gw[k][j] = w[i]
      BY <1>9, <2>1, <3>1
    <3>5. gs[k][j] = s[i]
      BY <1>7, <3>1, <3>2
    <3> QED BY <1>3, <3>3, <3>4, <3>5
  <2> QED BY <2>2, <2>3, <2>4, SeqEqual
<1>11. ASSUME NEW k \in 1 .. m PROVE gw[q + k] = gt[k]
  <2>1. PICK l : l = q + k
    OBVIOUS
  <2>2. l \in 1 .. q + m /\ l \in Nat
    BY <1>5, <2>1
  <2>3. Len(gw[l]) = Len(gt[k]) /\ N * (l - 1) = a + N * (k - 1)
    <3>1. CASE N = 3
      <4>1. a = 3 * q
        BY <1>1, <3>1
      <4>2. /\ Len(gt[k]) = IF 3 * k < b THEN 3 ELSE b - 3 * (k - 1)
            /\ Len(gw[l]) = IF 3 * l < a + b THEN 3 ELSE (a + b) - 3 * (l - 1)
        BY <1>8, <1>9, <2>2, <3>1
      <4>3. Len(gw[l]) = Len(gt[k]) /\ 3 * (l - 1) = a + 3 * (k - 1)
        BY <1>1, <2>1, <2>2, <4>1, <4>2
      <4> QED BY <3>1, <4>3
    <3>2. CASE N = 4
      <4>1. a = 4 * q
        BY <1>1, <3>2
      <4>2. /\ Len(gt[k]) = IF 4 * k < b THEN 4 ELSE b - 4 * (k - 1)
            /\ Len(gw[l]) = IF 4 * l < a + b THEN 4 ELSE (a + b) - 4 * (l - 1)
        BY <1>8, <1>9, <2>2, <3>2
      <4>3. Len(gw[l]) = Len(gt[k]) /\ 4 * (l - 1) = a + 4 * (k - 1)
        BY <1>1, <2>1, <2>2, <4>1, <4>2
      <4> QED BY <3>2, <4>3
    <3> QED BY <3>1, <3>2
  <2>4. gw[l] \in Seq(X) /\ gt[k] \in Seq(X)
    BY <1>8, <1>9, <2>2
  <2>5. \A j \in 1 .. Len(gw[l]) : gw[l][j] = gt[k][j]
    <3> TAKE j \in 1 .. Len(gw[l])
    <3>1. PICK c : c = N * (k - 1)
      OBVIOUS
    <3>2. c + j \in 1 .. b /\ gt[k][j] = t[c + j] /\ gw[l][j] = w[(a + c) + j] /\ c \in Int
      <4>1. gt[k][j] = t[N * (k - 1) + j] /\ N * (k - 1) + j \in 1 .. b
        BY <1>8, <2>3
      <4>2. gw[l][j] = w[N * (l - 1) + j]
        BY <1>9, <2>2
      <4>3. c \in Int
        BY <3>1
      <4> QED BY <2>3, <3>1, <4>1, <4>2, <4>3
    <3>3. (a + c) + j \in 1 .. a + b /\ ~((a + c) + j <= a) /\ (a + c) + j - a = c + j
      <4>1. j \in Int
        OBVIOUS
      <4> QED BY <1>1, <3>2, <4>1
    <3>4. PICK i : i = (a + c) + j
      OBVIOUS
    <3>5. w[i] = t[i - a]
      BY <1>3, <3>3, <3>4
    <3>6. i - a = c + j
      <4>1. j \in Int /\ c \in Int
        BY <3>2
      <4> QED BY <1>1, <3>4, <4>1
    <3>7. w[i] = gt[k][j]
      BY <3>2, <3>5, <3>6
    <3>8. gw[l][j] = w[i]
      BY <3>2, <3>4
    <3> QED BY <3>7, <3>8
  <2> QED BY <2>1, <2>3, <2>4, <2>5, SeqEqual
<1>12. PICK v : v = gs \o gt
  OBVIOUS
<1>13. /\ v \in Seq(Seq(X)) /\ Len(v) = q + m
       /\ \A i \in 1 .. q + m : v[i] = IF i <= q THEN gs[i] ELSE gt[i - q]
  <2>1. /\ gs \o gt \in Seq(Seq(X)) /\ Len(gs \o gt) = Len(gs) + Len(gt)
        /\ \A i \in 1 .. Len(gs) + Len(gt) : (gs \o gt)[i] = IF i <= Len(gs) THEN gs[i] ELSE gt[i - Len(gs)]
    <3>1. gs \in Seq(Seq(X)) /\ gt \in Seq(Seq(X))
      BY <1>7, <1>8
    <3> QED BY <3>1, ConcatProperties
  <2> QED BY <1>7, <1>8, <1>12, <2>1
<1>14. \A i \in 1 .. Len(gw) : gw[i] = v[i]
  <2> TAKE i \in 1 .. Len(gw)
  <2>1. i \in 1 .. q + m
    BY <1>9
  <2>2. CASE i <= q
    <3>1. i \in 1 .. q
      BY <2>1, <2>2
    <3> QED BY <1>10, <1>13, <2>1, <2>2, <3>1
  <2>3. CASE ~(i <= q)
    <3>1. i - q \in 1 .. m /\ q + (i - q) = i
      BY <1>5, <2>1, <2>3
    <3>2. gw[i] = gt[i - q]
      BY <1>11, <3>1
    <3> QED BY <1>13, <2>1, <2>3, <3>2
  <2> QED BY <2>2, <2>3
<1>15. gw = v
  BY <1>9, <1>13, <1>14, SeqEqual
<1> QED BY <1>2, <1>4, <1>12, <1>15

\* u is whole groups of N letters off the front of C, r the rest, which makes none.
Splits(X, C, N, u, r) ==
  /\ u \in Seq(X) /\ r \in Seq(X) /\ u \o r = C
  /\ \E q \in Nat : Len(u) = N * q
  /\ Len(r) < N

\* So the streams split what they carry.
LEMMA SplitIs ==
  ASSUME NEW X, NEW C \in Seq(X), NEW N \in {3, 4}
  PROVE  Splits(X, C, N, Base64!Upto(C, (Len(C) \div N) * N), Base64!After(C, (Len(C) \div N) * N))
<1>0. PICK usable : usable = (Len(C) \div N) * N
  OBVIOUS
<1>1. PICK n, q : n = Len(C) /\ n \in Nat /\ q = n \div N
  OBVIOUS
<1>2. q \in Nat /\ usable = N * q /\ usable \in 0 .. n /\ n - usable < N
  <2>1. CASE N = 3
    <3>1. q = n \div 3 /\ usable = q * 3
      BY <1>0, <1>1, <2>1
    <3>2. q \in Nat /\ usable = 3 * q /\ usable \in 0 .. n /\ n - usable < 3
      BY <1>1, <3>1
    <3> QED BY <2>1, <3>2
  <2>2. CASE N = 4
    <3>1. q = n \div 4 /\ usable = q * 4
      BY <1>0, <1>1, <2>2
    <3>2. q \in Nat /\ usable = 4 * q /\ usable \in 0 .. n /\ n - usable < 4
      BY <1>1, <3>1
    <3> QED BY <2>2, <3>2
  <2> QED BY <2>1, <2>2
<1>3. PICK u, r : u = SubSeq(C, 1, usable) /\ r = SubSeq(C, usable + 1, n)
  OBVIOUS
<1>4. \A i \in 1 .. n : C[i] \in X
  BY <1>1
<1>5. u \in Seq(X) /\ Len(u) = usable
  <2>1. \A i \in 1 .. usable : C[i] \in X
    <3>1. usable \in 0 .. n
      BY <1>2
    <3> QED BY <1>1, <1>4, <3>1
  <2>2. usable \in Int /\ 1 \in Int
    BY <1>2
  <2>3. SubSeq(C, 1, usable) \in Seq(X) /\ Len(SubSeq(C, 1, usable)) = IF 1 <= usable THEN usable - 1 + 1 ELSE 0
    BY <2>1, <2>2, SubSeqProperties
  <2> QED BY <1>2, <1>3, <2>3
<1>6. r \in Seq(X) /\ Len(r) = n - usable
  <2>1. \A i \in usable + 1 .. n : C[i] \in X
    BY <1>2, <1>4
  <2>2. usable + 1 \in Int /\ n \in Int
    BY <1>1, <1>2
  <2>3. /\ SubSeq(C, usable + 1, n) \in Seq(X)
        /\ Len(SubSeq(C, usable + 1, n)) = IF usable + 1 <= n THEN n - (usable + 1) + 1 ELSE 0
    BY <2>1, <2>2, SubSeqProperties
  <2> QED BY <1>1, <1>2, <1>3, <2>3
<1>7. u \o r = C
  <2>1. SubSeq(C, 1, usable) \o SubSeq(C, usable + 1, n) = SubSeq(C, 1, n)
    BY <1>1, <1>2, ConcatAdjacentSubSeq, SMTT(30)
  <2>2. SubSeq(C, 1, n) = C
    BY <1>1, SubSeqFull
  <2> QED BY <1>3, <2>1, <2>2
<1>8. Base64!Upto(C, usable) = u /\ Base64!After(C, usable) = r
  BY <1>1, <1>3 DEF Base64!Upto, Base64!After
<1>9. Len(u) = N * q /\ Len(r) < N
  BY <1>1, <1>2, <1>5, <1>6
<1>10. Splits(X, C, N, u, r)
  BY <1>2, <1>5, <1>6, <1>7, <1>9, Zenon DEF Splits
<1> QED BY <1>0, <1>8, <1>10, Zenon

\* What the hash of a stream has read: whole groups, which it has written, and a carry.
HashStates(X) == [text : Seq(Seq(X)), carry : Seq(X)]
Hashed(X, st, F) == \E U \in Seq(X) : /\ \E q \in Nat : Len(U) = 3 * q
                                      /\ F = U \o st.carry
                                      /\ st.text = Base64!Groups(U, 3)

\* _update_b64_hash_from_raw keeps that, with the fragment read.
LEMMA UpdateHashKeeps ==
  ASSUME NEW X, NEW st \in HashStates(X), NEW raw \in Seq(X), NEW F \in Seq(X)
  PROVE  /\ Base64!UpdateHash(st, raw) \in HashStates(X)
         /\ Hashed(X, st, F) => Hashed(X, Base64!UpdateHash(st, raw), F \o raw)
<1>1. st.text \in Seq(Seq(X)) /\ st.carry \in Seq(X)
  BY DEF HashStates
<1>2. PICK C : C = st.carry \o raw
  OBVIOUS
<1>3. C \in Seq(X)
  BY <1>1, <1>2, ConcatProperties
<1>4. PICK usable : usable = (Len(C) \div 3) * 3
  OBVIOUS
<1>5. PICK u, r : u = Base64!Upto(C, usable) /\ r = Base64!After(C, usable)
  OBVIOUS
<1>6. u \in Seq(X) /\ r \in Seq(X) /\ u \o r = C /\ \E q \in Nat : Len(u) = 3 * q
  <2>1. Splits(X, C, 3, Base64!Upto(C, (Len(C) \div 3) * 3), Base64!After(C, (Len(C) \div 3) * 3))
    <3>1. 3 \in {3, 4}
      OBVIOUS
    <3> QED BY <1>3, <3>1, SplitIs, Zenon
  <2>2. Splits(X, C, 3, u, r)
    BY <1>4, <1>5, <2>1, Zenon
  <2> QED BY <2>2, Zenon DEF Splits
<1>7. Base64!UpdateHash(st, raw) = [text |-> st.text \o Base64!Groups(u, 3), carry |-> r]
  BY <1>2, <1>4, <1>5 DEF Base64!UpdateHash
<1>8. Base64!Groups(u, 3) \in Seq(Seq(X))
  <2>1. AreGroups(X, u, 3, Len(u), (Len(u) + 3 - 1) \div 3, Base64!Groups(u, 3))
    <3>1. 3 \in {3, 4}
      OBVIOUS
    <3> QED BY <1>6, <3>1, GroupsAre
  <2> QED BY <2>1 DEF AreGroups
<1>9. Base64!UpdateHash(st, raw) \in HashStates(X)
  <2>1. st.text \o Base64!Groups(u, 3) \in Seq(Seq(X))
    BY <1>1, <1>8, ConcatProperties
  <2> QED BY <1>6, <1>7, <2>1 DEF HashStates
<1>10. ASSUME Hashed(X, st, F) PROVE Hashed(X, Base64!UpdateHash(st, raw), F \o raw)
  <2>1. PICK U \in Seq(X) : /\ \E q \in Nat : Len(U) = 3 * q
                            /\ F = U \o st.carry
                            /\ st.text = Base64!Groups(U, 3)
    BY <1>10 DEF Hashed
  <2>2. PICK p \in Nat, q \in Nat : Len(U) = 3 * p /\ Len(u) = 3 * q
    BY <1>6, <2>1
  <2>3. PICK V : V = U \o u
    OBVIOUS
  <2>4. V \in Seq(X) /\ Len(V) = Len(U) + Len(u)
    BY <1>6, <2>3, ConcatProperties
  <2>5. p + q \in Nat /\ Len(V) = 3 * (p + q)
    BY <2>2, <2>4
  <2>6. F \o raw = V \o r
    <3>1. (U \o st.carry) \o raw = U \o (st.carry \o raw)
      <4>1. PICK c : c = st.carry
        OBVIOUS
      <4>2. c \in Seq(X) /\ U \in Seq(X) /\ raw \in Seq(X)
        BY <1>1, <4>1
      <4>3. (U \o c) \o raw = U \o (c \o raw)
        BY <4>2, ConcatAssociative, SMTT(30)
      <4> QED BY <4>1, <4>3
    <3>2. (U \o u) \o r = U \o (u \o r)
      <4>1. U \in Seq(X) /\ u \in Seq(X) /\ r \in Seq(X)
        BY <1>6, <2>1
      <4> QED BY <4>1, ConcatAssociative, SMTT(30)
    <3> QED BY <1>2, <1>6, <2>1, <2>3, <3>1, <3>2
  <2>7. Base64!Groups(U \o u, 3) = Base64!Groups(U, 3) \o Base64!Groups(u, 3)
    <3>1. 3 \in {3, 4}
      OBVIOUS
    <3> QED BY <1>6, <2>2, <3>1, GroupsAfter
  <2>8. PICK new : new = Base64!UpdateHash(st, raw)
    OBVIOUS
  <2>9. new.carry = r /\ new.text = Base64!Groups(V, 3)
    <3>1. new = [text |-> st.text \o Base64!Groups(u, 3), carry |-> r]
      BY <1>7, <2>8
    <3>2. st.text \o Base64!Groups(u, 3) = Base64!Groups(V, 3)
      BY <2>1, <2>3, <2>7
    <3> QED BY <3>1, <3>2
  <2>10. \E i \in Nat : Len(V) = 3 * i
    BY <2>5, Zenon
  <2>11. Hashed(X, new, F \o raw)
    BY <2>4, <2>6, <2>9, <2>10, Zenon DEF Hashed
  <2> QED BY <2>8, <2>11
<1> QED BY <1>9, <1>10

\* The hash's states one after the other.
HashStart == [text |-> <<>>, carry |-> <<>>]

\* Hashing a list of fragments is a fold of them.
LEMMA HashSteps ==
  ASSUME NEW X, NEW list \in Seq(Seq(X))
  PROVE  \E h : /\ h[0] = HashStart /\ Base64!StreamedText(list) = Base64!FinishHash(h[Len(list)])
                /\ \A k \in 1 .. Len(list) : h[k] = Base64!UpdateHash(h[k - 1], list[k])
<1> DEFINE n == Len(list)
           D == 1 .. n
           A == HashStates(X)
           P(g) == g = [T \in SUBSET (DOMAIN list) |->
                          IF T = {} THEN HashStart
                          ELSE Base64!UpdateHash(g[T \ {Base64!Max(T)}], list[Base64!Max(T)])]
           last == (CHOOSE g : P(g))[DOMAIN list]
           step == [x \in D \X A |-> Base64!UpdateHash(x[2], list[x[1]])]
<1>1. Base64!StreamedText(list) = Base64!FinishHash(last)
  BY DEF Base64!StreamedText, Base64!FoldLeft, Base64!MapThenFoldSet, HashStart
<1>2. n \in Nat /\ DOMAIN list = D /\ \A k \in D : list[k] \in Seq(X)
  OBVIOUS
<1> HIDE DEF n
<1>3. \A k \in D : \A v \in A : step[<<k, v>>] = Base64!UpdateHash(v, list[k])
  OBVIOUS
<1>4. \A k \in D : \A v \in A : Base64!UpdateHash(v, list[k]) \in A
  <2>1. <<>> \in Seq(X)
    OBVIOUS
  <2> QED BY <1>2, <2>1, UpdateHashKeeps
<1>5. step \in [D \X A -> A]
  <2> HIDE DEF D, A
  <2> QED BY <1>4
<1>6. HashStart \in A
  BY DEF HashStart, HashStates
<1>7. \A T : Base64!Max(T) = Max(T)
  BY DEF Base64!Max, Max
<1> HIDE DEF step, A
<1>8. PICK f \in [SUBSET D -> A] : Folds(f, n, HashStart, step)
  BY <1>2, <1>5, <1>6, FoldsExist
<1>9. P(f)
  <2>1. \A T \in SUBSET D : f[T] = IF T = {} THEN HashStart ELSE step[<<Max(T), f[T \ {Max(T)}]>>]
    BY <1>8 DEF Folds
  <2>2. ASSUME NEW T \in SUBSET D
        PROVE  f[T] = IF T = {} THEN HashStart ELSE Base64!UpdateHash(f[T \ {Max(T)}], list[Max(T)])
    <3>1. CASE T = {}
      BY <2>1, <3>1
    <3>2. CASE T # {}
      <4>1. Max(T) \in D /\ T \ {Max(T)} \in SUBSET D
        BY <1>2, <3>2, GreatestIs
      <4>2. f[T \ {Max(T)}] \in A
        BY <1>8, <4>1
      <4> QED BY <1>3, <2>1, <3>2, <4>1, <4>2
    <3> QED BY <3>1, <3>2
  <2>3. f = [T \in SUBSET D |-> f[T]]
    BY <1>8
  <2> QED BY <1>2, <1>7, <2>2, <2>3, Zenon
<1>10. PICK g : P(g) /\ last = g[D]
  BY <1>2, <1>9
<1>11. \A T \in SUBSET D : g[T] = IF T = {} THEN HashStart ELSE Base64!UpdateHash(g[T \ {Max(T)}], list[Max(T)])
  BY <1>2, <1>7, <1>10
<1> HIDE DEF P, last
<1> DEFINE h == [k \in 0 .. n |-> g[1 .. k]]
<1>12. h[0] = HashStart /\ h[n] = last
  <2>1. 1 .. 0 = {} /\ {} \in SUBSET D /\ 0 \in 0 .. n /\ n \in 0 .. n
    BY <1>2
  <2> QED BY <1>10, <1>11, <2>1
<1>13. \A k \in D : h[k] = Base64!UpdateHash(h[k - 1], list[k])
  <2> TAKE k \in D
  <2>1. /\ 1 .. k \in SUBSET D /\ 1 .. k # {} /\ k \in 0 .. n /\ k - 1 \in 0 .. n
        /\ Max(1 .. k) = k /\ (1 .. k) \ {k} = 1 .. k - 1
    <3>1. n \in Nat /\ k \in 1 .. n
      BY <1>2
    <3>2. k \in 0 .. n /\ k - 1 \in 0 .. n
      BY <3>1
    <3> QED BY <3>1, <3>2, UpToIs
  <2> QED BY <1>11, <2>1
<1> HIDE DEF h
<1> QED BY <1>1, <1>12, <1>13 DEF n

\* However a target is cut, the text of its Base64 is that of the whole.
LEMMA HashIsWhole ==
  ASSUME NEW X, NEW list \in Seq(Seq(X))
  PROVE  Base64!HashIsOfTheWhole(list)
<1>1. PICK n : n = Len(list) /\ n \in Nat /\ \A k \in 1 .. n : list[k] \in Seq(X)
  OBVIOUS
<1>2. PICK h : /\ h[0] = HashStart /\ Base64!StreamedText(list) = Base64!FinishHash(h[n])
               /\ \A k \in 1 .. n : h[k] = Base64!UpdateHash(h[k - 1], list[k])
  BY <1>1, HashSteps
<1>3. PICK f : /\ f[0] = <<>> /\ f[n] = FlattenSeq(list)
               /\ \A k \in 1 .. n : f[k] = f[k - 1] \o list[k]
               /\ \A k \in 0 .. n : f[k] \in Seq(X)
  BY <1>1, FlatSteps
<1> DEFINE W == {k \in Nat : h[k] \in HashStates(X) /\ Hashed(X, h[k], f[k])}
<1>4. 0 \in W
  <2>1. PICK U : U = <<>>
    OBVIOUS
  <2>2. U \in Seq(X) /\ Len(U) = 0 /\ U \o <<>> = U /\ 0 \in Nat /\ Len(U) = 3 * 0
    BY <2>1, ConcatEmptySeq
  <2>3. Base64!Groups(U, 3) = <<>>
    <3>1. PICK G : G = Base64!Groups(U, 3)
      OBVIOUS
    <3>2. AreGroups(X, U, 3, Len(U), (Len(U) + 3 - 1) \div 3, G)
      <4>1. 3 \in {3, 4}
        OBVIOUS
      <4>2. AreGroups(X, U, 3, Len(U), (Len(U) + 3 - 1) \div 3, Base64!Groups(U, 3))
        BY <2>2, <4>1, GroupsAre
      <4> QED BY <3>1, <4>2
    <3>3. G \in Seq(Seq(X)) /\ Len(G) = (Len(U) + 3 - 1) \div 3
      BY <3>2 DEF AreGroups
    <3>4. Len(G) = 0
      BY <2>2, <3>3
    <3>5. G = <<>>
      BY <3>3, <3>4, EmptySeq
    <3> QED BY <3>1, <3>5
  <2>4. HashStart \in HashStates(X) /\ HashStart.text = <<>> /\ HashStart.carry = <<>>
    BY DEF HashStart, HashStates
  <2>5. Hashed(X, HashStart, <<>>)
    BY <2>1, <2>2, <2>3, <2>4 DEF Hashed
  <2> QED BY <1>2, <1>3, <2>4, <2>5
<1>5. ASSUME NEW m \in 0 .. n - 1, m \in W PROVE m + 1 \in W
  <2>1. PICK k : k = m + 1
    OBVIOUS
  <2>2. k \in 1 .. n /\ k - 1 = m /\ k \in Nat /\ m \in 0 .. n
    BY <1>1, <2>1
  <2>3. h[m] \in HashStates(X) /\ Hashed(X, h[m], f[m])
    BY <1>5
  <2> HIDE DEF W
  <2>4. h[k] = Base64!UpdateHash(h[m], list[k]) /\ f[k] = f[m] \o list[k]
    BY <1>2, <1>3, <2>2
  <2>5. list[k] \in Seq(X) /\ f[m] \in Seq(X)
    BY <1>1, <1>3, <2>2
  <2>6. h[k] \in HashStates(X) /\ Hashed(X, h[k], f[k])
    BY <2>3, <2>4, <2>5, UpdateHashKeeps
  <2> QED BY <2>1, <2>2, <2>6 DEF W
<1> HIDE DEF W
<1>6. n \in W
  <2>1. \A k \in 0 .. n : k \in W
    BY <1>1, <1>4, <1>5, InductionTo
  <2> QED BY <1>1, <2>1
<1>7. PICK st : st = h[n]
  OBVIOUS
<1>8. st.carry \in Seq(X) /\ Hashed(X, st, f[n])
  BY <1>6, <1>7 DEF W, HashStates
<1>9. PICK U \in Seq(X) : /\ \E q \in Nat : Len(U) = 3 * q
                          /\ f[n] = U \o st.carry
                          /\ st.text = Base64!Groups(U, 3)
  BY <1>8 DEF Hashed
<1>10. PICK q \in Nat : Len(U) = 3 * q
  BY <1>9
<1>11. Base64!Groups(U \o st.carry, 3) = Base64!Groups(U, 3) \o Base64!Groups(st.carry, 3)
  <2>1. 3 \in {3, 4}
    OBVIOUS
  <2> QED BY <1>8, <1>10, <2>1, GroupsAfter
<1>12. Base64!StreamedText(list) = Base64!Groups(FlattenSeq(list), 3)
  <2>1. Base64!FinishHash(st) = st.text \o Base64!Groups(st.carry, 3)
    BY DEF Base64!FinishHash
  <2> QED BY <1>2, <1>3, <1>7, <1>9, <1>11, <2>1
<1>13. Base64!FlattenSeq(list) = FlattenSeq(list)
  BY DEF Base64!FlattenSeq, FlattenSeq
<1> QED BY <1>12, <1>13 DEF Base64!HashIsOfTheWhole

----------------------------------------------------------------------------
(* A Base64 recipe in pieces.                                              *)

\* A pad is in a text.
Padded(s) == \E i \in 1 .. Len(s) : s[i] = Pad

\* Nothing stands behind a padded quartet of a text that decodes.
LEMMA PadEnds ==
  ASSUME NEW X, NEW U \in Seq(X), NEW y \in Seq(X), NEW p \in Nat, Len(U) = 4 * p,
         Padded(U), Base64!Decodable(U \o y)
  PROVE  y = <<>>
<1>1. PICK a, b, w : a = Len(U) /\ b = Len(y) /\ w = U \o y
  OBVIOUS
<1>2. a \in Nat /\ b \in Nat /\ a = 4 * p
  BY <1>1
<1>3. Len(w) = a + b /\ \A i \in 1 .. a + b : w[i] = IF i <= a THEN U[i] ELSE y[i - a]
  <2>1. /\ Len(U \o y) = Len(U) + Len(y)
        /\ \A i \in 1 .. Len(U) + Len(y) : (U \o y)[i] = IF i <= Len(U) THEN U[i] ELSE y[i - Len(U)]
    BY ConcatProperties
  <2> QED BY <1>1, <2>1
<1>4. PICK i \in 1 .. a : U[i] = Pad
  BY <1>1 DEF Padded
<1>5. w[i] = Pad /\ i \in 1 .. a + b
  BY <1>2, <1>3, <1>4
<1>6. (a + b) % 4 = 0 /\ i > (a + b) - 2
  <2>1. Base64!Decodable(w)
    BY <1>1
  <2>2. Len(w) % 4 = 0 /\ \A j \in 1 .. Len(w) : w[j] = Pad => j > Len(w) - 2 /\ w[Len(w)] = Pad
    BY <2>1 DEF Base64!Decodable
  <2>3. PICK c : c = Len(w)
    OBVIOUS
  <2>4. c % 4 = 0 /\ \A j \in 1 .. c : w[j] = Pad => j > c - 2
    BY <2>2, <2>3, Zenon
  <2>5. c = a + b
    BY <1>3, <2>3
  <2>6. i \in 1 .. c
    BY <1>5, <2>5
  <2>7. i > c - 2
    BY <1>5, <2>4, <2>6, Zenon
  <2> QED BY <2>4, <2>5, <2>7, Zenon
<1>7. b = 0
  BY <1>2, <1>4, <1>6
<1> QED BY <1>1, <1>7, EmptySeq

\* What stands behind whole quartets decodes if the whole does.
LEMMA TailDecodes ==
  ASSUME NEW X, NEW U \in Seq(X), NEW t \in Seq(X), NEW p \in Nat, Len(U) = 4 * p,
         Base64!Decodable(U \o t)
  PROVE  Base64!Decodable(t)
<1>1. PICK a, b, w : a = Len(U) /\ b = Len(t) /\ w = U \o t
  OBVIOUS
<1>2. a \in Nat /\ b \in Nat /\ a = 4 * p
  BY <1>1
<1>3. Len(w) = a + b /\ \A i \in 1 .. a + b : w[i] = IF i <= a THEN U[i] ELSE t[i - a]
  <2>1. /\ Len(U \o t) = Len(U) + Len(t)
        /\ \A i \in 1 .. Len(U) + Len(t) : (U \o t)[i] = IF i <= Len(U) THEN U[i] ELSE t[i - Len(U)]
    BY ConcatProperties
  <2> QED BY <1>1, <2>1
<1>4. /\ (a + b) % 4 = 0
      /\ \A i \in 1 .. a + b : w[i] = Pad => i > (a + b) - 2 /\ w[a + b] = Pad
  <2>1. Base64!Decodable(w)
    BY <1>1
  <2>2. Len(w) % 4 = 0 /\ \A j \in 1 .. Len(w) : w[j] = Pad => j > Len(w) - 2 /\ w[Len(w)] = Pad
    BY <2>1 DEF Base64!Decodable
  <2>3. Len(w) = a + b
    BY <1>3
  <2> QED BY <2>2, <2>3, Zenon
<1>5. b % 4 = 0
  BY <1>2, <1>4
<1>6. ASSUME NEW i \in 1 .. b, t[i] = Pad PROVE i > b - 2 /\ t[b] = Pad
  <2>1. PICK j : j = a + i
    OBVIOUS
  <2>2. j \in 1 .. a + b /\ ~(j <= a) /\ j - a = i
    BY <1>2, <2>1
  <2>3. w[j] = Pad
    BY <1>3, <1>6, <2>2
  <2>4. j > (a + b) - 2 /\ w[a + b] = Pad
    BY <1>4, <2>2, <2>3
  <2>5. w[a + b] = t[b]
    <3>1. PICK c : c = a + b
      OBVIOUS
    <3>2. c \in 1 .. a + b /\ ~(c <= a) /\ c - a = b
      BY <1>2, <3>1
    <3>3. w[c] = t[c - a]
      BY <1>3, <3>2
    <3> QED BY <3>1, <3>2, <3>3
  <2> QED BY <1>2, <2>1, <2>4, <2>5
<1> QED BY <1>1, <1>5, <1>6 DEF Base64!Decodable

\* Two texts of whole quartets decode together if only the end of the last is padded.
LEMMA BothDecode ==
  ASSUME NEW X, NEW U \in Seq(X), NEW t \in Seq(X), NEW p \in Nat, Len(U) = 4 * p,
         Base64!Decodable(U), Base64!Decodable(t), ~Padded(U) \/ t = <<>>
  PROVE  Base64!Decodable(U \o t)
<1>1. CASE t = <<>>
  <2>1. U \o t = U
    BY <1>1, ConcatEmptySeq
  <2> QED BY <2>1
<1>2. CASE ~Padded(U)
  <2>1. PICK a, b, w : a = Len(U) /\ b = Len(t) /\ w = U \o t
    OBVIOUS
  <2>2. a \in Nat /\ b \in Nat /\ a = 4 * p
    BY <2>1
  <2>3. Len(w) = a + b /\ \A i \in 1 .. a + b : w[i] = IF i <= a THEN U[i] ELSE t[i - a]
    <3>1. /\ Len(U \o t) = Len(U) + Len(t)
          /\ \A i \in 1 .. Len(U) + Len(t) : (U \o t)[i] = IF i <= Len(U) THEN U[i] ELSE t[i - Len(U)]
      BY ConcatProperties
    <3> QED BY <2>1, <3>1
  <2>4. b % 4 = 0 /\ \A i \in 1 .. b : t[i] = Pad => i > b - 2 /\ t[b] = Pad
    BY <2>1 DEF Base64!Decodable
  <2>5. (a + b) % 4 = 0
    BY <2>2, <2>4
  <2>6. ASSUME NEW i \in 1 .. a + b, w[i] = Pad PROVE i > (a + b) - 2 /\ w[a + b] = Pad
    <3>1. ~(i <= a)
      <4>1. SUFFICES ASSUME i <= a PROVE FALSE
        OBVIOUS
      <4>2. i \in 1 .. a
        BY <2>2, <4>1
      <4>3. U[i] = Pad
        BY <2>3, <2>6, <4>1
      <4> QED BY <1>2, <2>1, <4>2, <4>3 DEF Padded
    <3>2. PICK j : j = i - a
      OBVIOUS
    <3>3. j \in 1 .. b /\ i = a + j
      BY <2>2, <3>1, <3>2
    <3>4. t[j] = Pad
      BY <2>3, <2>6, <3>1, <3>2
    <3>5. j > b - 2 /\ t[b] = Pad
      BY <2>4, <3>3, <3>4
    <3>6. w[a + b] = t[b]
      <4>1. PICK c : c = a + b
        OBVIOUS
      <4>2. c \in 1 .. a + b /\ ~(c <= a) /\ c - a = b
        BY <2>2, <3>3, <4>1
      <4>3. w[c] = t[c - a]
        BY <2>3, <4>2
      <4> QED BY <4>1, <4>2, <4>3
    <3> QED BY <2>2, <3>3, <3>5, <3>6
  <2> QED BY <2>1, <2>3, <2>5, <2>6 DEF Base64!Decodable
<1> QED BY <1>1, <1>2

\* The pads of two texts are the pads of the one and of the other.
LEMMA PadsOfBoth ==
  ASSUME NEW X, NEW U \in Seq(X), NEW t \in Seq(X)
  PROVE  Padded(U \o t) <=> Padded(U) \/ Padded(t)
<1>0. PICK a, b, w : a = Len(U) /\ b = Len(t) /\ w = U \o t
  OBVIOUS
<1>1. a = Len(U) /\ b = Len(t) /\ w = U \o t /\ a \in Nat /\ b \in Nat
  BY <1>0
<1>2. Len(w) = a + b /\ \A i \in 1 .. a + b : w[i] = IF i <= a THEN U[i] ELSE t[i - a]
  <2>1. /\ Len(U \o t) = Len(U) + Len(t)
        /\ \A i \in 1 .. Len(U) + Len(t) : (U \o t)[i] = IF i <= Len(U) THEN U[i] ELSE t[i - Len(U)]
    BY ConcatProperties
  <2> QED BY <1>1, <2>1
<1>3. ASSUME Padded(w) PROVE Padded(U) \/ Padded(t)
  <2>1. PICK i \in 1 .. a + b : w[i] = Pad
    BY <1>2, <1>3 DEF Padded
  <2>2. CASE i <= a
    <3>1. i \in 1 .. a /\ U[i] = Pad
      BY <1>1, <1>2, <2>1, <2>2
    <3> QED BY <1>1, <3>1 DEF Padded
  <2>3. CASE ~(i <= a)
    <3>1. i - a \in 1 .. b /\ t[i - a] = Pad
      BY <1>1, <1>2, <2>1, <2>3
    <3> QED BY <1>1, <3>1 DEF Padded
  <2> QED BY <2>2, <2>3
<1>4. ASSUME Padded(U) PROVE Padded(w)
  <2>1. PICK i \in 1 .. a : U[i] = Pad
    BY <1>1, <1>4 DEF Padded
  <2>2. i \in 1 .. a + b /\ w[i] = Pad
    BY <1>1, <1>2, <2>1
  <2> QED BY <1>2, <2>2 DEF Padded
<1>5. ASSUME Padded(t) PROVE Padded(w)
  <2>1. PICK i \in 1 .. b : t[i] = Pad
    BY <1>1, <1>5 DEF Padded
  <2>2. PICK j : j = a + i
    OBVIOUS
  <2>3. j \in 1 .. a + b /\ ~(j <= a) /\ j - a = i
    BY <1>1, <2>2
  <2>4. w[j] = Pad
    BY <1>2, <2>1, <2>3
  <2> QED BY <1>2, <2>3, <2>4 DEF Padded
<1> QED BY <1>1, <1>3, <1>4, <1>5

\* What a text decodes to, group by group.
Octets(X) == {Base64!Letters(g) : g \in Seq(X)}

\* What a text decodes to is the bytes of its quartets, one after the other.
LEMMA DecodedIsGroups ==
  ASSUME NEW X, NEW U \in Seq(X)
  PROVE  /\ Base64!Decoded(U) \in Seq(Octets(X))
         /\ Base64!Groups(U, 4) \in Seq(Seq(X))
         /\ Len(Base64!Decoded(U)) = Len(Base64!Groups(U, 4))
         /\ \A k \in 1 .. Len(Base64!Groups(U, 4)) :
              Base64!Decoded(U)[k] = Base64!Letters(Base64!Groups(U, 4)[k])
<1>1. PICK G : G = Base64!Groups(U, 4)
  OBVIOUS
<1>2. G \in Seq(Seq(X))
  <2>1. 4 \in {3, 4}
    OBVIOUS
  <2>2. AreGroups(X, U, 4, Len(U), (Len(U) + 4 - 1) \div 4, Base64!Groups(U, 4))
    BY <2>1, GroupsAre
  <2> QED BY <1>1, <2>2 DEF AreGroups
<1>3. Len(G) \in Nat /\ DOMAIN G = 1 .. Len(G) /\ \A k \in 1 .. Len(G) : G[k] \in Seq(X)
  BY <1>2
<1>4. PICK n : n = Len(G)
  OBVIOUS
<1>5. Base64!Decoded(U) = [k \in 1 .. n |-> Base64!Letters(G[k])]
  BY <1>1, <1>3, <1>4 DEF Base64!Decoded
<1>6. \A k \in 1 .. n : Base64!Letters(G[k]) \in Octets(X)
  BY <1>3, <1>4 DEF Octets
<1>7. PICK d : d = [k \in 1 .. n |-> Base64!Letters(G[k])]
  OBVIOUS
<1>8. d \in Seq(Octets(X)) /\ Len(d) = n /\ \A k \in 1 .. n : d[k] = Base64!Letters(G[k])
  BY <1>3, <1>4, <1>6, <1>7
<1> QED BY <1>1, <1>2, <1>4, <1>5, <1>7, <1>8

\* Behind whole quartets a text decodes as it would alone.
LEMMA DecodedAfter ==
  ASSUME NEW X, NEW s \in Seq(X), NEW t \in Seq(X), NEW p \in Nat, Len(s) = 4 * p
  PROVE  Base64!Decoded(s \o t) = Base64!Decoded(s) \o Base64!Decoded(t)
<1>1. PICK w : w = s \o t
  OBVIOUS
<1>2. w \in Seq(X)
  BY <1>1, ConcatProperties
<1>3. PICK gs, gt, gw : gs = Base64!Groups(s, 4) /\ gt = Base64!Groups(t, 4) /\ gw = Base64!Groups(w, 4)
  OBVIOUS
<1>4. gw = gs \o gt
  <2>1. 4 \in {3, 4}
    OBVIOUS
  <2>2. Base64!Groups(s \o t, 4) = Base64!Groups(s, 4) \o Base64!Groups(t, 4)
    BY <2>1, GroupsAfter
  <2> QED BY <1>1, <1>3, <2>2
<1>5. PICK ds, dt, dw : ds = Base64!Decoded(s) /\ dt = Base64!Decoded(t) /\ dw = Base64!Decoded(w)
  OBVIOUS
<1>6. PICK a, b : a = Len(gs) /\ b = Len(gt)
  OBVIOUS
<1>7. /\ ds \in Seq(Octets(X)) /\ gs \in Seq(Seq(X)) /\ Len(ds) = a /\ a \in Nat
      /\ \A k \in 1 .. a : ds[k] = Base64!Letters(gs[k])
  BY <1>3, <1>5, <1>6, DecodedIsGroups
<1>8. /\ dt \in Seq(Octets(X)) /\ gt \in Seq(Seq(X)) /\ Len(dt) = b /\ b \in Nat
      /\ \A k \in 1 .. b : dt[k] = Base64!Letters(gt[k])
  BY <1>3, <1>5, <1>6, DecodedIsGroups, SMTT(30)
<1>9. /\ dw \in Seq(Octets(X)) /\ Len(dw) = Len(gw)
      /\ \A k \in 1 .. Len(gw) : dw[k] = Base64!Letters(gw[k])
  BY <1>2, <1>3, <1>5, DecodedIsGroups
<1>10. Len(gw) = a + b /\ \A k \in 1 .. a + b : gw[k] = IF k <= a THEN gs[k] ELSE gt[k - a]
  <2>1. gs \in Seq(Seq(X)) /\ gt \in Seq(Seq(X))
    BY <1>7, <1>8
  <2>2. /\ Len(gs \o gt) = Len(gs) + Len(gt)
        /\ \A k \in 1 .. Len(gs) + Len(gt) : (gs \o gt)[k] = IF k <= Len(gs) THEN gs[k] ELSE gt[k - Len(gs)]
    BY <2>1, ConcatProperties
  <2> QED BY <1>4, <1>6, <2>2
<1>11. PICK v : v = ds \o dt
  OBVIOUS
<1>12. v \in Seq(Octets(X)) /\ Len(v) = a + b /\ \A k \in 1 .. a + b : v[k] = IF k <= a THEN ds[k] ELSE dt[k - a]
  <2>1. ds \in Seq(Octets(X)) /\ dt \in Seq(Octets(X))
    BY <1>7, <1>8
  <2>2. /\ ds \o dt \in Seq(Octets(X)) /\ Len(ds \o dt) = Len(ds) + Len(dt)
        /\ \A k \in 1 .. Len(ds) + Len(dt) : (ds \o dt)[k] = IF k <= Len(ds) THEN ds[k] ELSE dt[k - Len(ds)]
    BY <2>1, ConcatProperties
  <2> QED BY <1>7, <1>8, <1>11, <2>2
<1>13. ASSUME NEW k \in 1 .. a + b PROVE dw[k] = v[k]
  <2>1. CASE k <= a
    <3>1. k \in 1 .. a
      BY <1>7, <1>8, <2>1
    <3> QED BY <1>7, <1>9, <1>10, <1>12, <2>1, <3>1
  <2>2. CASE ~(k <= a)
    <3>1. PICK j : j = k - a
      OBVIOUS
    <3>2. j \in 1 .. b
      BY <1>7, <1>8, <2>2, <3>1
    <3> QED BY <1>8, <1>9, <1>10, <1>12, <2>2, <3>1, <3>2
  <2> QED BY <2>1, <2>2
<1>14. dw = v
  BY <1>9, <1>10, <1>12, <1>13, SeqEqual
<1> QED BY <1>1, <1>5, <1>11, <1>14

\* What the stream of a Base64 recipe has read: whole quartets, which it has decoded, and
\* a carry of what makes none; or something no text that decodes begins with.
FeedStates(X) == [raised : BOOLEAN, raw : Seq(Octets(X)), carry : Seq(X), saw_padding : BOOLEAN]
Taken(X, st, F, U) ==
  /\ \E p \in Nat : Len(U) = 4 * p
  /\ F = U \o st.carry /\ Len(st.carry) < 4
  /\ Base64!Decodable(U) /\ st.raw = Base64!Decoded(U)
  /\ st.saw_padding <=> Padded(U)
Lost(X, F) == \A x \in Seq(X) : ~Base64!Decodable(F \o x)
Fed(X, st, F) == /\ st.raised => Lost(X, F)
                 /\ ~st.raised => \E U \in Seq(X) : Taken(X, st, F, U)

\* A fragment of the recipe leaves a state.
LEMMA FeedTypes ==
  ASSUME NEW X, NEW st \in FeedStates(X), NEW frag \in Seq(X)
  PROVE  Base64!Feed(st, frag) \in FeedStates(X)
<1>1. /\ st.raised \in BOOLEAN /\ st.raw \in Seq(Octets(X)) /\ st.carry \in Seq(X)
      /\ st.saw_padding \in BOOLEAN
  BY DEF FeedStates
<1>2. PICK C : C = st.carry \o frag
  OBVIOUS
<1>3. PICK u, r : /\ u = Base64!Upto(C, (Len(C) \div 4) * 4)
                  /\ r = Base64!After(C, (Len(C) \div 4) * 4)
  OBVIOUS
<1>4. C \in Seq(X)
  BY <1>1, <1>2, ConcatProperties
<1>5. Splits(X, C, 4, u, r)
  <2>1. 4 \in {3, 4}
    OBVIOUS
  <2>2. Splits(X, C, 4, Base64!Upto(C, (Len(C) \div 4) * 4), Base64!After(C, (Len(C) \div 4) * 4))
    BY <1>4, <2>1, SplitIs, Zenon
  <2> QED BY <1>3, <2>2, Zenon
<1>6. u \in Seq(X) /\ r \in Seq(X)
  BY <1>5 DEF Splits
<1>7. PICK raw : raw = st.raw \o Base64!Decoded(u)
  OBVIOUS
<1>8. raw \in Seq(Octets(X))
  <2>1. Base64!Decoded(u) \in Seq(Octets(X))
    BY <1>6, DecodedIsGroups
  <2> QED BY <1>1, <1>7, <2>1, ConcatProperties
<1>9. PICK pads : pads = (st.saw_padding \/ Pad \in Base64!ToSet(u))
  OBVIOUS
<1>10. pads \in BOOLEAN
  BY <1>9
<1>11. Base64!Raised \in FeedStates(X)
  BY DEF Base64!Raised, FeedStates
<1>12. [raised |-> FALSE, raw |-> raw, carry |-> r, saw_padding |-> pads] \in FeedStates(X)
  BY <1>6, <1>8, <1>10 DEF FeedStates
<1>13. Base64!Feed(st, frag)
         = IF st.raised \/ (st.saw_padding /\ frag # <<>>) \/ ~Base64!Decodable(u) THEN Base64!Raised
           ELSE [raised |-> FALSE, raw |-> raw, carry |-> r, saw_padding |-> pads]
  BY <1>2, <1>3, <1>7, <1>9, Zenon DEF Base64!Feed
<1> QED BY <1>11, <1>12, <1>13

\* And what was read of the recipe stays known to it.
LEMMA FeedKeeps ==
  ASSUME NEW X, NEW st \in FeedStates(X), NEW frag \in Seq(X), NEW F \in Seq(X), Fed(X, st, F)
  PROVE  Fed(X, Base64!Feed(st, frag), F \o frag)
<1>1. /\ st.raised \in BOOLEAN /\ st.raw \in Seq(Octets(X)) /\ st.carry \in Seq(X)
      /\ st.saw_padding \in BOOLEAN
  BY DEF FeedStates
<1>2. PICK c, C : c = st.carry /\ C = c \o frag
  OBVIOUS
<1>3. PICK u, r : /\ u = Base64!Upto(C, (Len(C) \div 4) * 4)
                  /\ r = Base64!After(C, (Len(C) \div 4) * 4)
  OBVIOUS
<1>4. c \in Seq(X) /\ C \in Seq(X)
  BY <1>1, <1>2, ConcatProperties
<1>5. Splits(X, C, 4, u, r)
  <2>1. 4 \in {3, 4}
    OBVIOUS
  <2>2. Splits(X, C, 4, Base64!Upto(C, (Len(C) \div 4) * 4), Base64!After(C, (Len(C) \div 4) * 4))
    BY <1>4, <2>1, SplitIs, Zenon
  <2> QED BY <1>3, <2>2, Zenon
<1>6. u \in Seq(X) /\ r \in Seq(X) /\ u \o r = C /\ Len(r) < 4
  BY <1>5 DEF Splits
<1>7. PICK q \in Nat : Len(u) = 4 * q
  BY <1>5, Zenon DEF Splits
<1>8. PICK raw, pads : raw = st.raw \o Base64!Decoded(u) /\ pads = (st.saw_padding \/ Pad \in Base64!ToSet(u))
  OBVIOUS
<1>9. Base64!Feed(st, frag)
         = IF st.raised \/ (st.saw_padding /\ frag # <<>>) \/ ~Base64!Decodable(u) THEN Base64!Raised
           ELSE [raised |-> FALSE, raw |-> raw, carry |-> r, saw_padding |-> pads]
  BY <1>2, <1>3, <1>8, Zenon DEF Base64!Feed
<1>10. PICK new, G : new = Base64!Feed(st, frag) /\ G = F \o frag
  OBVIOUS
<1>11. G \in Seq(X)
  BY <1>10, ConcatProperties
<1>12. Pad \in Base64!ToSet(u) <=> Padded(u)
  <2>1. DOMAIN u = 1 .. Len(u)
    BY <1>6
  <2> QED BY <2>1 DEF Base64!ToSet, Padded
<1>13. \A x \in Seq(X) : frag \o x \in Seq(X) /\ G \o x = F \o (frag \o x)
  <2> TAKE x \in Seq(X)
  <2>1. frag \o x \in Seq(X)
    BY ConcatProperties
  <2>2. (F \o frag) \o x = F \o (frag \o x)
    BY ConcatAssociative, SMTT(30)
  <2> QED BY <1>10, <2>1, <2>2
<1>14. CASE st.raised
  <2>1. new.raised
    BY <1>9, <1>10, <1>14 DEF Base64!Raised
  <2>2. Lost(X, F)
    BY <1>14 DEF Fed
  <2>3. Lost(X, G)
    BY <1>13, <2>2, Zenon DEF Lost
  <2> QED BY <1>10, <2>1, <2>3 DEF Fed
<1>15. CASE ~st.raised
  <2>1. PICK U \in Seq(X) : Taken(X, st, F, U)
    BY <1>15 DEF Fed
  <2>2. PICK p \in Nat : Len(U) = 4 * p
    BY <2>1 DEF Taken
  <2>3. /\ F = U \o c /\ Len(c) < 4 /\ Base64!Decodable(U) /\ st.raw = Base64!Decoded(U)
        /\ st.saw_padding <=> Padded(U)
    BY <1>2, <2>1 DEF Taken
  <2>4. PICK V : V = U \o u
    OBVIOUS
  <2>5. V \in Seq(X) /\ Len(V) = Len(U) + Len(u)
    BY <1>6, <2>1, <2>4, ConcatProperties
  <2>6. p + q \in Nat /\ Len(V) = 4 * (p + q)
    BY <1>7, <2>2, <2>5
  <2>7. U \in Seq(X)
    BY <2>1
  <2>8. G = V \o r /\ G = U \o C
    <3>1. (U \o c) \o frag = U \o (c \o frag)
      BY <1>4, <2>7, ConcatAssociative, SMTT(30)
    <3>2. (U \o u) \o r = U \o (u \o r)
      <4>1. U \in Seq(X) /\ u \in Seq(X) /\ r \in Seq(X)
        BY <1>6, <2>7
      <4> QED BY <4>1, ConcatAssociative, SMTT(30)
    <3> QED BY <1>2, <1>6, <1>10, <2>3, <2>4, <3>1, <3>2
  <2>9. \A x \in Seq(X) : /\ C \o x \in Seq(X) /\ G \o x = U \o (C \o x)
                          /\ r \o x \in Seq(X) /\ G \o x = V \o (r \o x)
    <3> TAKE x \in Seq(X)
    <3>1. C \o x \in Seq(X) /\ r \o x \in Seq(X)
      BY <1>4, <1>6, ConcatProperties
    <3>2. (U \o C) \o x = U \o (C \o x)
      BY <1>4, <2>7, ConcatAssociative, SMTT(30)
    <3>3. (V \o r) \o x = V \o (r \o x)
      <4>1. V \in Seq(X) /\ r \in Seq(X)
        BY <1>6, <2>5
      <4> QED BY <4>1, ConcatAssociative, SMTT(30)
    <3> QED BY <2>8, <3>1, <3>2, <3>3
  <2>10. CASE st.saw_padding /\ frag # <<>>
    <3>1. new.raised
      BY <1>9, <1>10, <2>10 DEF Base64!Raised
    <3>2. ASSUME NEW x \in Seq(X) PROVE ~Base64!Decodable(G \o x)
      <4>1. SUFFICES ASSUME Base64!Decodable(G \o x) PROVE FALSE
        OBVIOUS
      <4>2. PICK y : y = C \o x
        OBVIOUS
      <4>3. y \in Seq(X) /\ Base64!Decodable(U \o y)
        BY <2>9, <4>1, <4>2
      <4>4. y = <<>>
        BY <2>2, <2>3, <2>7, <2>10, <4>3, PadEnds
      <4>5. C = <<>>
        <5>1. C \in Seq(X) /\ x \in Seq(X)
          BY <1>4
        <5>2. C \o x = <<>> <=> C = <<>> /\ x = <<>>
          BY <5>1, ConcatEqualIffEmpty
        <5> QED BY <4>2, <4>4, <5>2
      <4>6. frag = <<>>
        <5>1. c \in Seq(X) /\ frag \in Seq(X)
          BY <1>4
        <5>2. c \o frag = <<>> <=> c = <<>> /\ frag = <<>>
          BY <5>1, ConcatEqualIffEmpty
        <5> QED BY <1>2, <4>5, <5>2
      <4> QED BY <2>10, <4>6
    <3>3. Lost(X, G)
      BY <3>2, Zenon DEF Lost
    <3> QED BY <1>10, <3>1, <3>3 DEF Fed
  <2>11. CASE ~Base64!Decodable(u)
    <3>1. new.raised
      BY <1>9, <1>10, <2>11 DEF Base64!Raised
    <3>2. Padded(u)
      <4>1. PICK n : n = Len(u) /\ n = 4 * q
        BY <1>7
      <4>2. n % 4 = 0
        BY <1>7, <4>1
      <4>3. Len(u) % 4 = 0
        BY <4>1, <4>2
      <4> QED BY <2>11, <4>3 DEF Base64!Decodable, Padded
    <3>3. Padded(V)
      BY <1>6, <2>4, <2>7, <3>2, PadsOfBoth
    <3>4. ASSUME NEW x \in Seq(X) PROVE ~Base64!Decodable(G \o x)
      <4>1. SUFFICES ASSUME Base64!Decodable(G \o x) PROVE FALSE
        OBVIOUS
      <4>2. PICK y : y = r \o x
        OBVIOUS
      <4>3. y \in Seq(X) /\ Base64!Decodable(V \o y)
        BY <2>9, <4>1, <4>2
      <4>4. PICK i \in Nat : Len(V) = 4 * i
        BY <2>6
      <4>5. y = <<>>
        BY <2>5, <3>3, <4>3, <4>4, PadEnds
      <4>6. V \o y = V
        BY <2>5, <4>5, ConcatEmptySeq
      <4>7. Base64!Decodable(U \o u)
        BY <2>4, <4>3, <4>6
      <4>8. Base64!Decodable(u)
        BY <1>6, <2>2, <2>7, <4>7, TailDecodes
      <4> QED BY <2>11, <4>8
    <3>5. Lost(X, G)
      BY <3>4, Zenon DEF Lost
    <3> QED BY <1>10, <3>1, <3>5 DEF Fed
  <2>12. CASE ~(st.saw_padding /\ frag # <<>>) /\ Base64!Decodable(u)
    <3>1. new = [raised |-> FALSE, raw |-> raw, carry |-> r, saw_padding |-> pads]
      BY <1>9, <1>10, <1>15, <2>12
    <3>2. ~new.raised /\ new.raw = raw /\ new.carry = r /\ new.saw_padding = pads
      BY <3>1
    <3>3. ~Padded(U) \/ u = <<>>
      <4>1. SUFFICES ASSUME Padded(U) PROVE u = <<>>
        OBVIOUS
      <4>2. frag = <<>>
        BY <2>3, <2>12, <4>1
      <4>3. C = c
        BY <1>2, <1>4, <4>2, ConcatEmptySeq
      <4>4. Len(u) + Len(r) = Len(C) /\ Len(u) \in Nat /\ Len(r) \in Nat
        <5>1. Len(u \o r) = Len(u) + Len(r)
          BY <1>6, ConcatProperties
        <5> QED BY <1>6, <5>1
      <4>5. Len(u) < 4
        <5>1. Len(C) < 4 /\ Len(C) \in Nat
          BY <1>4, <2>3, <4>3
        <5> QED BY <4>4, <5>1
      <4>6. Len(u) = 0
        BY <1>7, <4>4, <4>5
      <4> QED BY <1>6, <4>6, EmptySeq
    <3>4. Base64!Decodable(V)
      BY <1>6, <2>2, <2>3, <2>4, <2>7, <2>12, <3>3, BothDecode
    <3>5. raw = Base64!Decoded(V)
      <4>1. Base64!Decoded(U \o u) = Base64!Decoded(U) \o Base64!Decoded(u)
        BY <1>6, <2>2, <2>7, DecodedAfter
      <4> QED BY <1>8, <2>3, <2>4, <4>1
    <3>6. pads <=> Padded(V)
      <4>1. Padded(U \o u) <=> Padded(U) \/ Padded(u)
        BY <1>6, <2>7, PadsOfBoth
      <4> QED BY <1>8, <1>12, <2>3, <2>4, <4>1
    <3>7. \E i \in Nat : Len(V) = 4 * i
      BY <2>6, Zenon
    <3>8. Taken(X, new, G, V)
      BY <1>6, <2>8, <3>2, <3>4, <3>5, <3>6, <3>7, Zenon DEF Taken
    <3> QED BY <1>10, <2>5, <3>2, <3>8 DEF Fed
  <2> QED BY <2>10, <2>11, <2>12
<1> QED BY <1>1, <1>14, <1>15

\* The stream's states one after the other.
FeedStart == [raised |-> FALSE, raw |-> <<>>, carry |-> <<>>, saw_padding |-> FALSE]

\* Feeding a list of fragments is a fold of them.
LEMMA FeedSteps ==
  ASSUME NEW X, NEW list \in Seq(Seq(X))
  PROVE  \E h : /\ h[0] = FeedStart
                /\ Base64!StreamedBytes(list) = IF h[Len(list)].carry # <<>> THEN Base64!Raised ELSE h[Len(list)]
                /\ \A k \in 1 .. Len(list) : h[k] = Base64!Feed(h[k - 1], list[k])
<1> DEFINE n == Len(list)
           D == 1 .. n
           A == FeedStates(X)
           P(g) == g = [T \in SUBSET (DOMAIN list) |->
                          IF T = {} THEN FeedStart
                          ELSE Base64!Feed(g[T \ {Base64!Max(T)}], list[Base64!Max(T)])]
           last == (CHOOSE g : P(g))[DOMAIN list]
           step == [x \in D \X A |-> Base64!Feed(x[2], list[x[1]])]
<1>1. Base64!StreamedBytes(list) = IF last.carry # <<>> THEN Base64!Raised ELSE last
  BY DEF Base64!StreamedBytes, Base64!FoldLeft, Base64!MapThenFoldSet, FeedStart
<1>2. n \in Nat /\ DOMAIN list = D /\ \A k \in D : list[k] \in Seq(X)
  OBVIOUS
<1> HIDE DEF n
<1>3. \A k \in D : \A v \in A : step[<<k, v>>] = Base64!Feed(v, list[k])
  OBVIOUS
<1>4. \A k \in D : \A v \in A : Base64!Feed(v, list[k]) \in A
  BY <1>2, FeedTypes
<1>5. step \in [D \X A -> A]
  <2> HIDE DEF D, A
  <2> QED BY <1>4
<1>6. FeedStart \in A
  BY DEF FeedStart, FeedStates
<1>7. \A T : Base64!Max(T) = Max(T)
  BY DEF Base64!Max, Max
<1> HIDE DEF step, A
<1>8. PICK f \in [SUBSET D -> A] : Folds(f, n, FeedStart, step)
  BY <1>2, <1>5, <1>6, FoldsExist
<1>9. P(f)
  <2>1. \A T \in SUBSET D : f[T] = IF T = {} THEN FeedStart ELSE step[<<Max(T), f[T \ {Max(T)}]>>]
    BY <1>8 DEF Folds
  <2>2. ASSUME NEW T \in SUBSET D
        PROVE  f[T] = IF T = {} THEN FeedStart ELSE Base64!Feed(f[T \ {Max(T)}], list[Max(T)])
    <3>1. CASE T = {}
      BY <2>1, <3>1
    <3>2. CASE T # {}
      <4>1. Max(T) \in D /\ T \ {Max(T)} \in SUBSET D
        BY <1>2, <3>2, GreatestIs
      <4>2. f[T \ {Max(T)}] \in A
        BY <1>8, <4>1
      <4> QED BY <1>3, <2>1, <3>2, <4>1, <4>2
    <3> QED BY <3>1, <3>2
  <2>3. f = [T \in SUBSET D |-> f[T]]
    BY <1>8
  <2> QED BY <1>2, <1>7, <2>2, <2>3, Zenon
<1>10. PICK g : P(g) /\ last = g[D]
  BY <1>2, <1>9
<1>11. \A T \in SUBSET D : g[T] = IF T = {} THEN FeedStart ELSE Base64!Feed(g[T \ {Max(T)}], list[Max(T)])
  BY <1>2, <1>7, <1>10
<1> HIDE DEF P, last
<1> DEFINE h == [k \in 0 .. n |-> g[1 .. k]]
<1>12. h[0] = FeedStart /\ h[n] = last
  <2>1. 1 .. 0 = {} /\ {} \in SUBSET D /\ 0 \in 0 .. n /\ n \in 0 .. n
    BY <1>2
  <2> QED BY <1>10, <1>11, <2>1
<1>13. \A k \in D : h[k] = Base64!Feed(h[k - 1], list[k])
  <2> TAKE k \in D
  <2>1. /\ 1 .. k \in SUBSET D /\ 1 .. k # {} /\ k \in 0 .. n /\ k - 1 \in 0 .. n
        /\ Max(1 .. k) = k /\ (1 .. k) \ {k} = 1 .. k - 1
    <3>1. n \in Nat /\ k \in 1 .. n
      BY <1>2
    <3>2. k \in 0 .. n /\ k - 1 \in 0 .. n
      BY <3>1
    <3> QED BY <3>1, <3>2, UpToIs
  <2> QED BY <1>11, <2>1
<1> HIDE DEF h
<1> QED BY <1>1, <1>12, <1>13 DEF n

\* However a Base64 recipe is cut, the stream gives what the decoder of the whole gives.
LEMMA DecodesWhole ==
  ASSUME NEW X, NEW list \in Seq(Seq(X))
  PROVE  Base64!DecodesAsTheWhole(list)
<1>1. PICK n : n = Len(list) /\ n \in Nat /\ \A k \in 1 .. n : list[k] \in Seq(X)
  OBVIOUS
<1>2. PICK h : /\ h[0] = FeedStart
               /\ Base64!StreamedBytes(list) = IF h[n].carry # <<>> THEN Base64!Raised ELSE h[n]
               /\ \A k \in 1 .. n : h[k] = Base64!Feed(h[k - 1], list[k])
  BY <1>1, FeedSteps
<1>3. PICK f : /\ f[0] = <<>> /\ f[n] = FlattenSeq(list)
               /\ \A k \in 1 .. n : f[k] = f[k - 1] \o list[k]
               /\ \A k \in 0 .. n : f[k] \in Seq(X)
  BY <1>1, FlatSteps
<1> DEFINE W == {k \in Nat : h[k] \in FeedStates(X) /\ Fed(X, h[k], f[k])}
<1>4. 0 \in W
  <2>1. PICK U : U = <<>>
    OBVIOUS
  <2>2. U \in Seq(X) /\ Len(U) = 0 /\ U \o <<>> = U /\ 0 \in Nat /\ Len(U) = 4 * 0
    BY <2>1, ConcatEmptySeq
  <2>3. Base64!Decoded(U) = <<>>
    <3>1. PICK G : G = Base64!Groups(U, 4)
      OBVIOUS
    <3>2. AreGroups(X, U, 4, Len(U), (Len(U) + 4 - 1) \div 4, G)
      <4>1. 4 \in {3, 4}
        OBVIOUS
      <4>2. AreGroups(X, U, 4, Len(U), (Len(U) + 4 - 1) \div 4, Base64!Groups(U, 4))
        BY <2>2, <4>1, GroupsAre
      <4> QED BY <3>1, <4>2
    <3>3. G \in Seq(Seq(X)) /\ Len(G) = (Len(U) + 4 - 1) \div 4
      BY <3>2 DEF AreGroups
    <3>4. Len(G) = 0
      BY <2>2, <3>3
    <3>5. Base64!Decoded(U) \in Seq(Octets(X)) /\ Len(Base64!Decoded(U)) = 0
      BY <2>2, <3>1, <3>4, DecodedIsGroups
    <3> QED BY <3>5, EmptySeq
  <2>4. /\ FeedStart \in FeedStates(X) /\ FeedStart.raw = <<>> /\ FeedStart.carry = <<>>
        /\ ~FeedStart.raised /\ ~FeedStart.saw_padding
    BY DEF FeedStart, FeedStates
  <2>5. ~Padded(U) /\ Base64!Decodable(U)
    BY <2>2 DEF Padded, Base64!Decodable
  <2>6. Taken(X, FeedStart, <<>>, U)
    BY <2>1, <2>2, <2>3, <2>4, <2>5 DEF Taken
  <2>7. Fed(X, FeedStart, <<>>)
    BY <2>2, <2>4, <2>6 DEF Fed
  <2> QED BY <1>2, <1>3, <2>4, <2>7
<1>5. ASSUME NEW m \in 0 .. n - 1, m \in W PROVE m + 1 \in W
  <2>1. PICK k : k = m + 1
    OBVIOUS
  <2>2. k \in 1 .. n /\ k - 1 = m /\ k \in Nat /\ m \in 0 .. n
    BY <1>1, <2>1
  <2>3. h[m] \in FeedStates(X) /\ Fed(X, h[m], f[m])
    BY <1>5
  <2> HIDE DEF W
  <2>4. h[k] = Base64!Feed(h[m], list[k]) /\ f[k] = f[m] \o list[k]
    BY <1>2, <1>3, <2>2
  <2>5. list[k] \in Seq(X) /\ f[m] \in Seq(X)
    BY <1>1, <1>3, <2>2
  <2>6. h[k] \in FeedStates(X)
    BY <2>3, <2>4, <2>5, FeedTypes
  <2>7. Fed(X, h[k], f[k])
    BY <2>3, <2>4, <2>5, FeedKeeps
  <2> QED BY <2>1, <2>2, <2>6, <2>7 DEF W
<1> HIDE DEF W
<1>6. n \in W
  <2>1. \A k \in 0 .. n : k \in W
    BY <1>1, <1>4, <1>5, InductionTo
  <2> QED BY <1>1, <2>1
<1>7. PICK st, text, result : st = h[n] /\ text = FlattenSeq(list) /\ result = Base64!StreamedBytes(list)
  OBVIOUS
<1>8. st \in FeedStates(X) /\ Fed(X, st, text) /\ text \in Seq(X)
  <2>1. h[n] \in FeedStates(X) /\ Fed(X, h[n], f[n])
    BY <1>6 DEF W
  <2>2. n \in 0 .. n
    BY <1>1
  <2> QED BY <1>3, <1>7, <2>1, <2>2
<1>9. result = IF st.carry # <<>> THEN Base64!Raised ELSE st
  BY <1>2, <1>7
<1>10. IF Base64!Decodable(text) THEN ~result.raised /\ result.raw = Base64!Decoded(text) ELSE result.raised
  <2>1. st.raised \in BOOLEAN /\ st.carry \in Seq(X)
    BY <1>8 DEF FeedStates
  <2>2. Base64!Raised.raised
    BY DEF Base64!Raised
  <2>3. CASE st.raised
    <3>1. result.raised
      BY <1>9, <2>2, <2>3
    <3>2. Lost(X, text)
      BY <1>8, <2>3 DEF Fed
    <3>3. <<>> \in Seq(X) /\ text \o <<>> = text
      BY <1>8, ConcatEmptySeq
    <3>4. ~Base64!Decodable(text)
      BY <3>2, <3>3 DEF Lost
    <3> QED BY <3>1, <3>4
  <2>4. CASE ~st.raised
    <3>1. PICK U \in Seq(X) : Taken(X, st, text, U)
      BY <1>8, <2>4 DEF Fed
    <3>2. PICK p \in Nat : Len(U) = 4 * p
      BY <3>1 DEF Taken
    <3>3. /\ text = U \o st.carry /\ Len(st.carry) < 4 /\ Base64!Decodable(U)
          /\ st.raw = Base64!Decoded(U)
      BY <3>1 DEF Taken
    <3>4. CASE st.carry = <<>>
      <4>1. text = U
        BY <3>1, <3>3, <3>4, ConcatEmptySeq
      <4> QED BY <1>9, <2>4, <3>3, <3>4, <4>1
    <3>5. CASE st.carry # <<>>
      <4>1. result.raised
        BY <1>9, <2>2, <3>5
      <4>2. PICK c, l : c = st.carry /\ l = Len(c)
        OBVIOUS
      <4>3. l \in Nat /\ l # 0 /\ l < 4
        BY <2>1, <3>3, <3>5, <4>2, EmptySeq
      <4>4. Len(text) = 4 * p + l
        <5>1. c \in Seq(X) /\ U \in Seq(X)
          BY <2>1, <3>1, <4>2
        <5>2. Len(U \o c) = Len(U) + Len(c)
          BY <5>1, ConcatProperties
        <5> QED BY <3>2, <3>3, <4>2, <5>2
      <4>5. (4 * p + l) % 4 # 0
        <5>1. l = 1 \/ l = 2 \/ l = 3
          BY <4>3
        <5>2. p \in Nat
          BY <3>2
        <5> QED BY <5>1, <5>2
      <4>6. ~Base64!Decodable(text)
        BY <4>4, <4>5, Zenon DEF Base64!Decodable
      <4> QED BY <4>1, <4>6
    <3> QED BY <3>4, <3>5
  <2> QED BY <2>1, <2>3, <2>4
<1>11. Base64!FlattenSeq(list) = FlattenSeq(list)
  BY DEF Base64!FlattenSeq, FlattenSeq
<1> QED BY <1>7, <1>10, <1>11, Zenon DEF Base64!DecodesAsTheWhole

----------------------------------------------------------------------------
(* The Clean Stream.                                                       *)

\* The characters of a stream.
CleanChars == Hex \cup {Oh, Plus}

\* The characters of the Clean Stream, by what they can be.
LEMMA CharsAre ==
  /\ Width \in Nat /\ Width > 0 /\ MaxDigit \in Nat /\ MaxDigit > 0
  /\ Clean!Counting = 1 .. MaxDigit /\ Clean!Counting \subseteq Hex /\ Hex \subseteq CleanChars
  /\ 0 \in Hex /\ 0 \notin Clean!Counting /\ Oh \in CleanChars /\ Plus \in CleanChars
  /\ Oh \notin Hex /\ Plus \notin Hex /\ Oh # Plus
<1>1. Clean!CleanAssumption
  BY RecipesAssumption
<1>2. /\ Width \in Nat \ {0} /\ MaxDigit \in Nat \ {0}
      /\ Oh \notin 0 .. MaxDigit /\ Plus \notin 0 .. MaxDigit
      /\ Letter # Oh /\ Oh # Plus /\ Plus # Letter
  BY <1>1 DEF Clean!CleanAssumption
<1>3. 0 \in 0 .. MaxDigit /\ 1 .. MaxDigit \subseteq 0 .. MaxDigit /\ 0 \notin 1 .. MaxDigit
  BY <1>2
<1> QED BY <1>2, <1>3 DEF Hex, CleanChars, Clean!Digits, Clean!Counting

\* The sum of a sequence, one by one.
LEMMA TotalIs ==
  ASSUME NEW s \in Seq(Nat)
  PROVE  \E h : /\ h[0] = 0 /\ Clean!Total(s) = h[Len(s)]
                /\ \A k \in 1 .. Len(s) : h[k] = h[k - 1] + s[k]
                /\ \A k \in 0 .. Len(s) : h[k] \in Nat
<1> DEFINE n == Len(s)
           D == 1 .. n
           P(g) == g = [T \in SUBSET (DOMAIN s) |->
                          IF T = {} THEN 0 ELSE g[T \ {Clean!Max(T)}] + s[Clean!Max(T)]]
           last == (CHOOSE g : P(g))[DOMAIN s]
           step == [x \in D \X Nat |-> x[2] + s[x[1]]]
<1>1. Clean!Total(s) = last
  BY DEF Clean!Total, Clean!FoldLeft, Clean!MapThenFoldSet
<1>2. n \in Nat /\ DOMAIN s = D /\ \A k \in D : s[k] \in Nat
  OBVIOUS
<1> HIDE DEF n
<1>3. \A k \in D : \A v \in Nat : step[<<k, v>>] = v + s[k]
  OBVIOUS
<1>4. \A k \in D : \A v \in Nat : v + s[k] \in Nat
  BY <1>2
<1>5. step \in [D \X Nat -> Nat]
  <2> HIDE DEF D
  <2> QED BY <1>4
<1>6. \A T : Clean!Max(T) = Max(T)
  BY DEF Clean!Max, Max
<1> HIDE DEF step
<1>7. PICK f \in [SUBSET D -> Nat] : Folds(f, n, 0, step)
  BY <1>2, <1>5, FoldsExist
<1>8. P(f)
  <2>1. \A T \in SUBSET D : f[T] = IF T = {} THEN 0 ELSE step[<<Max(T), f[T \ {Max(T)}]>>]
    BY <1>7 DEF Folds
  <2>2. ASSUME NEW T \in SUBSET D
        PROVE  f[T] = IF T = {} THEN 0 ELSE f[T \ {Max(T)}] + s[Max(T)]
    <3>1. CASE T = {}
      BY <2>1, <3>1
    <3>2. CASE T # {}
      <4>1. Max(T) \in D /\ T \ {Max(T)} \in SUBSET D
        BY <1>2, <3>2, GreatestIs
      <4>2. f[T \ {Max(T)}] \in Nat
        BY <1>7, <4>1
      <4> QED BY <1>3, <2>1, <3>2, <4>1, <4>2
    <3> QED BY <3>1, <3>2
  <2>3. f = [T \in SUBSET D |-> f[T]]
    BY <1>7
  <2> QED BY <1>2, <1>6, <2>2, <2>3, Zenon
<1>9. PICK g : P(g) /\ last = g[D]
  BY <1>2, <1>8
<1>10. \A T \in SUBSET D : g[T] = IF T = {} THEN 0 ELSE g[T \ {Max(T)}] + s[Max(T)]
  BY <1>2, <1>6, <1>9
<1> HIDE DEF P, last
<1> DEFINE h == [k \in 0 .. n |-> g[1 .. k]]
<1>11. h[0] = 0 /\ h[n] = last
  <2>1. 1 .. 0 = {} /\ {} \in SUBSET D /\ 0 \in 0 .. n /\ n \in 0 .. n
    BY <1>2
  <2> QED BY <1>9, <1>10, <2>1
<1>12. \A k \in D : h[k] = h[k - 1] + s[k]
  <2> TAKE k \in D
  <2>1. /\ 1 .. k \in SUBSET D /\ 1 .. k # {} /\ k \in 0 .. n /\ k - 1 \in 0 .. n
        /\ Max(1 .. k) = k /\ (1 .. k) \ {k} = 1 .. k - 1
    <3>1. n \in Nat /\ k \in 1 .. n
      BY <1>2
    <3>2. k \in 0 .. n /\ k - 1 \in 0 .. n
      BY <3>1
    <3> QED BY <3>1, <3>2, UpToIs
  <2> QED BY <1>10, <2>1
<1> HIDE DEF h
<1>13. \A k \in 0 .. n : h[k] \in Nat
  <2>1. \A k \in D : h[k - 1] \in Nat => h[k] \in Nat
    BY <1>4, <1>12
  <2>2. 0 \in Nat
    OBVIOUS
  <2> QED BY <1>2, <1>11, <2>1, <2>2, FoldKeeps
<1> QED BY <1>1, <1>11, <1>12, <1>13 DEF n

\* A run of zeros: its digits add up to its length, and more than one are closed.
LEMMA RunIs ==
  ASSUME NEW n \in Nat, n > 0
  PROVE  LET r == Clean!EncodeZeroRun(n) IN
         /\ r \in Seq(CleanChars) /\ Len(r) >= 3 /\ r[1] = Oh /\ r[2] = 0
         /\ \/ n \in Clean!Counting /\ Len(r) = 3 /\ r[3] = n
            \/ \E d \in Seq(Clean!Counting) :
                 /\ Clean!Total(d) = n /\ Len(d) > 1
                 /\ Len(r) = Len(d) + 3 /\ r[Len(d) + 3] = Plus
                 /\ \A j \in 1 .. Len(d) : r[2 + j] = d[j]
<1>1. PICK r : r = Clean!EncodeZeroRun(n)
  OBVIOUS
<1>2. CASE n <= MaxDigit
  <2>1. r = <<Oh, 0, n>>
    BY <1>1, <1>2 DEF Clean!EncodeZeroRun
  <2>2. n \in Clean!Counting /\ n \in CleanChars /\ 0 \in CleanChars /\ Oh \in CleanChars
    BY <1>2, CharsAre
  <2>3. r \in Seq(CleanChars) /\ Len(r) = 3 /\ r[1] = Oh /\ r[2] = 0 /\ r[3] = n
    BY <2>1, <2>2
  <2> QED BY <1>1, <2>2, <2>3
<1>3. CASE ~(n <= MaxDigit)
  <2>1. PICK nines : nines = (n - 1) \div MaxDigit
    OBVIOUS
  <2>2. PICK rem : rem = n - nines * MaxDigit
    OBVIOUS
  <2>3. nines \in Nat /\ nines > 0 /\ rem \in 1 .. MaxDigit
    <3>1. MaxDigit \in Nat /\ MaxDigit > 0 /\ n - 1 \in Nat /\ n - 1 >= MaxDigit
      BY <1>3, CharsAre
    <3>2. nines \in Int /\ nines * MaxDigit <= n - 1 /\ n - 1 < nines * MaxDigit + MaxDigit
      BY <2>1, <3>1
    <3>3. PICK prod : prod = nines * MaxDigit
      OBVIOUS
    <3>4. prod \in Int
      BY <3>1, <3>2, <3>3
    <3>5. rem \in 1 .. MaxDigit
      BY <2>2, <3>1, <3>2, <3>3, <3>4
    <3>6. nines > 0
      <4>1. prod > 0
        BY <3>1, <3>2, <3>3, <3>4
      <4>2. nines <= 0 => nines * MaxDigit <= 0
        BY <3>1, <3>2
      <4> QED BY <3>2, <3>3, <3>4, <4>1, <4>2
    <3> QED BY <3>2, <3>5, <3>6
  <2>4. PICK u, t, v : /\ u = [i \in 1 .. nines |-> MaxDigit] /\ t = <<rem, Plus>>
                       /\ v = <<Oh, 0>>
    OBVIOUS
  <2>5. r = v \o u \o t
    BY <1>1, <1>3, <2>1, <2>2, <2>4 DEF Clean!EncodeZeroRun
  <2>6. u \in Seq(Clean!Counting) /\ Len(u) = nines /\ \A i \in 1 .. nines : u[i] = MaxDigit
    <3>1. MaxDigit \in Clean!Counting
      BY CharsAre
    <3> QED BY <2>3, <2>4, <3>1
  <2>7. rem \in Clean!Counting
    BY <2>3, CharsAre
  <2>8. PICK d : d = Append(u, rem)
    OBVIOUS
  <2>9. d \in Seq(Clean!Counting) /\ Len(d) = nines + 1 /\ d[nines + 1] = rem /\ \A i \in 1 .. nines : d[i] = MaxDigit
    BY <2>6, <2>7, <2>8, AppendProperties
  <2>10. /\ v \in Seq(CleanChars) /\ Len(v) = 2 /\ v[1] = Oh /\ v[2] = 0
         /\ t \in Seq(CleanChars) /\ Len(t) = 2 /\ t[1] = rem /\ t[2] = Plus
    <3>1. rem \in CleanChars /\ Plus \in CleanChars /\ 0 \in CleanChars /\ Oh \in CleanChars
      BY <2>7, CharsAre
    <3> QED BY <2>4, <3>1
  <2>11. u \in Seq(CleanChars)
    <3>1. Clean!Counting \subseteq CleanChars
      BY CharsAre
    <3> QED BY <2>6, <3>1, SeqMonotonic
  <2>12. PICK w : w = v \o u
    OBVIOUS
  <2>13. /\ w \in Seq(CleanChars) /\ Len(w) = 2 + nines
         /\ \A i \in 1 .. 2 + nines : w[i] = IF i <= 2 THEN v[i] ELSE u[i - 2]
    <3>1. /\ v \o u \in Seq(CleanChars) /\ Len(v \o u) = Len(v) + Len(u)
          /\ \A i \in 1 .. Len(v) + Len(u) : (v \o u)[i] = IF i <= Len(v) THEN v[i] ELSE u[i - Len(v)]
      BY <2>10, <2>11, ConcatProperties
    <3> QED BY <2>6, <2>10, <2>12, <3>1
  <2>14. /\ r \in Seq(CleanChars) /\ Len(r) = nines + 4
         /\ \A i \in 1 .. nines + 4 : r[i] = IF i <= 2 + nines THEN w[i] ELSE t[i - (2 + nines)]
    <3>1. /\ w \o t \in Seq(CleanChars) /\ Len(w \o t) = Len(w) + Len(t)
          /\ \A i \in 1 .. Len(w) + Len(t) : (w \o t)[i] = IF i <= Len(w) THEN w[i] ELSE t[i - Len(w)]
      BY <2>10, <2>13, ConcatProperties
    <3>2. r = w \o t
      BY <2>5, <2>12
    <3>3. Len(w) + Len(t) = nines + 4
      BY <2>3, <2>10, <2>13
    <3> QED BY <2>13, <3>1, <3>2, <3>3
  <2>15. r[1] = Oh /\ r[2] = 0 /\ r[nines + 4] = Plus /\ r[nines + 3] = rem
    <3>1. 1 \in 1 .. nines + 4 /\ 2 \in 1 .. nines + 4 /\ 1 \in 1 .. 2 + nines /\ 2 \in 1 .. 2 + nines
      BY <2>3
    <3>2. /\ nines + 4 \in 1 .. nines + 4 /\ ~(nines + 4 <= 2 + nines) /\ nines + 4 - (2 + nines) = 2
          /\ nines + 3 \in 1 .. nines + 4 /\ ~(nines + 3 <= 2 + nines) /\ nines + 3 - (2 + nines) = 1
      BY <2>3
    <3>3. r[1] = w[1] /\ r[2] = w[2] /\ w[1] = v[1] /\ w[2] = v[2]
      BY <2>3, <2>13, <2>14, <3>1
    <3>4. r[nines + 4] = t[2] /\ r[nines + 3] = t[1]
      <4>1. PICK a, b : a = nines + 4 /\ b = nines + 3
        OBVIOUS
      <4>2. a - (2 + nines) = 2 /\ b - (2 + nines) = 1
        BY <2>3, <4>1
      <4>3. r[a] = t[a - (2 + nines)] /\ r[b] = t[b - (2 + nines)]
        BY <2>14, <3>2, <4>1
      <4> QED BY <4>1, <4>2, <4>3
    <3> QED BY <2>10, <3>3, <3>4
  <2>16. \A j \in 1 .. nines + 1 : r[2 + j] = d[j]
    <3> TAKE j \in 1 .. nines + 1
    <3>1. CASE j = nines + 1
      <4>1. 2 + j = nines + 3
        BY <2>3, <3>1
      <4> QED BY <2>9, <2>15, <3>1, <4>1
    <3>2. CASE j # nines + 1
      <4>1. PICK i : i = 2 + j
        OBVIOUS
      <4>2. i \in 1 .. nines + 4 /\ i <= 2 + nines /\ i \in 1 .. 2 + nines /\ ~(i <= 2) /\ i - 2 = j /\ j \in 1 .. nines
        BY <2>3, <3>2, <4>1
      <4> QED BY <2>6, <2>9, <2>13, <2>14, <4>1, <4>2
    <3> QED BY <3>1, <3>2
  <2>17. Clean!Total(d) = n
    <3>1. d \in Seq(Nat)
      <4>1. Clean!Counting \subseteq Nat
        BY CharsAre
      <4> QED BY <2>9, <4>1, SeqMonotonic
    <3>2. PICK h : /\ h[0] = 0 /\ Clean!Total(d) = h[nines + 1]
                   /\ \A k \in 1 .. nines + 1 : h[k] = h[k - 1] + d[k]
      <4>1. PICK h : /\ h[0] = 0 /\ Clean!Total(d) = h[Len(d)]
                     /\ \A k \in 1 .. Len(d) : h[k] = h[k - 1] + d[k]
        BY <3>1, TotalIs
      <4> QED BY <2>9, <4>1
    <3> DEFINE W == {k \in Nat : h[k] = k * MaxDigit}
    <3>3. 0 \in W
      BY <3>2, CharsAre
    <3>4. ASSUME NEW m \in 0 .. nines - 1, m \in W PROVE m + 1 \in W
      <4>1. PICK k : k = m + 1
        OBVIOUS
      <4>2. k \in 1 .. nines /\ k \in 1 .. nines + 1 /\ k - 1 = m /\ k \in Nat /\ m \in Nat
        BY <2>3, <4>1
      <4>3. h[m] = m * MaxDigit
        BY <3>4
      <4>4. h[k] = m * MaxDigit + MaxDigit
        BY <2>9, <3>2, <4>2, <4>3
      <4>5. (m + 1) * MaxDigit = m * MaxDigit + MaxDigit
        BY <4>2, CharsAre
      <4>6. h[k] = k * MaxDigit
        BY <4>1, <4>4, <4>5
      <4> QED BY <4>1, <4>2, <4>6
    <3> HIDE DEF W
    <3>5. nines \in W
      <4>1. \A k \in 0 .. nines : k \in W
        BY <2>3, <3>3, <3>4, InductionTo
      <4> QED BY <2>3, <4>1
    <3>6. h[nines] = nines * MaxDigit
      BY <3>5 DEF W
    <3>7. h[nines + 1] = h[nines] + rem
      <4>1. nines + 1 \in 1 .. nines + 1 /\ (nines + 1) - 1 = nines
        BY <2>3
      <4> QED BY <2>9, <3>2, <4>1
    <3>8. PICK prod : prod = nines * MaxDigit /\ prod \in Int
      BY <2>3, CharsAre
    <3>9. prod + (n - prod) = n
      BY <3>8
    <3> QED BY <2>2, <3>2, <3>6, <3>7, <3>8, <3>9
  <2>18. Len(d) > 1 /\ Len(r) = Len(d) + 3 /\ r[Len(d) + 3] = Plus /\ Len(r) >= 3
    <3>1. Len(d) + 3 = nines + 4
      BY <2>3, <2>9
    <3> QED BY <2>3, <2>9, <2>14, <2>15, <3>1
  <2>19. \A j \in 1 .. Len(d) : r[2 + j] = d[j]
    BY <2>9, <2>16
  <2> QED BY <1>1, <2>9, <2>14, <2>15, <2>17, <2>18, <2>19
<1>4. MaxDigit \in Int
  BY CharsAre
<1> QED BY <1>2, <1>3

\* The zeros of a run.
LEMMA ZerosAre ==
  ASSUME NEW n \in Nat
  PROVE  /\ Clean!Zeros(n) \in Seq(CleanChars) /\ Clean!Zeros(n) \in Seq(Hex)
         /\ Len(Clean!Zeros(n)) = n /\ \A i \in 1 .. n : Clean!Zeros(n)[i] = 0
<1>1. 0 \in Hex /\ 0 \in CleanChars
  BY CharsAre
<1>2. Clean!Zeros(n) = [i \in 1 .. n |-> 0]
  BY DEF Clean!Zeros
<1> QED BY <1>1, <1>2

\* A token ends in the text, behind its count, and counts some zeros.
LEMMA TokenEnds ==
  ASSUME NEW text \in Seq(CleanChars), NEW i \in 1 .. Len(text),
         i + 2 <= Len(text), text[i + 2] \in Clean!Counting
  PROVE  Clean!Token(text, i).zeros \in Nat /\ Clean!Token(text, i).next \in i + 1 .. Len(text) + 1
<1> DEFINE start == i + 2
           L == Len(text)
           pluses == {j \in start + 1 .. L : text[j] = Plus}
           plus == CHOOSE j \in pluses : \A k \in pluses : j <= k
           long == /\ pluses # {} /\ plus > start + 1
                   /\ \A j \in start .. plus - 1 : text[j] \in Clean!Counting
<1>1. Clean!Token(text, i) = IF long THEN [zeros |-> Clean!Total(SubSeq(text, start, plus - 1)), next |-> plus + 1]
                             ELSE [zeros |-> text[start], next |-> start + 1]
  BY DEF Clean!Token
<1>2. L \in Nat /\ i \in 1 .. L /\ start \in 1 .. L
  OBVIOUS
<1> HIDE DEF L
<1>3. CASE long
  <2>1. plus \in pluses
    <3>1. pluses \subseteq Nat
      BY <1>2
    <3> HIDE DEF pluses
    <3>2. \E j \in pluses : \A k \in pluses : j <= k
      BY <1>3, <3>1, LeastNat
    <3> QED BY <3>2, Zenon
  <2>2. plus \in start + 1 .. L
    <3> HIDE DEF plus
    <3> QED BY <2>1
  <2>3. PICK p : p = plus
    OBVIOUS
  <2>4. \A j \in start .. p - 1 : text[j] \in Nat
    <3>1. \A j \in start .. p - 1 : text[j] \in Clean!Counting
      <4> HIDE DEF plus, pluses, start
      <4> QED BY <1>3, <2>3
    <3>2. Clean!Counting \subseteq Nat
      BY CharsAre
    <3> QED BY <3>1, <3>2
  <2>5. p \in start + 1 .. L
    BY <2>2, <2>3
  <2> HIDE DEF plus, long, pluses
  <2>6. Clean!Token(text, i) = [zeros |-> Clean!Total(SubSeq(text, start, p - 1)), next |-> p + 1]
    BY <1>1, <1>3, <2>3
  <2>7. PICK s : s = SubSeq(text, start, p - 1)
    OBVIOUS
  <2>8. s \in Seq(Nat)
    <3>1. start \in Int /\ p - 1 \in Int
      BY <1>2, <2>5
    <3> HIDE DEF start
    <3> QED BY <2>4, <2>7, <3>1, SubSeqProperties
  <2>9. Clean!Total(s) \in Nat
    <3>1. PICK h : Clean!Total(s) = h[Len(s)] /\ \A k \in 0 .. Len(s) : h[k] \in Nat
      BY <2>8, TotalIs
    <3>2. Len(s) \in 0 .. Len(s)
      BY <2>8
    <3> QED BY <3>1, <3>2
  <2>10. p + 1 \in i + 1 .. L + 1
    BY <1>2, <2>5
  <2> QED BY <2>6, <2>7, <2>9, <2>10 DEF L
<1>4. CASE ~long
  <2> HIDE DEF long
  <2>1. Clean!Token(text, i) = [zeros |-> text[start], next |-> start + 1]
    BY <1>1, <1>4
  <2>2. text[start] \in Nat
    <3>1. Clean!Counting \subseteq Nat
      BY CharsAre
    <3> QED BY <3>1
  <2>3. start + 1 \in i + 1 .. L + 1
    BY <1>2
  <2> HIDE DEF start
  <2> QED BY <2>1, <2>2, <2>3 DEF L
<1> QED BY <1>3, <1>4

\* A token of one digit, when no plus follows before the next token.
LEMMA ShortToken ==
  ASSUME NEW text \in Seq(CleanChars), NEW i \in 1 .. Len(text), i + 2 <= Len(text),
         \A j \in i + 3 .. Len(text) : text[j] = Plus => \E k \in i + 3 .. j - 1 : text[k] = Oh
  PROVE  Clean!Token(text, i) = [zeros |-> text[i + 2], next |-> i + 3]
<1> DEFINE start == i + 2
           L == Len(text)
           pluses == {j \in start + 1 .. L : text[j] = Plus}
           plus == CHOOSE j \in pluses : \A k \in pluses : j <= k
           long == /\ pluses # {} /\ plus > start + 1
                   /\ \A j \in start .. plus - 1 : text[j] \in Clean!Counting
<1>1. Clean!Token(text, i) = IF long THEN [zeros |-> Clean!Total(SubSeq(text, start, plus - 1)), next |-> plus + 1]
                             ELSE [zeros |-> text[start], next |-> start + 1]
  BY DEF Clean!Token
<1>2. L \in Nat /\ i \in 1 .. L /\ start \in 1 .. L /\ start + 1 = i + 3
  OBVIOUS
<1> HIDE DEF L
<1>3. ~long
  <2> SUFFICES ASSUME long PROVE FALSE
    OBVIOUS
  <2>1. plus \in pluses
    <3>1. pluses \subseteq Nat
      BY <1>2
    <3> HIDE DEF pluses
    <3>2. \E j \in pluses : \A k \in pluses : j <= k
      BY <3>1, LeastNat
    <3> QED BY <3>2, Zenon
  <2>2. plus \in i + 3 .. L /\ text[plus] = Plus
    <3> HIDE DEF plus
    <3> QED BY <1>2, <2>1
  <2>3. PICK k \in i + 3 .. plus - 1 : text[k] = Oh
    <3> HIDE DEF plus, pluses
    <3> QED BY <2>2 DEF L
  <2>4. k \in start .. plus - 1
    <3> HIDE DEF plus, pluses
    <3> QED BY <1>2, <2>2
  <2>5. text[k] \in Clean!Counting
    <3> HIDE DEF plus, pluses, start
    <3> QED BY <2>4
  <2> QED BY <2>3, <2>5, CharsAre
<1> HIDE DEF long, plus, pluses
<1> QED BY <1>1, <1>2, <1>3

\* A token of several digits, closed by a plus.
LEMMA LongToken ==
  ASSUME NEW text \in Seq(CleanChars), NEW i \in 1 .. Len(text),
         NEW d \in Seq(Clean!Counting), Len(d) > 1, i + 2 + Len(d) <= Len(text),
         \A j \in 1 .. Len(d) : text[i + 1 + j] = d[j], text[i + 2 + Len(d)] = Plus
  PROVE  Clean!Token(text, i) = [zeros |-> Clean!Total(d), next |-> i + 3 + Len(d)]
<1> DEFINE start == i + 2
           L == Len(text)
           pluses == {j \in start + 1 .. L : text[j] = Plus}
           plus == CHOOSE j \in pluses : \A k \in pluses : j <= k
           long == /\ pluses # {} /\ plus > start + 1
                   /\ \A j \in start .. plus - 1 : text[j] \in Clean!Counting
<1>1. Clean!Token(text, i) = IF long THEN [zeros |-> Clean!Total(SubSeq(text, start, plus - 1)), next |-> plus + 1]
                             ELSE [zeros |-> text[start], next |-> start + 1]
  BY DEF Clean!Token
<1>2. PICK m : m = Len(d)
  OBVIOUS
<1>3. PICK e : e = i + 2 + m
  OBVIOUS
<1>4. /\ L \in Nat /\ i \in 1 .. L /\ m \in Nat /\ m > 1 /\ e \in start + 1 .. L /\ e > start + 1
      /\ text[e] = Plus /\ e + 1 = i + 3 + m /\ start \in Nat
  BY <1>2, <1>3
<1>5. \A j \in start .. e - 1 : text[j] = d[j - (i + 1)] /\ j - (i + 1) \in 1 .. m
  <2> TAKE j \in start .. e - 1
  <2>1. PICK k : k = j - (i + 1)
    OBVIOUS
  <2>2. k \in 1 .. m /\ i + 1 + k = j
    BY <1>3, <1>4, <2>1
  <2> QED BY <1>2, <2>1, <2>2
<1>6. \A j \in start .. e - 1 : text[j] \in Clean!Counting /\ text[j] # Plus
  <2>1. \A k \in 1 .. m : d[k] \in Clean!Counting
    BY <1>2
  <2>2. Plus \notin Clean!Counting
    BY CharsAre
  <2> QED BY <1>5, <2>1, <2>2
<1> HIDE DEF L
<1>7. e \in pluses /\ \A k \in pluses : e <= k
  <2>1. ASSUME NEW k \in pluses PROVE e <= k
    <3>1. k \in start + 1 .. L /\ text[k] = Plus
      OBVIOUS
    <3>2. ~(k \in start .. e - 1)
      BY <1>6, <3>1
    <3> QED BY <1>4, <3>1, <3>2
  <2> QED BY <1>4, <2>1
<1>8. plus = e
  <2>1. plus \in pluses /\ \A k \in pluses : plus <= k
    <3> HIDE DEF pluses
    <3> QED BY <1>7, Zenon
  <2>2. plus <= e /\ e <= plus /\ plus \in Int /\ e \in Int
    <3>1. pluses \subseteq Int
      BY <1>4
    <3> HIDE DEF plus, pluses
    <3> QED BY <1>4, <1>7, <2>1, <3>1
  <2> HIDE DEF plus
  <2> QED BY <2>2
<1>9. long
  <2> HIDE DEF plus, pluses, start
  <2> QED BY <1>4, <1>6, <1>7, <1>8
<1>10. SubSeq(text, start, e - 1) = d
  <2>1. PICK s, z : s = SubSeq(text, start, z) /\ z = e - 1
    OBVIOUS
  <2>2. z \in Int /\ start \in Int /\ start <= z /\ z - start + 1 = m
    BY <1>3, <1>4, <2>1
  <2>3. \A j \in start .. z : text[j] \in Clean!Counting
    BY <1>6, <2>1
  <2>4. /\ SubSeq(text, start, z) \in Seq(Clean!Counting)
        /\ Len(SubSeq(text, start, z)) = IF start <= z THEN z - start + 1 ELSE 0
        /\ \A j \in 1 .. z - start + 1 : SubSeq(text, start, z)[j] = text[start + j - 1]
    <3> HIDE DEF start
    <3> QED BY <2>2, <2>3, SubSeqProperties
  <2>5. s \in Seq(Clean!Counting) /\ Len(s) = m /\ \A j \in 1 .. m : s[j] = text[start + j - 1]
    <3> HIDE DEF start
    <3> QED BY <2>1, <2>2, <2>4
  <2>6. \A j \in 1 .. m : s[j] = d[j]
    <3> TAKE j \in 1 .. m
    <3>1. PICK k : k = start + j - 1
      OBVIOUS
    <3>2. k \in start .. e - 1 /\ k - (i + 1) = j
      BY <1>3, <1>4, <3>1
    <3> HIDE DEF start
    <3> QED BY <1>5, <2>5, <3>1, <3>2
  <2>7. s = d
    BY <1>2, <2>5, <2>6, SeqEqual
  <2> QED BY <2>1, <2>7
<1> HIDE DEF long, plus, start, pluses
<1> QED BY <1>1, <1>2, <1>4, <1>8, <1>9, <1>10

\* Decoding a stream, place by place.
LEMMA CleanDecodedIs ==
  ASSUME NEW text \in Seq(CleanChars)
  PROVE  \E g : /\ Clean!DecodeText(text) = IF Len(g[1]) % Width # 0 THEN Clean!Refused ELSE g[1]
                /\ g[Len(text) + 1] = <<>>
                /\ \A i \in 1 .. Len(text) + 1 : g[i] \in Seq(CleanChars)
                /\ \A i \in 1 .. Len(text) :
                     /\ text[i] \in Hex => g[i] = <<text[i]>> \o g[i + 1]
                     /\ /\ Clean!StartsToken(text, i) /\ i + 2 <= Len(text)
                        /\ text[i + 2] \in Clean!Counting
                        => g[i] = Clean!Zeros(Clean!Token(text, i).zeros) \o g[Clean!Token(text, i).next]
<1> DEFINE L == Len(text)
           D == 1 .. L + 1
           Value(g, i) ==
             IF i > Len(text) THEN <<>>
             ELSE IF Clean!StartsToken(text, i)
               THEN IF i + 2 > Len(text) \/ text[i + 2] \notin Clean!Counting THEN Clean!Refused
                    ELSE Clean!Zeros(Clean!Token(text, i).zeros) \o g[Clean!Token(text, i).next]
             ELSE IF text[i] \in Clean!Digits \cup {Letter} THEN <<text[i]>> \o g[i + 1]
             ELSE Clean!Refused
           P(g) == g = [i \in 1 .. Len(text) + 1 |->
             IF i > Len(text) THEN <<>>
             ELSE IF Clean!StartsToken(text, i)
               THEN IF i + 2 > Len(text) \/ text[i + 2] \notin Clean!Counting THEN Clean!Refused
                    ELSE Clean!Zeros(Clean!Token(text, i).zeros) \o g[Clean!Token(text, i).next]
             ELSE IF text[i] \in Clean!Digits \cup {Letter} THEN <<text[i]>> \o g[i + 1]
             ELSE Clean!Refused]
           first == (CHOOSE g : P(g))[1]
           counted(i) == /\ i <= L /\ Clean!StartsToken(text, i)
                         /\ i + 2 <= L /\ text[i + 2] \in Clean!Counting
           plain(i) == i <= L /\ ~Clean!StartsToken(text, i) /\ text[i] \in Hex
           stop == {i \in D : ~counted(i) /\ ~plain(i)}
           end == [i \in D |-> IF i > L THEN <<>> ELSE Clean!Refused]
           take == [i \in D |-> IF counted(i) THEN Clean!Zeros(Clean!Token(text, i).zeros)
                                ELSE IF plain(i) THEN <<text[i]>> ELSE <<>>]
           nxt == [i \in D |-> IF counted(i) THEN Clean!Token(text, i).next ELSE i + 1]
<1>1. Clean!DecodeText(text) = IF Len(first) % Width # 0 THEN Clean!Refused ELSE first
  BY DEF Clean!DecodeText
<1>2. L \in Nat /\ \A i \in 1 .. L : text[i] \in CleanChars
  OBVIOUS
<1>3. ASSUME NEW i \in D, counted(i)
      PROVE  Clean!Token(text, i).zeros \in Nat /\ Clean!Token(text, i).next \in i + 1 .. L + 1
  <2>1. i \in 1 .. Len(text) /\ i + 2 <= Len(text) /\ text[i + 2] \in Clean!Counting
    BY <1>2, <1>3
  <2> QED BY <2>1, TokenEnds
<1>4. end \in [D -> Seq(CleanChars)]
  <2>1. Oh \in CleanChars
    BY CharsAre
  <2>2. <<Oh>> \in Seq(CleanChars) /\ <<>> \in Seq(CleanChars)
    BY <2>1
  <2> HIDE DEF D, L
  <2> QED BY <2>2 DEF Clean!Refused
<1>5. take \in [D -> Seq(CleanChars)]
  <2>1. ASSUME NEW i \in D PROVE take[i] \in Seq(CleanChars)
    <3>1. CASE counted(i)
      <4>1. Clean!Zeros(Clean!Token(text, i).zeros) \in Seq(CleanChars)
        <5>1. Clean!Token(text, i).zeros \in Nat
          BY <1>3, <3>1
        <5> QED BY <5>1, ZerosAre
      <4> HIDE DEF counted, plain, D
      <4> QED BY <3>1, <4>1
    <3>2. CASE ~counted(i) /\ plain(i)
      <4>1. take[i] = <<text[i]>>
        <5> HIDE DEF counted, plain, D
        <5> QED BY <3>2
      <4>2. text[i] \in CleanChars
        BY <1>2, <3>2
      <4> HIDE DEF take
      <4> QED BY <4>1, <4>2
    <3>3. CASE ~counted(i) /\ ~plain(i)
      <4>1. take[i] = <<>>
        <5> HIDE DEF counted, plain, D
        <5> QED BY <3>3
      <4> HIDE DEF take
      <4> QED BY <4>1
    <3> HIDE DEF take, counted, plain
    <3> QED BY <3>1, <3>2, <3>3
  <2>2. take = [i \in D |-> take[i]]
    BY Zenon
  <2> HIDE DEF take, D
  <2> QED BY <2>1, <2>2
<1>6. \A i \in D : i \notin stop => nxt[i] \in i + 1 .. L + 1
  <2> TAKE i \in D
  <2> SUFFICES ASSUME i \notin stop PROVE nxt[i] \in i + 1 .. L + 1
    OBVIOUS
  <2>1. CASE counted(i)
    <3>1. nxt[i] = Clean!Token(text, i).next
      <4> HIDE DEF counted, D
      <4> QED BY <2>1
    <3> HIDE DEF nxt, counted, stop
    <3> QED BY <1>3, <2>1, <3>1
  <2>2. CASE ~counted(i) /\ plain(i)
    <3>1. nxt[i] = i + 1
      <4> HIDE DEF counted, D
      <4> QED BY <2>2
    <3>2. i <= L
      BY <2>2
    <3> HIDE DEF nxt, counted, stop, plain
    <3> QED BY <1>2, <3>1, <3>2
  <2> HIDE DEF counted, plain, nxt, D
  <2> QED BY <2>1, <2>2
<1>7. ASSUME NEW g, NEW i \in D
      PROVE  Value(g, i) = IF i \in stop THEN end[i] ELSE take[i] \o g[nxt[i]]
  <2>1. CASE counted(i)
    <3>1. ~(i > Len(text)) /\ ~(i + 2 > Len(text))
      BY <1>2, <2>1
    <3>2. Value(g, i) = Clean!Zeros(Clean!Token(text, i).zeros) \o g[Clean!Token(text, i).next]
      BY <2>1, <3>1
    <3>3. i \notin stop /\ take[i] = Clean!Zeros(Clean!Token(text, i).zeros) /\ nxt[i] = Clean!Token(text, i).next
      <4> HIDE DEF counted, D
      <4> QED BY <2>1
    <3> HIDE DEF Value, stop, take, nxt, end
    <3> QED BY <3>2, <3>3
  <2>2. CASE ~counted(i) /\ plain(i)
    <3>1. ~(i > Len(text)) /\ text[i] \in Clean!Digits \cup {Letter} /\ ~Clean!StartsToken(text, i)
      BY <1>2, <2>2 DEF Hex
    <3>2. Value(g, i) = <<text[i]>> \o g[i + 1]
      BY <3>1
    <3>3. i \notin stop /\ take[i] = <<text[i]>> /\ nxt[i] = i + 1
      <4> HIDE DEF counted, plain, D
      <4> QED BY <2>2
    <3> HIDE DEF Value, stop, take, nxt, end
    <3> QED BY <3>2, <3>3
  <2>3. CASE ~counted(i) /\ ~plain(i)
    <3>1. i \in stop
      <4> HIDE DEF counted, plain, D
      <4> QED BY <2>3
    <3>2. Value(g, i) = end[i]
      <4>1. CASE i > L
        BY <4>1
      <4>2. CASE ~(i > L)
        <5>1. end[i] = Clean!Refused /\ i <= L
          BY <1>2, <4>2
        <5>2. CASE Clean!StartsToken(text, i)
          <6>1. i + 2 > L \/ text[i + 2] \notin Clean!Counting
            BY <1>2, <2>3, <5>1, <5>2
          <6> HIDE DEF end
          <6> QED BY <4>2, <5>1, <5>2, <6>1
        <5>3. CASE ~Clean!StartsToken(text, i)
          <6>1. text[i] \notin Clean!Digits \cup {Letter}
            BY <2>3, <5>1, <5>3 DEF Hex
          <6> HIDE DEF end
          <6> QED BY <4>2, <5>1, <5>3, <6>1
        <5> QED BY <5>2, <5>3
      <4> QED BY <4>1, <4>2
    <3> HIDE DEF Value, stop, take, nxt, end
    <3> QED BY <3>1, <3>2
  <2> HIDE DEF counted, plain, Value, stop, take, nxt, end
  <2> QED BY <2>1, <2>2, <2>3
<1> HIDE DEF stop, end, take, nxt, Value, counted, plain
<1>8. PICK r \in [D -> Seq(CleanChars)] : ReadsFrom(r, L, stop, end, take, nxt)
  <2> HIDE DEF L
  <2> QED BY <1>2, <1>4, <1>5, <1>6, ReadingExists
<1>9. P(r)
  <2>1. \A i \in D : r[i] = Value(r, i)
    BY <1>7, <1>8 DEF ReadsFrom
  <2>2. r = [i \in D |-> r[i]]
    BY <1>8
  <2>3. r = [i \in 1 .. Len(text) + 1 |-> Value(r, i)]
    BY <2>1, <2>2
  <2> QED BY <2>3, Zenon DEF Value
<1>10. PICK g : P(g) /\ first = g[1]
  BY <1>9
<1>11. \A i \in D : g[i] = Value(g, i)
  BY <1>10, Zenon DEF Value
<1> HIDE DEF P, first
<1>12. ReadsFrom(g, L, stop, end, take, nxt)
  BY <1>7, <1>11 DEF ReadsFrom
<1>13. \A i \in D : g[i] \in Seq(CleanChars)
  <2> HIDE DEF L
  <2> QED BY <1>2, <1>4, <1>5, <1>6, <1>12, ReadingExists
<1>14. g[L + 1] = <<>>
  <2>1. L + 1 \in D /\ L + 1 > Len(text)
    BY <1>2
  <2> QED BY <1>11, <2>1 DEF Value
<1>15. ASSUME NEW i \in 1 .. L
       PROVE  /\ text[i] \in Hex => g[i] = <<text[i]>> \o g[i + 1]
              /\ /\ Clean!StartsToken(text, i) /\ i + 2 <= L
                 /\ text[i + 2] \in Clean!Counting
                 => g[i] = Clean!Zeros(Clean!Token(text, i).zeros) \o g[Clean!Token(text, i).next]
  <2>1. i \in D /\ ~(i > Len(text))
    BY <1>2
  <2>2. g[i] = Value(g, i)
    BY <1>11, <2>1
  <2>3. ASSUME text[i] \in Hex PROVE g[i] = <<text[i]>> \o g[i + 1]
    <3>1. ~Clean!StartsToken(text, i)
      <4>1. text[i] # Oh
        BY <2>3, CharsAre
      <4> QED BY <4>1 DEF Clean!StartsToken
    <3>2. text[i] \in Clean!Digits \cup {Letter}
      BY <2>3 DEF Hex
    <3> QED BY <2>1, <2>2, <3>1, <3>2, Zenon DEF Value
  <2>4. ASSUME Clean!StartsToken(text, i), i + 2 <= L, text[i + 2] \in Clean!Counting
        PROVE  g[i] = Clean!Zeros(Clean!Token(text, i).zeros) \o g[Clean!Token(text, i).next]
    <3>1. ~(i + 2 > Len(text))
      BY <1>2, <2>4
    <3> QED BY <2>1, <2>2, <2>4, <3>1, Zenon DEF Value
  <2> QED BY <2>3, <2>4
<1> QED BY <1>1, <1>10, <1>13, <1>14, <1>15

\* A piece c of a text, behind its first p characters.
Stands(text, p, c) == p + Len(c) <= Len(text) /\ \A j \in 1 .. Len(c) : text[p + j] = c[j]

\* Every plus behind the first p characters has the beginning of its token there too.
Guarded(text, p) ==
  \A j \in p + 1 .. Len(text) : text[j] = Plus => \E k \in p + 1 .. j - 1 : text[k] = Oh
Closed(c) == \A j \in 1 .. Len(c) : c[j] = Plus => \E k \in 1 .. j - 1 : c[k] = Oh

\* g is what the decoder makes of the text from every place on.
CleanReading(g, text) ==
  /\ \A i \in 1 .. Len(text) + 1 : g[i] \in Seq(CleanChars)
  /\ \A i \in 1 .. Len(text) :
       /\ text[i] \in Hex => g[i] = <<text[i]>> \o g[i + 1]
       /\ /\ Clean!StartsToken(text, i) /\ i + 2 <= Len(text)
          /\ text[i + 2] \in Clean!Counting
          => g[i] = Clean!Zeros(Clean!Token(text, i).zeros) \o g[Clean!Token(text, i).next]

\* Behind its first p characters the decoder makes s of the text, and goes on behind e.
ReadsAs(g, p, s, e) == g[p + 1] = s \o g[e + 1]

\* The token of a run of n zeros, behind the first p characters.
Encoded(g, text, p, n, r, e) ==
  /\ text \in Seq(CleanChars) /\ CleanReading(g, text) /\ p \in Nat /\ n \in Nat /\ n > 0
  /\ r = Clean!EncodeZeroRun(n) /\ Stands(text, p, r) /\ e = p + Len(r) /\ Guarded(text, e)

\* Two pieces that stand one behind the other.
LEMMA PartsStand ==
  ASSUME NEW text \in Seq(CleanChars), NEW p \in Nat,
         NEW u \in Seq(CleanChars), NEW v \in Seq(CleanChars), Stands(text, p, u \o v)
  PROVE  Stands(text, p, u) /\ Stands(text, p + Len(u), v)
<1>1. PICK a, b, L, w : a = Len(u) /\ b = Len(v) /\ L = Len(text) /\ w = u \o v
  OBVIOUS
<1>2. a \in Nat /\ b \in Nat /\ L \in Nat
  BY <1>1
<1>3. Len(w) = a + b /\ \A j \in 1 .. a + b : w[j] = IF j <= a THEN u[j] ELSE v[j - a]
  <2>1. /\ Len(u \o v) = Len(u) + Len(v)
        /\ \A j \in 1 .. Len(u) + Len(v) : (u \o v)[j] = IF j <= Len(u) THEN u[j] ELSE v[j - Len(u)]
    BY ConcatProperties
  <2> QED BY <1>1, <2>1
<1>4. p + (a + b) <= L /\ \A j \in 1 .. a + b : text[p + j] = w[j]
  BY <1>1, <1>3 DEF Stands
<1>5. \A j \in 1 .. a : text[p + j] = u[j]
  <2> TAKE j \in 1 .. a
  <2>1. j \in 1 .. a + b /\ j <= a
    BY <1>2
  <2> QED BY <1>3, <1>4, <2>1
<1>6. \A j \in 1 .. b : text[(p + a) + j] = v[j]
  <2> TAKE j \in 1 .. b
  <2>1. PICK k : k = a + j
    OBVIOUS
  <2>2. k \in 1 .. a + b /\ ~(k <= a) /\ k - a = j /\ p + k = (p + a) + j
    BY <1>2, <2>1
  <2>3. text[p + k] = v[k - a]
    BY <1>3, <1>4, <2>2
  <2> QED BY <2>2, <2>3
<1>7. p + a <= L /\ (p + a) + b <= L
  BY <1>2, <1>4
<1> QED BY <1>1, <1>5, <1>6, <1>7 DEF Stands

\* A piece that begins its tokens itself does not disturb those behind it.
LEMMA GuardedBefore ==
  ASSUME NEW text \in Seq(CleanChars), NEW p \in Nat, NEW c \in Seq(CleanChars),
         Stands(text, p, c), Closed(c), Guarded(text, p + Len(c))
  PROVE  Guarded(text, p)
<1>1. PICK l, L : l = Len(c) /\ L = Len(text)
  OBVIOUS
<1>2. l \in Nat /\ L \in Nat /\ \A j \in 1 .. l : text[p + j] = c[j]
  BY <1>1 DEF Stands
<1>3. ASSUME NEW j \in p + 1 .. L, text[j] = Plus PROVE \E k \in p + 1 .. j - 1 : text[k] = Oh
  <2>1. CASE j <= p + l
    <3>1. PICK i : i = j - p
      OBVIOUS
    <3>2. i \in 1 .. l /\ j = p + i
      BY <1>2, <2>1, <3>1
    <3>3. c[i] = Plus
      BY <1>2, <1>3, <3>2
    <3>4. PICK k \in 1 .. i - 1 : c[k] = Oh
      BY <1>1, <3>2, <3>3 DEF Closed
    <3>5. k \in 1 .. l /\ p + k \in p + 1 .. j - 1
      BY <1>2, <3>2, <3>4
    <3> QED BY <1>2, <3>4, <3>5
  <2>2. CASE ~(j <= p + l)
    <3>1. j \in (p + l) + 1 .. L
      BY <1>2, <2>2
    <3>2. PICK k \in (p + l) + 1 .. j - 1 : text[k] = Oh
      BY <1>1, <1>3, <3>1 DEF Guarded
    <3>3. k \in p + 1 .. j - 1
      BY <1>2, <3>1, <3>2
    <3> QED BY <3>2, <3>3
  <2> QED BY <2>1, <2>2
<1> QED BY <1>1, <1>3 DEF Guarded

\* A run is read as its zeros, whatever begins behind it.
LEMMA RunReads ==
  ASSUME NEW g, NEW text, NEW p, NEW n, NEW r, NEW e, Encoded(g, text, p, n, r, e)
  PROVE  ReadsAs(g, p, Clean!Zeros(n), e)
<1>0. /\ text \in Seq(CleanChars) /\ CleanReading(g, text) /\ p \in Nat /\ n \in Nat /\ n > 0
      /\ r = Clean!EncodeZeroRun(n) /\ Stands(text, p, r) /\ e = p + Len(r) /\ Guarded(text, p + Len(r))
  BY DEF Encoded
<1> USE <1>0
<1>1. PICK i, L, l : i = p + 1 /\ L = Len(text) /\ l = Len(r)
  OBVIOUS
<1>2. /\ r \in Seq(CleanChars) /\ Len(r) >= 3 /\ r[1] = Oh /\ r[2] = 0
      /\ \/ n \in Clean!Counting /\ Len(r) = 3 /\ r[3] = n
         \/ \E d \in Seq(Clean!Counting) :
              /\ Clean!Total(d) = n /\ Len(d) > 1
              /\ Len(r) = Len(d) + 3 /\ r[Len(d) + 3] = Plus
              /\ \A j \in 1 .. Len(d) : r[2 + j] = d[j]
  <2>1. LET q == Clean!EncodeZeroRun(n) IN
        /\ q \in Seq(CleanChars) /\ Len(q) >= 3 /\ q[1] = Oh /\ q[2] = 0
        /\ \/ n \in Clean!Counting /\ Len(q) = 3 /\ q[3] = n
           \/ \E d \in Seq(Clean!Counting) :
                /\ Clean!Total(d) = n /\ Len(d) > 1
                /\ Len(q) = Len(d) + 3 /\ q[Len(d) + 3] = Plus
                /\ \A j \in 1 .. Len(d) : q[2 + j] = d[j]
    BY RunIs, Zenon
  <2> QED BY <2>1, Zenon
<1>3. l \in Nat /\ L \in Nat /\ l >= 3 /\ p + l <= L /\ \A j \in 1 .. l : text[p + j] = r[j]
  BY <1>1, <1>2 DEF Stands
<1>4. i \in 1 .. L /\ i + 2 <= L /\ i < L /\ p + 1 = i /\ p + 2 = i + 1 /\ p + 3 = i + 2
  BY <1>1, <1>3
<1>5. text[p + 1] = r[1] /\ text[p + 2] = r[2] /\ text[p + 3] = r[3]
  <2>1. 1 \in 1 .. l /\ 2 \in 1 .. l /\ 3 \in 1 .. l
    BY <1>3
  <2> QED BY <1>3, <2>1
<1>6. Clean!StartsToken(text, i)
  BY <1>1, <1>2, <1>4, <1>5 DEF Clean!StartsToken
<1>7. ASSUME text[i + 2] \in Clean!Counting,
             Clean!Token(text, i) = [zeros |-> n, next |-> (p + l) + 1]
      PROVE  ReadsAs(g, p, Clean!Zeros(n), e)
  <2>1. g[i] = Clean!Zeros(Clean!Token(text, i).zeros) \o g[Clean!Token(text, i).next]
    BY <1>1, <1>4, <1>6, <1>7 DEF CleanReading
  <2>2. Clean!Token(text, i).zeros = n /\ Clean!Token(text, i).next = (p + l) + 1
    BY <1>7
  <2> QED BY <1>1, <2>1, <2>2 DEF ReadsAs
<1>8. CASE n \in Clean!Counting /\ l = 3 /\ r[3] = n
  <2>1. text[i + 2] = n
    BY <1>4, <1>5, <1>8
  <2>2. \A j \in i + 3 .. L : text[j] = Plus => \E k \in i + 3 .. j - 1 : text[k] = Oh
    <3>1. Guarded(text, p + 3)
      BY <1>1, <1>8
    <3>2. \A j \in (p + 3) + 1 .. L : text[j] = Plus => \E k \in (p + 3) + 1 .. j - 1 : text[k] = Oh
      BY <1>1, <3>1 DEF Guarded
    <3>3. (p + 3) + 1 = i + 3
      BY <1>1
    <3> QED BY <3>2, <3>3
  <2>3. Clean!Token(text, i) = [zeros |-> text[i + 2], next |-> i + 3]
    BY <1>1, <1>4, <2>2, ShortToken
  <2>4. i + 3 = (p + l) + 1
    BY <1>1, <1>8
  <2> QED BY <1>7, <1>8, <2>1, <2>3, <2>4
<1>9. CASE \E d \in Seq(Clean!Counting) :
             /\ Clean!Total(d) = n /\ Len(d) > 1
             /\ Len(r) = Len(d) + 3 /\ r[Len(d) + 3] = Plus
             /\ \A j \in 1 .. Len(d) : r[2 + j] = d[j]
  <2>1. PICK d \in Seq(Clean!Counting) :
             /\ Clean!Total(d) = n /\ Len(d) > 1
             /\ Len(r) = Len(d) + 3 /\ r[Len(d) + 3] = Plus
             /\ \A j \in 1 .. Len(d) : r[2 + j] = d[j]
    BY <1>9
  <2>2. PICK m : m = Len(d)
    OBVIOUS
  <2>3. m \in Nat /\ m > 1 /\ l = m + 3 /\ r[m + 3] = Plus /\ \A j \in 1 .. m : r[2 + j] = d[j] /\ d[j] \in Clean!Counting
    BY <1>1, <2>1, <2>2
  <2>4. \A j \in 1 .. m : text[i + 1 + j] = d[j]
    <3> TAKE j \in 1 .. m
    <3>1. PICK k : k = 2 + j
      OBVIOUS
    <3>2. k \in 1 .. l
      BY <2>3, <3>1
    <3>3. p + k = i + 1 + j
      BY <1>1, <3>1
    <3>4. text[p + k] = r[k]
      BY <1>3, <3>2
    <3> QED BY <2>3, <3>1, <3>3, <3>4
  <2>5. text[i + 2 + m] = Plus
    <3>1. PICK k : k = m + 3
      OBVIOUS
    <3>2. k \in 1 .. l
      BY <2>3, <3>1
    <3>3. p + k = i + 2 + m
      BY <1>1, <2>3, <3>1
    <3>4. text[p + k] = r[k]
      BY <1>3, <3>2
    <3> QED BY <2>3, <3>1, <3>3, <3>4
  <2>6. i + 2 + m <= L
    BY <1>1, <1>3, <2>3
  <2>7. Clean!Token(text, i) = [zeros |-> Clean!Total(d), next |-> i + 3 + m]
    BY <1>1, <1>4, <2>1, <2>2, <2>3, <2>4, <2>5, <2>6, LongToken
  <2>8. i + 3 + m = (p + l) + 1
    BY <1>1, <2>3
  <2>9. text[i + 2] \in Clean!Counting
    <3>1. 1 \in 1 .. m /\ i + 1 + 1 = i + 2
      BY <1>4, <2>3
    <3> QED BY <2>3, <2>4, <3>1
  <2> QED BY <1>7, <2>1, <2>7, <2>8, <2>9
<1> QED BY <1>1, <1>2, <1>8, <1>9

\* Digits are read as they are.
LEMMA PlainReads ==
  ASSUME NEW text \in Seq(CleanChars), NEW g, CleanReading(g, text),
         NEW p \in Nat, NEW s \in Seq(Hex), Stands(text, p, s)
  PROVE  g[p + 1] = s \o g[(p + Len(s)) + 1]
<1>1. PICK l, L : l = Len(s) /\ L = Len(text)
  OBVIOUS
<1>2. /\ l \in Nat /\ L \in Nat /\ p + l <= L
      /\ \A j \in 1 .. l : text[p + j] = s[j] /\ s[j] \in Hex
  BY <1>1 DEF Stands
<1>3. \A k \in 0 .. l : g[(p + k) + 1] \in Seq(CleanChars)
  <2> TAKE k \in 0 .. l
  <2>1. (p + k) + 1 \in 1 .. L + 1
    BY <1>2
  <2> QED BY <1>1, <2>1 DEF CleanReading
<1>4. s \in Seq(CleanChars)
  <2>1. Hex \subseteq CleanChars
    BY CharsAre
  <2> QED BY <2>1, SeqMonotonic
<1> DEFINE Start(k) == SubSeq(s, 1, k)
           W == {k \in Nat : g[p + 1] = Start(k) \o g[(p + k) + 1]}
<1>5. \A k \in 0 .. l : Start(k) \in Seq(CleanChars)
  <2> TAKE k \in 0 .. l
  <2>1. 1 \in Int /\ k \in Int /\ \A j \in 1 .. k : s[j] \in CleanChars
    <3>1. Hex \subseteq CleanChars
      BY CharsAre
    <3> QED BY <1>2, <3>1
  <2> QED BY <2>1, SubSeqProperties
<1>6. 0 \in W
  <2>1. Start(0) = <<>>
    BY SubSeqEmpty
  <2>2. g[(p + 0) + 1] \in Seq(CleanChars) /\ (p + 0) + 1 = p + 1
    <3>1. 0 \in 0 .. l /\ (p + 0) + 1 = p + 1
      BY <1>2
    <3>2. g[(p + 0) + 1] \in Seq(CleanChars)
      BY <1>3, <3>1
    <3> QED BY <3>1, <3>2
  <2>3. <<>> \o g[p + 1] = g[p + 1]
    BY <2>2, ConcatEmptySeq
  <2> HIDE DEF Start
  <2> QED BY <2>1, <2>2, <2>3
<1>7. ASSUME NEW m \in 0 .. l - 1, m \in W PROVE m + 1 \in W
  <2>1. PICK k : k = m + 1
    OBVIOUS
  <2>2. k \in 1 .. l /\ k - 1 = m /\ k \in Nat /\ m \in 0 .. l /\ k \in 0 .. l
    BY <1>2, <2>1
  <2>3. g[p + 1] = Start(m) \o g[(p + m) + 1]
    <3> HIDE DEF Start
    <3> QED BY <1>7
  <2>4. PICK i : i = p + k
    OBVIOUS
  <2>5. i \in 1 .. L /\ (p + m) + 1 = i /\ i + 1 = (p + k) + 1
    BY <1>2, <2>1, <2>2, <2>4
  <2>6. text[i] = s[k] /\ s[k] \in Hex
    BY <1>2, <2>2, <2>4
  <2>7. g[i] = <<s[k]>> \o g[i + 1]
    BY <1>1, <2>5, <2>6 DEF CleanReading
  <2>8. Start(k) = Start(m) \o <<s[k]>>
    <3>1. 1 \in 1 .. Len(s) /\ k \in 1 .. Len(s)
      BY <1>1, <1>2, <2>2
    <3> QED BY <2>2, <3>1, SubSeqRecursiveSecond
  <2>9. PICK a, one, c : a = Start(m) /\ one = <<s[k]>> /\ c = g[i + 1]
    OBVIOUS
  <2>10. a \in Seq(CleanChars) /\ one \in Seq(CleanChars) /\ c \in Seq(CleanChars)
    <3>1. a \in Seq(CleanChars)
      BY <1>5, <2>2, <2>9
    <3>2. s[k] \in CleanChars
      BY <2>6, CharsAre
    <3>3. <<s[k]>> \in Seq(CleanChars)
      BY <3>2
    <3>4. c \in Seq(CleanChars)
      BY <1>3, <2>2, <2>5, <2>9
    <3> QED BY <2>9, <3>1, <3>3, <3>4
  <2> HIDE DEF Start
  <2>11. (a \o one) \o c = a \o (one \o c)
    BY <2>10, ConcatAssociative, SMTT(30)
  <2>12. g[p + 1] = Start(k) \o g[(p + k) + 1]
    BY <2>3, <2>5, <2>7, <2>8, <2>9, <2>11
  <2> QED BY <2>1, <2>2, <2>12
<1> HIDE DEF W
<1>8. l \in W
  <2>1. \A k \in 0 .. l : k \in W
    BY <1>2, <1>6, <1>7, InductionTo
  <2> QED BY <1>2, <2>1
<1>9. g[p + 1] = Start(l) \o g[(p + l) + 1]
  BY <1>8 DEF W
<1>10. Start(l) = s
  BY <1>1, SubSeqFull
<1> HIDE DEF Start
<1> QED BY <1>1, <1>9, <1>10

\* A run, or nothing when there is no zero.
Run(n) == IF n > 0 THEN Clean!EncodeZeroRun(n) ELSE <<>>

\* A hash is zeros, digits and zeros, and so it is written.
LEMMA HashIs ==
  ASSUME NEW h \in [1 .. Width -> Hex]
  PROVE  \E a \in Nat, b \in Nat, mid \in Seq(Hex) :
           /\ Clean!CleanHash(h) = (Run(a) \o mid) \o Run(b)
           /\ h = (Clean!Zeros(a) \o mid) \o Clean!Zeros(b)
<1> DEFINE nonzero == {i \in DOMAIN h : h[i] # 0}
           first == CHOOSE i \in nonzero : \A j \in nonzero : i <= j
           last == CHOOSE i \in nonzero : \A j \in nonzero : j <= i
<1>1. Width \in Nat /\ Width > 0 /\ DOMAIN h = 1 .. Width /\ h \in Seq(Hex) /\ Len(h) = Width
      /\ \A i \in 1 .. Width : h[i] \in Hex
  BY CharsAre
<1>2. Clean!CleanHash(h) = IF nonzero = {} THEN Clean!EncodeZeroRun(Len(h))
                           ELSE Run(first - 1) \o SubSeq(h, first, last) \o Run(Len(h) - last)
  BY Zenon DEF Clean!CleanHash, Run
<1>3. Clean!Zeros(0) = <<>> /\ Run(0) = <<>>
  <2>1. Clean!Zeros(0) \in Seq(Hex) /\ Len(Clean!Zeros(0)) = 0
    BY ZerosAre
  <2> QED BY <2>1, EmptySeq DEF Run
<1>4. CASE nonzero = {}
  <2>1. \A i \in 1 .. Width : h[i] = 0
    BY <1>1, <1>4
  <2>2. h = Clean!Zeros(Width)
    <3>1. PICK z : z = Clean!Zeros(Width)
      OBVIOUS
    <3>2. z \in Seq(Hex) /\ Len(z) = Width /\ \A i \in 1 .. Width : z[i] = 0
      BY <1>1, <3>1, ZerosAre
    <3>3. \A i \in 1 .. Len(h) : h[i] = z[i]
      BY <1>1, <2>1, <3>2
    <3> QED BY <1>1, <3>1, <3>2, <3>3, SeqEqual
  <2>3. PICK r, mid : r = Clean!EncodeZeroRun(Width) /\ mid = <<>>
    OBVIOUS
  <2>4. r = Run(Width) /\ Clean!CleanHash(h) = r
    BY <1>1, <1>2, <1>4, <2>3 DEF Run
  <2>5. r \in Seq(CleanChars)
    <3>1. LET q == Clean!EncodeZeroRun(Width) IN q \in Seq(CleanChars)
      BY <1>1, RunIs
    <3> QED BY <2>3, <3>1
  <2>6. (Run(Width) \o mid) \o Run(0) = r
    <3>1. r \o <<>> = r
      BY <2>5, ConcatEmptySeq
    <3> QED BY <1>3, <2>3, <2>4, <3>1
  <2>7. (Clean!Zeros(Width) \o mid) \o Clean!Zeros(0) = h
    <3>1. h \o <<>> = h
      BY <1>1, ConcatEmptySeq
    <3> QED BY <1>3, <2>2, <2>3, <3>1
  <2>8. mid \in Seq(Hex) /\ Width \in Nat /\ 0 \in Nat
    BY <1>1, <2>3
  <2> HIDE DEF nonzero, first, last
  <2> QED BY <2>4, <2>6, <2>7, <2>8, Zenon
<1>5. CASE nonzero # {}
  <2>1. \E i \in nonzero : \A j \in nonzero : i <= j
    <3>1. nonzero \subseteq Nat
      BY <1>1
    <3> HIDE DEF nonzero
    <3> QED BY <1>5, <3>1, LeastNat
  <2>2. \E i \in nonzero : \A j \in nonzero : j <= i
    <3>1. nonzero \in SUBSET (1 .. Width)
      BY <1>1
    <3>2. Max(nonzero) \in nonzero /\ \A y \in nonzero : y <= Max(nonzero)
      <4> HIDE DEF nonzero
      <4> QED BY <1>1, <1>5, <3>1, GreatestIs
    <3> HIDE DEF nonzero
    <3> QED BY <3>2
  <2>3. first \in nonzero /\ \A j \in nonzero : first <= j
    <3> HIDE DEF nonzero
    <3> QED BY <2>1, Zenon
  <2>4. last \in nonzero /\ \A j \in nonzero : j <= last
    <3> HIDE DEF nonzero
    <3> QED BY <2>2, Zenon
  <2>5. PICK p, q, a, b, mid : p = first /\ q = last /\ a = p - 1 /\ b = Width - q /\ mid = SubSeq(h, p, q)
    OBVIOUS
  <2> HIDE DEF first, last
  <2>6. /\ p \in 1 .. Width /\ q \in 1 .. Width /\ p <= q
        /\ \A j \in 1 .. Width : h[j] # 0 => p <= j /\ j <= q
    BY <1>1, <2>3, <2>4, <2>5
  <2>7. a \in Nat /\ b \in Nat /\ a + (q - p + 1) + b = Width /\ a + 1 = p
    BY <1>1, <2>5, <2>6
  <2>8. mid \in Seq(Hex) /\ Len(mid) = q - p + 1 /\ \A j \in 1 .. q - p + 1 : mid[j] = h[p + j - 1]
    <3>1. p \in Int /\ q \in Int /\ \A j \in p .. q : h[j] \in Hex
      BY <1>1, <2>6
    <3>2. /\ SubSeq(h, p, q) \in Seq(Hex) /\ Len(SubSeq(h, p, q)) = IF p <= q THEN q - p + 1 ELSE 0
          /\ \A j \in 1 .. q - p + 1 : SubSeq(h, p, q)[j] = h[p + j - 1]
      BY <3>1, SubSeqProperties
    <3> QED BY <2>5, <2>6, <3>2
  <2>9. Clean!CleanHash(h) = (Run(a) \o mid) \o Run(b)
    BY <1>1, <1>2, <1>5, <2>5
  <2>10. PICK x, y, u, w : x = Clean!Zeros(a) /\ y = Clean!Zeros(b) /\ u = x \o mid /\ w = u \o y
    OBVIOUS
  <2>11. /\ x \in Seq(Hex) /\ Len(x) = a /\ \A i \in 1 .. a : x[i] = 0
         /\ y \in Seq(Hex) /\ Len(y) = b /\ \A i \in 1 .. b : y[i] = 0
    BY <2>7, <2>10, ZerosAre
  <2>12. PICK m : m = q - p + 1 /\ m \in Nat
    BY <2>6
  <2>13. /\ u \in Seq(Hex) /\ Len(u) = a + m
         /\ \A i \in 1 .. a + m : u[i] = IF i <= a THEN x[i] ELSE mid[i - a]
    <3>1. /\ x \o mid \in Seq(Hex) /\ Len(x \o mid) = Len(x) + Len(mid)
          /\ \A i \in 1 .. Len(x) + Len(mid) : (x \o mid)[i] = IF i <= Len(x) THEN x[i] ELSE mid[i - Len(x)]
      BY <2>8, <2>11, ConcatProperties
    <3> QED BY <2>8, <2>10, <2>11, <2>12, <3>1
  <2>14. /\ w \in Seq(Hex) /\ Len(w) = Width
         /\ \A i \in 1 .. Width : w[i] = IF i <= a + m THEN u[i] ELSE y[i - (a + m)]
    <3>1. /\ u \o y \in Seq(Hex) /\ Len(u \o y) = Len(u) + Len(y)
          /\ \A i \in 1 .. Len(u) + Len(y) : (u \o y)[i] = IF i <= Len(u) THEN u[i] ELSE y[i - Len(u)]
      BY <2>11, <2>13, ConcatProperties, ZenonT(40)
    <3>2. Len(u) + Len(y) = Width
      BY <2>7, <2>11, <2>12, <2>13
    <3> QED BY <2>10, <2>13, <3>1, <3>2
  <2>15. \A i \in 1 .. Len(h) : h[i] = w[i]
    <3> TAKE i \in 1 .. Len(h)
    <3>1. i \in 1 .. Width
      BY <1>1
    <3>2. CASE i < p
      <4>1. h[i] = 0
        BY <2>6, <3>1, <3>2
      <4>2. i \in 1 .. a /\ i \in 1 .. a + m /\ i <= a /\ i <= a + m
        BY <2>7, <2>12, <3>1, <3>2
      <4> QED BY <2>11, <2>13, <2>14, <3>1, <4>1, <4>2
    <3>3. CASE i > q
      <4>1. h[i] = 0
        BY <2>6, <3>1, <3>3
      <4>2. PICK k : k = i - (a + m)
        OBVIOUS
      <4>3. k \in 1 .. b /\ ~(i <= a + m)
        BY <2>6, <2>7, <2>12, <3>1, <3>3, <4>2
      <4> QED BY <2>11, <2>14, <3>1, <4>1, <4>2, <4>3
    <3>4. CASE p <= i /\ i <= q
      <4>1. PICK k : k = i - a
        OBVIOUS
      <4>2. k \in 1 .. q - p + 1 /\ ~(i <= a) /\ i <= a + m /\ i \in 1 .. a + m /\ p + k - 1 = i
        BY <2>6, <2>7, <2>12, <3>1, <3>4, <4>1
      <4> QED BY <2>8, <2>13, <2>14, <3>1, <4>1, <4>2
    <3>5. i \in Int /\ p \in Int /\ q \in Int
      BY <2>6, <3>1
    <3> QED BY <3>2, <3>3, <3>4, <3>5
  <2>16. h = w
    BY <1>1, <2>14, <2>15, SeqEqual
  <2>17. h = (Clean!Zeros(a) \o mid) \o Clean!Zeros(b)
    BY <2>10, <2>16
  <2> HIDE DEF nonzero
  <2> QED BY <2>7, <2>8, <2>9, <2>17
<1> QED BY <1>4, <1>5

\* What a run's length of zeros becomes is a piece of its own, and is read back.
LEMMA RunStands ==
  ASSUME NEW n \in Nat
  PROVE  Run(n) \in Seq(CleanChars) /\ Closed(Run(n))
<1>1. CASE n > 0
  <2>1. PICK r : r = Run(n)
    OBVIOUS
  <2>2. r = Clean!EncodeZeroRun(n)
    BY <1>1, <2>1 DEF Run
  <2>3. /\ r \in Seq(CleanChars) /\ Len(r) >= 3 /\ r[1] = Oh
        /\ \/ n \in Clean!Counting /\ Len(r) = 3 /\ r[3] = n
           \/ \E d \in Seq(Clean!Counting) :
                /\ Clean!Total(d) = n /\ Len(d) > 1
                /\ Len(r) = Len(d) + 3 /\ r[Len(d) + 3] = Plus
                /\ \A j \in 1 .. Len(d) : r[2 + j] = d[j]
    <3>1. LET q == Clean!EncodeZeroRun(n) IN
          /\ q \in Seq(CleanChars) /\ Len(q) >= 3 /\ q[1] = Oh /\ q[2] = 0
          /\ \/ n \in Clean!Counting /\ Len(q) = 3 /\ q[3] = n
             \/ \E d \in Seq(Clean!Counting) :
                  /\ Clean!Total(d) = n /\ Len(d) > 1
                  /\ Len(q) = Len(d) + 3 /\ q[Len(d) + 3] = Plus
                  /\ \A j \in 1 .. Len(d) : q[2 + j] = d[j]
      BY <1>1, RunIs, Zenon
    <3> QED BY <2>2, <3>1, Zenon
  <2>4. ASSUME NEW j \in 1 .. Len(r), r[j] = Plus PROVE \E k \in 1 .. j - 1 : r[k] = Oh
    <3>1. Len(r) \in Nat
      BY <2>3
    <3>2. j # 1
      BY <2>3, <2>4, CharsAre
    <3>3. 1 \in 1 .. j - 1
      BY <3>1, <3>2
    <3> QED BY <2>3, <3>3
  <2> QED BY <2>1, <2>3, <2>4 DEF Closed
<1>2. CASE ~(n > 0)
  <2>1. Run(n) = <<>>
    BY <1>2 DEF Run
  <2>2. PICK r : r = <<>>
    OBVIOUS
  <2>3. r \in Seq(CleanChars) /\ Len(r) = 0
    BY <2>2
  <2> QED BY <2>1, <2>2, <2>3 DEF Closed
<1> QED BY <1>1, <1>2

\* A run, or nothing, that stands in a text up to its e-th character.
RunAt(text, q, n, r, e) ==
  /\ n \in Nat /\ r = Run(n) /\ r \in Seq(CleanChars) /\ q \in Nat
  /\ e = q + Len(r) /\ e <= Len(text) /\ Stands(text, q, r) /\ Guarded(text, e)

\* The characters of a hash, behind the first p of a text.
HashAt(g, text, p, h, c, e) ==
  /\ text \in Seq(CleanChars) /\ CleanReading(g, text)
  /\ p \in Nat /\ h \in [1 .. Width -> Hex] /\ c = Clean!CleanHash(h) /\ c \in Seq(CleanChars)
  /\ Stands(text, p, c) /\ e = p + Len(c) /\ Guarded(text, e)

\* Four sequences, joined from either end.
FromEitherEnd(a, b, c, d) == ((a \o b) \o c) \o d = a \o (b \o (c \o d))

\* The order in which sequences are joined does not matter.
LEMMA FourParts ==
  ASSUME NEW a \in Seq(CleanChars), NEW b \in Seq(CleanChars),
         NEW c \in Seq(CleanChars), NEW d \in Seq(CleanChars)
  PROVE  FromEitherEnd(a, b, c, d)
<1>1. PICK u, v : u = a \o b /\ v = c \o d
  OBVIOUS
<1>2. u \in Seq(CleanChars) /\ v \in Seq(CleanChars)
  <2>1. a \o b \in Seq(CleanChars) /\ c \o d \in Seq(CleanChars)
    BY ConcatProperties
  <2> QED BY <1>1, <2>1
<1>3. (u \o c) \o d = u \o (c \o d)
  BY <1>2, ConcatAssociative, SMTT(30)
<1>4. v \in Seq(CleanChars)
  BY <1>2
<1>5. (a \o b) \o v = a \o (b \o v)
  BY <1>4, ConcatAssociative, SMTT(30)
<1> QED BY <1>1, <1>3, <1>5, Zenon DEF FromEitherEnd

\* A hash is read as its digits, whatever begins behind it.
LEMMA HashReads ==
  ASSUME NEW g, NEW text, NEW p, NEW h, NEW c, NEW e, HashAt(g, text, p, h, c, e)
  PROVE  Guarded(text, p) /\ ReadsAs(g, p, h, e)
<1>0. /\ text \in Seq(CleanChars) /\ CleanReading(g, text)
      /\ p \in Nat /\ h \in [1 .. Width -> Hex] /\ c = Clean!CleanHash(h) /\ c \in Seq(CleanChars)
      /\ Stands(text, p, c) /\ e = p + Len(c) /\ Guarded(text, p + Len(c))
  BY DEF HashAt
<1> USE <1>0
<1>1. PICK a \in Nat, b \in Nat, mid \in Seq(Hex) :
           /\ Clean!CleanHash(h) = (Run(a) \o mid) \o Run(b)
           /\ h = (Clean!Zeros(a) \o mid) \o Clean!Zeros(b)
  BY HashIs
<1>2. PICK x, y, w : x = Run(a) /\ y = Run(b) /\ w = x \o mid
  OBVIOUS
<1>3. PICK L, p1, p2, p3 : L = Len(text) /\ p1 = p + Len(x) /\ p2 = p + Len(w) /\ p3 = p + Len(c)
  OBVIOUS
<1>4. x \in Seq(CleanChars) /\ Closed(x) /\ y \in Seq(CleanChars) /\ Closed(y)
  BY <1>1, <1>2, RunStands
<1>5. mid \in Seq(CleanChars) /\ mid \in Seq(Hex)
  <2>1. Hex \subseteq CleanChars
    BY CharsAre
  <2> QED BY <1>1, <2>1, SeqMonotonic
<1>6. Closed(mid)
  <2>1. \A j \in 1 .. Len(mid) : mid[j] \in Hex
    BY <1>5
  <2> QED BY <2>1, CharsAre DEF Closed
<1>7. w \in Seq(CleanChars) /\ Len(w) = Len(x) + Len(mid)
  BY <1>2, <1>4, <1>5, ConcatProperties
<1>8. c = w \o y /\ Len(c) = Len(w) + Len(y)
  <2>1. Len(w \o y) = Len(w) + Len(y)
    BY <1>4, <1>7, ConcatProperties
  <2> QED BY <1>1, <1>2, <2>1
<1>9. /\ p1 \in Nat /\ p2 \in Nat /\ p3 \in Nat /\ p2 = p1 + Len(mid) /\ p3 = p2 + Len(y)
      /\ Len(x) \in Nat /\ Len(mid) \in Nat /\ Len(y) \in Nat /\ L \in Nat
  BY <1>3, <1>4, <1>5, <1>7, <1>8, SMTT(30)
<1>10. Stands(text, p, w) /\ Stands(text, p2, y)
  <2>1. Stands(text, p, w) /\ Stands(text, p + Len(w), y)
    BY <1>4, <1>7, <1>8, PartsStand
  <2> QED BY <1>3, <2>1
<1>11. Stands(text, p, x) /\ Stands(text, p1, mid)
  <2>1. Stands(text, p, x) /\ Stands(text, p + Len(x), mid)
    BY <1>2, <1>4, <1>5, <1>10, PartsStand
  <2> QED BY <1>3, <2>1
<1>12. p3 <= L
  BY <1>3 DEF Stands
<1>13. Guarded(text, p3)
  BY <1>3
<1>14. Guarded(text, p2)
  <2>1. Guarded(text, p2 + Len(y))
    BY <1>9, <1>13
  <2> QED BY <1>4, <1>9, <1>10, <2>1, GuardedBefore
<1>15. Guarded(text, p1)
  <2>1. Guarded(text, p1 + Len(mid))
    BY <1>9, <1>14
  <2> QED BY <1>5, <1>6, <1>9, <1>11, <2>1, GuardedBefore
<1>16. Guarded(text, p)
  <2>1. Guarded(text, p + Len(x))
    BY <1>3, <1>15
  <2> QED BY <1>4, <1>11, <2>1, GuardedBefore
<1>17. ASSUME NEW n, NEW r, NEW q, NEW e2, RunAt(text, q, n, r, e2)
       PROVE  ReadsAs(g, q, Clean!Zeros(n), e2)
  <2>0. /\ n \in Nat /\ r = Run(n) /\ r \in Seq(CleanChars) /\ q \in Nat
        /\ e2 = q + Len(r) /\ e2 <= L /\ Stands(text, q, r) /\ Guarded(text, e2)
    BY <1>3, <1>17 DEF RunAt
  <2>1. CASE n > 0
    <3>1. r = Clean!EncodeZeroRun(n)
      BY <2>0, <2>1 DEF Run
    <3>3. Encoded(g, text, q, n, r, e2)
      BY <1>0, <2>0, <2>1, <3>1, Zenon DEF Encoded
    <3> QED BY <3>3, RunReads, Zenon
  <2>2. CASE ~(n > 0)
    <3>1. n = 0 /\ r = <<>>
      BY <2>0, <2>2 DEF Run
    <3>2. Len(r) = 0 /\ e2 = q
      BY <2>0, <3>1
    <3>3. Clean!Zeros(n) \in Seq(CleanChars) /\ Len(Clean!Zeros(n)) = 0
      BY <3>1, ZerosAre
    <3>4. Clean!Zeros(n) = <<>>
      BY <3>3, EmptySeq
    <3>5. e2 + 1 \in 1 .. L + 1
      BY <1>9, <2>0, <3>2
    <3>6. g[e2 + 1] \in Seq(CleanChars)
      BY <1>3, <3>5 DEF CleanReading
    <3>7. <<>> \o g[e2 + 1] = g[e2 + 1]
      BY <3>6, ConcatEmptySeq
    <3> QED BY <3>2, <3>4, <3>7 DEF ReadsAs
  <2> QED BY <2>1, <2>2
<1>18. PICK za, zb, r0, r1, r2, r3 : /\ za = Clean!Zeros(a) /\ zb = Clean!Zeros(b)
                                     /\ r0 = g[p + 1] /\ r1 = g[p1 + 1] /\ r2 = g[p2 + 1] /\ r3 = g[p3 + 1]
  OBVIOUS
<1>19. r0 = za \o r1
  <2>1. p1 <= L
    BY <1>9, <1>12
  <2>2. RunAt(text, p, a, x, p1)
    BY <1>1, <1>2, <1>3, <1>4, <1>11, <1>15, <2>1, Zenon DEF RunAt
  <2>3. ReadsAs(g, p, Clean!Zeros(a), p1)
    BY <1>17, <2>2, Zenon
  <2> QED BY <1>18, <2>3, Zenon DEF ReadsAs
<1>20. r1 = mid \o r2
  <2>1. g[p1 + 1] = mid \o g[(p1 + Len(mid)) + 1]
    BY <1>5, <1>9, <1>11, PlainReads, SMTT(30)
  <2> QED BY <1>9, <1>18, <2>1
<1>21. r2 = zb \o r3
  <2>1. RunAt(text, p2, b, y, p3)
    BY <1>1, <1>2, <1>3, <1>4, <1>9, <1>10, <1>12, <1>13, Zenon DEF RunAt
  <2>2. ReadsAs(g, p2, Clean!Zeros(b), p3)
    BY <1>17, <2>1, Zenon
  <2> QED BY <1>18, <2>2, Zenon DEF ReadsAs
<1>22. r3 \in Seq(CleanChars)
  <2>1. p3 + 1 \in 1 .. L + 1
    BY <1>9, <1>12
  <2> QED BY <1>3, <1>18, <2>1 DEF CleanReading
<1>23. za \in Seq(CleanChars) /\ zb \in Seq(CleanChars)
  BY <1>1, <1>18, ZerosAre
<1>24. FromEitherEnd(za, mid, zb, r3)
  <2>1. /\ za \in Seq(CleanChars) /\ zb \in Seq(CleanChars)
        /\ mid \in Seq(CleanChars) /\ r3 \in Seq(CleanChars)
    BY <1>5, <1>22, <1>23, SMTT(30)
  <2> QED BY <2>1, FourParts, Zenon
<1>25. r0 = h \o r3
  BY <1>1, <1>18, <1>19, <1>20, <1>21, <1>24 DEF FromEitherEnd
<1> QED BY <1>3, <1>16, <1>18, <1>25 DEF ReadsAs

\* As many digits as whole hashes make.
LEMMA WholeHashes ==
  ASSUME NEW n \in Nat
  PROVE  (n * Width) % Width = 0
<1>1. Width \in Nat /\ Width > 0
  BY CharsAre
<1>2. PICK x, q, r : x = n * Width /\ q = x \div Width /\ r = x % Width
  OBVIOUS
<1>3. x \in Nat /\ q \in Int /\ r \in 0 .. Width - 1 /\ x = Width * q + r
  BY <1>1, <1>2
<1>4. Width * (n - q) = r /\ n - q \in Int
  BY <1>1, <1>2, <1>3
<1>5. PICK e : e = n - q
  OBVIOUS
<1>6. e \in Int /\ Width * e = r
  BY <1>4, <1>5
<1>7. e > 0 => Width * e >= Width
  BY <1>1, <1>6
<1>8. e < 0 => Width * e < 0
  BY <1>1, <1>6
<1>9. e = 0
  BY <1>1, <1>3, <1>6, <1>7, <1>8
<1>10. r = 0
  BY <1>1, <1>6, <1>9
<1> QED BY <1>2, <1>10

\* The stream of any corpus decodes to its hashes' digits.
LEMMA CorpusReturns ==
  ASSUME NEW hashes \in Seq([1 .. Width -> Hex])
  PROVE  Clean!StreamReturns(hashes)
<1>1. PICK n : n = Len(hashes) /\ n \in Nat /\ DOMAIN hashes = 1 .. n /\ \A k \in 1 .. n : hashes[k] \in [1 .. Width -> Hex]
  OBVIOUS
<1>2. PICK codes : codes = [i \in 1 .. n |-> Clean!CleanHash(hashes[i])]
  OBVIOUS
<1>3. \A k \in 1 .. n : Clean!CleanHash(hashes[k]) \in Seq(CleanChars)
  <2> TAKE k \in 1 .. n
  <2>1. PICK a \in Nat, b \in Nat, mid \in Seq(Hex) : Clean!CleanHash(hashes[k]) = (Run(a) \o mid) \o Run(b)
    BY <1>1, HashIs
  <2>2. mid \in Seq(CleanChars)
    <3>1. Hex \subseteq CleanChars
      BY CharsAre
    <3> QED BY <2>1, <3>1, SeqMonotonic
  <2>3. PICK x, y : x = Run(a) /\ y = Run(b)
    OBVIOUS
  <2>4. x \in Seq(CleanChars) /\ y \in Seq(CleanChars)
    BY <2>1, <2>3, RunStands
  <2>5. PICK w : w = x \o mid
    OBVIOUS
  <2>6. w \in Seq(CleanChars)
    BY <2>2, <2>4, <2>5, ConcatProperties
  <2>7. w \o y \in Seq(CleanChars)
    BY <2>4, <2>6, ConcatProperties
  <2> QED BY <2>1, <2>3, <2>5, <2>7
<1>4. codes \in Seq(Seq(CleanChars)) /\ Len(codes) = n /\ \A k \in 1 .. n : codes[k] = Clean!CleanHash(hashes[k])
  BY <1>1, <1>2, <1>3
<1>5. PICK text : text = FlattenSeq(codes)
  OBVIOUS
<1>6. text = Clean!CleanText(hashes)
  <2>1. Clean!FlattenSeq(codes) = FlattenSeq(codes)
    BY DEF Clean!FlattenSeq, FlattenSeq
  <2> QED BY <1>1, <1>2, <1>5, <2>1 DEF Clean!CleanText
<1>7. /\ text \in Seq(CleanChars)
      /\ \E at : /\ at[0] = 0 /\ at[n] = Len(text)
                 /\ \A k \in 0 .. n : at[k] \in Nat /\ at[k] <= at[n]
                 /\ \A k \in 1 .. n : at[k] = at[k - 1] + Len(codes[k])
                 /\ \A k \in 1 .. n : \A j \in 1 .. Len(codes[k]) :
                      text[at[k - 1] + j] = codes[k][j]
  <2>1. /\ FlattenSeq(codes) \in Seq(CleanChars)
        /\ \E at : /\ at[0] = 0 /\ at[Len(codes)] = Len(FlattenSeq(codes))
                   /\ \A k \in 0 .. Len(codes) : at[k] \in Nat /\ at[k] <= at[Len(codes)]
                   /\ \A k \in 1 .. Len(codes) : at[k] = at[k - 1] + Len(codes[k])
                   /\ \A k \in 1 .. Len(codes) : \A j \in 1 .. Len(codes[k]) :
                        FlattenSeq(codes)[at[k - 1] + j] = codes[k][j]
    BY <1>4, FlatIs, ZenonT(40)
  <2>2. PICK at : /\ at[0] = 0 /\ at[Len(codes)] = Len(FlattenSeq(codes))
                  /\ \A k \in 0 .. Len(codes) : at[k] \in Nat /\ at[k] <= at[Len(codes)]
                  /\ \A k \in 1 .. Len(codes) : at[k] = at[k - 1] + Len(codes[k])
                  /\ \A k \in 1 .. Len(codes) : \A j \in 1 .. Len(codes[k]) :
                       FlattenSeq(codes)[at[k - 1] + j] = codes[k][j]
    BY <2>1
  <2>3. Len(codes) = n
    BY <1>4
  <2>4. at[0] = 0 /\ at[n] = Len(text)
    BY <1>5, <2>2, <2>3
  <2>5. \A k \in 0 .. n : at[k] \in Nat /\ at[k] <= at[n]
    BY <2>2, <2>3
  <2>6. \A k \in 1 .. n : at[k] = at[k - 1] + Len(codes[k])
    BY <2>2, <2>3
  <2>7. \A k \in 1 .. n : \A j \in 1 .. Len(codes[k]) : text[at[k - 1] + j] = codes[k][j]
    BY <1>5, <2>2, <2>3
  <2>8. text \in Seq(CleanChars)
    BY <1>5, <2>1
  <2> QED BY <2>4, <2>5, <2>6, <2>7, <2>8, ZenonT(40)
<1>8. PICK at : /\ at[0] = 0 /\ at[n] = Len(text)
                /\ \A k \in 0 .. n : at[k] \in Nat /\ at[k] <= at[n]
                /\ \A k \in 1 .. n : at[k] = at[k - 1] + Len(codes[k])
                /\ \A k \in 1 .. n : \A j \in 1 .. Len(codes[k]) :
                     text[at[k - 1] + j] = codes[k][j]
  BY <1>7
<1>9. PICK g : /\ Clean!DecodeText(text) = IF Len(g[1]) % Width # 0 THEN Clean!Refused ELSE g[1]
               /\ g[Len(text) + 1] = <<>>
               /\ CleanReading(g, text)
  <2>1. PICK g : /\ Clean!DecodeText(text) = IF Len(g[1]) % Width # 0 THEN Clean!Refused ELSE g[1]
                 /\ g[Len(text) + 1] = <<>>
                 /\ \A i \in 1 .. Len(text) + 1 : g[i] \in Seq(CleanChars)
                 /\ \A i \in 1 .. Len(text) :
                      /\ text[i] \in Hex => g[i] = <<text[i]>> \o g[i + 1]
                      /\ /\ Clean!StartsToken(text, i) /\ i + 2 <= Len(text)
                         /\ text[i + 2] \in Clean!Counting
                         => g[i] = Clean!Zeros(Clean!Token(text, i).zeros) \o g[Clean!Token(text, i).next]
    BY <1>7, CleanDecodedIs, Zenon
  <2> QED BY <2>1, Zenon DEF CleanReading
<1>10. ASSUME NEW k \in 1 .. n, Guarded(text, at[k])
       PROVE  Guarded(text, at[k - 1]) /\ g[at[k - 1] + 1] = hashes[k] \o g[at[k] + 1]
  <2>1. PICK p, e, c : p = at[k - 1] /\ e = at[k] /\ c = codes[k]
    OBVIOUS
  <2>2. k - 1 \in 0 .. n /\ k \in 0 .. n
    BY <1>1
  <2>3. p \in Nat /\ e \in Nat /\ e <= Len(text) /\ e = p + Len(c)
    BY <1>8, <2>1, <2>2
  <2>4. c \in Seq(CleanChars) /\ c = Clean!CleanHash(hashes[k]) /\ hashes[k] \in [1 .. Width -> Hex]
    BY <1>1, <1>3, <1>4, <2>1
  <2>5. Stands(text, p, c)
    BY <1>8, <2>1, <2>3 DEF Stands
  <2>6. Guarded(text, e)
    BY <1>10, <2>1
  <2>7. PICK h : h = hashes[k]
    OBVIOUS
  <2>8. HashAt(g, text, p, h, c, e)
    BY <1>7, <1>9, <2>3, <2>4, <2>5, <2>6, <2>7, Zenon DEF HashAt
  <2>9. Guarded(text, p) /\ ReadsAs(g, p, h, e)
    BY <2>8, HashReads, Zenon
  <2> QED BY <2>1, <2>3, <2>7, <2>9, Zenon DEF ReadsAs
<1> DEFINE V == {m \in Nat : Guarded(text, at[n - m])}
<1>11. 0 \in V
  <2>1. Guarded(text, at[n])
    <3>1. Len(text) \in Nat
      BY <1>7
    <3>2. \A j : j \notin Len(text) + 1 .. Len(text)
      BY <3>1
    <3> QED BY <1>8, <3>2 DEF Guarded
  <2>2. n - 0 = n
    BY <1>1
  <2> QED BY <2>1, <2>2
<1>12. ASSUME NEW m \in 0 .. n - 1, m \in V PROVE m + 1 \in V
  <2>1. PICK k : k = n - m
    OBVIOUS
  <2>2. k \in 1 .. n /\ k - 1 = n - (m + 1) /\ m + 1 \in Nat
    BY <1>1, <2>1
  <2>3. Guarded(text, at[k])
    BY <1>12, <2>1
  <2>4. Guarded(text, at[k - 1])
    BY <1>10, <2>2, <2>3
  <2> QED BY <2>2, <2>4
<1> HIDE DEF V
<1>13. \A k \in 0 .. n : Guarded(text, at[k])
  <2>1. \A m \in 0 .. n : m \in V
    BY <1>1, <1>11, <1>12, InductionTo
  <2> TAKE k \in 0 .. n
  <2>2. PICK m : m = n - k
    OBVIOUS
  <2>3. m \in 0 .. n /\ n - m = k
    BY <1>1, <2>2
  <2> QED BY <2>1, <2>3 DEF V
<1>14. \A k \in 1 .. n : g[at[k - 1] + 1] = hashes[k] \o g[at[k] + 1]
  <2>1. \A k \in 1 .. n : k \in 0 .. n
    BY <1>1
  <2> QED BY <1>10, <1>13, <2>1
<1>15. hashes \in Seq(Seq(Hex)) /\ \A k \in 1 .. n : hashes[k] \in Seq(Hex) /\ Len(hashes[k]) = Width
  <2>1. Width \in Nat
    BY CharsAre
  <2>2. \A h \in [1 .. Width -> Hex] : h \in Seq(Hex) /\ Len(h) = Width
    BY <2>1
  <2>3. [1 .. Width -> Hex] \subseteq Seq(Hex)
    BY <2>2
  <2>4. hashes \in Seq(Seq(Hex))
    BY <2>3, SeqMonotonic
  <2> QED BY <1>1, <2>2, <2>4
<1>16. PICK f : /\ f[0] = <<>> /\ f[n] = FlattenSeq(hashes)
                /\ \A k \in 1 .. n : f[k] = f[k - 1] \o hashes[k]
                /\ \A k \in 0 .. n : f[k] \in Seq(Hex)
  BY <1>1, <1>15, FlatSteps
<1>17. \A k \in 0 .. n : g[at[k] + 1] \in Seq(CleanChars)
  <2> TAKE k \in 0 .. n
  <2>1. at[k] + 1 \in 1 .. Len(text) + 1
    BY <1>7, <1>8
  <2> QED BY <1>9, <2>1 DEF CleanReading
<1>18. Hex \subseteq CleanChars
  BY CharsAre
<1> DEFINE W == {k \in Nat : g[1] = f[k] \o g[at[k] + 1] /\ Len(f[k]) = k * Width}
<1>19. 0 \in W
  <2>1. 0 \in 0 .. n /\ at[0] + 1 = 1
    BY <1>1, <1>8
  <2>2. g[1] \in Seq(CleanChars)
    BY <1>17, <2>1
  <2>3. <<>> \o g[1] = g[1]
    BY <2>2, ConcatEmptySeq
  <2>4. 0 * Width = 0
    BY CharsAre
  <2>5. PICK z : z = f[0] /\ z = <<>>
    BY <1>16
  <2>6. Len(z) = 0
    BY <2>5
  <2>7. Len(f[0]) = 0 * Width
    BY <2>4, <2>5, <2>6
  <2> QED BY <1>16, <2>1, <2>3, <2>7
<1>20. ASSUME NEW m \in 0 .. n - 1, m \in W PROVE m + 1 \in W
  <2>1. PICK k : k = m + 1
    OBVIOUS
  <2>2. k \in 1 .. n /\ k - 1 = m /\ k \in Nat /\ m \in 0 .. n /\ k \in 0 .. n /\ m \in Nat
    BY <1>1, <2>1
  <2>3. g[1] = f[m] \o g[at[m] + 1] /\ Len(f[m]) = m * Width
    BY <1>20
  <2> HIDE DEF W
  <2>4. g[at[m] + 1] = hashes[k] \o g[at[k] + 1]
    BY <1>14, <2>2
  <2>5. PICK a, h, c : a = f[m] /\ h = hashes[k] /\ c = g[at[k] + 1]
    OBVIOUS
  <2>6. a \in Seq(Hex) /\ h \in Seq(Hex) /\ Len(h) = Width /\ c \in Seq(CleanChars)
    BY <1>15, <1>16, <1>17, <2>2, <2>5
  <2>7. a \in Seq(CleanChars) /\ h \in Seq(CleanChars)
    BY <1>18, <2>6, SeqMonotonic
  <2>12. a \in Seq(CleanChars) /\ h \in Seq(CleanChars) /\ c \in Seq(CleanChars)
    BY <2>6, <2>7
  <2>8. (a \o h) \o c = a \o (h \o c)
    BY <2>12, ConcatAssociative, SMTT(30)
  <2>9. f[k] = a \o h
    BY <1>16, <2>2, <2>5
  <2>10. g[1] = f[k] \o g[at[k] + 1]
    BY <2>3, <2>4, <2>5, <2>8, <2>9
  <2>11. Len(f[k]) = k * Width
    <3>1. Len(a \o h) = Len(a) + Len(h)
      BY <2>6, ConcatProperties
    <3>2. (m + 1) * Width = m * Width + Width
      BY <2>2, CharsAre
    <3> QED BY <2>1, <2>3, <2>5, <2>6, <2>9, <3>1, <3>2
  <2> QED BY <2>1, <2>2, <2>10, <2>11 DEF W
<1> HIDE DEF W
<1>21. n \in W
  <2>1. \A k \in 0 .. n : k \in W
    BY <1>1, <1>19, <1>20, InductionTo
  <2> QED BY <1>1, <2>1
<1>22. g[1] = f[n] /\ Len(f[n]) = n * Width
  <2>1. g[1] = f[n] \o g[at[n] + 1] /\ Len(f[n]) = n * Width
    BY <1>21 DEF W
  <2>2. g[at[n] + 1] = <<>>
    BY <1>8, <1>9
  <2>3. n \in 0 .. n
    BY <1>1
  <2>4. f[n] \in Seq(Hex)
    BY <1>16, <2>3
  <2>5. f[n] \o <<>> = f[n]
    BY <2>4, ConcatEmptySeq
  <2> QED BY <2>1, <2>2, <2>5
<1>23. Clean!DecodeText(text) = FlattenSeq(hashes)
  <2>1. (n * Width) % Width = 0
    BY <1>1, WholeHashes
  <2>2. PICK back : back = g[1]
    OBVIOUS
  <2>3. Len(back) % Width = 0
    BY <1>22, <2>1, <2>2
  <2> QED BY <1>9, <1>16, <1>22, <2>2, <2>3
<1>24. Clean!FlattenSeq(hashes) = FlattenSeq(hashes)
  BY DEF Clean!FlattenSeq, FlattenSeq
<1> QED BY <1>6, <1>23, <1>24 DEF Clean!StreamReturns

----------------------------------------------------------------------------
(* The theorems.                                                           *)

\* Mine-Build's streams of Base64 give, for any fragments of any length, what the whole
\* text gives (mine_builder.py).
THEOREM FragmentsDoNotMatter == RecipesSpec => []Base64IsOfTheWhole
<1>1. SubjectInv => Base64IsOfTheWhole
  BY HashIsWhole, DecodesWhole DEF SubjectInv, Base64IsOfTheWhole
<1> QED BY <1>1, SubjectsAreTyped, PTL

\* The Clean Stream of a corpus of any size and of hashes of any width decodes to the
\* digits of its hashes (corpus_exchange.py).
THEOREM CorpusComesBack == RecipesSpec => []CleanStreamReturns
<1>1. SubjectInv => CleanStreamReturns
  BY CorpusReturns DEF SubjectInv, CleanStreamReturns
<1> QED BY <1>1, SubjectsAreTyped, PTL
=============================================================================
