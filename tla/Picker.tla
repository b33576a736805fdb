------------------------------- MODULE Picker -------------------------------
(***************************************************************************)
(* build_manifest's search for a recipe: which source fragments, in which  *)
(* order, cover the target.  A full recipe without weights is the exact    *)
(* minimum number of chunks; one with weights tries the exact byte quotas  *)
(* first and falls back to a soft mix; a proof covers a requested part of  *)
(* the target, with or without weights.  The user may cancel at every      *)
(* position of the search.                                                 *)
(*                                                                         *)
(* The source index is a table: longest[c][p] is the length of the longest *)
(* fragment of chain c that matches the target at offset p (SourceIndex    *)
(* checks that the index answers exactly that).                            *)
(***************************************************************************)
EXTENDS Integers, Sequences, FiniteSets

CONSTANTS
  N,            \* bytes of the represented target
  MaxChunk,     \* longest fragment a recipe may use
  Chains,       \* selected chains, numbered in ticker order
  Tables,       \* the match tables a corpus may give
  Weightings,   \* requested mixes: percentages per chain
  NoWeights,    \* no mix requested
  Requests      \* requested coverage in percent; 100 is a full recipe

Positions == 0 .. N - 1

ASSUME PickerAssumption ==
  /\ N \in Nat \ {0} /\ MaxChunk \in Nat \ {0}
  /\ Chains \subseteq Nat /\ Chains # {} /\ IsFiniteSet(Chains)
  /\ Tables \subseteq [Chains -> [Positions -> 0 .. MaxChunk]]
  /\ \A t \in Tables, c \in Chains, p \in Positions :
       /\ t[c][p] <= N - p
       /\ \A q \in p .. N - 1 : t[c][q] >= t[c][p] - (q - p)   \* a match's tail is a match
  /\ Weightings \subseteq [Chains -> Nat]
  /\ \A w \in Weightings : \E c \in Chains : w[c] > 0
  /\ NoWeights \notin Weightings
  /\ Requests \subseteq 1 .. 100

VARIABLES
  longest, weights, request,   \* the corpus and what the user asked for
  stage,      \* "running", "built", "refused" or "cancelled"
  plan,       \* the picker at work
  pos,        \* offset of the search
  segs,       \* the segments picked so far
  quotas,     \* bytes each chain should give, for the weighted plans
  used,       \* bytes per chain
  covered,    \* bytes in all
  window,     \* fewest: costs of the next MaxChunk offsets
  choice      \* fewest: chosen length per offset

inputs == <<longest, weights, request>>
search == <<segs, used, covered>>
tables == <<window, choice>>
vars   == <<inputs, stage, plan, pos, quotas, search, tables>>

Plans == {"fewest", "trace", "exact", "soft", "partial", "proofExact", "proofSoft"}
ProofPlans == {"partial", "proofExact", "proofSoft"}
QuotaPlans == {"exact", "proofExact"}

Segment == [chain : Chains, at : Positions, len : 1 .. MaxChunk]

MinOf(a, b) == IF a <= b THEN a ELSE b
MaxOf(a, b) == IF a >= b THEN a ELSE b

----------------------------------------------------------------------------
(* Quotas: the largest-remainder split of _byte_quotas.                    *)

\* Sum of f over the finite set S.
SumOver(f, S) ==
  LET sum[T \in SUBSET S] ==
        IF T = {} THEN 0
        ELSE LET c == CHOOSE c \in T : TRUE IN f[c] + sum[T \ {c}]
  IN  sum[S]

\* needed = ceil(N * request / 100)
Needed == (N * request + 99) \div 100
GoalOf(p) == IF p \in ProofPlans THEN Needed ELSE N
Goal      == GoalOf(plan)

\* Bug: one chain too many gets the extra byte.
RoundedUp_OneMore(total, w, weightSum, left) ==
  LET fraction(c) == (total * w[c]) % weightSum
      before(d, c) == \/ fraction(d) > fraction(c)
                      \/ fraction(d) = fraction(c) /\ d < c
  IN  {c \in Chains : Cardinality({d \in Chains : before(d, c)}) <= left}

\* The chains that get one byte more: the largest fractions, earlier chains
\* first among equals (the sort is stable).
RoundedUp(total, w, weightSum, left) ==
  LET fraction(c) == (total * w[c]) % weightSum
      before(d, c) == \/ fraction(d) > fraction(c)
                      \/ fraction(d) = fraction(c) /\ d < c
  IN  {c \in Chains : Cardinality({d \in Chains : before(d, c)}) < left}

ByteQuotas(total, w) ==
  LET weightSum == SumOver(w, Chains)
      floor == [c \in Chains |-> (total * w[c]) \div weightSum]
      extra == RoundedUp(total, w, weightSum, total - SumOver(floor, Chains))
  IN  [c \in Chains |-> floor[c] + (IF c \in extra THEN 1 ELSE 0)]

\* The quotas a picker starts from.
QuotasOf(p) ==
  IF p \in {"exact", "soft", "proofExact", "proofSoft"}
    THEN ByteQuotas(GoalOf(p), weights) ELSE [c \in Chains |-> 0]

----------------------------------------------------------------------------
(* What the pickers choose between at one offset.                          *)

\* The most a chain may still give: its quota, or one fragment.
Allowance(c) ==
  IF plan \in QuotaPlans THEN MinOf(MaxChunk, quotas[c] - used[c]) ELSE MaxChunk

\* Bug: the allowance is offered although the source matches fewer bytes.
Offer_Unmatched(c) == [chain |-> c, at |-> pos, len |-> MinOf(Allowance(c), N - pos)]

Offer(c) == [chain |-> c, at |-> pos, len |-> MinOf(longest[c][pos], Allowance(c))]
Offers   == {Offer(c) : c \in {d \in Chains : longest[d][pos] > 0 /\ Allowance(d) > 0}}

\* How far a chain is below its share, as a fraction num/den.
Deficit(c) ==
  IF plan = "partial" THEN [num |-> 0, den |-> 1]
  ELSE IF quotas[c] <= 0 THEN [num |-> -(used[c] + 1), den |-> 1]
  ELSE [num |-> quotas[c] - used[c], den |-> quotas[c]]

Less(a, b) == a.num * b.den < b.num * a.den

\* max(opts, key=(deficit, length, chain))
Preferred(x, y) ==
  LET dx == Deficit(x.chain)
      dy == Deficit(y.chain)
  IN  \/ Less(dy, dx)
      \/ ~Less(dx, dy) /\ x.len > y.len
      \/ ~Less(dx, dy) /\ x.len = y.len /\ x.chain >= y.chain

Best(offers) == CHOOSE x \in offers : \A y \in offers : Preferred(x, y)

\* Bug: the search steps over the byte behind a fragment.
Add_SkipsByte(seg) ==
  /\ segs' = Append(segs, seg)
  /\ used' = [used EXCEPT ![seg.chain] = @ + seg.len]
  /\ covered' = covered + seg.len
  /\ pos' = pos + seg.len + 1

Add(seg) ==
  /\ segs' = Append(segs, seg)
  /\ used' = [used EXCEPT ![seg.chain] = @ + seg.len]
  /\ covered' = covered + seg.len
  /\ pos' = pos + seg.len

Searching == stage = "running" /\ pos < N /\ covered < Goal

----------------------------------------------------------------------------
(* The greedy pickers: weighted, soft and partial.                         *)

TakeFragment ==
  /\ plan \in Plans \ {"fewest", "trace"}
  /\ Searching
  /\ Offers # {}
  /\ LET best == Best(Offers)
     IN  Add([best EXCEPT !.len = MinOf(@, Goal - covered)])
  /\ UNCHANGED <<inputs, stage, plan, quotas, tables>>

\* A proof leaves an offset that nothing matches uncovered.
SkipByte ==
  /\ plan \in ProofPlans
  /\ Searching
  /\ Offers = {}
  /\ pos' = pos + 1
  /\ UNCHANGED <<inputs, stage, plan, quotas, search, tables>>

\* Bug: the bytes per chain of the abandoned plan are kept.
Restart_KeepsUsed(next) ==
  /\ plan' = next
  /\ quotas' = QuotasOf(next)
  /\ pos' = 0
  /\ segs' = <<>>
  /\ covered' = 0
  /\ UNCHANGED <<inputs, stage, used, tables>>

Restart(next) ==
  /\ plan' = next
  /\ quotas' = QuotasOf(next)
  /\ pos' = 0
  /\ segs' = <<>>
  /\ used' = [c \in Chains |-> 0]
  /\ covered' = 0
  /\ UNCHANGED <<inputs, stage, tables>>

Conclude(verdict) ==
  /\ stage' = verdict
  /\ UNCHANGED <<inputs, plan, pos, quotas, search, tables>>

\* Bug: no soft mix is tried when the exact quotas block the search.
Blocked_NoFallback ==
  /\ plan \in {"exact", "soft"}
  /\ Searching
  /\ Offers = {}
  /\ Conclude("refused")

\* The exact quotas block the reconstruction: soft steering takes over.
Blocked ==
  /\ plan \in {"exact", "soft"}
  /\ Searching
  /\ Offers = {}
  /\ IF plan = "exact" THEN Restart("soft") ELSE Conclude("refused")

\* assess_proof_coverage: one point under to two points over the request.
Accepted ==
  /\ 100 * covered >= (request - 1) * N
  /\ 100 * covered <= (request + 2) * N

ExactMix == used = quotas

EndOfSearch ==
  /\ stage = "running" /\ plan \in Plans \ {"fewest", "trace"}
  /\ ~Searching
  /\ CASE plan = "soft" -> Conclude("built")
       [] plan = "exact" -> IF ExactMix THEN Conclude("built") ELSE Restart("soft")
       [] plan = "proofExact" -> IF Accepted THEN Conclude("built") ELSE Restart("proofSoft")
       [] OTHER -> Conclude(IF Accepted THEN "built" ELSE "refused")

----------------------------------------------------------------------------
(* pick_fewest_chunks.                                                     *)

Infinite == N + 1

Reach(p) ==
  CHOOSE l \in 0 .. MaxChunk :
    /\ \A c \in Chains : longest[c][p] <= l
    /\ l > 0 => \E c \in Chains : longest[c][p] = l

\* Lengths from offset p that do not exceed the cost inf, and their costs.
Cost(l) == 1 + window[l]
Affordable(p) == {l \in 1 .. Reach(p) : Cost(l) <= Infinite}

\* Bug: the shortest affordable fragment is taken, whatever follows it costs.
BestLength_Shortest(p) ==
  IF Affordable(p) = {} THEN 0 ELSE CHOOSE l \in Affordable(p) : \A k \in Affordable(p) : l <= k

\* The cheapest length; the longest one among equals; 0 when there is none.
BestLength(p) ==
  IF Affordable(p) = {} THEN 0
  ELSE CHOOSE l \in Affordable(p) :
         \A k \in Affordable(p) : Cost(l) < Cost(k) \/ (Cost(l) = Cost(k) /\ l >= k)

\* The backward pass: pos is the offset above the one that is decided.
DecideOffset ==
  /\ stage = "running" /\ plan = "fewest"
  /\ pos > 0
  /\ LET l == BestLength(pos - 1)
         cost == IF l = 0 THEN Infinite ELSE Cost(l)
     IN  /\ choice' = [choice EXCEPT ![pos - 1] = l]
         /\ window' = [i \in 1 .. MaxChunk |-> IF i = 1 THEN cost ELSE window[i - 1]]
  /\ pos' = pos - 1
  /\ UNCHANGED <<inputs, stage, plan, quotas, search>>

EndOfDecisions ==
  /\ stage = "running" /\ plan = "fewest"
  /\ pos = 0
  /\ IF window[1] >= Infinite \/ choice[0] = 0 THEN Conclude("refused") ELSE Restart("trace")

\* The forward pass turns the choices into segments.
Trace ==
  /\ stage = "running" /\ plan = "trace"
  /\ pos < N
  /\ LET l == choice[pos]
         sources == {c \in Chains : longest[c][pos] >= l}
     IN  IF l = 0 \/ sources = {}
           THEN Conclude("refused")
           ELSE /\ \E c \in sources :
                     /\ \A d \in sources : d <= c
                     /\ Add([chain |-> c, at |-> pos, len |-> l])
                /\ UNCHANGED <<inputs, stage, plan, quotas, tables>>

EndOfTrace ==
  /\ stage = "running" /\ plan = "trace"
  /\ pos = N
  /\ Conclude("built")

\* The cancel event, looked at in front of every offset.
Cancel ==
  /\ stage = "running"
  /\ CASE plan = "fewest" -> pos > 0
       [] plan = "trace"  -> pos < N
       [] OTHER           -> Searching
  /\ Conclude("cancelled")

----------------------------------------------------------------------------
Init ==
  /\ longest \in Tables
  /\ weights \in Weightings \cup {NoWeights}
  /\ request \in Requests
  /\ stage = "running"
  /\ plan = IF request < 100 THEN IF weights = NoWeights THEN "partial" ELSE "proofExact"
            ELSE IF weights = NoWeights THEN "fewest" ELSE "exact"
  /\ pos = IF plan = "fewest" THEN N ELSE 0
  /\ quotas = QuotasOf(plan)
  /\ segs = <<>>
  /\ used = [c \in Chains |-> 0]
  /\ covered = 0
  /\ window = [i \in 1 .. MaxChunk |-> IF i = 1 THEN 0 ELSE Infinite]
  /\ choice = [p \in Positions |-> 0]

Search ==
  \/ TakeFragment \/ SkipByte \/ Blocked \/ EndOfSearch
  \/ DecideOffset \/ EndOfDecisions \/ Trace \/ EndOfTrace

Next == Search \/ Cancel

Spec == Init /\ [][Next]_vars

----------------------------------------------------------------------------
(* Properties.                                                             *)

TypeOK ==
  /\ longest \in [Chains -> [Positions -> 0 .. MaxChunk]]
  /\ weights \in Weightings \cup {NoWeights}
  /\ request \in Requests
  /\ stage \in {"running", "built", "refused", "cancelled"}
  /\ plan \in Plans
  /\ pos \in 0 .. N
  /\ segs \in Seq(Segment)
  /\ quotas \in [Chains -> 0 .. N]
  /\ used \in [Chains -> 0 .. N]
  /\ covered \in 0 .. N
  /\ window \in [1 .. MaxChunk -> 0 .. Infinite]
  /\ choice \in [Positions -> 0 .. MaxChunk]

End(seg) == seg.at + seg.len

\* Every segment quotes a fragment that its chain really has at that offset, and
\* the segments follow each other in the target without overlap; a full recipe that
\* is built rebuilds every byte: its segments start at the first byte, end at the
\* last one, and leave no gap.
RecipeFits ==
  /\ \A i \in DOMAIN segs : segs[i].len <= longest[segs[i].chain][segs[i].at]
  /\ \A i \in DOMAIN segs : End(segs[i]) <= pos
  /\ \A i, j \in DOMAIN segs : i < j => End(segs[i]) <= segs[j].at
  /\ stage = "built" /\ request = 100 =>
       /\ segs # <<>> /\ segs[1].at = 0 /\ End(segs[Len(segs)]) = N
       /\ \A i \in 1 .. Len(segs) - 1 : End(segs[i]) = segs[i + 1].at

\* The ways to cut the target into fragments the corpus has: sets of starts.
NextCut(S, s) == CHOOSE e \in S \cup {N} : e > s /\ \A x \in S : x <= s \/ x >= e
Tilings ==
  {S \in SUBSET Positions :
     0 \in S /\ \A s \in S : \E c \in Chains : longest[c][s] >= NextCut(S, s) - s}

\* An unweighted full recipe has as few chunks as any recipe can have.
FewestIsMinimal ==
  stage = "built" /\ plan = "trace" => \A S \in Tilings : Len(segs) <= Cardinality(S)

\* Bytes that some chain can supply.
Coverable == {p \in Positions : \E c \in Chains, q \in 0 .. p : q + longest[c][q] > p}

\* The search gives up only when it must: a full recipe when no way of cutting
\* the target exists for any mix, a proof when even the bytes of all chains
\* together stay below the tolerance.  (A request that rounds up to more than
\* two points over itself is refused whatever the corpus: targets under 50 bytes.)
RefusalIsHonest ==
  stage = "refused" =>
    IF request = 100 THEN Tilings = {}
    ELSE 100 * Needed <= (request + 2) * N =>
           100 * Cardinality(Coverable) < (request - 1) * N

\* The bytes a recipe accounts for are the bytes its segments cover, chain by
\* chain, and a proof that is built covers what was asked for, within tolerance.
Bytes(S) == UNION {segs[i].at .. End(segs[i]) - 1 : i \in S}
AccountsAreTrue ==
  /\ covered = Cardinality(Bytes(DOMAIN segs))
  /\ \A c \in Chains : used[c] = Cardinality(Bytes({i \in DOMAIN segs : segs[i].chain = c}))
  /\ stage = "built" /\ request < 100 =>
       covered <= Needed /\ 100 * covered >= (request - 1) * N

\* The quotas share out exactly the bytes to be covered, each within a byte of
\* its percentage, and no chain exceeds its quota while the mix is exact.
QuotasHold ==
  plan \in QuotaPlans =>
    /\ SumOver(quotas, Chains) = Goal
    /\ \A c \in Chains :
         LET share == Goal * weights[c]
             unit  == SumOver(weights, Chains)
         IN  /\ quotas[c] * unit < share + unit
             /\ share < (quotas[c] + 1) * unit
             /\ used[c] <= quotas[c]

=============================================================================
