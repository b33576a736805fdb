------------------------------ MODULE ChainMix ------------------------------
(***************************************************************************)
(* The chain mix of the build workspace: which chains are selected and the *)
(* percentage each is asked for.  A chain whose percentage was edited is   *)
(* pinned; the others share what the pinned ones leave, left to right.     *)
(*                                                                         *)
(* rebalance_percentages ends in two corrections that nothing reaches: the *)
(* pinned chains beside the edited one always cover the overflow, and the  *)
(* sum is right before the last loop.  They are left out, so MixIsWhole    *)
(* says as well that they are not needed.                                  *)
(***************************************************************************)
EXTENDS Integers, Sequences, FiniteSets, FiniteSetsExt

CONSTANTS
  NumChains,   \* how many chains there are, numbered in their order on the screen
  Total        \* the whole mix (100)

MixAssumption == NumChains \in Nat \ {0} /\ Total \in Nat

Chains == 1 .. NumChains
Nobody == 0

VARIABLES
  selected,   \* the ticked chains
  percent,    \* chain_percent
  pinned      \* manual_mix_order: the edited chains, oldest edit first

vars == <<selected, percent, pinned>>

SumOn(f, S) ==
  LET sum[n \in 0 .. NumChains] ==
        IF n = 0 THEN 0 ELSE sum[n - 1] + (IF n \in S THEN f[n] ELSE 0)
  IN  sum[NumChains]

MinOf(a, b)    == IF a < b THEN a ELSE b
Positive(n)    == IF n > 0 THEN n ELSE 0
ChainsIn(order) == {order[i] : i \in DOMAIN order}

\* Bug: the remainder is dropped.
EqualSplit_DropsRemainder(S, whole) == [c \in S |-> whole \div Cardinality(S)]

\* equal_split: the remainder goes to the first chains.
EqualSplit(S, whole) ==
  [c \in S |-> whole \div Cardinality(S)
               + (IF Cardinality({d \in S : d < c}) < whole % Cardinality(S) THEN 1 ELSE 0)]

\* What is in S of an order.
OnlyOf(order, S) ==
  LET kept[n \in 0 .. Len(order)] ==
        IF n = 0 THEN <<>>
        ELSE IF order[n] \in S THEN Append(kept[n - 1], order[n]) ELSE kept[n - 1]
  IN  kept[Len(order)]

\* The order of edits without the chains that are gone, the edited one newest.
Repinned(order, changed) ==
  LET others == OnlyOf(order, selected' \ {changed})
  IN  IF changed \in selected' THEN Append(others, changed) ELSE others

\* Bug: the oldest edit gives way first.
CutBack_OldestFirst(values, order, changed) ==
  LET overflow == Positive(SumOn(values, ChainsIn(order)) - Total)
      older(i) == {order[k] : k \in 1 .. i - 1} \ {changed}
      cut(i)   == MinOf(values[order[i]], Positive(overflow - SumOn(values, older(i))))
  IN  [c \in ChainsIn(order) |->
         IF c = changed THEN values[c]
         ELSE values[c] - cut(CHOOSE i \in DOMAIN order : order[i] = c)]

\* When the pinned chains claim too much, they give way from the newest edit to
\* the oldest; the chain being edited does not.
CutBack(values, order, changed) ==
  LET overflow == Positive(SumOn(values, ChainsIn(order)) - Total)
      newer(i) == {order[k] : k \in i + 1 .. Len(order)} \ {changed}
      cut(i)   == MinOf(values[order[i]], Positive(overflow - SumOn(values, newer(i))))
  IN  [c \in ChainsIn(order) |->
         IF c = changed THEN values[c]
         ELSE values[c] - cut(CHOOSE i \in DOMAIN order : order[i] = c)]

\* Bug: the last chain takes the rest although it is the one being edited.
Filled_SinkLast(kept, changed) ==
  LET open == selected' \ DOMAIN kept
      rest == Total - SumOn(kept, DOMAIN kept)
  IN  IF open # {}
        THEN [c \in selected' |-> IF c \in open THEN EqualSplit(open, rest)[c] ELSE kept[c]]
        ELSE [kept EXCEPT ![Max(selected')] = @ + rest]

\* What the pinned chains leave goes to the others; without others the last
\* chain that is not being edited takes it.
Filled(kept, changed) ==
  LET open == selected' \ DOMAIN kept
      rest == Total - SumOn(kept, DOMAIN kept)
      sink == Max(IF selected' = {changed} THEN selected' ELSE selected' \ {changed})
  IN  IF open # {}
        THEN [c \in selected' |-> IF c \in open THEN EqualSplit(open, rest)[c] ELSE kept[c]]
        ELSE [kept EXCEPT ![sink] = @ + rest]

\* rebalance_percentages
Rebalanced(values, order, changed) ==
  IF order = <<>> THEN EqualSplit(selected', Total)
                  ELSE Filled(CutBack(values, order, changed), changed)

OnEveryChain(mix) == [c \in Chains |-> IF c \in DOMAIN mix THEN mix[c] ELSE 0]

----------------------------------------------------------------------------
\* _on_chain_toggle
Toggle(c) ==
  /\ selected' = IF c \in selected THEN selected \ {c} ELSE selected \cup {c}
  /\ LET order == Repinned(pinned, Nobody)
     IN  /\ pinned' = IF Cardinality(selected') = 1 THEN <<>> ELSE order
         /\ percent' = IF selected' = {} THEN [d \in Chains |-> 0]
                       ELSE OnEveryChain(Rebalanced(percent, pinned', Nobody))

\* _on_chain_percent: the spin box of a selected chain was set to v.
Edit(c, v) ==
  /\ c \in selected
  /\ UNCHANGED selected
  /\ IF selected = {c}
       THEN pinned' = <<>> /\ percent' = [percent EXCEPT ![c] = Total]
       ELSE /\ pinned' = Repinned(pinned, c)
            /\ LET mix == Rebalanced([percent EXCEPT ![c] = v], pinned', c)
               IN  percent' = [d \in Chains |-> IF d \in selected THEN mix[d] ELSE percent[d]]

Init ==
  /\ selected = {1}
  /\ percent = [c \in Chains |-> IF c = 1 THEN Total ELSE 0]
  /\ pinned = <<>>

Next == \E c \in Chains : Toggle(c) \/ \E v \in 0 .. Total : Edit(c, v)

Spec == Init /\ [][Next]_vars

----------------------------------------------------------------------------
(* Properties.                                                             *)

\* The selected chains always share exactly the whole mix, no share is negative and
\* the others ask for nothing, after any sequence of ticks and edits.
MixIsWhole ==
  /\ percent \in [Chains -> 0 .. Total]
  /\ selected # {} => SumOn(percent, selected) = Total
  /\ \A c \in Chains \ selected : percent[c] = 0

\* A step that edits a chain among others leaves that chain as the newest pin.
EditStep == selected' = selected /\ Cardinality(selected) > 1
Edited   == pinned'[Len(pinned')]

\* "keep the edited value": among two or more chains the value typed is the one
\* that stands.
EditSticks == [][EditStep => \A v \in 0 .. Total : Edit(Edited, v) => percent'[Edited] = v]_vars

\* A pinned chain gives way only to a claim that does not fit: as long as the
\* pinned values and the new one stay within the mix, no edit lowers a pin, and it
\* raises one only when no chain is left to take the rest.  When one must give
\* way the newer does first: the older loses nothing while the newer has something.
PinsStand ==
  LET pins == ChainsIn(pinned) \ {Edited}
  IN  /\ SumOn(percent, pins) + percent'[Edited] <= Total =>
           \A d \in pins :
             \/ percent'[d] = percent[d]
             \/ percent'[d] > percent[d] /\ pins \cup {Edited} = selected
      /\ \A i, k \in DOMAIN pinned :
           i < k /\ {pinned[i], pinned[k]} \subseteq pins /\ percent'[pinned[k]] > 0 =>
             percent'[pinned[i]] >= percent[pinned[i]]

PinsHold == [][EditStep => PinsStand]_vars
=============================================================================
