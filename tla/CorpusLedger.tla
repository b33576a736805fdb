---------------------------- MODULE CorpusLedger ----------------------------
(***************************************************************************)
(* What the corpus promises its readers: the table changes only by whole   *)
(* operations.  An import applies all of its records, in order, or none; a *)
(* starter import adds pinned records and nothing else; a prune empties    *)
(* exactly one chain.  CorpusStore implements this with rows <- blocks.    *)
(***************************************************************************)
EXTENDS Naturals, Sequences

CONSTANTS
  Keys, Chains, ChainOf, NoRow,
  Batches,            \* the record sequences an import may deliver
  Starter,            \* the pinned starter records
  Apply(_, _),        \* the table after one record is upserted
  Clear(_, _)         \* the table after one chain is pruned

VARIABLE rows

\* The table after those of the records whose positions are chosen, in order.
ApplyAll(t, records, chosen) ==
  LET after[n \in 0 .. Len(records)] ==
        IF n = 0 THEN t
        ELSE IF n \in chosen THEN Apply(after[n - 1], records[n]) ELSE after[n - 1]
  IN  after[Len(records)]

Import == \E b \in Batches : rows' = ApplyAll(rows, b, DOMAIN b)

\* The starter records that are not in the corpus yet.
ImportStarter ==
  \E missing \in SUBSET DOMAIN Starter : rows' = ApplyAll(rows, Starter, missing)

PruneChain == \E chain \in Chains : rows' = Clear(rows, chain)

Init == rows = [k \in Keys |-> NoRow]
Next == Import \/ ImportStarter \/ PruneChain
Spec == Init /\ [][Next]_rows
=============================================================================
