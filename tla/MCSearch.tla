------------------------------ MODULE MCSearch ------------------------------
(* Pickers: a target of a few bytes, two chains, and every match table in  *)
(* which a fragment's tail is again a fragment, as sources are indexed at  *)
(* every offset.  Index: every target of up to four bytes over two byte    *)
(* values, and corpora of up to two records of four bytes; prefixes of two *)
(* bytes as the fan-out.                                                   *)
EXTENDS Search

Rows ==
  {r \in [Positions -> 0 .. MaxChunk] :
     /\ \A p \in Positions : r[p] <= N - p
     /\ \A p \in Positions \ {N - 1} : r[p + 1] >= r[p] - 1}
MCTables == [Chains -> Rows]

Mix(a, b) == [c \in Chains |-> IF c = 1 THEN a ELSE b]
MCWeightings == {Mix(50, 50), Mix(80, 20), Mix(0, 100)}

MCSources == [1 .. 4 -> ByteValues]
=============================================================================
