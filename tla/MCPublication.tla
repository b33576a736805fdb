--------------------------- MODULE MCPublication ---------------------------
(* Two processes, files of two chunks.  Targets: "A" rebuilds its target,  *)
(* "X" does not reproduce the hash it carries, "H" is a human recipe of a  *)
(* RAW target without a hash.  Proofs of one target: "R" and "S" are RAW   *)
(* and cover one chunk each, "B" is Base64 and covers both.                *)
EXTENDS Publication

CONSTANTS w1, w2

MCIdentity ==
  [r \in Recipes |-> CASE r = "X" -> "mismatch" [] r = "H" -> "size" [] OTHER -> "match"]
MCSuffix == [r \in Proofs |-> IF r = "B" THEN "b64" ELSE "raw"]
MCCovers == [r \in Proofs |-> CASE r = "R" -> {2} [] r = "S" -> {1} [] OTHER -> {1, 2}]
============================================================================
