------------------------------ MODULE MCRecipes ------------------------------
(* Checks: segments that start before, in and behind a target of three     *)
(* bytes, with none, one or two bytes, inside a source of two, before it   *)
(* or beyond its end; three in a recipe make gaps, overlaps and every      *)
(* order of listing.                                                       *)
(* Names of five characters; seven bytes make two groups and a byte, eight *)
(* characters two quartets; a hash of four digits has runs of one token,   *)
(* of two counts and of three.  Written recipes take three segments from   *)
(* two chains, two branches, a block without a height, and two             *)
(* transactions of one block.                                              *)
EXTENDS Recipes

MCSegments == [at : -1 .. 2, len : 0 .. 2, from : -1 .. 1]

Block(c, h, b, x, t, v, g) ==
  [chain |-> c, network |-> "mainnet", height |-> h, branch |-> b, hash |-> x, tx |-> t,
   verified |-> v, grade |-> g]
MCSources ==
  {Block("BTC", 7, 0, "h1", NoTx, TRUE, "VERIFIED-EXPLICIT"),
   Block("BTC", 7, 1, "h2", NoTx, TRUE, "VERIFIED-EXPLICIT"),
   Block("LTC", 7, 0, "h3", NoTx, FALSE, "UNVERIFIED-USER-PROOF"),
   Block("LTC", -1, 0, "h4", NoTx, FALSE, "UNVERIFIED-USER-PROOF"),
   Block("BTC", 7, 0, "h1", "t1", TRUE, "UNVERIFIED-USER-PROOF"),
   Block("BTC", 7, 0, "h1", "t2", TRUE, "UNVERIFIED-USER-PROOF"),
   Block("LTC", -1, 2, "h3", "t1", FALSE, "UNVERIFIED-USER-PROOF")}
MCWritten ==
  {[chain |-> b.chain, network |-> b.network, height |-> b.height, branch |-> b.branch,
    hash |-> b.hash, tx |-> b.tx, verified |-> b.verified, grade |-> b.grade,
    from |-> f, len |-> n, at |-> a] : b \in MCSources, f \in 0 .. 1, n \in 1 .. 2, a \in 0 .. 4}
==============================================================================
