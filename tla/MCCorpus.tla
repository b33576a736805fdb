--------------------------- MODULE MCCorpus ------------------------------
(* Blocks: two connections, one BTC key and one LTC key, and one           *)
(* representative of each way a record reaches the corpus.  Links: an      *)
(* evidence file of two relations, one that claims to be verified and one  *)
(* that carries such a claim, backups of it, which come back as other      *)
(* versions of the same relations, and a file that is not loadable.        *)
(* Builds: two blocks of each chain, with rows that differ in height,      *)
(* branch, status, epoch and trust, and relations that name their origins  *)
(* by hash, by height and not at all.                                      *)
EXTENDS CorpusDatabase, TLC

CONSTANTS c1, c2, k1, k2

\* The connections are alike: no definition chooses among them.
Symmetry == Permutations(Conns)

MCChainOf == [k \in Keys |-> IF k = k1 THEN "BTC" ELSE "LTC"]

Rec(k, p, o, v, s) ==
  [key |-> k, place |-> p, origin |-> o, verified |-> v, stamp |-> s]

\* A node or consensus scan of both keys, with the block timestamps.
NodeScan  == << Rec(k1, "h1", "node", TRUE, "t1"), Rec(k2, "h2", "node", TRUE, "t1") >>
\* A verified corpus file without timestamps.
FileRows  == << Rec(k2, "h2", "file", TRUE, NoStamp), Rec(k1, "h1", "file", TRUE, NoStamp) >>
\* A manual explorer list: unverified, and it misplaces k1.
Manual    == << Rec(k1, "h2", "manual", FALSE, NoStamp) >>
\* A single-source seed of one key, delivered twice in one list.
Seed      == << Rec(k2, "h2", "seed", FALSE, "t1"), Rec(k2, "h1", "manual", FALSE, NoStamp) >>
MCBatches == {NodeScan, FileRows, Manual, Seed}

MCStarter == << Rec(k1, "h1", "starter", TRUE, NoStamp),
                Rec(k2, "h2", "starter", TRUE, NoStamp) >>

MCOrigins == {"node", "file", "manual", "seed", "starter"}

MCClaims == {NoClaim, "VERIFIED-EXPLICIT", "VERIFIED-PROTOCOL"}
Tx(tx, type) == [tx |-> tx, type |-> type]
Link(i, g, c, m) == [id |-> i, source |-> "file", grade |-> g, claimed |-> c, members |-> m]
MCEvidence ==
  { [source |-> "file",
     rows |-> << Link(1, "VERIFIED-EXPLICIT", NoClaim, <<Tx("a1", "BASE64"), Tx("a2", "none")>>),
                 Link(2, "UNVERIFIED-HEURISTIC", "VERIFIED-PROTOCOL",
                      <<Tx("b1", "HEX"), Tx("b2", "FILE-BINARY")>>) >>],
    [source |-> "file",
     rows |-> << Link(2, "UNVERIFIED-USER-PROOF", NoClaim, <<Tx("b1", "HEX")>>) >>] }

MCOwnChain == [b \in Blocks |-> IF b <= 2 THEN "BTC" ELSE "LTC"]
BlockRow(h, b, c, e, v) == [height |-> h, branch |-> b, canonical |-> c, epoch |-> e, verified |-> v]
MCBlockRows ==
  {BlockRow(0, 0, TRUE, 0, TRUE), BlockRow(0, 0, TRUE, NoEpoch, FALSE), BlockRow(0, 1, FALSE, 1, FALSE),
   BlockRow(1, 1, TRUE, 0, TRUE), BlockRow(1, 1, FALSE, 1, TRUE), BlockRow(1, 0, TRUE, 1, FALSE)}

Member(c, raw, hash, height) == [chain |-> c, raw |-> raw, hash |-> hash, height |-> height]
Relation(g, m) == [grade |-> g, members |-> m]
MCRelations ==
  {Relation("UNVERIFIED-USER-PROOF", <<Member("BTC", TRUE, 1, 0), Member("LTC", TRUE, NoOrigin, 0)>>),
   Relation("UNVERIFIED-HEURISTIC", <<Member("BTC", TRUE, NoOrigin, 1), Member("LTC", TRUE, 4, NoOrigin)>>),
   Relation("UNVERIFIED-USER-PROOF", <<Member("BTC", TRUE, 2, NoOrigin), Member("LTC", FALSE, 3, NoOrigin)>>),
   Relation("UNVERIFIED-HEURISTIC", <<Member("BTC", TRUE, 3, NoOrigin), Member("LTC", TRUE, NoOrigin, 0)>>),
   Relation("UNVERIFIED-USER-PROOF", <<Member("BTC", TRUE, NoOrigin, NoOrigin), Member("LTC", TRUE, 3, 1),
                                       Member("BTC", TRUE, NoOrigin, 0)>>)}
============================================================================
