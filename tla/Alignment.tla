------------------------------ MODULE Alignment ------------------------------
(***************************************************************************)
(* Which records of the corpus a build may pick from, and the evidence     *)
(* grade that the association of its chains is given.  The active modes    *)
(* take the verified blocks as they are; the deferred ones, still reached  *)
(* through build_manifest, link chains by height, by epoch, by the user's  *)
(* choice or by stored TX-Link relations.                                  *)
(*                                                                         *)
(* A corpus gives every block hash a row or NoBlock; a row is its height   *)
(* and branch, whether its status is canonical, its epoch (timestamp //    *)
(* epoch_seconds) or NoEpoch, and whether it is verified.                  *)
(***************************************************************************)
EXTENDS Integers, Sequences, FiniteSets, SequencesExt

CONSTANTS
  Blocks,       \* block hashes, numbered in the order of their digits
  OwnChain,     \* the chain of each
  NoBlock,      \* no row
  NoEpoch,      \* no timestamp
  NoOrigin      \* a member names no origin hash, or no height

VerifiedExplicit == "VERIFIED-EXPLICIT"

Failed == [ok |-> FALSE, records |-> {}, grade |-> "none"]
Pool(records, grade) == [ok |-> TRUE, records |-> records, grade |-> grade]

----------------------------------------------------------------------------
\* What a picker is given of a block.
AsRecord(corpus, b) ==
  [chain |-> OwnChain[b], hash |-> b, height |-> corpus[b].height, epoch |-> corpus[b].epoch,
   verified |-> corpus[b].verified, raw |-> FALSE]

\* Bug: the deferred modes get unverified rows, too.
WantsVerified_ActiveOnly(mode) == mode \in {"SOLOCHAIN", "CROSSCHAIN"}

\* The modes that ask iter_records for verified rows only.
WantsVerified(mode) == mode \notin {"USER_PICKED", "EPOCH_LINK", "TX_LINKED"}

\* iter_records of the selected chains.
Rows(corpus, chains, mode) ==
  {AsRecord(corpus, b) : b \in {x \in Blocks :
     /\ corpus[x] # NoBlock /\ OwnChain[x] \in chains
     /\ WantsVerified(mode) => corpus[x].verified}}

\* The values of a field that every chain has (set.intersection).
CommonTo(values) ==
  {v \in UNION {values[c] : c \in DOMAIN values} : \A c \in DOMAIN values : v \in values[c]}

HeightsOf(records, c) == {r.height : r \in {x \in records : x.chain = c}}
EpochsOf(records, c)  == {r.epoch : r \in {x \in records : x.chain = c /\ x.epoch # NoEpoch}}

----------------------------------------------------------------------------
(* apply_alignment                                                         *)

LockedLink(records, chains) ==
  LET common == CommonTo([c \in chains |-> HeightsOf(records, c)]) IN
  IF Cardinality(chains) < 2 \/ common = {} THEN Failed
  ELSE Pool({r \in records : r.height \in common}, "VERIFIED-HEIGHT-ALIGNMENT")

\* Bug: the grade looks at what was read, not at what was kept.
EpochGrade_Any(kept) ==
  IF \E r \in kept : r.verified THEN "VERIFIED-EPOCH-ALIGNMENT" ELSE "UNVERIFIED-EPOCH-ALIGNMENT"

EpochGrade(kept) ==
  IF \A r \in kept : r.verified THEN "VERIFIED-EPOCH-ALIGNMENT" ELSE "UNVERIFIED-EPOCH-ALIGNMENT"

EpochLink(records, chains) ==
  LET common == CommonTo([c \in chains |-> EpochsOf(records, c)])
      kept   == {r \in records : r.epoch \in common}
  IN  IF Cardinality(chains) < 2 \/ common = {} THEN Failed ELSE Pool(kept, EpochGrade(kept))

UserPicked(records, picked) ==
  LET kept == {r \in records : r.hash \in picked} IN
  IF kept = {} THEN Failed ELSE Pool(kept, "UNVERIFIED-USER-PROOF")

----------------------------------------------------------------------------
(* resolve_tx_link_sources                                                 *)

Strength(grade) ==
  CASE grade = "UNVERIFIED-HEURISTIC"  -> 0
    [] grade = "UNVERIFIED-USER-PROOF" -> 1
    [] grade = "VERIFIED-PROTOCOL"     -> 2
    [] grade = "VERIFIED-EXPLICIT"     -> 3

\* Bug: the strongest grade speaks for all.
Aggregate_Strongest(grades) == CHOOSE g \in grades : \A h \in grades : Strength(h) <= Strength(g)

\* aggregate_evidence_grade of at least one grade: the weakest.
Aggregate(grades) == CHOOSE g \in grades : \A h \in grades : Strength(g) <= Strength(h)

\* ORDER BY CASE WHEN status='canonical' THEN 0 ELSE 1 END, branch_index, block_hash
Before(corpus, a, b) ==
  LET r == corpus[a]
      s == corpus[b]
  IN  \/ r.canonical /\ ~s.canonical
      \/ /\ r.canonical <=> s.canonical
         /\ r.branch < s.branch \/ (r.branch = s.branch /\ a <= b)

\* The block a height means: the first in that order.
AtHeight(corpus, chain, height) ==
  LET there == {b \in Blocks : corpus[b] # NoBlock /\ OwnChain[b] = chain /\ corpus[b].height = height}
  IN  IF there = {} THEN NoOrigin ELSE CHOOSE b \in there : \A x \in there : Before(corpus, b, x)

\* The block a member's origin names; NoOrigin if it is a height without a block.
OriginHash(corpus, m) ==
  IF m.hash # NoOrigin THEN m.hash
  ELSE IF m.height = NoOrigin THEN NoOrigin ELSE AtHeight(corpus, m.chain, m.height)

\* resolve(chain, network, hash): a hash is looked up among the blocks of its chain.
Known(corpus, chain, b) == b # NoOrigin /\ OwnChain[b] = chain /\ corpus[b] # NoBlock

\* Bug: a hash the corpus does not know counts as verified.
Origin_TrustsLiteral(corpus, m) ==
  LET b == OriginHash(corpus, m) IN
  [hash |-> b, verified |-> Known(corpus, m.chain, b) => corpus[b].verified]

\* _resolve_origin_block: a literal hash need not be in the corpus, and then it is
\* not verified; a height must be.
Origin(corpus, m) ==
  LET b == OriginHash(corpus, m) IN
  [hash |-> b, verified |-> Known(corpus, m.chain, b) /\ corpus[b].verified]

\* The members of a relation that become sources.
Ready(corpus, rel, chains) ==
  {m \in ToSet(rel.members) : m.chain \in chains /\ m.raw /\ Origin(corpus, m).hash # NoOrigin}

\* Bug: one chain is enough.
Accepted_OneChain(corpus, rel, chains) == Ready(corpus, rel, chains) # {}

\* A relation counts if two of the selected chains have material.
Accepted(corpus, rel, chains) ==
  Cardinality({m.chain : m \in Ready(corpus, rel, chains)}) >= 2

AsSource(corpus, m) ==
  [chain |-> m.chain, hash |-> Origin(corpus, m).hash, verified |-> Origin(corpus, m).verified, raw |-> TRUE]

TxLinked(corpus, relations, chains) ==
  LET accepted == {rel \in relations : Accepted(corpus, rel, chains)} IN
  IF accepted = {} THEN Failed
  ELSE Pool(UNION {{AsSource(corpus, m) : m \in Ready(corpus, rel, chains)} : rel \in accepted},
            Aggregate({rel.grade : rel \in accepted}))

----------------------------------------------------------------------------
\* build_manifest up to the index: the records and the grade of its segments.
Eligible(corpus, chains, mode, picked, relations) ==
  LET records == Rows(corpus, chains, mode) IN
  CASE mode \in {"SOLOCHAIN", "CROSSCHAIN"} -> Pool(records, VerifiedExplicit)
    [] mode = "LOCKED_LINK" -> LockedLink(records, chains)
    [] mode = "EPOCH_LINK"  -> EpochLink(records, chains)
    [] mode = "USER_PICKED" -> UserPicked(records, picked)
    [] mode = "TX_LINKED"   -> TxLinked(corpus, relations, chains)
    [] OTHER -> Failed      \* a mode nobody implements

----------------------------------------------------------------------------
(* Properties.                                                             *)

IsVerifiedGrade(g) ==
  g \in {VerifiedExplicit, "VERIFIED-PROTOCOL", "VERIFIED-HEIGHT-ALIGNMENT", "VERIFIED-EPOCH-ALIGNMENT"}

\* A record is called verified only if its row is.
HonestRecords(corpus, pool) ==
  \A r \in pool.records : r.verified => Known(corpus, r.chain, r.hash) /\ corpus[r.hash].verified

\* A verified grade is given only to verified records.
EarnedGrade(pool) == IsVerifiedGrade(pool.grade) => \A r \in pool.records : r.verified

\* A linked record of one chain has its like in every other, and one that has is in
\* the pool.
Linked(records, pool, chains, like(_, _)) ==
  \A r \in records : r \in pool.records <=>
    \A c \in chains : \E x \in pool.records : x.chain = c /\ like(r, x)

\* A pool of sources from relations has two chains, and no relation that gave to it has
\* a weaker grade than the pool.
NoStrongerThanItsParts(corpus, relations, pool, chains) ==
  /\ Cardinality({r.chain : r \in pool.records}) >= 2
  /\ \A rel \in relations :
       Accepted(corpus, rel, chains) => Strength(pool.grade) <= Strength(rel.grade)
=============================================================================
