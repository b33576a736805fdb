---------------------------- MODULE CorpusDatabase ----------------------------
(***************************************************************************)
(* The corpus database: the block table with its writers (CorpusStore),    *)
(* the TX-Link tables with theirs (TxLinks), and what a build takes from   *)
(* both (Alignment).  The two kinds of tables are written by different     *)
(* operations and no transaction touches both, so a behaviour follows one  *)
(* of them, or lets the block table change in any way and looks at what    *)
(* each build mode makes of it.                                            *)
(***************************************************************************)
EXTENDS CorpusStore, FiniteSets

CONSTANTS
  Ids, Transactions, Claims, Sources, BackupName, Evidence,    \* of TxLinks
  NoLink, NoClaim, NoFile,
  Blocks, OwnChain, NoBlock, NoEpoch, NoOrigin,                \* of Alignment
  BlockRows,     \* the rows a block may have
  Relations      \* TX-Link relations a build may list

VARIABLES
  part,          \* "blocks", "links" or "build"
  table, holder, written, doing, left, relations, backup, overlapped, mixed,
  corpus         \* the block table as a build reads it

links_vars == <<table, holder, written, doing, left, relations, backup, overlapped, mixed>>

Links == INSTANCE TxLinks
Align == INSTANCE Alignment

\* There are finitely many blocks, and no stored relation is graded as verified: that
\* is what LinksAreWhole says of the tables that Relations are read from.
ASSUME DatabaseAssumption ==
  /\ Links!LinksAssumption
  /\ IsFiniteSet(Blocks) /\ NoOrigin \notin Blocks
  /\ \A rel \in Relations : rel.grade \in {"UNVERIFIED-HEURISTIC", "UNVERIFIED-USER-PROOF"}

all_vars == <<part, vars, links_vars, corpus>>

----------------------------------------------------------------------------
InBlocks == part = "blocks" /\ Next /\ UNCHANGED <<part, links_vars, corpus>>
InLinks  == part = "links" /\ Links!Next /\ UNCHANGED <<part, vars, corpus>>

\* Between two builds a row may come, change or go (CorpusStore says how).
RowChanges ==
  /\ part = "build"
  /\ \E b \in Blocks, row \in BlockRows \cup {NoBlock} : corpus' = [corpus EXCEPT ![b] = row]
  /\ UNCHANGED <<part, vars, links_vars>>

DatabaseInit ==
  /\ part \in {"blocks", "links", "build"}
  /\ Init /\ Links!Init
  /\ corpus = [b \in Blocks |-> NoBlock]

DatabaseNext == InBlocks \/ InLinks \/ RowChanges

DatabaseSpec == DatabaseInit /\ [][DatabaseNext]_all_vars

----------------------------------------------------------------------------
(* Properties; those of the block table are in CorpusStore.                *)

Ledger == INSTANCE CorpusLedger WITH
            rows <- blocks, Apply <- Upsert, Clear <- Pruned

\* Every change of the block table that a reader can see is one whole operation: a
\* batch whose scan fails, whose lock times out or whose process dies leaves no record
\* behind, and two connections never interleave inside a batch.
ImplementsLedger == Ledger!Spec

\* Stored relations are whole, unverified and change by whole files (see TxLinks).
LinksAreWhole == Links!LinksAreWhole

\* A backup that no change overlapped restores the relations it was made of, under the
\* name of the backup file.
BackupRestores == Links!BackupRestores

OfChains(set) == {b \in Blocks : OwnChain[b] \in set}

\* Whatever a build reads, in every mode: a record it calls verified has a verified
\* row; a verified grade is given to verified records only; LOCKED_LINK and EPOCH_LINK
\* keep exactly the records that every selected chain matches, by height or by epoch;
\* and sources from relations span two chains under the weakest grade of their
\* relations.
GradesAreEarned ==
  \A chains \in (SUBSET {OwnChain[b] : b \in Blocks}) \ {{}} :
    LET pool(mode, picked, listed) == Align!Eligible(corpus, chains, mode, picked, listed)
        honest(p) == p.ok => Align!HonestRecords(corpus, p) /\ Align!EarnedGrade(p)
        linked(mode, like(_, _)) ==
          LET p == pool(mode, {}, {}) IN
          p.ok => Align!Linked(Align!Rows(corpus, chains, mode), p, chains, like)
    IN  /\ \A mode \in {"SOLOCHAIN", "CROSSCHAIN", "LOCKED_LINK", "EPOCH_LINK"} :
             honest(pool(mode, {}, {}))
        /\ \A picked \in SUBSET OfChains(chains) : honest(pool("USER_PICKED", picked, {}))
        /\ linked("LOCKED_LINK", LAMBDA r, x : r.height = x.height)
        /\ linked("EPOCH_LINK", LAMBDA r, x : r.epoch # NoEpoch /\ r.epoch = x.epoch)
        /\ \A r, s \in Relations :
             LET p == pool("TX_LINKED", {}, {r, s}) IN
             /\ honest(p)
             /\ p.ok => Align!NoStrongerThanItsParts(corpus, {r, s}, p, chains)
=============================================================================
