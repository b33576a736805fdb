---------------------------- MODULE Acquisition ----------------------------
(***************************************************************************)
(* Corpus acquisition: the worker dispatches a session to the scan of the  *)
(* source the operator chose, two public BTC providers, the BlockCypher    *)
(* seed or a local node.  A session stays with its source, so one scan     *)
(* moves and the variables of the other two stand still.                   *)
(***************************************************************************)
EXTENDS BtcScan

CONSTANTS
  SeedBatch, Budget,     \* of the seed scan
  ChunkSize              \* of the node scan

VARIABLES
  source,   \* "btc", "seed" or "node"
  seed_pc, seed_start, seed_end, seed_descending, seed_done, seed_requests,
  seed_pending, seed_stored, seed_cancelled, seed_partial, seed_resume,
  seed_cancel, seed_kept, seed_skipped, seed_due,
  node_family, node_pc, node_start, node_base, node_answer, node_yielded,
  node_uncommitted, node_stored, node_cancelled, node_partial, node_resume,
  node_cancel, node_kept, node_omitted, node_due

seed_vars == <<seed_pc, seed_start, seed_end, seed_descending, seed_done, seed_requests,
               seed_pending, seed_stored, seed_cancelled, seed_partial, seed_resume,
               seed_cancel, seed_kept, seed_skipped, seed_due>>
node_vars == <<node_family, node_pc, node_start, node_base, node_answer, node_yielded,
               node_uncommitted, node_stored, node_cancelled, node_partial, node_resume,
               node_cancel, node_kept, node_omitted, node_due>>
all_vars  == <<source, vars, seed_vars, node_vars>>

Seed == INSTANCE SeedScan WITH
  CommitBatch <- SeedBatch,
  pc <- seed_pc, start <- seed_start, end <- seed_end, descending <- seed_descending,
  done <- seed_done, requests <- seed_requests, pending <- seed_pending,
  stored <- seed_stored, cancelled <- seed_cancelled, partial <- seed_partial,
  resume <- seed_resume, cancel <- seed_cancel, kept <- seed_kept, skipped <- seed_skipped,
  due <- seed_due

Node == INSTANCE LocalScan WITH
  family <- node_family, pc <- node_pc, start <- node_start, base <- node_base,
  answer <- node_answer, yielded <- node_yielded, uncommitted <- node_uncommitted,
  stored <- node_stored, cancelled <- node_cancelled, partial <- node_partial,
  resume <- node_resume, cancel <- node_cancel, kept <- node_kept,
  omitted <- node_omitted, due <- node_due

ASSUME AcquisitionAssumption == Seed!ScanAssumption /\ Node!ScanAssumption

----------------------------------------------------------------------------
\* The branches of the worker of _start_scan.
FromBtc(step)  == source = "btc" /\ step /\ UNCHANGED <<source, seed_vars, node_vars>>
FromSeed(step) == source = "seed" /\ step /\ UNCHANGED <<source, vars, node_vars>>
FromNode(step) == source = "node" /\ step /\ UNCHANGED <<source, vars, seed_vars>>

AcquisitionInit ==
  /\ source \in {"btc", "seed", "node"}
  /\ Init /\ Seed!Init /\ Node!Init
  /\ source # "seed" => ~seed_descending
  /\ source # "node" => node_family = "core"

AcquisitionNext == FromBtc(Next) \/ FromSeed(Seed!Next) \/ FromNode(Node!Next)

AcquisitionSpec == AcquisitionInit /\ [][AcquisitionNext]_all_vars

----------------------------------------------------------------------------
(* Properties; Covered is that of BtcScan.                                 *)

\* The type invariants of the three scans.
TypesOK == TypeOK /\ Seed!TypeOK /\ Node!TypeOK

\* A delivered BTC report tells the truth: what it counts is committed, it is
\* complete or says where to go on, and going on after a provider failure repeats
\* no height.
BtcReportIsTrue == ImportedIsDurable /\ ReportIsHonest /\ ResumeRepeatsNothing

\* No height of a seed session is silently skipped, except the one height per
\* interruption that a descending report leaves out.
SeedCovered == Seed!Covered

\* What is committed has no holes but those a node leaves.  A seed scan has committed
\* its beginning, a report counts exactly that, and less than one flush of records is
\* at risk; a node session has, up to the resume height, every height that the node
\* answered for, however cancels, node errors and deaths of the process alternate, and
\* a report counts what its scan's one commit stored and is partial when that is short.
CommittedIsWhole ==
  /\ Seed!StoredIsPrefix /\ Seed!AtRiskBounded
  /\ Node!NoHoles /\ Node!ReportMatchesCommit

\* No height at all is left out by the reports of seed scans.
SeedResumeSkipsNothing == Seed!ResumeSkipsNothing

\* Whatever stops a seed scan short of a crash, the records it fetched are kept
\* ("a public-provider failure no longer discards records collected earlier").
SeedFailureKeepsRecords == Seed!FailureKeepsRecords

\* Whatever the source, a cancel is answered at once: the report that follows it holds
\* nothing that had not been taken up, or asked for in one chunk, when it came.
CancelIsAnswered == CancelIsPrompt /\ Seed!CancelIsPrompt /\ Node!CancelIsPrompt
============================================================================
