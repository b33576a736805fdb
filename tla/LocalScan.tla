----------------------------- MODULE LocalScan -----------------------------
(***************************************************************************)
(* scan_local: a scan of a local node.  The scanner is a generator: it     *)
(* asks the node for a chunk of heights at a time (200 for the Core        *)
(* family, 1000 for monerod), looks at the cancel event only between two   *)
(* chunks, and yields one record at a time into a single transaction that  *)
(* spans the whole scan.                                                   *)
(*                                                                         *)
(* A node of the Core family answers for every height of a chunk, or the   *)
(* scan raises.  monerod's answer is taken as it comes: headers that it    *)
(* leaves out are not missed, and the scan goes on behind the chunk.       *)
(***************************************************************************)
EXTENDS Integers, FiniteSets

CONSTANTS
  First, Last,    \* the session's range of block heights
  ChunkSize,      \* heights per node request
  NoHeight        \* resume_height = None

ScanAssumption ==
  /\ First \in Nat /\ Last \in Nat /\ First <= Last
  /\ ChunkSize \in Nat \ {0}
  /\ NoHeight \notin Int

VARIABLES
  family,      \* "core" or "monerod"
  pc,          \* "chunk", "rows", "committed", "returned", "raised" or "dead"
  start,       \* lower bound of the scan in progress; the upper one is Last
  base,        \* first height of the chunk at hand or the next one
  answer,      \* heights of the chunk at hand that are still to be yielded
  yielded,     \* records taken from the generator, report.completed
  uncommitted, \* heights written in the open transaction
  stored,      \* heights this scan committed
  cancelled, partial, resume,   \* the report
  cancel,      \* the cancel event
  kept,        \* history: heights the session committed
  omitted,     \* history: heights that answers of its committed scans left out
  due          \* history: the end of what was asked for when the cancel came

vars == <<family, pc, start, base, answer, yielded, uncommitted, stored,
          cancelled, partial, resume, cancel, kept, omitted, due>>

rows    == <<answer, yielded, uncommitted>>
report  == <<cancelled, partial, resume>>
signal  == <<cancel, due>>
session == <<family, kept, omitted>>

Terminal == {"returned", "raised", "dead"}
Running  == {"chunk", "rows", "committed"}

Requested == Last - start + 1
ChunkEnd  == IF base + ChunkSize <= Last + 1 THEN base + ChunkSize ELSE Last + 1

----------------------------------------------------------------------------
(* The scan.                                                               *)

Scan(lo) ==
  /\ pc' = "chunk"
  /\ start' = lo /\ base' = lo
  /\ answer' = {} /\ yielded' = 0
  /\ uncommitted' = {} /\ stored' = {}
  /\ cancelled' = FALSE /\ partial' = FALSE /\ resume' = NoHeight
  /\ cancel' = FALSE /\ due' = lo

\* What a node may answer for the chunk at hand: JsonRpcClient.batch raises when one
\* of the calls has no result, result.get("headers", []) takes whatever there is.
Answers ==
  IF family = "core" THEN {base .. ChunkEnd - 1} ELSE SUBSET (base .. ChunkEnd - 1)

\* Bug: the generator does not look at the cancel event.
FetchChunk_NoCheck ==
  /\ pc = "chunk" /\ base <= Last
  /\ answer' \in Answers
  /\ pc' = "rows"
  /\ UNCHANGED <<start, base, yielded, uncommitted, stored, report, signal, session>>

\* scan_range asks the node for the next chunk.
FetchChunk ==
  /\ pc = "chunk" /\ base <= Last
  /\ ~cancel
  /\ answer' \in Answers
  /\ pc' = "rows"
  /\ UNCHANGED <<start, base, yielded, uncommitted, stored, report, signal, session>>

\* The next record of the answer: db.add inside the scan's transaction.
YieldRecord ==
  /\ pc = "rows"
  /\ \E h \in answer :
       /\ answer' = answer \ {h}
       /\ uncommitted' = uncommitted \cup {h}
  /\ yielded' = yielded + 1
  /\ UNCHANGED <<pc, start, base, stored, report, signal, session>>

\* The answer is used up: the next chunk begins behind this one.
NextChunk ==
  /\ pc = "rows" /\ answer = {}
  /\ base' = ChunkEnd
  /\ pc' = "chunk"
  /\ UNCHANGED <<start, rows, stored, report, signal, session>>

\* The generator is exhausted, or it saw the cancel event: the one commit.
CommitScan ==
  /\ pc = "chunk"
  /\ cancel \/ base > Last
  /\ stored' = uncommitted
  /\ kept' = kept \cup uncommitted
  /\ omitted' = omitted \cup ((start .. base - 1) \ uncommitted)
  /\ uncommitted' = {}
  /\ pc' = "committed"
  /\ UNCHANGED <<family, start, base, answer, yielded, report, signal>>

\* Bug: the resume height is one too far.
Return_StepsOver ==
  /\ pc = "committed"
  /\ cancelled' = cancel
  /\ partial' = (yielded < Requested)
  /\ resume' = IF cancel THEN start + yielded + 1 ELSE NoHeight
  /\ pc' = "returned"
  /\ UNCHANGED <<start, base, rows, stored, signal, session>>

\* The report is filled in after the commit, from the event as it is by then.
Return ==
  /\ pc = "committed"
  /\ cancelled' = cancel
  /\ partial' = (yielded < Requested)
  /\ resume' = IF cancel THEN start + yielded ELSE NoHeight
  /\ pc' = "returned"
  /\ UNCHANGED <<start, base, rows, stored, signal, session>>

Broken(state) ==
  /\ pc' = state
  /\ uncommitted' = {}
  /\ UNCHANGED <<start, base, answer, yielded, stored, report, signal, session>>

\* A node error, an invalid hash or a locked database: everything rolls back.
Raise == pc \in {"chunk", "rows"} /\ Broken("raised")

----------------------------------------------------------------------------
(* The session around the scan.                                            *)

Die == pc \in Running /\ Broken("dead")

RequestCancel ==
  /\ pc \in Running
  /\ ~cancel
  /\ cancel' = TRUE
  /\ due' = IF pc = "rows" THEN ChunkEnd ELSE base
  /\ UNCHANGED <<pc, start, base, rows, stored, report, session>>

\* The operator scans on from the height the partial report names.
Resume ==
  /\ pc = "returned" /\ partial
  /\ resume \in First .. Last
  /\ Scan(resume)
  /\ UNCHANGED session

\* No report reached the operator, or a partial one without a resume height: the
\* same range is scanned again.
StartOver ==
  /\ pc \in {"raised", "dead"} \/ (pc = "returned" /\ partial /\ resume = NoHeight)
  /\ Scan(start)
  /\ UNCHANGED session

----------------------------------------------------------------------------
Init ==
  /\ family \in {"core", "monerod"}
  /\ pc = "chunk"
  /\ start = First /\ base = First
  /\ answer = {} /\ yielded = 0
  /\ uncommitted = {} /\ stored = {} /\ kept = {} /\ omitted = {}
  /\ cancelled = FALSE /\ partial = FALSE /\ resume = NoHeight
  /\ cancel = FALSE /\ due = First

Worker == FetchChunk \/ YieldRecord \/ NextChunk \/ CommitScan \/ Return

Next == Worker \/ Raise \/ Die \/ RequestCancel \/ Resume \/ StartOver

Spec == Init /\ [][Next]_vars

----------------------------------------------------------------------------
(* Properties.                                                             *)

TypeOK ==
  /\ family \in {"core", "monerod"}
  /\ pc \in Running \cup Terminal
  /\ start \in First .. Last
  /\ base \in First .. Last + 1 /\ due \in First .. Last + 1
  /\ yielded \in 0 .. Requested
  /\ {cancelled, partial, cancel} \subseteq BOOLEAN
  /\ resume \in First .. Last + 1 \cup {NoHeight}
  /\ {answer, uncommitted, stored, kept, omitted} \subseteq SUBSET (First .. Last)

\* A hole in what a session has committed is the node's: up to the scan in progress
\* and up to the resume height of a delivered report every height is committed or was
\* left out by an answer, however cancels, node errors and deaths of the process
\* alternate; and a node of the Core family leaves none.
NoHoles ==
  /\ kept \cup omitted = First .. (First + Cardinality(kept \cup omitted) - 1)
  /\ First .. (start - 1) \subseteq kept \cup omitted
  /\ pc = "returned" =>
       First .. ((IF resume = NoHeight THEN Last + 1 ELSE resume) - 1) \subseteq kept \cup omitted
  /\ family = "core" => omitted = {}

\* A delivered report counts exactly the rows its one commit stored, and is partial
\* just when a height of the range is not among them.  Only a cancel gives it a resume
\* height, which never lies behind what was asked for: with a short answer it is too
\* low and repeats heights, without one it is exact.  A report that is partial and
\* names no resume height comes from a short answer.
ReportMatchesCommit ==
  pc = "returned" =>
    /\ Cardinality(stored) = yielded
    /\ partial <=> stored # start .. Last
    /\ resume = IF cancelled THEN start + yielded ELSE NoHeight
    /\ cancelled => resume <= base
    /\ ~cancelled => base = Last + 1
    /\ stored = start .. (base - 1) \/ (start .. (base - 1)) \cap omitted # {}

\* A cancel is prompt: the scan that follows it commits no height beyond the chunk that
\* had been asked for when it came.
CancelIsPrompt == pc = "returned" /\ cancel => \A h \in stored : h < due
============================================================================
