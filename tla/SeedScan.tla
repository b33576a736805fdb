------------------------------ MODULE SeedScan ------------------------------
(***************************************************************************)
(* scan_ltc_blockcypher: one height per request, in either direction, the  *)
(* records gathered in `pending` and flushed to the corpus in small        *)
(* transactions; and the session around it (cancel, resume, start over).   *)
(* The provider's governor refuses a request beyond the budget with an     *)
(* error the scan does not catch.                                          *)
(***************************************************************************)
EXTENDS Integers, FiniteSets

CONSTANTS
  First, Last,     \* the session's range of block heights
  CommitBatch,     \* pending records that trigger a flush (10)
  Budget,          \* requests a provider instance admits (at most 30)
  NoHeight         \* resume_height = None

ScanAssumption ==
  /\ First \in Nat /\ Last \in Nat /\ First <= Last
  /\ CommitBatch \in Nat \ {0}
  /\ Budget \in Nat
  /\ NoHeight \notin Int

VARIABLES
  pc,          \* "loop", "flush", "closing", "returned", "raised" or "dead"
  start, end,  \* the range of the scan in progress
  descending,  \* its direction: a scan of the latest blocks goes down
  done,        \* heights processed, report.completed and report.imported
  requests,    \* requests the governor has admitted
  pending,     \* records fetched and not yet written
  stored,      \* heights this scan committed
  cancelled, partial, resume,   \* the report
  cancel,      \* the cancel event
  kept,        \* history: heights the session committed
  skipped,     \* history: unfetched heights a descending report left out
  due          \* history: heights processed when the cancel came

vars == <<pc, start, end, descending, done, requests, pending, stored,
          cancelled, partial, resume, cancel, kept, skipped, due>>

report == <<cancelled, partial, resume>>
range  == <<start, end, descending>>
signal == <<cancel, due>>

Terminal == {"returned", "raised", "dead"}
Running  == {"loop", "flush", "closing"}

Total == end - start + 1

\* The height in front of the loop: the first one not processed.
Height == IF descending THEN end - done ELSE start + done

\* Bug: off by one, in both directions.
ResumeAt_StepsOver == IF descending THEN Height - 2 ELSE Height + 1

\* report.resume_height of an interrupted scan.
ResumeAt == IF descending THEN Height - 1 ELSE Height

----------------------------------------------------------------------------
(* The scan.                                                               *)

Scan(lo, hi, down) ==
  /\ pc' = "loop"
  /\ start' = lo /\ end' = hi /\ descending' = down
  /\ done' = 0 /\ requests' = 0
  /\ pending' = {} /\ stored' = {}
  /\ cancelled' = FALSE /\ partial' = FALSE /\ resume' = NoHeight
  /\ cancel' = FALSE /\ due' = 0

\* with db.conn: every pending record, or none of them.
Flush ==
  /\ stored' = stored \cup pending
  /\ kept' = kept \cup pending
  /\ pending' = {}

Interrupt ==
  /\ resume' = ResumeAt
  /\ skipped' = IF descending THEN skipped \cup {Height} ELSE skipped
  /\ pc' = "closing"

CancelAtTop ==
  /\ pc = "loop" /\ done < Total
  /\ cancel
  /\ cancelled' = TRUE
  /\ partial' = (done < Total)
  /\ Interrupt
  /\ UNCHANGED <<range, done, requests, pending, stored, signal, kept>>

\* AcquisitionError: HTTP 429, another HTTP status, an unreachable host.
ProviderFails ==
  /\ pc = "loop" /\ done < Total
  /\ ~cancel
  /\ requests < Budget
  /\ requests' = requests + 1
  /\ Flush
  /\ partial' = TRUE
  /\ Interrupt
  /\ UNCHANGED <<range, done, cancelled, signal>>

FetchOne ==
  /\ pc = "loop" /\ done < Total
  /\ ~cancel
  /\ requests < Budget
  /\ requests' = requests + 1
  /\ pending' = pending \cup {Height}
  /\ done' = done + 1
  /\ pc' = "flush"
  /\ UNCHANGED <<range, stored, report, signal, kept, skipped>>

\* Bug: > instead of >=.
FlushWhenFull_Late ==
  /\ pc = "flush"
  /\ IF Cardinality(pending) > CommitBatch
       THEN Flush
       ELSE UNCHANGED <<pending, stored, kept>>
  /\ pc' = "loop"
  /\ UNCHANGED <<range, done, requests, report, signal, skipped>>

\* if len(pending) >= commit_batch: flush()
FlushWhenFull ==
  /\ pc = "flush"
  /\ IF Cardinality(pending) >= CommitBatch
       THEN Flush
       ELSE UNCHANGED <<pending, stored, kept>>
  /\ pc' = "loop"
  /\ UNCHANGED <<range, done, requests, report, signal, skipped>>

\* governor.acquire: RuntimeError("provider request budget exhausted").
BudgetExhausted ==
  /\ pc = "loop" /\ done < Total
  /\ ~cancel
  /\ requests >= Budget
  /\ pc' = "raised"
  /\ UNCHANGED <<range, done, requests, pending, stored, report, signal, kept, skipped>>

\* Any other exception: a read timeout, an answer without a hash, a locked
\* database during a flush (which then wrote nothing).
Raise ==
  /\ pc \in Running
  /\ pc' = "raised"
  /\ UNCHANGED <<range, done, requests, pending, stored, report, signal, kept, skipped>>

Finish ==
  /\ pc = "loop" /\ done = Total
  /\ pc' = "closing"
  /\ UNCHANGED <<range, done, requests, pending, stored, report, signal, kept, skipped>>

\* After the loop: the last flush and the last fallback.
Return ==
  /\ pc = "closing"
  /\ Flush
  /\ partial' = (partial \/ (done < Total /\ ~cancelled))
  /\ pc' = "returned"
  /\ UNCHANGED <<range, done, requests, cancelled, resume, signal, skipped>>

----------------------------------------------------------------------------
(* The session around the scan.                                            *)

\* The worker is a daemon thread: closing the window kills it anywhere.
Die ==
  /\ pc \in Running
  /\ pc' = "dead"
  /\ UNCHANGED <<range, done, requests, pending, stored, report, signal, kept, skipped>>

RequestCancel ==
  /\ pc \in Running
  /\ ~cancel
  /\ cancel' = TRUE
  /\ due' = done
  /\ UNCHANGED <<pc, range, done, requests, pending, stored, report, kept, skipped>>

\* The operator scans on from the height the partial report names.  A typed range
\* is always scanned upwards.
Resume ==
  /\ pc = "returned" /\ partial
  /\ resume \in First .. Last
  /\ IF descending THEN Scan(start, resume, FALSE) ELSE Scan(resume, end, FALSE)
  /\ UNCHANGED <<kept, skipped>>

\* No report reached the operator: the whole range is scanned again.
StartOver ==
  /\ pc \in {"raised", "dead"}
  /\ \E down \in BOOLEAN : Scan(First, Last, down)
  /\ UNCHANGED <<kept, skipped>>

----------------------------------------------------------------------------
Init ==
  /\ pc = "loop"
  /\ start = First /\ end = Last /\ descending \in BOOLEAN
  /\ done = 0 /\ requests = 0
  /\ pending = {} /\ stored = {} /\ kept = {} /\ skipped = {}
  /\ cancelled = FALSE /\ partial = FALSE /\ resume = NoHeight
  /\ cancel = FALSE /\ due = 0

Worker ==
  \/ CancelAtTop \/ ProviderFails \/ FetchOne \/ FlushWhenFull
  \/ BudgetExhausted \/ Finish \/ Return

Next == Worker \/ Raise \/ Die \/ RequestCancel \/ Resume \/ StartOver

Spec == Init /\ [][Next]_vars

----------------------------------------------------------------------------
(* Properties.                                                             *)

Fetched == IF descending THEN (end - done + 1) .. end ELSE start .. (start + done - 1)

TypeOK ==
  /\ pc \in Running \cup Terminal
  /\ start \in First .. Last /\ end \in First .. Last /\ start <= end
  /\ done \in 0 .. Total
  /\ requests \in 0 .. Budget /\ due \in Nat
  /\ {cancelled, partial, cancel, descending} \subseteq BOOLEAN
  /\ resume \in (First - 1) .. Last \cup {NoHeight}
  /\ {pending, stored, kept, skipped} \subseteq SUBSET (First .. Last)

\* Heights the session will still scan once the scan in progress is over.
Remaining ==
  IF pc \in {"raised", "dead"} THEN First .. Last
  ELSE IF pc \in {"loop", "flush"} THEN (start .. end) \ Fetched
  ELSE IF resume = NoHeight THEN {}
  ELSE IF descending THEN start .. resume ELSE resume .. end

\* No height of the session is silently skipped: each one is committed, about
\* to be flushed, still to be scanned, or the one height per interruption that
\* a descending report leaves out.
Covered ==
  First .. Last \subseteq
    kept \cup Remaining \cup skipped \cup (IF pc \in Running THEN pending ELSE {})

\* The stronger promise of a resumable report: none is left out at all.
ResumeSkipsNothing ==
  First .. Last \subseteq kept \cup Remaining \cup (IF pc \in Running THEN pending ELSE {})

\* What is committed is always the beginning of the scan, without holes, and
\* a delivered report counts exactly the committed records.
StoredIsPrefix ==
  /\ Fetched = stored \cup pending
  /\ stored \cap pending = {}
  /\ pc = "returned" => pending = {} /\ Cardinality(stored) = done

\* At most CommitBatch records are ever at risk, and fewer than that between
\* two requests: what an uncaught error or a crash can cost.
AtRiskBounded ==
  /\ Cardinality(pending) <= CommitBatch
  /\ pc = "loop" => Cardinality(pending) < CommitBatch

\* Whatever stops the scan short of a crash, the records it fetched are kept
\* ("a public-provider failure no longer discards records collected earlier").
FailureKeepsRecords == pc = "raised" => Fetched \subseteq stored

\* A cancel is prompt: the report that follows it counts no height more than were
\* processed when it came.
CancelIsPrompt == pc = "returned" /\ cancel => done = due
=============================================================================
