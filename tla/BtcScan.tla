------------------------------ MODULE BtcScan ------------------------------
(***************************************************************************)
(* scan_btc_public_consensus: a descending scan of heights First..Last in  *)
(* provider batches, each committed in one transaction, and the session    *)
(* around it: the operator cancels, resumes from the reported height, or   *)
(* starts over when the scan raised or the process died.                   *)
(*                                                                         *)
(* A height is processed when both providers were asked about it: it is    *)
(* admitted when they agree and reported as a mismatch when they do not.   *)
(***************************************************************************)
EXTENDS Integers, FiniteSets

CONSTANTS
  First, Last,    \* the session's range of block heights
  BatchSize,      \* heights a provider returns per request (10)
  Hashes,         \* block hashes a provider may answer with
  Missing,        \* no answer for a height
  NoHeight        \* resume_height = None

ASSUME ScanAssumption ==
  /\ First \in Nat /\ Last \in Nat /\ First <= Last
  /\ BatchSize \in Nat \ {0}
  /\ Missing \notin Hashes
  /\ NoHeight \notin Int

VARIABLES
  pc,          \* "loop", "batch", "closing", "returned", "raised" or "dead"
  end,         \* the scan's upper bound; its lower bound is First
  current,     \* top of the batch in progress
  height,      \* next height of the batch
  done,        \* heights processed by this scan
  imported,    \* report.imported
  cancelled,   \* report.cancelled
  partial,     \* report.partial
  resume,      \* report.resume_height
  cancel,      \* the cancel event
  open,        \* heights written in the open transaction
  failed,      \* heights this scan put in report.mismatches
  fresh,       \* heights this scan committed
  accounted,   \* history: heights committed or reported by the session
  dropped,     \* history: heights a cancelled batch left out of the resume range
  due          \* history: heights processed when the cancel came

vars == <<pc, end, current, height, done, imported, cancelled, partial, resume,
          cancel, open, failed, fresh, accounted, dropped, due>>

report  == <<cancelled, partial, resume>>
signal  == <<cancel, due>>
ghosts  == <<accounted, dropped>>
results == <<done, imported, open, failed, fresh>>

Terminal == {"returned", "raised", "dead"}
Running  == {"loop", "batch", "closing"}

MaxOf(a, b) == IF a >= b THEN a ELSE b

Total == end - First + 1
\* Bug: the last batch is not cut at the lower bound.
Floor_Unbounded == current - (BatchSize - 1)

Floor == MaxOf(First, current - (BatchSize - 1))

----------------------------------------------------------------------------
(* The scan.                                                               *)

Scan(top) ==
  /\ pc' = "loop"
  /\ end' = top /\ current' = top /\ height' = top
  /\ done' = 0 /\ imported' = 0
  /\ cancelled' = FALSE /\ partial' = FALSE /\ resume' = NoHeight
  /\ cancel' = FALSE
  /\ open' = {} /\ failed' = {} /\ fresh' = {}
  /\ due' = 0

Leave == pc' = "closing"

\* while current >= start: the cancel check at the top of a batch.
CancelAtTop ==
  /\ pc = "loop" /\ current >= First
  /\ cancel
  /\ cancelled' = TRUE
  /\ partial' = (done < Total)
  /\ Leave
  /\ UNCHANGED <<end, current, height, resume, signal, results, ghosts>>

\* Bug: the failed height is taken for a processed one.
FetchFails_StepsOver ==
  /\ pc = "loop" /\ current >= First
  /\ ~cancel
  /\ partial' = (done < Total)
  /\ resume' = MaxOf(First, current - 1)
  /\ Leave
  /\ UNCHANGED <<end, current, height, cancelled, signal, results, ghosts>>

\* Either provider raises AcquisitionError (429, HTTP or network failure).
FetchFails ==
  /\ pc = "loop" /\ current >= First
  /\ ~cancel
  /\ partial' = (done < Total)
  /\ resume' = current
  /\ Leave
  /\ UNCHANGED <<end, current, height, cancelled, signal, results, ghosts>>

\* Both providers answered; the batch transaction opens.
FetchBatch ==
  /\ pc = "loop" /\ current >= First
  /\ ~cancel
  /\ height' = current
  /\ pc' = "batch"
  /\ UNCHANGED <<end, current, signal, report, results, ghosts>>

\* An exception the loop does not catch: the governor's "budget exhausted",
\* an unreadable answer, a locked database.  The open transaction rolls back.
Raise ==
  /\ pc \in {"loop", "batch"}
  /\ pc' = "raised"
  /\ open' = {}
  /\ UNCHANGED <<end, current, height, done, imported, failed, fresh, report, signal, ghosts>>

Agree(a, b) == a # Missing /\ b # Missing /\ a = b

\* One height of the batch: admitted, or reported as a mismatch.
ProcessHeight ==
  /\ pc = "batch" /\ height >= Floor
  /\ ~cancel
  /\ \E a, b \in Hashes \cup {Missing} :
       IF Agree(a, b)
         THEN /\ open' = open \cup {height}
              /\ imported' = imported + 1
              /\ UNCHANGED failed
         ELSE /\ failed' = failed \cup {height}
              /\ UNCHANGED <<open, imported>>
  /\ done' = done + 1
  /\ height' = height - 1
  /\ UNCHANGED <<pc, end, current, fresh, report, signal, ghosts>>

Commit ==
  /\ fresh' = fresh \cup open
  /\ open' = {}
  /\ accounted' = accounted \cup open \cup failed
  /\ UNCHANGED <<end, height, done, imported, failed, signal>>

\* The cancel check in front of a height: break, commit, report.
CancelInBatch ==
  /\ pc = "batch" /\ height >= Floor
  /\ cancel
  /\ Commit
  /\ cancelled' = TRUE
  /\ partial' = (done < Total)
  /\ resume' = IF Floor > First THEN Floor - 1 ELSE NoHeight
  /\ dropped' = IF Floor > First THEN dropped \cup Floor .. height ELSE dropped
  /\ Leave
  /\ UNCHANGED current

CommitBatch ==
  /\ pc = "batch" /\ height < Floor
  /\ Commit
  /\ current' = Floor - 1
  /\ pc' = "loop"
  /\ UNCHANGED <<report, dropped>>

Finish ==
  /\ pc = "loop" /\ current < First
  /\ Leave
  /\ UNCHANGED <<end, current, height, signal, report, results, ghosts>>

\* Bug: the fallback for the resume height is missing.
Return_NoFallback ==
  /\ pc = "closing"
  /\ partial' = (partial \/ done < Total)
  /\ pc' = "returned"
  /\ UNCHANGED <<end, current, height, cancelled, resume, signal, results, ghosts>>

\* After the loop: the last fallbacks, then the report is handed over.
Return ==
  /\ pc = "closing"
  /\ partial' = (partial \/ done < Total)
  /\ resume' = IF partial' /\ resume = NoHeight /\ current >= First THEN current ELSE resume
  /\ pc' = "returned"
  /\ UNCHANGED <<end, current, height, cancelled, signal, results, ghosts>>

----------------------------------------------------------------------------
(* The session around the scan.                                            *)

\* The worker is a daemon thread: closing the window kills it anywhere.
Die ==
  /\ pc \in Running
  /\ pc' = "dead"
  /\ open' = {}
  /\ UNCHANGED <<end, current, height, done, imported, failed, fresh, report, signal, ghosts>>

RequestCancel ==
  /\ pc \in Running
  /\ ~cancel
  /\ cancel' = TRUE
  /\ due' = done
  /\ UNCHANGED <<pc, end, current, height, report, results, ghosts>>

\* The operator scans on from the height the partial report names.
Resume ==
  /\ pc = "returned" /\ partial
  /\ resume \in First .. Last
  /\ Scan(resume)
  /\ UNCHANGED ghosts

\* No report reached the operator: the whole range is scanned again.
StartOver ==
  /\ pc \in {"raised", "dead"}
  /\ Scan(Last)
  /\ UNCHANGED ghosts

----------------------------------------------------------------------------
Init ==
  /\ pc = "loop"
  /\ end = Last /\ current = Last /\ height = Last
  /\ done = 0 /\ imported = 0
  /\ cancelled = FALSE /\ partial = FALSE /\ resume = NoHeight
  /\ cancel = FALSE
  /\ open = {} /\ failed = {} /\ fresh = {}
  /\ accounted = {} /\ dropped = {} /\ due = 0

Worker ==
  \/ CancelAtTop \/ FetchFails \/ FetchBatch \/ ProcessHeight
  \/ CancelInBatch \/ CommitBatch \/ Finish \/ Return

Next == Worker \/ Raise \/ Die \/ RequestCancel \/ Resume \/ StartOver

Spec == Init /\ [][Next]_vars

----------------------------------------------------------------------------
(* Properties.                                                             *)

TypeOK ==
  /\ pc \in Running \cup Terminal
  /\ end \in First .. Last
  /\ current \in First - 1 .. end
  /\ height \in First - 1 .. end
  /\ done \in Nat /\ imported \in Nat /\ due \in Nat
  /\ cancelled \in BOOLEAN /\ partial \in BOOLEAN /\ cancel \in BOOLEAN
  /\ resume \in First .. Last \cup {NoHeight}
  /\ open \subseteq First .. Last /\ failed \subseteq First .. Last
  /\ fresh \subseteq First .. Last
  /\ accounted \subseteq First .. Last /\ dropped \subseteq First .. Last

\* Heights the session will still scan: what is left of a running scan, the
\* resume range of a partial report, everything when no report was delivered.
Remaining ==
  IF pc \in {"raised", "dead"} THEN First .. Last
  ELSE IF pc = "returned" /\ (~partial \/ resume = NoHeight) THEN {}
  ELSE First .. (IF pc \in {"closing", "returned"} /\ resume # NoHeight THEN resume ELSE current)

\* No height of the session is silently skipped: at every moment each height
\* is stored, reported as a mismatch, still to be scanned, or one of those a
\* cancelled batch cut off.
Covered == First .. Last \subseteq accounted \cup Remaining \cup dropped

\* Between batches and in every delivered report, `imported` counts exactly
\* the rows the corpus keeps: no counted row is still inside a transaction.
ImportedIsDurable ==
  pc \in {"loop", "closing", "returned"} =>
    /\ open = {}
    /\ Cardinality(fresh) = imported

\* A report that is not partial processed every height of its range, and a
\* partial one says where to go on.
ReportIsHonest ==
  pc = "returned" =>
    /\ ~partial => First .. end = fresh \cup failed
    /\ partial => resume # NoHeight /\ resume < end + 1
    /\ done = Cardinality(fresh) + Cardinality(failed)

\* A resume after a provider failure repeats no height that was processed.
ResumeRepeatsNothing ==
  pc = "returned" /\ partial /\ ~cancelled =>
    First .. resume \cap (fresh \cup failed) = {}

\* A cancel is prompt: the report that follows it counts no height more than were
\* processed when it came, whatever the batch was or still held.
CancelIsPrompt == pc = "returned" /\ cancel => done = due
============================================================================
