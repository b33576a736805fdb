------------------------- MODULE AcquisitionProofs -------------------------
(***************************************************************************)
(* The invariants of the three scans, for the worker that runs them, every *)
(* range, batch, flush and chunk size and every budget.                    *)
(*                                                                         *)
(* The first part is about the BTC scan alone (BtcScan's Spec): its        *)
(* inductive invariant says how far the scan has accounted for its range   *)
(* at every point of the loop, and that the report it closes with names a  *)
(* resume height whenever something is left.                               *)
(*                                                                         *)
(* The invariant of the seed scan (Seed!Spec) says that what lies outside  *)
(* the scan's range is settled, that what was fetched is stored or         *)
(* pending, and that the scan closes either at its end or with the resume  *)
(* height of its position, in either direction.                            *)
(*                                                                         *)
(* Then a session of the worker is shown to be a behaviour of each of      *)
(* them, in which the scans of the other sources stand still.  The local   *)
(* node scan is proved for the worker's session at once.                   *)
(***************************************************************************)
EXTENDS Acquisition, FiniteSetTheorems, TLAPS

----------------------------------------------------------------------------
(* The BTC scan.                                                           *)

Settled == accounted \cup dropped

\* Between batches everything above current is settled.
AtLoop ==
  pc = "loop" =>
    /\ done = end - current
    /\ resume = NoHeight
    /\ current + 1 .. Last \subseteq Settled

\* Within a batch the heights above `height` are written or reported as well.
InBatch ==
  pc = "batch" =>
    /\ First <= current /\ height <= current /\ Floor - 1 <= height
    /\ done = end - height
    /\ resume = NoHeight
    /\ current + 1 .. Last \subseteq Settled
    /\ height + 1 .. current \subseteq open \cup failed

\* The loop is left with a partial report, or with nothing left to scan.
AtClosing ==
  pc = "closing" =>
    /\ resume # NoHeight => partial
    /\ resume = NoHeight /\ ~partial => current < First

IInv == TypeOK /\ AtLoop /\ InBatch /\ AtClosing /\ Covered

----------------------------------------------------------------------------
(* A batch begins where it should.                                         *)

\* The lowest height of a batch lies in the scan's range.
LEMMA FloorBounds ==
  ASSUME current \in Int, First <= current
  PROVE  /\ Floor \in Int
         /\ First <= Floor /\ Floor <= current
BY ScanAssumption DEF Floor, MaxOf

\* A scan from an allowed height satisfies the invariant when the heights
\* above it are settled.
LEMMA ScanStarts ==
  ASSUME NEW top \in First .. Last, Scan(top), UNCHANGED ghosts, TypeOK,
         top + 1 .. Last \subseteq Settled
  PROVE  IInv'
<1>1. TypeOK'
  <2>1. cancelled' \in BOOLEAN /\ partial' \in BOOLEAN /\ cancel' \in BOOLEAN
    BY Zenon DEF Scan
  <2>2. QED
    BY ScanAssumption, <2>1 DEF TypeOK, Scan, ghosts, Running, Terminal
<1>2. AtLoop' /\ InBatch' /\ AtClosing'
  BY ScanAssumption DEF AtLoop, InBatch, AtClosing, Scan, ghosts, Settled
<1>3. Covered'
  BY ScanAssumption DEF Covered, Remaining, Scan, ghosts, Settled
<1>4. QED
  BY <1>1, <1>2, <1>3 DEF IInv

----------------------------------------------------------------------------
(* Initialisation and the steps.                                           *)

\* The first scan starts with nothing above it.
LEMMA Initial == Init => IInv
<1> SUFFICES ASSUME Init PROVE IInv
  OBVIOUS
<1>1. TypeOK
  <2>1. cancelled \in BOOLEAN /\ partial \in BOOLEAN /\ cancel \in BOOLEAN
    BY Zenon DEF Init
  <2>2. QED
    BY ScanAssumption, <2>1 DEF Init, TypeOK, Running, Terminal
<1>2. AtLoop /\ InBatch /\ AtClosing
  BY ScanAssumption DEF Init, AtLoop, InBatch, AtClosing
<1>3. Covered
  BY ScanAssumption DEF Init, Covered, Remaining
<1>4. QED
  BY <1>1, <1>2, <1>3 DEF IInv

\* Leaving the loop at the top of a batch: cancelled, failed or finished.
LEMMA LeavingKeeps ==
  ASSUME IInv, CancelAtTop \/ FetchFails \/ Finish
  PROVE  IInv'
<1> USE ScanAssumption
<1>1. TypeOK /\ AtLoop /\ Covered /\ pc = "loop"
  BY DEF IInv, CancelAtTop, FetchFails, Finish
<1>2. TypeOK'
  <2>1. cancelled' \in BOOLEAN /\ partial' \in BOOLEAN /\ cancel' \in BOOLEAN
    <3>1. CASE CancelAtTop \/ FetchFails
      <4>1. partial' = TRUE
        BY <1>1, <3>1 DEF TypeOK, AtLoop, Total, CancelAtTop, FetchFails
      <4>2. cancelled' \in BOOLEAN /\ cancel' \in BOOLEAN
        BY <1>1, <3>1, Zenon DEF TypeOK, signal, CancelAtTop, FetchFails
      <4>3. QED
        BY <4>1, <4>2
    <3>2. CASE Finish
      BY <1>1, <3>2 DEF TypeOK, signal, Finish, report
    <3>3. QED
      BY <3>1, <3>2
  <2>2. resume' \in First .. Last \cup {NoHeight}
    BY <1>1 DEF TypeOK, CancelAtTop, FetchFails, Finish, report
  <2>3. pc' = "closing" /\ UNCHANGED <<end, current, height, due, results, ghosts>>
    BY <1>1 DEF CancelAtTop, FetchFails, Finish, Leave, signal
  <2>4. QED
    BY <1>1, <2>1, <2>2, <2>3 DEF TypeOK, results, ghosts, Running, Terminal
<1>3. done < Total \/ current < First
  BY <1>1 DEF AtLoop, TypeOK, Total
<1>4. AtLoop' /\ InBatch' /\ AtClosing'
  BY <1>1, <1>3 DEF AtLoop, InBatch, AtClosing, TypeOK, CancelAtTop, FetchFails, Finish, Leave,
     report, Running, Terminal
<1>5. Remaining' = First .. current /\ UNCHANGED ghosts
  BY <1>1 DEF AtLoop, TypeOK, CancelAtTop, FetchFails, Finish, Leave, Remaining, report
<1>6. Covered'
  BY <1>1, <1>5 DEF Covered, Remaining, ghosts
<1>7. QED
  BY <1>2, <1>4, <1>6 DEF IInv

\* A batch is fetched.
LEMMA FetchBatchKeeps ==
  ASSUME IInv, FetchBatch
  PROVE  IInv'
<1> USE ScanAssumption
<1>1. TypeOK /\ AtLoop /\ Covered /\ pc = "loop" /\ current >= First
  BY DEF IInv, FetchBatch
<1>2. TypeOK'
  BY <1>1 DEF TypeOK, signal, FetchBatch, report, results, ghosts, Running, Terminal
<1>3. Floor' = Floor /\ Floor - 1 <= current
  BY <1>1, FloorBounds DEF TypeOK, FetchBatch, Floor, MaxOf
<1>4. AtLoop' /\ InBatch' /\ AtClosing'
  BY <1>1, <1>3 DEF AtLoop, InBatch, AtClosing, TypeOK, FetchBatch, report, results, ghosts, Settled
<1>5. Covered'
  BY <1>1 DEF Covered, Remaining, FetchBatch, ghosts
<1>6. QED
  BY <1>2, <1>4, <1>5 DEF IInv

\* A height is admitted or reported as a mismatch.
LEMMA ProcessHeightKeeps ==
  ASSUME IInv, ProcessHeight
  PROVE  IInv'
<1> USE ScanAssumption
<1>1. TypeOK /\ InBatch /\ Covered /\ pc = "batch" /\ height >= Floor
  BY DEF IInv, ProcessHeight
<1>2. /\ Floor \in Int /\ First <= Floor /\ Floor <= current
      /\ height \in First .. Last
  BY <1>1, FloorBounds DEF TypeOK, InBatch
<1>3. /\ open \subseteq open' /\ failed \subseteq failed' /\ height \in open' \cup failed'
      /\ open' \subseteq First .. Last /\ failed' \subseteq First .. Last
      /\ imported' \in Nat
  <2>1. PICK a, b \in Hashes \cup {Missing} :
          IF Agree(a, b)
            THEN open' = open \cup {height} /\ imported' = imported + 1 /\ failed' = failed
            ELSE failed' = failed \cup {height} /\ open' = open /\ imported' = imported
    BY DEF ProcessHeight
  <2>2. \/ open' = open \cup {height} /\ imported' = imported + 1 /\ failed' = failed
        \/ failed' = failed \cup {height} /\ open' = open /\ imported' = imported
    BY <2>1, Zenon
  <2>3. open \subseteq First .. Last /\ failed \subseteq First .. Last /\ imported \in Nat
    BY <1>1 DEF TypeOK
  <2>4. CASE open' = open \cup {height} /\ imported' = imported + 1 /\ failed' = failed
    BY <1>2, <2>3, <2>4
  <2>5. CASE failed' = failed \cup {height} /\ open' = open /\ imported' = imported
    BY <1>2, <2>3, <2>5
  <2>6. QED
    BY <2>2, <2>4, <2>5
<1>4. TypeOK'
  BY <1>1, <1>2, <1>3 DEF TypeOK, signal, ProcessHeight, report, ghosts, Running, Terminal
<1>5. Floor' = Floor
  BY DEF ProcessHeight, Floor, MaxOf
<1>6. InBatch'
  BY <1>1, <1>2, <1>3, <1>5 DEF InBatch, ProcessHeight, TypeOK, report, ghosts, Settled
<1>7. AtLoop' /\ AtClosing' /\ Covered'
  BY <1>1 DEF AtLoop, AtClosing, Covered, Remaining, ProcessHeight, ghosts
<1>8. QED
  BY <1>4, <1>6, <1>7 DEF IInv

\* A batch is committed whole.
LEMMA CommitBatchKeeps ==
  ASSUME IInv, CommitBatch
  PROVE  IInv'
<1> USE ScanAssumption
<1>1. TypeOK /\ InBatch /\ pc = "batch" /\ height < Floor
  BY DEF IInv, CommitBatch
<1>2. /\ Floor \in Int /\ First <= Floor /\ Floor <= current
      /\ height = Floor - 1
  BY <1>1, FloorBounds DEF TypeOK, InBatch
<1>3. TypeOK'
  BY <1>1, <1>2 DEF TypeOK, signal, CommitBatch, Commit, report, Running, Terminal
<1>4. Floor .. current \subseteq accounted' /\ accounted \subseteq accounted'
  BY <1>1, <1>2 DEF InBatch, CommitBatch, Commit
<1>5. current' + 1 .. Last \subseteq Settled'
  BY <1>1, <1>2, <1>4 DEF InBatch, CommitBatch, Commit, Settled, TypeOK
<1>6. AtLoop' /\ InBatch' /\ AtClosing'
  BY <1>1, <1>2, <1>5 DEF AtLoop, InBatch, AtClosing, CommitBatch, Commit, report, TypeOK
<1>7. Covered'
  BY <1>2, <1>5 DEF Covered, Remaining, CommitBatch, Settled
<1>8. QED
  BY <1>3, <1>6, <1>7 DEF IInv

\* A batch is cut off by a cancellation.
LEMMA CancelInBatchKeeps ==
  ASSUME IInv, CancelInBatch
  PROVE  IInv'
<1> USE ScanAssumption
<1>1. TypeOK /\ InBatch /\ pc = "batch" /\ height >= Floor
  BY DEF IInv, CancelInBatch
<1>2. /\ Floor \in Int /\ First <= Floor /\ Floor <= current
      /\ height \in First .. Last
  BY <1>1, FloorBounds DEF TypeOK, InBatch
<1>3. pc' = "closing" /\ partial' = TRUE
  BY <1>1, <1>2 DEF CancelInBatch, Leave, InBatch, Total, TypeOK
<1>4. /\ resume' \in First .. Last \cup {NoHeight}
      /\ dropped' \subseteq First .. Last
      /\ accounted' \subseteq First .. Last
  BY <1>1, <1>2 DEF CancelInBatch, Commit, TypeOK
<1>5. TypeOK'
  BY <1>1, <1>3, <1>4 DEF TypeOK, signal, CancelInBatch, Commit, Running, Terminal
<1>6. AtLoop' /\ InBatch' /\ AtClosing'
  BY <1>3 DEF AtLoop, InBatch, AtClosing
<1>7. height + 1 .. Last \subseteq Settled'
  BY <1>1, <1>2 DEF CancelInBatch, Commit, InBatch, Settled, TypeOK
<1>8. Covered'
  <2>1. CASE Floor > First
    <3>1. resume' = Floor - 1 /\ resume' # NoHeight /\ Floor .. height \subseteq dropped'
      BY <1>2, <2>1 DEF CancelInBatch
    <3>2. Remaining' = First .. Floor - 1
      BY <1>3, <3>1 DEF Remaining
    <3>3. QED
      BY <1>2, <1>7, <3>1, <3>2 DEF Covered, Settled
  <2>2. CASE ~(Floor > First)
    <3>1. Remaining' = First .. current
      BY <1>3, <2>2 DEF CancelInBatch, Remaining
    <3>2. QED
      BY <1>1, <1>2, <1>7, <3>1 DEF Covered, Settled, InBatch, TypeOK
  <2>3. QED
    BY <2>1, <2>2
<1>9. QED
  BY <1>5, <1>6, <1>8 DEF IInv

\* The report is handed over.
LEMMA ReturnKeeps ==
  ASSUME IInv, Return
  PROVE  IInv'
<1> USE ScanAssumption
<1>1. TypeOK /\ AtClosing /\ Covered /\ pc = "closing"
  BY DEF IInv, Return
<1>2. TypeOK'
  BY <1>1 DEF TypeOK, signal, Return, results, ghosts, Running, Terminal
<1>3. AtLoop' /\ InBatch' /\ AtClosing'
  BY DEF AtLoop, InBatch, AtClosing, Return
<1>4. Remaining \subseteq Remaining'
  <2>1. CASE resume # NoHeight
    BY <1>1, <2>1 DEF Remaining, Return, AtClosing, TypeOK
  <2>2. CASE resume = NoHeight
    BY <1>1, <2>2 DEF Remaining, Return, AtClosing, TypeOK
  <2>3. QED
    BY <2>1, <2>2
<1>5. Covered'
  BY <1>1, <1>4 DEF Covered, Return, ghosts
<1>6. QED
  BY <1>2, <1>3, <1>5 DEF IInv

\* An error or a kill: whatever is not settled is scanned again.
LEMMA BreakKeeps ==
  ASSUME IInv, Raise \/ Die
  PROVE  IInv'
<1> USE ScanAssumption
<1>1. TypeOK /\ pc' \in {"raised", "dead"}
  BY DEF IInv, Raise, Die
<1>2. TypeOK'
  BY <1>1 DEF TypeOK, signal, Raise, Die, report, ghosts, Running, Terminal
<1>3. AtLoop' /\ InBatch' /\ AtClosing'
  BY <1>1 DEF AtLoop, InBatch, AtClosing
<1>4. Covered'
  BY <1>1 DEF Covered, Remaining
<1>5. QED
  BY <1>2, <1>3, <1>4 DEF IInv

\* The cancel event is set.
LEMMA RequestCancelKeeps ==
  ASSUME IInv, RequestCancel
  PROVE  IInv'
<1>1. TypeOK /\ AtLoop /\ InBatch /\ AtClosing /\ Covered
  BY DEF IInv
<1>2. TypeOK'
  BY <1>1 DEF TypeOK, RequestCancel, report, results, ghosts
<1>3. AtLoop' /\ InBatch' /\ AtClosing'
  BY <1>1 DEF AtLoop, InBatch, AtClosing, RequestCancel, report, results, ghosts, Settled, Floor, MaxOf
<1>4. Covered'
  BY <1>1 DEF Covered, Remaining, RequestCancel, report, ghosts
<1>5. QED
  BY <1>2, <1>3, <1>4 DEF IInv

\* The operator resumes, or starts over.
LEMMA RestartKeeps ==
  ASSUME IInv, Resume \/ StartOver
  PROVE  IInv'
<1> USE ScanAssumption
<1>1. TypeOK /\ Covered
  BY DEF IInv
<1>2. CASE Resume
  <2>1. resume \in First .. Last /\ resume # NoHeight
    BY <1>2 DEF Resume
  <2>2. First .. Last \subseteq Settled \cup First .. resume
    BY <1>1, <1>2, <2>1 DEF Resume, Covered, Remaining, Settled
  <2>3. resume + 1 .. Last \subseteq Settled
    BY <2>1, <2>2
  <2>4. QED
    BY <1>1, <1>2, <2>1, <2>3, ScanStarts DEF Resume
<1>3. CASE StartOver
  <2>1. Last \in First .. Last /\ Last + 1 .. Last \subseteq Settled
    OBVIOUS
  <2>2. QED
    BY <1>1, <1>3, <2>1, ScanStarts DEF StartOver
<1>4. QED
  BY <1>2, <1>3

\* A step that changes nothing.
LEMMA StutterKeeps ==
  ASSUME IInv, UNCHANGED vars
  PROVE  IInv'
BY DEF IInv, TypeOK, AtLoop, InBatch, AtClosing, Covered, Remaining, Settled, Floor, MaxOf, vars

----------------------------------------------------------------------------
(* The theorems.                                                           *)

\* IInv is an invariant of the scan and its session.
THEOREM Invariant == Spec => []IInv
<1>1. IInv /\ [Next]_vars => IInv'
  <2> SUFFICES ASSUME IInv, [Next]_vars PROVE IInv'
    OBVIOUS
  <2>1. CASE Worker
    BY <2>1, LeavingKeeps, FetchBatchKeeps, ProcessHeightKeeps, CommitBatchKeeps,
       CancelInBatchKeeps, ReturnKeeps DEF Worker
  <2>2. CASE Raise \/ Die
    BY <2>2, BreakKeeps
  <2>3. CASE RequestCancel
    BY <2>3, RequestCancelKeeps
  <2>4. CASE Resume \/ StartOver
    BY <2>4, RestartKeeps
  <2>5. CASE UNCHANGED vars
    BY <2>5, StutterKeeps
  <2>6. QED
    BY <2>1, <2>2, <2>3, <2>4, <2>5 DEF Next
<1>2. QED
  BY Initial, <1>1, PTL DEF Spec

\* The scan's positions, counters and report fields stay in their ranges: the
\* floor arithmetic of the batches never leaves the requested heights.
THEOREM TypeCorrect == Spec => []TypeOK
<1>1. IInv => TypeOK
  BY DEF IInv
<1>2. QED
  BY Invariant, <1>1, PTL

\* scan_btc_public_consensus and its resumes lose no height of the session
\* except those a cancellation cut off in the middle of a batch.
THEOREM NoHeightIsLost == Spec => []Covered
<1>1. IInv => Covered
  BY DEF IInv
<1>2. QED
  BY Invariant, <1>1, PTL

----------------------------------------------------------------------------
(* The books of a scan: what it has counted, written and reported.         *)

\* The scan has looked at every height from `height` up, each of them is in
\* exactly one of the three sets, and the counters count them.
Books ==
  pc \in Running \cup {"returned"} =>
    /\ fresh \cup open \cup failed = height + 1 .. end
    /\ fresh \cap open = {} /\ fresh \cap failed = {} /\ open \cap failed = {}
    /\ done = end - height
    /\ imported = Cardinality(fresh) + Cardinality(open)

\* Outside of a batch no transaction is open, and nothing is reported early.
Written ==
  /\ pc \in {"loop", "closing", "returned"} => open = {}
  /\ pc = "loop" => height = current
  /\ pc \in {"loop", "batch"} => ~cancelled /\ ~partial

\* What a report says of where the scan stopped.
Reported ==
  /\ pc \in {"closing", "returned"} =>
       /\ ~partial => height = First - 1
       /\ partial /\ ~cancelled => resume = height
       /\ resume # NoHeight => resume <= end
  /\ pc = "closing" /\ partial => resume # NoHeight \/ current >= First
  /\ pc = "returned" /\ partial => resume # NoHeight

BookInv == Books /\ Written /\ Reported

\* The sets of heights are finite.
LEMMA HeightsAreFinite ==
  ASSUME TypeOK
  PROVE  IsFiniteSet(open) /\ IsFiniteSet(failed) /\ IsFiniteSet(fresh)
<1>1. IsFiniteSet(First .. Last)
  <2>1. First \in Int /\ Last \in Int
    BY ScanAssumption
  <2>2. QED
    BY <2>1, FS_Interval, Zenon
<1>2. \A S \in SUBSET (First .. Last) : IsFiniteSet(S)
  BY <1>1, FS_Subset, Zenon
<1>3. QED
  BY <1>2 DEF TypeOK

\* A new scan has empty books.
LEMMA BooksOpen ==
  ASSUME NEW top \in First .. Last, Scan(top)
  PROVE  BookInv'
<1>1. Cardinality({}) = 0
  BY FS_EmptySet
<1>2. top + 1 .. top = {}
  BY ScanAssumption
<1>3. Books'
  BY <1>1, <1>2, ScanAssumption DEF Scan, Books
<1>4. Written' /\ Reported'
  BY ScanAssumption DEF Scan, Written, Reported
<1>5. QED
  BY <1>3, <1>4 DEF BookInv

\* So has the first one.
LEMMA BooksInitial == Init => BookInv
<1> SUFFICES ASSUME Init PROVE BookInv
  OBVIOUS
<1>1. Cardinality({}) = 0
  BY FS_EmptySet
<1>2. Last + 1 .. Last = {}
  BY ScanAssumption
<1>3. Books
  BY <1>1, <1>2, ScanAssumption DEF Init, Books
<1>4. Written /\ Reported
  BY ScanAssumption DEF Init, Written, Reported
<1>5. QED
  BY <1>3, <1>4 DEF BookInv

\* Leaving the loop at the top of a batch.
LEMMA LeavingBooks ==
  ASSUME IInv, BookInv, CancelAtTop \/ FetchFails \/ Finish
  PROVE  BookInv'
<1> USE ScanAssumption
<1>1. /\ TypeOK /\ AtLoop /\ Books /\ Written /\ pc = "loop" /\ pc' = "closing"
      /\ UNCHANGED <<end, current, height, results>>
  BY DEF IInv, BookInv, CancelAtTop, FetchFails, Finish, Leave
<1>2. Books'
  BY <1>1 DEF Books, results, Running
<1>3. Written'
  BY <1>1 DEF Written, results
<1>4. Reported'
  <2>1. height = current /\ resume = NoHeight /\ ~cancelled /\ ~partial
    BY <1>1 DEF Written, AtLoop
  <2>2. CASE CancelAtTop
    <3>1. partial' /\ cancelled'
      BY <1>1, <2>2 DEF TypeOK, AtLoop, Total, CancelAtTop
    <3>2. QED
      BY <1>1, <2>1, <2>2, <3>1 DEF Reported, CancelAtTop
  <2>3. CASE FetchFails
    <3>1. partial'
      BY <1>1, <2>3 DEF TypeOK, AtLoop, Total, FetchFails
    <3>2. QED
      BY <1>1, <2>1, <2>3, <3>1 DEF Reported, FetchFails, TypeOK
  <2>4. CASE Finish
    BY <1>1, <2>1, <2>4 DEF Reported, Finish, report, TypeOK
  <2>5. QED
    BY <2>2, <2>3, <2>4
<1>5. QED
  BY <1>2, <1>3, <1>4 DEF BookInv

\* A batch is fetched.
LEMMA FetchBatchBooks ==
  ASSUME IInv, BookInv, FetchBatch
  PROVE  BookInv'
BY DEF BookInv, Books, Written, Reported, FetchBatch, results, report, Running

\* A height is entered once, as an import or as a mismatch.
LEMMA ProcessHeightBooks ==
  ASSUME IInv, BookInv, ProcessHeight
  PROVE  BookInv'
<1> USE ScanAssumption
<1>1. /\ TypeOK /\ InBatch /\ Books /\ Written /\ pc = "batch" /\ pc' = "batch"
      /\ height' = height - 1 /\ done' = done + 1 /\ height >= Floor
      /\ UNCHANGED <<end, fresh, cancelled, partial>>
  BY DEF IInv, BookInv, ProcessHeight, report
<1>2. height \in First .. end
  BY <1>1, FloorBounds DEF TypeOK, InBatch
<1>3. height \notin fresh \cup open \cup failed
  BY <1>1, <1>2 DEF Books, Running
<1>4. height' + 1 .. end' = {height} \cup height + 1 .. end
  BY <1>1, <1>2
<1>5. \/ open' = open \cup {height} /\ imported' = imported + 1 /\ failed' = failed
      \/ failed' = failed \cup {height} /\ open' = open /\ imported' = imported
  <2>1. PICK a, b \in Hashes \cup {Missing} :
          IF Agree(a, b)
            THEN open' = open \cup {height} /\ imported' = imported + 1 /\ failed' = failed
            ELSE failed' = failed \cup {height} /\ open' = open /\ imported' = imported
    BY DEF ProcessHeight
  <2>2. QED
    BY <2>1, Zenon
<1>6. Cardinality(open \cup {height}) = Cardinality(open) + 1
  BY <1>1, <1>3, HeightsAreFinite, FS_AddElement
<1>7. Cardinality(open) \in Nat /\ Cardinality(fresh) \in Nat
  BY <1>1, HeightsAreFinite, FS_CardinalityType
<1>8. Books'
  <2>1. /\ fresh \cup open \cup failed = height + 1 .. end
        /\ fresh \cap open = {} /\ fresh \cap failed = {} /\ open \cap failed = {}
        /\ done = end - height
        /\ imported = Cardinality(fresh) + Cardinality(open)
    BY <1>1 DEF Books, Running
  <2>2. fresh' \cup open' \cup failed' = height' + 1 .. end'
    BY <1>1, <1>4, <1>5, <2>1, Zenon
  <2>3. fresh' \cap open' = {} /\ fresh' \cap failed' = {} /\ open' \cap failed' = {}
    BY <1>1, <1>3, <1>5, <2>1
  <2>4. done' = end' - height'
    BY <1>1, <1>2, <2>1 DEF TypeOK
  <2>5. imported' = Cardinality(fresh') + Cardinality(open')
    BY <1>1, <1>5, <1>6, <1>7, <2>1
  <2>6. QED
    BY <2>2, <2>3, <2>4, <2>5 DEF Books
<1>9. Written' /\ Reported'
  BY <1>1 DEF Written, Reported
<1>10. QED
  BY <1>8, <1>9 DEF BookInv

\* Committing a batch moves its rows from the transaction to the corpus.
LEMMA CommitBooks ==
  ASSUME IInv, BookInv, pc = "batch", Commit, pc' \in {"loop", "closing"}
  PROVE  Books' /\ open' = {}
<1>1. /\ fresh \cup open \cup failed = height + 1 .. end
      /\ fresh \cap open = {} /\ fresh \cap failed = {} /\ open \cap failed = {}
      /\ done = end - height
      /\ imported = Cardinality(fresh) + Cardinality(open)
  BY DEF BookInv, Books, Running
<1>2. /\ fresh' = fresh \cup open /\ open' = {} /\ failed' = failed
      /\ UNCHANGED <<end, height, done, imported>>
  BY DEF Commit
<1>3. Cardinality(fresh \cup open) = Cardinality(fresh) + Cardinality(open) - Cardinality(fresh \cap open)
  BY HeightsAreFinite, FS_Union DEF IInv
<1>4. Cardinality({}) = 0
  BY FS_EmptySet
<1>5. Cardinality(open) \in Nat /\ Cardinality(fresh) \in Nat
  BY HeightsAreFinite, FS_CardinalityType DEF IInv
<1>6. imported' = Cardinality(fresh') + Cardinality(open')
  <2>1. Cardinality(fresh \cap open) = 0 /\ Cardinality(open') = 0
    BY <1>1, <1>2, <1>4, Zenon
  <2>2. QED
    BY <1>1, <1>2, <1>3, <1>5, <2>1
<1>7. QED
  BY <1>1, <1>2, <1>6 DEF Books

\* A batch is committed whole.
LEMMA CommitBatchBooks ==
  ASSUME IInv, BookInv, CommitBatch
  PROVE  BookInv'
<1> USE ScanAssumption
<1>1. /\ TypeOK /\ InBatch /\ Written /\ pc = "batch" /\ pc' = "loop" /\ Commit
      /\ height < Floor /\ current' = Floor - 1 /\ height' = height
      /\ UNCHANGED <<cancelled, partial>>
  BY DEF IInv, BookInv, CommitBatch, report, Commit
<1>2. Books' /\ open' = {}
  BY <1>1, CommitBooks
<1>3. height = Floor - 1
  BY <1>1, FloorBounds DEF TypeOK, InBatch
<1>4. QED
  BY <1>1, <1>2, <1>3 DEF BookInv, Written, Reported

\* A cancelled batch is committed as far as it went.
LEMMA CancelInBatchBooks ==
  ASSUME IInv, BookInv, CancelInBatch
  PROVE  BookInv'
<1> USE ScanAssumption
<1>1. /\ TypeOK /\ InBatch /\ pc = "batch" /\ pc' = "closing" /\ Commit
      /\ height >= Floor /\ height' = height /\ current' = current /\ end' = end
      /\ cancelled' /\ partial' = (done < Total)
      /\ resume' = IF Floor > First THEN Floor - 1 ELSE NoHeight
  BY DEF IInv, CancelInBatch, Leave, Commit
<1>2. Books' /\ open' = {}
  BY <1>1, CommitBooks
<1>3. /\ Floor \in Int /\ First <= Floor /\ Floor <= current
  BY <1>1, FloorBounds DEF TypeOK, InBatch
<1>4. partial'
  BY <1>1, <1>3 DEF InBatch, Total, TypeOK
<1>5. QED
  BY <1>1, <1>2, <1>3, <1>4 DEF BookInv, Written, Reported, TypeOK

\* The report is handed over.
LEMMA ReturnBooks ==
  ASSUME IInv, BookInv, Return
  PROVE  BookInv'
<1> USE ScanAssumption
<1>1. /\ TypeOK /\ Books /\ Written /\ Reported /\ pc = "closing" /\ pc' = "returned"
      /\ UNCHANGED <<end, current, height, cancelled, results>>
      /\ partial' = (partial \/ done < Total)
      /\ resume' = IF partial' /\ resume = NoHeight /\ current >= First THEN current ELSE resume
  BY DEF IInv, BookInv, Return
<1>2. Books' /\ Written'
  BY <1>1 DEF Books, Written, results, Running
<1>3. partial' <=> partial
  <2>1. ~partial => done = Total
    BY <1>1 DEF Books, Reported, Total, TypeOK, Running
  <2>2. QED
    BY <1>1, <2>1 DEF Total, TypeOK
<1>4. partial /\ ~cancelled => resume # NoHeight
  BY <1>1 DEF Reported, TypeOK
<1>5. Reported'
  BY <1>1, <1>3, <1>4 DEF Reported, TypeOK
<1>6. QED
  BY <1>2, <1>5 DEF BookInv

\* An error or a kill delivers no report.
LEMMA BreakBooks ==
  ASSUME Raise \/ Die
  PROVE  BookInv'
<1>1. pc' \in {"raised", "dead"}
  BY DEF Raise, Die
<1>2. QED
  BY <1>1 DEF BookInv, Books, Written, Reported, Running

\* The cancel event is set.
LEMMA RequestCancelBooks ==
  ASSUME BookInv, RequestCancel
  PROVE  BookInv'
BY DEF BookInv, Books, Written, Reported, RequestCancel, report, results

\* The books agree with the corpus and with the report throughout.
THEOREM BooksAgree == Spec => []BookInv
<1>1. IInv /\ BookInv /\ [Next]_vars => BookInv'
  <2> SUFFICES ASSUME IInv, BookInv, [Next]_vars PROVE BookInv'
    OBVIOUS
  <2>1. CASE Worker
    BY <2>1, LeavingBooks, FetchBatchBooks, ProcessHeightBooks, CommitBatchBooks,
       CancelInBatchBooks, ReturnBooks DEF Worker
  <2>2. CASE Raise \/ Die
    BY <2>2, BreakBooks
  <2>3. CASE RequestCancel
    BY <2>3, RequestCancelBooks
  <2>4. CASE Resume \/ StartOver
    BY <2>4, BooksOpen, ScanAssumption DEF Resume, StartOver
  <2>5. CASE UNCHANGED vars
    BY <2>5 DEF BookInv, Books, Written, Reported, vars
  <2>6. QED
    BY <2>1, <2>2, <2>3, <2>4, <2>5 DEF Next
<1>2. QED
  BY BooksInitial, Invariant, <1>1, PTL DEF Spec

\* Between batches and in a delivered report the imports counted are those the
\* corpus keeps.
THEOREM ImportsAreDurable == Spec => []ImportedIsDurable
<1>1. IInv /\ BookInv => ImportedIsDurable
  <2> SUFFICES ASSUME IInv, BookInv, pc \in {"loop", "closing", "returned"}
               PROVE  open = {} /\ Cardinality(fresh) = imported
    BY DEF ImportedIsDurable
  <2>1. open = {} /\ imported = Cardinality(fresh) + Cardinality(open)
    BY DEF BookInv, Written, Books, Running
  <2>2. Cardinality(fresh) \in Nat /\ Cardinality({}) = 0
    BY HeightsAreFinite, FS_CardinalityType, FS_EmptySet DEF IInv
  <2>3. QED
    BY <2>1, <2>2
<1>2. QED
  BY Invariant, BooksAgree, <1>1, PTL

\* A report that is not partial is about every height of its range, a partial one
\* names a height to go on from, and what it counts it has examined.
THEOREM ReportsAreHonest == Spec => []ReportIsHonest
<1>1. IInv /\ BookInv => ReportIsHonest
  <2> SUFFICES ASSUME IInv, BookInv, pc = "returned"
               PROVE  /\ ~partial => First .. end = fresh \cup failed
                      /\ partial => resume # NoHeight /\ resume < end + 1
                      /\ done = Cardinality(fresh) + Cardinality(failed)
    BY DEF ReportIsHonest
  <2>1. /\ fresh \cup failed = height + 1 .. end /\ fresh \cap failed = {}
        /\ done = end - height /\ TypeOK
    BY DEF IInv, BookInv, Written, Books, Running
  <2>2. ~partial => First .. end = fresh \cup failed
    BY <2>1, ScanAssumption DEF BookInv, Reported
  <2>3. partial => resume # NoHeight /\ resume < end + 1
    BY <2>1, ScanAssumption DEF BookInv, Reported, TypeOK
  <2>4. Cardinality(fresh \cup failed) = Cardinality(fresh) + Cardinality(failed)
    <3>1. Cardinality(fresh \cap failed) = 0
      BY <2>1, FS_EmptySet, Zenon
    <3>2. Cardinality(fresh \cup failed)
            = Cardinality(fresh) + Cardinality(failed) - Cardinality(fresh \cap failed)
      BY <2>1, HeightsAreFinite, FS_Union, Zenon
    <3>3. Cardinality(fresh) \in Nat /\ Cardinality(failed) \in Nat
      BY <2>1, HeightsAreFinite, FS_CardinalityType, Zenon
    <3>4. QED
      BY <3>1, <3>2, <3>3
  <2>5. Cardinality(height + 1 .. end) = end - height
    <3>1. height + 1 \in Int /\ end \in Int /\ height \in Int /\ height <= end
      BY <2>1, ScanAssumption DEF TypeOK
    <3>2. Cardinality(height + 1 .. end) = IF height + 1 > end THEN 0 ELSE end - (height + 1) + 1
      BY <3>1, FS_Interval, Zenon
    <3>3. QED
      BY <3>1, <3>2
  <2>6. QED
    BY <2>1, <2>2, <2>3, <2>4, <2>5
<1>2. QED
  BY Invariant, BooksAgree, <1>1, PTL

\* Going on after a provider failure repeats no height that was examined.
THEOREM ResumesRepeatNothing == Spec => []ResumeRepeatsNothing
<1>1. IInv /\ BookInv => ResumeRepeatsNothing
  <2> SUFFICES ASSUME IInv, BookInv, pc = "returned", partial, ~cancelled
               PROVE  First .. resume \cap (fresh \cup failed) = {}
    BY DEF ResumeRepeatsNothing
  <2>1. fresh \cup failed = height + 1 .. end /\ resume = height /\ TypeOK
    BY DEF IInv, BookInv, Written, Books, Reported, Running
  <2>2. QED
    BY <2>1, ScanAssumption DEF TypeOK
<1>2. QED
  BY Invariant, BooksAgree, <1>1, PTL

----------------------------------------------------------------------------
(* The seed scan.                                                          *)

\* The number of elements of a set is the same in every module.
LEMMA SameCardinality ==
  \A S : /\ Seed!Cardinality(S) = Cardinality(S)
        /\ Node!Cardinality(S) = Cardinality(S)
BY DEF Seed!Cardinality, Node!Cardinality, Cardinality

\* Heights the session need not scan again.
SeedSettled == seed_kept \cup seed_skipped

\* Only the whole range is scanned downwards.
SeedDown == seed_descending => seed_start = First

SeedAtWork ==
  seed_pc \in Seed!Running =>
    /\ First .. Last \subseteq SeedSettled \cup seed_start .. seed_end
    /\ Seed!Fetched \subseteq seed_kept \cup seed_pending

SeedAtLoop == seed_pc \in {"loop", "flush"} => seed_resume = NoHeight

SeedAtClosing ==
  seed_pc = "closing" =>
    IF seed_resume = NoHeight THEN seed_done = Seed!Total
    ELSE /\ seed_done < Seed!Total
         /\ seed_resume = Seed!ResumeAt
         /\ seed_descending => Seed!Height \in seed_skipped

\* A resume height lies in the range of its scan, or in front of it when a
\* descending scan stopped at its last height.
SeedAtReturn ==
  seed_pc = "returned" /\ seed_resume # NoHeight =>
    seed_resume \in (IF seed_descending THEN seed_start - 1 ELSE seed_start) .. seed_end

SeedInv ==
  Seed!TypeOK /\ SeedDown /\ SeedAtWork /\ SeedAtLoop /\ SeedAtClosing /\ SeedAtReturn /\ Seed!Covered

----------------------------------------------------------------------------
\* A scan of an allowed range satisfies the invariant when the heights outside the
\* range are settled.
LEMMA SeedScanStarts ==
  ASSUME Seed!ScanAssumption, Seed!TypeOK,
         NEW lo \in First .. Last, NEW hi \in First .. Last, NEW down \in BOOLEAN,
         lo <= hi, down => lo = First,
         Seed!Scan(lo, hi, down), UNCHANGED <<seed_kept, seed_skipped>>,
         First .. Last \subseteq SeedSettled \cup lo .. hi
  PROVE  SeedInv'
<1>1. Seed!TypeOK'
  <2>1. /\ seed_cancelled' \in BOOLEAN /\ seed_partial' \in BOOLEAN /\ seed_cancel' \in BOOLEAN
        /\ seed_descending' \in BOOLEAN
    BY Zenon DEF Seed!Scan
  <2>2. /\ seed_pc' \in Seed!Running \cup Seed!Terminal /\ seed_start' \in First .. Last
        /\ seed_end' \in First .. Last /\ seed_start' <= seed_end'
    BY DEF Seed!Scan, Seed!Running
  <2>3. seed_done' \in 0 .. Seed!Total' /\ seed_requests' \in 0 .. Budget
    BY Seed!ScanAssumption DEF Seed!Scan, Seed!Total, Seed!ScanAssumption
  <2>4. seed_resume' \in (First - 1) .. Last \cup {NoHeight}
    BY DEF Seed!Scan
  <2>5. {seed_pending', seed_stored', seed_kept', seed_skipped'} \subseteq SUBSET (First .. Last)
    BY DEF Seed!Scan, Seed!TypeOK
  <2>6. seed_due' \in Nat
    BY DEF Seed!Scan
  <2>7. QED
    BY <2>1, <2>2, <2>3, <2>4, <2>5, <2>6 DEF Seed!TypeOK
<1>2. Seed!Fetched' = {}
  BY Seed!ScanAssumption DEF Seed!Scan, Seed!Fetched, Seed!ScanAssumption
<1>3. SeedDown' /\ SeedAtLoop' /\ SeedAtClosing' /\ SeedAtReturn'
  BY DEF Seed!Scan, SeedDown, SeedAtLoop, SeedAtClosing, SeedAtReturn
<1>4. SeedAtWork'
  BY <1>2 DEF Seed!Scan, SeedAtWork, SeedSettled
<1>5. Seed!Remaining' = lo .. hi
  BY <1>2 DEF Seed!Scan, Seed!Remaining
<1>6. Seed!Covered'
  BY <1>5 DEF Seed!Covered, Seed!Scan, SeedSettled
<1>7. QED
  BY <1>1, <1>3, <1>4, <1>6 DEF SeedInv

\* The session begins with an unscanned range.
LEMMA SeedInitial == ASSUME Seed!ScanAssumption, Seed!Init PROVE SeedInv
<1>1. Seed!TypeOK
  <2>1. {seed_cancelled, seed_partial, seed_cancel, seed_descending} \subseteq BOOLEAN
    BY Zenon DEF Seed!Init
  <2>2. seed_done \in 0 .. Seed!Total /\ seed_requests \in 0 .. Budget
    BY Seed!ScanAssumption DEF Seed!Init, Seed!Total, Seed!ScanAssumption
  <2>3. QED
    BY <2>1, <2>2, Seed!ScanAssumption
       DEF Seed!Init, Seed!TypeOK, Seed!Running, Seed!ScanAssumption
<1>2. Seed!Fetched = {}
  BY Seed!ScanAssumption DEF Seed!Init, Seed!Fetched, Seed!ScanAssumption
<1>3. SeedDown /\ SeedAtLoop /\ SeedAtClosing /\ SeedAtReturn /\ SeedAtWork
  BY <1>2 DEF Seed!Init, SeedDown, SeedAtLoop, SeedAtClosing, SeedAtReturn, SeedAtWork
<1>4. Seed!Remaining = First .. Last
  BY <1>2 DEF Seed!Init, Seed!Remaining
<1>5. QED
  BY <1>1, <1>3, <1>4 DEF SeedInv, Seed!Covered

----------------------------------------------------------------------------
(* The steps of the scan.                                                  *)

\* The height in front of an unfinished scan is the one of its range that is
\* neither fetched nor what would remain after it.
LEMMA SeedHeightInRange ==
  ASSUME Seed!ScanAssumption, Seed!TypeOK, seed_done < Seed!Total
  PROVE  /\ Seed!Height \in seed_start .. seed_end
         /\ Seed!ResumeAt \in (IF seed_descending THEN seed_start - 1 ELSE seed_start) .. seed_end
         /\ seed_start .. seed_end \subseteq
              Seed!Fetched \cup (IF seed_descending THEN {Seed!Height} ELSE {})
                      \cup (IF seed_descending THEN seed_start .. Seed!ResumeAt ELSE Seed!ResumeAt .. seed_end)
BY DEF Seed!ScanAssumption, Seed!TypeOK, Seed!Total, Seed!Height, Seed!ResumeAt, Seed!Fetched

\* An interrupted scan closes with a resume height that leaves nothing unsettled.
LEMMA SeedInterruptKeeps ==
  ASSUME Seed!ScanAssumption, SeedInv, seed_pc = "loop", seed_done < Seed!Total, Seed!Interrupt,
         UNCHANGED <<Seed!range, seed_done, seed_cancel, seed_due>>,
         seed_partial' \in BOOLEAN, seed_cancelled' \in BOOLEAN, seed_requests' \in 0 .. Budget,
         seed_stored' \subseteq First .. Last,
         seed_pending' \subseteq First .. Last, seed_kept' \subseteq First .. Last,
         seed_kept \cup seed_pending \subseteq seed_kept' \cup seed_pending', seed_kept \subseteq seed_kept'
  PROVE  SeedInv'
<1>0. Seed!TypeOK /\ SeedDown /\ SeedAtWork /\ SeedAtLoop
  BY DEF SeedInv
<1>1. /\ Seed!Height \in seed_start .. seed_end
      /\ Seed!ResumeAt \in (IF seed_descending THEN seed_start - 1 ELSE seed_start) .. seed_end
      /\ seed_start .. seed_end \subseteq
           Seed!Fetched \cup (IF seed_descending THEN {Seed!Height} ELSE {})
                   \cup (IF seed_descending THEN seed_start .. Seed!ResumeAt ELSE Seed!ResumeAt .. seed_end)
  BY <1>0, SeedHeightInRange
<1>2. /\ seed_start' = seed_start /\ seed_end' = seed_end /\ seed_descending' = seed_descending
      /\ seed_done' = seed_done /\ seed_cancel' = seed_cancel /\ seed_due' = seed_due
      /\ Seed!Total' = Seed!Total /\ Seed!Height' = Seed!Height /\ Seed!ResumeAt' = Seed!ResumeAt
      /\ Seed!Fetched' = Seed!Fetched
  BY DEF Seed!range, Seed!Total, Seed!Height, Seed!ResumeAt, Seed!Fetched
<1>3. /\ seed_pc' = "closing" /\ seed_resume' = Seed!ResumeAt
      /\ seed_skipped' = IF seed_descending THEN seed_skipped \cup {Seed!Height} ELSE seed_skipped
  BY DEF Seed!Interrupt
<1>4. seed_start .. seed_end \subseteq First .. Last
  BY <1>0, Seed!ScanAssumption DEF Seed!TypeOK, Seed!ScanAssumption
<1>5. Seed!TypeOK'
  <2>1. seed_skipped' \subseteq First .. Last
    BY <1>0, <1>1, <1>3, <1>4 DEF Seed!TypeOK
  <2>2. seed_resume' \in (First - 1) .. Last
    BY <1>0, <1>1, <1>3, Seed!ScanAssumption DEF Seed!TypeOK, Seed!ScanAssumption
  <2>3. {seed_cancelled', seed_partial', seed_cancel', seed_descending'} \subseteq BOOLEAN
    BY <1>0, <1>2, Zenon DEF Seed!TypeOK
  <2>4. QED
    BY <1>0, <1>2, <1>3, <2>1, <2>2, <2>3 DEF Seed!TypeOK, Seed!Running
<1>6. seed_resume' # NoHeight
  BY <1>0, <1>1, <1>3, Seed!ScanAssumption DEF Seed!TypeOK, Seed!ScanAssumption
<1>7. SeedDown' /\ SeedAtLoop' /\ SeedAtReturn'
  BY <1>0, <1>2, <1>3 DEF SeedDown, SeedAtLoop, SeedAtReturn
<1>8. SeedAtClosing'
  BY <1>2, <1>3, <1>6 DEF SeedAtClosing
<1>9. /\ First .. Last \subseteq SeedSettled' \cup seed_start .. seed_end
      /\ Seed!Fetched \subseteq seed_kept' \cup seed_pending'
  BY <1>0, <1>3 DEF SeedAtWork, SeedSettled, Seed!Running
<1>10. SeedAtWork'
  BY <1>2, <1>9 DEF SeedAtWork
<1>11. Seed!Remaining' = IF seed_descending THEN seed_start .. Seed!ResumeAt ELSE Seed!ResumeAt .. seed_end
  BY <1>2, <1>3, <1>6 DEF Seed!Remaining
<1>12. Seed!Covered'
  BY <1>1, <1>3, <1>9, <1>11 DEF Seed!Covered, SeedSettled, Seed!Running
<1>13. QED
  BY <1>5, <1>7, <1>8, <1>10, <1>12 DEF SeedInv

\* A cancelled scan closes.
LEMMA SeedCancelAtTopKeeps ==
  ASSUME Seed!ScanAssumption, SeedInv, Seed!CancelAtTop
  PROVE  SeedInv'
<1>1. seed_cancelled' \in BOOLEAN /\ seed_partial' \in BOOLEAN
  BY Zenon DEF Seed!CancelAtTop
<1>2. QED
  BY <1>1, SeedInterruptKeeps DEF Seed!CancelAtTop, Seed!signal, SeedInv, Seed!TypeOK

\* A refused request closes the scan after a flush.
LEMMA SeedProviderFailsKeeps ==
  ASSUME Seed!ScanAssumption, SeedInv, Seed!ProviderFails
  PROVE  SeedInv'
<1>1. seed_cancelled' \in BOOLEAN /\ seed_partial' \in BOOLEAN
  BY Zenon DEF Seed!ProviderFails, SeedInv, Seed!TypeOK
<1>2. seed_requests' \in 0 .. Budget
  BY Seed!ScanAssumption DEF Seed!ProviderFails, SeedInv, Seed!TypeOK, Seed!ScanAssumption
<1>3. QED
  BY <1>1, <1>2, SeedInterruptKeeps DEF Seed!ProviderFails, Seed!signal, Seed!Flush, SeedInv, Seed!TypeOK

\* The fetched height moves from the range to the pending records.
LEMMA SeedFetchOneKeeps == ASSUME Seed!ScanAssumption, SeedInv, Seed!FetchOne PROVE SeedInv'
<1>0. Seed!TypeOK /\ SeedDown /\ SeedAtWork /\ SeedAtLoop
  BY DEF SeedInv
<1>1. /\ seed_pc = "loop" /\ seed_done < Seed!Total /\ seed_pc' = "flush"
      /\ seed_start' = seed_start /\ seed_end' = seed_end /\ seed_descending' = seed_descending
      /\ seed_done' = seed_done + 1 /\ seed_pending' = seed_pending \cup {Seed!Height}
      /\ seed_kept' = seed_kept /\ seed_skipped' = seed_skipped /\ seed_stored' = seed_stored
      /\ seed_cancel' = seed_cancel /\ seed_due' = seed_due
      /\ seed_cancelled' = seed_cancelled /\ seed_partial' = seed_partial
      /\ seed_resume' = seed_resume
  BY DEF Seed!FetchOne, Seed!range, Seed!report, Seed!signal
<1>2. Seed!Height \in seed_start .. seed_end
  BY <1>0, <1>1, SeedHeightInRange
<1>3. Seed!Fetched' = Seed!Fetched \cup {Seed!Height}
  BY <1>0, <1>1, Seed!ScanAssumption
     DEF Seed!TypeOK, Seed!Total, Seed!Fetched, Seed!Height, Seed!ScanAssumption
<1>4. Seed!TypeOK'
  <2>1. {seed_cancelled', seed_partial', seed_cancel', seed_descending'} \subseteq BOOLEAN
    BY <1>0, <1>1, Zenon DEF Seed!TypeOK
  <2>2. seed_requests' \in 0 .. Budget
    BY <1>0, Seed!ScanAssumption DEF Seed!FetchOne, Seed!TypeOK, Seed!ScanAssumption
  <2>3. seed_done' \in 0 .. Seed!Total'
    BY <1>0, <1>1, Seed!ScanAssumption DEF Seed!TypeOK, Seed!Total, Seed!ScanAssumption
  <2>4. seed_pending' \subseteq First .. Last
    BY <1>0, <1>1, <1>2, Seed!ScanAssumption DEF Seed!TypeOK, Seed!ScanAssumption
  <2>5. QED
    BY <1>0, <1>1, <2>1, <2>2, <2>3, <2>4 DEF Seed!TypeOK, Seed!Running
<1>5. SeedDown' /\ SeedAtLoop' /\ SeedAtClosing' /\ SeedAtReturn'
  BY <1>0, <1>1 DEF SeedDown, SeedAtLoop, SeedAtClosing, SeedAtReturn
<1>6. /\ First .. Last \subseteq SeedSettled' \cup seed_start' .. seed_end'
      /\ Seed!Fetched' \subseteq seed_kept' \cup seed_pending'
  BY <1>0, <1>1, <1>3 DEF SeedAtWork, SeedSettled, Seed!Running
<1>7. Seed!Remaining' = (seed_start' .. seed_end') \ Seed!Fetched'
  BY <1>1 DEF Seed!Remaining
<1>8. Seed!Covered'
  BY <1>1, <1>6, <1>7 DEF Seed!Covered, SeedSettled, Seed!Running
<1>9. QED
  BY <1>4, <1>5, <1>6, <1>8 DEF SeedInv, SeedAtWork

\* A flush moves the pending records to the stored ones, all or none.
LEMMA SeedFlushWhenFullKeeps ==
  ASSUME Seed!ScanAssumption, SeedInv, Seed!FlushWhenFull
  PROVE  SeedInv'
<1>0. Seed!TypeOK /\ SeedDown /\ SeedAtWork /\ SeedAtLoop /\ Seed!Covered
  BY DEF SeedInv
<1>1. /\ seed_pc = "flush" /\ seed_pc' = "loop"
      /\ seed_start' = seed_start /\ seed_end' = seed_end /\ seed_descending' = seed_descending
      /\ seed_done' = seed_done /\ seed_requests' = seed_requests /\ seed_skipped' = seed_skipped
      /\ seed_cancel' = seed_cancel /\ seed_due' = seed_due
      /\ seed_cancelled' = seed_cancelled /\ seed_partial' = seed_partial
      /\ seed_resume' = seed_resume
  BY DEF Seed!FlushWhenFull, Seed!range, Seed!report, Seed!signal
<1>2. /\ seed_kept' \cup seed_pending' = seed_kept \cup seed_pending
      /\ seed_kept \subseteq seed_kept'
      /\ {seed_pending', seed_stored', seed_kept'} \subseteq SUBSET (First .. Last)
  BY <1>0 DEF Seed!FlushWhenFull, Seed!Flush, Seed!TypeOK
<1>3. Seed!Fetched' = Seed!Fetched /\ Seed!Total' = Seed!Total
  BY <1>1 DEF Seed!Fetched, Seed!Total
<1>4. Seed!TypeOK'
  <2>1. {seed_cancelled', seed_partial', seed_cancel', seed_descending'} \subseteq BOOLEAN
    BY <1>0, <1>1, Zenon DEF Seed!TypeOK
  <2>2. QED
    BY <1>0, <1>1, <1>2, <1>3, <2>1 DEF Seed!TypeOK, Seed!Running
<1>5. SeedDown' /\ SeedAtLoop' /\ SeedAtClosing' /\ SeedAtReturn'
  BY <1>0, <1>1 DEF SeedDown, SeedAtLoop, SeedAtClosing, SeedAtReturn
<1>6. SeedAtWork'
  BY <1>0, <1>1, <1>2, <1>3 DEF SeedAtWork, SeedSettled, Seed!Running
<1>7. Seed!Remaining' = Seed!Remaining
  BY <1>1, <1>3 DEF Seed!Remaining
<1>8. Seed!Covered'
  BY <1>0, <1>1, <1>2, <1>7 DEF Seed!Covered, Seed!Running
<1>9. QED
  BY <1>4, <1>5, <1>6, <1>8 DEF SeedInv

\* A scan whose range is exhausted closes with nothing left to scan.
LEMMA SeedFinishKeeps == ASSUME Seed!ScanAssumption, SeedInv, Seed!Finish PROVE SeedInv'
<1>0. Seed!TypeOK /\ SeedDown /\ SeedAtWork /\ SeedAtLoop /\ Seed!Covered
  BY DEF SeedInv
<1>1. /\ seed_pc = "loop" /\ seed_pc' = "closing" /\ seed_done = Seed!Total
      /\ UNCHANGED <<seed_start, seed_end, seed_descending, seed_done, seed_requests,
                     seed_pending, seed_stored, seed_kept,
                     seed_skipped, seed_cancel, seed_due, seed_cancelled, seed_partial, seed_resume>>
  BY DEF Seed!Finish, Seed!range, Seed!report, Seed!signal
<1>2. Seed!Fetched' = Seed!Fetched /\ Seed!Total' = Seed!Total
  BY <1>1 DEF Seed!Fetched, Seed!Total
<1>3. Seed!TypeOK'
  <2>1. {seed_cancelled', seed_partial', seed_cancel', seed_descending'} \subseteq BOOLEAN
    BY <1>0, <1>1, Zenon DEF Seed!TypeOK
  <2>2. QED
    BY <1>0, <1>1, <1>2, <2>1 DEF Seed!TypeOK, Seed!Running
<1>4. SeedDown' /\ SeedAtLoop' /\ SeedAtClosing' /\ SeedAtReturn'
  BY <1>0, <1>1, <1>2 DEF SeedDown, SeedAtLoop, SeedAtClosing, SeedAtReturn
<1>5. SeedAtWork'
  BY <1>0, <1>1, <1>2 DEF SeedAtWork, SeedSettled, Seed!Running
<1>6. Seed!Remaining = {}
  BY <1>0, <1>1, Seed!ScanAssumption
     DEF Seed!Remaining, Seed!Fetched, Seed!Total, Seed!TypeOK, Seed!ScanAssumption
<1>7. Seed!Covered'
  BY <1>0, <1>1, <1>6 DEF Seed!Covered, Seed!Running
<1>8. QED
  BY <1>3, <1>4, <1>5, <1>7 DEF SeedInv

\* The last flush leaves the report with the records the scan fetched.
LEMMA SeedReturnKeeps == ASSUME Seed!ScanAssumption, SeedInv, Seed!Return PROVE SeedInv'
<1>0. Seed!TypeOK /\ SeedDown /\ SeedAtClosing /\ Seed!Covered
  BY DEF SeedInv
<1>1. /\ seed_pc = "closing" /\ seed_pc' = "returned"
      /\ UNCHANGED <<seed_start, seed_end, seed_descending, seed_done, seed_requests,
                     seed_skipped, seed_cancel, seed_due, seed_cancelled, seed_resume>>
      /\ seed_stored' = seed_stored \cup seed_pending /\ seed_kept' = seed_kept \cup seed_pending
      /\ seed_pending' = {}
  BY DEF Seed!Return, Seed!Flush, Seed!range, Seed!signal
<1>2. Seed!Total' = Seed!Total
  BY <1>1 DEF Seed!Total
<1>3. Seed!TypeOK'
  <2>1. {seed_cancelled', seed_cancel', seed_descending'} \subseteq BOOLEAN
    BY <1>0, <1>1, Zenon DEF Seed!TypeOK
  <2>2. seed_partial' \in BOOLEAN
    BY Zenon DEF Seed!Return
  <2>3. {seed_pending', seed_stored', seed_kept', seed_skipped'} \subseteq SUBSET (First .. Last)
    BY <1>0, <1>1 DEF Seed!TypeOK
  <2>4. QED
    BY <1>0, <1>1, <1>2, <2>1, <2>2, <2>3 DEF Seed!TypeOK, Seed!Running, Seed!Terminal
<1>4. SeedAtReturn'
  BY <1>0, <1>1, SeedHeightInRange DEF SeedAtReturn, SeedAtClosing
<1>5. SeedDown' /\ SeedAtLoop' /\ SeedAtClosing' /\ SeedAtWork'
  BY <1>0, <1>1 DEF SeedDown, SeedAtLoop, SeedAtClosing, SeedAtWork, Seed!Running
<1>6. Seed!Remaining' = Seed!Remaining
  BY <1>1 DEF Seed!Remaining
<1>7. Seed!Covered'
  BY <1>0, <1>1, <1>6 DEF Seed!Covered, Seed!Running
<1>8. QED
  BY <1>3, <1>4, <1>5, <1>7 DEF SeedInv

\* An uncaught error or a kill: the whole range is ahead again.
LEMMA SeedBreakKeeps ==
  ASSUME Seed!ScanAssumption, SeedInv, Seed!BudgetExhausted \/ Seed!Raise \/ Seed!Die
  PROVE  SeedInv'
<1>0. Seed!TypeOK /\ SeedDown
  BY DEF SeedInv
<1>1. /\ seed_pc' \in {"raised", "dead"}
      /\ UNCHANGED <<seed_start, seed_end, seed_descending, seed_done, seed_requests,
                     seed_pending, seed_stored, seed_kept,
                     seed_skipped, seed_cancel, seed_due, seed_cancelled, seed_partial, seed_resume>>
  BY DEF Seed!BudgetExhausted, Seed!Raise, Seed!Die, Seed!range, Seed!report, Seed!signal
<1>2. Seed!TypeOK'
  <2>1. {seed_cancelled', seed_partial', seed_cancel', seed_descending'} \subseteq BOOLEAN
    BY <1>0, <1>1, Zenon DEF Seed!TypeOK
  <2>2. QED
    BY <1>0, <1>1, <2>1 DEF Seed!TypeOK, Seed!Terminal, Seed!Total
<1>3. SeedDown' /\ SeedAtLoop' /\ SeedAtClosing' /\ SeedAtReturn' /\ SeedAtWork'
  BY <1>0, <1>1 DEF SeedDown, SeedAtLoop, SeedAtClosing, SeedAtReturn, SeedAtWork, Seed!Running
<1>4. Seed!Covered'
  BY <1>1 DEF Seed!Covered, Seed!Remaining
<1>5. QED
  BY <1>2, <1>3, <1>4 DEF SeedInv

\* The cancel event is set.
LEMMA SeedRequestCancelKeeps ==
  ASSUME Seed!ScanAssumption, SeedInv, Seed!RequestCancel
  PROVE  SeedInv'
<1>1. /\ seed_cancel' = TRUE /\ seed_due' = seed_done
      /\ UNCHANGED <<seed_pc, seed_start, seed_end, seed_descending, seed_done, seed_requests,
                     seed_pending, seed_stored, seed_kept,
                     seed_skipped, seed_cancelled, seed_partial, seed_resume>>
  BY DEF Seed!RequestCancel, Seed!range, Seed!report
<1>2. Seed!TypeOK'
  <2>1. {seed_cancelled', seed_partial', seed_cancel', seed_descending'} \subseteq BOOLEAN
    BY <1>1, Zenon DEF SeedInv, Seed!TypeOK
  <2>2. QED
    BY <1>1, <2>1 DEF SeedInv, Seed!TypeOK, Seed!Total
<1>3. SeedDown' /\ SeedAtLoop' /\ SeedAtClosing' /\ SeedAtReturn' /\ SeedAtWork'
  BY <1>1
     DEF SeedInv, SeedDown, SeedAtLoop, SeedAtClosing, SeedAtReturn, SeedAtWork, Seed!Total,
         Seed!ResumeAt, Seed!Height, Seed!Fetched, SeedSettled
<1>4. Seed!Covered'
  BY <1>1 DEF SeedInv, Seed!Covered, Seed!Remaining, Seed!Fetched
<1>5. QED
  BY <1>2, <1>3, <1>4 DEF SeedInv

\* The operator scans on from the report, or scans the whole range again.
LEMMA SeedRestartKeeps ==
  ASSUME Seed!ScanAssumption, SeedInv, Seed!Resume \/ Seed!StartOver
  PROVE  SeedInv'
<1>0. Seed!TypeOK /\ SeedDown /\ SeedAtReturn /\ Seed!Covered
  BY DEF SeedInv
<1>1. CASE Seed!Resume
  <2>1. /\ seed_pc = "returned" /\ seed_resume \in First .. Last /\ seed_resume # NoHeight
        /\ UNCHANGED <<seed_kept, seed_skipped>>
    BY <1>1, Seed!ScanAssumption DEF Seed!Resume, Seed!ScanAssumption
  <2>2. First .. Last \subseteq SeedSettled \cup Seed!Remaining
    BY <1>0, <2>1 DEF Seed!Covered, SeedSettled, Seed!Running
  <2>3. CASE seed_descending
    <3>1. /\ Seed!Scan(seed_start, seed_resume, FALSE)
          /\ Seed!Remaining = seed_start .. seed_resume /\ seed_start = First
      BY <1>0, <1>1, <2>1, <2>3 DEF Seed!Resume, Seed!Remaining, SeedDown
    <3>2. seed_start \in First .. Last /\ seed_start <= seed_resume
      BY <1>0, <2>1, <3>1 DEF Seed!TypeOK
    <3>3. QED
      BY <1>0, <2>1, <2>2, <3>1, <3>2, SeedScanStarts
  <2>4. CASE ~seed_descending
    <3>1. Seed!Scan(seed_resume, seed_end, FALSE) /\ Seed!Remaining = seed_resume .. seed_end
      BY <1>1, <2>1, <2>4 DEF Seed!Resume, Seed!Remaining
    <3>2. seed_end \in First .. Last /\ seed_resume <= seed_end
      BY <1>0, <2>1, <2>4, Seed!ScanAssumption
         DEF Seed!TypeOK, SeedAtReturn, Seed!ScanAssumption
    <3>3. QED
      BY <1>0, <2>1, <2>2, <3>1, <3>2, SeedScanStarts
  <2>5. QED
    BY <2>3, <2>4
<1>2. CASE Seed!StartOver
  <2>1. First \in First .. Last /\ Last \in First .. Last /\ First <= Last
    BY Seed!ScanAssumption DEF Seed!ScanAssumption
  <2>2. PICK down \in BOOLEAN : Seed!Scan(First, Last, down)
    BY <1>2 DEF Seed!StartOver
  <2>3. UNCHANGED <<seed_kept, seed_skipped>>
    BY <1>2 DEF Seed!StartOver
  <2>4. QED
    BY <1>0, <2>1, <2>2, <2>3, SeedScanStarts
<1>3. QED
  BY <1>1, <1>2

\* A step that changes nothing.
LEMMA SeedStutterKeeps == ASSUME SeedInv, UNCHANGED Seed!vars PROVE SeedInv'
<1>1. UNCHANGED <<seed_pc, seed_start, seed_end, seed_descending, seed_done, seed_requests,
                  seed_pending, seed_stored, seed_kept,
                  seed_skipped, seed_cancel, seed_due, seed_cancelled, seed_partial, seed_resume>>
  BY DEF Seed!vars
<1>2. QED
  BY <1>1
     DEF SeedInv, Seed!TypeOK, SeedDown, SeedAtLoop, SeedAtClosing, SeedAtReturn, SeedAtWork,
         Seed!Covered, Seed!Remaining, Seed!Total, Seed!ResumeAt, Seed!Height, Seed!Fetched,
         SeedSettled

----------------------------------------------------------------------------
(* No height of the seed scan is lost.                                     *)

\* SeedInv is an invariant of the scan and its session.
THEOREM SeedInvariant == ASSUME Seed!ScanAssumption PROVE Seed!Spec => []SeedInv
<1>1. Seed!Init => SeedInv
  BY SeedInitial
<1>2. SeedInv /\ [Seed!Next]_Seed!vars => SeedInv'
  <2> SUFFICES ASSUME SeedInv, [Seed!Next]_Seed!vars PROVE SeedInv'
    OBVIOUS
  <2>1. CASE Seed!Worker
    BY <2>1, SeedCancelAtTopKeeps, SeedProviderFailsKeeps, SeedFetchOneKeeps,
       SeedFlushWhenFullKeeps, SeedFinishKeeps, SeedReturnKeeps, SeedBreakKeeps
       DEF Seed!Worker
  <2>2. CASE Seed!Raise \/ Seed!Die
    BY <2>2, SeedBreakKeeps
  <2>3. CASE Seed!RequestCancel
    BY <2>3, SeedRequestCancelKeeps
  <2>4. CASE Seed!Resume \/ Seed!StartOver
    BY <2>4, SeedRestartKeeps
  <2>5. CASE UNCHANGED Seed!vars
    BY <2>5, SeedStutterKeeps
  <2>6. QED
    BY <2>1, <2>2, <2>3, <2>4, <2>5 DEF Seed!Next
<1>3. QED
  BY <1>1, <1>2, PTL DEF Seed!Spec

\* The scan's positions, counters and resume heights stay in their ranges, in both
\* directions and after every resume.
THEOREM SeedTypeCorrect == ASSUME Seed!ScanAssumption PROVE Seed!Spec => []Seed!TypeOK
<1>1. SeedInv => Seed!TypeOK
  BY DEF SeedInv
<1>2. QED
  BY SeedInvariant, <1>1, PTL

\* scan_ltc_blockcypher and its resumes lose no height of the session except the
\* one per interruption that a descending report leaves out.
THEOREM SeedNoHeightIsLost == ASSUME Seed!ScanAssumption PROVE Seed!Spec => []Seed!Covered
<1>1. SeedInv => Seed!Covered
  BY DEF SeedInv
<1>2. QED
  BY SeedInvariant, <1>1, PTL

----------------------------------------------------------------------------
(* What is committed and what is at risk.                                  *)

SeedBookInv ==
  /\ Seed!Fetched = seed_stored \cup seed_pending
  /\ seed_stored \cap seed_pending = {}
  /\ seed_pc = "returned" => seed_pending = {} /\ Cardinality(seed_stored) = seed_done
  /\ Cardinality(seed_pending) <= SeedBatch
  /\ seed_pc = "loop" => Cardinality(seed_pending) < SeedBatch

\* StoredIsPrefix and AtRiskBounded of the seed scan.
LEMMA SeedBookIs == SeedBookInv <=> Seed!StoredIsPrefix /\ Seed!AtRiskBounded
BY SameCardinality, Zenon DEF SeedBookInv, Seed!StoredIsPrefix, Seed!AtRiskBounded

\* A scan of an allowed range has fetched as many heights as it has counted.
LEMMA SeedFetchedCounts ==
  ASSUME Seed!ScanAssumption, Seed!TypeOK
  PROVE  IsFiniteSet(Seed!Fetched) /\ Cardinality(Seed!Fetched) = seed_done
<1>1. seed_start \in Int /\ seed_end \in Int /\ seed_done \in Nat
  BY DEF Seed!ScanAssumption, Seed!TypeOK, Seed!Total
<1>2. \A a, b \in Int : IsFiniteSet(a .. b) /\ Cardinality(a .. b) = IF a > b THEN 0 ELSE b - a + 1
  BY FS_Interval
<1>3. CASE seed_descending
  <2>1. /\ IsFiniteSet((seed_end - seed_done + 1) .. seed_end)
        /\ Cardinality((seed_end - seed_done + 1) .. seed_end)
             = IF seed_end - seed_done + 1 > seed_end THEN 0 ELSE seed_end - (seed_end - seed_done + 1) + 1
    <3>1. seed_end - seed_done + 1 \in Int
      BY <1>1
    <3>2. QED
      BY <1>1, <1>2, <3>1, Zenon
  <2>2. QED
    BY <1>1, <1>3, <2>1 DEF Seed!Fetched
<1>4. CASE ~seed_descending
  <2>1. /\ IsFiniteSet(seed_start .. (seed_start + seed_done - 1))
        /\ Cardinality(seed_start .. (seed_start + seed_done - 1))
             = IF seed_start > seed_start + seed_done - 1 THEN 0 ELSE seed_start + seed_done - 1 - seed_start + 1
    <3>1. seed_start + seed_done - 1 \in Int
      BY <1>1
    <3>2. QED
      BY <1>1, <1>2, <3>1
  <2>2. QED
    BY <1>1, <1>4, <2>1 DEF Seed!Fetched
<1>5. QED
  BY <1>3, <1>4

\* Pending records are finitely many.
LEMMA SeedPendingIsFinite ==
  ASSUME Seed!ScanAssumption, Seed!TypeOK
  PROVE  IsFiniteSet(seed_pending) /\ Cardinality(seed_pending) \in Nat
<1>1. First \in Int /\ Last \in Int /\ seed_pending \in SUBSET (First .. Last)
  BY DEF Seed!ScanAssumption, Seed!TypeOK
<1>2. QED
  BY <1>1, FS_Interval, FS_Subset, FS_CardinalityType, Zenon

\* A new scan has fetched nothing.
LEMMA SeedBooksOpen ==
  ASSUME Seed!ScanAssumption,
         NEW lo \in First .. Last, NEW hi \in First .. Last, NEW down \in BOOLEAN,
         Seed!Scan(lo, hi, down)
  PROVE  SeedBookInv'
<1>1. Cardinality({}) = 0
  BY FS_EmptySet
<1>2. Seed!Fetched' = {}
  BY DEF Seed!ScanAssumption, Seed!Scan, Seed!Fetched
<1>3. QED
  BY <1>1, <1>2 DEF Seed!ScanAssumption, Seed!Scan, SeedBookInv

\* Neither has the first one.
LEMMA SeedBooksInitial == ASSUME Seed!ScanAssumption, Seed!Init PROVE SeedBookInv
<1>1. Cardinality({}) = 0
  BY FS_EmptySet
<1>2. Seed!Fetched = {}
  BY DEF Seed!ScanAssumption, Seed!Init, Seed!Fetched
<1>3. QED
  BY <1>1, <1>2 DEF Seed!ScanAssumption, Seed!Init, SeedBookInv

\* A flush leaves nothing pending, and loses nothing.
LEMMA SeedFlushBooks ==
  ASSUME Seed!ScanAssumption, SeedInv, SeedBookInv, Seed!Flush, UNCHANGED <<Seed!range, seed_done>>
  PROVE  /\ Seed!Fetched' = seed_stored' \cup seed_pending' /\ seed_stored' \cap seed_pending' = {}
         /\ Cardinality(seed_pending') = 0 /\ seed_pending' = {}
         /\ Cardinality(seed_stored') = seed_done'
<1>1. Seed!Fetched' = Seed!Fetched /\ seed_done' = seed_done
  BY DEF Seed!range, Seed!Fetched
<1>2. seed_stored' = Seed!Fetched /\ seed_pending' = {}
  BY DEF Seed!Flush, SeedBookInv
<1>3. Cardinality(Seed!Fetched) = seed_done
  BY SeedFetchedCounts DEF SeedInv
<1>4. QED
  BY <1>1, <1>2, <1>3, FS_EmptySet, Zenon

\* A fetched record is pending, and the flush that follows keeps it so for as long as
\* there are few of them.
LEMMA SeedFetchOneBooks ==
  ASSUME Seed!ScanAssumption, SeedInv, SeedBookInv, Seed!FetchOne
  PROVE  SeedBookInv'
<1>1. /\ Seed!TypeOK /\ seed_pc = "loop" /\ seed_done < Seed!Total /\ seed_pc' = "flush"
      /\ seed_start' = seed_start /\ seed_end' = seed_end /\ seed_descending' = seed_descending
      /\ seed_done' = seed_done + 1 /\ seed_pending' = seed_pending \cup {Seed!Height}
      /\ seed_stored' = seed_stored
  BY DEF SeedInv, Seed!FetchOne, Seed!range
<1>2. Seed!Fetched' = Seed!Fetched \cup {Seed!Height} /\ Seed!Height \notin Seed!Fetched
  BY <1>1 DEF Seed!ScanAssumption, Seed!TypeOK, Seed!Total, Seed!Fetched, Seed!Height
<1>3. /\ Seed!Fetched = seed_stored \cup seed_pending /\ seed_stored \cap seed_pending = {}
      /\ Cardinality(seed_pending) < SeedBatch
  BY <1>1 DEF SeedBookInv
<1>4. Cardinality(seed_pending \cup {Seed!Height}) = Cardinality(seed_pending) + 1
  <2>1. Seed!Height \notin seed_pending
    BY <1>2, <1>3
  <2>2. QED
    BY <1>1, <2>1, SeedPendingIsFinite, FS_AddElement, Zenon
<1>5. Cardinality(seed_pending') <= SeedBatch
  <2>1. Cardinality(seed_pending) \in Nat /\ SeedBatch \in Nat
    BY <1>1, SeedPendingIsFinite DEF Seed!ScanAssumption
  <2>2. QED
    BY <1>1, <1>3, <1>4, <2>1
<1>6. Seed!Fetched' = seed_stored' \cup seed_pending' /\ seed_stored' \cap seed_pending' = {}
  BY <1>1, <1>2, <1>3
<1>7. QED
  BY <1>1, <1>5, <1>6 DEF SeedBookInv

\* The flush at the bound.
LEMMA SeedFlushWhenFullBooks ==
  ASSUME Seed!ScanAssumption, SeedInv, SeedBookInv, Seed!FlushWhenFull
  PROVE  SeedBookInv'
<1>1. seed_pc' = "loop" /\ UNCHANGED <<Seed!range, seed_done>>
  BY DEF Seed!FlushWhenFull
<1>2. CASE Cardinality(seed_pending) >= SeedBatch
  <2>1. Seed!Flush
    BY <1>2, SameCardinality DEF Seed!FlushWhenFull
  <2>2. QED
    BY <1>1, <2>1, SeedFlushBooks DEF SeedBookInv, Seed!ScanAssumption
<1>3. CASE ~(Cardinality(seed_pending) >= SeedBatch)
  <2>1. UNCHANGED <<seed_pending, seed_stored>> /\ Seed!Fetched' = Seed!Fetched
    BY <1>1, <1>3, SameCardinality DEF Seed!FlushWhenFull, Seed!Fetched, Seed!range
  <2>2. Cardinality(seed_pending) < SeedBatch
    BY <1>3, SeedPendingIsFinite DEF SeedInv, Seed!ScanAssumption
  <2>3. QED
    BY <1>1, <2>1, <2>2 DEF SeedBookInv
<1>4. QED
  BY <1>2, <1>3

\* A refused request closes the scan after a flush.
LEMMA SeedProviderFailsBooks ==
  ASSUME Seed!ScanAssumption, SeedInv, SeedBookInv, Seed!ProviderFails
  PROVE  SeedBookInv'
<1>1. Seed!Flush /\ UNCHANGED <<Seed!range, seed_done>> /\ seed_pc' = "closing"
  BY DEF Seed!ProviderFails, Seed!Interrupt
<1>2. QED
  BY <1>1, SeedFlushBooks DEF SeedBookInv, Seed!ScanAssumption

\* The last flush.
LEMMA SeedReturnBooks ==
  ASSUME Seed!ScanAssumption, SeedInv, SeedBookInv, Seed!Return
  PROVE  SeedBookInv'
<1>1. Seed!Flush /\ UNCHANGED <<Seed!range, seed_done>> /\ seed_pc' = "returned"
  BY DEF Seed!Return
<1>2. QED
  BY <1>1, SeedFlushBooks DEF SeedBookInv, Seed!ScanAssumption

\* A step that fetches and writes nothing, and enters neither the loop nor a report.
LEMMA SeedOtherBooks ==
  ASSUME SeedBookInv, UNCHANGED <<seed_start, seed_end, seed_descending, seed_done, seed_pending,
                                  seed_stored>>,
         seed_pc' = seed_pc \/ seed_pc' \in {"closing", "raised", "dead"}
  PROVE  SeedBookInv'
BY DEF SeedBookInv, Seed!Fetched

\* The books agree with the corpus throughout.
THEOREM SeedBooksAgree == ASSUME Seed!ScanAssumption PROVE Seed!Spec => []SeedBookInv
<1>1. Seed!Init => SeedBookInv
  BY SeedBooksInitial
<1>2. SeedInv /\ SeedBookInv /\ [Seed!Next]_Seed!vars => SeedBookInv'
  <2> SUFFICES ASSUME SeedInv, SeedBookInv, [Seed!Next]_Seed!vars PROVE SeedBookInv'
    OBVIOUS
  <2>1. CASE Seed!FetchOne \/ Seed!FlushWhenFull \/ Seed!ProviderFails \/ Seed!Return
    BY <2>1, SeedFetchOneBooks, SeedFlushWhenFullBooks, SeedProviderFailsBooks, SeedReturnBooks
  <2>2. CASE Seed!CancelAtTop \/ Seed!BudgetExhausted \/ Seed!Finish \/ Seed!Raise
             \/ Seed!Die \/ Seed!RequestCancel
    BY <2>2, SeedOtherBooks
       DEF Seed!CancelAtTop, Seed!Interrupt, Seed!BudgetExhausted, Seed!Finish, Seed!Raise,
           Seed!Die, Seed!RequestCancel, Seed!range
  <2>3. CASE Seed!Resume
    <3>1. /\ seed_resume \in First .. Last /\ seed_start \in First .. Last
          /\ seed_end \in First .. Last
      BY <2>3 DEF Seed!Resume, SeedInv, Seed!TypeOK
    <3>2. QED
      BY <2>3, <3>1, SeedBooksOpen DEF Seed!Resume
  <2>4. CASE Seed!StartOver
    <3>1. First \in First .. Last /\ Last \in First .. Last
      BY DEF Seed!ScanAssumption
    <3>2. QED
      BY <2>4, <3>1, SeedBooksOpen DEF Seed!StartOver
  <2>5. CASE UNCHANGED Seed!vars
    BY <2>5, SeedOtherBooks DEF Seed!vars
  <2>6. QED
    BY <2>1, <2>2, <2>3, <2>4, <2>5 DEF Seed!Next, Seed!Worker
<1>3. QED
  BY SeedInvariant, <1>1, <1>2, PTL DEF Seed!Spec

\* What a seed scan has committed is the beginning of its range without holes, and its
\* report counts exactly that.
THEOREM SeedCommitsAreAPrefix == ASSUME Seed!ScanAssumption PROVE Seed!Spec => []Seed!StoredIsPrefix
<1>1. SeedBookInv => Seed!StoredIsPrefix
  BY SeedBookIs
<1>2. QED
  BY SeedBooksAgree, <1>1, PTL

\* Never more than one flush of records is at risk.
THEOREM SeedRiskIsBounded == ASSUME Seed!ScanAssumption PROVE Seed!Spec => []Seed!AtRiskBounded
<1>1. SeedBookInv => Seed!AtRiskBounded
  BY SeedBookIs
<1>2. QED
  BY SeedBooksAgree, <1>1, PTL

----------------------------------------------------------------------------
(* The local node scan.                                                    *)

\* The heights the scan has asked for before the chunk at hand.
Asked == node_start .. (node_base - 1)

\* Of the chunk at hand, what was yielded and what still waits are apart; a Core node
\* leaves nothing out.
AtNode ==
  node_pc \in {"chunk", "rows"} =>
    /\ node_uncommitted \subseteq node_start .. (Node!ChunkEnd - 1)
    /\ Cardinality(node_uncommitted) = node_yielded
    /\ node_pc = "chunk" =>
         /\ node_uncommitted \subseteq Asked
         /\ node_family = "core" => node_uncommitted = Asked
    /\ node_pc = "rows" =>
         /\ node_base <= Last
         /\ node_answer \subseteq node_base .. (Node!ChunkEnd - 1)
         /\ node_answer \cap node_uncommitted = {}
         /\ node_family = "core" =>
              node_uncommitted \cup node_answer = node_start .. (Node!ChunkEnd - 1)

\* From the commit on everything asked for is stored or entered as left out; a scan that
\* stopped in front of its end was cancelled, and its report resumes behind as many
\* heights as it stored.
AtCommit ==
  /\ node_pc \in {"committed", "returned"} =>
       /\ node_stored \subseteq Asked /\ Cardinality(node_stored) = node_yielded
       /\ node_stored \subseteq node_kept
       /\ Asked \subseteq node_kept \cup node_omitted
       /\ node_stored = Asked \/ Asked \cap node_omitted # {}
  /\ node_pc = "committed" => node_cancel \/ node_base = Last + 1
  /\ node_pc = "returned" =>
       /\ node_partial <=> node_yielded < Node!Requested
       /\ node_resume = IF node_cancelled THEN node_start + node_yielded ELSE NoHeight
       /\ ~node_cancelled => node_base = Last + 1

\* What the session has committed or entered as left out is one run of heights that
\* reaches up to the scan in progress.
AtStart ==
  /\ node_start <= node_base
  /\ \E m \in (node_start - 1) .. Last : node_kept \cup node_omitted = First .. m
  /\ node_family = "core" => node_omitted = {}

\* After a cancel the scan gets to the end of the chunk it had asked for.
AtCancel ==
  node_cancel => IF node_pc = "rows" THEN Node!ChunkEnd <= node_due ELSE node_base <= node_due

NodeInv == Node!TypeOK /\ AtNode /\ AtCommit /\ AtStart /\ AtCancel

\* The range of a scan and its position, as integers.
LEMMA NodeRange ==
  ASSUME Node!ScanAssumption, Node!TypeOK
  PROVE  /\ First \in Nat /\ Last \in Nat /\ First <= Last /\ NoHeight \notin Int
         /\ ChunkSize \in Nat /\ ChunkSize > 0
         /\ node_start \in First .. Last /\ node_yielded \in Nat
         /\ node_start + node_yielded <= Last + 1
         /\ node_base \in First .. Last + 1 /\ node_due \in First .. Last + 1
         /\ Node!ChunkEnd \in First .. Last + 1 /\ node_base <= Node!ChunkEnd
BY DEF Node!ScanAssumption, Node!TypeOK, Node!Requested, Node!ChunkEnd

\* Sets of heights are finite, and those of a range are no more than the range is long.
LEMMA HeightsCount ==
  ASSUME NEW a \in Int, NEW b \in Int, a <= b + 1, NEW S \in SUBSET (a .. b)
  PROVE  /\ IsFiniteSet(S) /\ Cardinality(S) \in Nat /\ Cardinality(S) <= b - a + 1
         /\ Cardinality(S) = b - a + 1 => S = a .. b
<1>1. IsFiniteSet(a .. b) /\ Cardinality(a .. b) = b - a + 1
  <2>1. IsFiniteSet(a .. b) /\ Cardinality(a .. b) = IF a > b THEN 0 ELSE b - a + 1
    BY FS_Interval, Zenon
  <2>2. QED
    BY <2>1
<1>2. /\ IsFiniteSet(S) /\ Cardinality(S) <= Cardinality(a .. b)
      /\ Cardinality(S) = Cardinality(a .. b) => S = a .. b
  BY <1>1, FS_Subset, Zenon
<1>3. Cardinality(S) \in Nat
  BY <1>2, FS_CardinalityType, Zenon
<1>4. QED
  BY <1>1, <1>2, <1>3

\* The session begins with an uncommitted range.
LEMMA NodeInitial == ASSUME Node!ScanAssumption, Node!Init PROVE NodeInv
<1>1. Node!TypeOK
  <2>1. {node_cancelled, node_partial, node_cancel} \subseteq BOOLEAN
    BY Zenon DEF Node!Init
  <2>2. QED
    BY <2>1 DEF Node!Init, Node!TypeOK, Node!ScanAssumption, Node!Requested, Node!Running
<1>2. AtNode /\ AtCommit
  <2>1. /\ node_pc = "chunk" /\ node_uncommitted = {} /\ node_yielded = 0
        /\ node_start = First /\ node_base = First
    BY DEF Node!Init
  <2>2. Asked = {} /\ Cardinality({}) = 0
    BY <2>1, FS_EmptySet DEF Asked, Node!ScanAssumption
  <2>3. QED
    BY <2>1, <2>2 DEF AtNode, AtCommit
<1>3. AtStart /\ AtCancel
  <2>1. node_kept \cup node_omitted = First .. (First - 1) /\ First - 1 \in (node_start - 1) .. Last
    BY DEF Node!Init, Node!ScanAssumption
  <2>2. QED
    BY <2>1 DEF AtStart, AtCancel, Node!Init, Node!ScanAssumption
<1>4. QED
  BY <1>1, <1>2, <1>3 DEF NodeInv

\* A scan from a height up to which everything is committed or left out.
LEMMA NodeScanStarts ==
  ASSUME Node!ScanAssumption, NodeInv,
         NEW lo \in First .. Last, Node!Scan(lo), UNCHANGED Node!session,
         \E m \in (lo - 1) .. Last : node_kept \cup node_omitted = First .. m
  PROVE  NodeInv'
<1>1. /\ node_pc' = "chunk" /\ node_start' = lo /\ node_base' = lo /\ node_due' = lo
      /\ node_answer' = {} /\ node_yielded' = 0 /\ node_uncommitted' = {} /\ node_stored' = {}
      /\ node_resume' = NoHeight /\ node_cancel' = FALSE
      /\ UNCHANGED <<node_family, node_kept, node_omitted>>
  BY DEF Node!Scan, Node!session
<1>2. Node!TypeOK'
  <2>1. {node_cancelled', node_partial', node_cancel'} \subseteq BOOLEAN
    BY Zenon DEF Node!Scan
  <2>2. QED
    BY <1>1, <2>1 DEF NodeInv, Node!TypeOK, Node!ScanAssumption, Node!Requested, Node!Running
<1>3. AtNode' /\ AtCommit'
  <2>1. Asked' = {} /\ Cardinality({}) = 0
    BY <1>1, FS_EmptySet DEF Asked, Node!ScanAssumption
  <2>2. QED
    BY <1>1, <2>1 DEF AtNode, AtCommit
<1>4. AtStart' /\ AtCancel'
  BY <1>1 DEF NodeInv, AtStart, AtCancel, Node!ScanAssumption
<1>5. QED
  BY <1>2, <1>3, <1>4 DEF NodeInv

\* The next chunk is asked for, and answered in full or in part.
LEMMA NodeFetchKeeps ==
  ASSUME Node!ScanAssumption, NodeInv, Node!FetchChunk
  PROVE  NodeInv'
<1>1. /\ Node!TypeOK /\ AtNode /\ AtStart /\ node_pc = "chunk" /\ node_base <= Last
      /\ ~node_cancel /\ node_pc' = "rows" /\ node_answer' \in Node!Answers
      /\ UNCHANGED <<node_family, node_start, node_base, node_yielded, node_uncommitted,
                     node_stored, node_cancelled, node_partial, node_resume, node_cancel,
                     node_kept, node_omitted, node_due>>
  BY DEF NodeInv, Node!FetchChunk, Node!report, Node!signal, Node!session
<1>2. /\ node_answer' \subseteq node_base .. (Node!ChunkEnd - 1)
      /\ node_family = "core" => node_answer' = node_base .. (Node!ChunkEnd - 1)
  BY <1>1 DEF Node!Answers
<1>3. Node!ChunkEnd' = Node!ChunkEnd /\ Asked' = Asked
  BY <1>1 DEF Node!ChunkEnd, Asked
<1>4. Node!TypeOK'
  <2>1. {node_cancelled', node_partial', node_cancel'} \subseteq BOOLEAN
    BY <1>1, Zenon DEF Node!TypeOK
  <2>2. node_answer' \subseteq First .. Last
    BY <1>1, <1>2, NodeRange
  <2>3. QED
    BY <1>1, <2>1, <2>2 DEF Node!TypeOK, Node!Requested, Node!Running
<1>5. AtNode'
  <2>1. /\ node_uncommitted \subseteq Asked /\ Cardinality(node_uncommitted) = node_yielded
        /\ node_family = "core" => node_uncommitted = Asked
    BY <1>1 DEF AtNode
  <2>2. node_answer' \cap node_uncommitted = {}
    BY <1>1, <1>2, <2>1, NodeRange DEF Asked
  <2>3. /\ node_uncommitted \subseteq node_start .. (Node!ChunkEnd - 1)
        /\ node_family = "core" =>
             node_uncommitted \cup node_answer' = node_start .. (Node!ChunkEnd - 1)
    <3>1. Asked \subseteq node_start .. (Node!ChunkEnd - 1)
      BY <1>1, NodeRange DEF Asked
    <3>2. node_start <= node_base =>
            Asked \cup node_base .. (Node!ChunkEnd - 1) = node_start .. (Node!ChunkEnd - 1)
      BY <1>1, NodeRange DEF Asked
    <3>3. node_start <= node_base
      BY <1>1 DEF AtStart
    <3>4. QED
      BY <1>2, <2>1, <3>1, <3>2, <3>3
  <2>4. QED
    BY <1>1, <1>2, <1>3, <2>1, <2>2, <2>3 DEF AtNode
<1>6. AtCommit' /\ AtStart' /\ AtCancel'
  BY <1>1 DEF AtCommit, AtStart, AtCancel
<1>7. QED
  BY <1>4, <1>5, <1>6 DEF NodeInv

\* A record joins the open transaction.
LEMMA NodeYieldKeeps ==
  ASSUME Node!ScanAssumption, NodeInv, Node!YieldRecord
  PROVE  NodeInv'
<1>1. /\ Node!TypeOK /\ AtNode /\ AtStart /\ AtCancel /\ node_pc = "rows"
      /\ node_yielded' = node_yielded + 1
      /\ UNCHANGED <<node_family, node_pc, node_start, node_base, node_stored,
                     node_cancelled, node_partial, node_resume, node_cancel, node_kept,
                     node_omitted, node_due>>
  BY DEF NodeInv, Node!YieldRecord, Node!report, Node!signal, Node!session
<1>2. PICK h \in node_answer : /\ node_answer' = node_answer \ {h}
                               /\ node_uncommitted' = node_uncommitted \cup {h}
  BY DEF Node!YieldRecord
<1>3. /\ node_base <= Last /\ node_answer \subseteq node_base .. (Node!ChunkEnd - 1)
      /\ node_answer \cap node_uncommitted = {}
      /\ node_uncommitted \subseteq node_start .. (Node!ChunkEnd - 1)
      /\ Cardinality(node_uncommitted) = node_yielded
      /\ node_family = "core" =>
           node_uncommitted \cup node_answer = node_start .. (Node!ChunkEnd - 1)
  BY <1>1 DEF AtNode
<1>4. /\ h \in node_start .. (Node!ChunkEnd - 1) /\ h \notin node_uncommitted
      /\ Node!ChunkEnd' = Node!ChunkEnd /\ Asked' = Asked
  BY <1>1, <1>2, <1>3, NodeRange DEF AtStart, Node!ChunkEnd, Asked
<1>5. /\ node_uncommitted' \subseteq node_start .. (Node!ChunkEnd - 1)
      /\ Cardinality(node_uncommitted') = node_yielded'
  <2>1. node_start \in Int /\ Node!ChunkEnd - 1 \in Int /\ node_start <= (Node!ChunkEnd - 1) + 1
    BY <1>1, NodeRange DEF AtStart
  <2>2. IsFiniteSet(node_uncommitted)
    BY <1>3, <2>1, HeightsCount, Zenon
  <2>3. Cardinality(node_uncommitted \cup {h}) = Cardinality(node_uncommitted) + 1
    BY <1>4, <2>2, FS_AddElement, Zenon
  <2>4. QED
    BY <1>1, <1>2, <1>3, <1>4, <2>3
<1>6. node_yielded' \in 0 .. Node!Requested'
  <2>1. /\ node_start \in Int /\ Node!ChunkEnd - 1 \in Int /\ node_start <= (Node!ChunkEnd - 1) + 1
        /\ Node!ChunkEnd \in Int /\ Node!ChunkEnd <= Last + 1 /\ Last \in Int
    BY <1>1, NodeRange DEF AtStart
  <2>2. /\ Cardinality(node_uncommitted') \in Nat
        /\ Cardinality(node_uncommitted') <= (Node!ChunkEnd - 1) - node_start + 1
    BY <1>5, <2>1, HeightsCount, Zenon
  <2>3. node_yielded' <= Last - node_start + 1 /\ node_yielded' \in Nat
    BY <1>5, <2>1, <2>2
  <2>4. Node!Requested' = Last - node_start + 1
    BY <1>1 DEF Node!Requested
  <2>5. QED
    BY <2>1, <2>3, <2>4
<1>7. Node!TypeOK'
  <2>1. {node_cancelled', node_partial', node_cancel'} \subseteq BOOLEAN
    BY <1>1, Zenon DEF Node!TypeOK
  <2>2. node_uncommitted' \subseteq First .. Last /\ node_answer' \subseteq First .. Last
    BY <1>1, <1>2, <1>5, NodeRange DEF Node!TypeOK
  <2>3. QED
    BY <1>1, <1>6, <2>1, <2>2 DEF Node!TypeOK
<1>8. AtNode'
  BY <1>1, <1>2, <1>3, <1>4, <1>5 DEF AtNode
<1>9. AtCommit' /\ AtStart' /\ AtCancel'
  BY <1>1, <1>4 DEF AtCommit, AtStart, AtCancel
<1>10. QED
  BY <1>7, <1>8, <1>9 DEF NodeInv

\* The answer is used up.
LEMMA NodeNextKeeps ==
  ASSUME Node!ScanAssumption, NodeInv, Node!NextChunk
  PROVE  NodeInv'
<1>1. /\ Node!TypeOK /\ AtNode /\ AtStart /\ AtCancel /\ node_pc = "rows" /\ node_answer = {}
      /\ node_pc' = "chunk" /\ node_base' = Node!ChunkEnd
      /\ UNCHANGED <<node_family, node_start, node_answer, node_yielded, node_uncommitted,
                     node_stored, node_cancelled, node_partial, node_resume, node_cancel,
                     node_kept, node_omitted, node_due>>
  BY DEF NodeInv, Node!NextChunk, Node!rows, Node!report, Node!signal, Node!session
<1>2. Node!ChunkEnd \in First .. Last + 1 /\ node_base <= Node!ChunkEnd /\ Node!ChunkEnd \in Int
  BY <1>1, NodeRange
<1>3. Node!TypeOK'
  <2>1. {node_cancelled', node_partial', node_cancel'} \subseteq BOOLEAN
    BY <1>1, Zenon DEF Node!TypeOK
  <2>2. QED
    BY <1>1, <1>2, <2>1 DEF Node!TypeOK, Node!Requested, Node!Running
<1>4. AtNode'
  <2>1. /\ node_uncommitted \subseteq node_start .. (Node!ChunkEnd - 1)
        /\ Cardinality(node_uncommitted) = node_yielded
        /\ node_family = "core" =>
             node_uncommitted \cup node_answer = node_start .. (Node!ChunkEnd - 1)
    BY <1>1 DEF AtNode
  <2>2. Asked' = node_start .. (Node!ChunkEnd - 1)
    BY <1>1 DEF Asked
  <2>3. Node!ChunkEnd' \in Int /\ Node!ChunkEnd <= Node!ChunkEnd'
    BY <1>1, <1>2 DEF Node!ChunkEnd, Node!ScanAssumption
  <2>4. Asked' \subseteq node_start .. (Node!ChunkEnd' - 1)
    BY <1>1, <1>2, <2>2, <2>3, NodeRange
  <2>5. QED
    BY <1>1, <2>1, <2>2, <2>4 DEF AtNode
<1>5. AtStart' /\ AtCancel' /\ AtCommit'
  BY <1>1, <1>2, NodeRange DEF AtStart, AtCancel, AtCommit
<1>6. QED
  BY <1>3, <1>4, <1>5 DEF NodeInv

\* The one commit extends the run of heights.
LEMMA NodeCommitKeeps ==
  ASSUME Node!ScanAssumption, NodeInv, Node!CommitScan
  PROVE  NodeInv'
<1>1. /\ Node!TypeOK /\ AtNode /\ AtStart /\ AtCancel
      /\ node_pc = "chunk" /\ node_pc' = "committed"
      /\ node_cancel \/ node_base > Last
      /\ node_stored' = node_uncommitted /\ node_kept' = node_kept \cup node_uncommitted
      /\ node_omitted' = node_omitted \cup (Asked \ node_uncommitted)
      /\ node_uncommitted' = {}
      /\ UNCHANGED <<node_family, node_start, node_base, node_answer, node_yielded,
                     node_cancelled, node_partial, node_resume, node_cancel, node_due>>
  BY DEF NodeInv, Node!CommitScan, Node!report, Node!signal, Asked
<1>2. /\ node_uncommitted \subseteq Asked /\ Cardinality(node_uncommitted) = node_yielded
      /\ node_family = "core" => node_uncommitted = Asked
  BY <1>1 DEF AtNode
<1>3. Asked' = Asked /\ Asked \subseteq First .. Last
  BY <1>1, NodeRange DEF Asked
<1>4. Node!TypeOK'
  <2>1. {node_cancelled', node_partial', node_cancel'} \subseteq BOOLEAN
    BY <1>1, Zenon DEF Node!TypeOK
  <2>2. node_stored' \subseteq First .. Last /\ node_kept' \subseteq First .. Last
    BY <1>1, <1>2, <1>3 DEF Node!TypeOK
  <2>3. node_omitted' \subseteq First .. Last
    BY <1>1, <1>3 DEF Node!TypeOK
  <2>4. QED
    BY <1>1, <2>1, <2>2, <2>3 DEF Node!TypeOK, Node!Requested, Node!Running
<1>5. node_cancel \/ node_base = Last + 1
  BY <1>1, NodeRange
<1>6. node_kept' \cup node_omitted' = node_kept \cup node_omitted \cup Asked
  BY <1>1, <1>2
<1>7. AtCommit'
  BY <1>1, <1>2, <1>3, <1>5, <1>6 DEF AtCommit
<1>8. AtStart'
  <2>1. PICK m \in (node_start - 1) .. Last : node_kept \cup node_omitted = First .. m
    BY <1>1 DEF AtStart
  <2>2. CASE m >= node_base - 1
    <3>1. node_kept' \cup node_omitted' = First .. m
      BY <1>1, <1>6, <2>1, <2>2, NodeRange DEF Asked
    <3>2. QED
      BY <1>1, <1>2, <2>1, <3>1 DEF AtStart
  <2>3. CASE m < node_base - 1
    <3>1. node_kept' \cup node_omitted' = First .. (node_base - 1)
      BY <1>1, <1>6, <2>1, <2>3, NodeRange DEF Asked
    <3>2. node_base - 1 \in (node_start - 1) .. Last
      BY <1>1, NodeRange DEF AtStart
    <3>3. QED
      BY <1>1, <1>2, <3>1, <3>2 DEF AtStart
  <2>4. QED
    BY <1>1, <2>1, <2>2, <2>3, NodeRange
<1>9. AtNode' /\ AtCancel'
  BY <1>1 DEF AtNode, AtCancel
<1>10. QED
  BY <1>4, <1>7, <1>8, <1>9 DEF NodeInv

\* The report of what was committed.
LEMMA NodeReturnKeeps ==
  ASSUME Node!ScanAssumption, NodeInv, Node!Return
  PROVE  NodeInv'
<1>1. /\ Node!TypeOK /\ AtCommit /\ AtStart /\ AtCancel
      /\ node_pc = "committed" /\ node_pc' = "returned"
      /\ node_cancelled' = node_cancel
      /\ node_partial' = (node_yielded < Node!Requested)
      /\ node_resume' = IF node_cancel THEN node_start + node_yielded ELSE NoHeight
      /\ UNCHANGED <<node_family, node_start, node_base, node_answer, node_yielded,
                     node_uncommitted, node_stored, node_cancel, node_kept, node_omitted,
                     node_due>>
  BY DEF NodeInv, Node!Return, Node!rows, Node!signal, Node!session
<1>2. Node!TypeOK'
  <2>1. node_partial' \in BOOLEAN
    <3>1. (node_yielded < Node!Requested) \in BOOLEAN
      OBVIOUS
    <3>2. QED
      BY <1>1, <3>1, Zenon
  <2>2. node_cancelled' \in BOOLEAN /\ node_cancel' \in BOOLEAN
    BY <1>1, Zenon DEF Node!TypeOK
  <2>3. node_resume' \in First .. Last + 1 \cup {NoHeight}
    BY <1>1, NodeRange
  <2>4. QED
    BY <1>1, <2>1, <2>2, <2>3 DEF Node!TypeOK, Node!Requested, Node!Terminal
<1>3. Asked' = Asked /\ Node!Requested' = Node!Requested
  BY <1>1 DEF Asked, Node!Requested
<1>4. AtNode' /\ AtCommit' /\ AtStart' /\ AtCancel'
  BY <1>1, <1>3 DEF AtNode, AtCommit, AtStart, AtCancel
<1>5. QED
  BY <1>2, <1>4 DEF NodeInv

\* An error or a kill takes the open transaction back.
LEMMA NodeBreakKeeps ==
  ASSUME Node!ScanAssumption, NodeInv, Node!Raise \/ Node!Die
  PROVE  NodeInv'
<1>1. /\ Node!TypeOK /\ AtStart /\ AtCancel
      /\ node_pc' \in {"raised", "dead"} /\ node_uncommitted' = {}
      /\ UNCHANGED <<node_family, node_start, node_base, node_answer, node_yielded,
                     node_stored, node_cancelled, node_partial, node_resume, node_cancel,
                     node_kept, node_omitted, node_due>>
  BY DEF NodeInv, Node!Raise, Node!Die, Node!Broken, Node!report, Node!signal, Node!session
<1>2. Node!TypeOK'
  <2>1. {node_cancelled', node_partial', node_cancel'} \subseteq BOOLEAN
    BY <1>1, Zenon DEF Node!TypeOK
  <2>2. QED
    BY <1>1, <2>1 DEF Node!TypeOK, Node!Requested, Node!Terminal
<1>3. AtNode' /\ AtCommit' /\ AtStart'
  BY <1>1 DEF AtNode, AtCommit, AtStart
<1>4. AtCancel'
  BY <1>1, NodeRange DEF AtCancel
<1>5. QED
  BY <1>2, <1>3, <1>4 DEF NodeInv

\* The cancel event is set.
LEMMA NodeCancelKeeps ==
  ASSUME Node!ScanAssumption, NodeInv, Node!RequestCancel
  PROVE  NodeInv'
<1>1. /\ Node!TypeOK /\ AtNode /\ AtCommit /\ AtStart /\ node_cancel' = TRUE
      /\ node_due' = IF node_pc = "rows" THEN Node!ChunkEnd ELSE node_base
      /\ UNCHANGED <<node_family, node_pc, node_start, node_base, node_answer, node_yielded,
                     node_uncommitted, node_stored, node_cancelled, node_partial,
                     node_resume, node_kept, node_omitted>>
  BY DEF NodeInv, Node!RequestCancel, Node!rows, Node!report, Node!session
<1>2. Node!TypeOK'
  <2>1. {node_cancelled', node_partial', node_cancel'} \subseteq BOOLEAN
    BY <1>1, Zenon DEF Node!TypeOK
  <2>2. node_due' \in First .. Last + 1
    BY <1>1, NodeRange
  <2>3. QED
    BY <1>1, <2>1, <2>2 DEF Node!TypeOK, Node!Requested
<1>3. Node!ChunkEnd' = Node!ChunkEnd /\ Asked' = Asked /\ Node!Requested' = Node!Requested
  BY <1>1 DEF Node!ChunkEnd, Asked, Node!Requested
<1>4. AtNode' /\ AtCommit' /\ AtStart'
  BY <1>1, <1>3 DEF AtNode, AtCommit, AtStart
<1>5. AtCancel'
  BY <1>1, <1>3, NodeRange DEF AtCancel
<1>6. QED
  BY <1>2, <1>4, <1>5 DEF NodeInv

\* The operator scans on from the reported height, or the same range again.
LEMMA NodeRestartKeeps ==
  ASSUME Node!ScanAssumption, NodeInv, Node!Resume \/ Node!StartOver
  PROVE  NodeInv'
<1>1. Node!TypeOK /\ AtCommit /\ AtStart /\ UNCHANGED Node!session
  BY DEF NodeInv, Node!Resume, Node!StartOver
<1>2. PICK m \in (node_start - 1) .. Last : node_kept \cup node_omitted = First .. m
  BY <1>1 DEF AtStart
<1>3. CASE Node!Resume
  <2>1. /\ node_pc = "returned" /\ node_resume \in First .. Last
        /\ Node!Scan(node_resume)
    BY <1>3 DEF Node!Resume
  <2>2. /\ node_resume = node_start + node_yielded
        /\ Asked \subseteq First .. m
        /\ node_stored \subseteq Asked /\ Cardinality(node_stored) = node_yielded
    BY <1>1, <1>2, <2>1, NodeRange DEF AtCommit
  <2>3. node_yielded <= node_base - node_start
    <3>1. node_start \in Int /\ node_base - 1 \in Int /\ node_start <= (node_base - 1) + 1
      BY <1>1, NodeRange DEF AtStart
    <3>2. Cardinality(node_stored) <= (node_base - 1) - node_start + 1
      BY <2>2, <3>1, HeightsCount, Zenon DEF Asked
    <3>3. QED
      BY <1>1, <2>2, <3>1, <3>2, NodeRange
  <2>4. node_base - 1 <= m
    <3>1. CASE node_base = node_start
      BY <1>1, <1>2, <3>1, NodeRange
    <3>2. CASE node_base # node_start
      <4>1. node_base - 1 \in Asked
        BY <1>1, <3>2, NodeRange DEF Asked, AtStart
      <4>2. node_base - 1 \in First .. m
        BY <2>2, <4>1
      <4>3. QED
        BY <4>2
    <3>3. QED
      BY <3>1, <3>2
  <2>5. m \in (node_resume - 1) .. Last
    BY <1>1, <1>2, <2>1, <2>2, <2>3, <2>4, NodeRange
  <2>6. QED
    BY <1>1, <1>2, <2>1, <2>5, NodeScanStarts
<1>4. CASE Node!StartOver
  <2>1. Node!Scan(node_start) /\ node_start \in First .. Last
    BY <1>1, <1>4 DEF Node!StartOver, Node!TypeOK
  <2>2. QED
    BY <1>1, <1>2, <2>1, NodeScanStarts
<1>5. QED
  BY <1>3, <1>4

\* A step of another scan.
LEMMA NodeStutterKeeps == ASSUME NodeInv, UNCHANGED node_vars PROVE NodeInv'
<1>1. UNCHANGED <<node_family, node_pc, node_start, node_base, node_answer, node_yielded,
                  node_uncommitted, node_stored, node_cancelled, node_partial, node_resume,
                  node_cancel, node_kept, node_omitted, node_due>>
  BY DEF node_vars
<1>2. /\ Node!ChunkEnd' = Node!ChunkEnd /\ Asked' = Asked /\ Node!Requested' = Node!Requested
  BY <1>1 DEF Node!ChunkEnd, Asked, Node!Requested
<1>3. Node!TypeOK' <=> Node!TypeOK
  BY <1>1, <1>2 DEF Node!TypeOK
<1>4. AtNode' /\ AtCommit' /\ AtStart' /\ AtCancel'
  BY <1>1, <1>2 DEF NodeInv, AtNode, AtCommit, AtStart, AtCancel
<1>5. QED
  BY <1>3, <1>4 DEF NodeInv

----------------------------------------------------------------------------
(* A session of the worker is a session of each scan.                      *)

\* A session of the worker is a BTC session, in which nothing happens when the source
\* is another one.
LEMMA IsBtcSession == AcquisitionSpec => Spec
<1>1. AcquisitionInit => Init
  BY DEF AcquisitionInit
<1>2. [AcquisitionNext]_all_vars => [Next]_vars
  BY DEF AcquisitionNext, FromBtc, FromSeed, FromNode, all_vars, vars
<1>3. QED
  BY <1>1, <1>2, PTL DEF AcquisitionSpec, Spec

\* A session of the worker is a seed session.
LEMMA IsSeedSession == AcquisitionSpec => Seed!Spec
<1>1. AcquisitionInit => Seed!Init
  BY DEF AcquisitionInit
<1>2. [AcquisitionNext]_all_vars => [Seed!Next]_Seed!vars
  BY DEF AcquisitionNext, FromBtc, FromSeed, FromNode, all_vars, seed_vars, Seed!vars
<1>3. QED
  BY <1>1, <1>2, PTL DEF AcquisitionSpec, Seed!Spec

----------------------------------------------------------------------------
(* The theorems.                                                           *)

\* The invariant of the node scan holds in every session of the worker.
THEOREM NodeInvariant == AcquisitionSpec => []NodeInv
<1>1. Node!ScanAssumption
  BY AcquisitionAssumption
<1>2. AcquisitionInit => NodeInv
  BY <1>1, NodeInitial DEF AcquisitionInit
<1>3. NodeInv /\ [AcquisitionNext]_all_vars => NodeInv'
  <2> SUFFICES ASSUME NodeInv, [AcquisitionNext]_all_vars PROVE NodeInv'
    OBVIOUS
  <2>1. CASE Node!Next
    BY <1>1, <2>1, NodeFetchKeeps, NodeYieldKeeps, NodeNextKeeps, NodeCommitKeeps, NodeReturnKeeps,
       NodeBreakKeeps, NodeCancelKeeps, NodeRestartKeeps DEF Node!Next, Node!Worker
  <2>2. CASE UNCHANGED node_vars
    BY <2>2, NodeStutterKeeps
  <2>3. QED
    BY <2>1, <2>2 DEF AcquisitionNext, FromBtc, FromSeed, FromNode, all_vars
<1>4. QED
  BY <1>2, <1>3, PTL DEF AcquisitionSpec

\* Positions, counters, flags and resume heights of the three scans stay in their
\* ranges, after every cancel, failure, death and resume.
THEOREM TypesAreCorrect == AcquisitionSpec => []TypesOK
<1>1. AcquisitionSpec => []TypeOK
  BY IsBtcSession, TypeCorrect, PTL
<1>2. AcquisitionSpec => []Seed!TypeOK
  BY AcquisitionAssumption, IsSeedSession, SeedTypeCorrect, PTL
<1>3. NodeInv => Node!TypeOK
  BY DEF NodeInv
<1>4. TypeOK /\ Seed!TypeOK /\ Node!TypeOK => TypesOK
  BY DEF TypesOK
<1>5. QED
  BY <1>1, <1>2, <1>3, <1>4, NodeInvariant, PTL

\* No height of a BTC session is lost, except those that a cancelled batch cut off.
THEOREM BtcLosesNoHeight == AcquisitionSpec => []Covered
BY IsBtcSession, NoHeightIsLost, PTL

\* The reports of scan_btc_public_consensus tell the truth.
THEOREM BtcReportsAreTrue == AcquisitionSpec => []BtcReportIsTrue
<1>1. ImportedIsDurable /\ ReportIsHonest /\ ResumeRepeatsNothing => BtcReportIsTrue
  BY DEF BtcReportIsTrue
<1>2. QED
  BY <1>1, IsBtcSession, ImportsAreDurable, ReportsAreHonest, ResumesRepeatNothing, PTL

\* No height of a seed session is lost, except the one per interruption that a
\* descending report leaves out.
THEOREM SeedLosesNoHeight == AcquisitionSpec => []SeedCovered
<1>1. Seed!Covered => SeedCovered
  BY DEF SeedCovered
<1>2. QED
  BY <1>1, AcquisitionAssumption, IsSeedSession, SeedNoHeightIsLost, PTL

\* What a node session lacks up to its position was left out by answers, and its reports
\* count what it stored.
LEMMA NodeCommitsAreWhole ==
  ASSUME Node!ScanAssumption, NodeInv
  PROVE  Node!NoHoles /\ Node!ReportMatchesCommit
<1>1. Node!TypeOK /\ AtCommit /\ AtStart
  BY DEF NodeInv
<1>2. PICK m \in (node_start - 1) .. Last : node_kept \cup node_omitted = First .. m
  BY <1>1 DEF AtStart
<1>3. ASSUME node_pc = "returned"
      PROVE  /\ node_stored \subseteq Asked /\ Cardinality(node_stored) = node_yielded
             /\ Asked \subseteq First .. m
             /\ node_yielded <= node_base - node_start
             /\ node_yielded = node_base - node_start => node_stored = Asked
  <2>1. node_start \in Int /\ node_base - 1 \in Int /\ node_start <= (node_base - 1) + 1
    BY <1>1, NodeRange DEF AtStart
  <2>2. /\ node_stored \subseteq Asked /\ Cardinality(node_stored) = node_yielded
        /\ Asked \subseteq First .. m
    BY <1>1, <1>2, <1>3 DEF AtCommit
  <2>3. /\ Cardinality(node_stored) <= (node_base - 1) - node_start + 1
        /\ Cardinality(node_stored) = (node_base - 1) - node_start + 1 => node_stored = Asked
    BY <2>1, <2>2, HeightsCount, Zenon DEF Asked
  <2>4. QED
    BY <1>1, <2>1, <2>2, <2>3, NodeRange
<1>4. Node!ReportMatchesCommit
  <2>1. CASE node_pc = "returned"
    <3>1. /\ node_partial <=> node_yielded < Node!Requested
          /\ node_resume = IF node_cancelled THEN node_start + node_yielded ELSE NoHeight
          /\ ~node_cancelled => node_base = Last + 1
          /\ node_stored = Asked \/ Asked \cap node_omitted # {}
      BY <1>1, <2>1 DEF AtCommit
    <3>2. node_partial <=> node_stored # node_start .. Last
      <4>1. CASE node_yielded < Node!Requested
        <5>1. Cardinality(node_start .. Last) = Node!Requested
          <6>1. node_start \in Int /\ Last \in Int /\ node_start <= Last
            BY <1>1, NodeRange
          <6>2. Cardinality(node_start .. Last)
                  = IF node_start > Last THEN 0 ELSE Last - node_start + 1
            BY <6>1, FS_Interval, Zenon
          <6>3. QED
            BY <6>1, <6>2 DEF Node!Requested
        <5>2. node_stored # node_start .. Last
          BY <1>3, <2>1, <4>1, <5>1, NodeRange, <1>1 DEF Node!Requested
        <5>3. QED
          BY <3>1, <4>1, <5>2
      <4>2. CASE ~(node_yielded < Node!Requested)
        <5>1. node_yielded = node_base - node_start /\ node_base = Last + 1
          BY <1>1, <1>3, <2>1, <4>2, NodeRange DEF Node!Requested
        <5>2. node_stored = node_start .. Last
          BY <1>1, <1>3, <2>1, <5>1, NodeRange DEF Asked
        <5>3. QED
          BY <3>1, <4>2, <5>2
      <4>3. QED
        BY <4>1, <4>2
    <3>3. node_cancelled => node_resume <= node_base
      BY <1>1, <1>3, <2>1, <3>1, NodeRange
    <3>4. Node!Cardinality(node_stored) = node_yielded
      BY <1>3, <2>1, SameCardinality, Zenon
    <3>5. QED
      BY <3>1, <3>2, <3>3, <3>4 DEF Node!ReportMatchesCommit, Asked
  <2>2. QED
    BY <2>1 DEF Node!ReportMatchesCommit
<1>5. Node!NoHoles
  <2>1. node_kept \cup node_omitted
          = First .. (First + Node!Cardinality(node_kept \cup node_omitted) - 1)
    <3>1. First \in Int /\ m \in Int /\ m >= First - 1
      BY <1>1, <1>2, NodeRange
    <3>2. Cardinality(First .. m) = IF First > m THEN 0 ELSE m - First + 1
      BY <3>1, FS_Interval, Zenon
    <3>3. First + Cardinality(First .. m) - 1 = m
      BY <3>1, <3>2
    <3>4. QED
      BY <1>2, <3>3, SameCardinality, Zenon
  <2>2. First .. (node_start - 1) \subseteq node_kept \cup node_omitted
    BY <1>1, <1>2, NodeRange
  <2>3. ASSUME node_pc = "returned"
        PROVE  First .. ((IF node_resume = NoHeight THEN Last + 1 ELSE node_resume) - 1)
                 \subseteq node_kept \cup node_omitted
    <3>1. First .. (node_base - 1) \subseteq First .. m
      <4>1. First .. (node_base - 1) \subseteq First .. (node_start - 1) \cup Asked
        BY <1>1, NodeRange DEF Asked
      <4>2. First .. (node_start - 1) \subseteq First .. m
        BY <1>2, <2>2
      <4>3. QED
        BY <1>3, <2>3, <4>1, <4>2
    <3>2. (IF node_resume = NoHeight THEN Last + 1 ELSE node_resume) <= node_base
      BY <1>1, <1>3, <2>3, NodeRange DEF AtCommit
    <3>3. First .. ((IF node_resume = NoHeight THEN Last + 1 ELSE node_resume) - 1)
            \subseteq First .. (node_base - 1)
      BY <1>1, <3>2, NodeRange DEF Node!TypeOK
    <3>4. QED
      BY <1>2, <3>1, <3>3
  <2>4. QED
    BY <1>1, <2>1, <2>2, <2>3 DEF Node!NoHoles, AtStart
<1>6. QED
  BY <1>4, <1>5

\* What the scans commit has no holes, their reports count exactly that, and less than
\* one flush of seed records is at risk.
THEOREM CommitsAreWhole == AcquisitionSpec => []CommittedIsWhole
<1>1. AcquisitionSpec => []Seed!StoredIsPrefix
  BY AcquisitionAssumption, IsSeedSession, SeedCommitsAreAPrefix, PTL
<1>2. AcquisitionSpec => []Seed!AtRiskBounded
  BY AcquisitionAssumption, IsSeedSession, SeedRiskIsBounded, PTL
<1>3. NodeInv => Node!NoHoles /\ Node!ReportMatchesCommit
  BY AcquisitionAssumption, NodeCommitsAreWhole
<1>4. Seed!StoredIsPrefix /\ Seed!AtRiskBounded /\ Node!NoHoles /\ Node!ReportMatchesCommit
        => CommittedIsWhole
  BY DEF CommittedIsWhole
<1>5. QED
  BY <1>1, <1>2, <1>3, <1>4, NodeInvariant, PTL

\* The BTC scan looks at the event in front of every height.
LEMMA BtcIsPrompt == Spec => [](cancel => due = done)
<1>1. Init => (cancel => due = done)
  BY DEF Init
<1>2. (cancel => due = done) /\ [Next]_vars => (cancel => due = done)'
  <2> SUFFICES ASSUME cancel => due = done, [Next]_vars PROVE cancel' => due' = done'
    OBVIOUS
  <2>1. CASE FetchFails \/ FetchBatch \/ ProcessHeight
    BY <2>1 DEF FetchFails, FetchBatch, ProcessHeight, signal
  <2>2. CASE CancelAtTop \/ CancelInBatch \/ CommitBatch \/ Finish \/ Return \/ Raise \/ Die
    BY <2>2 DEF CancelAtTop, CancelInBatch, CommitBatch, Commit, Finish, Return, Raise, Die,
       results, signal
  <2>3. CASE RequestCancel \/ Resume \/ StartOver
    BY <2>3 DEF RequestCancel, Resume, StartOver, Scan, results
  <2>4. CASE UNCHANGED vars
    BY <2>4 DEF vars
  <2>5. QED
    BY <2>1, <2>2, <2>3, <2>4 DEF Next, Worker
<1>3. QED
  BY <1>1, <1>2, PTL DEF Spec

\* The seed scan looks at it in front of every request.
LEMMA SeedIsPrompt == Seed!Spec => [](seed_cancel => seed_due = seed_done)
<1>1. Seed!Init => (seed_cancel => seed_due = seed_done)
  BY DEF Seed!Init
<1>2. (seed_cancel => seed_due = seed_done) /\ [Seed!Next]_Seed!vars
        => (seed_cancel => seed_due = seed_done)'
  <2> SUFFICES ASSUME seed_cancel => seed_due = seed_done, [Seed!Next]_Seed!vars
               PROVE  seed_cancel' => seed_due' = seed_done'
    OBVIOUS
  <2>1. CASE Seed!ProviderFails \/ Seed!FetchOne
    BY <2>1 DEF Seed!ProviderFails, Seed!FetchOne, Seed!signal
  <2>2. CASE \/ Seed!CancelAtTop \/ Seed!FlushWhenFull \/ Seed!BudgetExhausted \/ Seed!Finish
             \/ Seed!Return \/ Seed!Raise \/ Seed!Die
    BY <2>2 DEF Seed!CancelAtTop, Seed!FlushWhenFull, Seed!BudgetExhausted, Seed!Finish,
       Seed!Return, Seed!Raise, Seed!Die, Seed!signal
  <2>3. CASE Seed!RequestCancel \/ Seed!Resume \/ Seed!StartOver
    BY <2>3 DEF Seed!RequestCancel, Seed!Resume, Seed!StartOver, Seed!Scan
  <2>4. CASE UNCHANGED Seed!vars
    BY <2>4 DEF Seed!vars
  <2>5. QED
    BY <2>1, <2>2, <2>3, <2>4 DEF Seed!Next, Seed!Worker
<1>3. QED
  BY <1>1, <1>2, PTL DEF Seed!Spec

\* Whatever the source, the report that follows a cancel holds nothing that had not been
\* taken up, or asked for in one chunk, when the cancel came.
THEOREM CancelsAreAnswered == AcquisitionSpec => []CancelIsAnswered
<1>1. (cancel => due = done) => CancelIsPrompt
  BY DEF CancelIsPrompt
<1>2. (seed_cancel => seed_due = seed_done) => Seed!CancelIsPrompt
  BY DEF Seed!CancelIsPrompt
<1>3. NodeInv => Node!CancelIsPrompt
  <2> SUFFICES ASSUME NodeInv, node_pc = "returned", node_cancel, NEW h \in node_stored
               PROVE  h < node_due
    BY DEF Node!CancelIsPrompt
  <2>1. Node!TypeOK /\ h \in Asked /\ node_base <= node_due
    BY DEF NodeInv, AtCommit, AtCancel
  <2>2. QED
    BY <2>1, AcquisitionAssumption, NodeRange DEF Asked
<1>4. CancelIsPrompt /\ Seed!CancelIsPrompt /\ Node!CancelIsPrompt => CancelIsAnswered
  BY DEF CancelIsAnswered
<1>5. QED
  BY <1>1, <1>2, <1>3, <1>4, IsBtcSession, IsSeedSession, BtcIsPrompt, SeedIsPrompt,
     NodeInvariant, PTL
=============================================================================
