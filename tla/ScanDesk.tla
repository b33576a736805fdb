------------------------------ MODULE ScanDesk ------------------------------
(***************************************************************************)
(* The corpus workspace of the GUI.  Probes, tip lookups and scans run on  *)
(* worker threads that answer through `scan_queue`; the Tk loop drains it  *)
(* in a poll that re-arms itself while `scan_thread` is alive.  All scans  *)
(* share one cancel event.                                                 *)
(*                                                                         *)
(* Clicks and polls run on the one UI thread, so a click never comes in    *)
(* the middle of a poll, but the workers run and post while one drains.    *)
(* A message box opened by a poll runs a Tk loop of its own until the user *)
(* closes it: it takes the clicks, but armed polls fire in it, inside the  *)
(* one that waits.                                                         *)
(*                                                                         *)
(* The guards look at one thread, and a poll that takes the answer of a    *)
(* tip lookup forgets it and starts the scan.  So nothing keeps apart what *)
(* a user starts in haste: a BIP158 probe beside a running job, which no   *)
(* guard looks at; any job while a lookup's answer still waits for the     *)
(* poll, whose thread is dead and passes the guard; a lookup while an      *)
(* answer that opens a message box waits, for then the poll that gives the *)
(* buttons back is the outer one, and the scan is started inside its box.  *)
(* Two scans may run after the first two, and the second one clears the    *)
(* cancel event of the first.  The variable `hasty` remembers such clicks; *)
(* it says nothing of what comes of them.                                  *)
(***************************************************************************)
EXTENDS Naturals, Sequences, FiniteSets, SequencesExt

CONSTANTS
  MaxJobs,     \* bound: threads started
  NoThread     \* scan_thread = None

ASSUME DeskAssumption == MaxJobs \in Nat \ {0} /\ NoThread \notin Nat

Jobs  == 1 .. MaxJobs
Kinds == {"probe", "bip158", "latest", "scan"}

VARIABLES
  kind,          \* job -> what it was started for, "none" before
  stage,         \* job -> "unused", "running", "posted" (its answer is out), "dead" or
                 \* "lost" (dead without an answer)
  scan_thread,   \* the thread the guards and the poll look at
  scan_queue,    \* the messages that wait: "progress" and answers
  scan_cancel,   \* the shared cancel event
  timers,        \* poll callbacks armed with after(100, ...)
  polls,         \* keep_polling of the polls under way, the innermost last
  box,           \* whether the innermost poll waits for a message box to be closed
  scan_button, cancel_button,   \* whether the buttons are enabled
  scan_status,   \* what the status line says
  hasty          \* history: the user started a job in haste

buttons == <<scan_button, cancel_button>>
threads == <<kind, stage, scan_thread>>
poll    == <<timers, polls, box>>
vars    == <<threads, scan_queue, scan_cancel, poll, buttons, scan_status, hasty>>

\* An answer starts a scan ("latest"), is shown on the status line ("quiet"), or in a
\* message box as well ("boxed").
AnswerKinds == {"latest", "quiet", "boxed"}
Waits(m)    == m \in ToSet(scan_queue)

Alive(j) == j # NoThread /\ stage[j] \in {"running", "posted"}

ScansAlive == {j \in Jobs : kind[j] = "scan" /\ Alive(j)}

----------------------------------------------------------------------------
(* The UI thread: clicks.                                                  *)

\* threading.Thread(...).start() and self.after(100, self._poll_scan_queue)
Start(k) ==
  \E j \in Jobs :
    /\ stage[j] = "unused" /\ \A i \in Jobs : i < j => stage[i] # "unused"
    /\ kind' = [kind EXCEPT ![j] = k]
    /\ stage' = [stage EXCEPT ![j] = "running"]
    /\ scan_thread' = j
    /\ timers' = timers + 1
    /\ scan_status' = "started"

\* Bug: a job that lives does not stop the user from starting another one.
Idle_NoGuard == polls = <<>>

Idle == polls = <<>> /\ ~Alive(scan_thread)

\* bound: a click leaves a thread for the scan of every tip lookup under way, and the
\* user starts nothing more after a hasty click.
Room(n) ==
  LET lookups == {j \in Jobs : kind[j] = "latest" /\ stage[j] = "running"}
      answers == {i \in DOMAIN scan_queue : scan_queue[i] = "latest"}
  IN  /\ ~hasty
      /\ Cardinality({j \in Jobs : stage[j] = "unused"}) >= n + Cardinality(lookups) + Cardinality(answers)

\* _start_scan behind its guard: also what a "latest" message calls.
RunScan ==
  /\ Start("scan")
  /\ scan_cancel' = FALSE
  /\ scan_button' = FALSE
  /\ cancel_button' = TRUE

ClickScan ==
  /\ Idle /\ scan_button /\ Room(1)
  /\ RunScan
  /\ hasty' = (hasty \/ Waits("latest"))
  /\ UNCHANGED <<scan_queue, polls, box>>

\* _probe_source
ClickProbe ==
  /\ Idle /\ Room(1)
  /\ Start("probe")
  /\ hasty' = (hasty \/ Waits("latest"))
  /\ UNCHANGED <<scan_queue, scan_cancel, polls, box, buttons>>

\* _start_latest_scan: the lookup; its answer starts the scan.
ClickLatest ==
  /\ Idle /\ Room(2)
  /\ Start("latest")
  /\ hasty' = (hasty \/ Waits("latest") \/ Waits("boxed"))
  /\ UNCHANGED <<scan_queue, scan_cancel, polls, box, buttons>>

\* _probe_bip158 does not look whether a thread is alive.
ClickBip158 ==
  /\ polls = <<>> /\ Room(1)
  /\ Start("bip158")
  /\ hasty' = (hasty \/ Waits("latest") \/ Alive(scan_thread))
  /\ UNCHANGED <<scan_queue, scan_cancel, polls, box, buttons>>

ClickCancel ==
  /\ polls = <<>> /\ cancel_button
  /\ scan_cancel' = TRUE
  /\ scan_status' = "cancelling"
  /\ UNCHANGED <<threads, scan_queue, poll, buttons, hasty>>

\* _import_test_0_9 and _import_test_all do their work on the UI thread (see CorpusStore).
ClickImport ==
  /\ Idle
  /\ scan_status' = "imported"
  /\ UNCHANGED <<threads, scan_queue, scan_cancel, poll, buttons, hasty>>

----------------------------------------------------------------------------
(* The UI thread: _poll_scan_queue.                                        *)

\* Bug: a poll arms the next one when it begins, and again at its end.
BeginPoll_ArmsTwice(keep) ==
  /\ timers > 0 /\ (polls = <<>> \/ box)
  /\ polls' = Append(polls, keep)
  /\ box' = FALSE
  /\ UNCHANGED <<threads, scan_queue, scan_cancel, timers, buttons, scan_status, hasty>>

BeginPoll(keep) ==
  /\ timers > 0 /\ (polls = <<>> \/ box)
  /\ timers' = timers - 1
  /\ polls' = Append(polls, keep)
  /\ box' = FALSE
  /\ UNCHANGED <<threads, scan_queue, scan_cancel, buttons, scan_status, hasty>>

\* Bug: the poll goes on while messages wait, instead of while the thread lives.
PollBegins_LooksAtQueue == BeginPoll(scan_queue # <<>>)

\* The thread is looked at before the queue is drained.
PollBegins == BeginPoll(Alive(scan_thread))

Draining == polls # <<>> /\ ~box

\* A poll inside a message box returns to it.
Return == polls' = Front(polls) /\ box' = (Len(polls) > 1)

\* progress, probe, bip158, done and error only report to the user.
TakeReport ==
  /\ Draining /\ scan_queue # <<>>
  /\ Head(scan_queue) # "latest"
  /\ box' = (Head(scan_queue) = "boxed")
  /\ scan_status' = (IF Head(scan_queue) = "progress" THEN "progress" ELSE "answer")
  /\ scan_queue' = Tail(scan_queue)
  /\ UNCHANGED <<threads, scan_cancel, timers, polls, buttons, hasty>>

CloseBox ==
  /\ box /\ box' = FALSE
  /\ UNCHANGED <<threads, scan_queue, scan_cancel, timers, polls, buttons, scan_status, hasty>>

\* "latest" starts the scan and returns: this poll neither drains the rest nor
\* re-arms itself, the scan has armed its own.
TakeLatest ==
  /\ Draining /\ scan_queue # <<>>
  /\ Head(scan_queue) = "latest"
  /\ scan_queue' = Tail(scan_queue)
  /\ RunScan
  /\ Return
  /\ UNCHANGED hasty

ReArm(keep) ==
  IF keep THEN timers' = timers + 1 /\ UNCHANGED buttons
          ELSE scan_button' = TRUE /\ cancel_button' = FALSE /\ UNCHANGED timers

\* Bug: the thread is looked at after the drain, when an answer may have come in.
PollEnds_LooksAfter ==
  /\ Draining
  /\ Return /\ ReArm(Alive(scan_thread))
  /\ UNCHANGED <<threads, scan_queue, scan_cancel, scan_status, hasty>>

\* Bug: the last poll does not reset the buttons.
PollEnds_NoReset ==
  /\ Draining /\ scan_queue = <<>>
  /\ Return
  /\ timers' = IF Last(polls) THEN timers + 1 ELSE timers
  /\ UNCHANGED <<threads, scan_queue, scan_cancel, buttons, scan_status, hasty>>

PollEnds ==
  /\ Draining /\ scan_queue = <<>>
  /\ Return /\ ReArm(Last(polls))
  /\ UNCHANGED <<threads, scan_queue, scan_cancel, scan_status, hasty>>

----------------------------------------------------------------------------
(* The worker threads.                                                     *)

Posted(j) ==
  /\ stage' = [stage EXCEPT ![j] = "posted"]
  /\ UNCHANGED <<kind, scan_thread, scan_cancel, poll, buttons, scan_status, hasty>>

\* A scan reports after every batch.  bound: one such message waits at a time.
PostProgress(j) ==
  /\ stage[j] = "running" /\ kind[j] = "scan" /\ ~Waits("progress")
  /\ scan_queue' = Append(scan_queue, "progress")
  /\ UNCHANGED <<threads, scan_cancel, poll, buttons, scan_status, hasty>>

\* What the poll makes of an answer: a probe's tip is shown on the status line, a
\* filter in a message box, a scan's report in one if it is partial or has mismatches.
Answers(k) ==
  CASE k = "latest" -> {"latest"} [] k = "probe" -> {"quiet"}
    [] k = "bip158" -> {"boxed"}  [] k = "scan"  -> {"quiet", "boxed"}

\* The answer of a probe or tip lookup, the report of a scan.
PostAnswer(j) ==
  /\ stage[j] = "running"
  /\ \E m \in Answers(kind[j]) : scan_queue' = Append(scan_queue, m)
  /\ Posted(j)

\* except Exception: the error is the answer.
PostError(j) ==
  /\ stage[j] = "running"
  /\ scan_queue' = Append(scan_queue, "boxed")
  /\ Posted(j)

\* A scan worker that cannot open the corpus dies outside its try block.
DieSilently(j) ==
  /\ stage[j] = "running" /\ kind[j] = "scan"
  /\ stage' = [stage EXCEPT ![j] = "lost"]
  /\ UNCHANGED <<kind, scan_thread, scan_queue, scan_cancel, poll, buttons, scan_status, hasty>>

\* The finally clause closes the worker's connection; the thread ends.
ThreadEnds(j) ==
  /\ stage[j] = "posted"
  /\ stage' = [stage EXCEPT ![j] = "dead"]
  /\ UNCHANGED <<kind, scan_thread, scan_queue, scan_cancel, poll, buttons, scan_status, hasty>>

----------------------------------------------------------------------------
Init ==
  /\ kind = [j \in Jobs |-> "none"] /\ stage = [j \in Jobs |-> "unused"]
  /\ scan_thread = NoThread
  /\ scan_queue = <<>> /\ scan_cancel = FALSE
  /\ timers = 0 /\ polls = <<>> /\ box = FALSE
  /\ scan_button = TRUE /\ cancel_button = FALSE
  /\ scan_status = "none" /\ hasty = FALSE

Click     == ClickScan \/ ClickProbe \/ ClickLatest \/ ClickBip158 \/ ClickCancel \/ ClickImport
Poll      == PollBegins \/ TakeReport \/ CloseBox \/ TakeLatest \/ PollEnds
Worker(j) == PostAnswer(j) \/ PostError(j) \/ ThreadEnds(j)

Next == Click \/ Poll \/ \E j \in Jobs : Worker(j) \/ PostProgress(j) \/ DieSilently(j)

Spec == Init /\ [][Next]_vars

\* Timers fire, a poll that began goes on, a message box is closed in the end, and
\* every worker comes to its end: a scan's range is finite and its requests time out.
FairSpec == Spec /\ WF_vars(Poll) /\ \A j \in Jobs : WF_vars(Worker(j))

----------------------------------------------------------------------------
(* Properties.                                                             *)

TypeOK ==
  /\ kind \in [Jobs -> Kinds \cup {"none"}]
  /\ stage \in [Jobs -> {"unused", "running", "posted", "dead", "lost"}]
  /\ \A j \in Jobs : kind[j] = "none" <=> stage[j] = "unused"
  /\ scan_thread \in Jobs \cup {NoThread}
  /\ scan_queue \in Seq(AnswerKinds \cup {"progress"})
  /\ timers \in 0 .. MaxJobs
  /\ polls \in Seq(BOOLEAN) /\ timers + Len(polls) <= MaxJobs
  /\ {scan_cancel, box, scan_button, cancel_button, hasty} \subseteq BOOLEAN
  /\ scan_status \in {"none", "started", "progress", "answer", "cancelling", "imported"}
  /\ box => polls # <<>>

\* While a scan runs the user can cancel it, cannot start another one, and no other
\* runs beside it, unless the user had started a job in haste.
ScanIsInControl ==
  ScansAlive # {} /\ ~hasty =>
    cancel_button /\ ~scan_button /\ Cardinality(ScansAlive) = 1

\* A cancelled scan stays cancelled: the event that all scans share is not cleared
\* under one that runs, unless the user had started a job in haste.
CancelHolds ==
  [][ scan_cancel /\ ~scan_cancel' /\ ~hasty' => ScansAlive = {} ]_vars

\* A desk at rest shows the answer of its last job, whatever progress it had reported,
\* unless the user started a job in haste.  A job that died without an answer is still
\* said to have started or to be at work; an import, or a cancel that came after the
\* answer was shown, leaves its own words behind.
RestShowsAnswer ==
  /\ polls = <<>> /\ timers = 0 /\ ~hasty
  /\ scan_thread # NoThread /\ stage[scan_thread] = "dead"
  => scan_status \in {"answer", "imported"} \/ (scan_status = "cancelling" /\ scan_cancel)

\* No answer is stranded: what a worker posted reaches the user, however its last
\* moments and the last poll interleave, unless the user started a job in haste.
AnswerWaits   == \E m \in AnswerKinds : Waits(m)
AnswersArrive == AnswerWaits ~> ~AnswerWaits \/ hasty

\* The controls come back after every scan, also one whose worker died without
\* a message.
ControlsReturn == ~scan_button ~> scan_button
=============================================================================
