------------------------------ MODULE JobDesk ------------------------------
(***************************************************************************)
(* The build and the mine workspace of the GUI: one worker thread at a     *)
(* time, a queue for its messages, a cancel event and a poll of the Tk     *)
(* loop.  The two differ in one point: the build button is disabled while  *)
(* a build runs, the mine buttons are not.                                 *)
(*                                                                         *)
(* A worker reports its progress, looks at the cancel event at its         *)
(* checkpoints and ends in one report.  Most of these open a message box,  *)
(* in whose Tk loop armed polls fire while the outer one waits (see        *)
(* ScanDesk).                                                              *)
(***************************************************************************)
EXTENDS Naturals, Sequences, SequencesExt

CONSTANTS
  MaxJobs,      \* bound: workers started
  LocksStart    \* the workspace disables its start button (build) or not (mine)

JobDeskAssumption == MaxJobs \in Nat \ {0} /\ LocksStart \in BOOLEAN

Jobs     == 1 .. MaxJobs
NoJob    == 0
Outcomes == {"done", "cancelled", "error"}

VARIABLES
  stage,         \* job -> "unused", "running", "posted" (its report is out) or "dead"
  outcome,       \* job -> what its report says, "none" before and without one
  thread,        \* build_thread or mine_thread
  queue,         \* the messages that wait: their job, and what they say of it
  cancel,        \* the cancel event
  timers,        \* poll callbacks armed with after(100, ...)
  polls,         \* keep_polling of the polls under way, the innermost last
  box,           \* whether the innermost poll waits for a message box to be closed
  start_button, cancel_button,   \* whether the buttons are enabled
  status,        \* what the status line says, and of which job
  asked          \* history: jobs that the user cancelled while they lived

poll    == <<timers, polls, box>>
buttons == <<start_button, cancel_button>>
vars    == <<stage, outcome, thread, queue, cancel, poll, buttons, status, asked>>

Alive(j) == j # NoJob /\ stage[j] \in {"running", "posted"}

Message(j, what) == [job |-> j, what |-> what]
Says(j, what)    == status' = Message(j, what)

\* The jobs whose report waits.
Reporting == {m.job : m \in {x \in ToSet(queue) : x.what # "progress"}}

----------------------------------------------------------------------------
(* The UI thread.                                                          *)

\* Bug: the event of the job before is not cleared.
Click_KeepsCancel ==
  /\ polls = <<>> /\ start_button /\ ~Alive(thread)
  /\ thread < MaxJobs
  /\ thread' = thread + 1
  /\ stage' = [stage EXCEPT ![thread'] = "running"]
  /\ start_button' = ~LocksStart
  /\ cancel_button' = TRUE
  /\ Says(thread', "running")
  /\ timers' = timers + 1
  /\ UNCHANGED <<outcome, queue, cancel, polls, box, asked>>

\* _build and _start_mine_action behind their input checks.  `thread` is the last
\* job started, so the next one has its number.
Click ==
  /\ polls = <<>> /\ start_button /\ ~Alive(thread)
  /\ thread < MaxJobs
  /\ thread' = thread + 1
  /\ stage' = [stage EXCEPT ![thread'] = "running"]
  /\ cancel' = FALSE
  /\ start_button' = ~LocksStart
  /\ cancel_button' = TRUE
  /\ Says(thread', "running")
  /\ timers' = timers + 1
  /\ UNCHANGED <<outcome, queue, polls, box, asked>>

ClickCancel ==
  /\ polls = <<>> /\ cancel_button /\ Alive(thread)
  /\ cancel' = TRUE
  /\ Says(thread, "cancelling")
  /\ asked' = asked \cup {thread}
  /\ UNCHANGED <<stage, outcome, thread, queue, poll, buttons>>

\* The thread is looked at before the queue is drained.
PollBegins ==
  /\ timers > 0 /\ (polls = <<>> \/ box)
  /\ timers' = timers - 1
  /\ polls' = Append(polls, Alive(thread))
  /\ box' = FALSE
  /\ UNCHANGED <<stage, outcome, thread, queue, cancel, buttons, status, asked>>

Draining == polls # <<>> /\ ~box

\* What is shown on the status line alone: progress, and in the build workspace a job
\* that was cancelled.
Quiet == {"progress"} \cup (IF LocksStart THEN {"cancelled"} ELSE {})

\* A progress message or a report.
TakeReport ==
  /\ Draining /\ queue # <<>>
  /\ queue' = Tail(queue)
  /\ status' = Head(queue)
  /\ box' = (Head(queue).what \notin Quiet)
  /\ UNCHANGED <<stage, outcome, thread, cancel, timers, polls, buttons, asked>>

CloseBox ==
  /\ box /\ box' = FALSE
  /\ UNCHANGED <<stage, outcome, thread, queue, cancel, timers, polls, buttons, status, asked>>

\* A poll inside a message box returns to it.
EndPoll(keep) ==
  /\ polls' = Front(polls) /\ box' = (Len(polls) > 1)
  /\ IF keep
       THEN timers' = timers + 1 /\ UNCHANGED buttons
       ELSE start_button' = TRUE /\ cancel_button' = FALSE /\ UNCHANGED timers
  /\ UNCHANGED <<stage, outcome, thread, queue, cancel, status, asked>>

\* Bug: the thread is looked at after the drain, when its message may have come in.
PollEnds_LooksAfter == Draining /\ EndPoll(Alive(thread))

PollEnds == Draining /\ queue = <<>> /\ EndPoll(Last(polls))

----------------------------------------------------------------------------
(* The worker thread.                                                      *)

\* progress(...).  bound: one such message waits at a time.
PostProgress(j) ==
  /\ stage[j] = "running" /\ \A i \in DOMAIN queue : queue[i].what # "progress"
  /\ queue' = Append(queue, Message(j, "progress"))
  /\ UNCHANGED <<stage, outcome, thread, cancel, poll, buttons, status, asked>>

Post(j, what) ==
  /\ stage[j] = "running"
  /\ stage' = [stage EXCEPT ![j] = "posted"]
  /\ outcome' = [outcome EXCEPT ![j] = what]
  /\ queue' = Append(queue, Message(j, what))
  /\ UNCHANGED <<thread, cancel, poll, buttons, status, asked>>

\* A checkpoint finds the event set.  (Mine-Build says so in an error message.)
StopsAtCheckpoint(j) == cancel /\ Post(j, "cancelled")

\* The work ends, or fails, after the last checkpoint that found the event clear.
WorkEnds(j) == \E what \in {"done", "error"} : Post(j, what)

\* The corpus is opened outside the try block: its failure posts nothing.
DieSilently(j) ==
  /\ stage[j] = "running"
  /\ stage' = [stage EXCEPT ![j] = "dead"]
  /\ UNCHANGED <<outcome, thread, queue, cancel, poll, buttons, status, asked>>

\* The finally clause closes the worker's connection; the thread ends.
ThreadEnds(j) ==
  /\ stage[j] = "posted"
  /\ stage' = [stage EXCEPT ![j] = "dead"]
  /\ UNCHANGED <<outcome, thread, queue, cancel, poll, buttons, status, asked>>

----------------------------------------------------------------------------
Init ==
  /\ stage = [j \in Jobs |-> "unused"] /\ outcome = [j \in Jobs |-> "none"]
  /\ thread = NoJob /\ queue = <<>> /\ cancel = FALSE
  /\ timers = 0 /\ polls = <<>> /\ box = FALSE
  /\ start_button = TRUE /\ cancel_button = FALSE
  /\ status = [job |-> NoJob, what |-> "none"]
  /\ asked = {}

Poll      == PollBegins \/ TakeReport \/ CloseBox \/ PollEnds
Worker(j) == StopsAtCheckpoint(j) \/ WorkEnds(j) \/ ThreadEnds(j)

Next == Click \/ ClickCancel \/ Poll \/ \E j \in Jobs : Worker(j) \/ PostProgress(j) \/ DieSilently(j)

Spec == Init /\ [][Next]_vars

\* Timers fire, a poll that began goes on, a message box is closed in the end, and
\* every worker comes to its end.
FairSpec == Spec /\ WF_vars(Poll) /\ \A j \in Jobs : WF_vars(Worker(j))

----------------------------------------------------------------------------
(* Properties.                                                             *)

TypeOK ==
  /\ stage \in [Jobs -> {"unused", "running", "posted", "dead"}]
  /\ outcome \in [Jobs -> Outcomes \cup {"none"}]
  /\ thread \in Jobs \cup {NoJob}
  /\ queue \in Seq([job : Jobs, what : Outcomes \cup {"progress"}])
  /\ timers \in 0 .. MaxJobs
  /\ polls \in Seq(BOOLEAN) /\ timers + Len(polls) <= MaxJobs
  /\ {cancel, box, start_button, cancel_button} \subseteq BOOLEAN
  /\ box => polls # <<>>
  /\ status \in [job : Jobs \cup {NoJob},
                     what : Outcomes \cup {"none", "running", "progress", "cancelling"}]
  /\ asked \subseteq Jobs

\* A job that reports itself cancelled was cancelled by the user while it lived:
\* the event of a job that ended first never stops the next one.
CancelIsItsOwn == \A j \in Jobs : outcome[j] = "cancelled" => j \in asked

\* The user can cancel every running job, and where the start button is locked
\* it stays locked until the job's end was reported.
RunningIsInControl ==
  Alive(thread) => cancel_button /\ (LocksStart => ~start_button)

\* When the desk is at rest the status line tells how the last job ended.  Two
\* cases are left: a job that died without a message is still said to run (or,
\* without the lock, an earlier job's late report stands), and a cancel that came
\* after the report was shown, while the worker closed its connection, leaves
\* "cancelling" behind.
AtRest == polls = <<>> /\ timers = 0 /\ thread # NoJob /\ stage[thread] = "dead"

RestShowsLast ==
  AtRest =>
    /\ LocksStart \/ outcome[thread] # "none" => status.job = thread
    /\ outcome[thread] # "none" =>
         status.what = outcome[thread] \/ (status.what = "cancelling" /\ thread \in asked)

\* A locked start button keeps reports in their order: the status line never
\* goes back to a job that ended before the current one was started.
InOrder == LocksStart => status'.job >= status.job

\* What a worker posted reaches the user, and the controls come back, however
\* the worker's last moments and the last poll interleave.
ReportsArrive  == Reporting # {} ~> Reporting = {}
ControlsReturn == cancel_button ~> ~cancel_button
=============================================================================
