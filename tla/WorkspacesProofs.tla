-------------------------- MODULE WorkspacesProofs --------------------------
(***************************************************************************)
(* The workspaces keep their jobs in control, for any number of jobs and   *)
(* any nesting of message boxes.                                           *)
(*                                                                         *)
(* The arguments rest on what a poll that is under way still knows: it     *)
(* looked at the thread when it began, and if it found none alive, none    *)
(* was started since.  So a poll that ends for good gives the buttons back *)
(* under no running job.  In the corpus workspace, where a poll may start  *)
(* a scan, this takes one thing more: while a tip waits nothing is at work *)
(* and no message box is open.  Clicks in haste (see ScanDesk) break that. *)
(***************************************************************************)
EXTENDS Workspaces, FiniteSetTheorems, TLAPS

MixP == INSTANCE ChainMixProofs

\* All but the last of a sequence.
LEMMA FrontOf ==
  ASSUME NEW S, NEW s \in Seq(S), s # <<>>
  PROVE  /\ SubSeq(s, 1, Len(s) - 1) \in Seq(S)
         /\ Len(SubSeq(s, 1, Len(s) - 1)) = Len(s) - 1
         /\ \A i \in 1 .. Len(s) - 1 : SubSeq(s, 1, Len(s) - 1)[i] = s[i]
         /\ Len(s) > 1 => SubSeq(s, 1, Len(s) - 1) # <<>>
<1> DEFINE n == Len(s) - 1
           f == SubSeq(s, 1, n)
<1>1. n \in Nat /\ n + 1 = Len(s)
  OBVIOUS
<1>2. f = [i \in 1 .. n |-> s[i]]
  BY <1>1
<1>3. \A i \in 1 .. n : s[i] \in S
  BY <1>1
<1> HIDE DEF f
<1>4. f \in Seq(S)
  BY <1>1, <1>2, <1>3
<1>5. DOMAIN f = 1 .. n /\ DOMAIN f = 1 .. Len(f) /\ Len(f) \in Nat
  BY <1>2, <1>4
<1>6. Len(f) = n
  <2> HIDE DEF n
  <2> QED BY <1>1, <1>5
<1>7. Len(s) > 1 => f # <<>>
  <2>1. f = <<>> => n = 0
    <3> HIDE DEF n
    <3> QED BY <1>6
  <2>2. \A k \in Nat : k - 1 = 0 => ~(k > 1)
    OBVIOUS
  <2>3. Len(s) \in Nat
    OBVIOUS
  <2> QED BY <2>1, <2>2, <2>3, Zenon
<1> QED BY <1>2, <1>4, <1>6, <1>7 DEF f

----------------------------------------------------------------------------
(* Build and Mine-Build.                                                   *)

Messages == [job : 1 .. MaxBuilds, what : Build!Outcomes \cup {"progress"}]
Saying   == [job : 1 .. MaxBuilds \cup {0},
             what : Build!Outcomes \cup {"none", "running", "progress", "cancelling"}]

\* Jobs run one after the other, and what a job has said is known from its report on.
JobsInTurn ==
  /\ \A j \in 1 .. MaxBuilds :
       /\ j > job_thread => job_stage[j] = "unused"
       /\ j < job_thread => job_stage[j] = "dead"
       /\ job_stage[j] \in {"unused", "running"} => job_outcome[j] = "none"
  /\ job_thread # 0 => job_stage[job_thread] # "unused"

\* Messages wait in the order of their jobs, the report of a job behind its progress.
ReportsInTurn ==
  /\ \A i \in DOMAIN job_queue :
       /\ job_queue[i].job <= job_thread
       /\ job_queue[i].what # "progress" => job_outcome[job_queue[i].job] = job_queue[i].what
  /\ \A i, k \in DOMAIN job_queue :
       i < k => \/ job_queue[i].job < job_queue[k].job
                \/ job_queue[i].job = job_queue[k].job /\ job_queue[i].what = "progress"

\* A job that lives and a message that waits have a poll to come; a poll that found no job
\* alive is right until it ends.
Polled ==
  /\ job_timers + Len(job_polls) <= job_thread
  /\ Build!Alive(job_thread) \/ job_queue # <<>> => job_timers > 0 \/ job_polls # <<>>
  /\ \A i \in DOMAIN job_polls : ~job_polls[i] => ~Build!Alive(job_thread)

\* The cancel event is that of the last job.
Cancelled ==
  /\ job_cancel => job_thread \in job_asked
  /\ \A j \in 1 .. MaxBuilds : job_outcome[j] = "cancelled" => j \in job_asked

Cancellable == Build!Alive(job_thread) => job_cancel_button

\* What the last job said is on the status line or still waits.
Told ==
  job_thread # 0 /\ job_outcome[job_thread] # "none" =>
    \/ \E i \in DOMAIN job_queue :
         job_queue[i].job = job_thread /\ job_queue[i].what # "progress"
    \/ /\ job_queue = <<>> /\ job_status.job = job_thread
       /\ \/ job_status.what = job_outcome[job_thread]
          \/ job_status.what = "cancelling" /\ job_thread \in job_asked

JobInv ==
  Build!TypeOK /\ JobsInTurn /\ ReportsInTurn /\ Polled /\ Cancelled /\ Cancellable /\ Told

\* With a lock on the start button no message is that of an earlier job.
Locked ==
  /\ job_status.job = job_thread
  /\ \A i \in DOMAIN job_queue : job_queue[i].job = job_thread
  /\ job_start_button => job_queue = <<>> /\ ~Build!Alive(job_thread)

LEMMA JobConstants == MaxBuilds \in Nat \ {0}
BY WorkspacesAssumption DEF Build!JobDeskAssumption

\* A click starts the next job.
LEMMA JobClicks ==
  ASSUME JobInv, Build!Click \/ Mine!Click
  PROVE  JobInv'
<1>1. /\ job_polls = <<>> /\ ~Build!Alive(job_thread) /\ job_thread < MaxBuilds
      /\ job_thread' = job_thread + 1
      /\ job_stage' = [job_stage EXCEPT ![job_thread'] = "running"]
      /\ job_cancel' = FALSE /\ job_start_button' \in BOOLEAN /\ job_cancel_button' = TRUE
      /\ job_status' = [job |-> job_thread', what |-> "running"]
      /\ job_timers' = job_timers + 1
      /\ UNCHANGED <<job_outcome, job_queue, job_polls, job_box, job_asked>>
  BY DEF Build!Click, Mine!Click, Build!Alive, Mine!Alive, Build!NoJob, Mine!NoJob,
         Build!Says, Mine!Says, Build!Message, Mine!Message
<1>2. Build!TypeOK /\ job_thread \in Nat /\ job_thread' \in 1 .. MaxBuilds
      /\ job_timers + Len(job_polls) <= job_thread
  BY <1>1, JobConstants DEF JobInv, Build!TypeOK, Build!Jobs, Build!NoJob, Polled
<1>3. /\ job_stage'[job_thread'] = "running"
      /\ \A j \in 1 .. MaxBuilds : j # job_thread' => job_stage'[j] = job_stage[j]
  BY <1>1, <1>2 DEF Build!TypeOK, Build!Jobs
<1>4. Build!TypeOK'
  <2>1. job_stage' \in [1 .. MaxBuilds -> {"unused", "running", "posted", "dead"}]
    BY <1>1, <1>2 DEF Build!TypeOK, Build!Jobs
  <2>2. /\ job_timers' \in 0 .. MaxBuilds /\ job_timers' + Len(job_polls') <= MaxBuilds
        /\ job_polls' \in Seq(BOOLEAN)
    BY <1>1, <1>2, JobConstants DEF Build!TypeOK
  <2>3. {job_cancel', job_box', job_start_button', job_cancel_button'} \subseteq BOOLEAN
    BY <1>1, <1>2 DEF Build!TypeOK
  <2>4. job_box' => job_polls' # <<>>
    BY <1>1, <1>2 DEF Build!TypeOK
  <2>5. /\ job_outcome' \in [1 .. MaxBuilds -> Build!Outcomes \cup {"none"}]
        /\ job_thread' \in 1 .. MaxBuilds \cup {0}
        /\ job_queue' \in Seq(Messages) /\ job_status' \in Saying
        /\ job_asked' \subseteq 1 .. MaxBuilds
    BY <1>1, <1>2 DEF Build!TypeOK, Build!Jobs, Build!NoJob, Messages, Saying
  <2> QED BY <2>1, <2>2, <2>3, <2>4, <2>5
          DEF Build!TypeOK, Build!Jobs, Build!NoJob, Messages, Saying
<1>5. JobsInTurn'
  BY <1>1, <1>2, <1>3 DEF JobInv, JobsInTurn, Build!Alive, Build!NoJob, Build!TypeOK, Build!Jobs
<1>6. ReportsInTurn'
  <2>1. \A i \in DOMAIN job_queue : job_queue[i].job \in Nat
    <3>1. job_queue \in Seq(Messages)
      BY <1>2 DEF Build!TypeOK, Build!Jobs, Messages
    <3>2. \A m \in Messages : m.job \in Nat
      BY JobConstants DEF Messages
    <3> HIDE DEF Messages
    <3> QED BY <3>1, <3>2
  <2> QED BY <1>1, <1>2, <2>1 DEF JobInv, ReportsInTurn
<1>7. Polled'
  BY <1>1, <1>2 DEF JobInv, Polled, Build!TypeOK
<1>8. Cancelled' /\ Cancellable' /\ Told'
  BY <1>1, <1>2, <1>3 DEF JobInv, Cancelled, Cancellable, Told, JobsInTurn
<1> QED BY <1>4, <1>5, <1>6, <1>7, <1>8 DEF JobInv

LEMMA JobCancels ==
  ASSUME JobInv, Build!ClickCancel \/ Mine!ClickCancel
  PROVE  JobInv'
<1>1. /\ Build!Alive(job_thread) /\ job_cancel' = TRUE
      /\ job_status' = [job |-> job_thread, what |-> "cancelling"]
      /\ job_asked' = job_asked \cup {job_thread}
      /\ UNCHANGED <<job_stage, job_outcome, job_thread, job_queue, job_timers, job_polls,
                     job_box, job_start_button, job_cancel_button>>
  BY DEF Build!ClickCancel, Mine!ClickCancel, Build!Alive, Mine!Alive, Build!NoJob, Mine!NoJob,
         Build!Says, Mine!Says, Build!Message, Mine!Message, Build!poll, Mine!poll,
         Build!buttons, Mine!buttons
<1>2. job_thread \in 1 .. MaxBuilds
  BY <1>1 DEF JobInv, Build!TypeOK, Build!Alive, Build!NoJob, Build!Jobs
<1>3. Build!TypeOK'
  BY <1>1, <1>2 DEF JobInv, Build!TypeOK, Build!Jobs, Build!Outcomes, Build!NoJob
<1>4. JobsInTurn' /\ ReportsInTurn' /\ Polled' /\ Cancellable'
  BY <1>1 DEF JobInv, JobsInTurn, ReportsInTurn, Polled, Cancellable, Build!Alive
<1>5. Cancelled' /\ Told'
  BY <1>1 DEF JobInv, Cancelled, Told
<1> QED BY <1>3, <1>4, <1>5 DEF JobInv

LEMMA JobPollBegins ==
  ASSUME JobInv, Build!PollBegins \/ Mine!PollBegins
  PROVE  JobInv'
<1>1. /\ job_timers > 0 /\ job_timers' = job_timers - 1
      /\ job_polls' = Append(job_polls, Build!Alive(job_thread)) /\ job_box' = FALSE
      /\ UNCHANGED <<job_stage, job_outcome, job_thread, job_queue, job_cancel,
                     job_start_button, job_cancel_button, job_status, job_asked>>
  BY DEF Build!PollBegins, Mine!PollBegins, Build!Alive, Mine!Alive, Build!NoJob, Mine!NoJob,
         Build!buttons, Mine!buttons
<1>2. /\ job_polls \in Seq(BOOLEAN) /\ job_timers \in Nat
      /\ Build!Alive(job_thread) \in BOOLEAN
  BY JobConstants DEF JobInv, Build!TypeOK, Build!Alive
<1>3. /\ Len(job_polls') = Len(job_polls) + 1 /\ job_polls' \in Seq(BOOLEAN) /\ job_polls' # <<>>
      /\ \A i \in DOMAIN job_polls : job_polls'[i] = job_polls[i]
      /\ job_polls'[Len(job_polls) + 1] = Build!Alive(job_thread)
      /\ DOMAIN job_polls' = DOMAIN job_polls \cup {Len(job_polls) + 1}
  BY <1>1, <1>2
<1>4. Build!TypeOK'
  <2>1. job_timers' \in 0 .. MaxBuilds /\ job_timers' + Len(job_polls') <= MaxBuilds
    BY <1>1, <1>2, <1>3, JobConstants DEF JobInv, Build!TypeOK
  <2>2. {job_cancel', job_box', job_start_button', job_cancel_button'} \subseteq BOOLEAN
    BY <1>1 DEF JobInv, Build!TypeOK
  <2>3. job_polls' \in Seq(BOOLEAN) /\ job_polls' # <<>>
    BY <1>3
  <2> QED BY <1>1, <2>1, <2>2, <2>3 DEF JobInv, Build!TypeOK
<1>5. Build!Alive(job_thread)' = Build!Alive(job_thread)
  BY <1>1 DEF Build!Alive
<1>6. Polled'
  <2>1. \A i \in DOMAIN job_polls' : ~job_polls'[i] => ~Build!Alive(job_thread)
    BY <1>3, Zenon DEF JobInv, Polled
  <2> QED BY <1>1, <1>2, <1>3, <1>5, <2>1 DEF JobInv, Polled
<1>7. JobsInTurn' /\ ReportsInTurn' /\ Cancelled' /\ Cancellable' /\ Told'
  BY <1>1, <1>5 DEF JobInv, JobsInTurn, ReportsInTurn, Cancelled, Cancellable, Told
<1> QED BY <1>4, <1>6, <1>7 DEF JobInv

LEMMA JobReports ==
  ASSUME JobInv, Build!TakeReport \/ Mine!TakeReport
  PROVE  JobInv'
<1>1. /\ job_polls # <<>> /\ job_queue # <<>> /\ job_queue' = Tail(job_queue)
      /\ job_status' = Head(job_queue)
      /\ job_box' \in BOOLEAN
      /\ UNCHANGED <<job_stage, job_outcome, job_thread, job_cancel, job_timers, job_polls,
                     job_start_button, job_cancel_button, job_asked>>
  BY DEF Build!TakeReport, Mine!TakeReport, Build!Draining, Mine!Draining,
         Build!buttons, Mine!buttons
<1>2. /\ job_queue \in Seq(Messages) /\ Len(job_queue) \in Nat
      /\ Head(job_queue) = job_queue[1] /\ Head(job_queue) \in Messages
      /\ \A i \in DOMAIN job_queue : job_queue[i].job \in Nat
  <2>1. job_queue \in Seq(Messages)
    BY DEF JobInv, Build!TypeOK, Build!Jobs, Messages
  <2>2. \A m \in Messages : m.job \in Nat
    BY JobConstants DEF Messages
  <2> HIDE DEF Messages
  <2> QED BY <1>1, <2>1, <2>2
<1>3. /\ job_queue' \in Seq(Messages) /\ Len(job_queue') = Len(job_queue) - 1
      /\ DOMAIN job_queue' = 1 .. (Len(job_queue) - 1) /\ 1 \in DOMAIN job_queue
      /\ DOMAIN job_queue = 1 .. Len(job_queue)
      /\ \A i \in DOMAIN job_queue' : i + 1 \in DOMAIN job_queue /\ job_queue'[i] = job_queue[i + 1]
      /\ \A i \in DOMAIN job_queue : i = 1 \/ (i - 1 \in DOMAIN job_queue' /\ job_queue'[i - 1] = job_queue[i])
  <2> HIDE DEF Messages
  <2> QED BY <1>1, <1>2
<1>4. Build!TypeOK'
  <2>1. job_status' \in Saying
    BY <1>1, <1>2 DEF Messages, Saying
  <2>2. {job_cancel', job_box', job_start_button', job_cancel_button'} \subseteq BOOLEAN
    BY <1>1 DEF JobInv, Build!TypeOK
  <2>3. job_queue' \in Seq([job : Build!Jobs, what : Build!Outcomes \cup {"progress"}])
    BY <1>3 DEF Messages, Build!Jobs
  <2> QED BY <1>1, <2>1, <2>2, <2>3 DEF JobInv, Build!TypeOK, Build!Jobs, Build!NoJob, Saying
<1>5. ReportsInTurn'
  <2>1. \A i \in DOMAIN job_queue' :
          /\ job_queue'[i].job <= job_thread
          /\ job_queue'[i].what # "progress" => job_outcome[job_queue'[i].job] = job_queue'[i].what
    BY <1>3 DEF JobInv, ReportsInTurn
  <2>2. ASSUME NEW i \in DOMAIN job_queue', NEW k \in DOMAIN job_queue', i < k
        PROVE  \/ job_queue'[i].job < job_queue'[k].job
               \/ job_queue'[i].job = job_queue'[k].job /\ job_queue'[i].what = "progress"
    <3>1. /\ i + 1 \in DOMAIN job_queue /\ job_queue'[i] = job_queue[i + 1]
          /\ k + 1 \in DOMAIN job_queue /\ job_queue'[k] = job_queue[k + 1]
          /\ i + 1 < k + 1
      BY <1>2, <1>3, <2>2
    <3> QED BY <3>1 DEF JobInv, ReportsInTurn
  <2> QED BY <1>1, <2>1, <2>2 DEF ReportsInTurn
<1>6. Build!Alive(job_thread)' = Build!Alive(job_thread)
  BY <1>1 DEF Build!Alive
<1>7. Polled' /\ Cancelled' /\ Cancellable' /\ JobsInTurn'
  BY <1>1, <1>6 DEF JobInv, Polled, Cancelled, Cancellable, JobsInTurn
<1>8. Told'
  <2> SUFFICES ASSUME job_thread # 0, job_outcome[job_thread] # "none",
                      ~ \E i \in DOMAIN job_queue' :
                          job_queue'[i].job = job_thread /\ job_queue'[i].what # "progress"
               PROVE  /\ job_queue' = <<>> /\ job_status'.job = job_thread
                      /\ job_status'.what = job_outcome[job_thread]
    BY <1>1 DEF Told
  <2>1. job_queue[1].job = job_thread /\ job_queue[1].what # "progress"
    <3>1. PICK i \in DOMAIN job_queue :
            job_queue[i].job = job_thread /\ job_queue[i].what # "progress"
      BY <1>1 DEF JobInv, Told
    <3> QED BY <1>3, <3>1
  <2>2. Len(job_queue) = 1
    <3>1. \A i \in DOMAIN job_queue : job_queue[i].job <= job_queue[1].job
      BY <2>1 DEF JobInv, ReportsInTurn
    <3>2. \A i \in DOMAIN job_queue : 1 < i => job_queue[1].job < job_queue[i].job
      BY <1>3, <2>1 DEF JobInv, ReportsInTurn
    <3>3. Len(job_queue) \in DOMAIN job_queue
      BY <1>2, <1>3
    <3> QED BY <1>2, <1>3, <3>1, <3>2, <3>3
  <2>3. job_outcome[job_thread] = job_queue[1].what
    BY <1>3, <2>1 DEF JobInv, ReportsInTurn
  <2>4. job_queue' = <<>>
    <3> HIDE DEF Messages
    <3> QED BY <1>2, <1>3, <2>2
  <2> QED BY <1>1, <1>2, <2>1, <2>3, <2>4
<1> QED BY <1>4, <1>5, <1>7, <1>8 DEF JobInv

LEMMA JobBoxCloses ==
  ASSUME JobInv, Build!CloseBox \/ Mine!CloseBox
  PROVE  JobInv'
<1>1. /\ job_box' = FALSE
      /\ UNCHANGED <<job_stage, job_outcome, job_thread, job_queue, job_cancel, job_timers,
                     job_polls, job_start_button, job_cancel_button, job_status, job_asked>>
  BY DEF Build!CloseBox, Mine!CloseBox, Build!buttons, Mine!buttons
<1>2. Build!TypeOK'
  <2>1. {job_cancel', job_box', job_start_button', job_cancel_button'} \subseteq BOOLEAN
    BY <1>1 DEF JobInv, Build!TypeOK
  <2> QED BY <1>1, <2>1 DEF JobInv, Build!TypeOK
<1>3. Build!Alive(job_thread)' = Build!Alive(job_thread)
  BY <1>1 DEF Build!Alive
<1>4. /\ JobsInTurn' /\ ReportsInTurn' /\ Polled'
      /\ Cancelled' /\ Cancellable' /\ Told'
  BY <1>1, <1>3 DEF JobInv, JobsInTurn, ReportsInTurn, Polled, Cancelled, Cancellable, Told
<1> QED BY <1>2, <1>4 DEF JobInv

\* A poll that found the thread dead gives the buttons back; one that did not arms the next.
LEMMA JobPollEnds ==
  ASSUME JobInv, Build!PollEnds \/ Mine!PollEnds
  PROVE  /\ JobInv'
         /\ job_queue = <<>> /\ (job_start_button' => job_start_button \/ ~Build!Alive(job_thread))
         /\ UNCHANGED <<job_stage, job_thread, job_queue, job_status>>
<1>1. /\ job_polls # <<>> /\ job_queue = <<>>
      /\ job_polls' = SubSeq(job_polls, 1, Len(job_polls) - 1)
      /\ job_box' = (Len(job_polls) > 1)
      /\ IF job_polls[Len(job_polls)]
           THEN job_timers' = job_timers + 1 /\ UNCHANGED <<job_start_button, job_cancel_button>>
           ELSE job_start_button' = TRUE /\ job_cancel_button' = FALSE /\ UNCHANGED job_timers
      /\ UNCHANGED <<job_stage, job_outcome, job_thread, job_queue, job_cancel, job_status,
                     job_asked>>
  BY DEF Build!PollEnds, Mine!PollEnds, Build!Draining, Mine!Draining, Build!EndPoll, Mine!EndPoll,
         Build!Front, Mine!Front, Build!Last, Mine!Last, Build!buttons, Mine!buttons
<1>2. /\ job_polls \in Seq(BOOLEAN) /\ Len(job_polls) \in Nat \ {0} /\ job_timers \in Nat
  <2>1. job_polls \in Seq(BOOLEAN) /\ job_timers \in Nat
    BY JobConstants DEF JobInv, Build!TypeOK
  <2> QED BY <1>1, <2>1
<1>3. /\ job_polls' \in Seq(BOOLEAN) /\ Len(job_polls') = Len(job_polls) - 1
      /\ DOMAIN job_polls' \subseteq DOMAIN job_polls
      /\ \A i \in DOMAIN job_polls' : job_polls'[i] = job_polls[i]
      /\ Len(job_polls) \in DOMAIN job_polls
      /\ Len(job_polls) > 1 => job_polls' # <<>>
  <2>1. /\ job_polls' \in Seq(BOOLEAN) /\ Len(job_polls') = Len(job_polls) - 1
        /\ \A i \in 1 .. Len(job_polls) - 1 : job_polls'[i] = job_polls[i]
        /\ Len(job_polls) > 1 => job_polls' # <<>>
    BY <1>1, <1>2, FrontOf, Zenon
  <2>2. DOMAIN job_polls = 1 .. Len(job_polls) /\ DOMAIN job_polls' = 1 .. Len(job_polls')
    BY <1>2, <2>1
  <2> QED BY <1>2, <2>1, <2>2
<1>4. Build!Alive(job_thread)' = Build!Alive(job_thread)
  BY <1>1 DEF Build!Alive
<1>5. Build!Alive(job_thread) => job_polls[Len(job_polls)]
  BY <1>3, Zenon DEF JobInv, Polled
<1>6. job_timers' \in 0 .. MaxBuilds /\ job_timers' + Len(job_polls') <= job_timers + Len(job_polls)
  <2>1. job_timers + Len(job_polls) <= MaxBuilds
    BY DEF JobInv, Build!TypeOK
  <2> QED BY <1>1, <1>2, <1>3, <2>1, JobConstants
<1>7. Build!TypeOK'
  <2>1. {job_cancel', job_box', job_start_button', job_cancel_button'} \subseteq BOOLEAN
    <3>1. {job_cancel, job_start_button, job_cancel_button} \subseteq BOOLEAN
      BY DEF JobInv, Build!TypeOK
    <3>2. job_box' \in BOOLEAN
      BY <1>1
    <3>3. job_start_button' \in {TRUE, job_start_button} /\ job_cancel_button' \in {FALSE, job_cancel_button}
      BY <1>1, Zenon
    <3> QED BY <1>1, <3>1, <3>2, <3>3, Zenon
  <2>2. job_box' => job_polls' # <<>>
    <3>1. job_box' = (Len(job_polls) > 1)
      BY <1>1
    <3> QED BY <1>3, <3>1
  <2>3. job_timers' + Len(job_polls') <= MaxBuilds
    BY <1>2, <1>3, <1>6, JobConstants DEF JobInv, Build!TypeOK
  <2> QED BY <1>1, <1>3, <1>6, <2>1, <2>2, <2>3 DEF JobInv, Build!TypeOK
<1>8. Polled'
  <2>1. \A i \in DOMAIN job_polls' : ~job_polls'[i] => ~Build!Alive(job_thread)
    BY <1>3, Zenon DEF JobInv, Polled
  <2>2. Build!Alive(job_thread) => job_timers' > 0
    BY <1>1, <1>2, <1>5
  <2>3. job_timers' + Len(job_polls') <= job_thread
    <3>1. job_timers + Len(job_polls) <= job_thread /\ job_thread \in Nat
      BY JobConstants DEF JobInv, Polled, Build!TypeOK, Build!Jobs, Build!NoJob
    <3> QED BY <1>2, <1>3, <1>6, <3>1, JobConstants
  <2> QED BY <1>1, <1>4, <2>1, <2>2, <2>3 DEF Polled
<1>9. /\ JobsInTurn' /\ ReportsInTurn' /\ Cancelled' /\ Told'
  BY <1>1 DEF JobInv, JobsInTurn, ReportsInTurn, Cancelled, Told
<1>10. Cancellable'
  BY <1>1, <1>4, <1>5 DEF JobInv, Cancellable
<1> QED BY <1>1, <1>5, <1>7, <1>8, <1>9, <1>10 DEF JobInv

\* A message of the last job goes to the end of the queue.
LEMMA Queued ==
  ASSUME JobInv, NEW what \in Build!Outcomes \cup {"progress"}, job_thread \in 1 .. MaxBuilds,
         job_queue' = Append(job_queue, [job |-> job_thread, what |-> what]),
         job_outcome[job_thread] = "none", job_outcome'[job_thread] = what \/ what = "progress",
         \A i \in 1 .. MaxBuilds : i # job_thread => job_outcome'[i] = job_outcome[i],
         UNCHANGED job_thread
  PROVE  /\ job_queue' \in Seq(Messages) /\ job_queue' # <<>>
         /\ ReportsInTurn'
         /\ \E i \in DOMAIN job_queue' : job_queue'[i] = [job |-> job_thread, what |-> what]
         /\ \A i \in DOMAIN job_queue' :
              job_queue'[i].job = job_thread
              \/ \E k \in DOMAIN job_queue : job_queue'[i] = job_queue[k]
<1> DEFINE m == [job |-> job_thread, what |-> what]
<1>1. /\ job_queue \in Seq(Messages) /\ Len(job_queue) \in Nat /\ m \in Messages
      /\ job_thread \in Nat /\ m.job = job_thread /\ m.what = what
  BY JobConstants DEF JobInv, Build!TypeOK, Build!Jobs, Messages
<1>2. \A x \in Messages : x.job \in 1 .. MaxBuilds /\ x.job \in Nat
  BY JobConstants DEF Messages
<1> HIDE DEF Messages, m
<1>3. /\ job_queue' \in Seq(Messages) /\ job_queue' # <<>>
      /\ DOMAIN job_queue' = 1 .. (Len(job_queue) + 1) /\ DOMAIN job_queue = 1 .. Len(job_queue)
      /\ \A i \in DOMAIN job_queue : job_queue'[i] = job_queue[i] /\ job_queue[i] \in Messages
      /\ job_queue'[Len(job_queue) + 1] = m
  BY <1>1 DEF m
<1>4. \A i \in DOMAIN job_queue' : i = Len(job_queue) + 1 \/ i \in DOMAIN job_queue
  BY <1>1, <1>3
<1>5. ASSUME NEW i \in DOMAIN job_queue
      PROVE  /\ job_queue[i].job <= job_thread
             /\ job_queue[i].what # "progress" =>
                  /\ job_queue[i].job # job_thread
                  /\ job_outcome'[job_queue[i].job] = job_queue[i].what
  <2>1. /\ job_queue[i].job <= job_thread
        /\ job_queue[i].what # "progress" => job_outcome[job_queue[i].job] = job_queue[i].what
    BY DEF JobInv, ReportsInTurn
  <2>2. job_queue[i] \in Messages
    BY <1>3
  <2>3. job_queue[i].job \in 1 .. MaxBuilds /\ job_queue[i].what # "none"
    BY <2>2, <1>2 DEF Messages, Build!Outcomes
  <2> QED BY <2>1, <2>3
<1>6. ReportsInTurn'
  <2>1. ASSUME NEW i \in DOMAIN job_queue'
        PROVE  /\ job_queue'[i].job <= job_thread
               /\ job_queue'[i].what # "progress"
                    => job_outcome'[job_queue'[i].job] = job_queue'[i].what
    <3>1. CASE i = Len(job_queue) + 1
      BY <1>1, <1>3, <3>1
    <3>2. CASE i \in DOMAIN job_queue
      BY <1>3, <1>5, <3>2
    <3> QED BY <1>4, <3>1, <3>2
  <2>2. ASSUME NEW i \in DOMAIN job_queue', NEW k \in DOMAIN job_queue', i < k
        PROVE  \/ job_queue'[i].job < job_queue'[k].job
               \/ job_queue'[i].job = job_queue'[k].job /\ job_queue'[i].what = "progress"
    <3>1. i \in DOMAIN job_queue
      BY <1>1, <1>3, <2>2
    <3>2. CASE k = Len(job_queue) + 1
      <4>1. /\ job_queue'[i] = job_queue[i] /\ job_queue[i].job \in Nat
            /\ job_queue'[k].job = job_thread
        BY <1>1, <1>2, <1>3, <3>1, <3>2
      <4> QED BY <1>1, <1>5, <3>1, <4>1
    <3>3. CASE k \in DOMAIN job_queue
      BY <1>3, <2>2, <3>1, <3>3 DEF JobInv, ReportsInTurn
    <3> QED BY <1>4, <3>2, <3>3
  <2> QED BY <2>1, <2>2 DEF ReportsInTurn
<1>7. Len(job_queue) + 1 \in DOMAIN job_queue'
  BY <1>1, <1>3
<1> QED BY <1>1, <1>3, <1>4, <1>6, <1>7 DEF m

\* A worker ends in one report.
LEMMA JobPosts ==
  ASSUME JobInv, NEW j \in 1 .. MaxBuilds,
         Build!StopsAtCheckpoint(j) \/ Build!WorkEnds(j) \/ Mine!StopsAtCheckpoint(j) \/ Mine!WorkEnds(j)
  PROVE  /\ JobInv' /\ Build!Alive(job_thread)
         /\ \A i \in DOMAIN job_queue' :
              job_queue'[i].job = job_thread
              \/ \E k \in DOMAIN job_queue : job_queue'[i] = job_queue[k]
         /\ UNCHANGED <<job_thread, job_start_button, job_status>>
<1>1. PICK what \in {"cancelled", "done", "error"} :
        /\ what = "cancelled" => job_cancel
        /\ job_stage[j] = "running" /\ job_stage' = [job_stage EXCEPT ![j] = "posted"]
        /\ job_outcome' = [job_outcome EXCEPT ![j] = what]
        /\ job_queue' = Append(job_queue, [job |-> j, what |-> what])
        /\ UNCHANGED <<job_thread, job_cancel, job_timers, job_polls, job_box, job_start_button,
                       job_cancel_button, job_status, job_asked>>
  BY DEF Build!StopsAtCheckpoint, Build!WorkEnds, Mine!StopsAtCheckpoint, Mine!WorkEnds,
         Build!Post, Mine!Post, Build!Message, Mine!Message, Build!poll, Mine!poll,
         Build!buttons, Mine!buttons
<1>2. /\ job_stage \in [1 .. MaxBuilds -> {"unused", "running", "posted", "dead"}]
      /\ job_outcome \in [1 .. MaxBuilds -> {"done", "cancelled", "error", "none"}]
      /\ job_thread \in Nat /\ job_thread <= MaxBuilds
  BY JobConstants DEF JobInv, Build!TypeOK, Build!Jobs, Build!NoJob, Build!Outcomes
<1>3. j = job_thread /\ job_outcome[j] = "none"
  BY <1>1, <1>2 DEF JobInv, JobsInTurn
<1>4. Build!Alive(job_thread) /\ Build!Alive(job_thread)'
  BY <1>1, <1>2, <1>3 DEF Build!Alive, Build!NoJob
<1>5. /\ job_stage'[j] = "posted" /\ job_outcome'[j] = what
      /\ \A i \in 1 .. MaxBuilds : i # j => job_stage'[i] = job_stage[i] /\ job_outcome'[i] = job_outcome[i]
  BY <1>1, <1>2
<1>6. /\ job_queue' \in Seq(Messages) /\ job_queue' # <<>>
      /\ ReportsInTurn'
      /\ \E i \in DOMAIN job_queue' : job_queue'[i] = [job |-> job_thread, what |-> what]
      /\ \A i \in DOMAIN job_queue' :
           job_queue'[i].job = job_thread
           \/ \E k \in DOMAIN job_queue : job_queue'[i] = job_queue[k]
  <2>1. what \in Build!Outcomes \cup {"progress"} /\ UNCHANGED job_thread
    BY <1>1 DEF Build!Outcomes
  <2> QED BY <1>1, <1>3, <1>5, <2>1, Queued
<1>7. Build!TypeOK'
  <2>1. job_stage' \in [1 .. MaxBuilds -> {"unused", "running", "posted", "dead"}]
        /\ job_outcome' \in [1 .. MaxBuilds -> {"done", "cancelled", "error", "none"}]
    BY <1>1, <1>2
  <2>2. {job_cancel', job_box', job_start_button', job_cancel_button'} \subseteq BOOLEAN
    BY <1>1 DEF JobInv, Build!TypeOK
  <2> QED BY <1>1, <1>6, <2>1, <2>2
          DEF JobInv, Build!TypeOK, Build!Jobs, Build!Outcomes, Messages
<1>8. JobsInTurn'
  BY <1>1, <1>2, <1>3, <1>5 DEF JobInv, JobsInTurn
<1>9. Polled' /\ Cancellable'
  BY <1>1, <1>4 DEF JobInv, Polled, Cancellable
<1>10. Cancelled'
  BY <1>1, <1>3, <1>5 DEF JobInv, Cancelled
<1>11. Told'
  BY <1>1, <1>6 DEF Told
<1> QED BY <1>1, <1>4, <1>6, <1>7, <1>8, <1>9, <1>10, <1>11 DEF JobInv

\* A worker tells of its progress while it works.
LEMMA JobProgresses ==
  ASSUME JobInv, NEW j \in 1 .. MaxBuilds, Build!PostProgress(j) \/ Mine!PostProgress(j)
  PROVE  /\ JobInv' /\ Build!Alive(job_thread)
         /\ \A i \in DOMAIN job_queue' :
              job_queue'[i].job = job_thread
              \/ \E k \in DOMAIN job_queue : job_queue'[i] = job_queue[k]
         /\ UNCHANGED <<job_thread, job_start_button, job_status>>
<1>1. /\ job_stage[j] = "running"
      /\ job_queue' = Append(job_queue, [job |-> j, what |-> "progress"])
      /\ UNCHANGED <<job_stage, job_outcome, job_thread, job_cancel, job_timers, job_polls, job_box,
                     job_start_button, job_cancel_button, job_status, job_asked>>
  BY DEF Build!PostProgress, Mine!PostProgress, Build!Message, Mine!Message, Build!poll, Mine!poll,
         Build!buttons, Mine!buttons
<1>2. j = job_thread /\ job_outcome[j] = "none"
  BY <1>1, JobConstants DEF JobInv, JobsInTurn, Build!TypeOK, Build!Jobs, Build!NoJob
<1>3. Build!Alive(job_thread) /\ Build!Alive(job_thread)'
  BY <1>1, <1>2, JobConstants DEF Build!Alive, Build!NoJob
<1>4. /\ job_queue' \in Seq(Messages) /\ job_queue' # <<>>
      /\ ReportsInTurn'
      /\ \A i \in DOMAIN job_queue' :
           job_queue'[i].job = job_thread
           \/ \E k \in DOMAIN job_queue : job_queue'[i] = job_queue[k]
  <2>1. "progress" \in Build!Outcomes \cup {"progress"} /\ UNCHANGED <<job_thread, job_outcome>>
    BY <1>1
  <2> QED BY <1>1, <1>2, <2>1, Queued
<1>5. Build!TypeOK'
  <2>1. {job_cancel', job_box', job_start_button', job_cancel_button'} \subseteq BOOLEAN
    BY <1>1 DEF JobInv, Build!TypeOK
  <2> QED BY <1>1, <1>4, <2>1 DEF JobInv, Build!TypeOK, Build!Jobs, Messages
<1>6. JobsInTurn' /\ Cancelled' /\ Told'
  BY <1>1, <1>2 DEF JobInv, JobsInTurn, Cancelled, Told
<1>7. Polled' /\ Cancellable'
  BY <1>1, <1>3 DEF JobInv, Polled, Cancellable
<1> QED BY <1>1, <1>3, <1>4, <1>5, <1>6, <1>7 DEF JobInv

\* A thread ends, with or without a message.
LEMMA JobEnds ==
  ASSUME JobInv, NEW j \in 1 .. MaxBuilds,
         Build!ThreadEnds(j) \/ Build!DieSilently(j) \/ Mine!ThreadEnds(j) \/ Mine!DieSilently(j)
  PROVE  /\ JobInv' /\ ~Build!Alive(job_thread)'
         /\ UNCHANGED <<job_thread, job_queue, job_start_button, job_status>>
<1>1. /\ job_stage[j] \in {"running", "posted"} /\ job_stage' = [job_stage EXCEPT ![j] = "dead"]
      /\ UNCHANGED <<job_outcome, job_thread, job_queue, job_cancel, job_timers, job_polls, job_box,
                     job_start_button, job_cancel_button, job_status, job_asked>>
  BY DEF Build!ThreadEnds, Build!DieSilently, Mine!ThreadEnds, Mine!DieSilently,
         Build!poll, Mine!poll, Build!buttons, Mine!buttons
<1>2. /\ job_stage \in [1 .. MaxBuilds -> {"unused", "running", "posted", "dead"}]
      /\ job_thread \in Nat /\ job_thread <= MaxBuilds
  BY JobConstants DEF JobInv, Build!TypeOK, Build!Jobs, Build!NoJob
<1>3. j = job_thread
  BY <1>1, <1>2 DEF JobInv, JobsInTurn
<1>4. /\ job_stage'[j] = "dead"
      /\ \A i \in 1 .. MaxBuilds : i # j => job_stage'[i] = job_stage[i]
      /\ job_stage' \in [1 .. MaxBuilds -> {"unused", "running", "posted", "dead"}]
  BY <1>1, <1>2
<1>5. Build!TypeOK'
  <2>1. {job_cancel', job_box', job_start_button', job_cancel_button'} \subseteq BOOLEAN
    BY <1>1 DEF JobInv, Build!TypeOK
  <2> QED BY <1>1, <1>4, <2>1 DEF JobInv, Build!TypeOK, Build!Jobs
<1>6. JobsInTurn' /\ ReportsInTurn'
  BY <1>1, <1>2, <1>3, <1>4 DEF JobInv, JobsInTurn, ReportsInTurn
<1>7. ~Build!Alive(job_thread)'
  BY <1>1, <1>3, <1>4 DEF Build!Alive
<1>8. Polled' /\ Cancelled' /\ Cancellable' /\ Told'
  BY <1>1, <1>7 DEF JobInv, Polled, Cancelled, Cancellable, Told
<1> QED BY <1>1, <1>5, <1>6, <1>7, <1>8 DEF JobInv

----------------------------------------------------------------------------
(* Corpus.                                                                 *)

Unused == {j \in Jobs : stage[j] = "unused"}

\* Each thread arms one poll.
ScanCounts == timers + Len(polls) + Cardinality(Unused) <= MaxJobs

Stages == {"unused", "running", "posted", "dead", "lost"}
Notes  == AnswerKinds \cup {"progress"}
Words  == {"none", "started", "progress", "answer", "cancelling", "imported"}

LookupIsOver(j) == kind[j] = "latest" /\ stage[j] = "posted"
Looking == (\E j \in Jobs : kind[j] = "latest" /\ stage[j] = "running") \/ Waits("latest")

\* No thread lives but the last one and lookups that are over.
Alone == \A j \in Jobs : Alive(j) => j = scan_thread \/ LookupIsOver(j)

\* Behind a tip that waits no message comes, for nothing is at work.
TipAlone ==
  /\ \A i \in DOMAIN scan_queue : scan_queue[i] = "latest" => i = Len(scan_queue)
  /\ Waits("latest") => \A j \in Jobs : Alive(j) => LookupIsOver(j)

\* The poll that takes a tip is the only one.
LookupsCalm == Looking => ~box /\ Len(polls) <= 1 /\ ~Waits("boxed")

\* A poll that found the thread dead is right until it ends.
DeadPolls == \A i \in DOMAIN polls : ~polls[i] => ~Alive(scan_thread)

HasButtons == ScansAlive # {} => cancel_button /\ ~scan_button

\* A thread that lives and a message that waits have a poll to come.
PollToCome == scan_queue # <<>> \/ Alive(scan_thread) => timers > 0 \/ polls # <<>>

\* The answer of the last thread is the last message, and shown when none waits.
AnswerSaid ==
  scan_thread # NoThread /\ stage[scan_thread] \in {"posted", "dead"} =>
    \/ scan_queue # <<>> /\ scan_queue[Len(scan_queue)] # "progress"
    \/ /\ scan_queue = <<>>
       /\ scan_status \in {"answer", "imported"} \/ (scan_status = "cancelling" /\ scan_cancel)

InOneHand ==
  ~hasty => /\ Alone /\ TipAlone /\ LookupsCalm /\ DeadPolls
            /\ HasButtons /\ PollToCome /\ AnswerSaid

ScanInv == TypeOK /\ ScanCounts /\ InOneHand

LEMMA ScanConstants == MaxJobs \in Nat \ {0} /\ NoThread \notin Nat /\ NoThread \notin Jobs
BY DeskAssumption DEF Jobs

LEMMA ScanTypes ==
  ASSUME ScanInv
  PROVE  /\ kind \in [Jobs -> Kinds \cup {"none"}] /\ stage \in [Jobs -> Stages]
         /\ \A j \in Jobs : kind[j] = "none" <=> stage[j] = "unused"
         /\ scan_thread \in Jobs \cup {NoThread} /\ scan_queue \in Seq(Notes)
         /\ timers \in Nat /\ polls \in Seq(BOOLEAN) /\ Len(polls) \in Nat
         /\ {scan_cancel, box, scan_button, cancel_button, hasty} \subseteq BOOLEAN
         /\ scan_status \in Words /\ (box => polls # <<>>)
BY ScanConstants DEF ScanInv, TypeOK, Stages, Notes, Words

\* Sets of jobs are finite, and one job less counts as one.
LEMMA JobsCount ==
  ASSUME NEW S \in SUBSET Jobs
  PROVE  /\ Cardinality(S) \in Nat
         /\ \A j \in S : Cardinality(S \ {j}) = Cardinality(S) - 1
<1>1. IsFiniteSet(Jobs)
  BY FS_Interval, ScanConstants DEF Jobs
<1>2. IsFiniteSet(S)
  BY <1>1, FS_Subset
<1>3. Cardinality(S) \in Nat
  BY <1>2, FS_CardinalityType
<1>4. ASSUME NEW j \in S PROVE Cardinality(S \ {j}) = Cardinality(S) - 1
  BY <1>2, FS_RemoveElement
<1> QED BY <1>3, <1>4

\* What is left of a queue.
LEMMA TakenFrom ==
  ASSUME NEW S, NEW q \in Seq(S), q # <<>>
  PROVE  /\ Tail(q) \in Seq(S) /\ Head(q) = q[1] /\ 1 \in DOMAIN q /\ Len(q) \in Nat
         /\ \A i \in DOMAIN Tail(q) : i + 1 \in DOMAIN q /\ Tail(q)[i] = q[i + 1]
         /\ ToSet(Tail(q)) \subseteq ToSet(q) /\ Head(q) \in ToSet(q)
         /\ Len(Tail(q)) = Len(q) - 1
         /\ Tail(q) = <<>> => Len(q) = 1
         /\ Len(q) = 1 => Tail(q) = <<>>
         /\ Tail(q) # <<>> => Tail(q)[Len(Tail(q))] = q[Len(q)]
<1>1. /\ Tail(q) \in Seq(S) /\ Head(q) = q[1] /\ 1 \in DOMAIN q /\ Len(q) \in Nat
      /\ \A i \in DOMAIN Tail(q) : i + 1 \in DOMAIN q /\ Tail(q)[i] = q[i + 1]
      /\ Len(Tail(q)) = Len(q) - 1
  OBVIOUS
<1>2. (Tail(q) = <<>> => Len(q) = 1) /\ (Len(q) = 1 => Tail(q) = <<>>)
  BY <1>1
<1>3. ToSet(Tail(q)) \subseteq ToSet(q) /\ Head(q) \in ToSet(q)
  BY <1>1 DEF ToSet
<1>4. Tail(q) # <<>> => Tail(q)[Len(Tail(q))] = q[Len(q)]
  <2> SUFFICES ASSUME Tail(q) # <<>> PROVE Tail(q)[Len(Tail(q))] = q[Len(q)]
    OBVIOUS
  <2>1. Len(Tail(q)) \in DOMAIN Tail(q) /\ Len(Tail(q)) + 1 = Len(q)
    BY <1>1
  <2> QED BY <1>1, <2>1
<1> QED BY <1>1, <1>2, <1>3, <1>4

LEMMA AddedTo ==
  ASSUME NEW S, NEW q \in Seq(S), NEW m \in S
  PROVE  /\ Append(q, m) \in Seq(S) /\ Append(q, m) # <<>> /\ Len(q) \in Nat
         /\ Len(Append(q, m)) = Len(q) + 1 /\ Append(q, m)[Len(Append(q, m))] = m
         /\ \A i \in DOMAIN q : Append(q, m)[i] = q[i]
         /\ DOMAIN Append(q, m) = DOMAIN q \cup {Len(q) + 1}
         /\ ToSet(Append(q, m)) = ToSet(q) \cup {m}
<1>1. /\ Append(q, m) \in Seq(S) /\ Append(q, m) # <<>> /\ Len(q) \in Nat
      /\ Len(Append(q, m)) = Len(q) + 1 /\ Append(q, m)[Len(q) + 1] = m
      /\ \A i \in DOMAIN q : Append(q, m)[i] = q[i]
      /\ DOMAIN Append(q, m) = DOMAIN q \cup {Len(q) + 1}
  OBVIOUS
<1>2. ToSet(Append(q, m)) = ToSet(q) \cup {m}
  BY <1>1 DEF ToSet
<1> QED BY <1>1, <1>2

\* What a thread that is started changes.
Started(k, j) ==
  /\ j \in Jobs /\ scan_thread' = j /\ kind'[j] = k /\ stage'[j] = "running"
  /\ timers' = timers + 1 /\ scan_status' = "started"
  /\ kind' \in [Jobs -> Kinds \cup {"none"}] /\ stage' \in [Jobs -> Stages]
  /\ \A i \in Jobs : kind'[i] = "none" <=> stage'[i] = "unused"
  /\ \A i \in Jobs \ {j} : kind'[i] = kind[i] /\ stage'[i] = stage[i]
  /\ Cardinality(Unused)' = Cardinality(Unused) - 1 /\ Cardinality(Unused) \in Nat

LEMMA ScanStarts ==
  ASSUME ScanInv, NEW k \in Kinds, Start(k)
  PROVE  \E j \in Jobs : Started(k, j)
<1>1. PICK j \in Jobs :
        /\ stage[j] = "unused"
        /\ kind' = [kind EXCEPT ![j] = k] /\ stage' = [stage EXCEPT ![j] = "running"]
        /\ scan_thread' = j /\ timers' = timers + 1 /\ scan_status' = "started"
  BY DEF Start
<1>2. /\ kind \in [Jobs -> Kinds \cup {"none"}] /\ stage \in [Jobs -> Stages]
      /\ \A i \in Jobs : kind[i] = "none" <=> stage[i] = "unused"
  BY ScanTypes
<1>3. /\ kind' \in [Jobs -> Kinds \cup {"none"}] /\ stage' \in [Jobs -> Stages]
      /\ kind'[j] = k /\ stage'[j] = "running"
      /\ \A i \in Jobs \ {j} : kind'[i] = kind[i] /\ stage'[i] = stage[i]
  BY <1>1, <1>2 DEF Stages
<1>4. \A i \in Jobs : kind'[i] = "none" <=> stage'[i] = "unused"
  BY <1>2, <1>3 DEF Kinds
<1>5. Unused' = Unused \ {j} /\ j \in Unused /\ Unused \in SUBSET Jobs
  BY <1>1, <1>3 DEF Unused
<1>6. Cardinality(Unused)' = Cardinality(Unused) - 1 /\ Cardinality(Unused) \in Nat
  BY <1>5, JobsCount
<1> QED BY <1>1, <1>3, <1>4, <1>6 DEF Started

\* The counts bound what the types do.
LEMMA ScanBounds ==
  ASSUME ScanCounts', timers' \in Nat, polls' \in Seq(BOOLEAN)
  PROVE  timers' \in 0 .. MaxJobs /\ timers' + Len(polls') <= MaxJobs
<1>1. Cardinality(Unused)' \in Nat
  <2>1. Unused' \in SUBSET Jobs
    BY DEF Unused
  <2> QED BY <2>1, JobsCount
<1>2. Len(polls') \in Nat
  OBVIOUS
<1> QED BY <1>1, <1>2, ScanConstants DEF ScanCounts

\* A thread that is started while nothing is at work and no poll goes on keeps the last one
\* alone, and no dead poll is left.
LEMMA StartsAlone ==
  ASSUME ScanInv, NEW k \in Kinds, NEW j \in Jobs, Started(k, j),
         \A i \in Jobs : Alive(i) => LookupIsOver(i),
         polls' = <<>>, ~box', ~Waits("latest")', k = "latest" => ~Waits("boxed")',
         k = "scan" => cancel_button' /\ ~scan_button'
  PROVE  InOneHand'
<1>1. /\ scan_thread' = j /\ kind'[j] = k /\ stage'[j] = "running" /\ timers' = timers + 1
      /\ \A i \in Jobs \ {j} : kind'[i] = kind[i] /\ stage'[i] = stage[i]
  BY DEF Started
<1>2. \A i \in Jobs \ {j} : Alive(i)' => LookupIsOver(i)'
  BY <1>1 DEF Alive, LookupIsOver
<1>3. Alone'
  BY <1>1, <1>2 DEF Alone
<1>4. TipAlone'
  BY DEF TipAlone, Waits, ToSet
<1>5. LookupsCalm'
  <2>1. Looking' => k = "latest"
    <3>1. ASSUME NEW i \in Jobs, kind'[i] = "latest", stage'[i] = "running" PROVE k = "latest"
      <4>1. i # NoThread
        BY ScanConstants
      <4>2. i = j
        BY <1>2, <3>1, <4>1 DEF Alive, LookupIsOver
      <4> QED BY <1>1, <3>1, <4>2
    <3> QED BY <3>1 DEF Looking
  <2>2. Len(polls') <= 1
    OBVIOUS
  <2> QED BY <2>1, <2>2 DEF LookupsCalm
<1>6. DeadPolls'
  BY DEF DeadPolls
<1>7. HasButtons'
  <2>1. ASSUME NEW i \in ScansAlive' PROVE k = "scan"
    BY <1>1, <1>2, <2>1 DEF ScansAlive, LookupIsOver
  <2> QED BY <2>1 DEF HasButtons
<1>8. PollToCome' /\ AnswerSaid'
  BY <1>1, ScanTypes DEF PollToCome, AnswerSaid
<1> QED BY <1>3, <1>4, <1>5, <1>6, <1>7, <1>8 DEF InOneHand

\* A click on one of the start buttons, of which only a scan touches the other buttons.
LEMMA ScanClicks ==
  ASSUME ScanInv, ClickScan \/ ClickProbe \/ ClickLatest \/ ClickBip158
  PROVE  ScanInv'
<1>1. PICK k \in Kinds :
        /\ Start(k) /\ polls = <<>> /\ UNCHANGED <<scan_queue, polls, box>>
        /\ hasty' \in BOOLEAN
        /\ ~hasty' => /\ ~hasty /\ ~Waits("latest") /\ ~Alive(scan_thread)
                      /\ k = "latest" => ~Waits("boxed")
        /\ IF k = "scan" THEN scan_cancel' = FALSE /\ scan_button' = FALSE /\ cancel_button' = TRUE
           ELSE UNCHANGED <<scan_cancel, scan_button, cancel_button>>
  <2>1. hasty \in BOOLEAN
    BY ScanTypes
  <2>2. CASE ClickScan
    BY <2>1, <2>2, Zenon DEF ClickScan, RunScan, Idle, Kinds
  <2>3. CASE ClickProbe
    BY <2>1, <2>3, Zenon DEF ClickProbe, Idle, Kinds, buttons
  <2>4. CASE ClickLatest
    BY <2>1, <2>4, Zenon DEF ClickLatest, Idle, Kinds, buttons
  <2>5. CASE ClickBip158
    BY <2>1, <2>5, Zenon DEF ClickBip158, Kinds, buttons
  <2> QED BY <2>2, <2>3, <2>4, <2>5
<1>2. PICK j \in Jobs : Started(k, j)
  BY <1>1, ScanStarts
<1>3. /\ scan_thread' = j /\ timers' = timers + 1 /\ scan_status' = "started"
      /\ kind' \in [Jobs -> Kinds \cup {"none"}] /\ stage' \in [Jobs -> Stages]
      /\ \A i \in Jobs : kind'[i] = "none" <=> stage'[i] = "unused"
      /\ Cardinality(Unused)' = Cardinality(Unused) - 1 /\ Cardinality(Unused) \in Nat
  BY <1>2 DEF Started
<1>4. ScanCounts'
  <2>1. timers \in Nat /\ timers + 0 + Cardinality(Unused) <= MaxJobs /\ Len(polls') = 0
    BY <1>1, ScanTypes DEF ScanInv, ScanCounts
  <2> QED BY <1>3, <2>1, ScanConstants DEF ScanCounts
<1>5. TypeOK'
  <2>1. timers' \in 0 .. MaxJobs /\ timers' + Len(polls') <= MaxJobs
    BY <1>1, <1>3, <1>4, ScanTypes, ScanBounds
  <2>2. {scan_cancel', box', scan_button', cancel_button', hasty'} \subseteq BOOLEAN
    <3>1. {scan_cancel, box, scan_button, cancel_button} \subseteq BOOLEAN
      BY ScanTypes
    <3> QED BY <1>1, <3>1, Zenon
  <2>3. scan_queue' \in Seq(Notes) /\ polls' \in Seq(BOOLEAN) /\ (box' => polls' # <<>>)
    BY <1>1, ScanTypes
  <2> QED BY <1>3, <2>1, <2>2, <2>3 DEF TypeOK, Stages, Notes
<1>6. ASSUME ~hasty' PROVE InOneHand'
  <2>1. \A i \in Jobs : Alive(i) => LookupIsOver(i)
    <3>1. Alone
      BY <1>1, <1>6 DEF ScanInv, InOneHand
    <3> QED BY <1>1, <1>6, <3>1 DEF Alone
  <2>2. polls' = <<>> /\ ~box'
    BY <1>1, ScanTypes
  <2>3. ~Waits("latest")' /\ (k = "latest" => ~Waits("boxed")')
    BY <1>1, <1>6 DEF Waits
  <2> QED BY <1>1, <1>2, <2>1, <2>2, <2>3, StartsAlone
<1>7. InOneHand'
  BY <1>6 DEF InOneHand
<1> QED BY <1>4, <1>5, <1>7 DEF ScanInv

\* A tip that came in starts its scan and ends its poll.
LEMMA ScanTakesLatest ==
  ASSUME ScanInv, TakeLatest
  PROVE  ScanInv'
<1>1. /\ Start("scan") /\ polls # <<>> /\ scan_queue # <<>> /\ scan_queue' = Tail(scan_queue)
      /\ Head(scan_queue) = "latest"
      /\ polls' = SubSeq(polls, 1, Len(polls) - 1) /\ box' = (Len(polls) > 1)
      /\ scan_cancel' = FALSE /\ scan_button' = FALSE /\ cancel_button' = TRUE /\ hasty' = hasty
  BY DEF TakeLatest, RunScan, Return, Draining, Front
<1>2. /\ polls \in Seq(BOOLEAN) /\ Len(polls) \in Nat \ {0} /\ timers \in Nat
      /\ scan_queue \in Seq(Notes)
  <2>1. polls \in Seq(BOOLEAN) /\ timers \in Nat /\ scan_queue \in Seq(Notes)
    BY ScanTypes
  <2> QED BY <1>1, <2>1
<1>3. polls' \in Seq(BOOLEAN) /\ Len(polls') = Len(polls) - 1 /\ (Len(polls) > 1 => polls' # <<>>)
  BY <1>1, <1>2, FrontOf, Zenon
<1>4. PICK j \in Jobs : Started("scan", j)
  <2>1. "scan" \in Kinds
    BY DEF Kinds
  <2> QED BY <1>1, <2>1, ScanStarts
<1>5. /\ scan_thread' = j /\ timers' = timers + 1 /\ scan_status' = "started"
      /\ kind' \in [Jobs -> Kinds \cup {"none"}] /\ stage' \in [Jobs -> Stages]
      /\ \A i \in Jobs : kind'[i] = "none" <=> stage'[i] = "unused"
      /\ Cardinality(Unused)' = Cardinality(Unused) - 1 /\ Cardinality(Unused) \in Nat
  BY <1>4 DEF Started
<1>6. ScanCounts'
  <2>1. timers + Len(polls) + Cardinality(Unused) <= MaxJobs
    BY DEF ScanInv, ScanCounts
  <2> QED BY <1>2, <1>3, <1>5, <2>1, ScanConstants DEF ScanCounts
<1>7. TypeOK'
  <2>1. timers' \in 0 .. MaxJobs /\ timers' + Len(polls') <= MaxJobs
    <3>1. timers' \in Nat
      BY <1>2, <1>5
    <3> QED BY <1>3, <1>6, <3>1, ScanBounds
  <2>2. {scan_cancel', box', scan_button', cancel_button', hasty'} \subseteq BOOLEAN
    <3>1. box' \in BOOLEAN /\ hasty \in BOOLEAN
      BY <1>1, ScanTypes
    <3> QED BY <1>1, <3>1, Zenon
  <2>3. box' => polls' # <<>>
    <3>1. box' = (Len(polls) > 1)
      BY <1>1
    <3> QED BY <1>3, <3>1
  <2>4. scan_queue' \in Seq(Notes)
    BY <1>1, <1>2, TakenFrom
  <2> QED BY <1>3, <1>5, <2>1, <2>2, <2>3, <2>4 DEF TypeOK, Stages, Notes
<1>8. ASSUME ~hasty' PROVE InOneHand'
  <2>1. TipAlone /\ LookupsCalm
    BY <1>1, <1>8 DEF ScanInv, InOneHand
  <2>2. /\ scan_queue[1] = "latest" /\ 1 \in DOMAIN scan_queue /\ Waits("latest")
        /\ Len(scan_queue) = 1 => scan_queue' = <<>>
    <3>1. /\ Head(scan_queue) = scan_queue[1] /\ 1 \in DOMAIN scan_queue
          /\ Head(scan_queue) \in ToSet(scan_queue)
          /\ Len(scan_queue) = 1 => Tail(scan_queue) = <<>>
      BY <1>1, <1>2, TakenFrom
    <3> QED BY <1>1, <3>1 DEF Waits
  <2>3. scan_queue' = <<>> /\ \A i \in Jobs : Alive(i) => LookupIsOver(i)
    BY <2>1, <2>2 DEF TipAlone
  <2>4. Len(polls) = 1
    <3>1. Looking
      BY <2>2 DEF Looking
    <3>2. Len(polls) <= 1
      BY <2>1, <3>1 DEF LookupsCalm
    <3>3. \A n \in Nat \ {0} : n <= 1 => n = 1
      OBVIOUS
    <3> QED BY <1>2, <3>2, <3>3, Zenon
  <2>5. polls' = <<>> /\ ~box'
    <3>1. Len(polls') = 0 /\ ~(Len(polls) > 1)
      BY <1>3, <2>4
    <3>2. polls' = <<>>
      BY <1>3, <3>1
    <3>3. ~box'
      BY <1>1, <3>1, Zenon
    <3> QED BY <3>2, <3>3
  <2>6. ~Waits("latest")' /\ "scan" \in Kinds /\ "scan" # "latest"
    BY <2>3 DEF Waits, ToSet, Kinds
  <2> QED BY <1>1, <1>4, <2>3, <2>5, <2>6, StartsAlone
<1>9. InOneHand'
  BY <1>8 DEF InOneHand
<1> QED BY <1>6, <1>7, <1>9 DEF ScanInv

\* A poll that found the thread dead gives the buttons back; one that did not arms the next.
LEMMA ScanPollEnds ==
  ASSUME ScanInv, PollEnds
  PROVE  ScanInv'
<1>1. /\ polls # <<>> /\ ~box /\ scan_queue = <<>>
      /\ polls' = SubSeq(polls, 1, Len(polls) - 1) /\ box' = (Len(polls) > 1)
      /\ IF polls[Len(polls)] THEN timers' = timers + 1 /\ UNCHANGED <<scan_button, cancel_button>>
         ELSE scan_button' = TRUE /\ cancel_button' = FALSE /\ UNCHANGED timers
      /\ UNCHANGED <<kind, stage, scan_thread, scan_queue, scan_cancel, scan_status, hasty>>
  BY DEF PollEnds, Return, ReArm, Draining, Front, Last, buttons, threads
<1>2. polls \in Seq(BOOLEAN) /\ Len(polls) \in Nat \ {0} /\ timers \in Nat
  <2>1. polls \in Seq(BOOLEAN) /\ timers \in Nat
    BY ScanTypes
  <2> QED BY <1>1, <2>1
<1>3. /\ polls' \in Seq(BOOLEAN) /\ Len(polls') = Len(polls) - 1
      /\ DOMAIN polls' \subseteq DOMAIN polls
      /\ \A i \in DOMAIN polls' : polls'[i] = polls[i]
      /\ Len(polls) \in DOMAIN polls
      /\ Len(polls) > 1 => polls' # <<>>
  <2>1. /\ polls' \in Seq(BOOLEAN) /\ Len(polls') = Len(polls) - 1
        /\ \A i \in 1 .. Len(polls) - 1 : polls'[i] = polls[i]
        /\ Len(polls) > 1 => polls' # <<>>
    BY <1>1, <1>2, FrontOf, Zenon
  <2>2. DOMAIN polls = 1 .. Len(polls) /\ DOMAIN polls' = 1 .. Len(polls')
    BY <1>2, <2>1
  <2> QED BY <1>2, <2>1, <2>2
<1>4. timers' \in Nat /\ timers' + Len(polls') <= timers + Len(polls)
  BY <1>1, <1>2, <1>3
<1>5. ScanCounts'
  <2>1. Unused' = Unused /\ Unused \in SUBSET Jobs
    BY <1>1 DEF Unused
  <2>2. Cardinality(Unused) \in Nat
    BY <2>1, JobsCount
  <2>3. timers' + Len(polls') + Cardinality(Unused) <= MaxJobs
    BY <1>2, <1>3, <1>4, <2>2, ScanConstants DEF ScanInv, ScanCounts
  <2> QED BY <2>1, <2>3 DEF ScanCounts
<1>6. TypeOK'
  <2>1. timers' \in 0 .. MaxJobs /\ timers' + Len(polls') <= MaxJobs
    BY <1>3, <1>4, <1>5, ScanBounds
  <2>2. {scan_cancel', box', scan_button', cancel_button', hasty'} \subseteq BOOLEAN
    <3>1. {scan_cancel, scan_button, cancel_button, hasty} \subseteq BOOLEAN
      BY DEF ScanInv, TypeOK
    <3>2. box' \in BOOLEAN
      BY <1>1
    <3>3. scan_button' \in {TRUE, scan_button} /\ cancel_button' \in {FALSE, cancel_button}
      BY <1>1, Zenon
    <3> QED BY <1>1, <3>1, <3>2, <3>3, Zenon
  <2>3. box' => polls' # <<>>
    <3>1. box' = (Len(polls) > 1)
      BY <1>1
    <3> QED BY <1>3, <3>1
  <2> QED BY <1>1, <1>3, <2>1, <2>2, <2>3 DEF ScanInv, TypeOK
<1>7. ASSUME ~hasty' PROVE InOneHand'
  <2>1. /\ Alone /\ TipAlone /\ LookupsCalm /\ DeadPolls
        /\ HasButtons /\ PollToCome /\ AnswerSaid
    BY <1>1, <1>7 DEF ScanInv, InOneHand
  <2>2. /\ Alive(scan_thread)' = Alive(scan_thread)
        /\ \A i \in Jobs : Alive(i)' = Alive(i) /\ LookupIsOver(i)' = LookupIsOver(i)
        /\ ScansAlive' = ScansAlive /\ Looking' = Looking
    BY <1>1 DEF Alive, LookupIsOver, ScansAlive, Looking, Waits
  <2>3. Alone' /\ TipAlone' /\ AnswerSaid'
    BY <1>1, <2>1, <2>2 DEF Alone, TipAlone, AnswerSaid, Waits
  <2>4. LookupsCalm'
    <3> SUFFICES ASSUME Looking' PROVE ~box' /\ Len(polls') <= 1 /\ ~Waits("boxed")'
      BY DEF LookupsCalm
    <3>1. Len(polls) <= 1 /\ ~Waits("boxed")
      BY <2>1, <2>2 DEF LookupsCalm
    <3>2. ~(Len(polls) > 1) /\ Len(polls') <= 1
      BY <1>2, <1>3, <3>1
    <3>3. ~box'
      BY <1>1, <3>2, Zenon
    <3>4. ~Waits("boxed")'
      BY <1>1, <3>1 DEF Waits
    <3> QED BY <3>2, <3>3, <3>4
  <2>5. DeadPolls'
    <3>1. \A i \in DOMAIN polls' : ~polls'[i] => ~Alive(scan_thread)
      BY <1>3, <2>1, Zenon DEF DeadPolls
    <3> QED BY <2>2, <3>1 DEF DeadPolls
  <2>6. Alive(scan_thread) => polls[Len(polls)]
    BY <1>3, <2>1, Zenon DEF DeadPolls
  <2>7. HasButtons'
    <3>1. CASE polls[Len(polls)]
      BY <1>1, <2>1, <2>2, <3>1 DEF HasButtons
    <3>2. CASE ~polls[Len(polls)]
      <4>1. ScansAlive = {}
        BY <2>1, <2>6, <3>2 DEF Alone, ScansAlive, LookupIsOver
      <4> QED BY <2>2, <4>1 DEF HasButtons
    <3> QED BY <3>1, <3>2
  <2>8. PollToCome'
    BY <1>1, <1>2, <2>2, <2>6 DEF PollToCome
  <2> QED BY <2>3, <2>4, <2>5, <2>7, <2>8 DEF InOneHand
<1>8. InOneHand'
  BY <1>7 DEF InOneHand
<1> QED BY <1>5, <1>6, <1>8 DEF ScanInv

\* A poll that begins knows whether the thread lives.
LEMMA ScanPollBegins ==
  ASSUME ScanInv, PollBegins
  PROVE  ScanInv'
<1>1. /\ timers > 0 /\ (polls = <<>> \/ box) /\ timers' = timers - 1
      /\ polls' = Append(polls, Alive(scan_thread)) /\ box' = FALSE
      /\ UNCHANGED <<kind, stage, scan_thread, scan_queue, scan_cancel, scan_button, cancel_button,
                     scan_status, hasty>>
  BY DEF PollBegins, BeginPoll, threads, buttons
<1>2. polls \in Seq(BOOLEAN) /\ Len(polls) \in Nat /\ timers \in Nat /\ Alive(scan_thread) \in BOOLEAN
  BY ScanTypes DEF Alive
<1>3. /\ polls' \in Seq(BOOLEAN) /\ Len(polls') = Len(polls) + 1 /\ polls' # <<>>
      /\ \A i \in DOMAIN polls : polls'[i] = polls[i]
      /\ polls'[Len(polls) + 1] = Alive(scan_thread)
      /\ DOMAIN polls' = DOMAIN polls \cup {Len(polls) + 1}
  BY <1>1, <1>2
<1>4. timers' \in Nat /\ timers' + Len(polls') = timers + Len(polls)
  BY <1>1, <1>2, <1>3
<1>5. ScanCounts'
  <2>1. Unused' = Unused
    BY <1>1 DEF Unused
  <2> QED BY <1>4, <2>1 DEF ScanInv, ScanCounts
<1>6. TypeOK'
  <2>1. timers' \in 0 .. MaxJobs /\ timers' + Len(polls') <= MaxJobs
    BY <1>3, <1>4, <1>5, ScanBounds
  <2>2. {scan_cancel', box', scan_button', cancel_button', hasty'} \subseteq BOOLEAN
    BY <1>1 DEF ScanInv, TypeOK
  <2> QED BY <1>1, <1>3, <2>1, <2>2 DEF ScanInv, TypeOK
<1>7. ASSUME ~hasty' PROVE InOneHand'
  <2>1. /\ Alone /\ TipAlone /\ LookupsCalm /\ DeadPolls
        /\ HasButtons /\ PollToCome /\ AnswerSaid
    BY <1>1, <1>7 DEF ScanInv, InOneHand
  <2>2. /\ Alive(scan_thread)' = Alive(scan_thread)
        /\ \A i \in Jobs : Alive(i)' = Alive(i) /\ LookupIsOver(i)' = LookupIsOver(i)
        /\ ScansAlive' = ScansAlive /\ Looking' = Looking
    BY <1>1 DEF Alive, LookupIsOver, ScansAlive, Looking, Waits
  <2>3. Alone' /\ TipAlone' /\ AnswerSaid' /\ HasButtons'
    BY <1>1, <2>1, <2>2 DEF Alone, TipAlone, AnswerSaid, HasButtons, Waits
  <2>4. LookupsCalm'
    <3> SUFFICES ASSUME Looking' PROVE ~box' /\ Len(polls') <= 1 /\ ~Waits("boxed")'
      BY DEF LookupsCalm
    <3>1. ~box /\ ~Waits("boxed")
      BY <2>1, <2>2 DEF LookupsCalm
    <3>2. Len(polls) = 0
      BY <1>1, <3>1
    <3> QED BY <1>1, <1>3, <3>1, <3>2 DEF Waits
  <2>5. DeadPolls'
    <3>1. \A i \in DOMAIN polls' : ~polls'[i] => ~Alive(scan_thread)
      BY <1>3, <2>1, Zenon DEF DeadPolls
    <3> QED BY <2>2, <3>1 DEF DeadPolls
  <2>6. PollToCome'
    BY <1>3 DEF PollToCome
  <2> QED BY <2>3, <2>4, <2>5, <2>6 DEF InOneHand
<1>8. InOneHand'
  BY <1>7 DEF InOneHand
<1> QED BY <1>5, <1>6, <1>8 DEF ScanInv

\* Taking a report, closing its box, cancelling, importing: no thread, poll or button changes.
LEMMA ScanReports ==
  ASSUME ScanInv, ClickCancel \/ ClickImport \/ TakeReport \/ CloseBox
  PROVE  ScanInv'
<1>1. /\ UNCHANGED <<kind, stage, scan_thread, timers, polls, scan_button, cancel_button, hasty>>
      /\ \/ /\ scan_cancel' = TRUE /\ scan_status' = "cancelling"
            /\ UNCHANGED <<scan_queue, box>>
         \/ /\ scan_status' = "imported"
            /\ UNCHANGED <<scan_queue, scan_cancel, box>>
         \/ /\ polls # <<>> /\ scan_queue # <<>> /\ Head(scan_queue) # "latest"
            /\ scan_queue' = Tail(scan_queue) /\ box' = (Head(scan_queue) = "boxed")
            /\ scan_status' = (IF Head(scan_queue) = "progress" THEN "progress" ELSE "answer")
            /\ UNCHANGED scan_cancel
         \/ /\ box' = FALSE
            /\ UNCHANGED <<scan_queue, scan_cancel, scan_status>>
  BY DEF ClickCancel, ClickImport, TakeReport, CloseBox, Draining, threads, buttons, poll
<1>2. /\ scan_queue \in Seq(Notes) /\ Len(scan_queue) \in Nat
      /\ {scan_cancel, box, scan_button, cancel_button, hasty} \subseteq BOOLEAN
      /\ scan_status \in Words /\ (box => polls # <<>>)
  <2>1. scan_queue \in Seq(Notes)
    BY ScanTypes
  <2> QED BY <2>1, ScanTypes
<1>3. /\ scan_queue' \in Seq(Notes) /\ ToSet(scan_queue') \subseteq ToSet(scan_queue)
      /\ \/ UNCHANGED scan_queue
         \/ /\ scan_queue # <<>> /\ Head(scan_queue) \in ToSet(scan_queue)
            /\ scan_queue' # <<>> => scan_queue'[Len(scan_queue')] = scan_queue[Len(scan_queue)]
            /\ scan_queue' = <<>> => Head(scan_queue) = scan_queue[Len(scan_queue)]
            /\ Len(scan_queue') = Len(scan_queue) - 1
            /\ \A i \in DOMAIN scan_queue' :
                 i + 1 \in DOMAIN scan_queue /\ scan_queue'[i] = scan_queue[i + 1]
  <2>1. CASE UNCHANGED scan_queue
    BY <1>2, <2>1
  <2>2. CASE scan_queue # <<>> /\ scan_queue' = Tail(scan_queue)
    <3>1. /\ Tail(scan_queue) \in Seq(Notes) /\ Head(scan_queue) = scan_queue[1]
          /\ \A i \in DOMAIN Tail(scan_queue) :
               i + 1 \in DOMAIN scan_queue /\ Tail(scan_queue)[i] = scan_queue[i + 1]
          /\ ToSet(Tail(scan_queue)) \subseteq ToSet(scan_queue)
          /\ Head(scan_queue) \in ToSet(scan_queue)
          /\ Len(Tail(scan_queue)) = Len(scan_queue) - 1
          /\ Tail(scan_queue) = <<>> => Len(scan_queue) = 1
          /\ Tail(scan_queue) # <<>>
               => Tail(scan_queue)[Len(Tail(scan_queue))] = scan_queue[Len(scan_queue)]
      BY <1>2, <2>2, TakenFrom
    <3> QED BY <2>2, <3>1
  <2> QED BY <1>1, <2>1, <2>2
<1>4. ScanCounts'
  <2>1. Unused' = Unused
    BY <1>1 DEF Unused
  <2> QED BY <1>1, <2>1 DEF ScanInv, ScanCounts
<1>5. TypeOK'
  <2>1. {scan_cancel', box', scan_button', cancel_button', hasty'} \subseteq BOOLEAN
    <3>1. scan_cancel' \in BOOLEAN /\ box' \in BOOLEAN
      BY <1>1, <1>2
    <3> QED BY <1>1, <1>2, <3>1, Zenon
  <2>2. scan_status' \in Words /\ (box' => polls' # <<>>)
    BY <1>1, <1>2 DEF Words
  <2> QED BY <1>1, <1>3, <2>1, <2>2 DEF ScanInv, TypeOK, Notes, Words
<1>6. ASSUME ~hasty' PROVE InOneHand'
  <2>1. /\ Alone /\ TipAlone /\ LookupsCalm /\ DeadPolls
        /\ HasButtons /\ PollToCome /\ AnswerSaid
    BY <1>1, <1>6 DEF ScanInv, InOneHand
  <2>2. /\ Alive(scan_thread)' = Alive(scan_thread)
        /\ \A i \in Jobs : Alive(i)' = Alive(i) /\ LookupIsOver(i)' = LookupIsOver(i)
        /\ ScansAlive' = ScansAlive
        /\ \A m : Waits(m)' => Waits(m)
    BY <1>1, <1>3 DEF Alive, LookupIsOver, ScansAlive, Waits
  <2>3. Looking' => Looking
    BY <1>1, <2>2 DEF Looking
  <2>4. Alone' /\ DeadPolls' /\ HasButtons'
    BY <1>1, <2>1, <2>2 DEF Alone, DeadPolls, HasButtons
  <2>5. TipAlone'
    <3>1. \A i \in DOMAIN scan_queue' : scan_queue'[i] = "latest" => i = Len(scan_queue')
      <4>1. CASE UNCHANGED scan_queue
        BY <2>1, <4>1 DEF TipAlone
      <4>2. ASSUME Len(scan_queue') = Len(scan_queue) - 1,
                   \A i \in DOMAIN scan_queue' :
                     i + 1 \in DOMAIN scan_queue /\ scan_queue'[i] = scan_queue[i + 1],
                   NEW i \in DOMAIN scan_queue', scan_queue'[i] = "latest"
            PROVE  i = Len(scan_queue')
        <5>1. i + 1 = Len(scan_queue) /\ i \in Nat
          BY <1>3, <2>1, <4>2 DEF TipAlone
        <5> QED BY <1>2, <4>2, <5>1
      <4> QED BY <1>3, <4>1, <4>2
    <3> QED BY <2>1, <2>2, <3>1 DEF TipAlone
  <2>6. LookupsCalm'
    <3> SUFFICES ASSUME Looking' PROVE ~box' /\ Len(polls') <= 1 /\ ~Waits("boxed")'
      BY DEF LookupsCalm
    <3>1. ~box /\ Len(polls) <= 1 /\ ~Waits("boxed")
      BY <2>1, <2>3 DEF LookupsCalm
    <3>2. ~box'
      <4>1. Head(scan_queue) \in ToSet(scan_queue) => Head(scan_queue) # "boxed"
        BY <3>1, Zenon DEF Waits
      <4>2. scan_queue # <<>> => Head(scan_queue) \in ToSet(scan_queue)
        BY <1>2, TakenFrom
      <4> QED BY <1>1, <3>1, <4>1, <4>2, Zenon
    <3> QED BY <1>1, <2>2, <3>1, <3>2
  <2>7. PollToCome'
    BY <1>1, <1>3, <2>1, <2>2 DEF PollToCome
  <2>8. AnswerSaid'
    BY <1>1, <1>3, <2>1 DEF AnswerSaid
  <2> QED BY <2>4, <2>5, <2>6, <2>7, <2>8 DEF InOneHand
<1>7. InOneHand'
  BY <1>6 DEF InOneHand
<1> QED BY <1>4, <1>5, <1>7 DEF ScanInv

\* A thread ends, with or without an answer.
LEMMA ScanEnds ==
  ASSUME ScanInv, NEW j \in Jobs, ThreadEnds(j) \/ DieSilently(j)
  PROVE  ScanInv'
<1>1. /\ UNCHANGED <<kind, scan_thread, scan_queue, scan_cancel, timers, polls, box, scan_button,
                     cancel_button, scan_status, hasty>>
      /\ \/ stage[j] = "posted" /\ stage' = [stage EXCEPT ![j] = "dead"]
         \/ stage[j] = "running" /\ stage' = [stage EXCEPT ![j] = "lost"]
  BY DEF ThreadEnds, DieSilently, poll, buttons
<1>2. /\ stage' \in [Jobs -> Stages] /\ stage'[j] \in {"dead", "lost"}
      /\ stage'[j] = "dead" => stage[j] = "posted"
      /\ stage[j] # "unused"
      /\ \A i \in Jobs \ {j} : stage'[i] = stage[i]
  BY <1>1, ScanTypes DEF Stages
<1>3. ScanCounts'
  <2>1. Unused' = Unused
    BY <1>2 DEF Unused
  <2> QED BY <1>1, <2>1 DEF ScanInv, ScanCounts
<1>4. TypeOK'
  <2>1. \A i \in Jobs : kind'[i] = "none" <=> stage'[i] = "unused"
    BY <1>1, <1>2 DEF ScanInv, TypeOK
  <2>2. {scan_cancel', box', scan_button', cancel_button', hasty'} \subseteq BOOLEAN
    BY <1>1 DEF ScanInv, TypeOK
  <2> QED BY <1>1, <1>2, <2>1, <2>2 DEF ScanInv, TypeOK, Stages
<1>5. ASSUME ~hasty' PROVE InOneHand'
  <2>1. /\ Alone /\ TipAlone /\ LookupsCalm /\ DeadPolls
        /\ HasButtons /\ PollToCome /\ AnswerSaid
    BY <1>1, <1>5 DEF ScanInv, InOneHand
  <2>2. \A i \in Jobs : /\ Alive(i)' => Alive(i) /\ i # j
                        /\ i # j => (LookupIsOver(i)' <=> LookupIsOver(i))
    BY <1>1, <1>2 DEF Alive, LookupIsOver
  <2>3. Alive(scan_thread)' => Alive(scan_thread)
    BY <1>1, <2>2, ScanTypes DEF Alive
  <2>4. ScansAlive' \subseteq ScansAlive /\ (Looking' => Looking) /\ \A m : Waits(m)' = Waits(m)
    BY <1>1, <1>2, <2>2 DEF ScansAlive, Looking, Waits
  <2>5. Alone' /\ TipAlone'
    BY <1>1, <2>1, <2>2, <2>4 DEF Alone, TipAlone
  <2>6. LookupsCalm' /\ DeadPolls' /\ HasButtons' /\ PollToCome'
    BY <1>1, <2>1, <2>3, <2>4 DEF LookupsCalm, DeadPolls, HasButtons, PollToCome
  <2>7. AnswerSaid'
    BY <1>1, <1>2, <2>1, ScanTypes DEF AnswerSaid
  <2> QED BY <2>5, <2>6, <2>7 DEF InOneHand
<1>6. InOneHand'
  BY <1>5 DEF InOneHand
<1> QED BY <1>3, <1>4, <1>6 DEF ScanInv

\* A thread at work posts: progress, or its one answer.
LEMMA ScanPosts ==
  ASSUME ScanInv, NEW j \in Jobs, PostAnswer(j) \/ PostError(j) \/ PostProgress(j)
  PROVE  ScanInv'
<1>1. /\ UNCHANGED <<kind, scan_thread, scan_cancel, timers, polls, box, scan_button,
                     cancel_button, scan_status, hasty>>
      /\ stage[j] = "running"
      /\ \E m \in Notes :
           /\ scan_queue' = Append(scan_queue, m)
           /\ IF m = "progress" THEN stage' = stage ELSE stage' = [stage EXCEPT ![j] = "posted"]
           /\ m = "latest" => kind[j] = "latest"
           /\ m = "boxed" => stage'[j] # "running"
  <2>1. /\ kind[j] \in Kinds \cup {"none"} /\ (kind[j] = "none" <=> stage[j] = "unused")
        /\ stage \in [Jobs -> Stages]
    BY ScanTypes
  <2>2. CASE PostAnswer(j)
    <3>1. kind[j] \in Kinds /\ stage[j] = "running"
      BY <2>1, <2>2 DEF PostAnswer
    <3>2. /\ Answers(kind[j]) \subseteq AnswerKinds
          /\ "latest" \in Answers(kind[j]) => kind[j] = "latest"
      BY <3>1 DEF Answers, Kinds, AnswerKinds
    <3>3. PICK m \in Answers(kind[j]) : scan_queue' = Append(scan_queue, m)
      BY <2>2 DEF PostAnswer
    <3>4. stage' = [stage EXCEPT ![j] = "posted"]
      BY <2>2 DEF PostAnswer, Posted
    <3>5. stage'[j] # "running" /\ m \in Notes /\ m # "progress"
      BY <2>1, <3>2, <3>4 DEF Notes, AnswerKinds
    <3>6. UNCHANGED <<kind, scan_thread, scan_cancel, timers, polls, box, scan_button,
                      cancel_button, scan_status, hasty>>
      BY <2>2 DEF PostAnswer, Posted, poll, buttons
    <3> QED BY <3>1, <3>2, <3>3, <3>4, <3>5, <3>6
  <2>3. CASE PostError(j)
    <3>1. /\ scan_queue' = Append(scan_queue, "boxed") /\ stage' = [stage EXCEPT ![j] = "posted"]
          /\ stage[j] = "running"
          /\ UNCHANGED <<kind, scan_thread, scan_cancel, timers, polls, box, scan_button,
                         cancel_button, scan_status, hasty>>
      BY <2>3 DEF PostError, Posted, poll, buttons
    <3>2. stage'[j] # "running" /\ "boxed" \in Notes
      BY <2>1, <3>1 DEF Notes, AnswerKinds
    <3> QED BY <3>1, <3>2
  <2>4. CASE PostProgress(j)
    <3>1. "progress" \in Notes
      BY DEF Notes
    <3> QED BY <2>4, <3>1 DEF PostProgress, threads, poll, buttons
  <2> QED BY <2>2, <2>3, <2>4
<1>2. PICK m \in Notes :
        /\ scan_queue' = Append(scan_queue, m)
        /\ IF m = "progress" THEN stage' = stage ELSE stage' = [stage EXCEPT ![j] = "posted"]
        /\ m = "latest" => kind[j] = "latest"
        /\ m = "boxed" => stage'[j] # "running"
  BY <1>1
<1>3. scan_queue \in Seq(Notes) /\ stage \in [Jobs -> Stages]
  BY ScanTypes
<1>4. /\ scan_queue' \in Seq(Notes) /\ scan_queue' # <<>> /\ Len(scan_queue) \in Nat
      /\ Len(scan_queue') = Len(scan_queue) + 1 /\ scan_queue'[Len(scan_queue')] = m
      /\ \A i \in DOMAIN scan_queue : scan_queue'[i] = scan_queue[i]
      /\ DOMAIN scan_queue' = DOMAIN scan_queue \cup {Len(scan_queue) + 1}
      /\ ToSet(scan_queue') = ToSet(scan_queue) \cup {m}
  BY <1>2, <1>3, AddedTo
<1>5. /\ stage' \in [Jobs -> Stages] /\ stage'[j] = (IF m = "progress" THEN "running" ELSE "posted")
      /\ \A i \in Jobs \ {j} : stage'[i] = stage[i]
  BY <1>1, <1>2, <1>3 DEF Stages
<1>6. ScanCounts'
  <2>1. Unused' = Unused
    BY <1>1, <1>5 DEF Unused
  <2> QED BY <1>1, <2>1 DEF ScanInv, ScanCounts
<1>7. TypeOK'
  <2>1. \A i \in Jobs : kind'[i] = "none" <=> stage'[i] = "unused"
    BY <1>1, <1>5 DEF ScanInv, TypeOK
  <2>2. {scan_cancel', box', scan_button', cancel_button', hasty'} \subseteq BOOLEAN
    BY <1>1 DEF ScanInv, TypeOK
  <2> QED BY <1>1, <1>4, <1>5, <2>1, <2>2 DEF ScanInv, TypeOK, Stages, Notes
<1>8. ASSUME ~hasty' PROVE InOneHand'
  <2>1. /\ Alone /\ TipAlone /\ LookupsCalm /\ DeadPolls
        /\ HasButtons /\ PollToCome /\ AnswerSaid
    BY <1>1, <1>8 DEF ScanInv, InOneHand
  <2>2. /\ \A i \in Jobs : Alive(i)' <=> Alive(i)
        /\ \A i \in Jobs \ {j} : LookupIsOver(i)' <=> LookupIsOver(i)
        /\ Alive(j) /\ ~LookupIsOver(j) /\ j # NoThread
    BY <1>1, <1>5, ScanConstants DEF Alive, LookupIsOver
  <2>3. j = scan_thread /\ ~Waits("latest")
    BY <2>1, <2>2 DEF Alone, TipAlone
  <2>4. Alive(scan_thread)' <=> Alive(scan_thread)
    BY <1>1, <2>2, <2>3
  <2>5. ScansAlive' = ScansAlive /\ \A n : Waits(n)' <=> Waits(n) \/ n = m
    BY <1>1, <1>4, <2>2 DEF ScansAlive, Waits
  <2>6. Alone' /\ DeadPolls' /\ HasButtons' /\ PollToCome'
    BY <1>1, <2>1, <2>2, <2>3, <2>4, <2>5 DEF Alone, DeadPolls, HasButtons, PollToCome
  <2>7. TipAlone'
    <3>1. \A i \in DOMAIN scan_queue' : scan_queue'[i] = "latest" => i = Len(scan_queue')
      BY <1>4, <2>3 DEF Waits, ToSet
    <3>2. Waits("latest")' => m = "latest"
      BY <2>3, <2>5
    <3>3. m = "latest" => LookupIsOver(j)'
      BY <1>1, <1>2, <1>5 DEF LookupIsOver
    <3>4. \A i \in Jobs \ {j} : Alive(i)' => LookupIsOver(i)'
      BY <2>1, <2>2, <2>3 DEF Alone
    <3> QED BY <3>1, <3>2, <3>3, <3>4 DEF TipAlone
  <2>8. LookupsCalm'
    <3> SUFFICES ASSUME Looking' PROVE ~box' /\ Len(polls') <= 1 /\ ~Waits("boxed")'
      BY DEF LookupsCalm
    <3>1. kind[j] = "latest" /\ m # "boxed"
      <4>1. CASE \E i \in Jobs : kind'[i] = "latest" /\ stage'[i] = "running"
        <5>1. PICK i \in Jobs : kind'[i] = "latest" /\ stage'[i] = "running"
          BY <4>1
        <5>2. Alive(i)' /\ ~LookupIsOver(i)'
          BY <5>1, ScanConstants DEF Alive, LookupIsOver
        <5>3. i = j
          BY <1>1, <2>3, <2>6, <5>2 DEF Alone
        <5> QED BY <1>1, <1>2, <5>1, <5>3
      <4>2. CASE Waits("latest")'
        BY <1>2, <2>3, <2>5, <4>2
      <4> QED BY <4>1, <4>2 DEF Looking
    <3>2. ~box /\ Len(polls) <= 1 /\ ~Waits("boxed")
      BY <1>1, <2>1, <3>1 DEF LookupsCalm, Looking
    <3> QED BY <1>1, <2>5, <3>1, <3>2
  <2>9. AnswerSaid'
    BY <1>1, <1>4, <1>5, <2>3 DEF AnswerSaid
  <2> QED BY <2>6, <2>7, <2>8, <2>9 DEF InOneHand
<1>9. InOneHand'
  BY <1>8 DEF InOneHand
<1> QED BY <1>6, <1>7, <1>9 DEF ScanInv

----------------------------------------------------------------------------
(* The build workspace's lock.                                             *)

\* Every step of a desk keeps the invariant of both desks.
LEMMA JobsKept ==
  ASSUME JobInv, Build!Next \/ Mine!Next
  PROVE  JobInv'
<1>1. CASE Build!Click \/ Mine!Click
  BY <1>1, JobClicks
<1>2. CASE Build!ClickCancel \/ Mine!ClickCancel
  BY <1>2, JobCancels
<1>3. CASE Build!Poll \/ Mine!Poll
  BY <1>3, JobPollBegins, JobReports, JobBoxCloses, JobPollEnds DEF Build!Poll, Mine!Poll
<1>4. ASSUME NEW j \in 1 .. MaxBuilds,
             \/ Build!Worker(j) \/ Build!PostProgress(j) \/ Build!DieSilently(j)
             \/ Mine!Worker(j) \/ Mine!PostProgress(j) \/ Mine!DieSilently(j)
      PROVE  JobInv'
  BY <1>4, JobPosts, JobProgresses, JobEnds DEF Build!Worker, Mine!Worker
<1> QED BY <1>1, <1>2, <1>3, <1>4 DEF Build!Next, Mine!Next, Build!Jobs, Mine!Jobs

\* With the lock no job starts before the report of the last one was shown.
LEMMA LockKept ==
  ASSUME JobInv, Locked, Build!Next
  PROVE  Locked' /\ job_thread \in Nat /\ job_thread' \in {job_thread, job_thread + 1}
<1>1. /\ job_thread \in Nat /\ job_queue \in Seq(Messages)
  BY JobConstants DEF JobInv, Build!TypeOK, Build!Jobs, Build!NoJob, Messages
<1> HIDE DEF Messages
<1>2. CASE Build!Click
  <2>1. /\ job_start_button /\ job_start_button' = FALSE /\ job_thread' = job_thread + 1
        /\ job_status' = [job |-> job_thread', what |-> "running"] /\ job_queue' = job_queue
    BY <1>2 DEF Build!Click, Build!Says, Build!Message
  <2>2. job_queue = <<>>
    BY <2>1 DEF Locked
  <2> QED BY <1>1, <2>1, <2>2 DEF Locked
<1>3. CASE Build!ClickCancel
  <2>1. /\ job_status' = [job |-> job_thread, what |-> "cancelling"]
        /\ UNCHANGED <<job_stage, job_thread, job_queue, job_start_button>>
    BY <1>3 DEF Build!ClickCancel, Build!Says, Build!Message, Build!poll, Build!buttons
  <2> QED BY <1>1, <2>1 DEF Locked, Build!Alive
<1>4. CASE Build!PollBegins \/ Build!CloseBox
  <2>1. UNCHANGED <<job_stage, job_thread, job_queue, job_start_button, job_status>>
    BY <1>4 DEF Build!PollBegins, Build!CloseBox, Build!poll, Build!buttons
  <2> QED BY <1>1, <2>1 DEF Locked, Build!Alive
<1>5. CASE Build!TakeReport
  <2>1. /\ job_queue # <<>> /\ job_queue' = Tail(job_queue)
        /\ job_status' = Head(job_queue)
        /\ UNCHANGED <<job_thread, job_start_button>>
    BY <1>5 DEF Build!TakeReport, Build!buttons
  <2>2. /\ Head(job_queue) = job_queue[1] /\ 1 \in DOMAIN job_queue
        /\ \A i \in DOMAIN job_queue' : i + 1 \in DOMAIN job_queue /\ job_queue'[i] = job_queue[i + 1]
    BY <1>1, <2>1
  <2> QED BY <1>1, <2>1, <2>2 DEF Locked
<1>6. CASE Build!PollEnds
  <2>1. /\ job_queue = <<>> /\ (job_start_button' => job_start_button \/ ~Build!Alive(job_thread))
        /\ UNCHANGED <<job_stage, job_thread, job_queue, job_status>>
    BY <1>6, JobPollEnds
  <2> QED BY <1>1, <2>1 DEF Locked, Build!Alive
<1>7. ASSUME NEW j \in 1 .. MaxBuilds,
             Build!StopsAtCheckpoint(j) \/ Build!WorkEnds(j) \/ Build!PostProgress(j)
      PROVE  Locked' /\ job_thread' = job_thread
  <2>1. /\ Build!Alive(job_thread)
        /\ \A i \in DOMAIN job_queue' :
             job_queue'[i].job = job_thread
             \/ \E k \in DOMAIN job_queue : job_queue'[i] = job_queue[k]
        /\ UNCHANGED <<job_thread, job_start_button, job_status>>
    BY <1>7, JobPosts, JobProgresses
  <2>2. ~job_start_button
    BY <2>1 DEF Locked
  <2>3. \A i \in DOMAIN job_queue' : job_queue'[i].job = job_thread
    BY <2>1 DEF Locked
  <2> QED BY <2>1, <2>2, <2>3 DEF Locked
<1>8. ASSUME NEW j \in 1 .. MaxBuilds, Build!ThreadEnds(j) \/ Build!DieSilently(j)
      PROVE  Locked' /\ job_thread' = job_thread
  <2>1. /\ ~Build!Alive(job_thread)'
        /\ UNCHANGED <<job_thread, job_queue, job_start_button, job_status>>
    BY <1>8, JobEnds
  <2> QED BY <2>1 DEF Locked
<1> QED BY <1>1, <1>2, <1>3, <1>4, <1>5, <1>6, <1>7, <1>8
        DEF Build!Next, Build!Poll, Build!Worker, Build!Jobs

----------------------------------------------------------------------------
(* The theorems.                                                           *)

WorkspacesInv == ScanInv /\ JobInv /\ (workspace = "build" => Locked)

\* A desk that nobody touches stays as it is.
LEMMA DesksRest ==
  /\ ScanInv /\ UNCHANGED vars => ScanInv'
  /\ JobInv /\ UNCHANGED job_vars => JobInv'
  /\ Locked /\ UNCHANGED job_vars => Locked'
<1>1. ASSUME ScanInv, UNCHANGED vars PROVE ScanInv'
  <2>1. UNCHANGED <<kind, stage, scan_thread, scan_queue, scan_cancel, timers, polls, box,
                    scan_button, cancel_button, scan_status, hasty>>
    BY <1>1 DEF vars, threads, poll, buttons
  <2>2. TypeOK'
    BY <1>1, <2>1 DEF ScanInv, TypeOK
  <2>3. ScanCounts'
    <3>1. Unused' = Unused
      BY <2>1 DEF Unused
    <3> QED BY <1>1, <2>1, <3>1 DEF ScanInv, ScanCounts
  <2>4. InOneHand'
    <3>1. InOneHand
      BY <1>1 DEF ScanInv
    <3> QED BY <2>1, <3>1, Zenon
            DEF InOneHand, Alone, TipAlone, LookupsCalm, DeadPolls, HasButtons, PollToCome, AnswerSaid,
                Alive, LookupIsOver, ScansAlive, Looking, Waits
  <2> QED BY <2>2, <2>3, <2>4 DEF ScanInv
<1>2. ASSUME JobInv, UNCHANGED job_vars PROVE JobInv'
  <2>1. Build!TypeOK'
    BY <1>2 DEF JobInv, Build!TypeOK, job_vars
  <2>2. JobsInTurn' /\ ReportsInTurn' /\ Cancelled' /\ Told'
    BY <1>2 DEF JobInv, JobsInTurn, ReportsInTurn, Cancelled, Told, job_vars
  <2>3. Polled' /\ Cancellable'
    BY <1>2 DEF JobInv, Polled, Cancellable, Build!Alive, job_vars
  <2> QED BY <2>1, <2>2, <2>3 DEF JobInv
<1>3. ASSUME Locked, UNCHANGED job_vars PROVE Locked'
  BY <1>3 DEF Locked, Build!Alive, job_vars
<1> QED BY <1>1, <1>2, <1>3

\* Every step of the corpus workspace keeps its invariant.
LEMMA ScanKept ==
  ASSUME ScanInv, Next
  PROVE  ScanInv'
<1>1. CASE Click
  BY <1>1, ScanClicks, ScanReports DEF Click
<1>2. CASE Poll
  BY <1>2, ScanPollBegins, ScanReports, ScanTakesLatest, ScanPollEnds DEF Poll
<1>3. ASSUME NEW j \in Jobs, Worker(j) \/ PostProgress(j) \/ DieSilently(j) PROVE ScanInv'
  BY <1>3, ScanPosts, ScanEnds DEF Worker
<1> QED BY <1>1, <1>2, <1>3 DEF Next

\* Initially nothing runs.
LEMMA WorkspacesInitial == WorkspacesInit => WorkspacesInv
<1> SUFFICES ASSUME WorkspacesInit PROVE WorkspacesInv
  OBVIOUS
<1>1. TypeOK
  <2>1. {scan_cancel, box, scan_button, cancel_button, hasty} \subseteq BOOLEAN
    BY Zenon DEF WorkspacesInit, Init
  <2>2. timers = 0 /\ Len(polls) = 0 /\ polls \in Seq(BOOLEAN) /\ box = FALSE
    BY DEF WorkspacesInit, Init
  <2>3. scan_queue \in Seq(AnswerKinds \cup {"progress"}) /\ scan_status \in Words
    BY DEF WorkspacesInit, Init, Words
  <2>4. timers \in 0 .. MaxJobs /\ timers + Len(polls) <= MaxJobs
    BY <2>2, ScanConstants
  <2>5. /\ kind \in [Jobs -> Kinds \cup {"none"}]
        /\ stage \in [Jobs -> Stages]
        /\ \A j \in Jobs : kind[j] = "none" <=> stage[j] = "unused"
        /\ scan_thread \in Jobs \cup {NoThread}
    BY DEF WorkspacesInit, Init, Stages
  <2> QED BY <2>1, <2>2, <2>3, <2>4, <2>5 DEF TypeOK, Stages, Words
<1>2. ScanCounts
  <2>1. Unused = Jobs
    BY DEF WorkspacesInit, Init, Unused
  <2>2. Cardinality(Jobs) = MaxJobs
    BY FS_Interval, ScanConstants DEF Jobs
  <2> QED BY <2>1, <2>2, ScanConstants DEF WorkspacesInit, Init, ScanCounts
<1>3. InOneHand
  <2>1. /\ scan_thread = NoThread /\ scan_queue = <<>> /\ polls = <<>> /\ box = FALSE
        /\ \A j \in Jobs : stage[j] = "unused"
    BY DEF WorkspacesInit, Init
  <2>2. Alone /\ DeadPolls /\ HasButtons /\ PollToCome /\ AnswerSaid
    BY <2>1 DEF Alone, DeadPolls, HasButtons, PollToCome, AnswerSaid, Alive, ScansAlive
  <2>3. ~Waits("latest") /\ ~Looking
    BY <2>1 DEF Looking, Waits, ToSet
  <2>4. TipAlone /\ LookupsCalm
    BY <2>1, <2>3 DEF TipAlone, LookupsCalm
  <2> QED BY <2>2, <2>4 DEF InOneHand
<1>4. Build!TypeOK
  <2>1. {job_cancel, job_box, job_start_button, job_cancel_button} \subseteq BOOLEAN
    BY Zenon DEF WorkspacesInit, Build!Init
  <2>2. job_timers = 0 /\ Len(job_polls) = 0 /\ job_polls \in Seq(BOOLEAN) /\ job_box = FALSE
    BY DEF WorkspacesInit, Build!Init
  <2>3. job_queue \in Seq(Messages)
    BY DEF WorkspacesInit, Build!Init
  <2>4. job_timers \in 0 .. MaxBuilds /\ job_timers + Len(job_polls) <= MaxBuilds
    BY <2>2, JobConstants
  <2>5. /\ job_stage \in [1 .. MaxBuilds -> {"unused", "running", "posted", "dead"}]
        /\ job_outcome \in [1 .. MaxBuilds -> Build!Outcomes \cup {"none"}]
        /\ job_thread = 0 /\ job_asked = {}
    BY DEF WorkspacesInit, Build!Init, Build!Jobs, Build!NoJob
  <2>6. job_status \in Saying
    BY DEF WorkspacesInit, Build!Init, Build!NoJob, Saying
  <2> QED BY <2>1, <2>2, <2>3, <2>4, <2>5, <2>6
          DEF Build!TypeOK, Build!Jobs, Build!NoJob, Messages, Saying
<1>5. JobsInTurn /\ ReportsInTurn /\ Polled /\ Cancelled /\ Cancellable /\ Told /\ Locked
  BY JobConstants DEF WorkspacesInit, Build!Init, Build!Jobs, Build!NoJob, Build!Alive,
     JobsInTurn, ReportsInTurn, Polled, Cancelled, Cancellable, Told, Locked
<1> QED BY <1>1, <1>2, <1>3, <1>4, <1>5 DEF WorkspacesInv, ScanInv, JobInv

\* Every step keeps the invariant.
LEMMA WorkspacesKept == WorkspacesInv /\ [WorkspacesNext]_all_vars => WorkspacesInv'
<1> SUFFICES ASSUME WorkspacesInv, [WorkspacesNext]_all_vars PROVE WorkspacesInv'
  OBVIOUS
<1>1. ScanInv /\ JobInv /\ (workspace = "build" => Locked)
  BY DEF WorkspacesInv
<1>2. CASE InCorpus(Next)
  <2>1. workspace' # "build" /\ Next /\ UNCHANGED job_vars
    BY <1>2 DEF InCorpus
  <2> QED BY <1>1, <2>1, ScanKept, DesksRest DEF WorkspacesInv
<1>3. CASE InBuild(Build!Next)
  <2>1. workspace = "build" /\ Build!Next /\ UNCHANGED vars
    BY <1>3 DEF InBuild
  <2> QED BY <1>1, <2>1, JobsKept, LockKept, DesksRest DEF WorkspacesInv
<1>4. CASE InMine(Mine!Next)
  <2>1. workspace' # "build" /\ Mine!Next /\ UNCHANGED vars
    BY <1>4 DEF InMine
  <2> QED BY <1>1, <2>1, JobsKept, DesksRest DEF WorkspacesInv
<1>5. CASE InMix(Mix!Next) \/ UNCHANGED all_vars
  <2>1. workspace' = workspace /\ UNCHANGED vars /\ UNCHANGED job_vars
    BY <1>5 DEF InMix, all_vars
  <2> QED BY <1>1, <2>1, DesksRest DEF WorkspacesInv
<1> QED BY <1>2, <1>3, <1>4, <1>5 DEF WorkspacesNext

\* The invariant.
THEOREM WorkspacesInvariant == WorkspacesSpec => []WorkspacesInv
BY WorkspacesInitial, WorkspacesKept, PTL DEF WorkspacesSpec

\* The desks keep their types: no more polls are armed or under way than threads were
\* started, however deep the message boxes are nested (gui.py).
THEOREM DeskTypes == WorkspacesSpec => []TypesOK
<1>1. WorkspacesInv => TypesOK
  BY DEF WorkspacesInv, ScanInv, JobInv, TypesOK
<1> QED BY <1>1, WorkspacesInvariant, PTL

\* A running scan, build or mine job has its cancel button, and no second scan or build can
\* be started beside it: the poll that gives the buttons back looked at the thread before it
\* drained the queue, and what it saw still stands (_poll_scan_queue, _poll_build_queue,
\* _poll_mine_queue).  For scans, if the user starts no job in haste (see ScanDesk).
THEOREM ControlsHold == WorkspacesSpec => []RunningIsInControl
<1>1. ASSUME WorkspacesInv PROVE ScanIsInControl
  <2> SUFFICES ASSUME ScansAlive # {}, ~hasty
               PROVE  cancel_button /\ ~scan_button /\ Cardinality(ScansAlive) = 1
    BY DEF ScanIsInControl
  <2>1. Alone /\ HasButtons
    BY <1>1 DEF WorkspacesInv, ScanInv, InOneHand
  <2>2. ScansAlive = {scan_thread}
    BY <2>1 DEF Alone, ScansAlive, LookupIsOver
  <2> QED BY <2>1, <2>2, FS_Singleton DEF HasButtons
<1>2. ASSUME WorkspacesInv
      PROVE  IF workspace = "build" THEN Build!RunningIsInControl ELSE Mine!RunningIsInControl
  <2>1. Cancellable /\ (workspace = "build" => Locked)
    BY <1>2 DEF WorkspacesInv, JobInv
  <2> QED BY <2>1 DEF Cancellable, Locked, Build!RunningIsInControl, Mine!RunningIsInControl,
                      Build!Alive, Mine!Alive, Build!NoJob, Mine!NoJob
<1>3. WorkspacesInv => RunningIsInControl
  BY <1>1, <1>2 DEF RunningIsInControl
<1> QED BY <1>3, WorkspacesInvariant, PTL

\* The event is cleared by the start of a scan only: by a click that finds no thread alive
\* but lookups that are over, or by the poll that takes a tip, behind which nothing is at work.
LEMMA CancelStays ==
  ScanInv /\ [Next]_vars /\ scan_cancel /\ ~scan_cancel' /\ ~hasty' => ScansAlive = {}
<1> SUFFICES ASSUME ScanInv, [Next]_vars, scan_cancel, ~scan_cancel', ~hasty'
             PROVE  ScansAlive = {}
  OBVIOUS
<1>1. ClickScan \/ TakeLatest
  <2>1. CASE Click
    BY <2>1 DEF Click, ClickScan, ClickProbe, ClickLatest, ClickBip158, ClickCancel, ClickImport
  <2>2. CASE Poll
    BY <2>2 DEF Poll, PollBegins, BeginPoll, TakeReport, CloseBox, TakeLatest, PollEnds
  <2>3. ASSUME NEW j \in Jobs, Worker(j) \/ PostProgress(j) \/ DieSilently(j) PROVE FALSE
    BY <2>3 DEF Worker, PostAnswer, PostError, Posted, ThreadEnds, PostProgress, DieSilently
  <2>4. CASE UNCHANGED vars
    BY <2>4 DEF vars
  <2> QED BY <2>1, <2>2, <2>3, <2>4 DEF Next
<1>2. ~hasty
  BY <1>1 DEF ClickScan, TakeLatest
<1>3. Alone /\ TipAlone
  BY <1>2 DEF ScanInv, InOneHand
<1>4. CASE ClickScan
  BY <1>3, <1>4 DEF ClickScan, Idle, Alone, ScansAlive, LookupIsOver
<1>5. CASE TakeLatest
  <2>1. Waits("latest")
    <3>1. scan_queue # <<>> /\ Head(scan_queue) = "latest" /\ scan_queue \in Seq(Notes)
      BY <1>5, ScanTypes DEF TakeLatest
    <3> QED BY <3>1, TakenFrom DEF Waits
  <2> QED BY <1>3, <2>1 DEF TipAlone, ScansAlive, LookupIsOver
<1> QED BY <1>1, <1>4, <1>5

\* A cancel stops the job it was meant for: a build or mine job reports itself cancelled only
\* if the user cancelled it while it lived, whatever event the job before it left (_build,
\* _start_mine_action), and no start clears the event under a running scan (_start_scan), if
\* the user starts no job in haste: then a click finds the last thread dead, and no scan lives
\* when a poll takes a tip.
THEOREM CancelsHit == WorkspacesSpec => CancelHitsItsJob
<1>1. WorkspacesInv => (workspace \in {"build", "mine"} => Build!CancelIsItsOwn)
  BY DEF WorkspacesInv, JobInv, Cancelled, Build!CancelIsItsOwn, Build!Jobs
<1>2. WorkspacesInv /\ [WorkspacesNext]_all_vars
        => [scan_cancel /\ ~scan_cancel' /\ ~hasty' => ScansAlive = {}]_vars
  <2> SUFFICES ASSUME WorkspacesInv, [WorkspacesNext]_all_vars, scan_cancel, ~scan_cancel', ~hasty'
               PROVE  ScansAlive = {}
    OBVIOUS
  <2>1. [Next]_vars
    BY DEF WorkspacesNext, InCorpus, InBuild, InMine, InMix, all_vars
  <2> QED BY <2>1, CancelStays DEF WorkspacesInv
<1> QED BY <1>1, <1>2, WorkspacesInvariant, PTL DEF WorkspacesSpec, CancelHitsItsJob, CancelHolds

\* A desk at rest tells how its last job ended, whatever progress was reported, and the build
\* workspace never goes back to the report of an earlier build (_poll_scan_queue,
\* _poll_build_queue, _poll_mine_queue).  For the corpus, if the user starts no job in haste.
THEOREM StatusStays == WorkspacesSpec => StatusIsCurrent
<1>1. ASSUME WorkspacesInv
      PROVE  IF workspace = "build" THEN Build!RestShowsLast ELSE Mine!RestShowsLast
  <2>1. /\ job_queue # <<>> => job_timers > 0 \/ job_polls # <<>>
        /\ Told /\ (workspace = "build" => job_status.job = job_thread)
        /\ job_thread \in Nat
    BY <1>1, JobConstants
       DEF WorkspacesInv, JobInv, Polled, Locked, Build!TypeOK, Build!Jobs, Build!NoJob
  <2>2. ASSUME job_polls = <<>>, job_timers = 0, job_thread # 0
        PROVE  job_outcome[job_thread] # "none" =>
                 /\ job_status.job = job_thread
                 /\ \/ job_status.what = job_outcome[job_thread]
                    \/ job_status.what = "cancelling" /\ job_thread \in job_asked
    <3>1. job_queue = <<>>
      BY <2>1, <2>2
    <3> QED BY <2>1, <2>2, <3>1 DEF Told
  <2>3. CASE workspace = "build"
    BY <2>1, <2>2, <2>3 DEF Build!RestShowsLast, Build!AtRest, Build!NoJob
  <2>4. CASE workspace # "build"
    BY <2>1, <2>2, <2>4 DEF Mine!RestShowsLast, Mine!AtRest, Mine!NoJob
  <2> QED BY <2>3, <2>4
<1>2. WorkspacesInv /\ [WorkspacesNext]_all_vars => [workspace = "build" => Build!InOrder]_job_vars
  <2> SUFFICES ASSUME WorkspacesInv, [WorkspacesNext]_all_vars, workspace = "build",
                      ~UNCHANGED job_vars
               PROVE  Build!InOrder
    OBVIOUS
  <2>1. Build!Next
    BY DEF WorkspacesNext, InCorpus, InBuild, InMine, InMix, all_vars
  <2>2. JobInv /\ Locked
    BY DEF WorkspacesInv
  <2>3. Locked' /\ job_thread \in Nat /\ job_thread' \in {job_thread, job_thread + 1}
    BY <2>1, <2>2, LockKept
  <2> QED BY <2>2, <2>3 DEF Locked, Build!InOrder
<1>3. ASSUME WorkspacesInv PROVE RestShowsAnswer
  <2> SUFFICES ASSUME polls = <<>>, timers = 0, ~hasty,
                      scan_thread # NoThread, stage[scan_thread] = "dead"
               PROVE  scan_status \in {"answer", "imported"} \/ (scan_status = "cancelling" /\ scan_cancel)
    BY DEF RestShowsAnswer
  <2>1. PollToCome /\ AnswerSaid
    BY <1>3 DEF WorkspacesInv, ScanInv, InOneHand
  <2> QED BY <2>1 DEF PollToCome, AnswerSaid
<1> QED BY <1>1, <1>2, <1>3, WorkspacesInvariant, PTL DEF WorkspacesSpec, StatusIsCurrent

----------------------------------------------------------------------------
(* The chain row behaves as ChainMix says.                                 *)

LEMMA SameOperators ==
  /\ Mix!Chains = MixP!Chains /\ Mix!Nobody = MixP!Nobody
  /\ \A S : Mix!Cardinality(S) = MixP!Cardinality(S) /\ Mix!Max(S) = MixP!Max(S)
  /\ \A f, S : Mix!SumOn(f, S) = MixP!SumOn(f, S) /\ Mix!OnlyOf(f, S) = MixP!OnlyOf(f, S)
  /\ \A a, b : Mix!MinOf(a, b) = MixP!MinOf(a, b)
  /\ \A a : Mix!Positive(a) = MixP!Positive(a)
  /\ \A order : Mix!ChainsIn(order) = MixP!ChainsIn(order)
<1>1. Mix!Chains = MixP!Chains /\ Mix!Nobody = MixP!Nobody
  BY DEF Mix!Chains, MixP!Chains, Mix!Nobody, MixP!Nobody
<1>2. \A S : Mix!Cardinality(S) = MixP!Cardinality(S)
  BY DEF Mix!Cardinality, MixP!Cardinality
<1>3. \A S : Mix!Max(S) = MixP!Max(S)
  BY DEF Mix!Max, MixP!Max
<1>4. \A f, S : Mix!SumOn(f, S) = MixP!SumOn(f, S)
  BY DEF Mix!SumOn, MixP!SumOn
<1>5. \A f, S : Mix!OnlyOf(f, S) = MixP!OnlyOf(f, S)
  BY DEF Mix!OnlyOf, MixP!OnlyOf
<1>6. \A a, b : Mix!MinOf(a, b) = MixP!MinOf(a, b)
  BY DEF Mix!MinOf, MixP!MinOf
<1>7. \A a : Mix!Positive(a) = MixP!Positive(a)
  BY DEF Mix!Positive, MixP!Positive
<1>8. \A order : Mix!ChainsIn(order) = MixP!ChainsIn(order)
  BY DEF Mix!ChainsIn, MixP!ChainsIn
<1> QED BY <1>1, <1>2, <1>3, <1>4, <1>5, <1>6, <1>7, <1>8

LEMMA SameMixes ==
  /\ \A order, c : Mix!Repinned(order, c) = MixP!Repinned(order, c)
  /\ \A values, order, c : Mix!Rebalanced(values, order, c) = MixP!Rebalanced(values, order, c)
  /\ \A mix : Mix!OnEveryChain(mix) = MixP!OnEveryChain(mix)
<1>1. \A order, c : Mix!Repinned(order, c) = MixP!Repinned(order, c)
  BY SameOperators DEF Mix!Repinned, MixP!Repinned
<1>2. \A S, whole : Mix!EqualSplit(S, whole) = MixP!EqualSplit(S, whole)
  BY SameOperators DEF Mix!EqualSplit, MixP!EqualSplit
<1>3. \A values, order, c : Mix!CutBack(values, order, c) = MixP!CutBack(values, order, c)
  BY SameOperators DEF Mix!CutBack, MixP!CutBack
<1>4. \A kept, c : Mix!Filled(kept, c) = MixP!Filled(kept, c)
  <2> TAKE kept, c
  <2>1. Mix!SumOn(kept, DOMAIN kept) = MixP!SumOn(kept, DOMAIN kept)
    BY SameOperators
  <2>2. \A S : Mix!Max(S) = MixP!Max(S)
    BY SameOperators
  <2> QED BY <1>2, <2>1, <2>2 DEF Mix!Filled, MixP!Filled
<1>5. \A values, order, c : Mix!Rebalanced(values, order, c) = MixP!Rebalanced(values, order, c)
  BY <1>2, <1>3, <1>4 DEF Mix!Rebalanced, MixP!Rebalanced
<1>6. \A mix : Mix!OnEveryChain(mix) = MixP!OnEveryChain(mix)
  BY SameOperators DEF Mix!OnEveryChain, MixP!OnEveryChain
<1> QED BY <1>1, <1>5, <1>6

LEMMA SameSteps ==
  \A c : /\ Mix!Toggle(c) <=> MixP!Toggle(c)
         /\ \A v : Mix!Edit(c, v) <=> MixP!Edit(c, v)
<1> TAKE c
<1>1. Mix!Toggle(c) <=> MixP!Toggle(c)
  BY SameOperators, SameMixes DEF Mix!Toggle, MixP!Toggle
<1>2. \A v : Mix!Edit(c, v) <=> MixP!Edit(c, v)
  BY SameOperators, SameMixes DEF Mix!Edit, MixP!Edit
<1> QED BY <1>1, <1>2

\* A behaviour of the workspaces is one of the chain row, in which nothing happens while
\* another workspace is used.
LEMMA IsMix == WorkspacesSpec => MixP!Spec
<1>1. WorkspacesInit => MixP!Init
  BY SameOperators DEF WorkspacesInit, Mix!Init, MixP!Init
<1>2. Mix!Next => MixP!Next
  BY SameOperators, SameSteps DEF Mix!Next, MixP!Next
<1>3. [WorkspacesNext]_all_vars => [MixP!Next]_(MixP!vars)
  BY <1>2 DEF WorkspacesNext, InCorpus, InBuild, InMine, InMix, all_vars, mix_vars, MixP!vars
<1> QED BY <1>1, <1>3, PTL DEF WorkspacesSpec, MixP!Spec

LEMMA MixConstants == MixP!MixAssumption
BY WorkspacesAssumption DEF Mix!MixAssumption, MixP!MixAssumption

\* The percentages of the selected chains add up to the whole, none is negative and the other
\* chains have none, after any ticks and edits (_on_chain_toggle, _on_chain_percent).
THEOREM MixStaysWhole == WorkspacesSpec => []MixIsWhole
<1>1. MixP!MixIsWhole => MixIsWhole
  BY SameOperators DEF MixIsWhole, Mix!MixIsWhole, MixP!MixIsWhole
<1>2. MixP!Spec => []MixP!MixIsWhole
  BY MixConstants, MixP!MixStaysWhole
<1> QED BY <1>1, <1>2, IsMix, PTL

\* The value that was typed stands, and the chains edited before it give way only to a claim
\* that does not fit, the newest first (rebalance_percentages).
THEOREM EditsStand == WorkspacesSpec => EditsHold
<1>1. MixP!Spec => MixP!EditSticks
  BY MixConstants, MixP!EditedValueSticks
<1>2. MixP!Spec => MixP!PinsHold
  BY MixConstants, MixP!PinnedChainsHold
<1>3. MixP!EditSticks => Mix!EditSticks
  <2>1. [MixP!EditStep => \A v \in 0 .. Total : MixP!Edit(MixP!Edited, v) => percent'[MixP!Edited] = v]_(MixP!vars)
          => [Mix!EditStep => \A v \in 0 .. Total : Mix!Edit(Mix!Edited, v) => percent'[Mix!Edited] = v]_(Mix!vars)
    BY SameOperators, SameSteps
       DEF MixP!EditStep, Mix!EditStep, MixP!Edited, Mix!Edited, MixP!vars, Mix!vars
  <2> QED BY <2>1, PTL DEF MixP!EditSticks, Mix!EditSticks
<1>4. MixP!PinsHold => Mix!PinsHold
  <2>1. MixP!PinsStand => Mix!PinsStand
    BY SameOperators DEF MixP!PinsStand, Mix!PinsStand, MixP!Edited, Mix!Edited
  <2>2. [MixP!EditStep => MixP!PinsStand]_(MixP!vars) => [Mix!EditStep => Mix!PinsStand]_(Mix!vars)
    BY <2>1, SameOperators DEF MixP!EditStep, Mix!EditStep, MixP!vars, Mix!vars
  <2> QED BY <2>2, PTL DEF MixP!PinsHold, Mix!PinsHold
<1> QED BY <1>1, <1>2, <1>3, <1>4, IsMix, PTL DEF EditsHold
=============================================================================
