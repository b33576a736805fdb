----------------------------- MODULE Workspaces -----------------------------
(***************************************************************************)
(* The three workspaces of the GUI that run worker threads, corpus, build  *)
(* and mine, and the build workspace's chain row.  They share the Tk loop  *)
(* and nothing else: each workspace has a queue, a cancel event and a poll *)
(* of its own and the row only its own widgets, so a behaviour follows one *)
(* of them.                                                                *)
(***************************************************************************)
EXTENDS ScanDesk

CONSTANTS
  MaxBuilds,        \* bound: workers of the build or mine workspace
  NumChains, Total  \* of the chain row

VARIABLES
  workspace,   \* "corpus", "build", "mine" or "mix"
  selected, percent, pinned,   \* the chain row
  job_stage, job_outcome, job_thread, job_queue, job_cancel, job_timers, job_polls,
  job_box, job_start_button, job_cancel_button, job_status, job_asked

job_vars == <<job_stage, job_outcome, job_thread, job_queue, job_cancel, job_timers,
              job_polls, job_box, job_start_button, job_cancel_button,
              job_status, job_asked>>
mix_vars == <<selected, percent, pinned>>
all_vars == <<workspace, vars, job_vars, mix_vars>>

\* The chain row of the build workspace.
Mix == INSTANCE ChainMix

\* The workspaces of the two kinds of jobs: a build locks its start button, Mine-Build
\* does not.
Build == INSTANCE JobDesk WITH LocksStart <- TRUE,
  MaxJobs <- MaxBuilds,
  stage <- job_stage, outcome <- job_outcome, thread <- job_thread, queue <- job_queue,
  cancel <- job_cancel, timers <- job_timers, polls <- job_polls,
  box <- job_box, start_button <- job_start_button,
  cancel_button <- job_cancel_button, status <- job_status, asked <- job_asked

Mine == INSTANCE JobDesk WITH LocksStart <- FALSE,
  MaxJobs <- MaxBuilds,
  stage <- job_stage, outcome <- job_outcome, thread <- job_thread, queue <- job_queue,
  cancel <- job_cancel, timers <- job_timers, polls <- job_polls,
  box <- job_box, start_button <- job_start_button,
  cancel_button <- job_cancel_button, status <- job_status, asked <- job_asked

ASSUME WorkspacesAssumption ==
  Build!JobDeskAssumption /\ MaxBuilds <= MaxJobs /\ Mix!MixAssumption

----------------------------------------------------------------------------
InCorpus(step) == workspace = "corpus" /\ step /\ UNCHANGED <<workspace, job_vars, mix_vars>>
InBuild(step)  == workspace = "build" /\ step /\ UNCHANGED <<workspace, vars, mix_vars>>
InMine(step)   == workspace = "mine" /\ step /\ UNCHANGED <<workspace, vars, mix_vars>>
InMix(step)    == workspace = "mix" /\ step /\ UNCHANGED <<workspace, vars, job_vars>>

WorkspacesInit ==
  /\ workspace \in {"corpus", "build", "mine", "mix"}
  /\ Init /\ Build!Init /\ Mix!Init

WorkspacesNext ==
  \/ InCorpus(Next)
  \/ InBuild(Build!Next)
  \/ InMine(Mine!Next)
  \/ InMix(Mix!Next)

WorkspacesSpec == WorkspacesInit /\ [][WorkspacesNext]_all_vars

\* The fairness of each workspace (see ScanDesk and JobDesk; the steps of the workers
\* are the same with and without the lock).
Polls      == InCorpus(Poll) \/ InBuild(Build!Poll) \/ InMine(Mine!Poll)
InJobs(step) == workspace \in {"build", "mine"} /\ step /\ UNCHANGED <<workspace, vars, mix_vars>>
Workers ==
  \/ InCorpus(\E j \in Jobs : Worker(j))
  \/ InJobs(\E j \in 1 .. MaxBuilds : Build!Worker(j))

\* Each worker has few steps, so fairness to all of them together is fairness to each.
FairWorkspaces == WorkspacesSpec /\ WF_all_vars(Polls) /\ WF_all_vars(Workers)

----------------------------------------------------------------------------
(* Properties of the three workspaces together.                            *)

\* The type invariants of all workspaces.
TypesOK == TypeOK /\ Build!TypeOK

\* A running job can be cancelled, and no second scan or build can be started
\* beside it, unless the user of the corpus workspace started a job in haste.
RunningIsInControl ==
  /\ ScanIsInControl
  /\ IF workspace = "build" THEN Build!RunningIsInControl ELSE Mine!RunningIsInControl

\* A cancel stops the job it was meant for and no other: the event of a running
\* scan is not cleared under it (unless the user started a job in haste), and a build
\* or mine job that reports itself cancelled was cancelled while it lived.
CancelHitsItsJob ==
  CancelHolds /\ [](workspace \in {"build", "mine"} => Build!CancelIsItsOwn)

\* A desk at rest shows how its last job ended, and the build workspace never goes
\* back to the report of an earlier build.
StatusIsCurrent ==
  /\ []( /\ RestShowsAnswer
         /\ IF workspace = "build" THEN Build!RestShowsLast ELSE Mine!RestShowsLast )
  /\ [][workspace = "build" => Build!InOrder]_job_vars

\* What a worker posted reaches the user, however its last moments and the last
\* poll interleave, unless the user of the corpus workspace started a job in haste.
ReportsArrive == AnswersArrive /\ Build!ReportsArrive

\* The controls come back after every job, also one that died without a message.
ControlsComeBack == ControlsReturn /\ Build!ControlsReturn

\* The selected chains always share exactly the whole mix, after any sequence of
\* ticks and edits.
MixIsWhole == Mix!MixIsWhole

\* The percentage typed is the one that stands, and the pinned ones beside it give
\* way only to a claim that does not fit, the newest first.
EditsHold == Mix!EditSticks /\ Mix!PinsHold
==============================================================================
