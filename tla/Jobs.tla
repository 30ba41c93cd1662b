-------------------------------- MODULE Jobs --------------------------------
(***************************************************************************)
(* Scheduled jobs of a component: JobManager (ceres/job.py).               *)
(*                                                                         *)
(* The manager keeps its own registry of job configurations beside the     *)
(* jobs of an APScheduler scheduler, which it replaces each time the       *)
(* component stops.  The scheduler (external) fires a job it holds when    *)
(* the job has no execution under way, and cancels the executions when it  *)
(* shuts down.                                                             *)
(***************************************************************************)
EXTENDS Naturals

CONSTANTS
  Job,      \* job names
  Config,   \* JobConfig objects; any of them may have any name
  Retries,  \* Retries[c]: its `retries`
  NoJob

ASSUME JobsAssumption ==
  /\ NoJob \notin Config
  /\ Retries \in [Config -> Nat]

VARIABLES
  running,    \* JobManager.__run__ is in its sleep: the scheduler is started
  jobs,       \* _jobs: name to configuration
  scheduled,  \* the scheduler's jobs: name to the configuration _run_job will get
  exec,       \* the execution of _run_job under each name, or None
  dying       \* the names whose execution the old scheduler's shutdown cancels

jobVars == <<running, jobs, scheduled, exec, dying>>

\* calls: the calls of the action made; retry: the local of _run_job.
Execution ==
  [config : Config, phase : {"call", "wait"}, retry : Nat, calls : Nat]

NoJobs == [j \in Job |-> NoJob]

JobsInit ==
  /\ running = FALSE
  /\ jobs = NoJobs
  /\ scheduled = NoJobs
  /\ exec = NoJobs
  /\ dying = {}
-----------------------------------------------------------------------------
\* _sync_jobs: every registered job the scheduler does not hold is added to it.
SyncedJobs(registry) ==
  [j \in Job |-> IF scheduled[j] # NoJob THEN scheduled[j] ELSE registry[j]]

Add(j, c) ==
  /\ jobs' = [jobs EXCEPT ![j] = c]
  /\ scheduled' = SyncedJobs(jobs')
  /\ UNCHANGED <<running, exec, dying>>

Remove(j) ==
  /\ scheduled' = [scheduled EXCEPT ![j] = NoJob]
  /\ jobs' = [jobs EXCEPT ![j] = NoJob]
  /\ UNCHANGED <<running, exec, dying>>

Clear ==
  /\ jobs' = NoJobs
  /\ scheduled' = NoJobs
  /\ UNCHANGED <<running, exec, dying>>

\* __run__: the component's workers start ...
StartScheduler ==
  /\ ~running
  /\ running' = TRUE
  /\ scheduled' = SyncedJobs(jobs)
  /\ UNCHANGED <<jobs, exec, dying>>

\* ... and are cancelled: the scheduler shuts down and a new, empty one takes its place.
StopDropped ==
  /\ running
  /\ running' = FALSE
  /\ scheduled' = NoJobs
  /\ UNCHANGED <<jobs, exec, dying>>

StopScheduler ==
  /\ running
  /\ running' = FALSE
  /\ scheduled' = NoJobs
  /\ dying' = {j \in Job : exec[j] # NoJob}
  /\ UNCHANGED <<jobs, exec>>
-----------------------------------------------------------------------------
\* The scheduler calls _run_job, which calls the action.
Fire(j) ==
  /\ running
  /\ scheduled[j] # NoJob
  /\ exec[j] = NoJob
  /\ exec' = [exec EXCEPT ![j] =
       [config |-> scheduled[j], phase |-> "call", retry |-> 0, calls |-> 1]]
  /\ UNCHANGED <<running, jobs, scheduled, dying>>

End(j) ==
  /\ exec' = [exec EXCEPT ![j] = NoJob]
  /\ dying' = dying \ {j}
  /\ UNCHANGED <<running, jobs, scheduled>>

\* The action returns.
Completed(j) ==
  /\ exec[j] # NoJob
  /\ exec[j].phase = "call"
  /\ End(j)

\* The action raises: JobExceptionEvent, and the end or a pause.
Raised(j) ==
  /\ exec[j] # NoJob
  /\ exec[j].phase = "call"
  /\ IF exec[j].retry >= Retries[exec[j].config] THEN End(j)
     ELSE /\ exec' = [exec EXCEPT ![j].phase = "wait", ![j].retry = @ + 1]
          /\ UNCHANGED <<running, jobs, scheduled, dying>>

\* retry_delay has passed: JobRetryEvent, and the action is called again.
Retry(j) ==
  /\ exec[j] # NoJob
  /\ exec[j].phase = "wait"
  /\ exec' = [exec EXCEPT ![j].phase = "call", ![j].calls = @ + 1]
  /\ UNCHANGED <<running, jobs, scheduled, dying>>

\* CancelledError at the await of the action or of the pause.
Cancelled(j) ==
  /\ j \in dying
  /\ End(j)

JobsNext ==
  \/ StartScheduler \/ StopScheduler \/ Clear
  \/ \E j \in Job :
       \/ Remove(j) \/ Fire(j) \/ Completed(j) \/ Raised(j) \/ Retry(j) \/ Cancelled(j)
       \/ \E c \in Config : Add(j, c)

JobsSpec == JobsInit /\ [][JobsNext]_jobVars

\* The scheduler that shuts down does cancel; an action need not return.
FairJobsSpec == JobsSpec /\ \A j \in Job : WF_jobVars(Cancelled(j))
-----------------------------------------------------------------------------
JobsTypeOK ==
  /\ running \in BOOLEAN
  /\ jobs \in [Job -> Config \cup {NoJob}]
  /\ scheduled \in [Job -> Config \cup {NoJob}]
  /\ exec \in [Job -> Execution \cup {NoJob}]
  /\ dying \subseteq Job

\* While the component runs, the scheduler holds exactly the registered jobs: none is
\* forgotten by a restart, and no removed one is left to fire.
ScheduledRegistered ==
  running => \A j \in Job : scheduled[j] # NoJob <=> jobs[j] # NoJob

\* "Number of additional attempts if the action raises." (JobConfig.retries): whatever
\* becomes of the job meanwhile, an execution calls the action at most that much more.
AttemptsBounded ==
  \A j \in Job : exec[j] # NoJob => exec[j].calls <= Retries[exec[j].config] + 1

\* Stopping the component ends the executions, also one whose action never returns or
\* that is waiting to retry, unless the component runs again by then.
QuietAfterStop ==
  \A j \in Job : ~running /\ exec[j] # NoJob ~> running \/ exec[j] = NoJob
=============================================================================
