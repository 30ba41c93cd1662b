------------------------------ MODULE MCEngine ------------------------------
(***************************************************************************)
(* An instance of the lifecycle of components in a chain of three, of the  *)
(* component tree, of the job manager and of the exports of loaded         *)
(* records; a behaviour is of one of them.  Two jobs, with a configuration *)
(* that does not retry and one that retries twice.                         *)
(***************************************************************************)
EXTENDS Lifecycle, Tree, Jobs, PendingExports

CONSTANTS top, middle, bottom, once, thrice

VARIABLE part   \* what a behaviour is about

MCParent == [x \in {top, middle, bottom} |->
  CASE x = top -> None [] x = middle -> top [] x = bottom -> middle]

MCRetries == [config \in {once, thrice} |-> IF config = once THEN 0 ELSE 2]

MCInit ==
  /\ part \in {"lifecycle", "tree", "jobs", "exports"}
  /\ Init /\ (part # "lifecycle" => stored = {})
  /\ TreeInit /\ (part # "tree" => name = [x \in Component |-> CHOOSE n \in Name : TRUE])
  /\ JobsInit
  /\ ExportsInit

MCNext ==
  /\ part' = part
  /\ \/ part = "lifecycle" /\ NextOrderly /\ UNCHANGED <<treeVars, jobVars, exportVars>>
     \/ part = "tree" /\ TreeNext /\ UNCHANGED <<vars, jobVars, exportVars>>
     \/ part = "jobs" /\ JobsNext /\ UNCHANGED <<vars, treeVars, exportVars>>
     \/ part = "exports" /\ NextQuiet /\ UNCHANGED <<vars, treeVars, jobVars>>

\* The fairness of FairOrderlySpec, FairJobsSpec and FairQuietSpec, each where its
\* part runs.
MCFairness ==
  /\ \A c \in Component : WF_vars(part = "lifecycle" /\ Main(c))
  /\ \A j \in Job : WF_jobVars(part = "jobs" /\ Cancelled(j))
  /\ WF_exportVars(part = "exports" /\ (Drain \/ QuietRename))
  /\ \A l \in Load : WF_exportVars(part = "exports" /\ Write(l))

MCSpec ==
  MCInit /\ [][MCNext]_<<part, vars, treeVars, jobVars, exportVars>> /\ MCFairness
=============================================================================
