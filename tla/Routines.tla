------------------------------ MODULE Routines ------------------------------
(***************************************************************************)
(* The routines of a component: ComponentSystem.__run_routines and         *)
(* __run_routine (ceres/component.py).  Every routine has a task of its    *)
(* own, which restarts it according to its policy until the component      *)
(* stops.                                                                  *)
(***************************************************************************)

CONSTANTS
  Routine,
  Policy  \* Policy[r]: never, always, on-completed or on-exception

VARIABLES
  phase,   \* idle, body, pause (the restart delay) or over
  outcome  \* how the body last ended: none, completed or exception

vars == <<phase, outcome>>

Init ==
  /\ phase = [r \in Routine |-> "idle"]
  /\ outcome = [r \in Routine |-> "none"]

\* __run_routines: a task for every binding.
Start ==
  /\ \A r \in Routine : phase[r] \in {"idle", "over"}
  /\ phase' = [r \in Routine |-> "body"]
  /\ outcome' = [r \in Routine |-> "none"]

\* The body returns or raises; the loop breaks, or waits before the next turn.
Ends(r, result, last) ==
  /\ phase[r] = "body"
  /\ outcome' = [outcome EXCEPT ![r] = result]
  /\ phase' = [phase EXCEPT ![r] = IF Policy[r] \in {last, "never"} THEN "over" ELSE "pause"]

Completes(r) == Ends(r, "completed", "on-completed")
Raises(r) == Ends(r, "exception", "on-exception")

\* The delay has passed: RoutineRestartedEvent, and the body runs again.
Restart(r) ==
  /\ phase[r] = "pause"
  /\ phase' = [phase EXCEPT ![r] = "body"]
  /\ UNCHANGED outcome

\* The component stops: the task group is cancelled, in a body or in a delay.
Cancel ==
  /\ \E r \in Routine : phase[r] \in {"body", "pause"}
  /\ phase' = [r \in Routine |-> "over"]
  /\ UNCHANGED outcome

Next == Start \/ Cancel \/ \E r \in Routine : Completes(r) \/ Raises(r) \/ Restart(r)

Spec == Init /\ [][Next]_vars
-----------------------------------------------------------------------------
\* What the documentation says of each policy.
RestartsAfter(r, result) ==
  \/ Policy[r] = "always"
  \/ Policy[r] = "on-completed" /\ result = "completed"
  \/ Policy[r] = "on-exception" /\ result = "exception"

\* "`on-completed`: Restart only if the routine returns normally.", "`on-exception`:
\* Restart only if the routine raises an exception." (docs/components.md)
RestartsAsDocumented ==
  [][\A r \in Routine : phase[r] = "pause" /\ phase'[r] = "body" => RestartsAfter(r, outcome[r])]_vars
=============================================================================
