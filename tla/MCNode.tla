------------------------------- MODULE MCNode -------------------------------
(***************************************************************************)
(* An instance of what a node owns, its writer and its listeners; a        *)
(* behaviour is of one of the two.  Of the listeners: a parent that        *)
(* listens to its child and to a component outside their tree; the child   *)
(* emits while it stops.                                                   *)
(***************************************************************************)
EXTENDS Writer, Events

CONSTANTS p, c, o

VARIABLE part   \* what a behaviour is about

Tree == [x \in {p, c, o} |-> IF x = c THEN p ELSE None]
Bound == [x \in {p, c, o} |-> IF x = p THEN {c, o} ELSE {}]

MCInit == part \in {"writer", "events"} /\ Init /\ EventsInit

MCNext ==
  /\ part' = part
  /\ \/ part = "writer" /\ Next /\ UNCHANGED eventVars
     \/ part = "events" /\ EventsNext /\ UNCHANGED vars

\* The fairness of FairSpec and FairEventsSpec, each where its part runs.
MCFairness ==
  /\ WF_vars(part = "writer" /\ \E f \in Flush : LoopFlush(f))
  /\ \A f \in Flush :
       /\ WF_vars(part = "writer" /\ (Proceed(f) \/ JoinReturn(f)))
       /\ WF_vars(part = "writer" /\ (Commit(f) \/ Succeed(f) \/ Fail(f)))
       /\ WF_vars(part = "writer" /\ Collect(f))
  /\ SF_vars(part = "writer" /\ \E f \in Flush : Commit(f))
  /\ SF_vars(part = "writer" /\ \E f \in Flush : Succeed(f))
  /\ \A x \in Component, k \in Consumer :
       /\ WF_eventVars(part = "events" /\ Take(x, k))
       /\ WF_eventVars(part = "events" /\ Handled(x, k))
       /\ WF_eventVars(part = "events" /\ Leave(x, k))
  /\ \A x \in Component :
       /\ WF_eventVars(part = "events" /\ StopChild(x))
       /\ WF_eventVars(part = "events" /\ StopSettles(x))
       /\ WF_eventVars(part = "events" /\ PostStop(x))

MCSpec == MCInit /\ [][MCNext]_<<part, vars, eventVars>> /\ MCFairness
=============================================================================
