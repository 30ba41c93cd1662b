----------------------------- MODULE Lifecycle ------------------------------
(***************************************************************************)
(* Starting, stopping, enabling and disabling components of a tree:        *)
(* Tasklet (ceres/tasklet.py), its use by ComponentSystem                  *)
(* (ceres/component.py), and the start / stop / up / down handlers         *)
(* (ceres/__internal__/app/handlers/engine.py).                            *)
(*                                                                         *)
(* The tree is fixed here.  Everything runs on one event loop: an action   *)
(* is what happens between two awaits, and start() is one action with all  *)
(* the starts it makes.                                                    *)
(***************************************************************************)
EXTENDS Components, Naturals, FiniteSets

CONSTANTS
  Parent,     \* Parent[c]: the component that contains c, or None
  Toggled     \* bound: the components whose enabled state is changed by calls

ASSUME LifecycleAssumption ==
  /\ None \notin Component
  /\ Toggled \subseteq Component
  /\ Parent \in [Component -> Component \cup {None}]

VARIABLES
  task,      \* how far the component's task is
  stopping,  \* the components whose `stopping` event is set
  waiting,   \* the children whose stop() each __stop__ loop awaits
  enabled,   \* components with _enabled
  stored,    \* components whose ENABLED variable is true in the database
  calls      \* enable()/disable() calls whose write committed: <<component, value>>

vars == <<task, stopping, waiting, enabled, stored, calls>>

\* none: no task, `stopped` is set.  start, sync, run: __run__ is in the component's
\* __start__ hook, in __node_sync__, or in its workers.  done: __run__ has ended by
\* itself.  unwind, children, settle, post: main() is in cancel(), in the loop of
\* __stop__, in settle(), or in __post_stop__.
Tasks == {"none", "start", "sync", "run", "done", "unwind", "children", "settle", "post"}

Running(c) == task[c] # "none"
Children(c) == {d \in Component : Parent[d] = c}

\* get_ancestor_components: the least set that holds c's parent and is closed upwards.
ClosedAbove(c, S) == \A x \in S \cup {c} : Parent[x] # None => Parent[x] \in S
Above == [c \in Component |->
  {a \in Component : \A S \in SUBSET Component : ClosedAbove(c, S) => a \in S}]

Init ==
  /\ task = [c \in Component |-> "none"]
  /\ stopping = Component
  /\ waiting = [c \in Component |-> {}]
  /\ stored \in SUBSET Component
  /\ enabled \in {stored, {}}  \* hydrated by Engine.__run__, or not yet
  /\ calls = {}
-----------------------------------------------------------------------------
\* Tasklet.start of every component in S: nothing for one that has a task.
Launch(S) ==
  /\ task' = [c \in Component |-> IF c \in S /\ ~Running(c) THEN "start" ELSE task[c]]
  /\ stopping' = stopping \ {c \in S : ~Running(c)}

\* The descendants that start(all_enabled=True) reaches: through enabled components only.
EnabledBelow(c) ==
  {d \in Component :
     /\ c \in Above[d]
     /\ \A x \in Above[d] \cup {d} : c \in Above[x] => x \in enabled}

\* ComponentSystem.start: ancestors first, itself, then the enabled descendants.
StartedBelow(c) == {c} \cup EnabledBelow(c)
Started(c) == Above[c] \cup {c} \cup EnabledBelow(c)

Start(c) ==
  /\ Launch(Started(c))
  /\ UNCHANGED <<waiting, enabled, stored, calls>>

\* Tasklet.stop: the rest of the call only waits.
Stop(c) ==
  /\ stopping' = stopping \cup {c}
  /\ UNCHANGED <<task, waiting, enabled, stored, calls>>

\* enable() and disable(): the variable is written to the database ...
Persist(c, v) ==
  /\ c \in Toggled
  /\ <<c, v>> \notin calls
  /\ stored' = IF v THEN stored \cup {c} ELSE stored \ {c}
  /\ calls' = calls \cup {<<c, v>>}
  /\ UNCHANGED <<task, stopping, waiting, enabled>>

\* ... and the call resumes and sets _enabled; up() then starts, down() stops.
SetEnabled(c, v) ==
  /\ <<c, v>> \in calls
  /\ calls' = calls \ {<<c, v>>}
  /\ enabled' = IF v THEN enabled \cup {c} ELSE enabled \ {c}
  /\ UNCHANGED <<waiting, stored>>

Enable(c, v) == SetEnabled(c, v) /\ UNCHANGED <<task, stopping>>

Up(c) == SetEnabled(c, TRUE) /\ Launch(Started(c))

Down(c) ==
  /\ SetEnabled(c, FALSE)
  /\ stopping' = stopping \cup {c}
  /\ UNCHANGED task
-----------------------------------------------------------------------------
\* __run__: the __start__ hook returns; ancestors are started again, without their
\* descendants.
HookReturns(c) ==
  /\ task[c] = "start"
  /\ task' = [x \in Component |->
                IF x = c THEN "sync"
                ELSE IF x \in Above[c] /\ ~Running(x) THEN "start" ELSE task[x]]
  /\ stopping' = stopping \ {x \in Above[c] : ~Running(x)}
  /\ UNCHANGED <<waiting, enabled, stored, calls>>

\* __node_sync__ has read the enabled state; the workers start.
Synced(c) ==
  /\ task[c] = "sync"
  /\ task' = [task EXCEPT ![c] = "run"]
  /\ enabled' = IF c \in stored THEN enabled \cup {c} ELSE enabled \ {c}
  /\ UNCHANGED <<stopping, waiting, stored, calls>>

\* The hook, the database or a worker fails: __run__ ends by itself.
RunEnds(c) ==
  /\ task[c] \in {"start", "sync", "run"}
  /\ task' = [task EXCEPT ![c] = "done"]
  /\ UNCHANGED <<stopping, waiting, enabled, stored, calls>>

\* main(): the race is over; __stopping__ runs and __run__ is cancelled.
Interrupt(c) ==
  /\ \/ task[c] \in {"start", "sync", "run"} /\ c \in stopping
     \/ task[c] = "done"
  /\ task' = [task EXCEPT ![c] = "unwind"]
  /\ stopping' = stopping \cup {c}
  /\ UNCHANGED <<waiting, enabled, stored, calls>>

\* One turn of the loop in __stop__: stop every child that runs, or go on.
StopChildren(c) ==
  LET alive == {d \in Children(c) : Running(d)} IN
  /\ task' = [task EXCEPT ![c] = IF alive = {} THEN "settle" ELSE "children"]
  /\ waiting' = [waiting EXCEPT ![c] = alive]
  /\ stopping' = stopping \cup alive

\* __run__ has ended: the component's __stop__ hook, awaited in its finally, is over.
Unwound(c) ==
  /\ task[c] = "unwind"
  /\ StopChildren(c)
  /\ UNCHANGED <<enabled, stored, calls>>

\* Every stop() the loop awaited has returned: the condition is evaluated again.
ChildrenStopped(c) ==
  /\ task[c] = "children"
  /\ waiting[c] = {}
  /\ StopChildren(c)
  /\ UNCHANGED <<enabled, stored, calls>>

\* settle() returns.
Settled(c) ==
  /\ task[c] = "settle"
  /\ task' = [task EXCEPT ![c] = "post"]
  /\ UNCHANGED <<stopping, waiting, enabled, stored, calls>>

\* __post_stop__ is over: the task is dropped and `stopped` wakes whoever waits for it.
FinishAsleep(c) ==
  /\ task[c] = "post"
  /\ task' = [task EXCEPT ![c] = "none"]
  /\ UNCHANGED <<stopping, waiting, enabled, stored, calls>>

Finish(c) ==
  /\ task[c] = "post"
  /\ task' = [task EXCEPT ![c] = "none"]
  /\ waiting' = [p \in Component |-> waiting[p] \ {c}]
  /\ UNCHANGED <<stopping, enabled, stored, calls>>

Main(c) ==
  \/ Interrupt(c) \/ Unwound(c) \/ ChildrenStopped(c) \/ Settled(c) \/ Finish(c)

Run(c) == HookReturns(c) \/ Synced(c) \/ RunEnds(c)
-----------------------------------------------------------------------------
Request(c) ==
  \/ Stop(c) \/ Down(c)
  \/ \E v \in BOOLEAN : Persist(c, v) \/ Enable(c, v)

Next == \E c \in Component : Start(c) \/ Up(c) \/ Request(c) \/ Run(c) \/ Main(c)

Spec == Init /\ [][Next]_vars

\* A step starts nothing below a component that is being stopped.
OrderlyStep ==
  \A c \in Component : ~Running(c) /\ Running(c)' =>
    \A a \in Above[c] : Running(a) => a \notin stopping

OrderlyStart(c) == (Start(c) \/ Up(c)) /\ OrderlyStep

NextOrderly == \E c \in Component : OrderlyStart(c) \/ Request(c) \/ Run(c) \/ Main(c)

OrderlySpec == Init /\ [][NextOrderly]_vars

(* Fairness: the event loop resumes a task whose event is set, and hooks, settle()  *)
(* and flush() return.  Nothing obliges anyone to call start() or stop().          *)
FairOrderlySpec == OrderlySpec /\ \A c \in Component : WF_vars(Main(c))
-----------------------------------------------------------------------------
TypeOK ==
  /\ task \in [Component -> Tasks]
  /\ stopping \subseteq Component
  /\ waiting \in [Component -> SUBSET Component]
  /\ enabled \subseteq Component
  /\ stored \subseteq Component
  /\ calls \subseteq Component \X BOOLEAN

\* "A child component can only run if all of its ancestors are running. ...
\* Stopping a component stops all of its descendants." (docs/components.md)
NoOrphans == \A c \in Component : Running(c) => \A a \in Above[c] : Running(a)

\* stop() "and wait for it to stop completely" (Tasklet.stop): no chain of components
\* waiting for each other's stop() is endless.
StopEnds == \A c \in Component : c \in stopping /\ Running(c) ~> ~Running(c)
=============================================================================
