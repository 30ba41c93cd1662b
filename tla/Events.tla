------------------------------- MODULE Events -------------------------------
(***************************************************************************)
(* Event propagation and listener queues: EventManager and                 *)
(* _ComponentEventListener (ceres/event.py), and how stopping a component  *)
(* drains them (ComponentSystem.__stop__ and __post_stop__,                *)
(* Node.settle).                                                           *)
(*                                                                         *)
(* An event is the component it was emitted on.  Every component has one   *)
(* listener.  A queue is consumed by the listener's loop ("run"), by       *)
(* settle() called by anyone ("call") and by settle() in __stop__          *)
(* ("stop").  Tasks are eager, as on the loop that the host installs       *)
(* (concurrency.el).                                                       *)
(***************************************************************************)
EXTENDS Naturals, Sequences, FiniteSets

CONSTANTS
  Component,
  Parent,    \* Parent[x], or None
  Chatty,    \* the components whose code emits while they stop
  Accepts,   \* Accepts[x]: the components whose events x's listener is bound to
  QueueMax,  \* bound: events in a queue when one is emitted or a component starts
  None

ASSUME EventsAssumption ==
  /\ None \notin Component
  /\ Parent \in [Component -> Component \cup {None}]
  /\ Accepts \in [Component -> SUBSET Component]
  /\ Chatty \subseteq Component
  /\ QueueMax \in Nat

VARIABLES
  state,    \* stopped, starting, running, children, settle or post
  queue,    \* _queue of each listener
  active,   \* the consumers of each queue
  proc,     \* the event each consumer is handling, or None
  spinning, \* the event loop is caught in a loop that never suspends
  astray    \* history: started last below a component that was past stopping its children

eventVars == <<state, queue, active, proc, spinning, astray>>

Consumer == {"run", "call", "stop"}
Children(x) == {y \in Component : Parent[y] = x}

ClosedAbove(x, S) == \A y \in S \cup {x} : Parent[y] # None => Parent[y] \in S
Above == [x \in Component |->
  {a \in Component : \A S \in SUBSET Component : ClosedAbove(x, S) => a \in S}]

\* Address.contains: itself and what is below it.
contains(x, y) == x = y \/ x \in Above[y]

EventsInit ==
  /\ state = [x \in Component |-> "stopped"]
  /\ queue = [x \in Component |-> <<>>]
  /\ active = [x \in Component |-> {}]
  /\ proc = [x \in Component |-> [k \in Consumer |-> None]]
  /\ spinning = FALSE
  /\ astray = {}
-----------------------------------------------------------------------------
\* EventManager.would_handle: a stopped node handles nothing, a stopping one only what
\* it contains; and _ComponentEventListener.handles: what the listener is bound to.
Live == {"starting", "running"}
HandlesAll(x, y) == state[x] # "stopped" /\ y \in Accepts[x]
Handles(x, y) ==
  /\ state[x] # "stopped"
  /\ state[x] \notin Live => contains(x, y)
  /\ y \in Accepts[x]

\* emit and propagate: the event reaches every component of the tree, and every
\* component that refers to one, once; each that handles it queues it.
Deliver(y) ==
  queue' = [x \in Component |-> IF Handles(x, y) THEN Append(queue[x], y) ELSE queue[x]]

Slack == \A x \in Component : state[x] # "stopped" => Len(queue[x]) <= QueueMax
Room(y) == \A x \in Component : Handles(x, y) => Len(queue[x]) < QueueMax

\* The component (a routine, a job, a handler, a log call) emits.
Emit(y) ==
  /\ ~spinning
  /\ state[y] \in Live \/ (state[y] # "stopped" /\ y \in Chatty)
  /\ Room(y)
  /\ Deliver(y)
  /\ UNCHANGED <<state, active, proc, spinning, astray>>

\* _queue.get() or get_nowait(): the consumer calls the handler.
Take(x, k) ==
  /\ ~spinning
  /\ k \in active[x]
  /\ proc[x][k] = None
  /\ queue[x] # <<>>
  /\ proc' = [proc EXCEPT ![x][k] = Head(queue[x])]
  /\ queue' = [queue EXCEPT ![x] = Tail(@)]
  /\ UNCHANGED <<state, active, spinning, astray>>

\* The handler returns or raises; task_done().
Handled(x, k) ==
  /\ ~spinning
  /\ proc[x][k] # None
  /\ proc' = [proc EXCEPT ![x][k] = None]
  /\ UNCHANGED <<state, queue, active, spinning, astray>>

\* _queue._finished: nothing is queued and nothing taken is unfinished.
Finished(x) == queue[x] = <<>> /\ \A k \in Consumer : proc[x][k] = None

\* EventManager.settle returns; the one in __stop__ goes on to __post_stop__.
Leave(x, k) ==
  /\ ~spinning
  /\ k \in active[x] \ {"run"}
  /\ proc[x][k] = None
  /\ Finished(x)
  /\ active' = [active EXCEPT ![x] = @ \ {k}]
  /\ state' = IF k = "stop" THEN [state EXCEPT ![x] = "post"] ELSE state
  /\ UNCHANGED <<queue, proc, spinning, astray>>

\* EventManager.settle finds the queue empty and an event unfinished: listener.settle
\* returns at once, and with eager tasks `while not self.settled` runs without an await
\* that suspends.
Spin(x, k) ==
  /\ ~spinning
  /\ k \in active[x] \ {"run"}
  /\ proc[x][k] = None
  /\ queue[x] = <<>>
  /\ ~Finished(x)
  /\ spinning' = TRUE
  /\ UNCHANGED <<state, queue, active, proc, astray>>
-----------------------------------------------------------------------------
\* start() of every component in S: nothing for one that has a task, be it stopping.
Launch(S) ==
  LET begun == {n \in S : state[n] = "stopped"}
      after == [n \in Component |-> IF n \in begun THEN "starting" ELSE state[n]]
  IN  /\ state' = after
      /\ astray' = (astray \ begun) \cup
           {n \in begun : \E a \in Above[n] : after[a] \notin Live \cup {"children"}}

\* ComponentSystem.start: the ancestors, itself, and the enabled descendants, which are
\* reached through enabled ones only.
Start(x) ==
  /\ ~spinning
  /\ Slack
  /\ \E D \in SUBSET {d \in Component : x \in Above[d]} :
       /\ \A d \in D : Parent[d] \in D \cup {x}
       /\ \E n \in Above[x] \cup {x} \cup D : state[n] = "stopped"
       /\ Launch(Above[x] \cup {x} \cup D)
  /\ UNCHANGED <<queue, active, proc, spinning>>

\* __run__ after the __start__ hook: the ancestors are started again, StartedEvent is
\* emitted and the listener's loop starts.
Started(x) ==
  /\ ~spinning
  /\ state[x] = "starting"
  /\ Slack
  /\ LET begun == {a \in Above[x] : state[a] = "stopped"} IN
     /\ state' = [n \in Component |->
          IF n = x THEN "running" ELSE IF n \in begun THEN "starting" ELSE state[n]]
     /\ queue' = [y \in Component |->
          IF x \in Accepts[y] /\ (y \in begun \/ Handles(y, x)) THEN Append(queue[y], x)
          ELSE queue[y]]
     /\ astray' = (astray \ begun) \cup
          {n \in begun : \E a \in Above[n] : state'[a] \notin Live \cup {"children"}}
  /\ active' = [active EXCEPT ![x] = @ \cup {"run"}]
  /\ UNCHANGED <<proc, spinning>>

\* Somebody calls settle() on a component that runs.  (With no listener it returns at
\* once.)
CallSettle(x) ==
  /\ ~spinning
  /\ state[x] \in Live
  /\ Accepts[x] # {}
  /\ active' = [active EXCEPT ![x] = @ \cup {"call"}]
  /\ UNCHANGED <<state, queue, proc, spinning, astray>>

\* stop(), the parent's __stop__ or a failing hook: the tasklet emits StoppingEvent, then cancels the
\* run task, with the handler its loop is in.  A stopping node handles its own events,
\* so the order of the two does not matter.
Stop(x) ==
  /\ ~spinning
  /\ state[x] \in Live
  /\ state' = [state EXCEPT ![x] = "children"]
  /\ Deliver(x)
  /\ active' = [active EXCEPT ![x] = @ \ {"run"}]
  /\ proc' = [proc EXCEPT ![x]["run"] = None]
  /\ UNCHANGED <<spinning, astray>>

\* __stop__ stops the children and, once none runs, settles.
SettleEarly(x) ==
  /\ ~spinning
  /\ state[x] = "children"
  /\ state' = [state EXCEPT ![x] = "settle"]
  /\ active' = [active EXCEPT ![x] = @ \cup {"stop"}]
  /\ UNCHANGED <<queue, proc, spinning, astray>>

StopSettles(x) ==
  /\ ~spinning
  /\ state[x] = "children"
  /\ \A y \in Children(x) : state[y] = "stopped"
  /\ state' = [state EXCEPT ![x] = "settle"]
  /\ active' = [active EXCEPT ![x] = @ \cup {"stop"}]
  /\ UNCHANGED <<queue, proc, spinning, astray>>

\* __post_stop__ flushes and emits StoppedEvent, and the node is stopped before any
\* other step.
PostStop(x) ==
  /\ ~spinning
  /\ state[x] = "post"
  /\ Deliver(x)
  /\ state' = [state EXCEPT ![x] = "stopped"]
  /\ UNCHANGED <<active, proc, spinning, astray>>

EventsNext ==
  \/ \E x \in Component :
       \/ Emit(x)
       \/ Start(x)
       \/ Started(x)
       \/ CallSettle(x)
       \/ Stop(x)
       \/ StopSettles(x)
       \/ PostStop(x)
  \/ \E x \in Component, k \in Consumer :
       \/ Take(x, k)
       \/ Handled(x, k)
       \/ Leave(x, k)
       \/ Spin(x, k)
  \/ spinning /\ UNCHANGED eventVars

EventsSpec == EventsInit /\ [][EventsNext]_eventVars

\* The parent's __stop__ calls stop() on a child that runs.
StopChild(x) == Parent[x] # None /\ state[Parent[x]] = "children" /\ Stop(x)

\* Consumers get their turn and handlers return; a stopping component stops its
\* children and goes on.  Nobody is obliged to emit, to start or to call settle().
EventsFairness ==
  /\ \A x \in Component, k \in Consumer :
       /\ WF_eventVars(Take(x, k))
       /\ WF_eventVars(Handled(x, k))
       /\ WF_eventVars(Leave(x, k))
  /\ \A x \in Component :
       /\ WF_eventVars(StopChild(x))
       /\ WF_eventVars(StopSettles(x))
       /\ WF_eventVars(PostStop(x))

FairEventsSpec == EventsSpec /\ EventsFairness
-----------------------------------------------------------------------------
\* What stopping leaves behind is the component's own (its StoppedEvent, and what it
\* emitted after __stop__ had settled): every event of the components below it, their
\* StoppedEvents included, was handled before it stopped.  Only a component that was
\* started below it after it had stopped its children can be the sender of another.
OnlyOwnLeft ==
  \A x \in Component : state[x] = "stopped" =>
    \A i \in DOMAIN queue[x] :
      queue[x][i] # x => queue[x][i] \in astray /\ x \in Above[queue[x][i]]

\* Something below x is being started, or was started too late to be stopped by x.
Disturbed(x) ==
  \E y \in Component :
    x \in Above[y] /\ (state[y] = "starting" \/ (y \in astray /\ state[y] # "stopped"))

\* A component that stops gets to be stopped, however much the others keep emitting,
\* unless it is kept from it by components started below it meanwhile, or by a settle()
\* that is not the one of a __stop__ and makes the event loop spin.
StopEnds ==
  \A x \in Component :
    state[x] \in {"children", "settle", "post"} ~>
      \/ state[x] = "stopped"
      \/ Disturbed(x)
      \/ spinning /\ \E y \in Component : "call" \in active[y]
=============================================================================
