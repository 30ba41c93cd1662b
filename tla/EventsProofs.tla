---------------------------- MODULE EventsProofs ----------------------------
(***************************************************************************)
(* What stopping leaves in a listener's queue, for every tree of           *)
(* components.                                                             *)
(*                                                                         *)
(* A queue keeps what nobody takes any more, so the invariant looks at the *)
(* queue from the moment the settling of __stop__ returns (OwnQueued).     *)
(* From then on only what was started too late may emit below the          *)
(* component, which follows from the order in which a tree stops           *)
(* (LiveUnderLive): any other component that has not stopped is below ones *)
(* that are not yet past the stopping of their children.                   *)
(***************************************************************************)
EXTENDS Events, FiniteSetTheorems, SequenceTheorems, FunctionTheorems, TLAPS

States == {"stopped", "starting", "running", "children", "settle", "post"}

EventsType ==
  /\ state \in [Component -> States]
  /\ queue \in [Component -> Seq(Component)]
  /\ active \in [Component -> SUBSET Consumer]
  /\ astray \subseteq Component

(* Only a component that settles in __stop__ has the consumer of __stop__.   *)
StopperSettles == \A x \in Component : "stop" \in active[x] => state[x] = "settle"

(* A component that stops its children has all of them before it still.      *)
Holding == Live \cup {"children"}

(* Everything above a component that has not stopped runs or stops its children, unless
   the component was started after that.                                     *)
LiveUnderLive ==
  \A y \in Component :
    state[y] # "stopped" /\ y \notin astray => \A a \in Above[y] : state[a] \in Holding

(* Whose events a settled component may find in its queue.                   *)
Leftover(x, y) == y = x \/ (y \in astray /\ x \in Above[y])

(* Once settled, a queue holds the component's own events, and those of what was started
   below it too late.                                                        *)
OwnQueued ==
  \A x \in Component :
    state[x] \in {"post", "stopped"} => \A i \in 1..Len(queue[x]) : Leftover(x, queue[x][i])

EventsInv == EventsType /\ StopperSettles /\ LiveUnderLive /\ OwnQueued

LEMMA AboveOf ==
  ASSUME NEW y \in Component
  PROVE  Above[y] \subseteq Component /\ ClosedAbove(y, Above[y])
<1>1. Above[y] \subseteq Component BY DEF Above
<1>2. ASSUME NEW z \in Above[y] \cup {y}, Parent[z] # None PROVE Parent[z] \in Above[y]
  <2>1. z \in Component /\ Parent[z] \in Component BY <1>1, <1>2, EventsAssumption
  <2>2. ASSUME NEW S \in SUBSET Component, ClosedAbove(y, S) PROVE Parent[z] \in S
    <3>1. z \in S \cup {y} BY <2>2 DEF Above
    <3> QED BY <1>2, <2>2, <3>1 DEF ClosedAbove
  <2> QED BY <2>1, <2>2 DEF Above
<1> QED BY <1>1, <1>2 DEF ClosedAbove

(* What is below a component is one of its children or below one of them.    *)
LEMMA ChildBetween ==
  ASSUME NEW y \in Component, NEW x \in Above[y]
  PROVE  \E b \in Children(x) : b = y \/ b \in Above[y]
<1> SUFFICES ASSUME \A b \in Children(x) : b # y /\ b \notin Above[y] PROVE FALSE
  OBVIOUS
<1> DEFINE S == Above[y] \ {x}
<1>1. Above[y] \subseteq Component /\ ClosedAbove(y, Above[y]) BY AboveOf
<1>2. ASSUME NEW z \in S \cup {y}, Parent[z] # None PROVE Parent[z] \in S
  <2>1. z \in Component /\ Parent[z] \in Above[y] BY <1>1, <1>2 DEF ClosedAbove
  <2>2. z \notin Children(x) BY <1>2
  <2> QED BY <2>1, <2>2 DEF Children
<1>3. ClosedAbove(y, S) BY <1>2 DEF ClosedAbove
<1>4. S \in SUBSET Component BY <1>1
<1>5. x \in S BY <1>3, <1>4 DEF Above
<1> QED BY <1>5

(* A settled component handles its own events and those of what went astray below it. *)
LEMMA SettledHandlesOwn ==
  ASSUME EventsInv, NEW x \in Component, NEW y \in Component, state[y] # "stopped",
         state[x] \in {"post", "stopped"}, Handles(x, y)
  PROVE  Leftover(x, y)
<1>1. state[x] # "stopped" /\ state[x] \notin Live BY DEF Handles, Live
<1>2. contains(x, y) BY <1>1 DEF Handles
<1>3. state[x] \notin Holding BY <1>1 DEF Holding, Live
<1>4. CASE x \in Above[y]
  <2>1. y \in astray BY <1>3, <1>4 DEF EventsInv, LiveUnderLive
  <2> QED BY <1>4, <2>1 DEF Leftover
<1> QED BY <1>2, <1>4 DEF contains, Leftover

LEMMA AppendOwn ==
  ASSUME NEW x \in Component, NEW q \in Seq(Component), NEW y \in Component
  PROVE  /\ Append(q, y) \in Seq(Component)
         /\ Leftover(x, y) /\ (\A i \in 1..Len(q) : Leftover(x, q[i])) =>
              \A i \in 1..Len(Append(q, y)) : Leftover(x, Append(q, y)[i])
<1>1. /\ Append(q, y) \in Seq(Component) /\ Len(q) \in Nat /\ Len(Append(q, y)) = Len(q) + 1
      /\ Append(q, y)[Len(q) + 1] = y /\ \A i \in 1..Len(q) : Append(q, y)[i] = q[i]
  OBVIOUS
<1>2. \A i \in 1..(Len(q) + 1) : i \in 1..Len(q) \/ i = Len(q) + 1 BY <1>1
<1> QED BY <1>1, <1>2

(* What an emission adds to the queues.                                      *)
LEMMA DeliverKeeps ==
  ASSUME EventsInv, NEW y \in Component, state[y] # "stopped", Deliver(y)
  PROVE  /\ queue' \in [Component -> Seq(Component)]
         /\ \A x \in Component : state[x] \in {"post", "stopped"} =>
              \A i \in 1..Len(queue'[x]) : Leftover(x, queue'[x][i])
<1>1. queue \in [Component -> Seq(Component)] BY DEF EventsInv, EventsType
<1>2. \A x \in Component : queue'[x] = IF Handles(x, y) THEN Append(queue[x], y) ELSE queue[x]
  BY DEF Deliver
<1>3. queue' = [x \in Component |-> queue'[x]] BY DEF Deliver
<1>4. ASSUME NEW x \in Component PROVE queue'[x] \in Seq(Component)
  <2>1. queue[x] \in Seq(Component) BY <1>1
  <2>2. Append(queue[x], y) \in Seq(Component) BY <2>1, AppendOwn
  <2> QED BY <1>2, <2>1, <2>2
<1>5. ASSUME NEW x \in Component, state[x] \in {"post", "stopped"}
      PROVE  \A i \in 1..Len(queue'[x]) : Leftover(x, queue'[x][i])
  <2>1. \A i \in 1..Len(queue[x]) : Leftover(x, queue[x][i]) BY <1>5 DEF EventsInv, OwnQueued
  <2>2. CASE Handles(x, y)
    <3>1. Leftover(x, y) BY <1>5, <2>2, SettledHandlesOwn
    <3>2. queue'[x] = Append(queue[x], y) /\ queue[x] \in Seq(Component) BY <1>1, <1>2, <2>2
    <3> QED BY <2>1, <3>1, <3>2, AppendOwn
  <2>3. CASE ~Handles(x, y) BY <1>2, <2>1, <2>3
  <2> QED BY <2>2, <2>3
<1> QED BY <1>3, <1>4, <1>5

LEMMA EventsInitially == EventsInit => EventsInv
<1> SUFFICES ASSUME EventsInit PROVE EventsInv OBVIOUS
<1>1. EventsType BY DEF EventsInit, EventsType, States
<1>2. StopperSettles BY DEF EventsInit, StopperSettles
<1>3. LiveUnderLive BY DEF EventsInit, LiveUnderLive
<1>4. OwnQueued
  <2>1. \A x \in Component : queue[x] = <<>> BY DEF EventsInit
  <2> QED BY <2>1 DEF OwnQueued
<1> QED BY <1>1, <1>2, <1>3, <1>4 DEF EventsInv

LEMMA EmitKeeps == ASSUME EventsInv, NEW y \in Component, Emit(y) PROVE EventsInv'
<1>1. state[y] # "stopped" /\ Deliver(y) /\ UNCHANGED <<state, active, astray>>
  BY DEF Emit, Live
<1> QED
  BY <1>1, DeliverKeeps
  DEF EventsInv, EventsType, StopperSettles, LiveUnderLive, OwnQueued, Leftover

LEMMA TakeKeeps ==
  ASSUME EventsInv, NEW x \in Component, NEW k \in Consumer, Take(x, k)
  PROVE  EventsInv'
<1>1. /\ queue[x] # <<>> /\ queue' = [queue EXCEPT ![x] = Tail(@)]
      /\ UNCHANGED <<state, active, astray>>
  BY DEF Take
<1>2. queue \in [Component -> Seq(Component)] BY DEF EventsInv, EventsType
<1>3. /\ Tail(queue[x]) \in Seq(Component) /\ Len(Tail(queue[x])) = Len(queue[x]) - 1
      /\ \A i \in 1..Len(Tail(queue[x])) : Tail(queue[x])[i] = queue[x][i + 1]
      /\ Len(queue[x]) \in Nat
  BY <1>1, <1>2
<1>4. queue' \in [Component -> Seq(Component)] BY <1>1, <1>2, <1>3
<1>5. \A y \in Component : queue'[y] = IF y = x THEN Tail(queue[x]) ELSE queue[y] BY <1>1, <1>2
<1>6. OwnQueued' BY <1>1, <1>3, <1>5 DEF EventsInv, OwnQueued, Leftover
<1> QED BY <1>1, <1>4, <1>6 DEF EventsInv, EventsType, StopperSettles, LiveUnderLive

(* settle() returns; the one of __stop__ leaves an empty queue.              *)
LEMMA LeaveKeeps ==
  ASSUME EventsInv, NEW x \in Component, NEW k \in Consumer, Leave(x, k)
  PROVE  EventsInv'
<1>1. /\ k \in active[x] /\ queue[x] = <<>> /\ UNCHANGED <<queue, astray>>
      /\ active' = [active EXCEPT ![x] = @ \ {k}]
      /\ state' = IF k = "stop" THEN [state EXCEPT ![x] = "post"] ELSE state
  BY DEF Leave, Finished
<1>2. k = "stop" => state[x] = "settle" BY <1>1 DEF EventsInv, StopperSettles
<1>3. EventsType' BY <1>1 DEF EventsInv, EventsType, States
<1>4. /\ \A y \in Component : state'[y] = IF y = x /\ k = "stop" THEN "post" ELSE state[y]
      /\ \A y \in Component : active'[y] = IF y = x THEN active[x] \ {k} ELSE active[y]
  BY <1>1 DEF EventsInv, EventsType
<1>5. StopperSettles' BY <1>4 DEF EventsInv, StopperSettles
<1>6. LiveUnderLive'
  BY <1>1, <1>2, <1>4, AboveOf DEF EventsInv, LiveUnderLive, Holding, Live
<1>7. OwnQueued' BY <1>1, <1>4 DEF EventsInv, OwnQueued, Leftover
<1> QED BY <1>3, <1>5, <1>6, <1>7 DEF EventsInv

(* Whoever is started is under components that hold it, or goes astray.      *)
LEMMA BegunUnderLive ==
  ASSUME EventsInv, NEW begun \in SUBSET Component, \A n \in begun : state[n] = "stopped",
         \A n \in begun : state'[n] = "starting",
         \A n \in Component \ begun :
           /\ state[n] \in Holding => state'[n] \in Holding
           /\ state'[n] # "stopped" => state[n] # "stopped",
         astray' = (astray \ begun) \cup
           {n \in begun : \E a \in Above[n] : state'[a] \notin Holding}
  PROVE  /\ astray' \subseteq Component
         /\ LiveUnderLive'
         /\ \A n \in astray \ astray' : \A a \in Above[n] : state'[a] \in Holding
<1>1. astray' \subseteq Component BY DEF EventsInv, EventsType
<1>2. ASSUME NEW y \in Component, state'[y] # "stopped", y \notin astray', NEW a \in Above[y]
      PROVE  state'[a] \in Holding
  <2>1. CASE y \in begun BY <1>2, <2>1
  <2>2. CASE y \notin begun
    <3>1. state[y] # "stopped" /\ y \notin astray BY <1>2, <2>2
    <3>2. state[a] \in Holding BY <1>2, <3>1 DEF EventsInv, LiveUnderLive
    <3>3. a \in Component /\ a \notin begun BY <1>2, <3>2, AboveOf DEF Holding, Live
    <3> QED BY <3>2, <3>3
  <2> QED BY <2>1, <2>2
<1>3. LiveUnderLive' BY <1>2 DEF LiveUnderLive
<1> QED BY <1>1, <1>3

LEMMA StartKeeps == ASSUME EventsInv, NEW x \in Component, Start(x) PROVE EventsInv'
<1>1. PICK D \in SUBSET {d \in Component : x \in Above[d]} : Launch(Above[x] \cup {x} \cup D)
  BY DEF Start
<1> DEFINE S == Above[x] \cup {x} \cup D
           begun == {n \in S : state[n] = "stopped"}
<1>2. begun \in SUBSET Component BY AboveOf
<1>3. /\ state' = [n \in Component |-> IF n \in begun THEN "starting" ELSE state[n]]
      /\ astray' = (astray \ begun) \cup
           {n \in begun : \E a \in Above[n] : state'[a] \notin Holding}
      /\ UNCHANGED <<queue, active>>
  BY <1>1 DEF Launch, Start, Holding
<1>4. /\ \A n \in begun : state[n] = "stopped" /\ state'[n] = "starting"
      /\ \A n \in Component \ begun : state'[n] = state[n]
  BY <1>2, <1>3
<1> HIDE DEF begun
<1>5. /\ astray' \subseteq Component /\ LiveUnderLive'
      /\ \A n \in astray \ astray' : \A a \in Above[n] : state'[a] \in Holding
  BY <1>2, <1>3, <1>4, BegunUnderLive
<1>6. EventsType' BY <1>3, <1>5 DEF EventsInv, EventsType, States
<1>7. StopperSettles' BY <1>2, <1>3, <1>4 DEF EventsInv, StopperSettles
<1>8. OwnQueued'
  <2> SUFFICES ASSUME NEW y \in Component, state'[y] \in {"post", "stopped"},
                      NEW i \in 1..Len(queue[y])
               PROVE  Leftover(y, queue[y][i])'
    BY <1>3 DEF OwnQueued
  <2>1. state[y] \in {"post", "stopped"} /\ state'[y] \notin Holding
    BY <1>4 DEF Holding, Live
  <2>2. Leftover(y, queue[y][i]) BY <2>1 DEF EventsInv, OwnQueued
  <2> QED BY <1>3, <1>5, <2>1, <2>2 DEF Leftover
<1> QED BY <1>5, <1>6, <1>7, <1>8 DEF EventsInv

LEMMA StartedKeeps == ASSUME EventsInv, NEW x \in Component, Started(x) PROVE EventsInv'
<1> DEFINE begun == {a \in Above[x] : state[a] = "stopped"}
<1>1. /\ state[x] = "starting"
      /\ state' = [n \in Component |->
           IF n = x THEN "running" ELSE IF n \in begun THEN "starting" ELSE state[n]]
      /\ queue' = [y \in Component |->
           IF x \in Accepts[y] /\ (y \in begun \/ Handles(y, x)) THEN Append(queue[y], x)
           ELSE queue[y]]
      /\ astray' = (astray \ begun) \cup
           {n \in begun : \E a \in Above[n] : state'[a] \notin Holding}
      /\ active' = [active EXCEPT ![x] = @ \cup {"run"}]
  BY DEF Started, Holding
<1>2. begun \in SUBSET Component /\ x \notin begun BY <1>1, AboveOf
<1>3. /\ \A n \in begun : state[n] = "stopped" /\ state'[n] = "starting"
      /\ \A n \in Component \ begun : state'[n] = IF n = x THEN "running" ELSE state[n]
  BY <1>1, <1>2
<1> HIDE DEF begun
<1>4. /\ astray' \subseteq Component /\ LiveUnderLive'
      /\ \A n \in astray \ astray' : \A a \in Above[n] : state'[a] \in Holding
  <2>1. \A n \in Component \ begun :
          /\ state[n] \in Holding => state'[n] \in Holding
          /\ state'[n] # "stopped" => state[n] # "stopped"
    BY <1>1, <1>3 DEF Holding, Live
  <2> QED BY <1>1, <1>2, <1>3, <2>1, BegunUnderLive
<1>5. /\ state \in [Component -> States] /\ queue \in [Component -> Seq(Component)]
      /\ active \in [Component -> SUBSET Consumer]
  BY DEF EventsInv, EventsType
<1>6. ASSUME NEW y \in Component PROVE queue'[y] \in Seq(Component)
  <2>1. queue[y] \in Seq(Component) BY <1>5
  <2>2. Append(queue[y], x) \in Seq(Component) BY <2>1, AppendOwn
  <2> QED BY <1>1, <2>1, <2>2
<1>7. queue' \in [Component -> Seq(Component)] BY <1>1, <1>6
<1>8. EventsType' BY <1>1, <1>4, <1>5, <1>7 DEF EventsType, States, Consumer
<1>9. StopperSettles'
  <2>1. \A y \in Component : "stop" \in active'[y] => "stop" \in active[y] BY <1>1, <1>5
  <2>2. \A y \in Component : state[y] = "settle" => state'[y] = "settle" BY <1>1, <1>3
  <2> QED BY <2>1, <2>2 DEF EventsInv, StopperSettles
<1>10. OwnQueued'
  <2> SUFFICES ASSUME NEW y \in Component, state'[y] \in {"post", "stopped"},
                      NEW i \in 1..Len(queue'[y])
               PROVE  Leftover(y, queue[y][i])'
    BY DEF OwnQueued
  <2>1. /\ y # x /\ y \notin begun /\ state[y] \in {"post", "stopped"}
        /\ state'[y] \notin Holding
    BY <1>3 DEF Holding, Live
  <2>2. \A j \in 1..Len(queue[y]) : Leftover(y, queue[y][j])
    BY <2>1 DEF EventsInv, OwnQueued
  <2>3. Leftover(y, queue'[y][i])
    <3>1. CASE Handles(y, x) /\ queue'[y] = Append(queue[y], x)
      <4>1. Leftover(y, x) BY <1>1, <2>1, <3>1, SettledHandlesOwn
      <4> QED BY <1>5, <2>2, <3>1, <4>1, AppendOwn
    <3>2. CASE queue'[y] = queue[y] BY <2>2, <3>2
    <3> QED BY <1>1, <2>1, <3>1, <3>2
  <2> QED BY <1>4, <2>1, <2>3 DEF Leftover
<1> QED BY <1>4, <1>8, <1>9, <1>10 DEF EventsInv

LEMMA StopKeeps == ASSUME EventsInv, NEW x \in Component, Stop(x) PROVE EventsInv'
<1>1. /\ state[x] \in Live /\ state' = [state EXCEPT ![x] = "children"] /\ Deliver(x)
      /\ active' = [active EXCEPT ![x] = @ \ {"run"}] /\ UNCHANGED astray
  BY DEF Stop
<1>2. /\ state \in [Component -> States] /\ active \in [Component -> SUBSET Consumer]
  BY DEF EventsInv, EventsType
<1>3. /\ \A y \in Component : state'[y] = IF y = x THEN "children" ELSE state[y]
      /\ \A y \in Component : "stop" \in active'[y] => "stop" \in active[y]
  BY <1>1, <1>2
<1>4. /\ queue' \in [Component -> Seq(Component)]
      /\ \A y \in Component : state[y] \in {"post", "stopped"} =>
           \A i \in 1..Len(queue'[y]) : Leftover(y, queue'[y][i])
  BY <1>1, DeliverKeeps DEF Live
<1>5. EventsType' BY <1>1, <1>2, <1>4 DEF EventsInv, EventsType, States
<1>6. StopperSettles' BY <1>1, <1>3 DEF EventsInv, StopperSettles, Live
<1>7. LiveUnderLive'
  BY <1>1, <1>3, AboveOf DEF EventsInv, LiveUnderLive, Holding, Live
<1>8. OwnQueued' BY <1>1, <1>3, <1>4 DEF OwnQueued, Leftover
<1> QED BY <1>5, <1>6, <1>7, <1>8 DEF EventsInv

(* __stop__ goes on only when no child is left.                              *)
LEMMA SettleKeeps == ASSUME EventsInv, NEW x \in Component, StopSettles(x) PROVE EventsInv'
<1>1. /\ state[x] = "children" /\ \A y \in Children(x) : state[y] = "stopped"
      /\ state' = [state EXCEPT ![x] = "settle"] /\ UNCHANGED <<queue, astray>>
      /\ active' = [active EXCEPT ![x] = @ \cup {"stop"}]
  BY DEF StopSettles
<1>2. /\ state \in [Component -> States] /\ active \in [Component -> SUBSET Consumer]
  BY DEF EventsInv, EventsType
<1>3. /\ \A y \in Component : state'[y] = IF y = x THEN "settle" ELSE state[y]
      /\ \A y \in Component : y # x => active'[y] = active[y]
  BY <1>1, <1>2
<1>4. EventsType' BY <1>1, <1>2 DEF EventsInv, EventsType, States, Consumer
<1>5. StopperSettles' BY <1>3 DEF EventsInv, StopperSettles
<1>6. ASSUME NEW y \in Component, state'[y] # "stopped", y \notin astray', NEW a \in Above[y]
      PROVE  state'[a] \in Holding
  <2>1. state[y] # "stopped" /\ y \notin astray BY <1>1, <1>3, <1>6
  <2>2. \A b \in Above[y] : state[b] \in Holding BY <2>1 DEF EventsInv, LiveUnderLive
  <2>3. a # x
    <3> SUFFICES ASSUME a = x PROVE FALSE OBVIOUS
    <3>1. PICK b \in Children(x) : b = y \/ b \in Above[y] BY <1>6, ChildBetween
    <3>2. state[b] = "stopped" BY <1>1, <3>1
    <3> QED BY <2>1, <2>2, <3>1, <3>2 DEF Holding, Live
  <2>4. a \in Component BY <1>6, AboveOf
  <2> QED BY <1>3, <1>6, <2>2, <2>3, <2>4
<1>7. LiveUnderLive' BY <1>6 DEF LiveUnderLive
<1>8. OwnQueued' BY <1>1, <1>3 DEF EventsInv, OwnQueued, Leftover
<1> QED BY <1>4, <1>5, <1>7, <1>8 DEF EventsInv

LEMMA PostStopKeeps == ASSUME EventsInv, NEW x \in Component, PostStop(x) PROVE EventsInv'
<1>1. /\ state[x] = "post" /\ state' = [state EXCEPT ![x] = "stopped"] /\ Deliver(x)
      /\ UNCHANGED <<active, astray>>
  BY DEF PostStop
<1>2. state \in [Component -> States] BY DEF EventsInv, EventsType
<1>3. \A y \in Component : state'[y] = IF y = x THEN "stopped" ELSE state[y] BY <1>1, <1>2
<1>4. /\ queue' \in [Component -> Seq(Component)]
      /\ \A y \in Component : state[y] \in {"post", "stopped"} =>
           \A i \in 1..Len(queue'[y]) : Leftover(y, queue'[y][i])
  BY <1>1, DeliverKeeps
<1>5. EventsType' BY <1>1, <1>2, <1>4 DEF EventsInv, EventsType, States
<1>6. StopperSettles' BY <1>1, <1>3 DEF EventsInv, StopperSettles
<1>7. LiveUnderLive'
  BY <1>1, <1>3, AboveOf DEF EventsInv, LiveUnderLive, Holding, Live
<1>8. OwnQueued' BY <1>1, <1>3, <1>4 DEF OwnQueued, Leftover
<1> QED BY <1>5, <1>6, <1>7, <1>8 DEF EventsInv

LEMMA EventsKeep == EventsInv /\ [EventsNext]_eventVars => EventsInv'
<1> SUFFICES ASSUME EventsInv, [EventsNext]_eventVars PROVE EventsInv' OBVIOUS
<1>1. CASE UNCHANGED <<state, queue, astray>> /\ active' \in [Component -> SUBSET Consumer]
           /\ \A x \in Component : "stop" \in active'[x] => "stop" \in active[x]
  BY <1>1 DEF EventsInv, EventsType, StopperSettles, LiveUnderLive, OwnQueued, Leftover
<1>2. ASSUME NEW x \in Component, NEW k \in Consumer, Handled(x, k) \/ Spin(x, k)
      PROVE  EventsInv'
  BY <1>1, <1>2 DEF Handled, Spin, EventsInv, EventsType
<1>3. ASSUME NEW x \in Component, CallSettle(x) PROVE EventsInv'
  <2>1. /\ UNCHANGED <<state, queue, astray>>
        /\ active' = [active EXCEPT ![x] = @ \cup {"call"}]
    BY <1>3 DEF CallSettle
  <2>2. active' \in [Component -> SUBSET Consumer] BY <2>1 DEF EventsInv, EventsType, Consumer
  <2> QED BY <1>1, <2>1, <2>2 DEF EventsInv, EventsType
<1>4. CASE UNCHANGED eventVars BY <1>1, <1>4 DEF eventVars, EventsInv, EventsType
<1> QED
  BY <1>2, <1>3, <1>4, EmitKeeps, TakeKeeps, LeaveKeeps, StartKeeps, StartedKeeps, StopKeeps,
     SettleKeeps, PostStopKeeps
  DEF EventsNext

(* The state of the listeners is well typed for any tree.                    *)
THEOREM EventsTyped == EventsSpec => []EventsType
<1>1. EventsInv => EventsType BY DEF EventsInv
<1> QED BY <1>1, EventsInitially, EventsKeep, PTL DEF EventsSpec

(* A component that has stopped was handed every event of the components below it, in any
   tree and whatever the others emit, start, stop or settle meanwhile: what its queue still
   holds is its own (ComponentSystem.__stop__, __post_stop__), or of a component that was
   started below it once it had stopped its children.                        *)
THEOREM AlwaysOnlyOwnLeft == EventsSpec => []OnlyOwnLeft
<1>1. EventsInv => OnlyOwnLeft
  <2> SUFFICES ASSUME EventsInv, NEW x \in Component, state[x] = "stopped",
                      NEW i \in DOMAIN queue[x]
               PROVE  Leftover(x, queue[x][i])
    BY DEF OnlyOwnLeft, Leftover
  <2>1. queue[x] \in Seq(Component) BY DEF EventsInv, EventsType
  <2>2. i \in 1..Len(queue[x]) BY <2>1
  <2> QED BY <2>2 DEF EventsInv, OwnQueued
<1> QED BY <1>1, EventsInitially, EventsKeep, PTL DEF EventsSpec
=============================================================================
