--------------------------- MODULE OperatorProofs ---------------------------
(***************************************************************************)
(* Proofs about what surrounds the engine, each for every value of its     *)
(* module's bounds: the service comes back after a reboot (Service), the   *)
(* watching parent runs what is there (Watch), the server's streams are    *)
(* forwarded whole (Streams), and its listeners share one media server     *)
(* (Serving).                                                              *)
(***************************************************************************)
EXTENDS Streams, Serving, Service, Watch, TLAPS

----------------------------------------------------------------------------
(* The service.  What is left of a command says how far it got: a start past its write has
   a definition, one past its first enable is enabled, and a stop past its first program
   has an inactive unit.  A systemd start that is past its first program has seen to the
   user's lingering, or has warned.                                                       *)
Preludes == { <<"linger", "await">>, <<"await">> }
SystemdStarts == { <<"write", "reload", "enable", "reload", "start", "enable">>,
                   <<"write", "enable", "reload", "start", "enable">> }
SystemdWritten == { <<"reload", "enable", "reload", "start", "enable">>,
                    <<"enable", "reload", "start", "enable">> }
SystemdEnabled == { <<"reload", "start", "enable">>, <<"start", "enable">>, <<"enable">> }
SystemdStops == { <<"stop", "disable", "delete">> }
SystemdStopped == { <<"disable", "delete">>, <<"delete">> }

LaunchdStarts == { <<"write", "enable", "load", "enable", "launch">> }
LaunchdWritten == { <<"enable", "load", "enable", "launch">> }
LaunchdEnabled == { <<"load", "enable", "launch">>, <<"enable", "launch">>, <<"launch">> }
LaunchdStops == { <<"unload", "delete">> }
LaunchdStopped == { <<"delete">> }

Written(todo) == todo \in SystemdWritten \cup LaunchdWritten
Enabled(todo) == todo \in SystemdEnabled \cup LaunchdEnabled
Stopped(todo) == todo \in SystemdStopped \cup LaunchdStopped

AllLists ==
  {<<>>} \cup Preludes \cup SystemdStarts \cup SystemdWritten \cup SystemdEnabled \cup SystemdStops
  \cup SystemdStopped \cup LaunchdStarts \cup LaunchdWritten \cup LaunchdEnabled
  \cup LaunchdStops \cup LaunchdStopped

ServiceType ==
  /\ manager \in Managers
  /\ wanted \in Nat \ {0}
  /\ definition \in Nat
  /\ unit \in [loaded : Nat, enabled : BOOLEAN,
               active : {"inactive", "active", "restarting", "exited"}]
  /\ user \in [session : BOOLEAN, linger : BOOLEAN, bus : BOOLEAN, other : BOOLEAN]
  /\ command \in [verb : {"none", "start", "stop"}, todo : AllLists,
                  result : {"none", "already", "running", "done", "failed"}, warned : BOOLEAN]

Todo ==
  command.result = "running" =>
    \/ /\ command.verb = "start" /\ manager = "systemd"
       /\ command.todo \in Preludes \cup SystemdStarts \cup SystemdWritten \cup SystemdEnabled
    \/ /\ command.verb = "start" /\ manager = "launchd"
       /\ command.todo \in LaunchdStarts \cup LaunchdWritten \cup LaunchdEnabled
    \/ /\ command.verb = "stop" /\ manager = "systemd"
       /\ command.todo \in SystemdStops \cup SystemdStopped
    \/ /\ command.verb = "stop" /\ manager = "launchd"
       /\ command.todo \in LaunchdStops \cup LaunchdStopped

Progress ==
  command.result = "running" =>
    /\ Written(command.todo) => definition # 0
    /\ Enabled(command.todo) => definition # 0 /\ unit.enabled
    /\ Stopped(command.todo) => unit.active = "inactive"

\* A unit that runs, or waits to run again, and a loaded job, are registered.
Registered ==
  /\ manager = "systemd" /\ unit.active # "inactive" => unit.enabled /\ definition # 0
  /\ manager = "launchd" /\ unit.loaded # 0 => unit.enabled

Comes ==
  command.verb = "start" /\ command.result \in {"done", "already"} =>
    unit.enabled /\ definition # 0

ServiceInv == ServiceType /\ Todo /\ Progress /\ Registered /\ Comes

Lingers ==
  /\ command.verb = "start" /\ manager = "systemd"
  /\ \/ command.result \in {"done", "already"}
     \/ command.result = "running" /\ command.todo # <<"linger", "await">>
  => user.linger \/ command.warned \/ user.other

\* The manager that a stop talks to stays while it runs.
BusHeld == manager = "systemd" /\ command.verb = "stop" /\ command.result = "running" => user.bus

(* What runs next, and what is left then.                                    *)
LEMMA Lists ==
  /\ Head(<<"linger", "await">>) = "linger"
  /\ Tail(<<"linger", "await">>) = <<"await">>
  /\ Head(<<"await">>) = "await"
  /\ Head(<<"write", "reload", "enable", "reload", "start", "enable">>) = "write"
  /\ Tail(<<"write", "reload", "enable", "reload", "start", "enable">>) = <<"reload", "enable", "reload", "start", "enable">>
  /\ Head(<<"reload", "enable", "reload", "start", "enable">>) = "reload"
  /\ Tail(<<"reload", "enable", "reload", "start", "enable">>) = <<"enable", "reload", "start", "enable">>
  /\ Head(<<"enable", "reload", "start", "enable">>) = "enable"
  /\ Tail(<<"enable", "reload", "start", "enable">>) = <<"reload", "start", "enable">>
  /\ Head(<<"reload", "start", "enable">>) = "reload"
  /\ Tail(<<"reload", "start", "enable">>) = <<"start", "enable">>
  /\ Head(<<"start", "enable">>) = "start"
  /\ Tail(<<"start", "enable">>) = <<"enable">>
  /\ Head(<<"enable">>) = "enable"
  /\ Tail(<<"enable">>) = <<>>
  /\ Head(<<"write", "enable", "reload", "start", "enable">>) = "write"
  /\ Tail(<<"write", "enable", "reload", "start", "enable">>) = <<"enable", "reload", "start", "enable">>
  /\ Head(<<"stop", "disable", "delete">>) = "stop"
  /\ Tail(<<"stop", "disable", "delete">>) = <<"disable", "delete">>
  /\ Head(<<"disable", "delete">>) = "disable"
  /\ Tail(<<"disable", "delete">>) = <<"delete">>
  /\ Head(<<"delete">>) = "delete"
  /\ Tail(<<"delete">>) = <<>>
  /\ Head(<<"write", "enable", "load", "enable", "launch">>) = "write"
  /\ Tail(<<"write", "enable", "load", "enable", "launch">>) = <<"enable", "load", "enable", "launch">>
  /\ Head(<<"enable", "load", "enable", "launch">>) = "enable"
  /\ Tail(<<"enable", "load", "enable", "launch">>) = <<"load", "enable", "launch">>
  /\ Head(<<"load", "enable", "launch">>) = "load"
  /\ Tail(<<"load", "enable", "launch">>) = <<"enable", "launch">>
  /\ Head(<<"enable", "launch">>) = "enable"
  /\ Tail(<<"enable", "launch">>) = <<"launch">>
  /\ Head(<<"launch">>) = "launch"
  /\ Tail(<<"launch">>) = <<>>
  /\ Head(<<"unload", "delete">>) = "unload"
  /\ Tail(<<"unload", "delete">>) = <<"delete">>
OBVIOUS

LEMMA SystemdLists ==
  ASSUME NEW todo
  PROVE  /\ todo \in SystemdStarts => Head(todo) = "write" /\ Tail(todo) \in SystemdWritten
         /\ todo \in SystemdWritten =>
              \/ Head(todo) = "reload" /\ Tail(todo) \in SystemdWritten
              \/ Head(todo) = "enable" /\ Tail(todo) \in SystemdEnabled
         /\ todo \in SystemdEnabled =>
              \/ Head(todo) \in {"reload", "start"} /\ Tail(todo) \in SystemdEnabled
              \/ Head(todo) = "enable" /\ Tail(todo) = <<>>
         /\ todo \in SystemdStops => Head(todo) = "stop" /\ Tail(todo) \in SystemdStopped
         /\ todo \in SystemdStopped =>
              \/ Head(todo) = "disable" /\ Tail(todo) \in SystemdStopped
              \/ Head(todo) = "delete" /\ Tail(todo) = <<>>
<1>1. todo \in SystemdStarts => Head(todo) = "write" /\ Tail(todo) \in SystemdWritten
  BY Lists, Zenon DEF SystemdStarts, SystemdWritten
<1>2. todo \in SystemdWritten =>
              \/ Head(todo) = "reload" /\ Tail(todo) \in SystemdWritten
              \/ Head(todo) = "enable" /\ Tail(todo) \in SystemdEnabled
  BY Lists, Zenon DEF SystemdWritten, SystemdEnabled
<1>3. todo \in SystemdEnabled =>
              \/ Head(todo) \in {"reload", "start"} /\ Tail(todo) \in SystemdEnabled
              \/ Head(todo) = "enable" /\ Tail(todo) = <<>>
  BY Lists, Zenon DEF SystemdEnabled
<1>4. todo \in SystemdStops => Head(todo) = "stop" /\ Tail(todo) \in SystemdStopped
  BY Lists, Zenon DEF SystemdStops, SystemdStopped
<1>5. todo \in SystemdStopped =>
              \/ Head(todo) = "disable" /\ Tail(todo) \in SystemdStopped
              \/ Head(todo) = "delete" /\ Tail(todo) = <<>>
  BY Lists, Zenon DEF SystemdStopped
<1> QED BY <1>1, <1>2, <1>3, <1>4, <1>5

LEMMA LaunchdLists ==
  ASSUME NEW todo
  PROVE  /\ todo \in LaunchdStarts => Head(todo) = "write" /\ Tail(todo) \in LaunchdWritten
         /\ todo \in LaunchdWritten => Head(todo) = "enable" /\ Tail(todo) \in LaunchdEnabled
         /\ todo \in LaunchdEnabled =>
              \/ Head(todo) \in {"load", "enable"} /\ Tail(todo) \in LaunchdEnabled
              \/ Head(todo) = "launch" /\ Tail(todo) = <<>>
         /\ todo \in LaunchdStops => Head(todo) = "unload" /\ Tail(todo) \in LaunchdStopped
         /\ todo \in LaunchdStopped => Head(todo) = "delete" /\ Tail(todo) = <<>>
<1>1. todo \in LaunchdStarts => Head(todo) = "write" /\ Tail(todo) \in LaunchdWritten
  BY Lists, Zenon DEF LaunchdStarts, LaunchdWritten
<1>2. todo \in LaunchdWritten => Head(todo) = "enable" /\ Tail(todo) \in LaunchdEnabled
  BY Lists, Zenon DEF LaunchdWritten, LaunchdEnabled
<1>3. todo \in LaunchdEnabled =>
              \/ Head(todo) \in {"load", "enable"} /\ Tail(todo) \in LaunchdEnabled
              \/ Head(todo) = "launch" /\ Tail(todo) = <<>>
  BY Lists, Zenon DEF LaunchdEnabled
<1>4. todo \in LaunchdStops => Head(todo) = "unload" /\ Tail(todo) \in LaunchdStopped
  BY Lists, Zenon DEF LaunchdStops, LaunchdStopped
<1>5. todo \in LaunchdStopped => Head(todo) = "delete" /\ Tail(todo) = <<>>
  BY Lists, Zenon DEF LaunchdStopped
<1> QED BY <1>1, <1>2, <1>3, <1>4, <1>5

(* The stages have no list in common, and nothing left is no stage.          *)
Stages(todo) ==
  /\ Written(todo) => ~Enabled(todo) /\ ~Stopped(todo)
  /\ Enabled(todo) => ~Stopped(todo)
  /\ todo \in Preludes \cup SystemdStarts \cup LaunchdStarts \cup SystemdStops \cup LaunchdStops =>
       ~Written(todo) /\ ~Enabled(todo) /\ ~Stopped(todo)
  /\ Written(todo) \/ Enabled(todo) \/ Stopped(todo) => todo # <<>>

LEMMA StagesApart == ASSUME NEW todo PROVE Stages(todo)
<1>1. Written(todo) => ~Enabled(todo) /\ ~Stopped(todo)
  BY DEF Written, Enabled, Stopped, SystemdWritten, SystemdEnabled, SystemdStopped,
         LaunchdWritten, LaunchdEnabled, LaunchdStopped
<1>2. Enabled(todo) => ~Stopped(todo)
  BY DEF Enabled, Stopped, SystemdEnabled, SystemdStopped, LaunchdEnabled, LaunchdStopped
<1>3. todo \in Preludes \cup SystemdStarts \cup LaunchdStarts \cup SystemdStops \cup LaunchdStops =>
        ~Written(todo) /\ ~Enabled(todo) /\ ~Stopped(todo)
  BY DEF Preludes, Written, Enabled, Stopped, SystemdWritten, SystemdEnabled, SystemdStopped,
         LaunchdWritten, LaunchdEnabled, LaunchdStopped, SystemdStarts, LaunchdStarts,
         SystemdStops, LaunchdStops
<1>4. Written(todo) \/ Enabled(todo) \/ Stopped(todo) => todo # <<>>
  BY DEF Written, Enabled, Stopped, SystemdWritten, SystemdEnabled, SystemdStopped,
         LaunchdWritten, LaunchdEnabled, LaunchdStopped
<1> QED BY <1>1, <1>2, <1>3, <1>4 DEF Stages

LEMMA ServiceInitially == ServiceInit => ServiceInv /\ Lingers /\ BusHeld
BY DEF ServiceInit, ServiceInv, ServiceType, Todo, Progress, Registered, Comes, NoUnit,
       NoCommand, Managers, AllLists, Lingers, BusHeld

Programs == {"write", "reload", "enable", "start", "load", "launch"}

(* How the commands' lists are put together.                                 *)
LEMMA ConcatIs ==
  ASSUME NEW S, NEW s \in Seq(S), NEW t \in Seq(S), NEW u \in Seq(S), Len(u) = Len(s) + Len(t),
         \A i \in 1..Len(s) : u[i] = s[i],
         \A i \in 1..Len(t) : u[Len(s) + i] = t[i]
  PROVE  s \o t = u
<1>1. s \o t \in Seq(S) /\ Len(s \o t) = Len(u) OBVIOUS
<1>2. ASSUME NEW i \in 1..Len(s \o t) PROVE (s \o t)[i] = u[i]
  <2>1. CASE i \in 1..Len(s) BY <2>1
  <2>2. CASE i \notin 1..Len(s)
    <3>1. i - Len(s) \in 1..Len(t) /\ Len(s) + (i - Len(s)) = i BY <1>1, <2>2
    <3> QED BY <3>1
  <2> QED BY <2>1, <2>2
<1> QED BY <1>1, <1>2

LEMMA LongStart ==
  <<"write", "reload", "enable">> \o <<"reload", "start", "enable">>
    = <<"write", "reload", "enable", "reload", "start", "enable">>
<1> DEFINE s == <<"write", "reload", "enable">>
           t == <<"reload", "start", "enable">>
           u == <<"write", "reload", "enable", "reload", "start", "enable">>
<1>1. s \in Seq(Programs) /\ t \in Seq(Programs) /\ u \in Seq(Programs) BY DEF Programs
<1>2. Len(u) = Len(s) + Len(t) /\ \A i \in 1..Len(s) : u[i] = s[i] OBVIOUS
<1>3. \A i \in 1..Len(t) : u[Len(s) + i] = t[i] OBVIOUS
<1> QED BY <1>1, <1>2, <1>3, ConcatIs

LEMMA ShortStart ==
  <<"write", "enable">> \o <<"reload", "start", "enable">>
    = <<"write", "enable", "reload", "start", "enable">>
<1> DEFINE s == <<"write", "enable">>
           t == <<"reload", "start", "enable">>
           u == <<"write", "enable", "reload", "start", "enable">>
<1>1. s \in Seq(Programs) /\ t \in Seq(Programs) /\ u \in Seq(Programs) BY DEF Programs
<1>2. Len(u) = Len(s) + Len(t) /\ \A i \in 1..Len(s) : u[i] = s[i] OBVIOUS
<1>3. \A i \in 1..Len(t) : u[Len(s) + i] = t[i] OBVIOUS
<1> QED BY <1>1, <1>2, <1>3, ConcatIs

LEMMA LaunchStart ==
  <<"write", "enable">> \o <<"load", "enable", "launch">>
    = <<"write", "enable", "load", "enable", "launch">>
<1> DEFINE s == <<"write", "enable">>
           t == <<"load", "enable", "launch">>
           u == <<"write", "enable", "load", "enable", "launch">>
<1>1. s \in Seq(Programs) /\ t \in Seq(Programs) /\ u \in Seq(Programs) BY DEF Programs
<1>2. Len(u) = Len(s) + Len(t) /\ \A i \in 1..Len(s) : u[i] = s[i] OBVIOUS
<1>3. \A i \in 1..Len(t) : u[Len(s) + i] = t[i] OBVIOUS
<1> QED BY <1>1, <1>2, <1>3, ConcatIs

(* The lists the commands start with.                                        *)
LEMMA CommandLists ==
  ASSUME ServiceInv
  PROVE  /\ manager = "systemd" => systemd_start \in SystemdStarts
         /\ manager = "launchd" => launchd_start \in LaunchdStarts
         /\ systemd_stop \in SystemdStops /\ launchd_stop \in LaunchdStops
<1>1. ASSUME manager = "systemd", definition # wanted PROVE systemd_start \in SystemdStarts
  <2>1. create = <<"write", "reload", "enable">> BY <1>1 DEF create
  <2>2. systemd_start = <<"write", "reload", "enable", "reload", "start", "enable">>
    BY <2>1, LongStart, Zenon DEF systemd_start
  <2> QED BY <1>1, <2>2, Zenon DEF SystemdStarts
<1>2. ASSUME manager = "systemd", definition = wanted PROVE systemd_start \in SystemdStarts
  <2>1. create = <<"write", "enable">> BY <1>2 DEF create
  <2>2. systemd_start = <<"write", "enable", "reload", "start", "enable">>
    BY <2>1, ShortStart, Zenon DEF systemd_start
  <2> QED BY <1>2, <2>2, Zenon DEF SystemdStarts
<1>3. ASSUME manager = "launchd" PROVE launchd_start \in LaunchdStarts
  <2>1. create = <<"write", "enable">> BY <1>3 DEF create
  <2>2. launchd_start = <<"write", "enable", "load", "enable", "launch">>
    BY <2>1, LaunchStart, Zenon DEF launchd_start
  <2> QED BY <1>3, <2>2, Zenon DEF LaunchdStarts
<1>4. systemd_stop \in SystemdStops /\ launchd_stop \in LaunchdStops
  BY DEF systemd_stop, launchd_stop, SystemdStops, LaunchdStops
<1> QED BY <1>1, <1>2, <1>3, <1>4, Zenon

(* A command begins, or its first check has been passed.                     *)
LEMMA Begins ==
  ASSUME ServiceInv, UNCHANGED <<manager, wanted, definition, unit>>,
         user' \in [session : BOOLEAN, linger : BOOLEAN, bus : BOOLEAN, other : BOOLEAN],
         NEW verb \in {"start", "stop"}, NEW todo, NEW warned \in BOOLEAN,
         command' = [verb |-> verb, todo |-> todo, result |-> "running", warned |-> warned],
         \/ verb = "start" /\ manager = "systemd" /\ todo \in Preludes \cup SystemdStarts
         \/ verb = "start" /\ manager = "launchd" /\ todo \in LaunchdStarts
         \/ verb = "stop" /\ manager = "systemd" /\ todo \in SystemdStops
         \/ verb = "stop" /\ manager = "launchd" /\ todo \in LaunchdStops
  PROVE  ServiceInv'
<1>1. command'.verb = verb /\ command'.result = "running" /\ command'.todo = todo OBVIOUS
<1>2. Todo' BY <1>1 DEF Todo
<1>3. Stages(todo) BY StagesApart
<1>4. Progress' BY <1>1, <1>3 DEF Stages, Progress
<1>5. todo \in AllLists BY DEF AllLists
<1>6. ServiceType' BY <1>5 DEF ServiceInv, ServiceType
<1>7. Registered' /\ Comes' BY <1>1 DEF Registered, Comes, ServiceInv
<1> QED BY <1>2, <1>4, <1>6, <1>7 DEF ServiceInv

(* A command finds its work done.                                            *)
LEMMA FindsDone ==
  ASSUME ServiceInv, UNCHANGED <<manager, wanted, definition, unit, user>>,
         NEW verb \in {"start", "stop"}, NEW warned \in BOOLEAN,
         command' = [verb |-> verb, todo |-> <<>>, result |-> "already", warned |-> warned],
         verb = "start" => service_state
  PROVE  ServiceInv'
<1>1. command'.verb = verb /\ command'.result = "already" /\ command'.todo = <<>> OBVIOUS
<1>2. verb = "start" => unit.enabled /\ definition # 0
  BY DEF service_state, ServiceInv, ServiceType, Registered, Managers
<1>3. ServiceType' BY DEF ServiceInv, ServiceType, AllLists
<1>4. Todo' /\ Progress' BY <1>1 DEF Todo, Progress
<1>5. Registered' /\ Comes' BY <1>1, <1>2 DEF Registered, Comes, ServiceInv
<1> QED BY <1>3, <1>4, <1>5 DEF ServiceInv

LEMMA ServiceStartKeeps == ASSUME ServiceInv, service_start PROVE ServiceInv'
<1>1. /\ UNCHANGED <<manager, wanted, definition, unit, user>>
      /\ user' \in [session : BOOLEAN, linger : BOOLEAN, bus : BOOLEAN, other : BOOLEAN]
      /\ manager \in Managers
  BY DEF service_start, ServiceInv, ServiceType
<1>2. CASE manager = "systemd"
  <2>1. command' = [verb |-> "start", todo |-> <<"linger", "await">>, result |-> "running",
                    warned |-> FALSE]
    BY <1>2 DEF service_start, Running
  <2>2. <<"linger", "await">> \in Preludes BY DEF Preludes
  <2> QED BY <1>1, <1>2, <2>1, <2>2, Begins
<1>3. CASE manager = "launchd" /\ service_state
  <2>1. command' = [verb |-> "start", todo |-> <<>>, result |-> "already", warned |-> FALSE]
    BY <1>3 DEF service_start, Already
  <2> QED BY <1>1, <1>3, <2>1, FindsDone
<1>4. CASE manager = "launchd" /\ ~service_state
  <2>1. command' = [verb |-> "start", todo |-> launchd_start, result |-> "running",
                    warned |-> FALSE]
    BY <1>4 DEF service_start, Running
  <2>2. launchd_start \in LaunchdStarts BY <1>4, CommandLists
  <2> QED BY <1>1, <1>4, <2>1, <2>2, Begins
<1> QED BY <1>1, <1>2, <1>3, <1>4 DEF Managers

LEMMA EnableLingerKeeps ==
  ASSUME ServiceInv, enable_linger
  PROVE  /\ ServiceInv'
         /\ user'.linger \/ command'.warned \/ user'.other
         /\ command'.verb = command.verb /\ command'.verb = "start"
<1>1. /\ UNCHANGED <<manager, wanted, definition, unit>> /\ ServiceType
      /\ command.result = "running" /\ Head(command.todo) = "linger"
  BY DEF enable_linger, ServiceInv
<1>2. /\ command.todo = <<"linger", "await">> /\ command.verb = "start" /\ manager = "systemd"
  <2>1. command.todo \in Preludes
    BY <1>1, SystemdLists, LaunchdLists DEF ServiceInv, Todo
  <2>2. command.todo # <<"await">> BY <1>1, Lists, Zenon
  <2>3. ~(command.todo \in SystemdStops \cup SystemdStopped \cup LaunchdStarts \cup LaunchdWritten
            \cup LaunchdEnabled \cup LaunchdStops \cup LaunchdStopped)
    BY <1>1, SystemdLists, LaunchdLists
  <2> QED BY <1>1, <2>1, <2>2, <2>3 DEF Preludes, ServiceInv, Todo
<1>4. /\ user' \in [session : BOOLEAN, linger : BOOLEAN, bus : BOOLEAN, other : BOOLEAN]
      /\ command'.warned \in BOOLEAN
      /\ command' = [verb |-> "start", todo |-> <<"await">>, result |-> "running",
                     warned |-> command'.warned]
      /\ user'.linger \/ command'.warned \/ user'.other
  <2>1. user \in [session : BOOLEAN, linger : BOOLEAN, bus : BOOLEAN, other : BOOLEAN]
        /\ command.warned \in BOOLEAN
    BY <1>1 DEF ServiceType
  <2>2. CASE /\ user' = [user EXCEPT !.linger = user.linger \/ ~user.other]
             /\ command' = Running("start", <<"await">>, command.warned)
    <3>1. command' = [verb |-> "start", todo |-> <<"await">>, result |-> "running",
                      warned |-> command.warned]
      BY <2>2 DEF Running
    <3>2. (user.linger \/ ~user.other) \in BOOLEAN OBVIOUS
    <3>3. user' \in [session : BOOLEAN, linger : BOOLEAN, bus : BOOLEAN, other : BOOLEAN]
          /\ user'.linger = (user.linger \/ ~user.other) /\ user'.other = user.other
      BY <2>1, <2>2, <3>2
    <3>4. user'.linger \/ user'.other BY <3>3, Zenon
    <3> QED BY <2>1, <3>1, <3>3, <3>4
  <2>3. CASE command' = Running("start", <<"await">>, TRUE) /\ UNCHANGED user
    <3>1. command' = [verb |-> "start", todo |-> <<"await">>, result |-> "running",
                      warned |-> TRUE]
      BY <2>3 DEF Running
    <3>2. command'.warned = TRUE BY <3>1
    <3>3. command' = [verb |-> "start", todo |-> <<"await">>, result |-> "running",
                      warned |-> command'.warned]
      BY <3>1, <3>2, Zenon
    <3>4. command'.warned \in BOOLEAN BY <3>2, Zenon
    <3>5. user' \in [session : BOOLEAN, linger : BOOLEAN, bus : BOOLEAN, other : BOOLEAN]
      BY <2>1, <2>3
    <3> QED BY <3>2, <3>3, <3>4, <3>5, Zenon
  <2> QED BY <2>2, <2>3 DEF enable_linger
<1>5. <<"await">> \in Preludes BY DEF Preludes
<1>6. ServiceInv' BY <1>1, <1>2, <1>4, <1>5, Begins
<1> QED BY <1>2, <1>4, <1>6

LEMMA AwaitKeeps ==
  ASSUME ServiceInv, await_user_bus
  PROVE  /\ ServiceInv'
         /\ command.verb = "start" /\ manager = "systemd" /\ command.result = "running"
         /\ command.todo = <<"await">>
         /\ command'.verb = "start" /\ command'.warned = command.warned /\ UNCHANGED user
<1>1. /\ UNCHANGED <<manager, wanted, definition, unit, user>> /\ ServiceType
      /\ command.result = "running" /\ Head(command.todo) = "await"
      /\ user' \in [session : BOOLEAN, linger : BOOLEAN, bus : BOOLEAN, other : BOOLEAN]
      /\ command.warned \in BOOLEAN
  BY DEF await_user_bus, ServiceInv, ServiceType
<1>2. command.todo = <<"await">> /\ command.verb = "start" /\ manager = "systemd"
  <2>1. command.todo \in Preludes
    BY <1>1, SystemdLists, LaunchdLists DEF ServiceInv, Todo
  <2>2. command.todo # <<"linger", "await">> BY <1>1, Lists, Zenon
  <2>3. ~(command.todo \in SystemdStops \cup SystemdStopped \cup LaunchdStarts \cup LaunchdWritten
            \cup LaunchdEnabled \cup LaunchdStops \cup LaunchdStopped)
    BY <1>1, SystemdLists, LaunchdLists
  <2> QED BY <1>1, <2>1, <2>2, <2>3 DEF Preludes, ServiceInv, Todo
<1>3. CASE service_state
  <2>1. command' = [verb |-> "start", todo |-> <<>>, result |-> "already", warned |-> command.warned]
    BY <1>3 DEF await_user_bus, Already
  <2>2. ServiceInv' BY <1>1, <1>3, <2>1, FindsDone
  <2> QED BY <1>1, <1>2, <2>1, <2>2
<1>4. CASE ~service_state
  <2>1. command' = [verb |-> "start", todo |-> systemd_start, result |-> "running",
                    warned |-> command.warned]
    BY <1>4 DEF await_user_bus, Running
  <2>2. systemd_start \in SystemdStarts BY <1>2, CommandLists
  <2>3. ServiceInv' BY <1>1, <1>2, <2>1, <2>2, Begins
  <2> QED BY <1>1, <1>2, <2>1, <2>3
<1> QED BY <1>3, <1>4

LEMMA ServiceStopKeeps ==
  ASSUME ServiceInv, service_stop
  PROVE  /\ ServiceInv' /\ command'.verb = "stop" /\ UNCHANGED <<manager, user>>
         /\ manager = "systemd" /\ command'.result = "running" => user.bus
<1>1. /\ UNCHANGED <<manager, wanted, definition, unit, user>>
      /\ user' \in [session : BOOLEAN, linger : BOOLEAN, bus : BOOLEAN, other : BOOLEAN]
      /\ manager \in Managers
  BY DEF service_stop, ServiceInv, ServiceType
<1>2. CASE ~service_state
  <2>1. command' = [verb |-> "stop", todo |-> <<>>, result |-> "already", warned |-> FALSE]
    BY <1>2 DEF service_stop, Already
  <2>2. ServiceInv' BY <1>1, <2>1, FindsDone
  <2> QED BY <1>1, <2>1, <2>2
<1>3. CASE service_state
  <2> DEFINE todo == IF manager = "systemd" THEN systemd_stop ELSE launchd_stop
  <2>1. command' = [verb |-> "stop", todo |-> todo, result |-> "running", warned |-> FALSE]
    BY <1>3 DEF service_stop, Running
  <2>2. /\ manager = "systemd" => todo \in SystemdStops
        /\ manager = "launchd" => todo \in LaunchdStops
    BY CommandLists
  <2>3. manager = "systemd" => user.bus BY <1>3 DEF service_state
  <2> HIDE DEF todo
  <2>4. ServiceInv' BY <1>1, <2>1, <2>2, Begins DEF Managers
  <2> QED BY <1>1, <2>1, <2>3, <2>4
<1> QED BY <1>2, <1>3

(* A command goes on at a stage whose promise holds, or is done.             *)
LEMMA GoesOn ==
  ASSUME ServiceType', Registered', command'.result = "running",
         \/ /\ command'.verb = "start" /\ manager' = "systemd"
            /\ \/ command'.todo \in SystemdWritten /\ definition' # 0
               \/ command'.todo \in SystemdEnabled /\ definition' # 0 /\ unit'.enabled
         \/ /\ command'.verb = "start" /\ manager' = "launchd"
            /\ \/ command'.todo \in LaunchdWritten /\ definition' # 0
               \/ command'.todo \in LaunchdEnabled /\ definition' # 0 /\ unit'.enabled
         \/ /\ command'.verb = "stop" /\ unit'.active = "inactive"
            /\ \/ manager' = "systemd" /\ command'.todo \in SystemdStopped
               \/ manager' = "launchd" /\ command'.todo \in LaunchdStopped
  PROVE  ServiceInv'
<1>1. Todo' BY DEF Todo
<1>2. Stages(command'.todo) BY StagesApart
<1>3. Progress' BY <1>2 DEF Progress, Stages, Written, Enabled, Stopped
<1>4. Comes' BY DEF Comes
<1> QED BY <1>1, <1>3, <1>4 DEF ServiceInv

LEMMA IsDone ==
  ASSUME ServiceType', Registered', command'.result = "done",
         command'.verb = "start" => definition' # 0 /\ unit'.enabled
  PROVE  ServiceInv'
BY DEF ServiceInv, Todo, Progress, Comes

(* One program of a command: what it needs held, and what it leaves holds.   *)
LEMMA ExecuteKeeps == ASSUME ServiceInv, execute PROVE ServiceInv'
<1> DEFINE step == Head(command.todo)
           rest == Tail(command.todo)
<1>0. /\ command.result = "running" /\ UNCHANGED <<manager, wanted, user, boots>>
      /\ manager \in Managers /\ Registered /\ ServiceType /\ Progress
  BY DEF execute, ServiceInv, ServiceType
<1>01. command.todo \notin Preludes
  <2>1. Head(command.todo) \notin {"linger", "await"} BY DEF execute
  <2> QED BY <2>1, Lists, Zenon DEF Preludes
<1>1. CASE /\ command' = [command EXCEPT !.todo = <<>>, !.result = "failed"]
           /\ UNCHANGED <<definition, unit>>
  <2>1. command'.todo = <<>> /\ command'.result = "failed" /\ command'.verb = command.verb
    BY <1>1 DEF ServiceInv, ServiceType
  <2>2. ServiceType' BY <1>0, <1>1 DEF ServiceType, AllLists
  <2> QED BY <1>0, <1>1, <2>1, <2>2 DEF ServiceInv, Todo, Progress, Registered, Comes
<1>2. CASE /\ ~Hopeless(step)
           /\ CASE step = "write" -> write_if_changed
                [] step = "delete" -> remove_if_exists
                [] OTHER -> UNCHANGED definition
           /\ unit' = Effect(step)
           /\ command' = [command EXCEPT !.todo = rest,
                                         !.result = IF rest = <<>> THEN "done" ELSE @]
  <2>1. /\ command'.todo = rest /\ command'.verb = command.verb
        /\ command'.result = IF rest = <<>> THEN "done" ELSE "running"
    BY <1>0, <1>2 DEF ServiceType
  <2>2. definition' = IF step = "write" THEN wanted ELSE IF step = "delete" THEN 0 ELSE definition
    BY <1>2 DEF write_if_changed, remove_if_exists
  <2>3. /\ step = "reload" => unit' = [unit EXCEPT !.loaded = definition]
        /\ step = "enable" => unit' = [unit EXCEPT !.enabled = TRUE]
        /\ step = "disable" => unit' = [unit EXCEPT !.enabled = FALSE]
        /\ step = "start" => unit' = [unit EXCEPT !.active = "active"]
        /\ step = "stop" => unit' = [unit EXCEPT !.active = "inactive"]
        /\ step = "load" => unit' = [unit EXCEPT !.enabled = TRUE, !.loaded = definition,
                                                 !.active = "active"]
        /\ step = "unload" => unit' = NoUnit
        /\ step \in {"write", "delete", "launch"} => unit' = unit
    BY <1>2 DEF Effect
  <2> HIDE DEF step, rest
  <2>20. rest \in AllLists
         /\ step \in {"write", "reload", "enable", "start", "stop", "disable", "delete", "load",
                      "launch", "unload"}
    BY <1>0, <1>01, SystemdLists, LaunchdLists DEF ServiceInv, Todo, AllLists, step, rest
  <2>21. ServiceType'
    <3>1. definition' \in Nat BY <1>0, <2>2 DEF ServiceType
    <3>2. unit' \in [loaded : Nat, enabled : BOOLEAN,
                     active : {"inactive", "active", "restarting", "exited"}]
      <4>1. definition \in Nat /\ unit \in [loaded : Nat, enabled : BOOLEAN,
                     active : {"inactive", "active", "restarting", "exited"}]
        BY <1>0 DEF ServiceType
      <4>2. CASE step \in {"reload", "load"} BY <2>3, <4>1, <4>2
      <4>3. CASE step \in {"enable", "disable"} BY <2>3, <4>1, <4>3
      <4>4. CASE step \in {"start", "stop"} BY <2>3, <4>1, <4>4
      <4>5. CASE step = "unload"
        <5>1. unit' = [loaded |-> 0, enabled |-> FALSE, active |-> "inactive"]
          BY <2>3, <4>5 DEF NoUnit
        <5> QED BY <5>1
      <4>6. CASE step \in {"write", "delete", "launch"} BY <2>3, <4>1, <4>6
      <4> QED BY <2>20, <4>2, <4>3, <4>4, <4>5, <4>6
    <3>3. command' \in [verb : {"none", "start", "stop"}, todo : AllLists,
                        result : {"none", "already", "running", "done", "failed"}, warned : BOOLEAN]
      BY <1>0, <1>2, <2>20 DEF ServiceType
    <3> QED BY <1>0, <3>1, <3>2, <3>3 DEF ServiceType
  <2>4. CASE command.verb = "start" /\ manager = "systemd" /\ command.todo \in SystemdStarts
    <3>1. ASSUME step = "write", rest \in SystemdWritten PROVE ServiceInv'
      <4>1. Registered' BY <1>0, <2>2, <2>3, <2>4, <3>1 DEF Registered, ServiceType, NoUnit
      <4>2. definition' # 0 BY <1>0, <2>2, <2>3, <2>4, <3>1 DEF ServiceType, NoUnit
      <4>3. rest # <<>> BY <3>1, StagesApart DEF Stages, Written
      <4> QED BY <1>0, <2>1, <2>21, <2>4, <3>1, <4>1, <4>2, <4>3, GoesOn
    <3> QED BY <2>4, <3>1, SystemdLists DEF step, rest
  <2>5. CASE command.verb = "start" /\ manager = "systemd" /\ command.todo \in SystemdWritten
    <3>1. definition # 0 BY <1>0, <2>5 DEF Progress, Written
    <3>2. ASSUME step = "reload", rest \in SystemdWritten PROVE ServiceInv'
      <4>1. Registered' BY <1>0, <2>2, <2>3, <2>5, <3>2, <3>1 DEF Registered, ServiceType, NoUnit
      <4>2. definition' # 0 BY <1>0, <2>2, <2>3, <2>5, <3>2, <3>1 DEF ServiceType, NoUnit
      <4>3. rest # <<>> BY <3>2, StagesApart DEF Stages, Written
      <4> QED BY <1>0, <2>1, <2>21, <2>5, <3>2, <4>1, <4>2, <4>3, GoesOn
    <3>3. ASSUME step = "enable", rest \in SystemdEnabled PROVE ServiceInv'
      <4>1. Registered' BY <1>0, <2>2, <2>3, <2>5, <3>3, <3>1 DEF Registered, ServiceType, NoUnit
      <4>2. definition' # 0 /\ unit'.enabled BY <1>0, <2>2, <2>3, <2>5, <3>3, <3>1 DEF ServiceType, NoUnit
      <4>3. rest # <<>> BY <3>3, StagesApart DEF Stages, Enabled
      <4> QED BY <1>0, <2>1, <2>21, <2>5, <3>3, <4>1, <4>2, <4>3, GoesOn
    <3> QED BY <2>5, <3>2, <3>3, SystemdLists DEF step, rest
  <2>6. CASE command.verb = "start" /\ manager = "systemd" /\ command.todo \in SystemdEnabled
    <3>1. definition # 0 /\ unit.enabled BY <1>0, <2>6 DEF Progress, Enabled
    <3>2. ASSUME step \in {"reload", "start"}, rest \in SystemdEnabled PROVE ServiceInv'
      <4>1. Registered' BY <1>0, <2>2, <2>3, <2>6, <3>2, <3>1 DEF Registered, ServiceType, NoUnit
      <4>2. definition' # 0 /\ unit'.enabled BY <1>0, <2>2, <2>3, <2>6, <3>2, <3>1 DEF ServiceType, NoUnit
      <4>3. rest # <<>> BY <3>2, StagesApart DEF Stages, Enabled
      <4> QED BY <1>0, <2>1, <2>21, <2>6, <3>2, <4>1, <4>2, <4>3, GoesOn
    <3>3. ASSUME step = "enable", rest = <<>> PROVE ServiceInv'
      <4>1. Registered' BY <1>0, <2>2, <2>3, <2>6, <3>3, <3>1 DEF Registered, ServiceType, NoUnit
      <4>2. definition' # 0 /\ unit'.enabled
        BY <1>0, <2>2, <2>3, <2>6, <3>3, <3>1 DEF ServiceType
      <4> QED BY <2>1, <2>21, <3>3, <4>1, <4>2, IsDone
    <3> QED BY <2>6, <3>2, <3>3, SystemdLists DEF step, rest
  <2>7. CASE command.verb = "stop" /\ manager = "systemd" /\ command.todo \in SystemdStops
    <3>1. ASSUME step = "stop", rest \in SystemdStopped PROVE ServiceInv'
      <4>1. Registered' BY <1>0, <2>2, <2>3, <2>7, <3>1 DEF Registered, ServiceType, NoUnit
      <4>2. unit'.active = "inactive" BY <1>0, <2>2, <2>3, <2>7, <3>1 DEF ServiceType, NoUnit
      <4>3. rest # <<>> BY <3>1, StagesApart DEF Stages, Stopped
      <4> QED BY <1>0, <2>1, <2>21, <2>7, <3>1, <4>1, <4>2, <4>3, GoesOn
    <3> QED BY <2>7, <3>1, SystemdLists DEF step, rest
  <2>8. CASE command.verb = "stop" /\ manager = "systemd" /\ command.todo \in SystemdStopped
    <3>1. unit.active = "inactive" BY <1>0, <2>8 DEF Progress, Stopped
    <3>2. ASSUME step = "disable", rest \in SystemdStopped PROVE ServiceInv'
      <4>1. Registered' BY <1>0, <2>2, <2>3, <2>8, <3>2, <3>1 DEF Registered, ServiceType, NoUnit
      <4>2. unit'.active = "inactive" BY <1>0, <2>2, <2>3, <2>8, <3>2, <3>1 DEF ServiceType, NoUnit
      <4>3. rest # <<>> BY <3>2, StagesApart DEF Stages, Stopped
      <4> QED BY <1>0, <2>1, <2>21, <2>8, <3>2, <4>1, <4>2, <4>3, GoesOn
    <3>3. ASSUME step = "delete", rest = <<>> PROVE ServiceInv'
      <4>1. Registered' BY <1>0, <2>2, <2>3, <2>8, <3>3, <3>1 DEF Registered, ServiceType, NoUnit
      <4> QED BY <2>1, <2>21, <2>8, <3>3, <4>1, IsDone
    <3> QED BY <2>8, <3>2, <3>3, SystemdLists DEF step, rest
  <2>9. CASE command.verb = "start" /\ manager = "launchd" /\ command.todo \in LaunchdStarts
    <3>1. ASSUME step = "write", rest \in LaunchdWritten PROVE ServiceInv'
      <4>1. Registered' BY <1>0, <2>2, <2>3, <2>9, <3>1 DEF Registered, ServiceType, NoUnit
      <4>2. definition' # 0 BY <1>0, <2>2, <2>3, <2>9, <3>1 DEF ServiceType, NoUnit
      <4>3. rest # <<>> BY <3>1, StagesApart DEF Stages, Written
      <4> QED BY <1>0, <2>1, <2>21, <2>9, <3>1, <4>1, <4>2, <4>3, GoesOn
    <3> QED BY <2>9, <3>1, LaunchdLists DEF step, rest
  <2>10. CASE command.verb = "start" /\ manager = "launchd" /\ command.todo \in LaunchdWritten
    <3>1. definition # 0 BY <1>0, <2>10 DEF Progress, Written
    <3>2. ASSUME step = "enable", rest \in LaunchdEnabled PROVE ServiceInv'
      <4>1. Registered' BY <1>0, <2>2, <2>3, <2>10, <3>2, <3>1 DEF Registered, ServiceType, NoUnit
      <4>2. definition' # 0 /\ unit'.enabled BY <1>0, <2>2, <2>3, <2>10, <3>2, <3>1 DEF ServiceType, NoUnit
      <4>3. rest # <<>> BY <3>2, StagesApart DEF Stages, Enabled
      <4> QED BY <1>0, <2>1, <2>21, <2>10, <3>2, <4>1, <4>2, <4>3, GoesOn
    <3> QED BY <2>10, <3>2, LaunchdLists DEF step, rest
  <2>11. CASE command.verb = "start" /\ manager = "launchd" /\ command.todo \in LaunchdEnabled
    <3>1. definition # 0 /\ unit.enabled BY <1>0, <2>11 DEF Progress, Enabled
    <3>2. ASSUME step \in {"load", "enable"}, rest \in LaunchdEnabled PROVE ServiceInv'
      <4>1. Registered' BY <1>0, <2>2, <2>3, <2>11, <3>2, <3>1 DEF Registered, ServiceType, NoUnit
      <4>2. definition' # 0 /\ unit'.enabled BY <1>0, <2>2, <2>3, <2>11, <3>2, <3>1 DEF ServiceType, NoUnit
      <4>3. rest # <<>> BY <3>2, StagesApart DEF Stages, Enabled
      <4> QED BY <1>0, <2>1, <2>21, <2>11, <3>2, <4>1, <4>2, <4>3, GoesOn
    <3>3. ASSUME step = "launch", rest = <<>> PROVE ServiceInv'
      <4>1. Registered' BY <1>0, <2>2, <2>3, <2>11, <3>3, <3>1 DEF Registered, ServiceType, NoUnit
      <4>2. definition' # 0 /\ unit'.enabled
        BY <1>0, <2>2, <2>3, <2>11, <3>3, <3>1 DEF ServiceType
      <4> QED BY <2>1, <2>21, <3>3, <4>1, <4>2, IsDone
    <3> QED BY <2>11, <3>2, <3>3, LaunchdLists DEF step, rest
  <2>12. CASE command.verb = "stop" /\ manager = "launchd" /\ command.todo \in LaunchdStops
    <3>1. ASSUME step = "unload", rest \in LaunchdStopped PROVE ServiceInv'
      <4>1. Registered' BY <1>0, <2>2, <2>3, <2>12, <3>1 DEF Registered, ServiceType, NoUnit
      <4>2. unit'.active = "inactive" BY <1>0, <2>2, <2>3, <2>12, <3>1 DEF ServiceType, NoUnit
      <4>3. rest # <<>> BY <3>1, StagesApart DEF Stages, Stopped
      <4> QED BY <1>0, <2>1, <2>21, <2>12, <3>1, <4>1, <4>2, <4>3, GoesOn
    <3> QED BY <2>12, <3>1, LaunchdLists DEF step, rest
  <2>13. CASE command.verb = "stop" /\ manager = "launchd" /\ command.todo \in LaunchdStopped
    <3>1. unit.active = "inactive" BY <1>0, <2>13 DEF Progress, Stopped
    <3>2. ASSUME step = "delete", rest = <<>> PROVE ServiceInv'
      <4>1. Registered' BY <1>0, <2>2, <2>3, <2>13, <3>2, <3>1 DEF Registered, ServiceType, NoUnit
      <4> QED BY <2>1, <2>21, <2>13, <3>2, <4>1, IsDone
    <3> QED BY <2>13, <3>2, LaunchdLists DEF step, rest
  <2> QED
    BY <1>0, <1>01, <2>4, <2>5, <2>6, <2>7, <2>8, <2>9, <2>10, <2>11, <2>12, <2>13
    DEF ServiceInv, Todo
<1> QED BY <1>1, <1>2 DEF execute

(* What an execution leaves of lingering and of the manager's bus.           *)
LEMMA ExecuteLingers ==
  ASSUME ServiceInv, Lingers, BusHeld, execute
  PROVE  Lingers' /\ BusHeld'
<1>1. /\ command.result = "running" /\ UNCHANGED <<manager, user>>
      /\ command'.verb = command.verb /\ command'.warned = command.warned
  BY DEF execute, ServiceInv, ServiceType
<1>2. command.todo # <<"linger", "await">>
  <2>1. Head(command.todo) # "linger" BY DEF execute
  <2> QED BY <2>1, Lists, Zenon
<1> QED BY <1>1, <1>2 DEF Lingers, BusHeld

(* The user's manager comes up, or goes away: what is registered stays.       *)
LEMMA Moves ==
  ASSUME ServiceInv, UNCHANGED <<manager, wanted, definition>>,
         user' \in [session : BOOLEAN, linger : BOOLEAN, bus : BOOLEAN, other : BOOLEAN],
         unit' \in {Boot(unit, definition), Down(unit), unit},
         \/ /\ UNCHANGED command
            /\ command.result = "running" /\ command.verb = "stop" => unit' = unit
         \/ /\ command' = [command EXCEPT !.todo = <<>>, !.result = "failed"]
  PROVE  ServiceInv'
<1>1. /\ unit'.enabled = unit.enabled
      /\ unit'.active # "inactive" => (unit.enabled /\ definition # 0) \/ unit' = unit
      /\ manager = "launchd" /\ unit'.loaded # 0 => unit.enabled
      /\ unit' \in [loaded : Nat, enabled : BOOLEAN,
                     active : {"inactive", "active", "restarting", "exited"}]
  <2>0. /\ unit \in [loaded : Nat, enabled : BOOLEAN,
                      active : {"inactive", "active", "restarting", "exited"}]
        /\ definition \in Nat /\ manager \in Managers /\ Registered
    BY DEF ServiceInv, ServiceType
  <2>1. CASE unit' = unit BY <2>0, <2>1 DEF Registered
  <2>2. CASE unit' = Down(unit) BY <2>0, <2>2 DEF Down
  <2>3. CASE unit' = Boot(unit, definition) BY <2>0, <2>3 DEF Boot, Managers
  <2> QED BY <2>1, <2>2, <2>3
<1>2. /\ command' \in [verb : {"none", "start", "stop"}, todo : AllLists,
                        result : {"none", "already", "running", "done", "failed"},
                        warned : BOOLEAN]
      /\ command' = command \/ command'.result = "failed"
  BY DEF ServiceInv, ServiceType, AllLists
<1>3. ServiceType' BY <1>1, <1>2 DEF ServiceInv, ServiceType
<1>4. Registered' BY <1>1 DEF ServiceInv, Registered
<1>5. Todo' BY <1>2 DEF ServiceInv, Todo
<1>6. Progress'
  <2>1. CASE command'.result = "failed" BY <2>1 DEF Progress
  <2>2. CASE command' = command /\ command.result = "running"
    <3>1. Stopped(command.todo) => unit' = unit
      <4>1. Stopped(command.todo) => command.verb = "stop"
        <5>1. Stages(command.todo) BY StagesApart
        <5> QED BY <2>2, <5>1 DEF ServiceInv, Todo, Stages, Written, Enabled
      <4>2. command' # [command EXCEPT !.todo = <<>>, !.result = "failed"]
        BY <2>2 DEF ServiceInv, ServiceType
      <4> QED BY <2>2, <4>1, <4>2
    <3> QED BY <1>1, <2>2, <3>1 DEF ServiceInv, Progress
  <2>3. CASE command' = command /\ command.result # "running" BY <2>3 DEF Progress
  <2> QED BY <1>2, <2>1, <2>2, <2>3
<1>7. Comes' BY <1>1, <1>2 DEF ServiceInv, Comes
<1> QED BY <1>3, <1>4, <1>5, <1>6, <1>7 DEF ServiceInv

LEMMA ServiceKeeps ==
  ServiceInv /\ Lingers /\ BusHeld /\ [ServiceNext]_serviceVars
    => ServiceInv' /\ Lingers' /\ BusHeld'
<1> SUFFICES ASSUME ServiceInv, Lingers, BusHeld, [ServiceNext]_serviceVars
             PROVE  ServiceInv' /\ Lingers' /\ BusHeld'
  OBVIOUS
<1>0. ServiceType BY DEF ServiceInv
<1>1. CASE service_start
  <2>1. Lingers' /\ BusHeld'
    <3>1. CASE manager = "systemd"
      <4>1. command'.todo = <<"linger", "await">> /\ command'.verb = "start"
            /\ command'.result = "running"
        BY <1>1, <3>1 DEF service_start, Running
      <4> QED BY <4>1 DEF Lingers, BusHeld
    <3>2. CASE manager # "systemd" BY <1>1, <3>2 DEF service_start, Lingers, BusHeld
    <3> QED BY <3>1, <3>2
  <2> QED BY <1>1, <2>1, ServiceStartKeeps
<1>2. CASE enable_linger
  <2>1. /\ ServiceInv' /\ command'.verb = "start"
        /\ user'.linger \/ command'.warned \/ user'.other
    BY <1>2, EnableLingerKeeps
  <2> QED BY <2>1 DEF Lingers, BusHeld
<1>3. CASE await_user_bus
  <2>1. /\ ServiceInv' /\ command.verb = "start" /\ manager = "systemd"
        /\ command.result = "running" /\ command.todo = <<"await">>
        /\ command'.verb = "start" /\ command'.warned = command.warned /\ UNCHANGED user
    BY <1>3, AwaitKeeps
  <2>2. <<"await">> # <<"linger", "await">> BY Lists
  <2>3. user.linger \/ command.warned \/ user.other BY <2>1, <2>2 DEF Lingers
  <2> QED BY <2>1, <2>3 DEF Lingers, BusHeld
<1>4. CASE service_stop
  <2>1. /\ ServiceInv' /\ command'.verb = "stop" /\ UNCHANGED <<manager, user>>
        /\ manager = "systemd" /\ command'.result = "running" => user.bus
    BY <1>4, ServiceStopKeeps
  <2> QED BY <2>1 DEF Lingers, BusHeld
<1>5. CASE execute BY <1>5, ExecuteKeeps, ExecuteLingers
<1>6. CASE Edit
  BY <1>6 DEF Edit, NoCommand, ServiceInv, ServiceType, AllLists, Todo, Progress, Registered,
              Comes, Lingers, BusHeld
<1>7. CASE Exits \/ Restarts
  <2>1. /\ unit' = [unit EXCEPT !.active = unit'.active]
        /\ unit'.active \in {"active", "restarting", "exited"} /\ unit.active # "inactive"
        /\ UNCHANGED <<manager, wanted, definition, user, command, boots>>
    BY <1>0, <1>7 DEF Exits, Restarts, ServiceType
  <2>2. ServiceType' BY <1>0, <2>1 DEF ServiceType
  <2>3. unit'.enabled = unit.enabled /\ unit'.loaded = unit.loaded BY <1>0, <2>1 DEF ServiceType
  <2>4. Todo' /\ Registered' /\ Comes' BY <2>1, <2>3 DEF ServiceInv, Todo, Registered, Comes
  <2>5. Progress' BY <2>1, <2>3 DEF ServiceInv, Progress
  <2>6. Lingers' /\ BusHeld' BY <2>1 DEF Lingers, BusHeld
  <2> QED BY <2>2, <2>4, <2>5, <2>6 DEF ServiceInv
<1>8. CASE ManagerUp
  <2>1. /\ UNCHANGED <<manager, wanted, definition, command>>
        /\ user' = [user EXCEPT !.bus = TRUE] /\ unit' = Boot(unit, definition)
        /\ ~user.bus /\ manager = "systemd"
    BY <1>8 DEF ManagerUp
  <2>2. /\ user' \in [session : BOOLEAN, linger : BOOLEAN, bus : BOOLEAN, other : BOOLEAN]
        /\ user'.linger = user.linger /\ user'.other = user.other /\ user'.bus
    BY <1>0, <2>1 DEF ServiceType
  <2>3. ~(command.result = "running" /\ command.verb = "stop") BY <2>1 DEF BusHeld
  <2>4. ServiceInv' BY <2>1, <2>2, <2>3, Moves
  <2> QED BY <2>1, <2>2, <2>4 DEF Lingers, BusHeld
<1>9. CASE LogsIn
  <2>1. /\ UNCHANGED <<manager, wanted, definition, unit, command>>
        /\ user' = [user EXCEPT !.session = TRUE]
    BY <1>9 DEF LogsIn
  <2>2. /\ user' \in [session : BOOLEAN, linger : BOOLEAN, bus : BOOLEAN, other : BOOLEAN]
        /\ user'.linger = user.linger /\ user'.other = user.other /\ user'.bus = user.bus
    BY <1>0, <2>1 DEF ServiceType
  <2>3. ServiceInv' BY <2>1, <2>2, Moves
  <2> QED BY <2>1, <2>2, <2>3 DEF Lingers, BusHeld
<1>10. CASE LogsOut
  <2>1. /\ UNCHANGED <<manager, wanted, definition, command>> /\ command.result # "running"
        /\ user' = [user EXCEPT !.session = FALSE, !.bus = user.bus /\ user.linger]
        /\ unit' \in {unit, Down(unit)}
    BY <1>10 DEF LogsOut
  <2>2. /\ user' \in [session : BOOLEAN, linger : BOOLEAN, bus : BOOLEAN, other : BOOLEAN]
        /\ user'.linger = user.linger /\ user'.other = user.other
    <3>1. (user.bus /\ user.linger) \in BOOLEAN OBVIOUS
    <3> QED BY <1>0, <2>1, <3>1 DEF ServiceType
  <2>3. ServiceInv' BY <2>1, <2>2, Moves
  <2> QED BY <2>1, <2>2, <2>3 DEF Lingers, BusHeld
<1>11. CASE Reboots
  <2>1. /\ UNCHANGED <<manager, wanted, definition>>
        /\ user' \in {user, [user EXCEPT !.session = FALSE, !.bus = FALSE]}
        /\ unit' \in {Down(unit), Boot(unit, definition)}
    BY <1>11 DEF Reboots
  <2>2. /\ user' \in [session : BOOLEAN, linger : BOOLEAN, bus : BOOLEAN, other : BOOLEAN]
        /\ user'.linger = user.linger /\ user'.other = user.other
    BY <1>0, <2>1 DEF ServiceType
  <2>3. CASE command.result = "running"
    <3>1. command' = [command EXCEPT !.todo = <<>>, !.result = "failed"]
      BY <1>11, <2>3 DEF Reboots
    <3>2. command'.result = "failed" BY <1>0, <3>1 DEF ServiceType
    <3>3. ServiceInv' BY <2>1, <2>2, <3>1, Moves
    <3> QED BY <3>2, <3>3 DEF Lingers, BusHeld
  <2>4. CASE command.result # "running"
    <3>1. UNCHANGED command BY <1>11, <2>4 DEF Reboots
    <3>2. ServiceInv' BY <2>1, <2>2, <2>4, <3>1, Moves
    <3> QED BY <2>1, <2>2, <2>4, <3>1, <3>2 DEF Lingers, BusHeld
  <2> QED BY <2>3, <2>4
<1>12. CASE UNCHANGED serviceVars
  BY <1>12 DEF serviceVars, ServiceInv, ServiceType, Todo, Progress, Registered, Comes, Lingers,
               BusHeld
<1> QED
  BY <1>1, <1>2, <1>3, <1>4, <1>5, <1>6, <1>7, <1>8, <1>9, <1>10, <1>11, <1>12 DEF ServiceNext

(* The service commands' state is well typed, and what is left of a command is a suffix of
   one of the lists of programs that service.rs runs.                         *)
THEOREM ServiceTyped == ServiceSpec => []ServiceType
BY ServiceInitially, ServiceKeeps, PTL DEF ServiceSpec, ServiceInv

(* A start that reports success leaves a service that comes back with its manager, and,
   under systemd, a user whose manager comes back at boot unless the start warned or the
   configuration names another user, whatever failed, exited, logged out or rebooted before
   (SystemDService::start, enable_linger, LaunchDService::start).             *)
THEOREM ServiceComesBack == ServiceSpec => []ComesBack
<1>1. ServiceInv /\ Lingers => ComesBack
  BY DEF ServiceInv, Comes, ComesBack, Boot, ServiceType, Lingers
<1> QED BY <1>1, ServiceInitially, ServiceKeeps, PTL DEF ServiceSpec

----------------------------------------------------------------------------
(* The watching parent.  Between a change and the restart it causes, the change is in what
   was noticed or in the batch; a build that fails leaves the mark `unbuilt`.              *)
WatchType ==
  /\ options \in [watch : BOOLEAN, source : BOOLEAN]
  /\ tree \in [Paths -> Nat]
  /\ extension \in Nat
  /\ noticed \subseteq Paths /\ batch \subseteq Paths
  /\ resident \in {"spawn", "watcher", "start", "select", "settle", "rebuild", "stop", "kill",
                   "leaving", "leaving_kill", "console", "gone"}
  /\ engine_ \in [alive : BOOLEAN, py : Nat, rs : Nat]
  /\ unbuilt \in BOOLEAN /\ missed \subseteq Paths

\* A child at the select was started from the Python sources as they are, or a restart is due.
PythonFresh ==
  options.watch /\ resident = "select" =>
    \/ engine_.py = tree["py"] \/ "py" \in noticed \cup missed
    \/ options.source /\ (unbuilt \/ "rs" \in noticed)

\* The extension was built from the Rust sources as they are, or a build is due.
ExtensionFresh ==
  options.watch /\ options.source =>
    \/ extension = tree["rs"] \/ unbuilt \/ "rs" \in noticed \cup missed
    \/ "rs" \in batch /\ resident \in {"settle", "rebuild"}

\* The child runs with the extension as it was built last.
EngineBuilt == resident \in {"select", "settle", "rebuild"} => engine_.rs = extension

OnlySourceBuilt == resident = "rebuild" => options.source

WatchInv == WatchType /\ PythonFresh /\ ExtensionFresh /\ EngineBuilt /\ OnlySourceBuilt

LEMMA WatchInitially == WatchInit => WatchInv
<1> SUFFICES ASSUME WatchInit PROVE WatchInv OBVIOUS
<1>1. tree["rs"] = 1 /\ tree \in [Paths -> Nat] BY DEF WatchInit, Paths
<1>2. options \in [watch : BOOLEAN, source : BOOLEAN]
  <2>1. CASE options = [watch |-> TRUE, source |-> FALSE] BY <2>1
  <2>2. CASE options = [watch |-> TRUE, source |-> TRUE] BY <2>2
  <2>3. CASE options = [watch |-> FALSE, source |-> TRUE] BY <2>3
  <2> QED BY <2>1, <2>2, <2>3 DEF WatchInit
<1>3. engine_ \in [alive : BOOLEAN, py : Nat, rs : Nat]
  <2>1. engine_ = [alive |-> FALSE, py |-> 0, rs |-> 0] BY DEF WatchInit, NoChild
  <2> QED BY <2>1
<1> QED BY <1>1, <1>2, <1>3 DEF WatchInit, WatchInv, WatchType, PythonFresh,
                                ExtensionFresh, EngineBuilt, OnlySourceBuilt

LEMMA WatchKeeps == WatchInv /\ [WatchNext]_watchVars => WatchInv'
<1> SUFFICES ASSUME WatchInv, [WatchNext]_watchVars PROVE WatchInv' OBVIOUS
<1> USE DEF WatchInv, WatchType, PythonFresh, ExtensionFresh, EngineBuilt, OnlySourceBuilt
<1>1. CASE spawn BY <1>1 DEF spawn
<1>2. CASE watcher BY <1>2 DEF watcher
<1>3. CASE start_child
  <2>1. tree["py"] \in Nat BY DEF Paths
  <2>2. CASE resident' = "gone" /\ engine_' = NoChild
    <3>1. engine_' = [alive |-> FALSE, py |-> 0, rs |-> 0] BY <2>2 DEF NoChild
    <3>2. engine_' \in [alive : BOOLEAN, py : Nat, rs : Nat] BY <3>1
    <3> QED BY <1>3, <2>2, <3>2 DEF start_child
  <2>3. CASE /\ resident' = "select"
             /\ engine_' = [alive |-> TRUE, py |-> tree["py"], rs |-> extension]
    <3>1. engine_' \in [alive : BOOLEAN, py : Nat, rs : Nat] BY <2>1, <2>3
    <3> QED BY <1>3, <2>3, <3>1 DEF start_child
  <2> QED BY <1>3, <2>2, <2>3 DEF start_child
<1>4. CASE Leaves BY <1>4 DEF Leaves
<1>5. CASE settle BY <1>5 DEF settle
<1>6. CASE Settled
  <2>1. /\ "rs" \in batch /\ options.source => resident' = "rebuild"
        /\ ~("rs" \in batch /\ options.source) => resident' \in {"stop", "start"}
    BY <1>6 DEF Settled
  <2>2. /\ UNCHANGED <<options, tree, extension, noticed, batch, engine_, console, signalled, missed,
                       unbuilt>>
        /\ resident = "settle"
    BY <1>6 DEF Settled
  <2>3. CASE "rs" \in batch /\ options.source BY <2>1, <2>2, <2>3
  <2>4. CASE ~("rs" \in batch /\ options.source) BY <2>1, <2>2, <2>4
  <2> QED BY <2>3, <2>4
<1>7. CASE rebuild
  <2>1. tree["rs"] \in Nat BY DEF Paths
  <2>2. CASE /\ extension' \in IF "rs" \in noticed \cup missed THEN extension..tree["rs"]
                               ELSE {tree["rs"]}
             /\ missed' = IF extension' = tree["rs"] THEN missed \ {"rs"} ELSE missed
             /\ unbuilt' = FALSE
             /\ resident' = IF engine_.alive THEN "stop" ELSE "start"
             /\ UNCHANGED batch
    <3>1. /\ extension' \in Nat /\ missed' \subseteq Paths
          /\ "rs" \in noticed \cup missed' \/ extension' = tree["rs"]
      BY <2>1, <2>2
    <3> QED BY <1>7, <2>2, <3>1 DEF rebuild
  <2>3. CASE unbuilt' = TRUE /\ resident' = "select" /\ batch' = {}
             /\ UNCHANGED <<extension, missed>>
    <3>1. options.source BY <1>7 DEF rebuild
    <3> QED BY <1>7, <2>3, <3>1 DEF rebuild
  <2> QED BY <1>7, <2>2, <2>3 DEF rebuild
<1>8. CASE stop_child
  <2>1. resident \in {"stop", "kill", "leaving", "leaving_kill"}
    BY <1>8 DEF stop_child, After
  <2>2. resident' \in {"kill", "leaving_kill", "start", "console"}
    BY <1>8, <2>1 DEF stop_child, After, Escalate
  <2>3. engine_' \in [alive : BOOLEAN, py : Nat, rs : Nat]
    <3>1. engine_' = [engine_ EXCEPT !.alive = engine_.alive /\ resident \in DOMAIN Escalate]
      BY <1>8 DEF stop_child
    <3>2. (engine_.alive /\ resident \in DOMAIN Escalate) \in BOOLEAN OBVIOUS
    <3> QED BY <3>1, <3>2
  <2>4. UNCHANGED <<options, tree, extension, noticed, batch, console, signalled, missed, unbuilt>>
    BY <1>8 DEF stop_child
  <2> QED BY <2>1, <2>2, <2>3, <2>4
<1>9. CASE stop_console BY <1>9 DEF stop_console
<1>10. CASE Crashes BY <1>10 DEF Crashes
<1>11. CASE Signal BY <1>11 DEF Signal
<1>12. ASSUME NEW path \in Paths, Change(path) PROVE WatchInv'
  <2>1. /\ tree' \in [Paths -> Nat] /\ \A p \in Paths \ {path} : tree'[p] = tree[p]
        /\ UNCHANGED <<options, extension, batch, resident, engine_, console, signalled>>
    <3>1. tree' = [tree EXCEPT ![path] = tree[path] + 1] /\ tree[path] \in Nat BY <1>12 DEF Change
    <3>2. tree' \in [Paths -> Nat] /\ \A p \in Paths \ {path} : tree'[p] = tree[p] BY <3>1
    <3> QED BY <1>12, <3>2 DEF Change
  <2>2. CASE Watched(path) /\ missed' = missed \cup {path} /\ UNCHANGED <<noticed, unbuilt>>
    <3>1. path = "py" \/ path = "rs" BY DEF Paths
    <3>2. CASE path = "py"
      <4>1. tree'["rs"] = tree["rs"] BY <2>1, <3>2 DEF Paths
      <4> QED BY <2>1, <2>2, <3>2, <4>1
    <3>3. CASE path = "rs"
      <4>1. tree'["py"] = tree["py"] BY <2>1, <3>3 DEF Paths
      <4> QED BY <2>1, <2>2, <3>3, <4>1
    <3> QED BY <3>1, <3>2, <3>3
  <2>3. CASE /\ noticed' = IF Watched(path) THEN noticed \cup {path} ELSE noticed
             /\ unbuilt' = IF path = "rs" THEN resident \in {"spawn", "watcher"} ELSE unbuilt
             /\ UNCHANGED missed
    <3>1. unbuilt' \in BOOLEAN
      <4>1. path = "rs" => unbuilt' = (resident \in {"spawn", "watcher"}) BY <2>3
      <4>2. path # "rs" => unbuilt' = unbuilt BY <2>3
      <4>3. unbuilt \in BOOLEAN /\ (resident \in {"spawn", "watcher"}) \in BOOLEAN OBVIOUS
      <4> QED BY ONLY <4>1, <4>2, <4>3, Zenon
    <3>2. noticed' \subseteq Paths /\ noticed \subseteq noticed' BY <2>3
    <3>3. path = "py" \/ path = "rs" BY DEF Paths
    <3>4. CASE path = "py"
      <4>1. tree'["rs"] = tree["rs"] /\ unbuilt' = unbuilt BY <2>1, <2>3, <3>4 DEF Paths
      <4>2. options.watch /\ resident = "select" => "py" \in noticed'
        BY <2>3, <3>4 DEF Watched, relevant
      <4> QED BY <2>1, <2>3, <3>2, <4>1, <4>2
    <3>5. CASE path = "rs"
      <4>1. tree'["py"] = tree["py"] BY <2>1, <3>5 DEF Paths
      <4>2. unbuilt' = (resident \in {"spawn", "watcher"}) BY <2>3, <3>5
      <4>3. options.watch /\ options.source /\ resident \notin {"spawn", "watcher"} =>
              "rs" \in noticed'
        BY <2>3, <3>5 DEF Watched, relevant
      <4> QED BY <2>1, <2>3, <3>1, <3>2, <4>1, <4>2, <4>3
    <3> QED BY <3>3, <3>4, <3>5
  <2> QED BY <1>12, <2>2, <2>3 DEF Change
<1>13. CASE UNCHANGED watchVars BY <1>13 DEF watchVars
<1> QED
  BY <1>1, <1>2, <1>3, <1>4, <1>5, <1>6, <1>7, <1>8, <1>9, <1>10, <1>11, <1>12, <1>13
  DEF WatchNext, Resident

(* No edit is lost between the watcher and the engine, however many there are and whenever
   they arrive: before the watcher is there, while the batch settles, while it builds,
   while the child is stopped (resident, settle, rebuild).                    *)
THEOREM NoEditLost == WatchSpec => []RunsWhatIsThere
<1>1. WatchInv => RunsWhatIsThere
  BY DEF WatchInv, RunsWhatIsThere, PythonFresh, ExtensionFresh, EngineBuilt
<1> QED BY <1>1, WatchInitially, WatchKeeps, PTL DEF WatchSpec

----------------------------------------------------------------------------
(* The listeners.  Whatever holds a media server holds the one `WEBRTC` points at, and a
   listener that is about to serve has held its socket, and so its state, since it was bound. *)
Natives ==
  [object : {"none", "held", "garbage", "freed"}, holds : BOOLEAN,
   socket : {"none", "bound", "serving", "dropping", "closed"}, rtc : Nat,
   conn : {"none", "busy", "idle"}, graced : BOOLEAN]
BindingPhases == {"cli", "https", "http", "info"}

ServingType ==
  /\ native \in [Ids -> Natives]
  /\ gen \in Nat /\ webrtc \in Nat /\ conf \in Confs
  /\ \/ server = NoServer
     \/ server \in [gen : Nat, conf : Confs,
                    phase : BindingPhases \cup {"serving", "raised", "failed", "cancelled", "broken",
                                               "stopped"}]

Unborn == server.gen <= gen /\ \A id \in Ids : id[1] > gen => native[id] = NoNative

BoundStill ==
  server.phase \in BindingPhases =>
    \A id \in Ids : id[1] = server.gen /\ native[id].object = "held" => native[id].socket = "bound"

MediaHeld == \A id \in Ids : native[id].rtc # 0 /\ HasState(native[id]) => native[id].rtc = webrtc

ServingInv == ServingType /\ Unborn /\ BoundStill /\ MediaHeld

LEMMA NoNativeTyped == NoNative \in Natives /\ ~HasState(NoNative) /\ NoNative.object = "none"
<1>1. NoNative = [object |-> "none", holds |-> FALSE, socket |-> "none", rtc |-> 0,
                  conn |-> "none", graced |-> FALSE]
  BY DEF NoNative
<1> QED BY <1>1 DEF Natives, HasState

LEMMA NoServerFacts == NoServer.phase = "none" /\ NoServer.gen = 0
BY DEF NoServer

LEMMA ServingInitially == ServingInit => ServingInv
<1> SUFFICES ASSUME ServingInit PROVE ServingInv OBVIOUS
<1>1. native = [id \in Ids |-> NoNative] BY DEF ServingInit
<1>2. native \in [Ids -> Natives] /\ \A id \in Ids : native[id] = NoNative
  BY <1>1, NoNativeTyped, Zenon
<1>3. server = NoServer /\ gen = 0 /\ webrtc = 0 /\ conf \in Confs BY DEF ServingInit
<1>4. ServingType BY <1>2, <1>3 DEF ServingType
<1>5. Unborn BY <1>2, <1>3, NoServerFacts DEF Unborn
<1>6. BoundStill BY <1>3, NoServerFacts DEF BoundStill, BindingPhases
<1>7. MediaHeld BY <1>2, NoNativeTyped DEF MediaHeld
<1> QED BY <1>4, <1>5, <1>6, <1>7 DEF ServingInv

(* A step that gives no listener its state or its media server.              *)
LEMMA LessHeld ==
  ASSUME ServingInv, native' \in [Ids -> Natives], gen' = gen, webrtc' = webrtc, conf' \in Confs,
         server' = NoServer \/ (server # NoServer /\ server'.gen = server.gen
                                 /\ server' \in [gen : Nat, conf : Confs,
                                       phase : BindingPhases \cup {"serving", "raised", "failed",
                                                 "cancelled", "broken", "stopped"}]),
         server'.phase \in BindingPhases => server.phase \in BindingPhases,
         \A id \in Ids :
           /\ native'[id].rtc = native[id].rtc
           /\ HasState(native'[id]) => HasState(native[id])
           /\ native[id] = NoNative => native'[id] = NoNative
           /\ server'.phase \in BindingPhases /\ native'[id].object = "held" /\ native[id].socket = "bound" =>
                native'[id].socket = "bound"
           /\ native'[id].object = "held" => native[id].object = "held"
  PROVE  ServingInv'
<1>1. server'.gen <= gen' BY NoServerFacts DEF ServingInv, Unborn, ServingType
<1>2. ServingType' BY DEF ServingInv, ServingType
<1>3. Unborn' BY <1>1 DEF ServingInv, Unborn
<1>4. MediaHeld' BY DEF ServingInv, MediaHeld
<1>5. BoundStill' BY NoServerFacts DEF ServingInv, BoundStill, BindingPhases
<1> QED BY <1>2, <1>3, <1>4, <1>5 DEF ServingInv

(* A listener is bound and may come with a media server, the one everybody else holds.  *)
LEMMA BoundKeeps ==
  ASSUME ServingInv, server.phase \in {"cli", "https", "http"},
         NEW slot \in Slots, NEW holds \in BOOLEAN, NEW rtc \in Nat, Bound(slot, holds, rtc),
         gen' = gen, conf' = conf, webrtc' \in Nat, rtc # 0 => webrtc' = rtc,
         \A id \in Ids : native[id].rtc # 0 /\ HasState(native[id]) => native[id].rtc = webrtc'
  PROVE  ServingInv'
<1> DEFINE new == [NoNative EXCEPT !.object = "held", !.holds = holds, !.socket = "bound", !.rtc = rtc]
<1>1. /\ new \in Natives /\ new.rtc = rtc /\ new.socket = "bound"
  BY NoNativeTyped DEF Natives
<1>2. native' = [native EXCEPT ![<<server.gen, slot>>] = new] BY DEF Bound
<1> HIDE DEF new
<1>3. /\ native \in [Ids -> Natives] /\ server # NoServer
      /\ server \in [gen : Nat, conf : Confs,
                     phase : BindingPhases \cup {"serving", "raised", "failed", "cancelled", "broken",
                                                "stopped"}]
  BY NoServerFacts DEF ServingInv, ServingType
<1>4. native' \in [Ids -> Natives] BY <1>1, <1>2, <1>3
<1>5. \A id \in Ids : native'[id] = native[id] \/ (id = <<server.gen, slot>> /\ native'[id] = new)
  BY <1>2, <1>3
<1>6. Following(slot) \in BindingPhases BY DEF Following, BindingPhases
<1>7. /\ server' \in [gen : Nat, conf : Confs,
                      phase : BindingPhases \cup {"serving", "raised", "failed", "cancelled", "broken",
                                                 "stopped"}]
      /\ server'.gen = server.gen
  BY <1>3, <1>6 DEF Bound
<1>8. ServingType' BY <1>4, <1>7 DEF ServingType, ServingInv
<1>9. Unborn'
  <2>1. server'.gen <= gen' BY <1>7 DEF ServingInv, Unborn
  <2>2. ASSUME NEW id \in Ids, id[1] > gen' PROVE native'[id] = NoNative
    <3>1. id # <<server.gen, slot>>
      <4>1. server.gen \in Nat /\ gen \in Nat /\ server.gen <= gen
        BY <1>3 DEF ServingInv, ServingType, Unborn
      <4>2. <<server.gen, slot>>[1] = server.gen OBVIOUS
      <4> QED BY <2>2, <4>1, <4>2
    <3> QED BY <1>5, <2>2, <3>1 DEF ServingInv, Unborn
  <2> QED BY <2>1, <2>2 DEF Unborn
<1>10. BoundStill'
  <2>1. server.phase \in BindingPhases BY DEF BindingPhases
  <2> QED BY <1>1, <1>5, <1>7, <2>1 DEF ServingInv, BoundStill
<1>11. MediaHeld' BY <1>1, <1>5 DEF MediaHeld
<1> QED BY <1>8, <1>9, <1>10, <1>11 DEF ServingInv

(* What a new listener is given is what everybody who holds one holds.       *)
LEMMA SharedFacts ==
  ASSUME ServingInv, server # NoServer
  PROVE  /\ shared_webrtc \in Nat
         /\ shared_webrtc # 0 =>
              \A id \in Ids : native[id].rtc # 0 /\ HasState(native[id]) => native[id].rtc = shared_webrtc
<1>1. server.gen \in Nat /\ webrtc \in Nat BY DEF ServingInv, ServingType
<1>2. CASE shared_webrtc = webrtc BY <1>1, <1>2 DEF ServingInv, MediaHeld
<1>3. CASE shared_webrtc # webrtc /\ shared_webrtc # 0
  <2>1. shared_webrtc = server.gen /\ ~(webrtc # 0 /\ Alive(webrtc)) BY <1>3 DEF shared_webrtc
  <2>2. \A id \in Ids : ~(native[id].rtc # 0 /\ HasState(native[id]))
    BY <2>1 DEF ServingInv, MediaHeld, Alive
  <2> QED BY <1>1, <2>1, <2>2
<1>4. CASE shared_webrtc = 0 BY <1>4
<1> QED BY <1>2, <1>3, <1>4

LEMMA RaiseKeeps ==
  ASSUME ServingInv, server # NoServer, Raise, UNCHANGED <<native, webrtc, gen, conf>>
  PROVE  ServingInv'
<1>1. /\ server'.gen = server.gen /\ server'.phase = "raised"
      /\ server' \in [gen : Nat, conf : Confs,
                      phase : BindingPhases \cup {"serving", "raised", "failed", "cancelled", "broken",
                                                 "stopped"}]
  BY DEF Raise, ServingInv, ServingType
<1> QED BY <1>1, LessHeld DEF ServingInv, ServingType, BindingPhases

LEMMA WebHoldingKeeps == ASSUME ServingInv, web_holding PROVE ServingInv'
<1>1. server.phase \in {"https", "http"} /\ UNCHANGED <<gen, conf>> BY DEF web_holding
<1>2. server # NoServer BY <1>1, NoServerFacts
<1>3. CASE redirect /\ UNCHANGED <<sinks, webrtc>>
  <2>1. CASE Bound("http", FALSE, 0)
    BY <1>1, <1>3, <2>1, BoundKeeps DEF Slots, ServingInv, ServingType, MediaHeld
  <2>2. CASE Raise /\ UNCHANGED native BY <1>1, <1>2, <1>3, <2>2, RaiseKeeps
  <2> QED BY <1>3, <2>1, <2>2 DEF redirect
<1>4. CASE web(server.phase)
  <2>1. CASE /\ webrtc' = IF shared_webrtc = 0 THEN webrtc ELSE shared_webrtc
             /\ Bound(server.phase, TRUE, shared_webrtc)
    <3>1. webrtc' \in Nat /\ (shared_webrtc # 0 => webrtc' = shared_webrtc) /\ shared_webrtc \in Nat
      BY <1>2, <2>1, SharedFacts DEF ServingInv, ServingType
    <3>2. \A id \in Ids : native[id].rtc # 0 /\ HasState(native[id]) => native[id].rtc = webrtc'
      BY <1>2, <2>1, SharedFacts DEF ServingInv, MediaHeld
    <3>3. server.phase \in Slots /\ TRUE \in BOOLEAN BY <1>1 DEF Slots
    <3> QED BY <1>1, <2>1, <3>1, <3>2, <3>3, BoundKeeps
  <2>2. CASE Raise /\ UNCHANGED <<native, webrtc>> BY <1>1, <1>2, <2>2, RaiseKeeps
  <2> QED BY <1>4, <2>1, <2>2 DEF web
<1> QED BY <1>3, <1>4 DEF web_holding

(* The steps that only give up.                                              *)
LEMMA ServingKeeps == ServingInv /\ [ServingNext]_servingVars => ServingInv'
<1> SUFFICES ASSUME ServingInv, [ServingNext]_servingVars PROVE ServingInv' OBVIOUS
<1> DEFINE Records == [gen : Nat, conf : Confs,
                       phase : BindingPhases \cup {"serving", "raised", "failed", "cancelled",
                                                  "broken", "stopped"}]
<1>0. /\ native \in [Ids -> Natives] /\ gen \in Nat /\ webrtc \in Nat
      /\ server # NoServer => server \in Records
      /\ conf \in Confs
      /\ server = NoServer => server.phase = "none"
  BY NoServerFacts DEF ServingInv, ServingType
<1>1. CASE cli
  <2>1. server.phase = "cli" /\ Bound("cli", FALSE, 0) /\ UNCHANGED <<gen, webrtc, conf>>
    BY <1>1 DEF cli
  <2> QED BY <2>1, <1>0, BoundKeeps DEF Slots, ServingInv, MediaHeld
<1>2. CASE web_holding BY <1>2, WebHoldingKeeps
<1>3. CASE serve_all
  <2>1. CASE /\ native' = [id \in Ids |-> IF id \in Mine /\ native[id].object = "held"
                                           THEN [native[id] EXCEPT !.socket = "serving"]
                                           ELSE native[id]]
             /\ server' = [server EXCEPT !.phase = "serving"]
    <3>1. /\ server.phase = "info" /\ server # NoServer /\ UNCHANGED <<gen, webrtc, conf>>
          /\ server' = [server EXCEPT !.phase = "serving"]
      BY <1>0, <1>3, <2>1 DEF serve_all
    <3>2. server' \in Records /\ server'.gen = server.gen /\ server'.phase = "serving"
      BY <1>0, <3>1
    <3>3. \A id \in Ids :
            native'[id] = native[id] \/ /\ id[1] = server.gen /\ native[id].object = "held"
                                        /\ native'[id] = [native[id] EXCEPT !.socket = "serving"]
      BY <2>1 DEF Mine
    <3>4. \A id \in Ids : native'[id] # native[id] => native[id].socket = "bound"
      BY <3>1, <3>3 DEF ServingInv, BoundStill, BindingPhases
    <3>5. DOMAIN native' = Ids /\ native' = [id \in Ids |-> native'[id]] BY <2>1
    <3>6. ASSUME NEW id \in Ids
          PROVE  /\ native'[id] \in Natives /\ native'[id].rtc = native[id].rtc
                 /\ HasState(native'[id]) => HasState(native[id])
                 /\ native[id] = NoNative => native'[id] = NoNative
                 /\ native'[id].object = "held" => native[id].object = "held"
      <4>1. native[id] \in Natives /\ NoNative.object = "none" BY <1>0, NoNativeTyped
      <4>2. CASE native'[id] = native[id] BY <4>1, <4>2
      <4>3. CASE /\ native[id].object = "held" /\ native[id].socket = "bound"
                 /\ native'[id] = [native[id] EXCEPT !.socket = "serving"]
        BY <4>1, <4>3 DEF Natives, HasState
      <4> QED BY <3>3, <3>4, <4>2, <4>3
    <3>7. native' \in [Ids -> Natives] BY <3>5, <3>6
    <3> QED BY <1>0, <3>1, <3>2, <3>6, <3>7, LessHeld DEF BindingPhases
  <2>2. CASE Raise /\ UNCHANGED native
    <3>1. UNCHANGED <<gen, webrtc, conf>> /\ server # NoServer BY <1>0, <1>3 DEF serve_all
    <3> QED BY <1>0, <2>2, <3>1, RaiseKeeps
  <2> QED BY <1>3, <2>1, <2>2 DEF serve_all
<1>4. CASE stop_listeners
  <2>1. /\ server # NoServer /\ UNCHANGED <<gen, webrtc, conf>>
        /\ server' = [server EXCEPT !.phase = "failed"]
    BY <1>0, <1>4 DEF stop_listeners
  <2>2. server' \in Records /\ server'.gen = server.gen /\ server'.phase = "failed"
    BY <1>0, <2>1
  <2>3. \A id \in Ids :
          \/ native'[id] = native[id]
          \/ /\ native[id].object = "held"
             /\ native'[id] = [native[id] EXCEPT !.holds = FALSE, !.graced = TRUE]
    BY <1>4 DEF stop_listeners, Mine
  <2>4. native' = [id \in Ids |-> native'[id]] BY <1>4 DEF stop_listeners
  <2>5. ASSUME NEW id \in Ids
        PROVE  /\ native'[id] \in Natives /\ native'[id].rtc = native[id].rtc
               /\ HasState(native'[id]) => HasState(native[id])
               /\ native[id] = NoNative => native'[id] = NoNative
               /\ native'[id].object = "held" => native[id].object = "held"
    BY <1>0, <2>3, <2>5, NoNativeTyped DEF Natives, HasState
  <2>6. native' \in [Ids -> Natives] BY <2>4, <2>5
  <2> QED BY <1>0, <2>1, <2>2, <2>5, <2>6, LessHeld DEF BindingPhases
<1>5. CASE Finally
  <2>1. /\ server # NoServer /\ UNCHANGED <<gen, webrtc, conf>>
        /\ \E p \in {"failed", "stopped"} : server' = [server EXCEPT !.phase = p]
    BY <1>0, <1>5 DEF Finally
  <2>2. server' \in Records /\ server'.gen = server.gen /\ server'.phase \in {"failed", "stopped"}
    BY <1>0, <2>1
  <2>3. \A id \in Ids :
          \/ native'[id] = native[id]
          \/ native[id].object = "held" /\ native'[id] = [native[id] EXCEPT !.object = "garbage"]
    BY <1>5 DEF Finally, Mine
  <2>4. native' = [id \in Ids |-> native'[id]] BY <1>5 DEF Finally
  <2>5. ASSUME NEW id \in Ids
        PROVE  /\ native'[id] \in Natives /\ native'[id].rtc = native[id].rtc
               /\ HasState(native'[id]) => HasState(native[id])
               /\ native[id] = NoNative => native'[id] = NoNative
               /\ native'[id].object = "held" => native[id].object = "held"
    BY <1>0, <2>3, <2>5, NoNativeTyped DEF Natives, HasState
  <2>6. native' \in [Ids -> Natives] BY <2>4, <2>5
  <2> QED BY <1>0, <2>1, <2>2, <2>5, <2>6, LessHeld DEF BindingPhases
<1>6. CASE _stop_server
  <2>1. server' = NoServer /\ server'.phase = "none" /\ UNCHANGED <<gen, webrtc, conf>>
    BY <1>6, NoServerFacts DEF _stop_server
  <2>2. \A id \in Ids :
          \/ native'[id] = native[id]
          \/ native[id].object = "held" /\ native'[id] = [native[id] EXCEPT !.object = "garbage"]
    BY <1>6 DEF _stop_server, Mine
  <2>3. native' = [id \in Ids |-> native'[id]] BY <1>6 DEF _stop_server
  <2>4. ASSUME NEW id \in Ids
        PROVE  /\ native'[id] \in Natives /\ native'[id].rtc = native[id].rtc
               /\ HasState(native'[id]) => HasState(native[id])
               /\ native[id] = NoNative => native'[id] = NoNative
               /\ native'[id].object = "held" => native[id].object = "held"
    BY <1>0, <2>2, <2>4, NoNativeTyped DEF Natives, HasState
  <2>5. native' \in [Ids -> Natives] BY <2>3, <2>4
  <2> QED BY <1>0, <2>1, <2>4, <2>5, LessHeld DEF BindingPhases
<1>7. CASE _start_server
  <2>1. /\ gen' = gen + 1 /\ UNCHANGED <<conf, native, webrtc>>
        /\ server' = [gen |-> gen + 1, phase |-> "cli", conf |-> conf]
    BY <1>7 DEF _start_server
  <2>2. server' \in Records /\ server'.gen = gen + 1 BY <1>0, <2>1 DEF BindingPhases
  <2>3. \A id \in Ids : id[1] > gen => native[id] = NoNative BY DEF ServingInv, Unborn
  <2>4. \A id \in Ids : id[1] \in Nat BY DEF Ids
  <2>5. ServingType' BY <1>0, <2>1, <2>2 DEF ServingType
  <2>6. Unborn' BY <1>0, <2>1, <2>2, <2>3, <2>4 DEF Unborn
  <2>7. BoundStill'
    <3> SUFFICES ASSUME NEW id \in Ids, id[1] = server'.gen PROVE native'[id].object # "held"
      BY DEF BoundStill
    <3> QED BY <1>0, <2>1, <2>2, <2>3, <2>4, NoNativeTyped
  <2>8. MediaHeld' BY <2>1 DEF ServingInv, MediaHeld
  <2> QED BY <2>5, <2>6, <2>7, <2>8 DEF ServingInv
<1>8. CASE Cancel
  <2>1. /\ server # NoServer /\ UNCHANGED <<gen, webrtc, conf>>
        /\ \E p \in {"cancelled", "broken"} : server' = [server EXCEPT !.phase = p]
    BY <1>0, <1>8 DEF Cancel
  <2>2. server' \in Records /\ server'.gen = server.gen /\ server'.phase \in {"cancelled", "broken"}
    BY <1>0, <2>1
  <2>3. \A id \in Ids :
          \/ native'[id] = native[id]
          \/ native[id].socket = "serving" /\ native'[id] = [native[id] EXCEPT !.socket = "dropping"]
    BY <1>8 DEF Cancel, Mine
  <2>4. native' = [id \in Ids |-> native'[id]] BY <1>8 DEF Cancel
  <2>5. ASSUME NEW id \in Ids
        PROVE  /\ native'[id] \in Natives /\ native'[id].rtc = native[id].rtc
               /\ HasState(native'[id]) => HasState(native[id])
               /\ native[id] = NoNative => native'[id] = NoNative
               /\ native'[id].object = "held" => native[id].object = "held"
    BY <1>0, <2>3, <2>5, NoNativeTyped DEF Natives, HasState
  <2>6. native' \in [Ids -> Natives] BY <2>4, <2>5
  <2> QED BY <1>0, <2>1, <2>2, <2>5, <2>6, LessHeld DEF BindingPhases
<1>9. CASE Leave \/ \E c \in Confs : _apply(c)
  <2>1. UNCHANGED <<server, gen, native, webrtc>> /\ conf' \in Confs
    BY <1>0, <1>9 DEF Leave, _apply
  <2> QED BY <1>0, <2>1, LessHeld
<1>10. ASSUME NEW id \in Ids, NativeServerDrop(id) PROVE ServingInv'
  <2>1. UNCHANGED <<conf, server, gen, webrtc>> BY <1>10 DEF NativeServerDrop
  <2>2. \A i \in Ids :
          \/ native'[i] = native[i]
          \/ /\ native[i].object = "garbage" /\ native'[i].object = "freed"
             /\ native'[i] \in Natives /\ native'[i].rtc = native[i].rtc
             /\ native'[i].conn = native[i].conn
             /\ native'[i].socket = IF native[i].socket = "bound" THEN "closed" ELSE native[i].socket
    BY <1>0, <1>10 DEF NativeServerDrop, Natives
  <2>3. native' = [i \in Ids |-> native'[i]] BY <1>0, <1>10 DEF NativeServerDrop
  <2>4. ASSUME NEW i \in Ids
        PROVE  /\ native'[i] \in Natives /\ native'[i].rtc = native[i].rtc
               /\ HasState(native'[i]) => HasState(native[i])
               /\ native[i] = NoNative => native'[i] = NoNative
               /\ native'[i].object = "held" => native[i] = native'[i]
    BY <1>0, <2>2, <2>4, NoNativeTyped DEF HasState
  <2>5. native' \in [Ids -> Natives] BY <2>3, <2>4
  <2> QED BY <1>0, <2>1, <2>4, <2>5, LessHeld
<1>11. ASSUME NEW id \in Ids, Dropped(id) PROVE ServingInv'
  <2>1. UNCHANGED <<conf, server, gen, webrtc>> BY <1>11 DEF Dropped
  <2>2. \A i \in Ids :
          native'[i] = native[i] \/ /\ native[i].socket = "dropping"
                                    /\ native'[i] = [native[i] EXCEPT !.socket = "closed"]
    BY <1>0, <1>11 DEF Dropped
  <2>3. native' = [i \in Ids |-> native'[i]] BY <1>0, <1>11 DEF Dropped
  <2>4. ASSUME NEW i \in Ids
        PROVE  /\ native'[i] \in Natives /\ native'[i].rtc = native[i].rtc
               /\ HasState(native'[i]) => HasState(native[i])
               /\ native[i] = NoNative => native'[i] = NoNative
               /\ native[i].socket = "bound" => native[i] = native'[i]
               /\ native'[i].object = native[i].object
    <3>1. NoNative.socket = "none" BY DEF NoNative
    <3> QED BY <1>0, <2>2, <2>4, <3>1 DEF HasState, Natives
  <2>5. native' \in [Ids -> Natives] BY <2>3, <2>4
  <2> QED BY <1>0, <2>1, <2>4, <2>5, LessHeld
<1>12. ASSUME NEW id \in Ids, Connection(id) PROVE ServingInv'
  <2>1. UNCHANGED <<conf, server, gen, webrtc>> BY <1>12 DEF Connection
  <2>2. \A i \in Ids :
          \/ native'[i] = native[i]
          \/ /\ native[i].conn # "none" \/ native[i].socket = "serving"
             /\ \E c \in {"none", "busy", "idle"} : native'[i] = [native[i] EXCEPT !.conn = c]
    BY <1>0, <1>12 DEF Connection
  <2>3. native' = [i \in Ids |-> native'[i]] BY <1>0, <1>12 DEF Connection
  <2>4. ASSUME NEW i \in Ids
        PROVE  /\ native'[i] \in Natives /\ native'[i].rtc = native[i].rtc
               /\ HasState(native'[i]) => HasState(native[i])
               /\ native[i] = NoNative => native'[i] = NoNative
               /\ native'[i].socket = native[i].socket
               /\ native'[i].object = native[i].object
    <3>1. NoNative.socket = "none" /\ NoNative.conn = "none" BY DEF NoNative
    <3>2. CASE native'[i] = native[i] BY <1>0, <2>4, <3>2
    <3>3. CASE \E c \in {"none", "busy", "idle"} : native'[i] = [native[i] EXCEPT !.conn = c]
      <4>1. /\ native'[i] \in Natives /\ native'[i].rtc = native[i].rtc
            /\ native'[i].socket = native[i].socket /\ native'[i].object = native[i].object
        BY <1>0, <2>4, <3>3 DEF Natives
      <4>2. CASE native'[i] # native[i]
        <5>1. HasState(native[i]) /\ native[i] # NoNative
          BY <2>2, <2>4, <4>2, <3>1 DEF HasState
        <5> QED BY <4>1, <5>1
      <4> QED BY <3>2, <4>1, <4>2
    <3> QED BY <2>2, <2>4, <3>2, <3>3
  <2>5. native' \in [Ids -> Natives] BY <2>3, <2>4
  <2> QED BY <1>0, <2>1, <2>4, <2>5, LessHeld
<1>13. CASE UNCHANGED servingVars
  <2>1. UNCHANGED <<conf, server, gen, native, webrtc>> BY <1>13 DEF servingVars
  <2> QED BY <1>0, <2>1, LessHeld
<1> QED
  BY <1>1, <1>2, <1>3, <1>4, <1>5, <1>6, <1>7, <1>8, <1>9, <1>10, <1>11, <1>12, <1>13
  DEF ServingNext, Loop

(* There is one media server at a time, across any number of restarts, of listeners that
   fail to bind, of sockets dropped late and of connections that stay (shared_webrtc).  *)
THEOREM OneMedia == ServingSpec => []OneMediaServer
<1>1. ServingInv => OneMediaServer BY DEF ServingInv, MediaHeld, OneMediaServer
<1> QED BY <1>1, ServingInitially, ServingKeeps, PTL DEF ServingSpec

----------------------------------------------------------------------------
(* Streams: one connection at a time.  Whatever one does leaves the others   *)
(* as they are, so the invariant is a predicate of a connection.             *)

Answers == [is : {"none", "handle", "refused", "text", "end", "close"}, item : Nat]
Calls == [method : {"open", "next", "close"}, id : Nat]

StreamsType ==
  /\ kind \in [Conns -> StreamKinds]
  /\ client \in [Conns -> {"here", "left"}]
  /\ frames \in [Conns -> Nat]
  /\ phase \in [Conns -> Phases]
  /\ awaited \in [Conns -> Nat]
  /\ answer \in [Conns -> Answers]
  /\ calls \in [Conns -> Seq(Calls)]
  /\ asked \in [Conns -> Nat]
  /\ registered \in [Conns -> BOOLEAN]
  /\ iterator \in [Conns -> {"none", "idle", "busy", "ended"}]
  /\ pulling \in [Conns -> Nat]
  /\ pulls \in [Conns -> Nat]
  /\ closing \in [Conns -> {"no", "waiting", "release", "done"}]
  /\ hook \in [Conns -> Nat]
  /\ yielded \in [Conns -> Nat]
  /\ sent \in [Conns -> Seq(Nat)]

InOrder(c) == \A i \in 1..Len(sent[c]) : sent[c][i] = i

(* Nothing was opened yet.                                                   *)
AtRequest(c) ==
  phase[c] = "request" =>
    /\ calls[c] = <<>> /\ ~registered[c] /\ iterator[c] = "none" /\ closing[c] = "no"
    /\ Len(sent[c]) = yielded[c]

(* The open is on its way or answered, and nothing was pulled.               *)
AtAsked(c) ==
  phase[c] = "asked" =>
    /\ closing[c] = "no" /\ Len(sent[c]) = yielded[c] /\ iterator[c] \in {"none", "idle"}
    /\ \/ /\ calls[c] = <<[method |-> "open", id |-> awaited[c]]>>
          /\ answer[c] = NoAnswer /\ iterator[c] = "none"
       \/ /\ calls[c] = <<>> /\ answer[c].is \in {"handle", "refused"}
          /\ answer[c].is = "handle" => registered[c] /\ (kind[c] # "file" => iterator[c] = "idle")

(* Between two pulls nothing is under way and nothing is missing.            *)
AtLoop(c) ==
  phase[c] = "loop" =>
    /\ closing[c] = "no" /\ registered[c] /\ calls[c] = <<>> /\ Len(sent[c]) = yielded[c]
    /\ iterator[c] # "busy" /\ (kind[c] # "file" => iterator[c] \in {"idle", "ended"})

(* A pull is scheduled, or the iterator is busy with it, or it was answered: with the one
   item that was yielded and not sent, or with the end of the iterator.      *)
AtPull(c) ==
  phase[c] = "pull" =>
    /\ closing[c] = "no" /\ registered[c] /\ kind[c] # "file"
    /\ \/ /\ calls[c] = <<[method |-> "next", id |-> awaited[c]]>> /\ answer[c] = NoAnswer
          /\ iterator[c] \in {"idle", "ended"} /\ Len(sent[c]) = yielded[c]
       \/ /\ calls[c] = <<>> /\ answer[c] = NoAnswer
          /\ iterator[c] = "busy" /\ pulling[c] = awaited[c] /\ Len(sent[c]) = yielded[c]
       \/ /\ calls[c] = <<>> /\ answer[c].is = "text" /\ answer[c].item = yielded[c]
          /\ iterator[c] = "idle" /\ Len(sent[c]) + 1 = yielded[c]
       \/ /\ calls[c] = <<>> /\ answer[c].is \in {"end", "close"}
          /\ iterator[c] = "ended" /\ Len(sent[c]) = yielded[c]

(* The loop was left with the client there: the iterator has ended.          *)
AtClose(c) ==
  phase[c] = "close" /\ client[c] = "here" =>
    /\ closing[c] = "no" /\ calls[c] = <<>> /\ iterator[c] # "busy"
    /\ kind[c] # "file" => iterator[c] = "ended" /\ Len(sent[c]) = yielded[c]

Lane(c) ==
  frames[c] = 0 =>
    InOrder(c) /\ AtRequest(c) /\ AtAsked(c) /\ AtLoop(c) /\ AtPull(c) /\ AtClose(c)

StreamsInv == StreamsType /\ \A c \in Conns : Lane(c)


Stays(d) ==
  /\ kind'[d] = kind[d] /\ client'[d] = client[d] /\ frames'[d] = frames[d]
  /\ phase'[d] = phase[d] /\ awaited'[d] = awaited[d] /\ answer'[d] = answer[d]
  /\ calls'[d] = calls[d] /\ asked'[d] = asked[d] /\ registered'[d] = registered[d]
  /\ iterator'[d] = iterator[d] /\ pulling'[d] = pulling[d] /\ pulls'[d] = pulls[d]
  /\ closing'[d] = closing[d] /\ hook'[d] = hook[d] /\ yielded'[d] = yielded[d]
  /\ sent'[d] = sent[d]

LEMMA StaysKeeps == ASSUME NEW d \in Conns, Lane(d), Stays(d) PROVE Lane(d)'
BY DEF Lane, Stays, InOrder, AtRequest, AtAsked, AtLoop, AtPull, AtClose

LEMMA Messages ==
  /\ into_stream_message({"ok"}) = "text" /\ into_stream_message({"message"}) = "text"
  /\ into_stream_message({"end"}) = "end" /\ into_stream_message({"close"}) = "close"
  /\ into_answer({"response"}) = "served" /\ into_answer({"error"}) = "refused"
BY DEF into_stream_message, into_answer

LEMMA OneCall ==
  ASSUME NEW x
  PROVE  <<x>> # <<>> /\ Head(<<x>>) = x /\ Tail(<<x>>) = <<>>
<1>1. <<x>> \in Seq({x}) /\ Len(<<x>>) = 1 /\ <<x>>[1] = x OBVIOUS
<1> DEFINE q == <<x>>
<1> HIDE DEF q
<1>2. q \in Seq({x}) /\ Len(q) = 1 => q # <<>> /\ Tail(q) = <<>>
  <2> SUFFICES ASSUME q \in Seq({x}), Len(q) = 1 PROVE q # <<>> /\ Tail(q) = <<>> OBVIOUS
  <2>1. q # <<>> OBVIOUS
  <2>2. Tail(q) \in Seq({x}) /\ Len(Tail(q)) = 0 BY <2>1
  <2>3. \A s \in Seq({x}) : Len(s) = 0 => s = <<>> OBVIOUS
  <2> QED BY <2>1, <2>2, <2>3
<1>3. <<x>> # <<>> /\ Tail(<<x>>) = <<>> BY <1>1, <1>2 DEF q
<1>4. Head(<<x>>) = x OBVIOUS
<1> QED BY <1>3, <1>4

LEMMA NoAnswerIs == NoAnswer \in Answers /\ NoAnswer.is = "none" /\ NoAnswer.item = 0
BY DEF NoAnswer, Answers

LEMMA AppendCall ==
  ASSUME NEW q \in Seq(Calls), NEW x \in Calls
  PROVE  Append(q, x) \in Seq(Calls) /\ (q = <<>> => Append(q, x) = <<x>>)
<1>1. Append(q, x) \in Seq(Calls) OBVIOUS
<1>2. Append(<<>>, x) = <<x>> OBVIOUS
<1> QED BY <1>1, <1>2

(* The next call is taken off a queue.                                       *)
LEMMA BeginFacts ==
  ASSUME StreamsType, NEW c \in Conns, NEW method, Begin(c, method)
  PROVE  /\ calls[c] # <<>> /\ Head(calls[c]) \in Calls /\ Head(calls[c]).method = method
         /\ calls' \in [Conns -> Seq(Calls)] /\ calls'[c] = Tail(calls[c])
         /\ \A d \in Conns \ {c} : calls'[d] = calls[d]
<1>1. calls[c] \in Seq(Calls) /\ calls[c] # <<>> BY DEF StreamsType, Begin
<1>2. Head(calls[c]) \in Calls /\ Tail(calls[c]) \in Seq(Calls) BY <1>1
<1> QED BY <1>1, <1>2 DEF StreamsType, Begin

LEMMA CompleteFacts ==
  ASSUME StreamsType, NEW c \in Conns, NEW id, NEW item \in Nat,
         NEW is \in {"none", "handle", "refused", "text", "end", "close"}, Complete(c, id, is, item)
  PROVE  /\ answer' \in [Conns -> Answers]
         /\ awaited[c] = id => answer'[c].is = is /\ answer'[c].item = item
         /\ awaited[c] # id => answer' = answer
         /\ \A d \in Conns \ {c} : answer'[d] = answer[d]
<1>1. [is |-> is, item |-> item] \in Answers BY DEF Answers
<1> QED BY <1>1 DEF StreamsType, Complete

(* A call is made.                                                           *)
LEMMA CallFacts ==
  ASSUME StreamsType, NEW c \in Conns, NEW method \in {"open", "next", "close"}, call(c, method)
  PROVE  /\ asked' \in [Conns -> Nat] /\ calls' \in [Conns -> Seq(Calls)]
         /\ awaited' \in [Conns -> Nat] /\ answer' \in [Conns -> Answers]
         /\ answer'[c] = NoAnswer
         /\ calls[c] = <<>> => calls'[c] = <<[method |-> method, id |-> awaited'[c]]>>
         /\ \A d \in Conns \ {c} : /\ asked'[d] = asked[d] /\ calls'[d] = calls[d]
                                   /\ awaited'[d] = awaited[d] /\ answer'[d] = answer[d]
<1> DEFINE x == [method |-> method, id |-> asked[c] + 1]
<1>1. asked[c] \in Nat /\ x \in Calls /\ calls[c] \in Seq(Calls) BY DEF StreamsType, Calls
<1>2. calls' = [calls EXCEPT ![c] = Append(@, x)] BY DEF call
<1>3. awaited' = [awaited EXCEPT ![c] = asked[c] + 1] BY DEF call
<1>4. awaited'[c] = asked[c] + 1 BY <1>3 DEF StreamsType
<1>5. x = [method |-> method, id |-> awaited'[c]] BY <1>4
<1> HIDE DEF x
<1>6. /\ calls' \in [Conns -> Seq(Calls)]
      /\ calls[c] = <<>> => calls'[c] = <<x>>
      /\ \A d \in Conns \ {c} : calls'[d] = calls[d]
  BY <1>1, <1>2, AppendCall DEF StreamsType
<1>7. /\ asked' \in [Conns -> Nat] /\ awaited' \in [Conns -> Nat]
      /\ \A d \in Conns \ {c} : asked'[d] = asked[d] /\ awaited'[d] = awaited[d]
  BY <1>1, <1>3 DEF StreamsType, call
<1>8. /\ answer' \in [Conns -> Answers] /\ answer'[c] = NoAnswer
      /\ \A d \in Conns \ {c} : answer'[d] = answer[d]
  BY NoAnswerIs DEF StreamsType, call
<1> QED BY <1>5, <1>6, <1>7, <1>8

LEMMA ForgetFacts ==
  ASSUME StreamsType, NEW c \in Conns, Forget(c)
  PROVE  /\ awaited' \in [Conns -> Nat] /\ answer' \in [Conns -> Answers]
         /\ answer'[c] = NoAnswer
         /\ \A d \in Conns \ {c} : awaited'[d] = awaited[d] /\ answer'[d] = answer[d]
BY NoAnswerIs DEF StreamsType, Forget

(* What a connection whose task is done, or whose client is gone, still promises.       *)
Late(c) ==
  phase[c] \notin {"request", "asked", "loop", "pull"} /\ ~(phase[c] = "close" /\ client[c] = "here")

LEMMA LateKeeps ==
  ASSUME NEW c \in Conns, Lane(c), Late(c), frames'[c] = frames[c], phase'[c] = phase[c],
         client'[c] = client[c], sent'[c] = sent[c]
  PROVE  Lane(c)'
BY DEF Lane, Late, InOrder, AtRequest, AtAsked, AtLoop, AtPull, AtClose

(* A call starts only where the server awaits it, or late.                   *)
LEMMA BeginPhase ==
  ASSUME StreamsType, NEW c \in Conns, Lane(c), frames[c] = 0, NEW method, Begin(c, method)
  PROVE  \/ /\ phase[c] = "asked" /\ method = "open"
            /\ calls[c] = <<[method |-> "open", id |-> awaited[c]]>>
         \/ /\ phase[c] = "pull" /\ method = "next"
            /\ calls[c] = <<[method |-> "next", id |-> awaited[c]]>>
         \/ Late(c)
<1>1. calls[c] # <<>> /\ Head(calls[c]).method = method BY BeginFacts
<1>2. InOrder(c) /\ phase[c] \notin {"request", "loop"} BY <1>1 DEF Lane, AtRequest, AtLoop
<1>3. CASE phase[c] = "pull"
  <2>1. calls[c] = <<[method |-> "next", id |-> awaited[c]]>> BY <1>1, <1>3 DEF Lane, AtPull
  <2>2. Head(calls[c]).method = "next" BY <2>1, OneCall
  <2> QED BY <1>1, <1>3, <2>1, <2>2
<1>4. CASE phase[c] = "asked"
  <2>1. calls[c] = <<[method |-> "open", id |-> awaited[c]]>> BY <1>1, <1>4 DEF Lane, AtAsked
  <2>2. Head(calls[c]).method = "open" BY <2>1, OneCall
  <2> QED BY <1>1, <1>4, <2>1, <2>2
<1>5. ~(phase[c] = "close" /\ client[c] = "here") BY <1>1 DEF Lane, AtClose
<1> QED BY <1>2, <1>3, <1>4, <1>5 DEF Late

(* The open is answered: a handle is registered, with an iterator unless it is a file.  *)
LEMMA OpenStep ==
  ASSUME StreamsInv, NEW c \in Conns, stream_open(c) \/ serve_output(c)
  PROVE  StreamsType' /\ Lane(c)' /\ \A d \in Conns \ {c} : Stays(d)
<1>1. StreamsType /\ Lane(c) BY DEF StreamsInv
<1>2. /\ Begin(c, "open")
      /\ UNCHANGED <<kind, client, frames, phase, awaited, sent, asked, pulling, pulls, closing,
                     hook, yielded>>
      /\ \E opened \in BOOLEAN :
           /\ registered' = [registered EXCEPT ![c] = opened]
           /\ \E i \in {"idle", iterator[c]} :
                /\ iterator' = [iterator EXCEPT ![c] = i]
                /\ opened /\ kind[c] # "file" => i = "idle"
           /\ Complete(c, Head(calls[c]).id, IF opened THEN "handle" ELSE "refused", 0)
  BY <1>1, Messages DEF stream_open, serve_output, StreamsType, StreamKinds
<1>3. PICK opened \in BOOLEAN :
           /\ registered' = [registered EXCEPT ![c] = opened]
           /\ \E i \in {"idle", iterator[c]} :
                /\ iterator' = [iterator EXCEPT ![c] = i]
                /\ opened /\ kind[c] # "file" => i = "idle"
           /\ Complete(c, Head(calls[c]).id, IF opened THEN "handle" ELSE "refused", 0)
  BY <1>2
<1>4. PICK i \in {"idle", iterator[c]} :
                /\ iterator' = [iterator EXCEPT ![c] = i]
                /\ opened /\ kind[c] # "file" => i = "idle"
  BY <1>3
<1>5. /\ registered'[c] = opened /\ registered' \in [Conns -> BOOLEAN]
      /\ \A d \in Conns \ {c} : registered'[d] = registered[d]
  BY <1>1, <1>3 DEF StreamsType
<1>6. /\ iterator'[c] = i /\ iterator' \in [Conns -> {"none", "idle", "busy", "ended"}]
      /\ \A d \in Conns \ {c} : iterator'[d] = iterator[d]
  BY <1>1, <1>4 DEF StreamsType
<1>7. PICK is \in {"handle", "refused"} :
         is = (IF opened THEN "handle" ELSE "refused") /\ Complete(c, Head(calls[c]).id, is, 0)
  BY <1>3
<1>8. /\ answer' \in [Conns -> Answers]
      /\ awaited[c] = Head(calls[c]).id => answer'[c].is = is
      /\ \A d \in Conns \ {c} : answer'[d] = answer[d]
  BY <1>1, <1>7, CompleteFacts
<1>9. /\ calls[c] # <<>> /\ Head(calls[c]).method = "open"
      /\ calls' \in [Conns -> Seq(Calls)] /\ calls'[c] = Tail(calls[c])
      /\ \A d \in Conns \ {c} : calls'[d] = calls[d]
  BY <1>1, <1>2, BeginFacts
<1>10. StreamsType' BY <1>1, <1>2, <1>5, <1>6, <1>8, <1>9 DEF StreamsType
<1>11. \A d \in Conns \ {c} : Stays(d) BY <1>2, <1>5, <1>6, <1>8, <1>9 DEF Stays
<1> SUFFICES Lane(c)' BY <1>10, <1>11
<1>12. CASE frames[c] = 0 /\ phase[c] = "asked"
  <2>1. calls[c] = <<[method |-> "open", id |-> awaited[c]]>> /\ iterator[c] = "none"
        /\ closing[c] = "no" /\ Len(sent[c]) = yielded[c] /\ InOrder(c)
    BY <1>1, <1>9, <1>12 DEF Lane, AtAsked
  <2>2. Head(calls[c]).id = awaited[c] /\ calls'[c] = <<>> BY <1>9, <2>1, OneCall
  <2>3. AtAsked(c)' BY <1>2, <1>4, <1>5, <1>6, <1>7, <1>8, <2>1, <2>2 DEF AtAsked
  <2> QED BY <1>2, <1>12, <2>1, <2>3 DEF Lane, InOrder, AtRequest, AtLoop, AtPull, AtClose
<1>13. CASE frames[c] = 0 /\ phase[c] # "asked"
  <2>1. Late(c) BY <1>1, <1>2, <1>13, BeginPhase
  <2> QED BY <1>1, <1>2, <2>1, LateKeeps
<1>14. CASE frames[c] # 0 BY <1>2, <1>14 DEF Lane
<1> QED BY <1>12, <1>13, <1>14


(* A pull starts: it is answered at once, or the iterator is busy with it.   *)
LEMMA NextStep ==
  ASSUME StreamsInv, NEW c \in Conns, stream_next(c)
  PROVE  StreamsType' /\ Lane(c)' /\ \A d \in Conns \ {c} : Stays(d)
<1>1. StreamsType /\ Lane(c) BY DEF StreamsInv
<1>2. /\ Begin(c, "next")
      /\ UNCHANGED <<kind, client, frames, phase, awaited, sent, asked, registered, closing, hook,
                     yielded>>
  BY DEF stream_next
<1>3. /\ calls[c] # <<>> /\ Head(calls[c]) \in Calls
      /\ calls' \in [Conns -> Seq(Calls)] /\ calls'[c] = Tail(calls[c])
      /\ \A d \in Conns \ {c} : calls'[d] = calls[d]
  BY <1>1, <1>2, BeginFacts
<1>4. PICK id \in Nat : id = Head(calls[c]).id BY <1>3 DEF Calls
<1>5. CASE /\ ~registered[c] \/ iterator[c] = "ended"
           /\ Complete(c, id, "end", 0) /\ UNCHANGED <<iterator, pulling, pulls>>
  <2>1. /\ answer' \in [Conns -> Answers] /\ (awaited[c] = id => answer'[c].is = "end")
        /\ \A d \in Conns \ {c} : answer'[d] = answer[d]
    BY <1>1, <1>5, CompleteFacts
  <2>2. StreamsType' BY <1>1, <1>2, <1>3, <1>5, <2>1 DEF StreamsType
  <2>3. \A d \in Conns \ {c} : Stays(d) BY <1>2, <1>3, <1>5, <2>1 DEF Stays
  <2>4. CASE phase[c] = "pull" /\ frames[c] = 0
              /\ calls[c] = <<[method |-> "next", id |-> awaited[c]]>>
    <3>1. id = awaited[c] /\ calls'[c] = <<>> BY <1>3, <1>4, <2>4, OneCall
    <3>2. /\ closing[c] = "no" /\ registered[c] /\ kind[c] # "file" /\ Len(sent[c]) = yielded[c]
          /\ InOrder(c)
      BY <1>1, <2>4 DEF Lane, AtPull
    <3>3. AtPull(c)' BY <1>2, <1>5, <2>1, <3>1, <3>2 DEF AtPull
    <3>4. Lane(c)' BY <1>2, <2>4, <3>2, <3>3 DEF Lane, InOrder, AtRequest, AtAsked, AtLoop, AtClose
    <3> QED BY <2>2, <2>3, <3>4
  <2>5. CASE Late(c) BY <1>1, <1>2, <2>2, <2>3, <2>5, LateKeeps
  <2>6. CASE frames[c] # 0
    <3>1. Lane(c)' BY <1>2, <2>6 DEF Lane
    <3> QED BY <2>2, <2>3, <3>1
  <2> QED BY <1>1, <1>2, <2>4, <2>5, <2>6, BeginPhase
<1>6. CASE /\ iterator[c] = "busy" /\ pulls' = [pulls EXCEPT ![c] = 0]
           /\ Complete(c, id, "close", 0) /\ UNCHANGED <<iterator, pulling>>
  <2>1. /\ answer' \in [Conns -> Answers]
        /\ \A d \in Conns \ {c} : answer'[d] = answer[d]
    BY <1>1, <1>6, CompleteFacts
  <2>2. StreamsType' BY <1>1, <1>2, <1>3, <1>6, <2>1 DEF StreamsType
  <2>3. \A d \in Conns \ {c} : Stays(d) BY <1>1, <1>2, <1>3, <1>6, <2>1 DEF Stays, StreamsType
  <2>4. ~(phase[c] = "pull" /\ frames[c] = 0)
    <3> SUFFICES ASSUME phase[c] = "pull", frames[c] = 0 PROVE FALSE OBVIOUS
    <3> QED BY <1>1, <1>3, <1>6 DEF Lane, AtPull
  <2>5. CASE Late(c) BY <1>1, <1>2, <2>2, <2>3, <2>5, LateKeeps
  <2>6. CASE frames[c] # 0
    <3>1. Lane(c)' BY <1>2, <2>6 DEF Lane
    <3> QED BY <2>2, <2>3, <3>1
  <2> QED BY <1>1, <1>2, <2>4, <2>5, <2>6, BeginPhase
<1>7. CASE /\ pulls' = [pulls EXCEPT ![c] = id]
           /\ pulling' = [pulling EXCEPT ![c] = id]
           /\ iterator' = [iterator EXCEPT ![c] = "busy"]
           /\ UNCHANGED answer
  <2>1. /\ pulling'[c] = id /\ iterator'[c] = "busy"
        /\ \A d \in Conns \ {c} : /\ pulls'[d] = pulls[d] /\ pulling'[d] = pulling[d]
                                  /\ iterator'[d] = iterator[d]
    BY <1>1, <1>7 DEF StreamsType
  <2>2. StreamsType' BY <1>1, <1>2, <1>3, <1>7 DEF StreamsType
  <2>3. \A d \in Conns \ {c} : Stays(d) BY <1>2, <1>3, <1>7, <2>1 DEF Stays
  <2>4. CASE phase[c] = "pull" /\ frames[c] = 0
              /\ calls[c] = <<[method |-> "next", id |-> awaited[c]]>>
    <3>1. id = awaited[c] /\ calls'[c] = <<>> BY <1>3, <1>4, <2>4, OneCall
    <3>2. /\ closing[c] = "no" /\ registered[c] /\ kind[c] # "file" /\ Len(sent[c]) = yielded[c]
          /\ InOrder(c) /\ answer[c] = NoAnswer
      BY <1>1, <1>3, <2>4 DEF Lane, AtPull
    <3>3. AtPull(c)' BY <1>2, <1>7, <2>1, <3>1, <3>2 DEF AtPull
    <3>4. Lane(c)' BY <1>2, <2>4, <3>2, <3>3 DEF Lane, InOrder, AtRequest, AtAsked, AtLoop, AtClose
    <3> QED BY <2>2, <2>3, <3>4
  <2>5. CASE Late(c) BY <1>1, <1>2, <2>2, <2>3, <2>5, LateKeeps
  <2>6. CASE frames[c] # 0
    <3>1. Lane(c)' BY <1>2, <2>6 DEF Lane
    <3> QED BY <2>2, <2>3, <3>1
  <2> QED BY <1>1, <1>2, <2>4, <2>5, <2>6, BeginPhase
<1> QED BY <1>4, <1>5, <1>6, <1>7, Messages DEF stream_next

(* The iterator answers the pull it is busy with.                            *)
LEMMA AdvanceStep ==
  ASSUME StreamsInv, NEW c \in Conns, Advance(c)
  PROVE  StreamsType' /\ Lane(c)' /\ \A d \in Conns \ {c} : Stays(d)
<1>1. StreamsType /\ Lane(c) BY DEF StreamsInv
<1>2. /\ iterator[c] = "busy"
      /\ pulling' = [pulling EXCEPT ![c] = 0] /\ pulls' = [pulls EXCEPT ![c] = 0]
      /\ UNCHANGED <<kind, client, frames, phase, awaited, sent, calls, asked, registered, closing,
                     hook>>
  BY DEF Advance
<1>3. PICK more \in BOOLEAN, is \in {"text", "end", "close"}, item \in Nat :
        /\ yielded' = IF more THEN [yielded EXCEPT ![c] = @ + 1] ELSE yielded
        /\ iterator' = [iterator EXCEPT ![c] = IF more THEN "idle" ELSE "ended"]
        /\ Complete(c, pulling[c], is, item)
        /\ IF more THEN is = "text" /\ item = yielded[c] + 1 ELSE is # "text"
  <2>1. yielded[c] \in Nat /\ yielded[c] + 1 \in Nat BY <1>1 DEF StreamsType
  <2>2. CASE /\ yielded' = [yielded EXCEPT ![c] = @ + 1]
             /\ iterator' = [iterator EXCEPT ![c] = "idle"]
             /\ Complete(c, pulling[c], "text", yielded[c] + 1)
    <3>1. PICK n \in Nat : n = yielded[c] + 1 BY <2>1
    <3> WITNESS TRUE \in BOOLEAN, "text" \in {"text", "end", "close"}, n \in Nat
    <3> QED BY <2>2, <3>1
  <2>3. ASSUME NEW m \in {"end", "close"}, iterator' = [iterator EXCEPT ![c] = "ended"],
               Complete(c, pulling[c], m, 0), UNCHANGED yielded
        PROVE  \E more \in BOOLEAN, is \in {"text", "end", "close"}, item \in Nat :
                 /\ yielded' = IF more THEN [yielded EXCEPT ![c] = @ + 1] ELSE yielded
                 /\ iterator' = [iterator EXCEPT ![c] = IF more THEN "idle" ELSE "ended"]
                 /\ Complete(c, pulling[c], is, item)
                 /\ IF more THEN is = "text" /\ item = yielded[c] + 1 ELSE is # "text"
    <3>1. m \in {"text", "end", "close"} /\ m # "text" OBVIOUS
    <3> WITNESS FALSE \in BOOLEAN, m \in {"text", "end", "close"}, 0 \in Nat
    <3> QED BY <2>3, <3>1
  <2> QED BY <2>2, <2>3, Messages DEF Advance
<1>4. /\ yielded'[c] = (IF more THEN yielded[c] + 1 ELSE yielded[c])
      /\ iterator'[c] = (IF more THEN "idle" ELSE "ended")
      /\ yielded' \in [Conns -> Nat] /\ iterator' \in [Conns -> {"none", "idle", "busy", "ended"}]
      /\ \A d \in Conns \ {c} : yielded'[d] = yielded[d] /\ iterator'[d] = iterator[d]
  BY <1>1, <1>3 DEF StreamsType
<1>5. /\ answer' \in [Conns -> Answers]
      /\ awaited[c] = pulling[c] => answer'[c].is = is /\ answer'[c].item = item
      /\ \A d \in Conns \ {c} : answer'[d] = answer[d]
  BY <1>1, <1>3, CompleteFacts
<1>6. StreamsType' BY <1>1, <1>2, <1>4, <1>5 DEF StreamsType
<1>7. \A d \in Conns \ {c} : Stays(d) BY <1>1, <1>2, <1>4, <1>5 DEF Stays, StreamsType
<1> SUFFICES Lane(c)' BY <1>6, <1>7
<1>8. CASE frames[c] = 0 /\ phase[c] = "pull"
  <2>1. /\ closing[c] = "no" /\ registered[c] /\ kind[c] # "file" /\ Len(sent[c]) = yielded[c]
        /\ InOrder(c) /\ pulling[c] = awaited[c] /\ calls[c] = <<>>
    BY <1>1, <1>2, <1>8 DEF Lane, AtPull
  <2>2. yielded[c] \in Nat BY <1>1 DEF StreamsType
  <2>3. AtPull(c)' BY <1>2, <1>3, <1>4, <1>5, <2>1, <2>2 DEF AtPull
  <2> QED BY <1>2, <1>8, <2>1, <2>3 DEF Lane, InOrder, AtRequest, AtAsked, AtLoop, AtClose
<1>9. CASE frames[c] = 0 /\ phase[c] # "pull"
  <2>1. Late(c) BY <1>1, <1>2, <1>9 DEF Lane, AtRequest, AtAsked, AtLoop, AtClose, Late
  <2> QED BY <1>1, <1>2, <2>1, LateKeeps
<1>10. CASE frames[c] # 0 BY <1>2, <1>10 DEF Lane
<1> QED BY <1>8, <1>9, <1>10


(* What the host does to close a handle happens late.                        *)
LEMMA CloseStep ==
  ASSUME StreamsInv, NEW c \in Conns, stream_close(c) \/ Cancelled(c) \/ release_handle(c)
  PROVE  StreamsType' /\ Lane(c)' /\ \A d \in Conns \ {c} : Stays(d)
<1>1. StreamsType /\ Lane(c) BY DEF StreamsInv
<1>2. UNCHANGED <<kind, client, frames, phase, awaited, answer, sent, asked, yielded>>
  BY DEF stream_close, Cancelled, release_handle, serverVars
<1>3. frames[c] = 0 => Late(c)
  <2>1. CASE stream_close(c) BY <1>1, <2>1, BeginPhase DEF stream_close
  <2>2. CASE Cancelled(c) \/ release_handle(c)
    <3>1. closing[c] # "no" BY <2>2 DEF Cancelled, release_handle
    <3> QED BY <1>1, <3>1 DEF Lane, AtRequest, AtAsked, AtLoop, AtPull, AtClose, Late
  <2> QED BY <2>1, <2>2
<1>4. Lane(c)'
  <2>1. CASE frames[c] = 0 BY <1>1, <1>2, <1>3, <2>1, LateKeeps
  <2>2. CASE frames[c] # 0 BY <1>2, <2>2 DEF Lane
  <2> QED BY <2>1, <2>2
<1>5. CASE stream_close(c)
  <2>1. Begin(c, "close") BY <1>5 DEF stream_close
  <2>2. calls' \in [Conns -> Seq(Calls)] /\ \A d \in Conns \ {c} : calls'[d] = calls[d]
    BY <1>1, <2>1, BeginFacts
  <2>3. UNCHANGED <<registered, iterator, pulling, hook>> BY <1>5 DEF stream_close
  <2>4. /\ pulls' \in [Conns -> Nat] /\ closing' \in [Conns -> {"no", "waiting", "release", "done"}]
        /\ \A d \in Conns \ {c} : pulls'[d] = pulls[d] /\ closing'[d] = closing[d]
    BY <1>1, <1>5 DEF stream_close, StreamsType
  <2>5. StreamsType' BY <1>1, <1>2, <2>2, <2>3, <2>4 DEF StreamsType
  <2>6. \A d \in Conns \ {c} : Stays(d) BY <1>2, <2>2, <2>3, <2>4 DEF Stays
  <2> QED BY <1>4, <2>5, <2>6
<1>6. CASE Cancelled(c)
  <2>1. UNCHANGED <<calls, registered, pulls, hook>> BY <1>6 DEF Cancelled
  <2>2. /\ iterator' \in [Conns -> {"none", "idle", "busy", "ended"}] /\ pulling' \in [Conns -> Nat]
        /\ closing' \in [Conns -> {"no", "waiting", "release", "done"}]
        /\ \A d \in Conns \ {c} : /\ iterator'[d] = iterator[d] /\ pulling'[d] = pulling[d]
                                  /\ closing'[d] = closing[d]
    BY <1>1, <1>6 DEF Cancelled, StreamsType
  <2>3. StreamsType' BY <1>1, <1>2, <2>1, <2>2 DEF StreamsType
  <2>4. \A d \in Conns \ {c} : Stays(d) BY <1>2, <2>1, <2>2 DEF Stays
  <2> QED BY <1>4, <2>3, <2>4
<1>7. CASE release_handle(c)
  <2>1. UNCHANGED <<calls, pulling, pulls>> BY <1>7 DEF release_handle
  <2>2. /\ iterator' \in [Conns -> {"none", "idle", "busy", "ended"}] /\ hook' \in [Conns -> Nat]
        /\ closing' \in [Conns -> {"no", "waiting", "release", "done"}]
        /\ registered' \in [Conns -> BOOLEAN]
        /\ \A d \in Conns \ {c} : /\ iterator'[d] = iterator[d] /\ hook'[d] = hook[d]
                                  /\ closing'[d] = closing[d] /\ registered'[d] = registered[d]
    BY <1>1, <1>7 DEF release_handle, StreamsType
  <2>3. StreamsType' BY <1>1, <1>2, <2>1, <2>2 DEF StreamsType
  <2>4. \A d \in Conns \ {c} : Stays(d) BY <1>2, <2>1, <2>2 DEF Stays
  <2> QED BY <1>4, <2>3, <2>4
<1> QED BY <1>5, <1>6, <1>7

(* The server makes a call: the open, a pull or the close.                   *)
LEMMA CallStep ==
  ASSUME StreamsInv, NEW c \in Conns, Ask(c) \/ next_chunk(c) \/ ReleaseDrop(c)
  PROVE  StreamsType' /\ Lane(c)' /\ \A d \in Conns \ {c} : Stays(d)
<1>1. StreamsType /\ Lane(c) BY DEF StreamsInv
<1>2. /\ UNCHANGED <<kind, client, frames, sent, hostVars>>
      /\ \E p \in {"asked", "pull", "closed"} : phase' = [phase EXCEPT ![c] = p]
      /\ \E m \in {"open", "next", "close"} : call(c, m)
  BY DEF Ask, next_chunk, ReleaseDrop
<1>3. UNCHANGED <<registered, iterator, pulling, pulls, closing, hook, yielded>>
  BY <1>2 DEF hostVars
<1>4. /\ phase' \in [Conns -> Phases]
      /\ \A d \in Conns \ {c} : phase'[d] = phase[d]
  BY <1>1, <1>2 DEF StreamsType, Phases
<1>5. /\ asked' \in [Conns -> Nat] /\ calls' \in [Conns -> Seq(Calls)]
      /\ awaited' \in [Conns -> Nat] /\ answer' \in [Conns -> Answers]
      /\ answer'[c] = NoAnswer
      /\ \A d \in Conns \ {c} : /\ asked'[d] = asked[d] /\ calls'[d] = calls[d]
                                /\ awaited'[d] = awaited[d] /\ answer'[d] = answer[d]
  BY <1>1, <1>2, CallFacts
<1>6. StreamsType' BY <1>1, <1>2, <1>3, <1>4, <1>5 DEF StreamsType
<1>7. \A d \in Conns \ {c} : Stays(d) BY <1>2, <1>3, <1>4, <1>5 DEF Stays
<1> SUFFICES Lane(c)' BY <1>6, <1>7
<1>8. CASE frames[c] # 0 BY <1>2, <1>8 DEF Lane
<1>9. CASE frames[c] = 0 /\ Ask(c)
  <2>1. phase[c] = "request" /\ phase'[c] = "asked" /\ call(c, "open")
    BY <1>1, <1>9 DEF Ask, StreamsType
  <2>2. /\ InOrder(c) /\ calls[c] = <<>> /\ iterator[c] = "none" /\ closing[c] = "no"
        /\ Len(sent[c]) = yielded[c]
    BY <1>1, <1>9, <2>1 DEF Lane, AtRequest
  <2>3. calls'[c] = <<[method |-> "open", id |-> awaited'[c]]>>
    BY <1>1, <2>1, <2>2, CallFacts
  <2>4. AtAsked(c)' BY <1>2, <1>3, <1>5, <2>2, <2>3 DEF AtAsked
  <2> QED BY <1>2, <2>1, <2>2, <2>4 DEF Lane, InOrder, AtRequest, AtLoop, AtPull, AtClose
<1>10. CASE frames[c] = 0 /\ next_chunk(c)
  <2>1. phase[c] = "loop" /\ phase'[c] = "pull" /\ kind[c] # "file" /\ call(c, "next")
    BY <1>1, <1>10 DEF next_chunk, StreamsType
  <2>2. /\ InOrder(c) /\ calls[c] = <<>> /\ iterator[c] \in {"idle", "ended"} /\ closing[c] = "no"
        /\ registered[c] /\ Len(sent[c]) = yielded[c]
    BY <1>1, <1>10, <2>1 DEF Lane, AtLoop
  <2>3. calls'[c] = <<[method |-> "next", id |-> awaited'[c]]>>
    BY <1>1, <2>1, <2>2, CallFacts
  <2>4. AtPull(c)' BY <1>2, <1>3, <1>5, <2>1, <2>2, <2>3 DEF AtPull
  <2> QED BY <1>2, <2>1, <2>2, <2>4 DEF Lane, InOrder, AtRequest, AtLoop, AtAsked, AtClose
<1>11. CASE frames[c] = 0 /\ ReleaseDrop(c)
  <2>1. phase'[c] = "closed" BY <1>1, <1>11 DEF ReleaseDrop, StreamsType
  <2> QED
    BY <1>1, <1>2, <1>11, <2>1 DEF Lane, InOrder, AtRequest, AtLoop, AtAsked, AtPull, AtClose
<1> QED BY <1>8, <1>9, <1>10, <1>11

(* The server takes an answer, or drops the future it awaits, or ends a file's body.    *)
LEMMA TakeStep ==
  ASSUME StreamsInv, NEW c \in Conns, Opened(c) \/ pump(c) \/ Notice(c) \/ file_body(c) \/ Frame(c)
  PROVE  StreamsType' /\ Lane(c)' /\ \A d \in Conns \ {c} : Stays(d)
<1>1. StreamsType /\ Lane(c) BY DEF StreamsInv
<1>2. /\ UNCHANGED <<kind, client, calls, asked, hostVars>>
      /\ Forget(c) \/ UNCHANGED <<awaited, answer>>
      /\ \E p \in {"loop", "refused", "close", "abandoned"} : phase' = [phase EXCEPT ![c] = p]
  BY DEF Opened, pump, Notice, file_body, Frame
<1>3. UNCHANGED <<registered, iterator, pulling, pulls, closing, hook, yielded>>
  BY <1>2 DEF hostVars
<1>4. /\ phase' \in [Conns -> Phases]
      /\ \A d \in Conns \ {c} : phase'[d] = phase[d]
  BY <1>1, <1>2 DEF StreamsType, Phases
<1>5. /\ awaited' \in [Conns -> Nat] /\ answer' \in [Conns -> Answers]
      /\ \A d \in Conns \ {c} : awaited'[d] = awaited[d] /\ answer'[d] = answer[d]
  <2>1. CASE Forget(c) BY <1>1, <2>1, ForgetFacts
  <2>2. CASE UNCHANGED <<awaited, answer>> BY <1>1, <2>2 DEF StreamsType
  <2> QED BY <1>2, <2>1, <2>2
<1>6. /\ frames' \in [Conns -> Nat] /\ sent' \in [Conns -> Seq(Nat)]
      /\ \A d \in Conns \ {c} : frames'[d] = frames[d] /\ sent'[d] = sent[d]
  <2>1. CASE UNCHANGED <<frames, sent>> BY <1>1, <2>1 DEF StreamsType
  <2>2. CASE UNCHANGED sent /\ frames' = [frames EXCEPT ![c] = @ + 1] BY <1>1, <2>2 DEF StreamsType
  <2>3. CASE UNCHANGED frames /\ \E q \in {sent[c], Append(sent[c], answer[c].item)} :
                                   sent' = [sent EXCEPT ![c] = q]
    <3>1. sent[c] \in Seq(Nat) /\ answer[c].item \in Nat BY <1>1 DEF StreamsType, Answers
    <3>2. Append(sent[c], answer[c].item) \in Seq(Nat) BY <3>1
    <3>3. PICK q \in Seq(Nat) : sent' = [sent EXCEPT ![c] = q] BY <2>3, <3>1, <3>2
    <3> QED BY <1>1, <2>3, <3>3 DEF StreamsType
  <2> QED BY <2>1, <2>2, <2>3 DEF Opened, pump, Notice, file_body, Frame
<1>7. StreamsType' BY <1>1, <1>2, <1>3, <1>4, <1>5, <1>6 DEF StreamsType
<1>8. \A d \in Conns \ {c} : Stays(d) BY <1>2, <1>3, <1>4, <1>5, <1>6 DEF Stays
<1> SUFFICES Lane(c)' BY <1>7, <1>8
<1>9. CASE Frame(c)
  <2>1. frames'[c] = frames[c] + 1 /\ frames[c] \in Nat BY <1>1, <1>9 DEF Frame, StreamsType
  <2> QED BY <2>1 DEF Lane
<1>10. CASE frames[c] # 0 /\ ~Frame(c)
  <2>1. frames' = frames BY <1>10 DEF Opened, pump, Notice, file_body
  <2> QED BY <1>10, <2>1 DEF Lane
<1>11. CASE frames[c] = 0 /\ Opened(c)
  <2>1. /\ phase[c] = "asked" /\ UNCHANGED <<frames, sent>> /\ answer[c] # NoAnswer
        /\ phase'[c] = IF answer[c].is = "handle" THEN "loop" ELSE "refused"
    BY <1>1, <1>11 DEF Opened, StreamsType
  <2>2. /\ InOrder(c) /\ closing[c] = "no" /\ Len(sent[c]) = yielded[c] /\ calls[c] = <<>>
        /\ iterator[c] \in {"none", "idle"}
        /\ answer[c].is = "handle" => registered[c] /\ (kind[c] # "file" => iterator[c] = "idle")
    BY <1>1, <1>11, <2>1 DEF Lane, AtAsked
  <2>3. AtLoop(c)' BY <1>2, <1>3, <2>1, <2>2 DEF AtLoop
  <2> QED BY <2>1, <2>2, <2>3 DEF Lane, InOrder, AtRequest, AtAsked, AtPull, AtClose
<1>12. CASE frames[c] = 0 /\ pump(c)
  <2>1. /\ phase[c] = "pull" /\ UNCHANGED frames /\ answer[c] # NoAnswer BY <1>12 DEF pump
  <2>2. /\ sent[c] \in Seq(Nat) /\ answer[c].item \in Nat /\ yielded[c] \in Nat
    BY <1>1 DEF StreamsType, Answers
  <2>3. CASE answer[c].is = "text" /\ client[c] = "here"
    <3>1. phase'[c] = "loop" /\ sent'[c] = Append(sent[c], answer[c].item)
      BY <1>1, <1>12, <2>3 DEF pump, StreamsType
    <3>2. /\ InOrder(c) /\ closing[c] = "no" /\ registered[c] /\ calls[c] = <<>>
          /\ iterator[c] = "idle" /\ Len(sent[c]) + 1 = yielded[c] /\ answer[c].item = yielded[c]
      BY <1>1, <1>12, <2>1, <2>3 DEF Lane, AtPull
    <3>3. Len(sent'[c]) = yielded[c] /\ \A i \in 1..Len(sent'[c]) : sent'[c][i] = i
      BY <2>2, <3>1, <3>2 DEF InOrder
    <3>4. AtLoop(c)' BY <1>2, <1>3, <3>2, <3>3 DEF AtLoop
    <3> QED BY <3>1, <3>3, <3>4 DEF Lane, InOrder, AtRequest, AtAsked, AtPull, AtClose
  <2>4. CASE ~(answer[c].is = "text" /\ client[c] = "here")
    <3>1. phase'[c] = "close" /\ sent'[c] = sent[c] BY <1>1, <1>12, <2>4 DEF pump, StreamsType
    <3>2. InOrder(c) BY <1>1, <1>12 DEF Lane
    <3>3. client[c] = "here" =>
            /\ closing[c] = "no" /\ calls[c] = <<>> /\ iterator[c] = "ended"
            /\ Len(sent[c]) = yielded[c]
      BY <1>1, <1>12, <2>1, <2>4 DEF Lane, AtPull
    <3>4. AtClose(c)' BY <1>2, <1>3, <3>1, <3>3 DEF AtClose
    <3> QED BY <3>1, <3>2, <3>4 DEF Lane, InOrder, AtRequest, AtAsked, AtPull, AtLoop
  <2> QED BY <2>3, <2>4
<1>13. CASE frames[c] = 0 /\ Notice(c)
  <2>1. /\ phase'[c] \in {"close", "abandoned"} /\ client[c] = "left" /\ UNCHANGED <<frames, sent>>
    BY <1>1, <1>13 DEF Notice, StreamsType
  <2> QED
    BY <1>1, <1>2, <1>13, <2>1 DEF Lane, InOrder, AtRequest, AtAsked, AtLoop, AtPull, AtClose
<1>14. CASE frames[c] = 0 /\ file_body(c)
  <2>1. /\ phase[c] = "loop" /\ kind[c] = "file" /\ phase'[c] = "close"
        /\ UNCHANGED <<frames, sent>>
    BY <1>1, <1>14 DEF file_body, StreamsType
  <2>2. InOrder(c) /\ closing[c] = "no" /\ calls[c] = <<>> /\ iterator[c] # "busy"
    BY <1>1, <1>14, <2>1 DEF Lane, AtLoop
  <2>3. AtClose(c)' BY <1>2, <1>3, <2>1, <2>2 DEF AtClose
  <2> QED BY <2>1, <2>2, <2>3 DEF Lane, InOrder, AtRequest, AtAsked, AtLoop, AtPull
<1> QED BY <1>9, <1>10, <1>11, <1>12, <1>13, <1>14

LEMMA ClientStep ==
  ASSUME StreamsInv, NEW c \in Conns, LeaveClient(c)
  PROVE  StreamsType' /\ Lane(c)' /\ \A d \in Conns \ {c} : Stays(d)
<1>1. StreamsType /\ Lane(c) BY DEF StreamsInv
<1>2. /\ client' = [client EXCEPT ![c] = "left"]
      /\ UNCHANGED <<kind, frames, phase, awaited, answer, sent, calls, asked, registered, iterator,
                     pulling, pulls, closing, hook, yielded>>
  BY DEF LeaveClient, serverVars, hostVars
<1>3. /\ client' \in [Conns -> {"here", "left"}] /\ client'[c] = "left"
      /\ \A d \in Conns \ {c} : client'[d] = client[d]
  BY <1>1, <1>2 DEF StreamsType
<1>4. StreamsType' BY <1>1, <1>2, <1>3 DEF StreamsType
<1>5. \A d \in Conns \ {c} : Stays(d) BY <1>2, <1>3 DEF Stays
<1>6. Lane(c)'
  BY <1>1, <1>2, <1>3 DEF Lane, InOrder, AtRequest, AtAsked, AtLoop, AtPull, AtClose
<1> QED BY <1>4, <1>5, <1>6

LEMMA StreamsInitially == StreamsInit => StreamsInv
<1> SUFFICES ASSUME StreamsInit PROVE StreamsInv OBVIOUS
<1>1. StreamsType BY NoAnswerIs DEF StreamsInit, StreamsType, Phases
<1>2. ASSUME NEW c \in Conns PROVE Lane(c)
  <2>1. /\ phase[c] = "request" /\ calls[c] = <<>> /\ ~registered[c] /\ iterator[c] = "none"
        /\ closing[c] = "no" /\ sent[c] = <<>> /\ yielded[c] = 0
    BY <1>2 DEF StreamsInit
  <2>2. Len(sent[c]) = 0 BY <2>1
  <2> QED BY <2>1, <2>2 DEF Lane, InOrder, AtRequest, AtAsked, AtLoop, AtPull, AtClose
<1> QED BY <1>1, <1>2 DEF StreamsInv

LEMMA StreamsKeeps == StreamsInv /\ [StreamsNext]_streamVars => StreamsInv'
<1> SUFFICES ASSUME StreamsInv, [StreamsNext]_streamVars PROVE StreamsInv' OBVIOUS
<1>1. CASE StreamsNext
  <2>1. PICK c \in Conns :
          HostLoop(c) \/ ServerTask(c) \/ Advance(c) \/ Frame(c) \/ LeaveClient(c)
    BY <1>1 DEF StreamsNext
  <2>2. StreamsType' /\ Lane(c)' /\ \A d \in Conns \ {c} : Stays(d)
    BY <2>1, OpenStep, NextStep, AdvanceStep, CloseStep, CallStep, TakeStep, ClientStep
    DEF HostLoop, ServerTask
  <2>3. \A d \in Conns \ {c} : Lane(d)' BY <2>2, StaysKeeps DEF StreamsInv
  <2> QED BY <2>2, <2>3 DEF StreamsInv
<1>2. CASE UNCHANGED streamVars
  <2>1. UNCHANGED <<kind, client, frames, phase, awaited, answer, sent, calls, asked, registered,
                    iterator, pulling, pulls, closing, hook, yielded>>
    BY <1>2 DEF streamVars, serverVars, hostVars
  <2>2. StreamsType' BY <2>1 DEF StreamsInv, StreamsType
  <2>3. \A c \in Conns : Stays(c) BY <2>1 DEF Stays
  <2> QED BY <2>2, <2>3, StaysKeeps DEF StreamsInv
<1> QED BY <1>1, <1>2

(* The exchange of any number of connections stays well typed.               *)
THEOREM StreamsTyped == StreamsSpec => []StreamsType
<1>1. StreamsInv => StreamsType BY DEF StreamsInv
<1> QED BY <1>1, StreamsInitially, StreamsKeeps, PTL DEF StreamsSpec

(* As long as its client sends no frame, a stream is forwarded whole and in order: with
   calls, answers, iterators and clients of any number of connections in any interleaving,
   the pump and the body lose, repeat or reorder nothing (pump, next_chunk). *)
THEOREM WholeAndInOrder == StreamsSpec => []Forwarded
<1>1. StreamsInv => Forwarded
  BY DEF StreamsInv, Forwarded, SentAll, Lane, InOrder, AtClose
<1> QED BY <1>1, StreamsInitially, StreamsKeeps, PTL DEF StreamsSpec

=============================================================================
