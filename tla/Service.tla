------------------------------ MODULE Service ------------------------------
(***************************************************************************)
(* The engine as a user-level service (rust/ceres-cli/src/service.rs): the *)
(* `service start` and `service stop` commands drive systemd or launchd    *)
(* through a sequence of programs, each of which may fail, while the unit  *)
(* crashes and is restarted, the configuration is edited, the user logs in *)
(* and out, and the machine may go down between any two of them.           *)
(*                                                                         *)
(* A systemd unit of a user runs under that user's own manager, which is   *)
(* there while the user has a session or lingers.                          *)
(***************************************************************************)
EXTENDS Naturals, Sequences

CONSTANTS
  MaxDefinition,   \* bound: definitions the configuration generates over time
  MaxBoots         \* bound: reboots

ASSUME ServiceAssumption == MaxDefinition \in Nat /\ MaxBoots \in Nat

Managers == {"systemd", "launchd"}

VARIABLES
  manager,      \* the platform's service manager
  wanted,       \* the definition `generate` gives for the configuration as it is
  definition,   \* the definition on disk, 0 for none
  unit,         \* what the manager knows and runs
  user,         \* the user's session, lingering and manager
  command,      \* the command under way or last finished
  boots         \* how often the machine was restarted

serviceVars == <<manager, wanted, definition, unit, user, command, boots>>

NoUnit == [loaded |-> 0, enabled |-> FALSE, active |-> "inactive"]
NoCommand == [verb |-> "none", todo |-> <<>>, result |-> "none", warned |-> FALSE]

\* The manager comes up, registering what is on disk and running it when it is enabled.
Boot(u, d) ==
  IF u.enabled /\ d # 0
  THEN [u EXCEPT !.loaded = d, !.active = "active"]
  ELSE [u EXCEPT !.loaded = IF manager = "systemd" THEN d ELSE 0, !.active = "inactive"]

----------------------------------------------------------------------------
\* The definition file.

\* Write a definition when its contents changed.
write_if_changed == definition' = wanted

remove_if_exists == definition' = 0

\* `is-active` answers no while the unit waits to be restarted, and when nobody is there
\* to ask; `list` answers for a job that is loaded, and only a definition on disk is asked
\* about.
service_state ==
  IF manager = "systemd" THEN user.bus /\ unit.active = "active"
  ELSE definition # 0 /\ unit.loaded # 0

----------------------------------------------------------------------------
\* What the commands run, in order.

\* The definition is written, announced to systemd when it changed, and enabled.
create ==
  IF manager = "systemd" /\ definition # wanted
  THEN <<"write", "reload", "enable">> ELSE <<"write", "enable">>

\* A start that enables nothing until the unit runs, for comparison.
systemd_start_enabling_last == <<"write", "reload", "start", "enable">>

systemd_start == create \o <<"reload", "start", "enable">>
systemd_stop == <<"stop", "disable", "delete">>

launchd_start == create \o <<"load", "enable", "launch">>
launchd_stop == <<"unload", "delete">>

Already(verb, warned) ==
  [verb |-> verb, todo |-> <<>>, result |-> "already", warned |-> warned]
Running(verb, todo, warned) ==
  [verb |-> verb, todo |-> todo, result |-> "running", warned |-> warned]

\* `service start`.  Under systemd it sees to the user's manager before it asks anything.
service_start ==
  /\ command.result # "running"
  /\ command' = IF manager = "systemd" THEN Running("start", <<"linger", "await">>, FALSE)
                ELSE IF service_state THEN Already("start", FALSE)
                ELSE Running("start", launchd_start, FALSE)
  /\ UNCHANGED <<manager, wanted, definition, unit, user, boots>>

\* `loginctl enable-linger`, for the user that the configuration names: a failure is only
\* warned about.
enable_linger ==
  /\ command.result = "running" /\ Head(command.todo) = "linger"
  /\ \/ /\ user' = [user EXCEPT !.linger = @ \/ ~user.other]
        /\ command' = Running("start", <<"await">>, command.warned)
     \/ /\ command' = Running("start", <<"await">>, TRUE)
        /\ UNCHANGED user
  /\ UNCHANGED <<manager, wanted, definition, unit, boots>>

\* The bus is there, or was waited for long enough; then the service is asked for.
await_user_bus ==
  /\ command.result = "running" /\ Head(command.todo) = "await"
  /\ command' = IF service_state THEN Already("start", command.warned)
                ELSE Running("start", systemd_start, command.warned)
  /\ UNCHANGED <<manager, wanted, definition, unit, user, boots>>

\* `service stop`.
service_stop ==
  /\ command.result # "running"
  /\ command' =
       IF ~service_state THEN Already("stop", FALSE)
       ELSE Running("stop", IF manager = "systemd" THEN systemd_stop ELSE launchd_stop, FALSE)
  /\ UNCHANGED <<manager, wanted, definition, unit, user, boots>>

\* What a program leaves behind when it succeeds.
Effect(step) ==
  CASE step = "reload" -> [unit EXCEPT !.loaded = definition]
    [] step = "enable" -> [unit EXCEPT !.enabled = TRUE]
    [] step = "disable" -> [unit EXCEPT !.enabled = FALSE]
    [] step = "start" -> [unit EXCEPT !.active = "active"]
    [] step = "stop" -> [unit EXCEPT !.active = "inactive"]
    [] step = "load" -> [unit EXCEPT !.enabled = TRUE, !.loaded = definition,
                                     !.active = "active"]
    [] step = "unload" -> NoUnit
    [] OTHER -> unit

\* A program that nothing can make succeed.
Hopeless(step) ==
  \/ step \notin {"write", "delete"} /\ manager = "systemd" /\ ~user.bus
  \/ step \in {"enable", "load"} /\ definition = 0
  \/ step = "start" /\ unit.loaded = 0
  \/ step = "load" /\ unit.loaded # 0

\* One program of the command runs; a failure ends the command where it is.  The last
\* `launchctl start` may fail and nobody minds.
execute ==
  /\ command.result = "running" /\ Head(command.todo) \notin {"linger", "await"}
  /\ LET step == Head(command.todo)
         rest == Tail(command.todo)
     IN \/ /\ ~Hopeless(step)
           /\ CASE step = "write" -> write_if_changed
                [] step = "delete" -> remove_if_exists
                [] OTHER -> UNCHANGED definition
           /\ unit' = Effect(step)
           /\ command' = [command EXCEPT !.todo = rest,
                                         !.result = IF rest = <<>> THEN "done" ELSE @]
        \/ /\ step # "launch"
           /\ command' = [command EXCEPT !.todo = <<>>, !.result = "failed"]
           /\ UNCHANGED <<definition, unit>>
  /\ UNCHANGED <<manager, wanted, user, boots>>

----------------------------------------------------------------------------
\* Elsewhere.

\* The configuration is edited, and another definition is generated for it.
Edit ==
  /\ wanted < MaxDefinition /\ command.result # "running"
  /\ wanted' = wanted + 1
  /\ command' = NoCommand
  /\ UNCHANGED <<manager, definition, unit, user, boots>>

\* The engine exits; systemd restarts it in a while, launchd leaves the job loaded.
Exits ==
  /\ unit.active = "active"
  /\ unit' = [unit EXCEPT !.active = IF manager = "systemd" THEN "restarting" ELSE "exited"]
  /\ UNCHANGED <<manager, wanted, definition, user, command, boots>>

Restarts ==
  /\ unit.active = "restarting" /\ manager = "systemd"
  /\ unit' = [unit EXCEPT !.active = "active"]
  /\ UNCHANGED <<manager, wanted, definition, user, command, boots>>

\* The user's manager goes away, and what it runs with it.
Down(u) == [u EXCEPT !.loaded = 0, !.active = "inactive"]

\* A user who logs in, or lingers, is given a manager in a while.
ManagerUp ==
  /\ manager = "systemd" /\ ~user.bus /\ (user.session \/ user.linger)
  /\ user' = [user EXCEPT !.bus = TRUE]
  /\ unit' = Boot(unit, definition)
  /\ UNCHANGED <<manager, wanted, definition, command, boots>>

LogsIn ==
  /\ manager = "systemd" /\ ~user.session
  /\ user' = [user EXCEPT !.session = TRUE]
  /\ UNCHANGED <<manager, wanted, definition, unit, command, boots>>

\* The last session ends, not while a command runs in it.
LogsOut ==
  /\ manager = "systemd" /\ user.session /\ command.result # "running"
  /\ user' = [user EXCEPT !.session = FALSE, !.bus = @ /\ user.linger]
  /\ unit' = IF user.linger THEN unit ELSE Down(unit)
  /\ UNCHANGED <<manager, wanted, definition, command, boots>>

\* The machine goes down, with the command that was under way, and comes up.  launchd's
\* agents come up with the user's desktop, a systemd user's with the user's manager.
Reboots ==
  /\ boots < MaxBoots
  /\ boots' = boots + 1
  /\ IF manager = "systemd"
     THEN unit' = Down(unit) /\ user' = [user EXCEPT !.session = FALSE, !.bus = FALSE]
     ELSE unit' = Boot(unit, definition) /\ UNCHANGED user
  /\ command' = IF command.result = "running" THEN [command EXCEPT !.todo = <<>>, !.result = "failed"]
                ELSE command
  /\ UNCHANGED <<manager, wanted, definition>>

ServiceInit ==
  /\ manager \in Managers
  /\ wanted = 1
  /\ definition = 0
  /\ unit = NoUnit
  /\ user \in [session : BOOLEAN, linger : BOOLEAN, bus : BOOLEAN, other : BOOLEAN]
  /\ user.bus = (manager = "launchd" \/ user.session \/ user.linger)
  /\ manager = "launchd" => user.session /\ ~user.linger /\ ~user.other
  /\ command = NoCommand
  /\ boots = 0

ServiceNext ==
  \/ service_start \/ enable_linger \/ await_user_bus \/ service_stop \/ execute
  \/ Edit \/ Exits \/ Restarts \/ ManagerUp \/ LogsIn \/ LogsOut \/ Reboots

ServiceSpec == ServiceInit /\ [][ServiceNext]_serviceVars

----------------------------------------------------------------------------
\* A start that reports success, also by finding the service running, leaves one that
\* comes back with its manager: there is no way to a running service that skips the
\* registration, whatever failed before.  A systemd user's manager comes back at boot when
\* the user lingers; a start that succeeds without its warning has seen to that, unless
\* the configuration names somebody else, for whom `enable-linger` is then run
\* (SystemDService::start and its enable_linger, LaunchDService::start).
ComesBack ==
  command.verb = "start" /\ command.result \in {"done", "already"} =>
    /\ Boot(unit, definition).active = "active"
    /\ manager = "systemd" => user.linger \/ command.warned \/ user.other
=============================================================================
