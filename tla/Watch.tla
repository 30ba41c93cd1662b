------------------------------- MODULE Watch -------------------------------
(***************************************************************************)
(* `ceres run --watch` and the development console: the binary stays as    *)
(* the parent of the engine's host process and restarts it when files      *)
(* change (rust/ceres-cli/src/commands/run.rs).                            *)
(*                                                                         *)
(* One task selects among the exit signals, the child's exit and the       *)
(* changed paths; while it settles, rebuilds, stops or starts, nobody      *)
(* selects and everything else waits.  The watcher reports from a thread.  *)
(***************************************************************************)
EXTENDS Naturals

CONSTANT MaxChanges   \* bound: edits of the watched files

ASSUME WatchAssumption == MaxChanges \in Nat

\* Python sources are read when the engine starts, Rust sources when it is built.
Paths == {"py", "rs"}

VARIABLES
  options,    \* whether files are watched, and whether there is a development source
  tree,       \* the version of each kind of source
  extension,  \* the Rust version the installed extension was built from
  noticed,    \* changes on their way to the resident task
  batch,      \* the changes it is acting on
  resident,   \* where the resident task is
  engine_,    \* the host child
  console,    \* the development console's process
  signalled,  \* whether an exit signal arrived
  missed,     \* changes that the watcher met an error for instead
  unbuilt     \* whether the Rust sources as they are failed to build, or changed before
              \* anybody watched

watchVars == <<options, tree, extension, noticed, batch, resident, engine_, console,
               signalled, missed, unbuilt>>

NoChild == [alive |-> FALSE, py |-> 0, rs |-> 0]

----------------------------------------------------------------------------
\* Which changes count.  The watch covers the Rust sources of a development source only.
relevant(path) == path = "py" \/ (path = "rs" /\ options.source)

----------------------------------------------------------------------------
\* Coming up: the console first, then the watcher, then the engine.

spawn ==
  /\ resident = "spawn"
  /\ \/ /\ console' = IF options.source THEN "up" ELSE "none"
        /\ resident' = "watcher"
     \/ /\ options.source                     \* npm does not start
        /\ resident' = "gone"
        /\ UNCHANGED console
  /\ UNCHANGED <<options, tree, extension, noticed, batch, engine_, signalled, missed, unbuilt>>

watcher ==
  /\ resident = "watcher"
  /\ resident' \in {"start"} \cup (IF options.watch THEN {"gone"} ELSE {})
  /\ console' = IF resident' = "gone" /\ console = "up" THEN "killed" ELSE console
  /\ UNCHANGED <<options, tree, extension, noticed, batch, engine_, signalled, missed, unbuilt>>

\* A child imports what it finds.  One that cannot be spawned takes everything down:
\* `kill_on_drop` sees to the console.
start_child ==
  /\ resident = "start"
  /\ \/ /\ engine_' = [alive |-> TRUE, py |-> tree["py"], rs |-> extension]
        /\ resident' = "select"
        /\ missed' = missed \ {"py"}
        /\ UNCHANGED console
     \/ /\ resident' = "gone"
        /\ engine_' = NoChild
        /\ console' = IF console = "up" THEN "killed" ELSE console
        /\ UNCHANGED missed
  /\ batch' = {}
  /\ UNCHANGED <<options, tree, extension, noticed, signalled, unbuilt>>

----------------------------------------------------------------------------
\* The select.

\* An exit signal, or a child that is gone when no edit could bring it back.
Leaves ==
  /\ resident = "select"
  /\ signalled \/ (~engine_.alive /\ ~options.watch)
  /\ resident' = "leaving"
  /\ UNCHANGED <<options, tree, extension, noticed, batch, engine_, console, signalled, missed, unbuilt>>

\* A batch is open until the changes go quiet.
settle ==
  /\ \/ resident = "select" /\ options.watch
     \/ resident = "settle"
  /\ noticed # {}
  /\ resident' = "settle"
  /\ batch' = batch \cup noticed
  /\ noticed' = {}
  /\ UNCHANGED <<options, tree, extension, engine_, console, signalled, missed, unbuilt>>

Settled_always ==
  /\ resident = "settle" /\ noticed = {}
  /\ resident' = IF engine_.alive THEN "stop" ELSE "start"
  /\ UNCHANGED <<options, tree, extension, noticed, batch, engine_, console, signalled, missed, unbuilt>>

\* A batch with a Rust source is rebuilt before the engine restarts.
Settled ==
  /\ resident = "settle" /\ noticed = {}
  /\ resident' = IF "rs" \in batch /\ options.source THEN "rebuild"
                 ELSE IF engine_.alive THEN "stop" ELSE "start"
  /\ UNCHANGED <<options, tree, extension, noticed, batch, engine_, console, signalled, missed, unbuilt>>

\* A build that fails keeps the engine, and the batch is done with.  An edit while it
\* builds is noticed and starts another batch.
rebuild ==
  /\ resident = "rebuild"
  /\ \/ /\ extension' \in IF "rs" \in noticed \cup missed THEN extension..tree["rs"]
                          ELSE {tree["rs"]}
        /\ missed' = IF extension' = tree["rs"] THEN missed \ {"rs"} ELSE missed
        /\ unbuilt' = FALSE
        /\ resident' = IF engine_.alive THEN "stop" ELSE "start"
        /\ UNCHANGED batch
     \/ /\ unbuilt' = TRUE
        /\ resident' = "select"
        /\ batch' = {}
        /\ UNCHANGED <<extension, missed>>
  /\ UNCHANGED <<options, tree, noticed, engine_, console, signalled>>

----------------------------------------------------------------------------
\* Stopping the child: asked, then killed when its budget runs out.

Escalate == [stop |-> "kill", leaving |-> "leaving_kill"]
After == [stop |-> "start", kill |-> "start", leaving |-> "console", leaving_kill |-> "console"]

stop_child ==
  /\ resident \in DOMAIN After
  /\ resident' = IF engine_.alive /\ resident \in DOMAIN Escalate THEN Escalate[resident]
                 ELSE After[resident]
  /\ engine_' = [engine_ EXCEPT !.alive = @ /\ resident \in DOMAIN Escalate]
  /\ UNCHANGED <<options, tree, extension, noticed, batch, console, signalled, missed, unbuilt>>

\* The console is asked and given its budget; what is left of it is killed on drop.
stop_console ==
  /\ resident = "console"
  /\ console' = IF console = "up" THEN "killed" ELSE console
  /\ resident' = "gone"
  /\ UNCHANGED <<options, tree, extension, noticed, batch, engine_, signalled, missed, unbuilt>>

----------------------------------------------------------------------------
\* Around the resident task.

\* Whether the watcher is there to see a change of a path.
Watched(path) == options.watch /\ resident \notin {"spawn", "watcher"} /\ relevant(path)

\* A change is noticed, or the watcher reports an error in its place, which is dropped.
Change(path) ==
  /\ resident # "gone"
  /\ tree[path] < MaxChanges
  /\ tree' = [tree EXCEPT ![path] = @ + 1]
  /\ \/ /\ noticed' = IF Watched(path) THEN noticed \cup {path} ELSE noticed
        /\ unbuilt' = IF path = "rs" THEN resident \in {"spawn", "watcher"} ELSE unbuilt
        /\ UNCHANGED missed
     \/ /\ Watched(path)
        /\ missed' = missed \cup {path}
        /\ UNCHANGED <<noticed, unbuilt>>
  /\ UNCHANGED <<options, extension, batch, resident, engine_, console, signalled>>

\* The engine exits, by itself or because it was asked to.
Crashes ==
  /\ engine_.alive
  /\ engine_' = [engine_ EXCEPT !.alive = FALSE]
  /\ UNCHANGED <<options, tree, extension, noticed, batch, resident, console, signalled, missed, unbuilt>>

Signal ==
  /\ ~signalled /\ resident # "gone"
  /\ signalled' = TRUE
  /\ UNCHANGED <<options, tree, extension, noticed, batch, resident, engine_, console, missed, unbuilt>>

WatchInit ==
  /\ options \in {[watch |-> TRUE, source |-> FALSE], [watch |-> TRUE, source |-> TRUE],
                  [watch |-> FALSE, source |-> TRUE]}
  /\ tree = [path \in Paths |-> 1]
  /\ extension = 1
  /\ noticed = {} /\ batch = {} /\ missed = {}
  /\ resident = "spawn"
  /\ engine_ = NoChild
  /\ console = "none"
  /\ signalled = FALSE /\ unbuilt = FALSE

Resident ==
  \/ spawn \/ watcher \/ start_child \/ Leaves \/ settle \/ Settled \/ rebuild
  \/ stop_child \/ stop_console

WatchNext == Resident \/ Crashes \/ Signal \/ \E path \in Paths : Change(path)

\* The task keeps running, and the select picks at random among what is ready: a signal
\* that stays is taken in the end.
WatchFairness == WF_watchVars(Resident) /\ SF_watchVars(Leaves)

WatchSpec == WatchInit /\ [][WatchNext]_watchVars /\ WatchFairness

----------------------------------------------------------------------------
\* No edit is lost between the watcher and the engine: whenever the resident task is
\* back at its select with nothing noticed, the engine was started from the sources as
\* they are, unless the Rust ones do not build or changed before the watcher was
\* there, or the watcher met an error in place of the change (resident, settle, rebuild;
\* run.rs:257 drops the errors).
RunsWhatIsThere ==
  options.watch /\ resident = "select" /\ noticed = {} =>
    /\ engine_.py = tree["py"] \/ "py" \in missed \/ unbuilt
    /\ options.source => engine_.rs = tree["rs"] \/ "rs" \in missed \/ unbuilt
=============================================================================
