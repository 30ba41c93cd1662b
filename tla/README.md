# A TLA+ model of Ceres

Ceres runs a tree of *components* (instruments, drivers, pipelines) inside an
*engine*, stores what they produce, and serves it to a console. The engine is Python
on one asyncio event loop (`ceres/`), with a native core in Rust
(`rust/`: database, server, media, command line) and a web console (`console/`).

This project models the parts of it in which the order of things matters, checks
them with TLC on small instances, and proves the main safety properties with TLAPS
for every instance. Everything below `src/` in a path is the repository.

Contents: [inventory](#1-inventory), [modules](#2-modules), [runs](#3-runs),
[fairness](#4-fairness), [proofs](#5-proofs), [findings](#6-findings),
[not modelled](#7-what-is-not-modelled), [plan](#8-plan).

## 1. Inventory

The engine (Python):

| component | state | operations | what is hard | what makes it correct |
|---|---|---|---|---|
| record writer (`ceres/__internal__/database/writer.py`, `Node.__process_flush`) | `_buffer`, the deque `_flushes`, each flush's entities and event, `_settled` | `add`, `flush`, `settle`, requeueing, notification of subscribers | overlapping `flush()` calls, writes that fail wholly or in part or whose answer is lost, cancellation | nothing is lost or overtaken, subscribers hear the truth, `settle()` ends |
| component lifecycle (`ceres/tasklet.py`, `ceres/component.py`) | the task of each component and how far it is, `stopping`, `stopped`, `_enabled` and its copy in the database | `start`, `stop`, `enable`, `disable`, `up`, `down`; `__run__`, `__stop__`, `__post_stop__` | start while stopping, parents and callers that wait for children that fail | nothing runs below a component that does not; every stop ends |
| events (`ceres/event.py`, `ceres/node.py`) | a queue per listener, the handlers under way | `emit`, `propagate`, `handle`, `settle`, the listener's loop | three consumers of one queue, events emitted during the stop | a stopped component has handled what its children emitted; `settle()` ends |
| component tree (`ceres/component.py`, `ceres/engine.py`) | `_container`, `_children`, `_components`, names | `attach`, `detach`, rename, `Engine.attach` | a link is kept on both sides, operations that raise half way | both sides agree; only the attach of an ancestor closes a cycle |
| jobs (`ceres/job.py`) | the registry `_jobs`, the scheduler's jobs, executions and their retries | `add`, `remove`, `clear`, start, stop, fire, retry | the registry and the scheduler hold the same thing twice; a stop during a retry | they agree while the component runs; retries are bounded; a stop ends everything |
| routines (`ceres/component.py`) | the task of each routine | restart by policy, cancellation | which outcome restarts | the documented policies |
| exports of loaded records (`rust/ceres-cli/src/commands/exports.rs`, `ceres/__internal__/pending_exports.py`) | the pending and the claimed file, the engine's export tasks | hand over, append, drain | two processes on one file; stops and crashes of the engine | what is left in a file is exported |
| exporters (`ceres/exporter.py`) | the files of a mount, a live loop's pending and working ranges, cached last keys, warned and owned periods, the runs and the lock | notify, the check at start, live writes, runs with a conflict and a range mode, add and remove | a run and the live loop on the same files, appends cut short, a database that is pruned | what is stored is in its file once and in order, or warned about; only a purge takes records out |

The database (`rust/ceres-database`, `rust/ceres-cli/src/commands`):

| component | state | operations | what is hard | what makes it correct |
|---|---|---|---|---|
| record filters (`filter.rs`, `selector.rs`) | none: a language | parse, match, compile | every condition is written twice, as SQL and over a record in memory | both mean the same |
| store queries (`store.rs`) | the branches found so far, the page | list, count, delete, update by filter | a listing is many queries, with writers in between | the page is complete |
| writes and loads (`backend.rs`, `turso.rs`, `writer.rs`, `load.rs` and the value codecs) | the tables, transactions, chunks | upserts, bulk loads with three conflict modes, deletes, clear | four engines with different transactions, lost races, time-outs, hooks that fail | what is committed is what the rows mean one at a time |
| migrations (`migrations.rs`) | the schema, the recorded versions | migrate, clear | crashes between statements, two migrators | recorded once and whole |
| dump (`commands/dump.rs`) | the sink with its held-back rows | select | failures after part of the output | success means whole |

The server (`rust/ceres-server`, `rust/ceres-core`, `ceres/__internal__/app`):

| component | state | operations | what is hard | what makes it correct |
|---|---|---|---|---|
| managed TLS (`tls.rs`, `tls/managed.rs`) | four files, the pair presented | judge, create the authority, issue, renew, load, `ceres generate certificate` | crashes between renames, three actors on the same files, clocks | the listener presents a usable, valid pair; an authority is never replaced |
| files API (`api/files.rs`) | the tree of a mount, parts under way | list, read, archive, upload, move, copy, delete | check-then-act against other requests, crashes, clients that leave | no torn file, nothing excluded moves, no file is replaced unasked |
| requests and authentication (`app.rs`, `auth.rs`, `api/`) | accounts, tokens, a request's progress | every route with its gate, login, refresh, impersonation | an account changes while its request is served | operations run for callers that were admitted; tokens trace to a login |
| streams and bodies (`api/streams.rs`, `app/host.py`) | the iterator behind a handle, the pull under way | open, pull, forward, close, exit hook | two runtimes, dropped futures whose coroutine goes on | forwarded whole, given back |
| listeners (`ceres-core/src/server.rs`, `ceres/__internal__/server.py`) | listeners, connections, the shared media server and log sink, the info file | bind, serve, fail, stop, restart | what outlives its listener | one media server; a stopped server listens no more |
| configuration (`rust/ceres-config`) | the file, what is read of it, the logging in force | load, validate, reload | settings that owe each other something | what loads can be served |

Around the engine:

| component | state | operations | what is hard | what makes it correct |
|---|---|---|---|---|
| service (`ceres-cli/src/service.rs`) | the unit on disk, registered, running | `service start`, `service stop` over systemd or launchd | each is a sequence of programs that may fail, or the machine goes down | a start that succeeded survives a reboot |
| watching parent (`commands/run.rs`) | the child, noticed paths, the build | settle, rebuild, restart, exit | edits while it is busy | it runs the sources as they are |
| live streams (`rust/ceres-media/src/remux`) | readers by source, their picture cache, a feed per stream, the timeline | join, fan out, lose and regain the source, linger, close | threads that join and leave a closing reader; streams that fall behind | nobody waits for a reader that is gone; time never goes back |
| WebRTC sessions (`rust/ceres-webrtc`) | slots, sessions, their channel, the socket's queue | open over WHEP, read, write, end | three threads per session, full queues | decodable pictures only; everything given back |
| test RTSP server (`rust/ceres-media/src/server`) | the accepting thread, a session and a player thread per client, a mutex | accept, describe, play, end, drop | a writer blocked with the mutex held | dropping it ends, with all threads |

References, playbacks, connections, sieves, pruners, schedules, channels, the
dispatcher, the console and data objects are not modelled: see
[section 7](#7-what-is-not-modelled) and `PROJECT.json`.

How they interact. The engine and every component are *nodes*: a node has a writer,
an event manager and a tasklet that runs its `__run__`. `ComponentSystem.__run__`
starts the workers: the writer's flush loop, the listeners, the jobs and the
routines. Stopping a component cancels these, stops its children, drains the event
queues (`settle`), flushes the writer and emits `StoppedEvent`; the modules cut this
sequence at its awaits. Components reach each other through the tree (`attach`,
`detach`), through events that climb it, and through references into it. The engine
starts one native server, which calls back into the engine through the *host*
(`stream_open`, `stream_next`, `operate` and so on) from tokio threads; both sides read
the same database through the same store. The command line reaches the engine over
HTTP, or through files when no engine runs.

The hazards, each at the line where it bites and with the properties that watch over it,
are listed in `PROJECT.json`.

## 2. Modules

An action is what the code does between two awaits, under one lock, or in one operation
of the filesystem or the database, with everything it calls. Records, events, names and
log lines are numbers or members of small sets.

| module | stands for | notes |
|---|---|---|
| `Writer` | `Writer` and the node's flush loop | the n-th `add` adds entity n; a `flush()` call is identified with its `Flush` object, which is reused when garbage. `Typed` entities go through the query layer one by one, the others in one transaction. `Cancel` is part of `SpecCancel` only |
| `RecordLog` | the docstring of `Writer` | the abstract specification: accepted in order, given up oldest first and only when stored |
| `Components` | | the constants `Lifecycle` and `Tree` share |
| `Lifecycle` | `Tasklet`, `ComponentSystem.start`, `__run__`, `__stop__`, `__post_stop__`, `enable`, `up` ... and the handlers that call them | `task` is the place of the tasklet's `main()` in its sequence of awaits. `OrderlySpec` starts nothing below a component that is being stopped |
| `Events` | `EventManager`, `_ComponentEventListener`, `settle` and the stop | an event is the component it was emitted on. Tasks are eager, as on every loop the host installs (`host.py:58`, `concurrency.py:160`): `Spin` is a `settle()` whose `await` does not suspend. A component may be started under a parent in any state, as `start()` lets it (`component.py:2557`); `astray` remembers those started below a component that was past stopping its children |
| `Tree` | `attach`, `detach`, the name setter, `Engine.attach` | what a raising `attach` has done by then is an action. An ancestor may be attached, because `contains()` lets it pass; `__propagate_tree_change` then climbs for ever and the model stands still (`Hang`). The public `container` setter (`component.py:1804`) only assigns; its one caller is `Engine.attach`, behind the registration (`engine.py:411`), and it is part of that action |
| `Jobs` | `JobManager` | APScheduler is external: it fires a job that has no execution under way and cancels executions at its shutdown |
| `Routines` | `__run_routine` | the restart loop |
| `PendingExports` | `export_loaded` of the command line, `drain_pending_exports`, the engine's export tasks | a load's open and write of the file are two steps; `EngineDown` is the end of the process or a crash. `QuietSpec`: no rename falls between an open and a write |
| `Exporter` | one exporter: its live loop, its runs, the files | a record is its key, a file the sequence of its keys with `Torn` for a record cut short; the writers are told apart as resumable lines (csv, jsonl), raw and whole-file (netcdf). the live check is cut at its two queries and the lock, a run at each file. Records come through the writer, which notifies, or past it (`Unflushed`: a load, another process), which does not. A pruner deletes at any time, an append stops part-way wherever its write may fail. Ghosts: `heard` and `covered`, what this loop was notified of and what its last check was for; `marred`, files appended to behind a stale key or whose end could not be read; `exposed`, what was pruned at a time the exporter does not allow for |
| `Filters` | the filter language: wire pairs, the tree with its hoisted controls, the matcher, the SQL conditions | pure operators; a query's answer is a set of rows. Texts are sequences of symbols, the wildcards and the escape `^` among them; `like_escape`, `glob_escape` and the databases' LIKE and GLOB are modelled on them, and a text may be NULL |
| `RecordStore` | `fetch_filter`, `discover_branches`, the seeks, deletes and updates by filter | extends `Filters`; other clients write between two seeks |
| `Cells` | how a value is bound, stored and read back on each backend | only the forms some backend treats differently are told apart |
| `Database` | connections and hooks, transactions, the upserts, bulk loads, `clear`, `delete`, migrations, a select with its sink | extends `Cells`; a client is a process with one operation under way. SQLite, PostgreSQL and Turso are external, modelled by how the code uses them: one writer, row locks, or refusal at the commit |
| `Certificates` | managed certificates, the listener that presents them, `ceres generate certificate` | a key is a number; an actor is the listener, a renewal that outlived its listener, or the command; `raced` records that two actors created the authority at once |
| `Files` | one mount of the file browser | a path is a sequence of names, `tree` maps it to an entry; hard links share an `id`; a request keeps the paths its checks resolved and resolves them again at every operation. Links may lead to files, to directories and out of the mount (name 0); a client may name a part, since listings show it. Histories: `loose`, what a client took out of a part; `swapped`, whether a request has acted in a directory that was replaced by a link after its checks |
| `Requests` | a request from its headers to its answer | the route table folded to what tells routes apart; accounts are `Alter`ed at any moment |
| `Streams` | `pump`, response bodies with their `Release` guard, the host's side of both | the host starts calls in order; a dropped future leaves its coroutine running |
| `Serving` | the `Server` tasklet, its listeners and what they share | what a listener served lives on until tokio drops it, a connection until its client closes it. Writing and deleting the info file may fail (`server.py:189`, `203`) |
| `Config` | the engine-level sections: reading, validation with located problems, reloading of logging | an omitted value is the empty set, a given one a singleton, so that options are quantified over. A path is its components: relative, with `.`, with `..` through the project's own directory, absolute, or up from the root |
| `Service` | `service start`, `service stop` | systemd and launchd are external: a unit on disk, registered, running, restarting. A systemd user's manager is there while the user has a session or lingers; `enable-linger` may fail, with a warning only, and is run for the user the configuration names, who may be another one (`user.other`) |
| `Watch` | `run --watch` | the resident task, its watcher's thread, two children, exit signals. The watcher may get an error in place of a change, which is dropped (`run.rs:257`, `missed`) |
| `Remux` | the registry of readers, a reader's thread, both ends of a stream | one action per section under a lock; a packet is one frame and names the frame it is decoded from; a reader is fatally ended by its source, or by the clean end of it (`reader.rs:196`). A reader without a key (`reader.rs:209`), which is never shared, behaves as one whose source no other stream names |
| `WebRtc` | the WHEP route, sessions, their threads, the event loop with its socket | extends `Remux`; str0m is external: any of its writes may fail, which leaves a session that waits for a key frame waiting (`session.rs:240`) |
| `Timeline` | placing packets on a stream's timeline | times are integers or absent |
| `RtspServer` | the accepting thread, session and player threads, the drop | a write to a client that stopped reading holds the mutex until the socket closes |

`MCWriter`, `MCRoutines` and `MCExporter` give the constants of one module their values.
`MCNode` (`Writer`, `Events`), `MCEngine` (`Lifecycle`, `Tree`, `Jobs`, `PendingExports`),
`MCDatabase` (`RecordStore`, `Database`), `MCApi` (`Files`, `Requests`), `MCLive` (`WebRtc`
over `Remux`, `Timeline`, `RtspServer`) and `MCOperator` (`Streams`, `Serving`, `Config`,
`Service`, `Watch`) hold several that share no state in the code: their variable `part` says
which one a behaviour is about, and the others do not move, so the state space is the sum of
the parts'. `Certificates` is run directly. The `...Proofs` modules extend the modules they
are about.

Operators such as `RequeueBehind` or `SettleEarly`, beside the definition they vary, are
plausible mistakes: `PROJECT.json` names for every property one under which TLC finds it
violated.

Two specifications are restricted, and the writer's `Spec` has no cancellation. Each
restriction is necessary: the same property, checked without it, fails (section 6).
`Lifecycle!OrderlySpec` starts nothing below a component that stops, so `NoOrphans` says
nothing of a start during a stop; `Events` has those starts, and `OnlyOwnLeft` and
`StopEnds` say what they leave intact. `PendingExports!QuietSpec` lets no rename fall
between a load's open and its write of the pending file.

Other properties hold with exceptions, which their formulas name and section 6 explains:
`FlushDurable` (an empty buffer), `MatcherAgrees`, `OneByOne`, `DumpWhole`, `NeverTorn`,
`ExcludedKept`, `Servable`, `ComesBack`, `RunsWhatIsThere`, `UpToDate`, `NeverRemoves`.

## 3. Runs

| run | checks | instance, and why it is enough |
|---|---|---|
| `node` | `NoDataLost`, `FlushDurable`, the refinement `ImplementsLog`, `EventuallyStored`; `OnlyOwnLeft`, `StopEnds` | of the writer 3 `Flush` objects: one that writes, one that gets its entities when it fails, and one behind both; 3 entities, one of them typed so that a write can fail in part. Of the listeners a parent that listens to its child and to a component outside that never stops emitting; the child emits while it stops, and either is started and stopped in any order; one event queued at a time (`QueueMax`), and two more at a start. NODESTATES states |
| `engine` | `NoOrphans`, `LinksAgree`, `LeftIsKept`, `StopEnds`, `QuietAfterStop`, `NextStartExports` | a chain of three: an ancestor, one that is both parent and child, a leaf; calls change the enabled state of the middle one (`Toggled`), all eight persisted states are initial ones; three components and two names, so that names collide and a chain of three can form; two jobs and two configurations, without retries and with two; three loads, so that one is in the claimed file, one in the pending one and one on its way, with any number of starts, stops and crashes. 145889 states |
| `exporter` | `UpToDate`, `NeverRemoves` | two keys in one period, so that one comes late in it, and a clock that goes on into the next; either may be pruned and one stored past the writer, at any time; each kind of writer, in the periods that tell them apart; one run at a time, so that the lock has both users; requests that overwrite and purge a whole file, skip over part of one and refuse two; at most two records in a file cut short (`MaxFile`), so that one may be torn behind a whole one. 4.4 million states. The properties hold too with two start checks (7.0 million), with periods of one key (3.7 million), and with three keys for lines and one overwriting run (9.3 million) |
| `database` | `MatcherAgrees`, `NoneMissed`, `OneByOne`, `MigratedOnce`, `DumpWhole` | rows at four addresses of a small tree with every kind of filter asked of them, at most three stored at once, caps of two so that both are exceeded; two keys, batches of two and chunks of one, two migrations of two statements, two faults, on each of the four engines. 1.1 million states |
| `certificates` | `PresentedUsable`, `Fresh`, `AuthorityKept`, `Recovers` | a lifetime of six units (`Life`) renewed within windows of up to three, five units of time (`MaxTime`): a certificate is issued, renewed and can run out; four keys, two faults: one at a rename and one at its recovery. 1.3 million states |
| `api` | `NeverTorn`, `ExcludedKept`, `NoClobber`, `ActsAsAdmitted`, `TokensTraced` | two request slots, so that any two operations of the file browser interleave, on filesystems with and without hard links, one crash; links to an excluded file, to a directory and to one outside; requests that name the first request's part; a third request (`MaxRequest`) of those that put a directory in the place of that part or a link in the place of a directory (`MCThird`), so that what two requests rely on can be swapped; for requests two users, tokens that last one unit of two, three changes of an account or of the time. 421161 states |
| `live` | `PictureWhole`, `NoneStranded`, `Released`, `OneTimeline`, `QuitsWhole` | two muxed streams or one session over two connections of the source, a session that joins a source another stream reads, queues of one and a picture cache of two so that each overflows; five frames; three packets on the timeline; two clients of the test server with room for one session. 628765 states |
| `operator` | `Forwarded`, `GivenBack`, `OneMediaServer`, `StopsListening`, `Servable`, `ComesBack`, `RunsWhatIsThere` | one connection with three items and one frame from the client; two servers one after the other; each setting right and wrong, and spelled in every way the module tells apart; two versions of the service's definition and two boots, with and without sessions and lingering; three edits. 350243 states |
| `writer_cancel_loss`, `routines_restart`, `stream_frames`, `exporter_twice` | violations | section 6 |

What the properties say, where the name does not:

- `PresentedUsable`: the listener's key belongs to its certificate, which an authority
  that stood on disk signed. `Fresh`: a checked certificate stays valid for a whole renewal
  window, however many checks fail in it. `Recovers`: after any crash the server comes up,
  unless the authority itself is unreadable.
- `LinksAgree`: what a registry holds has that container, and the other way round.
- `MatcherAgrees`: the live matcher and the SQL agree on every record, but for the four cases
  of section 6. `NoneMissed`: a listing's page is complete whatever is written between its
  seeks, and counts agree with it.
- `OneByOne`: the table is what the committed operations mean one row at a time and whole;
  excepted is a load that an unreadable line cuts short. `DumpWhole`: a select that reports
  success wrote everything, unless its reader left or standard output failed.
- `NeverTorn`: a name that is no part's never shows part of an upload, but for what a client
  itself took from under a part's name. `ExcludedKept`: what is excluded or outside stays
  where it is and is handed over by no read or archive, until a request acts in a directory
  that was swapped for a link after its checks.
- `ActsAsAdmitted`: a caller passed its route's gate at some moment while the request was
  served. `TokensTraced`: every token goes back to a login through administrators only.
- `PictureWhole`: a browser is written a frame only behind the one it is decoded from; that the
  write of that one succeeded is not claimed.
- `Released`: a refused or ended session has given back its slot, thread, stream and host
  handle. `QuitsWhole`: dropping the test server ends, and no thread is left.
- `Forwarded`: what the host yields reaches a client that sends nothing, whole and in order.
  `GivenBack`: a client that leaves has its handle forgotten, its pull ended and the exit
  hook of its output run.
- `OneMediaServer`: whatever listeners and connections hold a media server hold the same.
  `StopsListening`: an engine that leaves, or applies another section, ends with nothing of its
  former server serving or held, and without its info file unless a file operation failed.
- `UpToDate`: an exporter with nothing left to do has every stored record in its file, or has
  warned about the file, and holds each record once and in order. Excepted are files a run
  wrote from part of their time, records it was not told of that came late, behind the check,
  or in periods the check does not go back to (`docs/exporters.md:332`, `343`), and `marred` files.
  `NeverRemoves`: only a run that purges takes a record out of a file, and one that skips or
  refuses existing files changes none. Excepted are, in a file that is rewritten, what the live
  write behind the check at start puts back, and what a pruner took (`exposed`) while the loop
  or a run was at work or the loop owned the file, or leaving an older record or none, or before
  an older one was stored: `docs/exporters.md:349` says that a pruner "never waits for an
  exporter", and the code holds on to less than `docs/exporters.md:7` promises (section 6).
- `ComesBack`: a service whose start succeeded is registered, and its user lingers or was warned.
- `Servable`: the ports, files and costs of a configuration that loads do not collide.
- `RunsWhatIsThere`: a resident task with nothing to do runs the sources as they are.

Deadlock is checked in the first three runs: the writer can always be flushed again,
components, an exporter and the engine be stopped and started again; the states
`Spin` reaches and a cycle of components leaves (`Hang`) are the ones that stutter on purpose. In the others behaviours end: an operation, a request or
a session is over, or a named bound (`MaxTime`, `MaxBoots`, `MaxFrames`, ...) is reached.

## 4. Fairness

Liveness is checked under what the code's scheduling gives and no more.

- `Writer!FairSpec`: the event loop resumes a call whose event is set, and the node's
  loop flushes again after a failure (weak). The database takes a write in the end:
  strong fairness of `Commit` and `Succeed`, because a write is tried again and again
  and may fail any number of times in between. Nobody is obliged to call `flush()`.
- `Lifecycle!FairOrderlySpec`: a tasklet whose stop was requested goes on, and its
  hooks return (weak, on `Main`). Nobody is obliged to start or stop anything; the
  hooks of `__run__` may hang.
- `Events!FairEventsSpec`: consumers get their turn and handlers return, a stopping
  component goes on. Components outside may emit for ever.
- `MCEngine!MCFairness`: a scheduler that shuts down cancels its executions (an action
  need not return); the drain goes on and a load that has the file open writes. The
  engine need not come back.
- `Certificates!Fairness`: an issuance that was begun goes on, and a listener that is
  asked to serve tries. Faults are bounded, and no check is obliged to come in time.
- `MCLive!MCSpec`: threads run (`Progress`, and the accepting, session and player threads
  of the test server), timers fire. The source, the browsers and the clients owe nothing:
  they may fall silent, stop reading, or never leave.
- `MCOperator!MCFairness`: both runtimes go on (`HostLoop`, `ServerTask`, `Loop`), an engine
  that leaves cancels its server, tokio drops what was cancelled. The resident task of
  `--watch` goes on, and a child that is told to leave does so in the end: strong, since
  its exit is disabled while it is being replaced.

## 5. Proofs

TLAPS checks them for every value of the constants that meets the modules' ASSUMEs; TLC
evaluates these on every run. They say that `None` is no component, that `Parent` is a
function, that a certificate's lifetime is longer than its renewal window and what it is
backdated by (`MarginAssumption`: `auto.days` is one at least, the window a third of it and
`BACKDATE` an hour), that
the database's inputs are sequences over finitely many keys and its migrations are numbered
(`Database!ConstantsAssumption`), that the parts of a JSON document are documents, and so
on. These do not restrict what the system may do. Those of `Files` say that a path is made of
names (a part's included, since `OpenMount::list` shows parts, `files.rs:370`, and `find`,
`rename` and `copy` reach them, `308`, `1554`, `1608`), and that the mount starts as a finite
tree of whole, synced files, with links to whatever they like and under no part's name; what
is excluded in it has no second hard link, which no check of the code could see.

- `WriterProofs`: `TypeCorrect`, `NothingLost`, `OrderedWrites`, `NotificationsTrue`,
  `SettledCorrect`, `FlushesDurable`, for any number of flushes and entities. None is
  inductive. `Inv1` is the shape of the queue: the calls that wait or write are exactly
  its members, once each, only the head writes, everyone else waits for the one before
  it (`Waiting`, which is why one event is enough to pass the turn on), no member is
  empty, and what is being written is what the flush holds. `Inv2` adds `Ahead`: what was
  added before a call is stored, or in its flush, or in one queued before it; a failed
  flush keeps it true because it hands its entities to the *next* one. `Inv3` adds the
  order of entities across the queue, from which `WritesInOrder` follows. `Inv4` adds that
  what is queued is one run of consecutive entities, oldest in front, up to the last one
  added; with it `WriterImplementsLog` shows the refinement `ImplementsLog`, step by step: an
  `add` is an accepted record, a write that succeeds gives up the oldest run, everything
  else stutters.
- `EngineProofs`, about four modules:
  - `Lifecycle`: `LifecycleTyped` and `AncestorsAlwaysRun`, for any tree, under
    `OrderlySpec`. The invariant says that a parent runs as long as a child does, that a
    component past the loop of `__stop__` has no running child (`Emptied`), and that one
    past the race has its `stopping` event set (`StoppingSet`), without which the
    restriction would not cover the steps it has to. `NoOrphans` then follows because the
    set of running components is closed upwards, and `Above` is the least such set.
  - `Tree`: `TreeTyped` and `LinksAlwaysAgree` for any components, names and callers, cycles
    included; and `CycleOnlyByAttach`: the one step that puts a component above itself is the
    attach of an ancestor, which `attach`'s docstring refuses (`component.py:2282`) and
    `contains()` lets pass. A link put on an acyclic tree closes a cycle only through its own
    ends, and `Acyclic` says that every set of components has one that is contained outside of
    it, which needs no induction on paths.
  - `Jobs`: `JobsTyped`, `SchedulerInStep` (with: between two runs the scheduler holds no
    job that is not registered) and `RetriesBounded` (with: `retry` counts the failed calls
    exactly).
  - `PendingExports`: `ExportsTyped` and `NothingLeftIsLost` for any number of loads, stops
    and crashes, under `QuietSpec`: the pending file is renamed only when the claimed one is
    done with, and while its entries run each is in the batch or exported.
- `EventsProofs`: `EventsTyped` and `AlwaysOnlyOwnLeft`, for any tree, bindings, number of
  emissions, and starts and stops in any order. A queue keeps what nobody takes any more, so the
  invariant speaks of the queue from the moment `settle()` returns (`OwnQueued`). From then on
  nothing below may emit but what was started too late, because everything above a component
  that has not stopped runs or stops its children, unless it was started behind that
  (`LiveUnderLive`, `astray`).
- `DatabaseProofs`, for any migrations, statements, files, keys, batches, chunks and faults:
  - `AlwaysDumpWhole`. `SinkInv`: as long as a select goes on, what was written, what is held
    back and what is still to come make up the result, in this order, and nothing is written
    by a sink that is not open.
  - `AlwaysMigratedOnce`, which adds that no migration is recorded twice. What a migrator is
    about to do is part of the invariant: one that is at statement `j` of migration `m` has in
    its transaction exactly the effects of the statements before it, each added to what the
    table shows (`Amid`); everybody else's statements are no scripts and touch rows only
    (`Local`); and two migrators never hold the same effect (`Apart`), since the second waits
    for the row, or loses the race and rolls back. SQLite runs scripts in autocommit, so
    there the invariant says of the table what it says of the transaction elsewhere.
  - `AlwaysMatcherAgrees`, for any rows, days, levels and filters whose values have the types of
    their keys (`FilterAssumption`, `StoreAssumption`; the parser refuses every other value).
    `QueryInv`: the query in hand is what `Parse` makes of such a filter, so its nodes are typed.
    Then family by family: a selector (`OwnAgrees` and its lemmas), a window, an hour of the day,
    and a text pattern. `LikeIs` and `GlobIs` show what the databases read in an escaped pattern:
    symbol by symbol what `PatternMatches` reads in the pattern itself, namely that the text can
    be cut along its tokens. `PrefixMatches`, `SuffixMatches` and `ContainsMatches` show for texts
    of any length that the three shapes the code compiles are a prefix, a suffix and a part of
    the text, by the first token at which a cut and the literal part. The property excepts what
    the code does not escape or test: a LIKE pattern with a `^`, empty patterns on NULL.
  - `AlwaysNoneMissed`, for any rows, filters, caps and writers between the seeks. `WalkInv`
    says what a listing knows halfway: every row that was stored throughout and lies in the
    scope is at an address already found, ahead of the seek, or in a range still to walk
    (`Covered`), unless the walk was cut short or went past its cap (`HopKeeps`,
    `RangeKeeps`). `PageComplete` then shows that taking limit and offset together from each
    branch, merging and cutting loses no row of the page, by counting the rows that precede
    one.
- `CertificatesProofs`: `CertificatesTypeCorrect`, `AlwaysSound`, `AlwaysUsable`,
  `AuthorityAlwaysKept` and `AlwaysFresh`, for any lifetime, window, number of keys and
  faults. Neither property is inductive: the presented pair is loaded from files that a crash
  may have left half renamed, so it is right only because of what is *about* to be written.
  `Sound` supplies it: unless two actors raced, one at most creates the authority, over none
  (`OneCreates`), and whatever is signed, on disk or in an actor's hands, is signed by an
  authority that stood on disk or by the one its actor is creating (`Traced`). `AlwaysFresh`
  needs that an issuance reads the clock of its own moment (`OnTime`), and that whatever is
  about to be renamed into place is valid for a window from then.
- `ApiProofs`: `AlwaysActsAsAdmitted` and `AlwaysTokensTraced`, for any accounts, routes,
  tokens and times. A request under way carries a token that was handed out and had not
  expired when it arrived, and `seen` has its account as it is now (`Carried`): the gate is
  asked about an account that was read, so what it admits passed at that moment. The change
  of a password passes two more host calls, and stays admitted because its gate does not
  depend on the target that they fill in (`Routed`, `OnlyAdmitted`). A token is traced because
  whoever takes on an identity is in `admins` from the moment the caller was resolved, also
  when the account has been demoted since.

  About `Files`, for any mount, exclusion, filesystem, number of slots, requests and crashes:
  - `FilesSafe`, the invariant `FilesInv` the others rest on: every entry is in a directory
    (`Shape`, in `FilesTyped`), requests under way have different numbers (`Numbers`), only one
    that asked to may replace (`Asked`), and every entry fits its last name (`Fits`): under an
    ordinary name a file is whole and synced, or a copy, or taken out of a part (`Sound`); under
    the name of a write under way it is this write's, as far along as that is (`Mine`); and no
    name carries a number that is yet to come. It speaks of last names and not of paths, since a
    directory with parts in it may be moved, and a part be named, moved, copied and deleted by
    anybody. What an operation leaves behind has the last name and the contents of something that
    was there (`Comes`, `Better`), or is what its own request made (`Own`); so one lemma covers
    each of rename, link, unlink and copy, wherever links lead.
  - `AlwaysNeverTorn` follows from `Fits` of every file. `loose` is set where a client's rename or
    copy takes something from under a part's name, and nowhere else.
  - `AlwaysNoClobber`, step by step: a name gets another file only through a rename or a link,
    and these find it empty, or belong to a request that replaces.
- `LiveProofs`: `AlwaysNoneStranded` and `AlwaysOneReader`, for any number of streams, readers
  and sessions: the registry holds exactly the readers that run (`Registered`), one at a time
  for a source, and a reader is closed with its thread and without a stream left on it
  (`ClosedEmpty`). `AlwaysPictureWhole`, from `PictureInv`: between the source and a browser a
  frame waits in the feed, in what the stream has yet to return of a snapshot, in the channel
  of the event loop, or in the picture held until the browser connects. `Chained` says that
  these four, one behind the other, take the browser from what it shows to where its reader
  goes on (`Linked`, `At`): each frame needs the one before it, or starts over behind a track,
  or is a frame a waiting session throws away. A write may fail anywhere: a waiting session goes on
  waiting, any other goes on as if the frame had arrived, which is why the property speaks of
  frames given to be written. Nothing less is inductive, since a reconnect, a
  full feed and a dropped queue break the chain at different places and the keyframe that
  mends it arrives through all of them. That writing a held picture shows its last frame is an
  induction over the picture, done by the first frame where it would fail (`SmallestNat`,
  `WrittenPicture`). About `Timeline`, `AlwaysAdvanced` and `AlwaysOneTimeline`,
  for any times and durations a source may send: the timeline ends behind its last decode time
  (`Advanced`), and `OneTimeline`, about pairs of packets, follows step by step.
- `OperatorProofs`, about four modules:
  - `Service`: `ServiceTyped` and `ServiceComesBack`, for any number of boots, versions and
    failures. What is left of a command says how far it got: a start past its write has a
    definition, one past `enable` is registered, and one past `enable-linger` lingers, has
    warned, or was for another user. That a user manager comes up at boot for a user who
    lingers is logind's, and external.
  - `Watch`: `NoEditLost`, for any number of edits: what the resident task has not yet built or
    restarted onto is noticed, or in its hands, or the watcher met an error in its place.
  - `Serving`: `OneMedia`: whatever holds a media server holds the shared one, or nobody does.
  - `Streams`: `StreamsTyped` and `WholeAndInOrder`, for any number of connections and items:
    what was sent, the item in the server's hands and the one the host is about to return are
    consecutive, as long as the client sends no frame.

Only model-checked:

- everything about liveness (`EventuallyStored`, both `StopEnds`, `QuietAfterStop`,
  `NextStartExports`, `Recovers`, `Released`, `QuitsWhole`, `GivenBack`, `StopsListening`),
  which the prover cannot do, and the violations;
- `OneByOne`: it compares the table with a fold over all that was committed, which takes an
  induction over data the prover cannot do;
- `Servable`: where a path leads is a fold over its components, again an induction over data;
  the settings are a finite table that TLC goes through whole;
- `ExcludedKept`: through links to directories an operation acts far from what it names, and
  the invariant would have to follow every path a request kept through every swap;
- `UpToDate` and `NeverRemoves`, on the instances of section 3.

## 6. Findings

Each is a run that TLC ends with a counterexample, and an entry of `PROJECT.json` that
quotes what the repository says.

- `writer_cancel_loss`: a `flush()` that is cancelled while it writes runs only its
  `finally`, so its entities are neither in the buffer nor in the database. Stopping a
  node cancels its flush loop.
- `routines_restart`: `on-completed` and `on-exception` restart after the outcome the
  other one names.
- `exporter_twice`: after an append to a csv or jsonl file that failed part-way the cached last
  key is that of before (`exporter.py:2170`): the retry repeats records, or extends the torn
  one, which the comment of `__last_key` means to exclude.
- `stream_frames`: a frame from the client, a ping included, makes the pump drop the pull
  it awaits; the item that pull gets is never forwarded, or the next pull finds the
  iterator busy and the socket is closed.

Deviations met while modelling, on which no run is spent. A formula in brackets is violated
when it is added to the configuration named.

The engine:

- `flush()` with an empty buffer returns although the flush it waited for failed and put
  its entities back (`\A f \in Flush : pc[f] = "returned" => 1..before[f] \subseteq stored`,
  `Node.cfg`); `playback.py:678` relies on it.
- A flush cancelled while it waits pops the one that is writing, and two write at once
  (`WritesInOrder` in `ViolatesNoDataLost.cfg`).
- `start()` of a child returns at once for a parent whose task still exists; a parent that
  is already in `settle()` or `__post_stop__` ends and the child runs on
  (`component.py:2558`; `NoOrphans`, with `Next` in place of `NextOrderly` in `MCEngine`).
- `up()` of a component that is still stopping enables it and does not start it
  (`[][\A c \in Component : Up(c) => c \notin stopping']_vars`, likewise).
- Starting a child starts its parent without the parent's other enabled children (in a
  tree where one component has two).
- A component keeps its own `StoppedEvent` in the queue and handles it in its next life
  (`\A x \in Component : state[x] = "stopped" => queue[x] = <<>>`, `Node.cfg`).
- `settle()` called while a handler is suspended and the queue is empty repeats an await
  that does not suspend, when tasks are eager, and the event loop stands still.
- `contains()` compares the chain above its argument with the argument itself
  (`component.py:2509`), so `attach` never refuses an ancestor although its docstring says
  so (`component.py:2282`; `Acyclic`, `Engine.cfg`). The next change of the tree climbs for ever.
- A top-level component that is renamed stays registered with the engine under its old name.
- A job added under a name that is already scheduled is registered and not scheduled.
- Exports the running engine has accepted are dropped without a log line when it stops. A
  load that has opened the pending file when the starting engine renames it writes into a
  file that has been read and is then unlinked (`exports.rs:610`, `pending_exports.py:153`).
- `main()` of a tasklet cancels `__run__` before it calls `__stop__`, by which time the
  server has forgotten its listeners: the grace period of `NativeServer.stop` is never
  used, although `serve.rs:5` says "Shutdown is graceful, in-flight requests finish first."
- Logging sections are compared as they resolve with their own defaults (`logging.rs:158`),
  but a component resolves an unset field with its container's: a reload that only sets a
  field to its default, or unsets it, compares equal and is not picked up
  (`engine.py:714-716` says that such changes are).
- Exporters: `docs/exporters.md:7` says "Ceres never removes a record from a file on its own",
  but a live netcdf exporter rewrites a period it owns from a database that a pruner has thinned
  (`exporter.py:2148`), and a run reads the oldest record once (`exporter.py:2297`), so a prune
  behind it, or a late record older than the pruned ones, lets it overwrite a file that holds
  more than the database (`NeverRemoves`, without `exposed`).
- What the check at start or a run has written is written again when its notification is
  served: a raw file then holds it twice, although `docs/exporters.md:105` says that it
  reproduces the stream, and a csv or jsonl file gets the warning of a late record.
- An append that failed in the check at start leaves the cached key too, and when the check that
  is tried again, in a later period, no longer covers that file, the live write appends behind
  the torn record.
- The check at start reads the clock before it waits for the lock (`exporter.py:2002`, `2025`)
  and rewrites a whole file from what is older: a record that a run has written in between is
  not in the file until the live write behind the check, whatever `docs/exporters.md:7` says
  (`NeverRemoves`, without `Awaited`).
- A run that purges with the range mode `exact` and selects no record removes the file,
  although the database holds its others (`exporter.py:1483`).
- A late record that is stored while the live loop is down, or still pending when it stops, is
  in no file and no warning names it (`exporter.py:2062`).

The database:

- A filter that is an `or` group alone matches every record in memory, because it has no
  conditions of its own (`filter.rs:1485`), and only the group's records in SQL;
  `MatcherAgrees` leaves it out.
- `like_escape` does not escape `^`, its own escape character (`filter.rs:2673`), so SQL and
  matcher part on patterns that hold one; a text pattern whose parts are all empty matches
  NULL in SQL (`filter.rs:2754`) and not in the matcher; `MatcherAgrees` leaves out both; the
  order of an `and` child overrides that of the root; subsampling takes its buckets over all
  rows, not over the filtered ones.
- The cap on discovered branches counts overlapping ranges twice (`store.rs:486`), so a
  listing may fall back, or be cut, earlier than its cap says.
- `load.rs:148` says "a load either lands whole or not at all"; a line that cannot be read is
  taken for the end of the file, and what came before it lands (`OneByOne`, without `Truncated`).
- On SQLite a migration's script and `database clear` run statement by statement in
  autocommit: a crash in the middle leaves the part done, and the next `migrate` meets it.
  Two migrators may both run a script. Turso wraps scripts in a transaction, in which the
  PRAGMA of migration 0007 does nothing.
- A JSON `1.0` reads back as `1` on SQLite and Turso; a dump to YAML and a load of it turn
  the JSON string `"1"` into the number.
- `dump` ignores failures of writing to standard output (`dump.rs:862`; `DumpWhole`, without
  `lost`). A failing `close` hook of Turso
  reports an error after the commit. On PostgreSQL, concurrent upserts follow READ COMMITTED
  and not the order of the calls.

The server:

- Managed certificates: a pair issued by `ceres generate certificate` beside a running server
  is not presented, since a check that issues nothing replaces nothing (`tls.rs:227`), so the
  listener may present the old pair past its expiry; `auto.days` of 1 or 2 is allowed
  although checks are a day apart; a crash between the renames of `create_authority` leaves
  an authority that needs the operator; two processes that create it at once may mix theirs
  (`raced`).
- Files: the `If-Match` check and the rename are two operations, and so are the fallback of
  `overwrite=false` where hard links fail; a copy is not synced before it takes its name; the
  directory of a copy that was cut short is never swept; a part is listed (`files.rs:370`) and
  can be read, moved, copied and deleted, so that a client can put half an upload under a name
  of its own; a directory swapped for a link between the checks and the operation escapes
  (`files.rs:1410` says so of reads; `ExcludedKept`, without `swapped`); a copy reads through
  the name it checked (`files.rs:603`), so a link that takes the place of the source is
  followed; a directory moved to where its contents are excluded can no longer be moved; what
  becomes excluded below a directory after the check goes with it; a listing is filtered after
  it is truncated.
- `api/auth.rs:152-154` says "Chaining is prevented structurally, the issued identity is the
  target's own so a second hop fails its admin gate." It does not where the target is an
  administrator: an identity taken on then takes on another (`TokensTraced` allows it).
- `server.rs:448-450` says of the media server "It closes with the last listener holding it, so a
  restarted engine binds afresh." But a connection that outlives its listener keeps it: the next
  server's listeners get the old one, with its former `webrtc` section (`OneMediaServer` allows
  it). Failures to write or delete the info file leave it behind (`server.py:189`, `203-206`).
- A client that leaves while `operate` or `webrtc.open` runs leaves the handle open, since
  nobody learns it (`GivenBack` and `Released` leave it out). A stream stays open when its
  user is disabled or its token expires.
- A cancelled `serve` is dropped some time later, so a restart may find the port bound; a
  connection outlives its listener and holds the former application state. A server whose
  bind failed is not started again by applying the same configuration, and its listeners that
  were bound stay so until they are collected.
- Configuration: two paths are compared as spelled (`ceres-config/src/server.rs:278`), so an
  absolute and a relative spelling of one file, one that climbs out of the project and names
  its directory again, or one with `/..`, pass as two (`Servable` names them); "needs https"
  is also reported for a redirect whose `https` section is there and invalid.

Around the engine:

- `service stop` of a systemd unit that is waiting to be restarted, and one repeated after
  `disable` failed, report success and leave the unit; `service start` while it runs does not
  update the definition, although `commands/service.rs` says "Create or update the service
  definition, then start the service"; a launchd job that has exited counts as running. A failing
  `loginctl enable-linger` only warns and the start succeeds, so the service is not there after
  a reboot until its user logs in; and where the configuration names another user, it is that
  one who lingers (`service.rs:284`).
- `run --watch`: an error of the watcher, an overflow of its queue included, is dropped with
  the changes it stands for (`run.rs:257`); a rebuild that fails drops the Python edits of its
  batch until the next one; a Python edit after it restarts onto the old extension; Rust edits
  between the sync of the environment and the watcher's creation go unnoticed; settling has no
  upper bound; a child that cannot be killed overlaps its successor.
- An offline toggle of a component races an engine that is starting; any HTTP status below
  502 counts as a live engine (`client.rs`).
- Live streams: a track that is read ahead resets the order of frames; a copied picture cache
  may be marked valid while it is empty; a failed write of a delta frame is not followed by a
  skip to the next key frame (`session.rs:246`), and the frames behind it are written.
- Test RTSP server: `Session::drop` says "Closing the socket first unblocks a player stuck
  writing to a client that stopped reading", but it has to take the mutex that player holds
  first, so only the client or `close_sessions` unblocks it; a thread that cannot be spawned
  after its session was registered leaves an entry that counts against the limit.

## 7. What is not modelled

- Of the modelled parts: the encoding of rows, the callbacks `on_completed` and `on_exception`
  of a tasklet, event classes and output channels, references that follow changes of the tree,
  the time arithmetic of triggers, which exporters take an entry, the list of recent export
  runs with its events and plans, paths and headers of exported files, the text of answers and
  the layers that only dress a response, codecs, ICE, DTLS and RTP.
- Of filters: case folding, and what PostgreSQL does with a pattern that ends in its escape
  character (it raises; here it matches nothing). A segment repeated in one filter counts once.
- Of files: `Follow` takes the target of a link as the path it stands for; a copy of a
  directory's contents is one step, and ends where a client has put a link into its part, through
  which `fs::copy` would write (`files.rs:614`); a copy reads outside when its source was swapped
  for a link (`files.rs:603`), so `ExcludedKept` speaks of reads and archives. The instance's
  third request is one of two (`MCThird`).
- Of the service: a user who logs out without lingering takes the manager down; the model has no
  logout between two programs of one command.
- References (`component.py:2143`), playbacks, connections, sieves, pruners,
  schedules, channels, the dispatcher and the notifiers: planned, or sequential.
- Recreating changed components while a configuration is applied, and the server's restart
  in the middle of it (`engine.py:705`). The order of the engine's stop (`engine.py:298`) and
  what is logged after its last flush (`engine.py:305`).
- `enable()` and `disable()` that overlap in the database (`component.py:2016`), a component
  detached while it runs (`component.py:2670`), `__start__` under the eager task factory
  (`tasklet.py:143`), an event whose handler is cancelled by the stop (`event.py:1326`).
- Calls from threads other than the event loop's to the engine's own state; the engine does
  not make them.
- The console, data objects and the generated models: user interface, and parsing and
  rendering of values without state over time.
- Composition: the parts of one run share no state in the code. `WebRtc` runs over `Remux`,
  `Database` over `Cells` and `RecordStore` over `Filters`; the writer below the lifecycle,
  and the streams above the listeners, are not composed.

## 8. Plan

Done: the engine's writer, lifecycle, events, tree, jobs, routines, exporters and exports
of loaded records; the filters, the store and the database; managed certificates; the files API,
requests, streams, listeners and the configuration; the service and the watching parent;
live streams, WebRTC sessions and the test server; and the proofs above.

Modules worth writing then: `References` (resolution against a changing tree; a reference
leads where a lookup would), `Engine` (applying a configuration while components run),
`Shutdown` (`Lifecycle` with `Writer`, for what is logged after the last flush),
`Playback`, and `Connection` with its sieves.
