------------------------------ MODULE Database ------------------------------
(***************************************************************************)
(* Writing to a project's database: rust/ceres-database/src/{backend,turso,*)
(* store,writer,load,migrations}.rs, the commands that use them            *)
(* (rust/ceres-cli/src/commands/{dump,database,exports}.rs) and the        *)
(* engine's handle (rust/ceres-core/src/{store,writer,migrations,          *)
(* connection}.rs).                                                        *)
(*                                                                         *)
(* A client is a process with one operation under way: `load`, the         *)
(* engine's flush, a filtered `delete`, `database clear`, `database        *)
(* migrate` and the engine's own migration.  A select is apart, with the   *)
(* sink its rows go through.  The engines are modelled from how the code   *)
(* uses them: SQLite and Turso admit one writer, PostgreSQL locks what a   *)
(* statement changes, Turso's MVCC lets concurrent transactions run and    *)
(* refuses the second at its commit.                                       *)
(*                                                                         *)
(* The database is a function of items: <<0, k>> is the row of key k,      *)
(* <<m, i>> counts how often statement i of migration m took effect and    *)
(* <<m, 0>> is the record that m ran.                                      *)
(***************************************************************************)
EXTENDS Cells, FiniteSets, Sequences, SequencesExt, TLC

CONSTANTS
  Key,         \* the keys of the record table, numbers in the order of their times
  Child,       \* the keys whose table refers to the others' table
  Files,       \* the files a load may be given
  Buffers,     \* the buffers a flush may be given
  Modes,       \* the conflict modes of a load, of "error", "ignore", "update"
  Known,       \* the migrations this version holds, 1..n
  Unknown,     \* the number of a migration of a later version
  Steps,       \* the statements of a migration's script
  Rerunnable,  \* the items <<m, i>> whose statement does not fail when run again
  BATCH,       \* rows of one insert
  CHUNK,       \* rows of one chunk of a select
  Scenarios,   \* the sets of clients that are run together
  MaxFault     \* bound: crashes, time-outs and failing writes

\* A row as a caller gives it.
Input == [key : Nat, value : [family : STRING, form : STRING]]

ASSUME ConstantsAssumption ==
  /\ Key \subseteq Nat /\ IsFiniteSet(Key) /\ Child \subseteq Key
  /\ Files \subseteq Seq(Input) /\ Buffers \subseteq Seq(Input)
  /\ Modes \subseteq {"error", "ignore", "update"}
  /\ BATCH \in Nat \ {0} /\ CHUNK \in Nat \ {0}
  /\ Steps \in Nat /\ MaxFault \in Nat
  /\ Known \subseteq Nat \ {0} /\ Unknown \in Nat \ (Known \cup {0})

VARIABLES
  backend,   \* the configured engine
  active,    \* the clients of this behaviour
  file,      \* the load's input
  mode,      \* the load's --on-conflict
  buffer,    \* what the flush is to write
  created,   \* whether the database's file is there
  started,   \* the clients whose store ran the configuration's `init` statements
  db,        \* what is committed
  session,   \* each client's operation
  dump,      \* the select and its sink
  log,       \* history: what was committed, as the callers gave it
  exported,  \* the span of keys the load handed to the exporters
  faults

given == <<backend, active, file, mode, buffer>>
databaseVars == <<given, created, started, db, session, dump, log, exported, faults>>

Client == {"load", "flush", "delete", "clear", "cli", "engine"}
Item == ({0} \X Key) \cup ((Known \cup {Unknown}) \X (0..Steps))
NoRow == [class |-> "none", form |-> "none"]
Bad == [key |-> 0, value |-> Error]         \* a row that does not parse
Unreadable == [key |-> 0, value |-> [family |-> "error", form |-> "unreadable"]]

Rest == [pc |-> "rest", todo |-> <<>>, pending |-> {}, own |-> <<>>, snap |-> <<>>,
         stale |-> {}, wrote |-> FALSE, spans |-> {}, outcome |-> "none"]

\* A set of numbers in their order.
Ordered(S) ==
  [i \in 1..Cardinality(S) |-> CHOOSE k \in S : Cardinality({j \in S : j < k}) = i - 1]
-----------------------------------------------------------------------------
(* What is to be written.                                                  *)

InsertOf(conflict, rows) == [op |-> conflict, rows |-> rows]
DeleteOf(keys) == [op |-> "delete", keys |-> keys]
RefusedRow == [op |-> "refused"]

Refuses(row) == FromFile(row.value).form = "error"

\* Rows::next: an unreadable line ends a JSON file as its end would.
Delivered(f) ==
  LET ends == {i \in 1..Len(f) : f[i] = Unreadable} IN
  IF ends = {} THEN f ELSE SubSeq(f, 1, (CHOOSE i \in ends : \A j \in ends : i <= j) - 1)

Converted(rows) == [i \in DOMAIN rows |-> [rows[i] EXCEPT !.value = FromFile(@)]]

\* Batches::next with load_statement: a row that does not convert refuses its batch and
\* ends the walk.
Batches(f, conflict) ==
  LET rows == Delivered(f)
      count == (Len(rows) + BATCH - 1) \div BATCH
      batch(j) == SubSeq(rows, (j - 1) * BATCH + 1,
                         IF j * BATCH < Len(rows) THEN j * BATCH ELSE Len(rows))
      refused == {j \in 1..count : \E i \in DOMAIN batch(j) : Refuses(batch(j)[i])}
      last == IF refused = {} THEN count
              ELSE CHOOSE j \in refused : \A k \in refused : j <= k
  IN [j \in 1..last |-> IF j \in refused THEN RefusedRow
                        ELSE InsertOf(conflict, Converted(batch(j)))]

RowsAt(rows, S) == [n \in 1..Cardinality(S) |-> rows[Ordered(S)[n]]]

DedupeFirst(rows) ==
  RowsAt(rows, {i \in DOMAIN rows : \A j \in 1..(i - 1) : rows[j].key # rows[i].key})

\* dedupe_last: the last row of every key, in the order of those rows.
DedupeLast(rows) ==
  RowsAt(rows, {i \in DOMAIN rows : \A j \in (i + 1)..Len(rows) : rows[j].key # rows[i].key})

\* upsert_statements
Upserts(rows) ==
  LET kept == DedupeLast(rows)
      count == (Len(kept) + BATCH - 1) \div BATCH
  IN [j \in 1..count |->
       InsertOf("update", SubSeq(kept, (j - 1) * BATCH + 1,
                                 IF j * BATCH < Len(kept) THEN j * BATCH ELSE Len(kept)))]

RecordFirst(m) == [j \in 1..(Steps + 1) |-> [op |-> "script", item |-> <<m, j - 1>>]]

\* migrate: a migration's script with the record that it ran at its end.
Script(m) ==
  [j \in 1..(Steps + 1) |->
    [op |-> "script", item |-> IF j <= Steps THEN <<m, j>> ELSE <<m, 0>>]]

\* run_clear: the tables in the reverse of their order.
ClearScript == <<DeleteOf(Child), DeleteOf(Key \ Child)>>
-----------------------------------------------------------------------------
(* What a statement does to what its transaction sees.                     *)

Occurrences(rows, k) == {i \in DOMAIN rows : rows[i].key = k}
Repeats(rows) == \E k \in Key : Cardinality(Occurrences(rows, k)) > 1
KeysOf(rows) == {rows[i].key : i \in DOMAIN rows}
Earliest(s) == CHOOSE i \in s : \A j \in s : i <= j
Latest(s) == CHOOSE i \in s : \A j \in s : i >= j

\* on_conflict, and the constraint that a statement without a clause breaks.
Fails(view, stmt) ==
  \/ stmt.op = "refused"
  \/ stmt.op # "script" /\ view[<<1, 0>>] = 0  \* no such table
  \/ /\ stmt.op = "error"
     /\ Repeats(stmt.rows) \/ \E k \in KeysOf(stmt.rows) : view[<<0, k>>] # NoRow
  \/ stmt.op = "update" /\ backend = "postgres" /\ Repeats(stmt.rows)
  \/ /\ stmt.op = "script"
     /\ view[stmt.item] > 0 /\ (stmt.item[2] = 0 \/ stmt.item \notin Rerunnable)

\* The items a statement changes.
Touched(view, stmt) ==
  CASE stmt.op \in {"error", "update"} -> {0} \X KeysOf(stmt.rows)
    [] stmt.op = "ignore" -> {i \in {0} \X KeysOf(stmt.rows) : view[i] = NoRow}
    [] stmt.op = "delete" -> {i \in {0} \X stmt.keys : view[i] # NoRow}
    [] stmt.op = "script" -> {stmt.item}
    [] OTHER -> {}

Result(view, stmt, item) ==
  LET cell(i) == Store(backend, stmt.rows[i].value) IN
  CASE stmt.op \in {"error", "update"} -> cell(Latest(Occurrences(stmt.rows, item[2])))
    [] stmt.op = "ignore" -> cell(Earliest(Occurrences(stmt.rows, item[2])))
    [] stmt.op = "delete" -> NoRow
    [] stmt.op = "script" -> view[item] + 1

\* Writing::Concurrent, honoured by MVCC alone.
Concurrent(c) == backend = "mvcc" /\ c = "flush"

\* A statement that is a transaction of its own: a filtered write through sqlx, and every
\* statement of a script on SQLite.
Alone(c) ==
  \/ c = "delete" /\ backend \in {"sqlite", "postgres"}
  \/ c \in {"clear", "cli", "engine"} /\ backend = "sqlite"

View(c) ==
  LET s == session[c]
      base == IF Concurrent(c) THEN s.snap ELSE db
  IN [i \in Item |-> IF i \in DOMAIN s.own THEN s.own[i] ELSE base[i]]

\* Whether a statement has to wait for another client's transaction.
Blocked(c, stmt) ==
  \E d \in Client \ {c} :
    CASE backend = "postgres" -> Touched(View(c), stmt) \cap DOMAIN session[d].own # {}
      [] OTHER -> session[d].wrote /\ ~(Concurrent(c) /\ Concurrent(d))
-----------------------------------------------------------------------------
DatabaseInit ==
  /\ backend \in Backend
  /\ active \in Scenarios
  /\ file \in IF "load" \in active THEN Files ELSE {<<>>}
  /\ mode \in IF "load" \in active THEN Modes ELSE {"error"}
  /\ buffer \in IF "flush" \in active THEN Buffers ELSE {<<>>}
  /\ \E ran \in {{}, {1}, Known, Known \cup {Unknown}} :
       /\ active \cap {"cli", "engine"} = {} => ran \in {{}, Known}
       /\ "flush" \in active => ran = Known
       /\ created \in (IF ran = {} THEN BOOLEAN ELSE {TRUE})
       /\ db = [i \in Item |-> IF i[1] = 0 THEN NoRow ELSE IF i[1] \in ran THEN 1 ELSE 0]
  /\ started = {}
  /\ session = [c \in Client |-> Rest]
  /\ dump = [pc |-> "rest", to |-> "table", rows |-> <<>>, whole |-> <<>>, heading |-> FALSE,
             held |-> <<>>, out |-> <<>>, opened |-> FALSE, broke |-> FALSE,
             lost |-> FALSE, outcome |-> "none"]
  /\ log = <<>>
  /\ exported = {}
  /\ faults = 0

Becomes(c, s) == session' = [session EXCEPT ![c] = s]
At(c, pc) == c \in active /\ session[c].pc = pc
Fault == faults < MaxFault /\ faults' = faults + 1

\* The transaction is over without effect: what a client does about it.
FailedState(c) ==
  [Rest EXCEPT !.pc = IF c = "flush" THEN "rest" ELSE "done", !.outcome = "failed"]

Failed(c) == Becomes(c, FailedState(c))
-----------------------------------------------------------------------------
(* The operations up to their first statement.                             *)

\* applied_ids
Applied == {m \in Known \cup {Unknown} : db[<<m, 0>>] > 0}

\* unknown_ids
UnknownIds == Applied \ Known

\* dump::run for a load: the file is opened and walked as it is written.
StartLoad ==
  /\ At("load", "rest")
  /\ Becomes("load", [Rest EXCEPT !.pc = "ready", !.todo = Batches(file, mode)])
  /\ UNCHANGED <<given, created, started, db, dump, log, exported, faults>>

\* RecordWriter::upsert, again after a failure: the buffer above kept the records.
StartFlush ==
  /\ At("flush", "rest") /\ buffer # <<>>
  /\ Becomes("flush", [Rest EXCEPT !.pc = "ready", !.todo = Upserts(buffer)])
  /\ UNCHANGED <<given, created, started, db, dump, log, exported, faults>>

\* dump::run for a filtered delete: the count is read, then the answer is waited for.
AskDelete ==
  /\ At("delete", "rest")
  /\ Becomes("delete", [Rest EXCEPT !.pc = "asked", !.todo = <<DeleteOf(Key)>>])
  /\ UNCHANGED <<given, created, started, db, dump, log, exported, faults>>

\* initialized: some table of the schema is there.
Initialized == \E i \in Item : i[1] # 0 /\ db[i] > 0

\* run_clear: refused on a schema that is not there or not current.
AskClear ==
  /\ At("clear", "rest")
  /\ IF Initialized /\ Applied = Known
     THEN Becomes("clear", [Rest EXCEPT !.pc = "asked", !.todo = ClearScript])
     ELSE Becomes("clear", [Rest EXCEPT !.pc = "done", !.outcome = "failed"])
  /\ UNCHANGED <<given, created, started, db, dump, log, exported, faults>>

\* run_migrate: unknown migrations are refused, with nothing pending there is nothing to ask.
AskMigrate ==
  /\ At("cli", "rest")
  /\ CASE UnknownIds # {} ->
            Becomes("cli", [Rest EXCEPT !.pc = "done", !.outcome = "failed"])
       [] Applied = Known ->
            Becomes("cli", [Rest EXCEPT !.pc = "done", !.outcome = "done"])
       [] OTHER -> Becomes("cli", [Rest EXCEPT !.pc = "asked"])
  /\ UNCHANGED <<given, created, started, db, dump, log, exported, faults>>

\* dump's confirmed: yes; or no, and no terminal to ask at.
ConfirmDelete ==
  /\ At("delete", "asked")
  /\ \/ Becomes("delete", [session["delete"] EXCEPT !.pc = "ready"])
     \/ Failed("delete")
  /\ UNCHANGED <<given, created, started, db, dump, log, exported, faults>>

\* database's confirmed: yes, or no.
Answer(c) ==
  /\ c \in {"clear", "cli"}
  /\ At(c, "asked")
  /\ \/ Becomes(c, [session[c] EXCEPT !.pc = IF c = "cli" THEN "scan" ELSE "ready"])
     \/ Failed(c)
  /\ UNCHANGED <<given, created, started, db, dump, log, exported, faults>>

PendingOf(applied) == Known \ applied

\* migrate: what is recorded is read again, and what is pending is decided once.
Scan(c) ==
  /\ c \in {"cli", "engine"}
  /\ At(c, "scan") \/ (c = "engine" /\ At(c, "rest"))
  /\ Becomes(c, [Rest EXCEPT !.pc = "next", !.pending = PendingOf(Applied)])
  /\ UNCHANGED <<given, created, started, db, dump, log, exported, faults>>

\* migrate: the pending ones in their order, each in a transaction of its own.
NextMigration(c) ==
  /\ At(c, "next")
  /\ LET m == Min(session[c].pending) IN
     IF session[c].pending = {}
     THEN Becomes(c, [Rest EXCEPT !.pc = "done", !.outcome = "done"])
     ELSE Becomes(c, [session[c] EXCEPT !.pc = "ready", !.todo = Script(m),
                                        !.pending = @ \ {m}])
  /\ UNCHANGED <<given, created, started, db, dump, log, exported, faults>>

\* PyReporter: the engine's reporter raises before a migration starts or behind one that
\* landed, and the run ends there.
ReporterRaises ==
  /\ At("engine", "next")
  /\ Fault /\ Failed("engine")
  /\ UNCHANGED <<given, created, started, db, dump, log, exported>>
-----------------------------------------------------------------------------
(* The transaction.                                                        *)

Collected == backend \in {"turso", "mvcc"}

\* The statements of `init` are the store's to run, not the engine's writer's.
Initialises(c) == c # "flush"

\* open_writable: the commands that may create the file.
Creates(c) == c \in {"cli", "engine", "clear"}

\* open_store and existing: a command that reads or changes rows wants the file there.
OpenStore(c) == backend = "postgres" \/ created \/ Creates(c)

\* connection: the `init` statements, run once by whichever connection opens first.
Started(c) == IF Initialises(c) THEN started \cup {c} ELSE started

\* lifecycle and connection: `init` runs on the first connection to open, and again on the
\* next when it failed; then `connect`.
Connect(c) ==
  /\ At(c, "ready")
  /\ \/ ~OpenStore(c) /\ Failed(c) /\ UNCHANGED <<created, started, faults>>
     \/ /\ OpenStore(c) /\ created' = TRUE
        /\ \/ /\ started' = Started(c)
              /\ Becomes(c, [session[c] EXCEPT !.pc = "connected"])
              /\ UNCHANGED faults
           \/ Initialises(c) /\ c \notin started /\ Fault /\ Failed(c) /\ UNCHANGED started
           \/ /\ started' = Started(c)
              /\ Fault /\ Failed(c)
  /\ UNCHANGED <<given, db, dump, log, exported>>

\* begin.  Turso's insert_all renders every batch before it opens the transaction.
Begin(c) ==
  /\ At(c, "connected")
  /\ IF Collected /\ \E i \in DOMAIN session[c].todo : session[c].todo[i] = RefusedRow
     THEN Failed(c)
     ELSE Becomes(c, [session[c] EXCEPT !.pc = "open", !.snap = IF Concurrent(c) THEN db
                                                               ELSE <<>>])
  /\ UNCHANGED <<given, created, started, db, dump, log, exported, faults>>

\* What an operation is to do as its caller means it: a load has the whole file.
EntryOf(c) ==
  CASE c = "load" -> InsertOf(mode, file)
    [] c = "flush" -> InsertOf("update", buffer)
    [] OTHER -> DeleteOf(Key)

\* Other transactions find out at their commit.
Noticed(sessions, c, items) ==
  [d \in Client |-> IF d # c /\ Concurrent(d) /\ sessions[d].pc = "open"
                    THEN [sessions[d] EXCEPT !.stale = @ \cup items] ELSE sessions[d]]

After(c) ==
  CASE c \in {"cli", "engine"} ->
         [Rest EXCEPT !.pc = "next", !.pending = session[c].pending]
    [] c = "load" -> [Rest EXCEPT !.pc = "export", !.outcome = "done",
                                  !.spans = session[c].spans]
    [] OTHER -> [Rest EXCEPT !.pc = "done", !.outcome = "done"]

\* LoadedSpans::cover: the spans widen with every batch as it is pulled.
Cover(c, stmt) ==
  IF c = "load" /\ stmt # RefusedRow THEN session[c].spans \cup KeysOf(stmt.rows)
  ELSE session[c].spans

\* insert_all: inside the transaction, to be seen by nobody else yet.
Inserted(c, stmt) ==
  LET view == View(c)
      touched == Touched(view, stmt)
      own == session[c].own
  IN Becomes(c, [session[c] EXCEPT
       !.todo = Tail(@), !.wrote = TRUE, !.spans = Cover(c, stmt),
       !.own = [i \in DOMAIN own \cup touched |->
                 IF i \in touched THEN Result(view, stmt, i) ELSE own[i]]])

\* execute_script and execute_write: one statement, which may fail and take all with it.
Execute(c) ==
  /\ At(c, "open") /\ session[c].todo # <<>>
  /\ LET stmt == Head(session[c].todo)
         view == View(c)
         touched == Touched(view, stmt)
     IN /\ ~Blocked(c, stmt)
        /\ IF Fails(view, stmt) THEN /\ Failed(c)
                                     /\ UNCHANGED <<db, log>>
           ELSE IF Alone(c)
           THEN /\ db' = [i \in Item |-> IF i \in touched THEN Result(view, stmt, i)
                                         ELSE db[i]]
                /\ session' = [session EXCEPT ![c].todo = Tail(@)]
                /\ log' = IF stmt.op = "delete" THEN Append(log, stmt) ELSE log
           ELSE Inserted(c, stmt) /\ UNCHANGED <<db, log>>
  /\ UNCHANGED <<given, created, started, dump, exported, faults>>

Merge(own) == [i \in Item |-> IF i \in DOMAIN own THEN own[i] ELSE db[i]]

Committed(c, after) ==
  /\ db' = Merge(session[c].own)
  /\ session' = Noticed([session EXCEPT ![c] = after], c, DOMAIN session[c].own)
  /\ log' = IF c \in {"cli", "engine"} \/ Alone(c) THEN log ELSE Append(log, EntryOf(c))

\* settle: COMMIT, which MVCC refuses when another transaction changed the same rows.
Commit(c) ==
  /\ At(c, "open") /\ session[c].todo = <<>>
  /\ IF DOMAIN session[c].own \cap session[c].stale # {}
     THEN Failed(c) /\ UNCHANGED <<db, log>>
     ELSE Committed(c, After(c))
  /\ UNCHANGED <<given, created, started, dump, exported, faults>>

\* using: a `close` statement that fails behind the commit is the operation's failure.
CommitUnreported(c) ==
  /\ At(c, "open") /\ session[c].todo = <<>> /\ Collected
  /\ DOMAIN session[c].own \cap session[c].stale = {}
  /\ Fault
  /\ Committed(c, FailedState(c))
  /\ UNCHANGED <<given, created, started, dump, exported>>

\* A wait ends with an error: SQLite's busy timeout, PostgreSQL's deadlock victim.
TimeOut(c) ==
  /\ At(c, "open") /\ session[c].todo # <<>>
  /\ Blocked(c, Head(session[c].todo))
  /\ Fault /\ Failed(c)
  /\ UNCHANGED <<given, created, started, db, dump, log, exported>>

\* The process dies: its transaction is rolled back by the engine.
Crash(c) ==
  /\ c \in active /\ session[c].pc \notin {"rest", "done"}
  /\ Fault
  /\ Becomes(c, [Rest EXCEPT !.pc = "done", !.outcome = "crashed"])
  /\ UNCHANGED <<given, created, started, db, dump, log, exported>>

\* The migration is run again.
Again(c) ==
  /\ c \in {"cli", "engine"}
  /\ At(c, "done") /\ session[c].outcome \in {"crashed", "failed"}
  /\ Fault /\ Becomes(c, Rest)
  /\ UNCHANGED <<given, created, started, db, dump, log, exported>>

\* LoadedSpans::entries: from the first to the last time of what was covered.
Entries(covered) == {k \in Key : \E a, b \in covered : a <= k /\ k <= b}

\* export_loaded, after the commit.
Export ==
  /\ At("load", "export")
  /\ exported' = Entries(session["load"].spans)
  /\ Becomes("load", [Rest EXCEPT !.pc = "done", !.outcome = "done"])
  /\ UNCHANGED <<given, created, started, db, dump, log, faults>>
-----------------------------------------------------------------------------
(* A select and its sink.                                                  *)

Lines(rows, heading) == (IF heading THEN <<"head">> ELSE <<>>) \o rows

\* Sink::new, ::collecting: the statement's rows are the ones committed when it starts.
StartSelect(to, header) ==
  /\ "select" \in active /\ dump.pc = "rest" /\ created
  /\ LET keys == Ordered({k \in Key : db[<<0, k>>] # NoRow}) IN
     dump' = [dump EXCEPT !.pc = "stream", !.to = to, !.heading = header,
                          !.rows = keys, !.whole = Lines(keys, header)]
  /\ UNCHANGED <<given, created, started, db, session, log, exported, faults>>

Resolved(d, outcome) == [d EXCEPT !.pc = "done", !.outcome = outcome]

\* Sink::write: written, failing, or the reader of a pipe gone.
Written(d, lines, next) ==
  \/ dump' = [next EXCEPT !.out = d.out \o lines, !.opened = TRUE] /\ UNCHANGED faults
  \/ Fault /\ dump' = Resolved(d, "failed")
  \/ Fault /\ dump' = Resolved([d EXCEPT !.opened = TRUE], "failed")
  \/ d.to = "pipe" /\ Fault /\ dump' = Resolved([d EXCEPT !.opened = TRUE, !.broke = TRUE], "ok")

\* Sink::push: a chunk waits for the next one, or for the end when a table is drawn.
Push(d, lines, next) ==
  IF d.to = "table" THEN dump' = [next EXCEPT !.held = @ \o lines] /\ UNCHANGED faults
  ELSE IF d.held = <<>> /\ ~d.opened
    THEN dump' = [next EXCEPT !.held = lines] /\ UNCHANGED faults
  ELSE Written(d, d.held, [next EXCEPT !.held = lines])

\* drain: a chunk when it is full, and what is left, which for no row at all is empty.
Chunk ==
  /\ dump.pc = "stream"
  /\ LET n == IF Len(dump.rows) < CHUNK THEN Len(dump.rows) ELSE CHUNK
         lines == Lines(SubSeq(dump.rows, 1, n), dump.heading)
         rest == SubSeq(dump.rows, n + 1, Len(dump.rows))
         next == [dump EXCEPT !.rows = rest, !.heading = FALSE,
                              !.pc = IF rest = <<>> THEN "resolve" ELSE "stream"]
     IN \/ Push(dump, lines, next)
        \/ Fault /\ dump' = Resolved(dump, IF dump.opened THEN "failed" ELSE "refused")
  /\ UNCHANGED <<given, created, started, db, session, log, exported>>

ResolveUnfinished ==
  /\ dump.pc = "resolve"
  /\ dump' = IF dump.opened THEN Resolved([dump EXCEPT !.held = <<>>], "ok")
             ELSE [dump EXCEPT !.pc = "deliver"]
  /\ UNCHANGED <<given, created, started, db, session, log, exported, faults>>

\* Sink::resolve and ::finish: what is held goes out behind what was written, or is
\* delivered whole.
Resolve ==
  /\ dump.pc = "resolve"
  /\ IF dump.opened THEN Written(dump, dump.held, Resolved([dump EXCEPT !.held = <<>>], "ok"))
     ELSE dump' = [dump EXCEPT !.pc = "deliver"] /\ UNCHANGED faults
  /\ UNCHANGED <<given, created, started, db, session, log, exported>>

\* deliver and write_output: a failing standard output goes unreported.
Deliver ==
  /\ dump.pc = "deliver"
  /\ \/ /\ dump' = Resolved([dump EXCEPT !.out = dump.held, !.opened = TRUE], "ok")
        /\ UNCHANGED faults
     \/ /\ Fault
        /\ dump' = Resolved([dump EXCEPT !.opened = TRUE, !.lost = dump.to # "file"],
                            IF dump.to = "file" THEN "failed" ELSE "ok")
  /\ UNCHANGED <<given, created, started, db, session, log, exported>>
-----------------------------------------------------------------------------
DatabaseNext ==
  \/ StartLoad \/ StartFlush \/ AskDelete \/ ConfirmDelete \/ AskClear \/ AskMigrate
  \/ ReporterRaises \/ Export
  \/ \E c \in Client :
       Answer(c) \/ Scan(c) \/ NextMigration(c) \/ Connect(c) \/ Begin(c)
         \/ Execute(c) \/ Commit(c) \/ CommitUnreported(c) \/ TimeOut(c) \/ Crash(c) \/ Again(c)
  \/ \E to \in {"table", "file", "pipe"}, header \in BOOLEAN : StartSelect(to, header)
  \/ Chunk \/ Resolve \/ Deliver

DatabaseSpec == DatabaseInit /\ [][DatabaseNext]_databaseVars
-----------------------------------------------------------------------------
(* What one caller's input means, one row at a time.                       *)

NoValue == [family |-> "none", form |-> "none"]

PutRow(entry, table, row) ==
  IF entry.op = "ignore" /\ table[row.key] # NoValue THEN table
  ELSE [table EXCEPT ![row.key] = row.value]

Play(table, entry) ==
  IF entry.op = "delete"
  THEN [k \in Key |-> IF k \in entry.keys THEN NoValue ELSE table[k]]
  ELSE FoldLeft(LAMBDA t, row : PutRow(entry, t, row), table, entry.rows)

Meant == FoldLeft(Play, [k \in Key |-> NoValue], log)

\* A value that a load or the SQLite family does not keep: see Lossy, and a string in a
\* JSON column that a load parses again.
Unkept(v) == Lossy(backend, v) \/ (v.family = "value" /\ v.form = "quoted")
               \/ Apply(v) # v

Same(v, cell) ==
  IF v = NoValue THEN cell = NoRow
  ELSE /\ cell # NoRow
       /\ Unkept(v) \/ Field(backend, v.family, cell) = v

\* PostgreSQL's statements see what is committed when each of them runs: an ignored row
\* may be deleted before the load commits, and a row may be committed behind the statement
\* of a clear that has yet to commit.
Skipped ==
  /\ backend = "postgres" /\ (mode = "ignore" \/ "clear" \in active)
  /\ \E i \in DOMAIN log : log[i].op = "delete"

\* A load of a JSON file with a line that is not readable lands without that line and what
\* is behind it (Delivered), although a load "lands whole or not at all" (load.rs:148).
Truncated ==
  \E i \in DOMAIN log : log[i].op # "delete" /\ \E j \in DOMAIN log[i].rows :
                                                    log[i].rows[j] = Unreadable

\* The table is what the committed operations mean one row at a time, in the order of
\* their commits and whole: batches, duplicates, conflict modes, refused rows, refused
\* commits, lost races and time-outs make no difference.  Excepted are a load cut short by
\* an unreadable line and the cases of Skipped.
OneByOne == ~Skipped /\ ~Truncated => \A k \in Key : Same(Meant[k], db[<<0, k>>])

\* A migration is recorded only when every statement of it took effect.  Where a script is
\* one transaction it took effect once, and none of it shows before the record does.
MigratedOnce ==
  \A m \in Known :
    IF backend = "sqlite"
    THEN db[<<m, 0>>] = 1 => \A i \in 1..Steps : db[<<m, i>>] > 0
    ELSE \A i \in 1..Steps : db[<<m, i>>] = db[<<m, 0>>]

\* A select that reports success wrote the whole result, unless its reader went away
\* (`broke`) or writing to standard output failed, which write_output ignores (dump.rs:862,
\* `lost`); one that refuses has written nothing; what is written is always a prefix.
DumpWhole ==
  /\ Len(dump.out) <= Len(dump.whole)
  /\ dump.out = SubSeq(dump.whole, 1, Len(dump.out))
  /\ dump.outcome = "ok" => dump.out = dump.whole \/ dump.broke \/ dump.lost
  /\ dump.outcome = "refused" => ~dump.opened /\ dump.out = <<>>
=============================================================================
