------------------------------ MODULE Exporter ------------------------------
(***************************************************************************)
(* One exporter of a component (ceres/exporter.py): the live loop, which   *)
(* appends what the writer stores to the file of its period, the runs,     *)
(* which rewrite files from the database, the lock they share, and a       *)
(* pruner.  The component stops, the process crashes and writes fail       *)
(* part-way.  What the database is asked for, and the clock, are read at   *)
(* different times, since every query is awaited.                          *)
(*                                                                         *)
(* A record is its key, and its timestamp; a file is the sequence of the   *)
(* keys it holds, with Torn for a record cut short (what is appended to a  *)
(* torn line shares the line with it).  The writers are of three kinds:    *)
(* "lines" (csv, jsonl: appendable, and its last key can be read back),    *)
(* "raw" (appendable, without keys) and "whole" (netcdf).                  *)
(***************************************************************************)
EXTENDS Integers, SequencesExt

CONSTANTS
  MaxKey,       \* the newest key
  Width,        \* the keys of a period
  Configs,      \* the writer and the period ("fixed": hour, day or month; "all") there may be
  StartChecks,  \* _START_CHECKS
  MaxFile,      \* bound: the length a file cut short may have
  Run,          \* the runs there may be at a time, at most _PENDING_RUNS
  Requests,     \* what runs are asked for: on_conflict, range_mode, after, before
  Unflushed,    \* bound: the keys that may be stored past the writer
  Filters       \* the filters of the pruners: sets of keys

Key == 0..MaxKey

ASSUME ExporterAssumption ==
  /\ MaxKey \in Nat /\ Width \in Nat \ {0} /\ StartChecks \in Nat \ {0}
  /\ Configs \subseteq {"lines", "raw", "whole"} \X {"fixed", "all"}
  /\ "live" \notin Run
  /\ Unflushed \subseteq Key /\ Filters \subseteq SUBSET Key
  /\ Requests \subseteq [on: {"error", "skip", "purge", "overwrite"},
                         mode: {"exact", "expand", "shrink"}, after: Int, before: Int]

VARIABLES
  kind, period,  \* the configuration
  now,           \* the clock
  stored,        \* the keys in the database
  past,          \* every key that ever was
  file,          \* the files that exist, by the start of their period
  loop,          \* where __live_loop is: down, top, look, history, check or write
  live,          \* its _Live
  at,            \* the locals of __check_start and __write_live
  lock,          \* the lock: its holder, then who waits
  run,           \* the runs
  heard,         \* the keys this _Live has been notified of
  covered,       \* the keys its last check at start was for
  cut,           \* periods whose file a run wrote from part of its time
  marred,        \* history: files appended to behind a stale key, or with no end to read
  exposed        \* history: pruned keys that no rewriting of their file allows for

configVars == <<kind, period>>
ghostVars == <<heard, covered, cut, marred, exposed>>
exporterVars == <<kind, period, now, stored, past, file, loop, live, at, lock, run, ghostVars>>

Torn == -1     \* part of a record
NoKey == -1    \* None, for the last key of a file without one
Beginning == -1
End == MaxKey + Width
-----------------------------------------------------------------------------
\* Dictionaries.
Put(d, k, v) == [x \in DOMAIN d \cup {k} |-> IF x = k THEN v ELSE d[x]]
Drop(d, k) == Restrict(d, DOMAIN d \ {k})

\* The members of S in order: each at the place the members up to it count.
Sorted(S) ==
  [i \in 1..Cardinality(S) |-> CHOOSE k \in S : Cardinality({j \in S : j <= k}) = i]
Keys(p) == IF p \in DOMAIN file THEN Range(file[p]) \ {Torn} ELSE {}

period_start(k) == IF period = "all" THEN 0 ELSE (k \div Width) * Width

\* The bounds of the file of a period, open for "all"; a run compares them as well.
Bounds(p) == IF period = "all" THEN <<Beginning, End>> ELSE <<p, p + Width>>

\* __query: the stored keys in [after, before).
Query(after, before) == {k \in stored : after <= k /\ k < before}

\* __history: the oldest stored key, End for none.
History == IF stored = {} THEN End ELSE Min(stored)

before_history(p, history) == period = "all" \/ (history # End /\ p < history)

\* notify and restore: each period has the range of its keys.
Widen(ranges, p, first, last) ==
  Put(ranges, p, IF p \in DOMAIN ranges
                 THEN <<Min({ranges[p][1], first}), Max({ranges[p][2], last})>>
                 ELSE <<first, last>>)

NotifyNewest(l, k) == [l EXCEPT !.pending = Put(@, period_start(k), <<k, k>>)]

notify(l, k) == [l EXCEPT !.pending = Widen(@, period_start(k), k, k)]

restore(l) ==
  [l EXCEPT !.working = <<>>,
            !.pending = [p \in DOMAIN l.pending \cup DOMAIN l.working |->
              IF p \notin DOMAIN l.working THEN l.pending[p]
              ELSE Widen(l.pending, p, l.working[p][1], l.working[p][2])[p]]]

NewLive == [checked |-> FALSE, pending |-> <<>>, working |-> <<>>, last |-> <<>>,
            late |-> {}, owned |-> {}]
NoLocals == [todo |-> <<>>, written |-> {}, started |-> 0, history |-> End, known |-> FALSE,
             rows |-> <<>>, how |-> "append"]
NoRun == [state |-> "none", on |-> "skip", files |-> <<>>, history |-> End, rows |-> <<>>]

\* tail: the file without a torn last record, and its last key.
Mended(p) == IF file[p] # <<>> /\ Last(file[p]) = Torn THEN Front(file[p]) ELSE file[p]
LastKey(p) ==
  IF p \notin DOMAIN file \/ Mended(p) = <<>> THEN NoKey ELSE Last(Mended(p))

Content(p) == IF p \in DOMAIN file THEN file[p] ELSE <<>>

\* append, when it stops before its end: nothing, or a prefix that may be torn.
Interrupted(p, rows) ==
  LET left == {SubSeq(rows, 1, i) \o rest : i \in 0..Len(rows), rest \in {<<>>, <<Torn>>}}
  IN  {file} \cup {Put(file, p, Content(p) \o s) :
                      s \in {s \in left : Len(Content(p)) + Len(s) <= MaxFile}}
-----------------------------------------------------------------------------
ExporterInit ==
  /\ \E c \in Configs : kind = c[1] /\ period = c[2]
  /\ now = 0
  /\ stored = {}
  /\ past = {}
  /\ file = <<>>
  /\ loop = "down"
  /\ live = NewLive
  /\ at = NoLocals
  /\ lock = <<>>
  /\ run = [r \in Run |-> NoRun]
  /\ heard = {}
  /\ covered = {}
  /\ cut = {}
  /\ marred = {}
  /\ exposed = {}

ClockTick ==
  /\ now < End
  /\ now' = now + 1
  /\ UNCHANGED <<configVars, stored, past, file, loop, live, at, lock, run, ghostVars>>

\* A record is stored, in any order.  __flushed tells a live exporter of what the writer
\* has stored; nobody tells it of a record stored another way.
Store(k, flushed) ==
  /\ k \notin past
  /\ k < now
  /\ stored' = stored \cup {k}
  /\ past' = past \cup {k}
  /\ live' = IF loop = "down" \/ ~flushed THEN live ELSE notify(live, k)
  /\ heard' = IF loop = "down" \/ ~flushed THEN heard ELSE heard \cup {k}
  /\ exposed' = exposed \cup {j \in past \ stored : k <= period_start(j)}
  /\ UNCHANGED <<configVars, now, file, loop, at, lock, run, covered, cut, marred>>

\* A pruner deletes what its filter matches, and waits for nobody.
AtWork == loop \in {"check", "write"} \/ \E r \in Run : run[r].state = "runs"

Prune(filter) ==
  LET S == stored \cap filter IN
  /\ S # {}
  /\ stored' = stored \ S
  /\ exposed' = IF S = stored THEN past
                ELSE exposed \cup
                     {k \in S : \/ AtWork \/ period_start(k) \in live.owned
                                \/ \E j \in stored \ S : j <= period_start(k)}
  /\ UNCHANGED <<configVars, now, past, file, loop, live, at, lock, run, heard, covered, cut, marred>>
-----------------------------------------------------------------------------
\* __run__ subscribes to the writer and starts the live loop.
LiveStart ==
  /\ loop = "down"
  /\ loop' = "top"
  /\ live' = NewLive
  /\ UNCHANGED <<configVars, now, stored, past, file, at, lock, run, ghostVars>>

\* The live loop is cancelled at an await; an append may be part-way.
Cancelled ==
  file' \in IF at.rows # <<>> /\ at.how = "append" THEN Interrupted(Head(at.todo), at.rows)
             ELSE {file}

\* __run__ ends and cancels the loop and the runs, or the process crashes.
Down ==
  /\ loop # "down" \/ lock # <<>>
  /\ Cancelled
  /\ loop' = "down"
  /\ live' = NewLive
  /\ at' = NoLocals
  /\ lock' = <<>>
  /\ run' = [r \in Run |-> NoRun]
  /\ heard' = {}
  /\ covered' = {}
  /\ UNCHANGED <<configVars, now, stored, past, cut, marred, exposed>>

\* remove, or add under the same name: the loop is cancelled, its runs go on.
Replace ==
  /\ loop # "down"
  /\ Cancelled
  /\ loop' \in {"down", "top"}
  /\ live' = NewLive
  /\ at' = NoLocals
  /\ lock' = RemoveFirst(lock, "live")
  /\ heard' = {}
  /\ covered' = {}
  /\ UNCHANGED <<configVars, now, stored, past, run, cut, marred, exposed>>
-----------------------------------------------------------------------------
Holds(x) == lock # <<>> /\ Head(lock) = x

\* The periods a start checks: back to the previous one and that of the newest record.
Starts ==
  LET current == period_start(at.started)
      first == Min({current - Width} \cup (IF stored = {} THEN {} ELSE {period_start(Max(stored))}))
      all == Sorted({p \in {period_start(k) : k \in 0..at.started} : first <= p})
  IN  IF period = "all" THEN <<current>>
      ELSE SubSeq(all, Max({1, Len(all) - StartChecks + 1}), Len(all))

\* One wake of the loop: __check_start until it has succeeded.  It reads the clock, ...
CheckBegin ==
  /\ loop = "top" /\ ~live.checked
  /\ loop' = "look"
  /\ at' = [NoLocals EXCEPT !.started = now]
  /\ UNCHANGED <<configVars, now, stored, past, file, live, lock, run, ghostVars>>

\* ... the newest record, ...
CheckNewest ==
  /\ loop = "look"
  /\ loop' = "history"
  /\ at' = [at EXCEPT !.todo = Starts]
  /\ covered' = {k \in stored : period_start(k) \in Range(Starts) /\ k < at.started}
  /\ UNCHANGED <<configVars, now, stored, past, file, live, lock, run, heard, cut, marred, exposed>>

\* ... and the oldest, and then asks for the lock ...
CheckHistory ==
  /\ loop = "history"
  /\ loop' = "check"
  /\ at' = [at EXCEPT !.history = History]
  /\ lock' = Append(lock, "live")
  /\ UNCHANGED <<configVars, now, stored, past, file, live, run, ghostVars>>

\* ... and __write_live of what has been notified.
WriteBegin ==
  /\ loop = "top" /\ live.checked /\ live.pending # <<>>
  /\ loop' = "write"
  /\ live' = [live EXCEPT !.working = live.pending, !.pending = <<>>]
  /\ at' = [NoLocals EXCEPT !.todo = Sorted(DOMAIN live.pending), !.written = DOMAIN live.pending]
  /\ lock' = Append(lock, "live")
  /\ UNCHANGED <<configVars, now, stored, past, file, run, ghostVars>>

\* The loop, with the lock, comes to the period p.
Turn(what, p) ==
  /\ loop = what
  /\ Holds("live")
  /\ at.rows = <<>> /\ at.todo # <<>> /\ p = Head(at.todo)

\* The rows found for p are to be written; without any, p is done with.
Rows(p, rows, how) ==
  at' = IF rows = <<>> THEN [at EXCEPT !.todo = Tail(@), !.known = FALSE]
        ELSE [at EXCEPT !.rows = rows, !.how = how, !.known = FALSE]

PeriodDone(l, p) == IF loop = "write" THEN [l EXCEPT !.working = Drop(@, p)] ELSE l

\* __check_start, the period p.
CheckMissing(p) ==
  /\ Turn("check", p)
  /\ p \notin DOMAIN file
  /\ live' = [live EXCEPT !.owned = @ \cup {p}]
  /\ Rows(p, Sorted(Query(Bounds(p)[1], Min({Bounds(p)[2], at.started}))), "whole")
  /\ UNCHANGED <<configVars, now, stored, past, file, loop, lock, run, ghostVars>>

\* __resume, after __last_key has cut off a torn record.
CheckResume(p) ==
  /\ Turn("check", p)
  /\ p \in DOMAIN file /\ kind = "lines"
  /\ file' = Put(file, p, Mended(p))
  /\ live' = [live EXCEPT !.last = Put(@, p, LastKey(p))]
  /\ Rows(p, Sorted({k \in Query(Bounds(p)[1], Min({Bounds(p)[2], at.started})) : k > LastKey(p)}),
           "append")
  /\ UNCHANGED <<configVars, now, stored, past, loop, lock, run, ghostVars>>

\* __resume of a file with another header or a line without a key: it is left as it is.
CheckUnreadable(p) ==
  /\ Turn("check", p)
  /\ p \in DOMAIN file /\ kind = "lines"
  /\ at' = [at EXCEPT !.todo = Tail(@)]
  /\ marred' = marred \cup {p}
  /\ UNCHANGED <<configVars, now, stored, past, file, loop, live, lock, run, heard, covered, cut, exposed>>

CheckRewrite(p) ==
  /\ Turn("check", p)
  /\ p \in DOMAIN file /\ kind = "whole" /\ ~before_history(p, at.history)
  /\ Rows(p, Sorted(Query(Bounds(p)[1], Min({Bounds(p)[2], at.started}))), "whole")
  /\ UNCHANGED <<configVars, now, stored, past, file, loop, live, lock, run, ghostVars>>

\* The query has no upper bound but the start: a newer period's record counts too.
CheckLate(p) ==
  /\ Turn("check", p)
  /\ p \in DOMAIN file
  /\ kind = "raw" \/ (kind = "whole" /\ before_history(p, at.history))
  /\ live' = IF Query(Bounds(p)[1], at.started) = {} THEN live
             ELSE [live EXCEPT !.late = @ \cup {p}]
  /\ at' = [at EXCEPT !.todo = Tail(@)]
  /\ UNCHANGED <<configVars, now, stored, past, file, loop, lock, run, ghostVars>>

CheckEnd ==
  /\ loop = "check" /\ Holds("live") /\ at.todo = <<>>
  /\ loop' = "top"
  /\ live' = [live EXCEPT !.checked = TRUE]
  /\ at' = NoLocals
  /\ lock' = Tail(lock)
  /\ UNCHANGED <<configVars, now, stored, past, file, run, ghostVars>>
-----------------------------------------------------------------------------
\* __write_period_live of a whole-file format: the oldest record is looked up first.
WriteHistory(p) ==
  /\ Turn("write", p)
  /\ kind = "whole" /\ ~at.known
  /\ at' = [at EXCEPT !.history = History, !.known = TRUE]
  /\ UNCHANGED <<configVars, now, stored, past, file, loop, live, lock, run, ghostVars>>

WriteWhole(p) ==
  /\ Turn("write", p)
  /\ kind = "whole" /\ at.known
  /\ LET rewrites == p \notin DOMAIN file \/ p \in live.owned \/ ~before_history(p, at.history)
         rows == IF rewrites THEN Sorted(Query(Bounds(p)[1], Bounds(p)[2])) ELSE <<>>
         next == IF rewrites THEN [live EXCEPT !.owned = @ \cup {p}]
                 ELSE [live EXCEPT !.late = @ \cup {p}]
     IN  /\ live' = IF rows = <<>> THEN PeriodDone(next, p) ELSE next
         /\ Rows(p, rows, "whole")
  /\ UNCHANGED <<configVars, now, stored, past, file, loop, lock, run, ghostVars>>

\* The cached last key is not where the file ends.
Stale(p) ==
  /\ p \in DOMAIN live.last
  /\ live.last[p] # LastKey(p) \/ (p \in DOMAIN file /\ file[p] # Mended(p))

\* __write_period_live of an appendable format: of the keys notified, those after the
\* last one of the file, cached or read from it.
WriteAppend(p) ==
  /\ Turn("write", p)
  /\ kind # "whole"
  /\ LET found == Query(live.working[p][1], live.working[p][2] + 1)
         reads == kind = "lines" /\ found # {} /\ p \notin DOMAIN live.last
         previous == IF kind = "raw" THEN NoKey
                     ELSE IF p \in DOMAIN live.last THEN live.last[p] ELSE LastKey(p)
         rows == Sorted({k \in found : k > previous})
         next == IF found # {} /\ Min(found) <= previous THEN [live EXCEPT !.late = @ \cup {p}]
                 ELSE live
     IN  /\ file' = IF reads /\ p \in DOMAIN file THEN Put(file, p, Mended(p)) ELSE file
         /\ live' = IF rows = <<>> THEN PeriodDone(next, p) ELSE next
         /\ Rows(p, rows, "append")
  /\ marred' = IF kind = "lines" /\ Stale(p) THEN marred \cup {p} ELSE marred
  /\ UNCHANGED <<configVars, now, stored, past, loop, lock, run, heard, covered, cut, exposed>>

\* Only the periods this wake wrote and the current one keep what is known of them.
WriteEnd ==
  /\ loop = "write" /\ Holds("live") /\ at.todo = <<>>
  /\ loop' = "top"
  /\ LET kept == at.written \cup {period_start(now)}
     IN  live' = [live EXCEPT !.last = Restrict(@, DOMAIN @ \cap kept), !.owned = @ \cap kept]
  /\ at' = NoLocals
  /\ lock' = Tail(lock)
  /\ UNCHANGED <<configVars, now, stored, past, file, run, ghostVars>>

\* atomic_write or append ends.
Written(p) ==
  /\ at.rows # <<>> /\ p = Head(at.todo)
  /\ file' = Put(file, p, IF at.how = "whole" THEN at.rows ELSE Content(p) \o at.rows)
  /\ live' = IF at.how = "append" /\ kind = "lines"
             THEN [PeriodDone(live, p) EXCEPT !.last = Put(@, p, Last(at.rows))]
             ELSE PeriodDone(live, p)
  /\ cut' = IF at.how = "whole" THEN cut \ {p} ELSE cut
  /\ marred' = IF at.how = "whole" THEN marred \ {p} ELSE marred
  /\ at' = [at EXCEPT !.rows = <<>>, !.todo = Tail(@)]
  /\ UNCHANGED <<configVars, now, stored, past, loop, lock, run, heard, covered, exposed>>

\* A query or a write raises, what it appended stays, and the loop retries after the
\* interval.
Fails ==
  /\ loop \in {"look", "history"} \/ (loop \in {"check", "write"} /\ Holds("live"))
  /\ Cancelled
  /\ live' = restore(live)
  /\ loop' = "top"
  /\ at' = NoLocals
  /\ lock' = IF Holds("live") THEN Tail(lock) ELSE lock
  /\ UNCHANGED <<configVars, now, stored, past, run, ghostVars>>
-----------------------------------------------------------------------------
\* effective_span: the range of a run, <<>> for nothing.
effective_span(mode, after, before) ==
  LET first == period_start(after)
      last == period_start(before)
      start == IF first = after THEN first ELSE first + Width
  IN  CASE mode = "exact" -> <<after, before>>
        [] mode = "expand" -> IF period = "all" THEN Bounds(0)
                              ELSE <<first, IF last = before THEN last ELSE last + Width>>
        [] mode = "shrink" -> IF period # "all" /\ start < last THEN <<start, last>> ELSE <<>>

\* span_files: the starts of the files a span touches, and the part of each it selects.
span_files(span) ==
  IF span = <<>> THEN <<>>
  ELSE IF period = "all" THEN <<[start |-> 0, after |-> span[1], before |-> span[2]]>>
  ELSE LET starts == Sorted({period_start(k) : k \in span[1]..(span[2] - 1)})
       IN  [i \in DOMAIN starts |->
             [start |-> starts[i], after |-> Max({starts[i], span[1]}),
              before |-> Min({starts[i] + Width, span[2]})]]

DecideUnbounded(on, exists, records, partial, before) ==
  CASE ~exists -> IF records THEN "create" ELSE "none"
    [] exists /\ on = "error" -> "refuse"
    [] exists /\ on = "skip" -> "keep"
    [] exists /\ on = "purge" -> IF records THEN "overwrite" ELSE "remove"
    [] exists /\ on = "overwrite" -> IF ~records \/ partial THEN "keep" ELSE "overwrite"

\* decide: what a run does with one file.
decide(on, exists, records, partial, before) ==
  CASE ~exists -> IF records THEN "create" ELSE "none"
    [] exists /\ on = "error" -> "refuse"
    [] exists /\ on = "skip" -> "keep"
    [] exists /\ on = "purge" -> IF records THEN "overwrite" ELSE "remove"
    [] exists /\ on = "overwrite" -> IF ~records \/ partial \/ before THEN "keep" ELSE "overwrite"

\* start: the run's task waits for the lock.
RunStart(r, q) ==
  /\ run[r].state = "none"
  /\ LET files == span_files(effective_span(q.mode, q.after, q.before))
     IN  /\ q.on = "error" => \A i \in DOMAIN files : files[i].start \notin DOMAIN file
         /\ run' = [run EXCEPT ![r] = [NoRun EXCEPT !.state = "waits", !.on = q.on, !.files = files]]
  /\ lock' = Append(lock, r)
  /\ UNCHANGED <<configVars, now, stored, past, file, loop, live, at, ghostVars>>

RunBegin(r) ==
  /\ run[r].state = "waits" /\ Holds(r)
  /\ run' = [run EXCEPT ![r].state = "runs", ![r].history = History]
  /\ UNCHANGED <<configVars, now, stored, past, file, loop, live, at, lock, ghostVars>>

\* __forget: the file is the run's now.
forget(l, p) == [l EXCEPT !.last = Drop(@, p), !.late = @ \ {p}]

Partial(f) == <<f.after, f.before>> # Bounds(f.start)

\* The run ends, completed or failed.
RunOver(r) ==
  /\ run' = [run EXCEPT ![r] = NoRun]
  /\ lock' = Tail(lock)

\* __export_file: what to do with the next file, and the rows to write.
RunFile(r) ==
  /\ run[r].state = "runs" /\ run[r].rows = <<>> /\ run[r].files # <<>>
  /\ LET f == Head(run[r].files)
         rows == Sorted(Query(f.after, f.before))
         action == decide(run[r].on, f.start \in DOMAIN file, rows # <<>>, Partial(f),
                          before_history(f.start, run[r].history))
     IN  /\ IF action = "refuse" THEN RunOver(r)
            ELSE /\ run' = IF action \in {"create", "overwrite"}
                           THEN [run EXCEPT ![r].rows = rows]
                           ELSE [run EXCEPT ![r].files = Tail(@)]
                 /\ lock' = lock
         /\ file' = IF action = "remove" THEN Drop(file, f.start) ELSE file
         /\ live' = IF action \in {"remove", "none"} THEN forget(live, f.start) ELSE live
         /\ cut' = IF action = "remove" /\ Partial(f) THEN cut \cup {f.start} ELSE cut
         /\ marred' = IF action = "remove" THEN marred \ {f.start} ELSE marred
  /\ UNCHANGED <<configVars, now, stored, past, loop, at, heard, covered, exposed>>

RunWritten(r) ==
  /\ run[r].rows # <<>>
  /\ LET f == Head(run[r].files)
     IN  /\ file' = Put(file, f.start, run[r].rows)
         /\ live' = forget(live, f.start)
         /\ cut' = IF Partial(f) THEN cut \cup {f.start} ELSE cut \ {f.start}
         /\ marred' = marred \ {f.start}
  /\ run' = [run EXCEPT ![r].rows = <<>>, ![r].files = Tail(@)]
  /\ UNCHANGED <<configVars, now, stored, past, loop, at, lock, heard, covered, exposed>>

\* A query or a write raises: the temporary file is removed and the run fails.
RunFails(r) ==
  /\ run[r].state = "runs"
  /\ RunOver(r)
  /\ UNCHANGED <<configVars, now, stored, past, file, loop, live, at, ghostVars>>

RunEnd(r) ==
  /\ run[r].state = "runs" /\ run[r].files = <<>>
  /\ RunOver(r)
  /\ UNCHANGED <<configVars, now, stored, past, file, loop, live, at, ghostVars>>
-----------------------------------------------------------------------------
Period == {period_start(k) : k \in 0..End}

LiveStep ==
  \/ CheckBegin \/ CheckNewest \/ CheckHistory \/ CheckEnd \/ WriteBegin \/ WriteEnd \/ Fails
  \/ \E p \in Period :
       \/ CheckMissing(p) \/ CheckResume(p) \/ CheckUnreadable(p) \/ CheckRewrite(p) \/ CheckLate(p)
       \/ WriteHistory(p) \/ WriteWhole(p) \/ WriteAppend(p) \/ Written(p)

RunStep(r) == RunBegin(r) \/ RunFile(r) \/ RunWritten(r) \/ RunFails(r) \/ RunEnd(r)

ExporterNext ==
  \/ ClockTick \/ LiveStart \/ Down \/ Replace \/ LiveStep
  \/ \E k \in Key : Store(k, TRUE) \/ (k \in Unflushed /\ Store(k, FALSE))
  \/ \E filter \in Filters : Prune(filter)
  \/ \E r \in Run : RunStep(r) \/ \E q \in Requests : RunStart(r, q)

ExporterSpec == ExporterInit /\ [][ExporterNext]_exporterVars
-----------------------------------------------------------------------------
AtRest == loop = "top" /\ live.checked /\ live.pending = <<>> /\ lock = <<>>

\* A stored record is in its file, or its period has the warning of a late record.  A run
\* over part of a file is the operator's own cut; a record the loop has not heard of is
\* only in the database if it came late, if the check at start does not go back to its
\* period ("of every period back to the newest stored record": docs/exporters.md:332), or
\* if it came after that check began (docs/exporters.md:343).
NothingMissed ==
  \A k \in stored : LET p == period_start(k) IN
    \/ k \in Keys(p) \/ p \in live.late \/ p \in cut \/ p \in marred
    \/ k \notin heard /\ (k \notin covered \/ (kind = "lines" /\ k < LastKey(p)))

\* The file holds each record once and in order, and no torn one but the last.
Ordered(p) ==
  \A i, j \in DOMAIN file[p] :
    i < j => file[p][i] # Torn /\ (file[p][j] = Torn \/ file[p][i] < file[p][j])

\* raw appends records as they arrive.
InOrder == kind # "raw" => \A p \in DOMAIN file \ marred : Ordered(p)

\* A live exporter that has nothing left to write has missed nothing and repeated nothing,
\* whatever failures, runs, prunes and restarts there were and however they met the lock
\* ("Records that arrive in order append to the end of their period's file. ... The
\* exporter leaves [a late one] in the database alone and logs one warning per file":
\* docs/exporters.md:326).  Left out are the files whose end the check at start could not
\* read, and those the loop has appended to from a cached last key although an append had
\* failed part-way before: these hold records twice, which RecordsOnce refutes.
UpToDate == AtRest => NothingMissed /\ InOrder

\* What the documentation says of every csv and jsonl file: "A record no newer than the
\* last one in its file is late. The exporter leaves it in the database alone"
\* (docs/exporters.md:326), and __last_key is "called under the exporter's lock before an
\* append, which would extend a torn record" (exporter.py:2192).
RecordsOnce == kind = "lines" => \A p \in DOMAIN file : Ordered(p)

\* What was stored since the check at start began: the live write behind it reads again
\* what it has been notified of.
Awaited(p) ==
  IF loop # "check" THEN {}
  ELSE {k \in at.started..End :
          k \in heard => p \in DOMAIN live.pending /\ live.pending[p][1] <= k /\ k <= live.pending[p][2]}

Mode == IF \E r \in Run : Holds(r) THEN run[Head(lock)].on ELSE "none"

\* "Ceres never removes a record from a file on its own. ... Only a run that asks to purge
\* rewrites a file from the database whatever it held" (docs/exporters.md:7-9), and a run
\* that skips existing files or refuses them changes none, whoever creates files while it
\* waits for the lock and between its files.  The live loop takes nothing out of a file it
\* appends to.  A file that is rewritten keeps what the database holds, but for what the
\* live write behind the check at start puts back; and it keeps what was pruned, unless it
\* was pruned while the loop or a run was at work or the loop owned the file, or an older
\* record was left, or none, or an older one was stored afterwards ("A pruner ... never
\* waits for an exporter": docs/exporters.md:349).
NeverRemoves ==
  [][\A p \in DOMAIN file :
       \/ Mode = "purge"
       \/ Mode \in {"skip", "error"} /\ p \in DOMAIN file' /\ file'[p] = file[p]
       \/ /\ p \in DOMAIN file'
          /\ Mode = "overwrite" /\ Keys(p) \subseteq Keys(p)' \cup exposed
       \/ /\ p \in DOMAIN file'
          /\ Mode = "none"
          /\ Keys(p) \subseteq Keys(p)' \cup (IF kind = "whole" THEN Awaited(p) \cup exposed ELSE {})]_exporterVars
=============================================================================
