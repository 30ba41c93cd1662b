----------------------------- MODULE LiveProofs -----------------------------
(***************************************************************************)
(* What holds of live streams for any number of streams, readers and       *)
(* connections: the readers of a source are one at a time and never leave  *)
(* a stream waiting, a browser is only written frames it can decode, and a *)
(* stream's timeline never runs backwards whatever times and durations a   *)
(* source sends.                                                           *)
(***************************************************************************)
EXTENDS WebRtc, Timeline, NaturalsInduction, WellFoundedInduction, TLAPS

-----------------------------------------------------------------------------
(* The readers of a source.                                                *)

ReaderFields == DOMAIN NewReader
StreamFields == DOMAIN NewStream

\* The thread of a reader is started and has not ended.
Running(r) == reader[r].thread \notin {"none", "gone"}

\* A reader has its fields, and those that wait or were told of an outage read it.
Sound(rd) == DOMAIN rd = ReaderFields /\ rd.waiting \subseteq rd.subs /\ rd.told \subseteq rd.subs

\* Readers and streams keep their fields.
LiveShape ==
  /\ DOMAIN reader = Readers /\ \A r \in Readers : Sound(reader[r])
  /\ DOMAIN stream = Streams /\ \A s \in Streams : DOMAIN stream[s] = StreamFields

\* The registry holds the readers that run.
Registered == registry = {r \in Readers : Running(r)}

\* A source is read by one reader at a time: the registry is locked while a stream looks
\* for a reader and while a reader closes (attach of remux/mod.rs, try_close of reader.rs).
OneReader == \A q, r \in Readers : Running(q) /\ Running(r) => q = r

\* A reader is closed with its thread, and no stream is left on it.
ClosedEmpty ==
  \A r \in Readers : reader[r].closed => reader[r].thread = "gone" /\ reader[r].subs = {}

\* A stream that is open knows its reader.
Placed == \A s \in Streams : stream[s].state = "open" => stream[s].reader \in Readers

LiveInv == LiveShape /\ Registered /\ OneReader /\ ClosedEmpty /\ Placed

\* What a thread may make of its reader, apart from closing it: streams only leave.
Shrunk(new, rd) ==
  /\ Sound(new) /\ new.closed = rd.closed
  /\ new.thread = rd.thread /\ new.subs \subseteq rd.subs

\* What a read may make of a stream: it stays with its reader.
Kept(new, st) ==
  DOMAIN new = StreamFields /\ new.state = st.state /\ new.reader = st.reader

LEMMA FieldsOf ==
  /\ ReaderFields = {"thread", "subs", "waiting", "told", "track", "gop", "gop_valid",
                     "outage", "empty", "closed", "picture", "kind", "published", "last"}
  /\ StreamFields = {"state", "reader", "stopped", "dropped", "kind", "started", "ended",
                     "queued", "heard", "order"}
BY DEF ReaderFields, StreamFields, NewReader, NewStream

LEMMA KeepShrinks ==
  ASSUME NEW rd, Sound(rd), NEW S, S \subseteq rd.subs
  PROVE  Shrunk(Keep(rd, S), rd)
BY FieldsOf DEF Shrunk, Sound, Keep

LEMMA LeaveShrinks ==
  ASSUME NEW rd, Sound(rd), NEW S
  PROVE  Shrunk(leave(rd, S), rd)
<1> DEFINE left == Keep(rd, rd.subs \ S)
<1>1. Shrunk(left, rd)
  BY KeepShrinks
<1>2. leave(rd, S) = left \/ leave(rd, S) = [left EXCEPT !.empty = "yes"]
  BY DEF leave
<1> HIDE DEF left
<1> QED BY <1>1, <1>2, FieldsOf DEF Shrunk, Sound

LEMMA PublishTrackShrinks ==
  ASSUME NEW rd, Sound(rd), NEW kind
  PROVE  Shrunk(PublishTrack(rd, kind), rd)
<1> DEFINE left == Keep(rd, Open(rd.subs))
<1>1. Shrunk(left, rd)
  BY KeepShrinks DEF Open
<1>2. PublishTrack(rd, kind) = [left EXCEPT !.track = kind, !.gop = <<>>, !.gop_valid = TRUE,
                                            !.published = TRUE]
  BY DEF PublishTrack
<1> HIDE DEF left
<1> QED BY <1>1, <1>2, FieldsOf DEF Shrunk, Sound

LEMMA ReceivedShrinks ==
  ASSUME NEW rd, Sound(rd)
  PROVE  Shrunk(received(rd), rd)
<1> DEFINE left == Keep(rd, (rd.subs \ rd.told) \cup Open(rd.told))
<1>1. Shrunk(left, rd)
  BY KeepShrinks DEF Open, Sound
<1>2. received(rd) = rd \/ received(rd) = [left EXCEPT !.outage = FALSE, !.told = {}]
  BY DEF received
<1> HIDE DEF left
<1> QED BY <1>1, <1>2, FieldsOf DEF Shrunk, Sound

LEMMA LostShrinks ==
  ASSUME NEW rd, Sound(rd)
  PROVE  Shrunk(lost(rd), rd)
<1> DEFINE left == Keep(rd, Open(rd.subs))
<1>1. Shrunk(left, rd) /\ left.subs = Open(rd.subs)
  BY KeepShrinks, FieldsOf DEF Open, Keep, Sound
<1>2. lost(rd) = rd \/ lost(rd) = [left EXCEPT !.outage = TRUE, !.gop = <<>>,
                                      !.gop_valid = FALSE, !.told = Open(rd.subs)]
  BY DEF lost
<1> HIDE DEF left
<1> QED BY <1>1, <1>2, FieldsOf DEF Shrunk, Sound

LEMMA PublishShrinks ==
  ASSUME NEW rd, Sound(rd), NEW packet
  PROVE  Shrunk(publish(rd, packet), rd)
<1> DEFINE cached == Cached(rd, packet)
           takes == Takes(rd, packet)
           waiting == (rd.waiting \cup {s \in rd.subs : Behind(s)}) \ takes
           base == [rd EXCEPT !.waiting = waiting]
           left == Keep(base, (rd.subs \ takes) \cup Open(takes))
           last == IF packet.ref THEN packet.n ELSE left.last
<1>1. takes \subseteq rd.subs
  BY DEF Takes, Resumes, Sound
<1>2. waiting \subseteq rd.subs
  BY DEF Sound
<1>3. Shrunk(base, rd) /\ base.subs = rd.subs
  <2> HIDE DEF waiting
  <2> QED BY <1>2, FieldsOf DEF Shrunk, Sound
<1>4. Open(takes) \subseteq takes
  BY DEF Open
<1>5. Shrunk(left, base)
  <2> HIDE DEF takes, base
  <2> QED BY <1>1, <1>3, <1>4, KeepShrinks DEF Shrunk
<1>6. publish(rd, packet) = [left EXCEPT !.gop = cached.gop, !.gop_valid = cached.gop_valid,
                                         !.last = last]
  BY DEF publish
<1> HIDE DEF cached, left, base, last
<1> QED BY <1>3, <1>5, <1>6, FieldsOf DEF Shrunk, Sound

\* A read leaves a stream with its reader.
LEMMA NextKeeps ==
  ASSUME NEW s, DOMAIN stream[s] = StreamFields
  PROVE  Kept(AfterNext(s), stream[s])
<1> DEFINE st == stream[s]
           m == feed[s][1]
           item == NextItem(s)
           ends == m.type = "end" \/ (m.type = "lost" /\ s \notin Patient)
           rest == IF st.queued # <<>> THEN [st EXCEPT !.queued = Tail(@)]
                   ELSE IF st.ended \/ feed[s] = <<>> THEN [st EXCEPT !.ended = TRUE]
                   ELSE [st EXCEPT !.queued = Tail(Items(s, m)), !.ended = @ \/ ends]
<1>1. AfterNext(s) = place(rest, s, item)
  BY DEF AfterNext
<1>2. Kept(rest, st)
  <2> HIDE DEF m, ends
  <2> QED BY FieldsOf DEF Kept
<1>3. ASSUME NEW old, Kept(old, st)
      PROVE  Kept(place(old, s, item), st)
  <2> HIDE DEF item, st
  <2>1. \/ place(old, s, item) = old
        \/ \E k, o : place(old, s, item) = [old EXCEPT !.kind = k, !.order = o]
        \/ \E o : place(old, s, item) = [old EXCEPT !.started = TRUE, !.order = o]
        \/ \E h : place(old, s, item) = [old EXCEPT !.heard = h]
    <3>1. CASE item.type = "track"
      BY <3>1 DEF place
    <3>2. CASE item.type = "packet"
      BY <3>2 DEF place
    <3>3. CASE item.type = "notice" /\ item.what # "ended"
      BY <3>3 DEF place
    <3>4. CASE ~(item.type = "track") /\ ~(item.type = "packet")
               /\ ~(item.type = "notice" /\ item.what # "ended")
      BY <3>4 DEF place
    <3> QED BY <3>1, <3>2, <3>3, <3>4
  <2> QED BY <2>1, <1>3, FieldsOf DEF Kept
<1> HIDE DEF rest, item, st
<1> QED BY <1>1, <1>2, <1>3 DEF st

-----------------------------------------------------------------------------
(* The steps of readers and streams.                                       *)

\* A reader that runs on.
LEMMA ReaderRunsOn ==
  ASSUME LiveInv, NEW r \in Readers, Running(r), NEW new,
         Sound(new), new.closed = reader[r].closed, new.subs \subseteq reader[r].subs,
         new.thread \notin {"none", "gone"},
         reader' = [reader EXCEPT ![r] = new], registry' = registry, stream' = stream
  PROVE  LiveInv'
<1> USE DEF LiveInv
<1>1. reader'[r] = new /\ \A q \in Readers \ {r} : reader'[q] = reader[q]
  BY DEF LiveShape
<1>2. LiveShape'
  BY <1>1 DEF LiveShape
<1>3. \A q \in Readers : Running(q)' <=> Running(q)
  BY <1>1 DEF Running
<1>4. Registered' /\ OneReader'
  BY <1>3 DEF Registered, OneReader
<1>5. ClosedEmpty'
  BY <1>1 DEF ClosedEmpty, Running
<1>6. Placed'
  BY DEF Placed
<1> QED BY <1>2, <1>4, <1>5, <1>6

\* A reader that closes.
LEMMA ReaderCloses ==
  ASSUME LiveInv, NEW r \in Readers,
         reader' = [reader EXCEPT ![r] = Closed], registry' = registry \ {r}, stream' = stream
  PROVE  LiveInv'
<1> USE DEF LiveInv
<1>0. Sound(Closed) /\ Closed.closed /\ Closed.thread = "gone" /\ Closed.subs = {}
  BY DEF Sound, Closed, NewReader, ReaderFields
<1>1. reader'[r] = Closed /\ \A q \in Readers \ {r} : reader'[q] = reader[q]
  BY DEF LiveShape
<1>2. LiveShape'
  BY <1>0, <1>1 DEF LiveShape
<1>3. ~Running(r)' /\ \A q \in Readers \ {r} : Running(q)' <=> Running(q)
  BY <1>0, <1>1 DEF Running
<1>4. Registered' /\ OneReader'
  BY <1>3 DEF Registered, OneReader
<1>5. ClosedEmpty'
  BY <1>0, <1>1 DEF ClosedEmpty
<1>6. Placed'
  BY DEF Placed
<1> QED BY <1>2, <1>4, <1>5, <1>6

\* Streams that stop, read or end.
LEMMA StreamsGoOn ==
  ASSUME LiveInv, DOMAIN reader' = Readers, DOMAIN stream' = Streams, registry' = registry,
         \A r \in Readers : Shrunk(reader'[r], reader[r]),
         \A s \in Streams : Kept(stream'[s], stream[s])
  PROVE  LiveInv'
<1> USE DEF LiveInv
<1>1. LiveShape'
  BY DEF LiveShape, Shrunk, Kept
<1>2. \A q \in Readers : Running(q)' <=> Running(q)
  BY DEF Running, Shrunk
<1>3. Registered' /\ OneReader'
  BY <1>2 DEF Registered, OneReader
<1>4. ClosedEmpty'
  BY DEF ClosedEmpty, Shrunk
<1>5. Placed'
  BY DEF Placed, Kept
<1> QED BY <1>1, <1>3, <1>4, <1>5

\* A stream joins the reader that runs, or starts one that never ran.
LEMMA AttachKeeps ==
  ASSUME LiveInv, NEW s \in Streams, CanAttach, attach(s)
  PROVE  LiveInv'
<1> USE DEF LiveInv
<1> PICK r \in Readers :
      /\ IF registry # {} THEN r \in registry
         ELSE r = CHOOSE x \in Readers : reader[x].thread = "none"
      /\ registry' = {r}
      /\ reader' = [reader EXCEPT ![r] =
           join(IF registry = {} THEN [@ EXCEPT !.thread = "head"] ELSE @, s)]
      /\ stream' = [stream EXCEPT ![s].state = "open", ![s].reader = r]
  BY DEF attach
<1> DEFINE base == IF registry = {} THEN [reader[r] EXCEPT !.thread = "head"] ELSE reader[r]
<1>1. ~reader[r].closed /\ (registry = {} => reader[r].thread = "none")
  <2>1. CASE registry # {}
    BY <2>1 DEF Registered, Running, ClosedEmpty
  <2>2. CASE registry = {}
    <3>1. \E x \in Readers : reader[x].thread = "none"
      BY <2>2 DEF CanAttach
    <3>2. reader[r].thread = "none"
      BY <2>2, <3>1
    <3> QED BY <3>2 DEF ClosedEmpty
  <2> QED BY <2>1, <2>2
<1>2. /\ Sound(base) /\ base.closed = reader[r].closed /\ base.subs = reader[r].subs
      /\ base.thread \notin {"none", "gone"}
  <2>1. registry # {} => reader[r].thread \notin {"none", "gone"}
    BY DEF Registered, Running
  <2>2. Sound(reader[r])
    BY DEF LiveShape
  <2> QED BY <2>1, <2>2, FieldsOf DEF Sound
<1>3. reader' = [reader EXCEPT ![r] = join(base, s)]
  OBVIOUS
<1> HIDE DEF base
<1>4. /\ Sound(join(base, s)) /\ join(base, s).closed = base.closed
      /\ join(base, s).thread = base.thread
  BY <1>2, FieldsOf DEF join, Sound
<1>5. reader'[r] = join(base, s) /\ \A q \in Readers \ {r} : reader'[q] = reader[q]
  BY <1>3 DEF LiveShape
<1>6. /\ stream'[s] = [stream[s] EXCEPT !.state = "open", !.reader = r]
      /\ \A t \in Streams \ {s} : stream'[t] = stream[t]
  BY DEF LiveShape
<1>7. DOMAIN stream'[s] = StreamFields /\ stream'[s].reader = r
  BY <1>6, FieldsOf DEF LiveShape
<1>8. LiveShape'
  BY <1>3, <1>4, <1>5, <1>6, <1>7 DEF LiveShape
<1>9. Running(r)' /\ \A q \in Readers \ {r} : ~Running(q)'
  <2>1. \A q \in Readers \ {r} : ~Running(q)
    BY DEF Registered, OneReader
  <2> QED BY <2>1, <1>2, <1>4, <1>5 DEF Running
<1>10. Registered' /\ OneReader'
  BY <1>9 DEF Registered, OneReader
<1>11. ClosedEmpty'
  BY <1>1, <1>2, <1>4, <1>5 DEF ClosedEmpty
<1>12. Placed'
  BY <1>6, <1>7 DEF Placed
<1> QED BY <1>8, <1>10, <1>11, <1>12

\* Streams that stop leave their readers.
LEMMA StopKeeps ==
  ASSUME LiveInv, NEW S
  PROVE  DOMAIN Stopped(S) = Readers /\ \A r \in Readers : Shrunk(Stopped(S)[r], reader[r])
<1>1. DOMAIN Stopped(S) = Readers
  BY DEF Stopped
<1>2. ASSUME NEW r \in Readers
      PROVE  Shrunk(Stopped(S)[r], reader[r])
  <2>1. Sound(reader[r])
    BY DEF LiveInv, LiveShape
  <2>2. Shrunk(reader[r], reader[r])
    BY <2>1 DEF Shrunk
  <2>3. Stopped(S)[r] = reader[r]
          \/ \E L : Stopped(S)[r] = leave(reader[r], L)
    BY DEF Stopped
  <2> QED BY <2>1, <2>2, <2>3, LeaveShrinks
<1> QED BY <1>1, <1>2

LEMMA StopStreamsKeeps ==
  ASSUME LiveInv, NEW S, StopStreams(S), registry' = registry
  PROVE  LiveInv'
<1>1. \A s \in Streams : Kept(stream'[s], stream[s])
  BY FieldsOf DEF StopStreams, LiveInv, LiveShape, Kept
<1>2. DOMAIN stream' = Streams /\ DOMAIN reader' = Readers
  BY StopKeeps DEF StopStreams
<1>3. \A r \in Readers : Shrunk(reader'[r], reader[r])
  BY StopKeeps DEF StopStreams
<1> QED BY <1>1, <1>2, <1>3, StreamsGoOn

LEMMA SameReaders ==
  ASSUME LiveInv
  PROVE  \A r \in Readers : Shrunk(reader[r], reader[r])
BY DEF LiveInv, LiveShape, Shrunk

LEMMA SameStreams ==
  ASSUME LiveInv
  PROVE  \A s \in Streams : Kept(stream[s], stream[s])
BY DEF LiveInv, LiveShape, Kept

LEMMA ReaderStepKeeps ==
  ASSUME LiveInv, NEW r \in Readers, ReaderStep(r)
  PROVE  LiveInv'
<1> DEFINE rd == reader[r]
<1>0. Sound(rd)
  BY DEF LiveInv, LiveShape
<1>1. CASE Round(r)
  <2> DEFINE new == [rd EXCEPT !.thread = IF should_stop(r) THEN "head_stop" ELSE "connect"]
  <2>1. /\ Running(r) /\ reader' = [reader EXCEPT ![r] = new]
        /\ registry' = registry /\ stream' = stream
    BY <1>1 DEF Round, Running
  <2>2. Sound(new) /\ new.closed = rd.closed /\ new.subs = rd.subs
        /\ new.thread \notin {"none", "gone"}
    BY <1>0, FieldsOf DEF Sound
  <2> HIDE DEF new
  <2> QED BY <2>1, <2>2, ReaderRunsOn
<1>2. CASE Connect(r)
  <2>1. Running(r) /\ registry' = registry /\ stream' = stream
    BY <1>2 DEF Connect, Running
  <2>2. PICK k, p, f : LET base == [rd EXCEPT !.thread = "reading", !.picture = p, !.kind = k]
                           seen == [base EXCEPT !.last = f]
                       IN \/ reader' = [reader EXCEPT ![r] = PublishTrack(seen, k)]
                          \/ reader' = [reader EXCEPT ![r] = base]
    BY <1>2 DEF Connect
  <2> DEFINE base == [rd EXCEPT !.thread = "reading", !.picture = p, !.kind = k]
             seen == [base EXCEPT !.last = f]
  <2>3. Sound(base) /\ base.closed = rd.closed /\ base.subs = rd.subs
        /\ base.thread = "reading"
    BY <1>0, FieldsOf DEF Sound
  <2>4. Sound(seen) /\ seen.closed = rd.closed /\ seen.subs = rd.subs
        /\ seen.thread = "reading"
    BY <1>0, FieldsOf DEF Sound
  <2>5. \/ reader' = [reader EXCEPT ![r] = PublishTrack(seen, k)]
        \/ reader' = [reader EXCEPT ![r] = base]
    BY <2>2
  <2> HIDE DEF base, seen
  <2>6. Shrunk(PublishTrack(seen, k), seen)
    BY <2>4, PublishTrackShrinks
  <2>7. CASE reader' = [reader EXCEPT ![r] = base]
    BY <2>1, <2>3, <2>7, ReaderRunsOn
  <2>8. CASE reader' = [reader EXCEPT ![r] = PublishTrack(seen, k)]
    <3>1. /\ Sound(PublishTrack(seen, k)) /\ PublishTrack(seen, k).closed = rd.closed
          /\ PublishTrack(seen, k).subs \subseteq rd.subs
          /\ PublishTrack(seen, k).thread \notin {"none", "gone"}
      BY <2>4, <2>6 DEF Shrunk
    <3> QED BY <2>1, <2>8, <3>1, ReaderRunsOn
  <2> QED BY <2>5, <2>7, <2>8
<1>3. CASE LoseLink(r)
  <2> DEFINE new == [rd EXCEPT !.thread = "ended"]
  <2>1. /\ Running(r) /\ reader' = [reader EXCEPT ![r] = new]
        /\ registry' = registry /\ stream' = stream
    BY <1>3 DEF LoseLink, Running
  <2>2. Sound(new) /\ new.closed = rd.closed /\ new.subs = rd.subs
        /\ new.thread \notin {"none", "gone"}
    BY <1>0, FieldsOf DEF Sound
  <2> HIDE DEF new
  <2> QED BY <2>1, <2>2, ReaderRunsOn
<1>4. CASE Fatal(r)
  BY <1>4, ReaderCloses DEF Fatal, close
<1>5. CASE ReadCopy(r)
  <2>1. Running(r) /\ rd.thread = "reading" /\ registry' = registry /\ stream' = stream
    BY <1>5 DEF ReadCopy, Running
  <2>2. PICK packet : reader' = [reader EXCEPT ![r] = publish(received(rd), packet)]
    BY <1>5 DEF ReadCopy
  <2>3. Shrunk(received(rd), rd)
    BY <1>0, ReceivedShrinks
  <2>4. Shrunk(publish(received(rd), packet), received(rd))
    BY <2>3, PublishShrinks DEF Shrunk
  <2>5. Shrunk(publish(received(rd), packet), rd)
    BY <2>3, <2>4 DEF Shrunk
  <2>6. publish(received(rd), packet).thread \notin {"none", "gone"}
    BY <2>1, <2>5 DEF Shrunk
  <2> HIDE DEF rd
  <2> QED BY <2>1, <2>2, <2>5, <2>6, ReaderRunsOn DEF Shrunk, rd
<1>6. CASE ReadTranscode(r)
  <2> DEFINE got == received(rd)
             told == IF ~got.published \/ got.track # got.kind
                     THEN PublishTrack(got, got.kind) ELSE got
  <2>1. Running(r) /\ rd.thread = "reading" /\ registry' = registry /\ stream' = stream
    BY <1>6 DEF ReadTranscode, Running
  <2>2. \/ \E packet : reader' = [reader EXCEPT ![r] = publish(told, packet)]
        \/ reader' = [reader EXCEPT ![r] = got]
    BY <1>6 DEF ReadTranscode
  <2>3. Shrunk(got, rd)
    BY <1>0, ReceivedShrinks
  <2> HIDE DEF got
  <2>4. Shrunk(PublishTrack(got, got.kind), got)
    BY <2>3, PublishTrackShrinks DEF Shrunk
  <2>5. Shrunk(told, rd)
    BY <2>3, <2>4 DEF Shrunk
  <2> HIDE DEF told
  <2>6. ASSUME NEW packet PROVE Shrunk(publish(told, packet), rd)
    <3>1. Shrunk(publish(told, packet), told)
      BY <2>5, PublishShrinks DEF Shrunk
    <3> QED BY <3>1, <2>5 DEF Shrunk
  <2>7. \E new : Shrunk(new, rd) /\ reader' = [reader EXCEPT ![r] = new]
    BY <2>2, <2>3, <2>6
  <2>8. PICK new : Shrunk(new, rd) /\ reader' = [reader EXCEPT ![r] = new]
    BY <2>7
  <2>9. new.thread \notin {"none", "gone"}
    BY <2>1, <2>8 DEF Shrunk
  <2> QED BY <2>1, <2>8, <2>9, ReaderRunsOn DEF Shrunk
<1>7. ASSUME Backoff(r), Running(r), registry' = registry, stream' = stream
      PROVE  LiveInv'
  <2> DEFINE new == [lost(rd) EXCEPT !.thread = "head"]
  <2>1. reader' = [reader EXCEPT ![r] = new]
    BY <1>7 DEF Backoff
  <2>2. Shrunk(lost(rd), rd)
    BY <1>0, LostShrinks
  <2>3. Sound(new) /\ new.closed = rd.closed /\ new.subs \subseteq rd.subs
        /\ new.thread \notin {"none", "gone"}
    BY <2>2, FieldsOf DEF Shrunk, Sound
  <2> HIDE DEF new
  <2> QED BY <1>7, <2>1, <2>3, ReaderRunsOn
<1>8. CASE EndLink(r)
  <2>1. Running(r) /\ registry' = registry /\ stream' = stream
    BY <1>8 DEF EndLink, Running
  <2>2. CASE should_stop(r)
    <3> DEFINE new == [rd EXCEPT !.thread = "ended_stop"]
    <3>1. reader' = [reader EXCEPT ![r] = new]
      BY <1>8, <2>2 DEF EndLink
    <3>2. Sound(new) /\ new.closed = rd.closed /\ new.subs = rd.subs
          /\ new.thread \notin {"none", "gone"}
      BY <1>0, FieldsOf DEF Sound
    <3> HIDE DEF new
    <3> QED BY <2>1, <3>1, <3>2, ReaderRunsOn
  <2>3. CASE ~should_stop(r)
    <3>1. Backoff(r)
      BY <1>8, <2>3 DEF EndLink
    <3> QED BY <1>7, <2>1, <3>1
  <2> QED BY <2>2, <2>3
<1>9. CASE Stopping(r)
  <2>1. stream' = stream
    BY <1>9 DEF Stopping
  <2>2. CASE try_close(r)
    BY <2>1, <2>2, ReaderCloses DEF try_close
  <2>3. CASE /\ rd.thread = "head_stop"
             /\ reader' = [reader EXCEPT ![r].thread = "connect"] /\ registry' = registry
    <3> DEFINE new == [rd EXCEPT !.thread = "connect"]
    <3>1. reader' = [reader EXCEPT ![r] = new] /\ Running(r)
      BY <2>3 DEF Running
    <3>2. Sound(new) /\ new.closed = rd.closed /\ new.subs = rd.subs
          /\ new.thread \notin {"none", "gone"}
      BY <1>0, FieldsOf DEF Sound
    <3> HIDE DEF new
    <3> QED BY <2>1, <2>3, <3>1, <3>2, ReaderRunsOn
  <2>4. CASE rd.thread = "ended_stop" /\ Backoff(r) /\ registry' = registry
    BY <1>7, <2>1, <2>4 DEF Running
  <2> QED BY <1>9, <2>2, <2>3, <2>4 DEF Stopping
<1> QED BY <1>1, <1>2, <1>3, <1>4, <1>5, <1>6, <1>8, <1>9 DEF ReaderStep

LEMMA LingerKeeps ==
  ASSUME LiveInv, NEW r \in Readers, Linger(r)
  PROVE  LiveInv'
<1> DEFINE new == [reader[r] EXCEPT !.empty = "lingered"]
<1>1. Sound(reader[r]) /\ DOMAIN reader = Readers /\ DOMAIN stream = Streams
  BY DEF LiveInv, LiveShape
<1>2. Shrunk(new, reader[r])
  BY <1>1, FieldsOf DEF Shrunk, Sound
<1>3. reader' = [reader EXCEPT ![r] = new] /\ registry' = registry /\ stream' = stream
  BY DEF Linger
<1> HIDE DEF new
<1>4. \A q \in Readers : Shrunk(reader'[q], reader[q])
  BY <1>1, <1>2, <1>3, SameReaders
<1> QED BY <1>1, <1>3, <1>4, SameStreams, StreamsGoOn

LEMMA MuxedStepKeeps ==
  ASSUME LiveInv, NEW s \in Muxed, MuxedStep(s)
  PROVE  LiveInv'
<1>0. s \in Streams
  BY DEF Streams
<1>1. DOMAIN reader = Readers /\ DOMAIN stream = Streams /\ DOMAIN stream[s] = StreamFields
  BY <1>0 DEF LiveInv, LiveShape
<1>2. stream[s].state = "open" =>
        Kept(Done(stream[s]), stream[s])
        /\ Kept([Done(stream[s]) EXCEPT !.stopped = TRUE], stream[s])
  BY <1>1, FieldsOf DEF Kept, Done, NewStream
<1>3. ASSUME NEW new, Kept(new, stream[s]), stream' = [stream EXCEPT ![s] = new]
      PROVE  DOMAIN stream' = Streams /\ \A t \in Streams : Kept(stream'[t], stream[t])
  BY <1>0, <1>1, <1>3, SameStreams
<1>4. CASE OpenMuxed(s)
  BY <1>0, <1>4, AttachKeeps DEF OpenMuxed
<1>5. CASE stop(s)
  <2>1. stream' = [stream EXCEPT ![s] = [Done(@) EXCEPT !.stopped = TRUE]]
        /\ stream[s].state = "open" /\ registry' = registry
    BY <1>5 DEF stop
  <2>2. DOMAIN stream' = Streams /\ \A t \in Streams : Kept(stream'[t], stream[t])
    <3> DEFINE new == [Done(stream[s]) EXCEPT !.stopped = TRUE]
    <3>1. stream' = [stream EXCEPT ![s] = new] /\ Kept(new, stream[s])
      BY <1>2, <2>1
    <3> HIDE DEF new
    <3> QED BY <1>3, <3>1
  <2>3. DOMAIN reader' = Readers /\ \A q \in Readers : Shrunk(reader'[q], reader[q])
    <3> DEFINE r == stream[s].reader
    <3>1. r \in Readers /\ Sound(reader[r])
      BY <1>0, <2>1 DEF LiveInv, Placed, LiveShape
    <3>2. reader' = [reader EXCEPT ![r] = leave(reader[r], {s})]
      BY <1>5 DEF stop
    <3>3. Shrunk(leave(reader[r], {s}), reader[r])
      BY <3>1, LeaveShrinks
    <3> HIDE DEF r
    <3> QED BY <1>1, <3>1, <3>2, <3>3, SameReaders
  <2> QED BY <2>1, <2>2, <2>3, StreamsGoOn
<1>6. CASE mux(s)
  <2> DEFINE new == stream'[s]
  <2>1. reader' = reader /\ registry' = registry
    BY <1>6 DEF mux
  <2>2. stream' = [stream EXCEPT ![s] = new] /\ Kept(new, stream[s])
    <3> DEFINE m == feed[s][1]
               st == stream[s]
               on(kind, packets) ==
                 IF Muxes(st, kind) THEN [st EXCEPT !.ended = TRUE]
                 ELSE [st EXCEPT !.kind = kind, !.started = @ \/ packets # <<>>]
               val == CASE m.type = "track"    -> on(m.kind, <<>>)
                        [] m.type = "snapshot" -> on(m.kind, m.packets)
                        [] m.type = "packet"   -> [st EXCEPT !.started = @ \/ st.kind # NoTrack]
                        [] m.type = "lost"     -> LostHeard(st, s)
                        [] m.type = "notice"   -> Heard(st, m)
                        [] OTHER               -> [st EXCEPT !.ended = TRUE]
    <3>1. stream' = [stream EXCEPT ![s] = val]
      BY <1>6 DEF mux
    <3>2. Kept(val, st)
      <4>1. \A kind, packets : Kept(on(kind, packets), st)
        BY <1>1, FieldsOf DEF Kept
      <4>2. Kept(LostHeard(st, s), st) /\ Kept(Heard(st, m), st)
        BY <1>1, FieldsOf DEF Kept, LostHeard, Heard
      <4>3. /\ Kept([st EXCEPT !.started = @ \/ st.kind # NoTrack], st)
            /\ Kept([st EXCEPT !.ended = TRUE], st)
        BY <1>1, FieldsOf DEF Kept
      <4> HIDE DEF m, on
      <4> QED BY <4>1, <4>2, <4>3
    <3> HIDE DEF val
    <3> QED BY <1>0, <1>1, <3>1, <3>2
  <2> QED BY <1>1, <1>3, <2>1, <2>2, SameReaders, StreamsGoOn
<1>7. CASE MuxEnd(s)
  <2>1. /\ stream' = [stream EXCEPT ![s] = Done(stream[s])] /\ stream[s].state = "open"
        /\ reader' = reader /\ registry' = registry
    BY <1>7 DEF MuxEnd
  <2> QED BY <1>1, <1>2, <1>3, <2>1, SameReaders, StreamsGoOn
<1> QED BY <1>4, <1>5, <1>6, <1>7 DEF MuxedStep

-----------------------------------------------------------------------------
(* The steps of the sessions.                                              *)

LEMMA SameLive ==
  ASSUME LiveInv, UNCHANGED <<registry, reader, stream>>
  PROVE  LiveInv'
BY DEF LiveInv, LiveShape, Registered, Running, OneReader, ClosedEmpty, Placed

\* A stream that is read, and perhaps stopped behind the read.
LEMMA ReadKeeps ==
  ASSUME LiveInv, NEW s \in Streams, registry' = registry,
         \/ reader' = reader /\ stream' = [stream EXCEPT ![s] = AfterNext(s)]
         \/ /\ reader' = Stopped({s})
            /\ stream' = [stream EXCEPT ![s] = [AfterNext(s) EXCEPT !.stopped = TRUE]]
  PROVE  LiveInv'
<1>1. DOMAIN reader = Readers /\ DOMAIN stream = Streams /\ DOMAIN stream[s] = StreamFields
  BY DEF LiveInv, LiveShape
<1>2. Kept(AfterNext(s), stream[s])
  BY <1>1, NextKeeps
<1>3. Kept([AfterNext(s) EXCEPT !.stopped = TRUE], stream[s])
  BY <1>2, FieldsOf DEF Kept
<1>4. DOMAIN stream' = Streams /\ \A t \in Streams : Kept(stream'[t], stream[t])
  BY <1>1, <1>2, <1>3, SameStreams
<1>5. DOMAIN reader' = Readers /\ \A r \in Readers : Shrunk(reader'[r], reader[r])
  BY <1>1, SameReaders, StopKeeps
<1> QED BY <1>4, <1>5, StreamsGoOn

LEMMA SessionStepKeeps ==
  ASSUME LiveInv, NEW s \in Watched, RequestStep(s) \/ LoopStep(s) \/ ThreadStep(s)
  PROVE  LiveInv'
<1>0. s \in Streams
  BY DEF Streams
<1>1. CASE Refuse(s) \/ ClientLeaves(s) \/ stream_close(s) \/ Connected(s)
  BY <1>1, SameLive DEF Refuse, ClientLeaves, stream_close, Connected, remuxVars
<1>2. CASE OpenSession(s)
  BY <1>0, <1>2, AttachKeeps DEF OpenSession
<1>3. CASE OpenTimeout(s) \/ EndSession(s) \/ OpenUnserved(s)
  BY <1>3, StopStreamsKeeps DEF OpenTimeout, EndSession, OpenUnserved
<1>4. CASE CommandOpen(s)
  BY <1>4, StopStreamsKeeps, SameLive DEF CommandOpen
<1>5. CASE Read(s)
  BY <1>5, StopStreamsKeeps, SameLive DEF Read
<1>6. CASE first_picture(s)
  BY <1>0, <1>6, ReadKeeps DEF first_picture
<1>7. CASE SpawnedRead(s)
  BY <1>0, <1>7, ReadKeeps DEF SpawnedRead
<1> QED BY <1>1, <1>2, <1>3, <1>4, <1>5, <1>6, <1>7 DEF RequestStep, LoopStep, ThreadStep

LEMMA LiveInvInit == Init => LiveInv
<1> SUFFICES ASSUME Init PROVE LiveInv
  OBVIOUS
<1>1. registry = {} /\ reader = [r \in Readers |-> NewReader]
  BY DEF Init, RemuxInit
<1>2. Sound(NewReader) /\ NewReader.thread = "none" /\ ~NewReader.closed
  BY DEF NewReader, Sound, ReaderFields
<1>3. DOMAIN stream = Streams
      /\ \A s \in Streams : stream[s] = NewStream \/ stream[s] = [NewStream EXCEPT !.state = "unused"]
  BY DEF Init, RemuxInit
<1>4. /\ DOMAIN [NewStream EXCEPT !.state = "unused"] = StreamFields
      /\ NewStream.state = "new" /\ [NewStream EXCEPT !.state = "unused"].state = "unused"
  BY DEF StreamFields, NewStream
<1>5. LiveShape
  BY <1>1, <1>2, <1>3, <1>4 DEF LiveShape, StreamFields
<1>6. Registered /\ OneReader /\ ClosedEmpty
  BY <1>1, <1>2 DEF Registered, OneReader, ClosedEmpty, Running
<1>7. Placed
  BY <1>3, <1>4 DEF Placed
<1> QED BY <1>5, <1>6, <1>7 DEF LiveInv

LEMMA LiveInvNext == LiveInv /\ [Next]_vars => LiveInv'
<1> SUFFICES ASSUME LiveInv, [Next]_vars PROVE LiveInv'
  OBVIOUS
<1>1. CASE SourceStep
  BY <1>1, ReaderStepKeeps, LingerKeeps DEF SourceStep
<1>2. CASE MuxStep
  BY <1>2, MuxedStepKeeps DEF MuxStep
<1>3. CASE \E s \in Watched : RequestStep(s) \/ LoopStep(s) \/ ThreadStep(s)
  BY <1>3, SessionStepKeeps
<1>4. CASE Flush
  BY <1>4, SameLive DEF Flush, remuxVars
<1>5. CASE Fail
  BY <1>5, StopStreamsKeeps DEF Fail
<1>6. CASE UNCHANGED vars
  BY <1>6, SameLive DEF vars, remuxVars
<1> QED BY <1>1, <1>2, <1>3, <1>4, <1>5, <1>6 DEF Next

\* However streams join, stop and are dropped while readers connect, linger, fail and
\* close, no stream is left waiting for a reader that is closed (attach, try_close, close).
THEOREM AlwaysNoneStranded == Spec => []NoneStranded
<1>1. LiveInv => NoneStranded
  BY DEF LiveInv, ClosedEmpty, Placed, NoneStranded
<1> QED BY <1>1, LiveInvInit, LiveInvNext, PTL DEF Spec

\* A source is never read by two readers, and the one that reads it is the one the registry
\* gives to the next stream: a camera is connected to once however many streams it has.
THEOREM AlwaysOneReader == Spec => [](OneReader /\ Registered)
<1>1. LiveInv => OneReader /\ Registered
  BY DEF LiveInv
<1> QED BY <1>1, LiveInvInit, LiveInvNext, PTL DEF Spec

-----------------------------------------------------------------------------
(* The picture a browser is handed: what may follow what.                   *)

\* A sequence of whatever it holds.
IsSeq(q) == \E M : q \in Seq(M)

\* A frame of a source: a keyframe needs none, and others may need it.
Frame(p) ==
  /\ p.n \in Nat \ {0} /\ p.needs \in Nat
  /\ p.key => p.ref /\ p.needs = NoFrame

\* A browser that shows frame a, or waits for a keyframe where a is NoFrame, shows frame b
\* behind packet p.
Follows(a, p, b) ==
  /\ Frame(p)
  /\ IF p.key THEN b = p.n
     ELSE IF a = NoFrame THEN b = NoFrame
     ELSE p.needs \in {NoFrame, a} /\ b = IF p.ref THEN p.n ELSE a

\* The packets take a browser from frame a to frame b.
Framed(packets, a, b) ==
  /\ IsSeq(packets)
  /\ \E at \in [0 .. Len(packets) -> Nat] :
       /\ at[0] = a /\ at[Len(packets)] = b
       /\ \A i \in 1 .. Len(packets) : Follows(at[i - 1], packets[i], at[i])

\* So does message m: a track and a snapshot start over.
Passes(a, m, b) ==
  /\ m.type = "track" => b = NoFrame
  /\ m.type = "packet" => Follows(a, m.packet, b)
  /\ m.type = "snapshot" => Framed(m.packets, NoFrame, b)
  /\ m.type \notin {"track", "packet", "snapshot"} => b = a

\* So do the messages of q, one behind the other.
Linked(q, a, b) ==
  /\ IsSeq(q)
  /\ \E at \in [0 .. Len(q) -> Nat] :
       /\ at[0] = a /\ at[Len(q)] = b
       /\ \A i \in 1 .. Len(q) : Passes(at[i - 1], q[i], at[i])

\* Induction over a sequence goes by the first place where it would fail.
LEMMA SmallestNat ==
  ASSUME NEW S, S \subseteq Nat, S # {}
  PROVE  \E x \in S : \A y \in S : x <= y
<1> DEFINE R == OpToRel(<, Nat)
<1>1. IsWellFoundedOn(R, Nat)
  BY NatLessThanWellFounded
<1>2. R = {ss \in Nat \X Nat : ss[1] < ss[2]}
  BY DEF OpToRel
<1> HIDE DEF R
<1>3. \E x \in S : \A y \in S : ~(<<y, x>> \in R)
  BY <1>1, WFMin
<1>4. \A x, y \in S : ~(<<y, x>> \in R) => x <= y
  BY <1>2
<1> QED BY <1>3, <1>4

\* Facts about sequences of anything.
LEMMA LenSeq ==
  ASSUME NEW q, IsSeq(q)
  PROVE  Len(q) \in Nat /\ (q = <<>> <=> Len(q) = 0)
BY DEF IsSeq

LEMMA NoneSeq ==
  ASSUME NEW q, q = <<>>
  PROVE  IsSeq(q) /\ Len(q) = 0
<1>1. q \in Seq({q})
  OBVIOUS
<1>2. IsSeq(q)
  BY <1>1 DEF IsSeq
<1>3. Len(q) = 0
  OBVIOUS
<1> QED BY <1>2, <1>3

LEMMA OneSeq ==
  ASSUME NEW x
  PROVE  IsSeq(<<x>>) /\ Len(<<x>>) = 1 /\ <<x>>[1] = x /\ <<x>> # <<>>
<1>1. <<x>> \in Seq({x})
  OBVIOUS
<1> QED BY <1>1 DEF IsSeq

LEMMA TwoSeq ==
  ASSUME NEW x, NEW y
  PROVE  /\ IsSeq(<<x, y>>) /\ Len(<<x, y>>) = 2
         /\ <<x, y>>[1] = x /\ <<x, y>>[2] = y /\ <<x, y>> # <<>>
<1>1. <<x, y>> \in Seq({x, y})
  OBVIOUS
<1> QED BY <1>1 DEF IsSeq

LEMMA ConcatSeq ==
  ASSUME NEW q, NEW r, IsSeq(q), IsSeq(r)
  PROVE  /\ IsSeq(q \o r) /\ Len(q \o r) = Len(q) + Len(r)
         /\ \A i \in 1 .. Len(q) : (q \o r)[i] = q[i]
         /\ \A i \in 1 .. Len(r) : (q \o r)[Len(q) + i] = r[i]
<1>1. PICK M : q \in Seq(M)
  BY DEF IsSeq
<1>2. PICK N : r \in Seq(N)
  BY DEF IsSeq
<1>3. q \in Seq(M \cup N) /\ r \in Seq(M \cup N)
  BY <1>1, <1>2
<1>4. q \o r \in Seq(M \cup N)
  BY <1>3
<1> QED BY <1>3, <1>4 DEF IsSeq

LEMMA AppendSeq ==
  ASSUME NEW q, IsSeq(q), NEW x
  PROVE  /\ IsSeq(Append(q, x)) /\ Len(Append(q, x)) = Len(q) + 1
         /\ \A i \in 1 .. Len(q) : Append(q, x)[i] = q[i]
         /\ Append(q, x)[Len(q) + 1] = x
<1>1. PICK M : q \in Seq(M)
  BY DEF IsSeq
<1>2. q \in Seq(M \cup {x})
  BY <1>1
<1>3. Append(q, x) \in Seq(M \cup {x})
  BY <1>2
<1> QED BY <1>2, <1>3 DEF IsSeq

LEMMA TailSeq ==
  ASSUME NEW q, IsSeq(q), q # <<>>
  PROVE  /\ IsSeq(Tail(q)) /\ Len(Tail(q)) = Len(q) - 1 /\ Len(q) \in Nat \ {0}
         /\ \A i \in 1 .. Len(q) - 1 : Tail(q)[i] = q[i + 1]
<1>1. PICK M : q \in Seq(M)
  BY DEF IsSeq
<1>2. Tail(q) \in Seq(M)
  BY <1>1
<1> QED BY <1>1, <1>2 DEF IsSeq

LEMMA MappedSeq ==
  ASSUME NEW n \in Nat, NEW q, DOMAIN q = 1 .. n, q = [i \in 1 .. n |-> q[i]]
  PROVE  IsSeq(q) /\ Len(q) = n
<1> DEFINE M == {q[i] : i \in 1 .. n}
<1>1. q \in [1 .. n -> M]
  OBVIOUS
<1> HIDE DEF M
<1>2. q \in Seq(M) /\ Len(q) = n
  BY <1>1
<1> QED BY <1>2 DEF IsSeq

LEMMA SameSeq ==
  ASSUME NEW q, NEW r, IsSeq(q), IsSeq(r), Len(q) = Len(r),
         \A i \in 1 .. Len(q) : q[i] = r[i]
  PROVE  q = r
<1>1. PICK M : q \in Seq(M)
  BY DEF IsSeq
<1>2. PICK N : r \in Seq(N)
  BY DEF IsSeq
<1>3. q \in Seq(M \cup N) /\ r \in Seq(M \cup N)
  BY <1>1, <1>2
<1>4. q \in [1 .. Len(q) -> M \cup N] /\ r \in [1 .. Len(r) -> M \cup N]
  BY <1>3
<1> QED BY <1>4

LEMMA FramedEmpty ==
  ASSUME NEW a \in Nat
  PROVE  Framed(<<>>, a, a)
<1> DEFINE at == [i \in 0 .. 0 |-> a]
<1>1. at \in [0 .. 0 -> Nat] /\ at[0] = a
  OBVIOUS
<1> HIDE DEF at
<1> QED BY <1>1, NoneSeq DEF Framed

LEMMA FollowsNat ==
  ASSUME NEW a \in Nat, NEW p, NEW b, Follows(a, p, b)
  PROVE  b \in Nat /\ Frame(p)
BY DEF Follows, Frame, NoFrame

LEMMA FramedAppend ==
  ASSUME NEW q, NEW a \in Nat, NEW b \in Nat, NEW c, NEW p, Framed(q, a, b), Follows(b, p, c)
  PROVE  Framed(Append(q, p), a, c)
<1>1. PICK at \in [0 .. Len(q) -> Nat] :
        /\ at[0] = a /\ at[Len(q)] = b
        /\ \A i \in 1 .. Len(q) : Follows(at[i - 1], q[i], at[i])
  BY DEF Framed
<1> DEFINE n == Len(q)
           to == [i \in 0 .. n + 1 |-> IF i <= n THEN at[i] ELSE c]
<1>2. IsSeq(q) /\ n \in Nat
  BY LenSeq DEF Framed
<1>3. c \in Nat
  BY FollowsNat
<1>4. to \in [0 .. n + 1 -> Nat] /\ to[0] = a /\ to[n + 1] = c
      /\ \A i \in 0 .. n : to[i] = at[i]
  BY <1>1, <1>2, <1>3
<1> HIDE DEF to
<1>5. ASSUME NEW i \in 1 .. n + 1
      PROVE  Follows(to[i - 1], Append(q, p)[i], to[i])
  <2>1. CASE i \in 1 .. n
    <3>1. i - 1 \in 0 .. n /\ i \in 0 .. n
      BY <2>1, <1>2
    <3>2. to[i - 1] = at[i - 1] /\ to[i] = at[i] /\ Append(q, p)[i] = q[i]
      BY <2>1, <3>1, <1>2, <1>4, AppendSeq
    <3> QED BY <3>2, <2>1, <1>1
  <2>2. CASE i = n + 1
    <3>1. to[i - 1] = b /\ to[i] = c /\ Append(q, p)[i] = p
      BY <2>2, <1>1, <1>2, <1>4, AppendSeq
    <3> QED BY <3>1
  <2> QED BY <2>1, <2>2, <1>2
<1>6. IsSeq(Append(q, p)) /\ Len(Append(q, p)) = n + 1
  BY <1>2, AppendSeq
<1> QED BY <1>4, <1>5, <1>6 DEF Framed

LEMMA LinkedEmpty ==
  ASSUME NEW a \in Nat
  PROVE  Linked(<<>>, a, a)
<1> DEFINE at == [i \in 0 .. 0 |-> a]
<1>1. at \in [0 .. 0 -> Nat] /\ at[0] = a
  OBVIOUS
<1> HIDE DEF at
<1> QED BY <1>1, NoneSeq DEF Linked

LEMMA LinkedOne ==
  ASSUME NEW m, NEW a \in Nat, NEW b \in Nat, Passes(a, m, b)
  PROVE  Linked(<<m>>, a, b)
<1> DEFINE at == [i \in 0 .. 1 |-> IF i = 0 THEN a ELSE b]
<1>1. at \in [0 .. 1 -> Nat] /\ at[0] = a /\ at[1] = b
  OBVIOUS
<1> HIDE DEF at
<1>2. \A i \in 1 .. 1 : Passes(at[i - 1], <<m>>[i], at[i])
  BY <1>1, OneSeq
<1> QED BY <1>1, <1>2, OneSeq DEF Linked

LEMMA LinkedConcat ==
  ASSUME NEW q, NEW r, NEW a \in Nat, NEW b \in Nat, NEW c \in Nat,
         Linked(q, a, b), Linked(r, b, c)
  PROVE  Linked(q \o r, a, c)
<1>1. PICK at \in [0 .. Len(q) -> Nat] :
        /\ at[0] = a /\ at[Len(q)] = b
        /\ \A i \in 1 .. Len(q) : Passes(at[i - 1], q[i], at[i])
  BY DEF Linked
<1>2. PICK bt \in [0 .. Len(r) -> Nat] :
        /\ bt[0] = b /\ bt[Len(r)] = c
        /\ \A i \in 1 .. Len(r) : Passes(bt[i - 1], r[i], bt[i])
  BY DEF Linked
<1> DEFINE n == Len(q)
           k == Len(r)
           to == [i \in 0 .. n + k |-> IF i <= n THEN at[i] ELSE bt[i - n]]
<1>3. IsSeq(q) /\ n \in Nat /\ IsSeq(r) /\ k \in Nat
  BY LenSeq DEF Linked
<1>4. /\ to \in [0 .. n + k -> Nat] /\ to[0] = a
      /\ \A i \in 0 .. n : to[i] = at[i]
      /\ \A i \in 1 .. k : to[n + i] = bt[i]
  BY <1>1, <1>2, <1>3
<1>5. to[n] = b /\ to[n + k] = c
  <2>1. to[n] = b
    BY <1>1, <1>3, <1>4
  <2>2. CASE k = 0
    <3>1. n + k = n /\ c = b
      BY <2>2, <1>2, <1>3
    <3> QED BY <2>1, <3>1
  <2>3. CASE k # 0
    <3>1. k \in 1 .. k
      BY <2>3, <1>3
    <3>2. to[n + k] = bt[k]
      BY <3>1, <1>4
    <3> QED BY <2>1, <3>2, <1>2
  <2> HIDE DEF to, n, k
  <2> QED BY <2>1, <2>2, <2>3
<1> HIDE DEF to
<1>6. /\ IsSeq(q \o r) /\ Len(q \o r) = n + k
      /\ \A i \in 1 .. n : (q \o r)[i] = q[i]
      /\ \A i \in 1 .. k : (q \o r)[n + i] = r[i]
  BY <1>3, ConcatSeq
<1>7. ASSUME NEW i \in 1 .. n + k
      PROVE  Passes(to[i - 1], (q \o r)[i], to[i])
  <2>1. CASE i \in 1 .. n
    <3>1. i - 1 \in 0 .. n /\ i \in 0 .. n
      BY <2>1, <1>3
    <3>2. to[i - 1] = at[i - 1] /\ to[i] = at[i] /\ (q \o r)[i] = q[i]
      BY <2>1, <3>1, <1>4, <1>6
    <3> QED BY <3>2, <2>1, <1>1
  <2>2. CASE i \notin 1 .. n
    <3> DEFINE j == i - n
    <3>1. j \in 1 .. k /\ i = n + j
      BY <2>2, <1>3
    <3> HIDE DEF j
    <3>2. to[i] = bt[j] /\ (q \o r)[i] = r[j]
      BY <3>1, <1>4, <1>6
    <3>3. to[i - 1] = bt[j - 1]
      <4>1. CASE j = 1
        BY <4>1, <3>1, <1>2, <1>3, <1>5
      <4>2. CASE j # 1
        <5>1. j - 1 \in 1 .. k /\ i - 1 = n + (j - 1)
          BY <4>2, <3>1, <1>3
        <5> QED BY <5>1, <1>4
      <4> QED BY <4>1, <4>2
    <3> QED BY <3>1, <3>2, <3>3, <1>2
  <2> QED BY <2>1, <2>2
<1> QED BY <1>4, <1>5, <1>6, <1>7 DEF Linked

LEMMA LinkedTail ==
  ASSUME NEW q, NEW a \in Nat, NEW b \in Nat, Linked(q, a, b), q # <<>>
  PROVE  \E c \in Nat : Passes(a, q[1], c) /\ Linked(Tail(q), c, b)
<1>1. PICK at \in [0 .. Len(q) -> Nat] :
        /\ at[0] = a /\ at[Len(q)] = b
        /\ \A i \in 1 .. Len(q) : Passes(at[i - 1], q[i], at[i])
  BY DEF Linked
<1> DEFINE n == Len(q)
           to == [i \in 0 .. n - 1 |-> at[i + 1]]
<1>2. IsSeq(q) /\ n \in Nat \ {0}
  BY LenSeq DEF Linked
<1>3. /\ IsSeq(Tail(q)) /\ Len(Tail(q)) = n - 1
      /\ \A i \in 1 .. n - 1 : Tail(q)[i] = q[i + 1]
  BY <1>2, TailSeq
<1>4. /\ to \in [0 .. n - 1 -> Nat] /\ to[0] = at[1] /\ to[n - 1] = b
      /\ \A i \in 0 .. n - 1 : to[i] = at[i + 1]
  BY <1>1, <1>2
<1> HIDE DEF to
<1>5. ASSUME NEW i \in 1 .. n - 1
      PROVE  Passes(to[i - 1], Tail(q)[i], to[i])
  <2>1. i + 1 \in 1 .. n /\ i - 1 \in 0 .. n - 1 /\ i \in 0 .. n - 1
    BY <1>2
  <2>2. (i - 1) + 1 = i /\ (i + 1) - 1 = i
    BY <1>2
  <2>3. to[i - 1] = at[i] /\ to[i] = at[i + 1] /\ Tail(q)[i] = q[i + 1]
    BY <2>1, <2>2, <1>3, <1>4
  <2> QED BY <2>1, <2>2, <2>3, <1>1
<1>6. Passes(a, q[1], at[1]) /\ at[1] \in Nat
  <2>1. 1 \in 1 .. n /\ 1 - 1 = 0 /\ 1 \in 0 .. n
    BY <1>2
  <2> QED BY <2>1, <1>1
<1>7. Linked(Tail(q), at[1], b)
  BY <1>3, <1>4, <1>5 DEF Linked
<1> QED BY <1>6, <1>7

-----------------------------------------------------------------------------
(* What a session writes of a picture it held.                             *)

\* The messages of a picture.
Packets(q) == [i \in 1 .. Len(q) |-> Packet(q[i])]
\* A snapshot is taken apart when it leaves the feed.
Plain(q) == \A i \in 1 .. Len(q) : q[i].type # "snapshot"
SessionFields == DOMAIN NewSession

LEMMA SessionFieldsOf ==
  SessionFields = {"state", "thread", "slot", "handle", "connected", "awaiting_key", "picture",
                   "kind", "handed", "broken"}
BY DEF SessionFields, NewSession

LEMMA FramedLinked ==
  ASSUME NEW q, NEW a \in Nat, NEW b \in Nat, Framed(q, a, b)
  PROVE  Linked(Packets(q), a, b) /\ Plain(Packets(q)) /\ Len(Packets(q)) = Len(q)
<1>1. PICK at \in [0 .. Len(q) -> Nat] :
        /\ at[0] = a /\ at[Len(q)] = b
        /\ \A i \in 1 .. Len(q) : Follows(at[i - 1], q[i], at[i])
  BY DEF Framed
<1>2. IsSeq(q) /\ Len(q) \in Nat
  BY LenSeq DEF Framed
<1>3. IsSeq(Packets(q)) /\ Len(Packets(q)) = Len(q)
  <2> DEFINE p == Packets(q)
  <2>1. DOMAIN p = 1 .. Len(q) /\ p = [i \in 1 .. Len(q) |-> p[i]]
    BY DEF Packets
  <2> HIDE DEF p
  <2>2. IsSeq(p) /\ Len(p) = Len(q)
    BY <2>1, <1>2, MappedSeq
  <2> QED BY <2>2 DEF p
<1>4. \A i \in 1 .. Len(q) : Packets(q)[i] = Packet(q[i])
  BY DEF Packets
<1>5. \A p : Packet(p).type = "packet" /\ Packet(p).packet = p
  BY DEF Packet
<1>6. \A i \in 1 .. Len(q) : Passes(at[i - 1], Packets(q)[i], at[i])
  BY <1>1, <1>4, <1>5 DEF Passes
<1>7. Plain(Packets(q))
  BY <1>3, <1>4, <1>5 DEF Plain
<1> QED BY <1>1, <1>3, <1>6, <1>7 DEF Linked

\* The frames of a picture whose writes fail are skipped until a keyframe goes through; from
\* there on the picture is the whole of it.
LEMMA WrittenPicture ==
  ASSUME NEW se, DOMAIN se = SessionFields, se.awaiting_key = TRUE, se.broken = FALSE,
         NEW q, q # <<>>, q[1].key, NEW a \in Nat, Framed(q, NoFrame, a), NEW failing
  PROVE  /\ Written(se, q, failing) \in {se, [se EXCEPT !.awaiting_key = FALSE, !.handed = a]}
         /\ a # NoFrame
<1>1. PICK at \in [0 .. Len(q) -> Nat] :
        /\ at[0] = NoFrame /\ at[Len(q)] = a
        /\ \A i \in 1 .. Len(q) : Follows(at[i - 1], q[i], at[i])
  BY DEF Framed
<1> DEFINE n == Len(q)
           starts(i) == q[i].key /\ i \notin failing
           started(i) == \E j \in 1 .. i : starts(j)
           made == [i \in 0 .. n |-> IF started(i)
                                     THEN [se EXCEPT !.awaiting_key = FALSE, !.handed = at[i]]
                                     ELSE se]
           run == CHOOSE f : f = [i \in 0 .. n |->
                                    IF i = 0 THEN se ELSE write(f[i - 1], q[i], i \notin failing)]
<1>2. n \in Nat /\ n # 0
  BY LenSeq DEF Framed
<1>3. \A i \in 1 .. n : at[i] # NoFrame
  <2> SUFFICES ASSUME {i \in 1 .. n : at[i] = NoFrame} # {} PROVE FALSE
    OBVIOUS
  <2>1. PICK i \in 1 .. n : at[i] = NoFrame /\ \A j \in 1 .. n : at[j] = NoFrame => i <= j
    <3> DEFINE S == {i \in 1 .. n : at[i] = NoFrame}
    <3>1. S \subseteq Nat /\ S # {}
      OBVIOUS
    <3>2. \E x \in S : \A y \in S : x <= y
      BY <3>1, SmallestNat
    <3> QED BY <3>2
  <2>2. Follows(at[i - 1], q[i], at[i])
    BY <1>1
  <2>3. CASE i = 1
    BY <2>1, <2>2, <2>3 DEF Follows, Frame, NoFrame
  <2>4. CASE i # 1
    <3>1. i - 1 \in 1 .. n /\ ~(i <= i - 1)
      BY <2>4, <1>2
    <3>2. at[i - 1] # NoFrame
      BY <2>1, <3>1
    <3> QED BY <2>1, <2>2, <3>2 DEF Follows, Frame, NoFrame
  <2> QED BY <2>3, <2>4
<1>4. ASSUME NEW i \in 1 .. n
      PROVE  write(made[i - 1], q[i], i \notin failing) = made[i]
  <2>1. i - 1 \in 0 .. n /\ i \in 0 .. n
    BY <1>2
  <2>2. Follows(at[i - 1], q[i], at[i])
    BY <1>1
  <2>3. started(i) <=> started(i - 1) \/ starts(i)
    <3> HIDE DEF starts
    <3>1. \A j : j \in 1 .. i <=> j \in 1 .. i - 1 \/ j = i
      BY <1>2
    <3> QED BY <3>1
  <2> HIDE DEF started
  <2>4. /\ made[i] = IF started(i) THEN [se EXCEPT !.awaiting_key = FALSE, !.handed = at[i]]
                     ELSE se
        /\ made[i - 1] = IF started(i - 1)
                         THEN [se EXCEPT !.awaiting_key = FALSE, !.handed = at[i - 1]] ELSE se
    BY <2>1
  <2>5. CASE ~started(i - 1) /\ starts(i)
    <3>2. q[i].needs = NoFrame /\ at[i] = q[i].n /\ q[i].ref /\ q[i].key
      BY <2>2, <2>5 DEF Follows, Frame
    <3> HIDE DEF made
    <3>3. write(se, q[i], i \notin failing)
            = [se EXCEPT !.awaiting_key = FALSE, !.broken = FALSE, !.handed = at[i]]
      BY <3>2, <2>5 DEF write
    <3> QED BY <2>3, <2>4, <2>5, <3>3, SessionFieldsOf
  <2>6. CASE ~started(i - 1) /\ ~starts(i)
    <3> HIDE DEF made
    <3>1. write(se, q[i], i \notin failing) = se
      BY <2>6 DEF write
    <3> QED BY <2>3, <2>4, <2>6, <3>1
  <2>7. CASE started(i - 1)
    <3>1. i - 1 \in 1 .. n
      BY <2>7, <1>2 DEF started
    <3> DEFINE old == [se EXCEPT !.awaiting_key = FALSE, !.handed = at[i - 1]]
    <3>2. made[i - 1] = old
      BY <2>4, <2>7
    <3>3. at[i - 1] # NoFrame
      BY <3>1, <1>3
    <3>4. /\ old.awaiting_key = FALSE /\ old.handed = at[i - 1] /\ old.broken = FALSE
          /\ DOMAIN old = SessionFields
      BY SessionFieldsOf
    <3>5. /\ q[i].needs = NoFrame \/ q[i].needs = at[i - 1]
          /\ at[i] = IF q[i].ref THEN q[i].n ELSE at[i - 1]
      BY <2>2, <3>3 DEF Follows, Frame
    <3> HIDE DEF made
    <3>6. [se EXCEPT !.awaiting_key = FALSE, !.handed = at[i]]
            = [old EXCEPT !.awaiting_key = FALSE, !.broken = FALSE, !.handed = at[i]]
      BY SessionFieldsOf
    <3> HIDE DEF old
    <3>7. write(old, q[i], i \notin failing)
            = [old EXCEPT !.awaiting_key = FALSE, !.broken = FALSE, !.handed = at[i]]
      BY <3>4, <3>5 DEF write
    <3> QED BY <2>3, <2>4, <2>7, <3>2, <3>6, <3>7
  <2> QED BY <2>5, <2>6, <2>7
<1>5. /\ made[0] = se /\ DOMAIN made = 0 .. n
      /\ made[n] \in {se, [se EXCEPT !.awaiting_key = FALSE, !.handed = a]}
  BY <1>1, <1>2
<1>6. \A i \in 0 .. n : made[i] = IF i = 0 THEN se ELSE write(made[i - 1], q[i], i \notin failing)
  <2> HIDE DEF made
  <2> QED BY <1>4, <1>5, <1>2
<1>7. made = [i \in 0 .. n |-> IF i = 0 THEN se ELSE write(made[i - 1], q[i], i \notin failing)]
  <2>1. made = [i \in 0 .. n |-> made[i]]
    OBVIOUS
  <2> HIDE DEF made
  <2> QED BY <2>1, <1>6
<1> HIDE DEF made
<1>8. run = [i \in 0 .. n |-> IF i = 0 THEN se ELSE write(run[i - 1], q[i], i \notin failing)]
  BY <1>7, Zenon
<1>9. Written(se, q, failing) = run[n]
  BY DEF Written
<1> HIDE DEF run
<1>10. \A i \in 0 .. n : run[i] = made[i]
  <2> SUFFICES ASSUME {i \in 0 .. n : run[i] # made[i]} # {} PROVE FALSE
    OBVIOUS
  <2>1. PICK i \in 0 .. n : run[i] # made[i] /\ \A j \in 0 .. n : run[j] # made[j] => i <= j
    <3> DEFINE S == {i \in 0 .. n : run[i] # made[i]}
    <3>1. S \subseteq Nat /\ S # {}
      OBVIOUS
    <3>2. \E x \in S : \A y \in S : x <= y
      BY <3>1, SmallestNat
    <3> QED BY <3>2
  <2>2. run[i] = IF i = 0 THEN se ELSE write(run[i - 1], q[i], i \notin failing)
    BY <1>8
  <2>3. CASE i = 0
    BY <2>1, <2>2, <2>3, <1>5
  <2>4. CASE i # 0
    <3>1. i - 1 \in 0 .. n /\ i \in 1 .. n /\ ~(i <= i - 1)
      BY <2>4, <1>2
    <3>2. run[i - 1] = made[i - 1]
      BY <2>1, <3>1
    <3> QED BY <2>1, <2>2, <2>4, <3>1, <3>2, <1>4
  <2> QED BY <2>3, <2>4
<1>11. run[n] = made[n] /\ n \in 1 .. n
  BY <1>10, <1>2
<1> QED BY <1>5, <1>9, <1>11, <1>3, <1>1

-----------------------------------------------------------------------------
(* The way of an item: a feed, a stream, the channel, a session.           *)

\* What a session shows, in front of a stretch of items that starts at frame a.
SessionAt(se, a) ==
  /\ ~se.awaiting_key => se.handed = a /\ a # NoFrame
  /\ ~se.connected =>
       /\ se.awaiting_key
       /\ se.picture # <<>> => se.picture[1].key /\ Framed(se.picture, NoFrame, a)

\* Whether reader rd may go on behind frame z of stream s.
At(rd, s, z) == s \in rd.subs /\ s \notin rd.waiting => z \in {NoFrame, rd.last}

\* The items of session s among those that wait for the event loop.
ReadsOf(rs, s) == [i \in 1 .. Len(rs) |-> IF rs[i].s = s THEN rs[i].item ELSE Lost]

Chain(s, se, rs, queued, f, readers) ==
  /\ Plain(ReadsOf(rs, s)) /\ Plain(queued)
  /\ \E a, b, c, z \in Nat :
       /\ SessionAt(se, a) /\ (se.state # "live" => a = b)
       /\ Linked(ReadsOf(rs, s), a, b) /\ Linked(queued, b, c) /\ Linked(f, c, z)
       /\ \A r \in Readers : At(readers[r], s, z)

\* What a reader's step makes of a stream's feed follows what was there.
Moves(s, rd, f, new, g) ==
  \A c, z \in Nat :
    Linked(f, c, z) /\ At(rd, s, z) => \E y \in Nat : Linked(g, c, y) /\ At(new, s, y)

LEMMA LinkedNone ==
  ASSUME NEW q, q = <<>>, NEW a, NEW b, Linked(q, a, b)
  PROVE  a = b
BY NoneSeq DEF Linked

LEMMA LinkedSeq ==
  ASSUME NEW q, NEW a, NEW b, Linked(q, a, b)
  PROVE  IsSeq(q)
BY DEF Linked

\* Messages that are neither a track nor of packets.
Silent(m) == m.type \notin {"track", "packet", "snapshot"}

LEMMA SilentPasses ==
  ASSUME NEW m, Silent(m), NEW a, NEW b
  PROVE  Passes(a, m, b) <=> b = a
BY DEF Silent, Passes

LEMMA SilentOnes ==
  /\ Silent(Lost) /\ \A what : Silent(Notice(what)) /\ \A failed : Silent(End(failed))
BY DEF Silent, Lost, Notice, End

LEMMA ReadsOfSeq ==
  ASSUME NEW rs, IsSeq(rs), NEW s
  PROVE  /\ IsSeq(ReadsOf(rs, s)) /\ Len(ReadsOf(rs, s)) = Len(rs)
         /\ \A i \in 1 .. Len(rs) :
              ReadsOf(rs, s)[i] = IF rs[i].s = s THEN rs[i].item ELSE Lost
<1> DEFINE p == ReadsOf(rs, s)
<1>1. DOMAIN p = 1 .. Len(rs) /\ p = [i \in 1 .. Len(rs) |-> p[i]]
  BY DEF ReadsOf
<1>2. \A i \in 1 .. Len(rs) : p[i] = IF rs[i].s = s THEN rs[i].item ELSE Lost
  BY DEF ReadsOf
<1> HIDE DEF p
<1>3. IsSeq(p) /\ Len(p) = Len(rs)
  BY <1>1, LenSeq, MappedSeq
<1> QED BY <1>2, <1>3 DEF p

LEMMA ReadsOfTail ==
  ASSUME NEW rs, IsSeq(rs), rs # <<>>, NEW s
  PROVE  ReadsOf(Tail(rs), s) = Tail(ReadsOf(rs, s)) /\ ReadsOf(rs, s) # <<>>
<1> DEFINE p == ReadsOf(rs, s)
           u == Tail(rs)
           t == ReadsOf(u, s)
           n == Len(rs)
<1>1. /\ IsSeq(u) /\ Len(u) = n - 1 /\ n \in Nat \ {0}
      /\ \A i \in 1 .. n - 1 : u[i] = rs[i + 1]
  BY TailSeq
<1>2. IsSeq(p) /\ Len(p) = n
      /\ \A i \in 1 .. n : p[i] = IF rs[i].s = s THEN rs[i].item ELSE Lost
  BY ReadsOfSeq
<1> HIDE DEF u
<1>3. IsSeq(t) /\ Len(t) = Len(u)
      /\ \A i \in 1 .. Len(u) : t[i] = IF u[i].s = s THEN u[i].item ELSE Lost
  BY <1>1, ReadsOfSeq
<1> HIDE DEF p, t, n
<1>4. p # <<>>
  BY <1>1, <1>2, LenSeq
<1> DEFINE v == Tail(p)
<1>5. IsSeq(v) /\ Len(v) = n - 1 /\ \A i \in 1 .. n - 1 : v[i] = p[i + 1]
  BY <1>2, <1>4, TailSeq
<1> HIDE DEF v
<1>6. \A i \in 1 .. n - 1 : t[i] = v[i]
  <2> TAKE i \in 1 .. n - 1
  <2>1. i + 1 \in 1 .. n
    BY <1>1
  <2> QED BY <2>1, <1>1, <1>2, <1>3, <1>5
<1>7. t = v
  BY <1>1, <1>3, <1>5, <1>6, SameSeq
<1> QED BY <1>4, <1>7 DEF p, t, u, v

LEMMA ReadsOfAppend ==
  ASSUME NEW rs, IsSeq(rs), NEW e, NEW s
  PROVE  ReadsOf(Append(rs, e), s) = Append(ReadsOf(rs, s), IF e.s = s THEN e.item ELSE Lost)
<1> DEFINE p == ReadsOf(rs, s)
           u == Append(rs, e)
           t == ReadsOf(u, s)
           x == IF e.s = s THEN e.item ELSE Lost
           v == Append(p, x)
           n == Len(rs)
<1>1. /\ IsSeq(u) /\ Len(u) = n + 1 /\ n \in Nat
      /\ \A i \in 1 .. n : u[i] = rs[i]
      /\ u[n + 1] = e
  BY AppendSeq, LenSeq
<1>2. IsSeq(p) /\ Len(p) = n
      /\ \A i \in 1 .. n : p[i] = IF rs[i].s = s THEN rs[i].item ELSE Lost
  BY ReadsOfSeq
<1> HIDE DEF u
<1>3. IsSeq(t) /\ Len(t) = Len(u)
      /\ \A i \in 1 .. Len(u) : t[i] = IF u[i].s = s THEN u[i].item ELSE Lost
  BY <1>1, ReadsOfSeq
<1> HIDE DEF p, t, n, x
<1>4. IsSeq(v) /\ Len(v) = n + 1 /\ (\A i \in 1 .. n : v[i] = p[i]) /\ v[n + 1] = x
  BY <1>2, AppendSeq
<1> HIDE DEF v
<1>5. \A i \in 1 .. n + 1 : t[i] = v[i]
  <2> TAKE i \in 1 .. n + 1
  <2>1. CASE i \in 1 .. n
    BY <2>1, <1>1, <1>2, <1>3, <1>4
  <2>2. CASE i = n + 1
    <3>1. t[i] = IF e.s = s THEN e.item ELSE Lost
      BY <2>2, <1>1, <1>3
    <3> QED BY <3>1, <2>2, <1>4 DEF x
  <2> QED BY <2>1, <2>2, <1>1
<1>6. t = v
  BY <1>1, <1>3, <1>4, <1>5, SameSeq
<1> QED BY <1>6 DEF p, t, u, v, x

\* Where none of the items is of the session.
LEMMA LinkedIdle ==
  ASSUME NEW rs, IsSeq(rs), NEW s, \A i \in 1 .. Len(rs) : rs[i].s # s, NEW a \in Nat
  PROVE  Linked(ReadsOf(rs, s), a, a) /\ Plain(ReadsOf(rs, s))
<1> DEFINE p == ReadsOf(rs, s)
           at == [i \in 0 .. Len(rs) |-> a]
<1>1. IsSeq(p) /\ Len(p) = Len(rs) /\ \A i \in 1 .. Len(rs) : p[i] = Lost
  BY ReadsOfSeq
<1>2. Len(rs) \in Nat
  BY LenSeq
<1>3. at \in [0 .. Len(rs) -> Nat] /\ \A i \in 0 .. Len(rs) : at[i] = a
  OBVIOUS
<1> HIDE DEF at, p
<1>4. \A i \in 1 .. Len(rs) : Passes(at[i - 1], p[i], at[i])
  <2> TAKE i \in 1 .. Len(rs)
  <2>1. i - 1 \in 0 .. Len(rs) /\ i \in 0 .. Len(rs)
    BY <1>2
  <2> QED BY <2>1, <1>1, <1>3, SilentPasses, SilentOnes
<1>5. at[0] = a /\ at[Len(rs)] = a
  BY <1>2, <1>3
<1>6. Linked(p, a, a)
  BY <1>1, <1>3, <1>4, <1>5 DEF Linked
<1>7. Plain(p)
  BY <1>1, SilentOnes DEF Plain, Silent
<1> QED BY <1>6, <1>7 DEF p

LEMMA AppendedOne ==
  ASSUME NEW q, IsSeq(q), NEW m, NEW o, IsSeq(o), Len(o) = 1, o[1] = m
  PROVE  Append(q, m) = q \o o
<1> DEFINE n == Len(q)
           u == Append(q, m)
           v == q \o o
<1>1. IsSeq(v) /\ Len(v) = n + Len(o) /\ (\A i \in 1 .. n : v[i] = q[i])
      /\ \A i \in 1 .. Len(o) : v[n + i] = o[i]
  <2>1. IsSeq(q \o o)
    BY ConcatSeq
  <2>2. Len(q \o o) = Len(q) + Len(o)
    BY ConcatSeq
  <2>3. \A i \in 1 .. Len(q) : (q \o o)[i] = q[i]
    BY ConcatSeq
  <2>4. \A i \in 1 .. Len(o) : (q \o o)[Len(q) + i] = o[i]
    BY ConcatSeq
  <2> HIDE DEF n
  <2> QED BY <2>1, <2>2, <2>3, <2>4 DEF n
<1>2. IsSeq(u) /\ Len(u) = n + 1 /\ (\A i \in 1 .. n : u[i] = q[i]) /\ u[n + 1] = m
  BY AppendSeq
<1>3. n \in Nat
  BY LenSeq
<1> HIDE DEF u, v, n
<1>4. v[n + 1] = m /\ Len(v) = n + 1
  BY <1>1
<1>5. \A i \in 1 .. n + 1 : u[i] = v[i]
  BY <1>1, <1>2, <1>3, <1>4
<1>6. u = v
  BY <1>1, <1>2, <1>4, <1>5, SameSeq
<1> QED BY <1>6 DEF u, v

LEMMA LinkedAppend ==
  ASSUME NEW q, NEW a \in Nat, NEW b \in Nat, NEW c \in Nat, NEW m,
         Linked(q, a, b), Passes(b, m, c)
  PROVE  Linked(Append(q, m), a, c) /\ Linked(q \o <<m>>, a, c)
<1> DEFINE o == <<m>>
<1>1. Linked(o, b, c) /\ IsSeq(o) /\ Len(o) = 1 /\ o[1] = m
  BY LinkedOne, OneSeq
<1> HIDE DEF o
<1>2. Linked(q \o o, a, c)
  BY <1>1, LinkedConcat
<1>3. Append(q, m) = q \o o
  <2>1. IsSeq(q)
    BY LinkedSeq
  <2> QED BY <2>1, <1>1, AppendedOne, Zenon
<1>4. Linked(Append(q, m), a, c)
  BY <1>2, <1>3
<1> QED BY <1>2, <1>4 DEF o

-----------------------------------------------------------------------------
(* What readers send: tracks, notices and ends.                            *)

\* A reader whose streams only leave.
Quiet(new, rd) ==
  new.subs \subseteq rd.subs /\ rd.waiting \cap new.subs \subseteq new.waiting /\ new.last = rd.last

\* What a reader caches can be handed from its start to the last frame.
Whole(rd) ==
  /\ rd.last \in Nat /\ rd.picture \in {"display", "bframes", "pyramid"}
  /\ rd.gop_valid => \E z \in {NoFrame, rd.last} : Framed(rd.gop, NoFrame, z)

LEMMA QuietAt ==
  ASSUME NEW new, NEW rd, Quiet(new, rd), NEW s, NEW z, At(rd, s, z)
  PROVE  At(new, s, z)
BY DEF Quiet, At

LEMMA MovesQuiet ==
  ASSUME NEW s, NEW rd, NEW f, NEW new, NEW g, Quiet(new, rd),
         \/ g = f
         \/ \E m : Silent(m) /\ g = f \o <<m>>
         \/ \E m, k : Silent(m) /\ Silent(k) /\ g = f \o <<m, k>>
  PROVE  Moves(s, rd, f, new, g)
<1> SUFFICES ASSUME NEW c \in Nat, NEW z \in Nat, Linked(f, c, z), At(rd, s, z)
             PROVE  \E y \in Nat : Linked(g, c, y) /\ At(new, s, y)
  BY DEF Moves
<1>1. At(new, s, z)
  BY QuietAt
<1>2. Linked(g, c, z)
  <2>1. CASE g = f
    BY <2>1
  <2>2. ASSUME NEW m, Silent(m), g = f \o <<m>>
        PROVE  Linked(g, c, z)
    <3>1. Passes(z, m, z)
      BY <2>2, SilentPasses
    <3> QED BY <3>1, <2>2, LinkedAppend
  <2>3. ASSUME NEW m, NEW k, Silent(m), Silent(k), g = f \o <<m, k>>
        PROVE  Linked(g, c, z)
    <3> DEFINE q == <<m, k>>
               at == [i \in 0 .. 2 |-> z]
    <3>1. IsSeq(q) /\ Len(q) = 2 /\ q[1] = m /\ q[2] = k
      BY TwoSeq
    <3>2. at \in [0 .. 2 -> Nat] /\ at[0] = z /\ at[1] = z /\ at[2] = z
      OBVIOUS
    <3> HIDE DEF at, q
    <3>3. Passes(z, m, z) /\ Passes(z, k, z)
      BY <2>3, SilentPasses
    <3>4. \A i \in 1 .. 2 : Passes(at[i - 1], q[i], at[i])
      <4> TAKE i \in 1 .. 2
      <4>1. i = 1 \/ i = 2
        OBVIOUS
      <4> QED BY <4>1, <3>1, <3>2, <3>3
    <3>5. Linked(q, z, z)
      BY <3>1, <3>2, <3>4 DEF Linked
    <3>6. Linked(f \o q, c, z)
      BY <3>5, LinkedConcat
    <3> QED BY <3>6, <2>3 DEF q
  <2> QED BY <2>1, <2>2, <2>3
<1> QED BY <1>1, <1>2

LEMMA MovesTrans ==
  ASSUME NEW s, NEW rd, NEW f, NEW mid, NEW g, NEW new, NEW h,
         Moves(s, rd, f, mid, g), Moves(s, mid, g, new, h)
  PROVE  Moves(s, rd, f, new, h)
BY DEF Moves

\* Streams leave a reader, which keeps its picture.
LEMMA KeepQuiet ==
  ASSUME NEW rd, Sound(rd), NEW S, S \subseteq rd.subs
  PROVE  /\ Quiet(Keep(rd, S), rd) /\ (Whole(rd) => Whole(Keep(rd, S)))
         /\ Keep(rd, S).subs = S /\ Keep(rd, S).waiting = rd.waiting \cap S
         /\ Sound(Keep(rd, S)) /\ Keep(rd, S).gop = rd.gop
         /\ Keep(rd, S).gop_valid = rd.gop_valid /\ Keep(rd, S).picture = rd.picture
<1> DEFINE new == Keep(rd, S)
<1>1. /\ new.subs = S /\ new.waiting = rd.waiting \cap S /\ new.last = rd.last
      /\ new.gop = rd.gop /\ new.gop_valid = rd.gop_valid /\ new.picture = rd.picture
  BY FieldsOf DEF Keep, Sound
<1>2. Sound(new)
  BY KeepShrinks DEF Shrunk
<1> HIDE DEF new
<1>3. Quiet(new, rd) /\ (Whole(rd) => Whole(new))
  BY <1>1 DEF Quiet, Whole
<1> QED BY <1>1, <1>2, <1>3 DEF new

LEMMA LeaveQuiet ==
  ASSUME NEW rd, Sound(rd), NEW S
  PROVE  Quiet(leave(rd, S), rd) /\ (Whole(rd) => Whole(leave(rd, S)))
<1> DEFINE left == Keep(rd, rd.subs \ S)
<1>1. Quiet(left, rd) /\ (Whole(rd) => Whole(left)) /\ Sound(left)
  BY KeepQuiet
<1>2. leave(rd, S) = left \/ leave(rd, S) = [left EXCEPT !.empty = "yes"]
  BY DEF leave
<1> HIDE DEF left
<1>3. CASE leave(rd, S) = left
  BY <1>1, <1>3
<1>4. CASE leave(rd, S) = [left EXCEPT !.empty = "yes"]
  BY <1>1, <1>4, FieldsOf DEF Quiet, Whole, Sound
<1> QED BY <1>2, <1>3, <1>4

LEMMA ReceivedWhole ==
  ASSUME NEW rd, Sound(rd), Whole(rd)
  PROVE  Quiet(received(rd), rd) /\ Whole(received(rd)) /\ Sound(received(rd))
<1>0. Sound(received(rd))
  BY ReceivedShrinks DEF Shrunk
<1>1. CASE ~rd.outage
  BY <1>1 DEF received, Quiet
<1>2. CASE rd.outage
  <2> DEFINE left == Keep(rd, (rd.subs \ rd.told) \cup Open(rd.told))
  <2>1. Quiet(left, rd) /\ Whole(left) /\ Sound(left)
    BY KeepQuiet DEF Open, Sound
  <2>2. received(rd) = [left EXCEPT !.outage = FALSE, !.told = {}]
    BY <1>2 DEF received
  <2> HIDE DEF left
  <2> QED BY <2>1, <2>2, <1>0, FieldsOf DEF Quiet, Whole, Sound
<1> QED BY <1>1, <1>2

LEMMA ReceivedMoves ==
  ASSUME NEW rd, Sound(rd), Whole(rd), NEW s \in Streams
  PROVE  Moves(s, rd, feed[s], received(rd), Back(rd)[s])
<1>1. Back(rd)[s] = feed[s] \o <<Notice("reconnected")>> \/ Back(rd)[s] = feed[s]
  BY DEF Back, Sent
<1> QED BY <1>1, ReceivedWhole, MovesQuiet, SilentOnes

LEMMA TrackPasses ==
  ASSUME NEW kind, NEW a
  PROVE  Passes(a, Track(kind), NoFrame)
BY DEF Track, Passes

LEMMA PublishTrackWhole ==
  ASSUME NEW rd, Sound(rd), rd.last \in Nat,
         rd.picture \in {"display", "bframes", "pyramid"}, NEW kind
  PROVE  LET new == PublishTrack(rd, kind)
         IN new.subs = Open(rd.subs) /\ new.last = rd.last /\ Whole(new)
<1> DEFINE left == Keep(rd, Open(rd.subs))
           new == PublishTrack(rd, kind)
<1>1. /\ Sound(left) /\ left.subs = Open(rd.subs) /\ left.last = rd.last
      /\ left.picture = rd.picture
  BY KeepQuiet DEF Open, Quiet
<1>2. new = [left EXCEPT !.track = kind, !.gop = <<>>, !.gop_valid = TRUE, !.published = TRUE]
  BY DEF PublishTrack
<1> HIDE DEF left
<1>3. /\ new.subs = Open(rd.subs) /\ new.last = rd.last /\ new.gop = <<>>
      /\ new.picture = rd.picture
  BY <1>1, <1>2, FieldsOf DEF Sound
<1> HIDE DEF new
<1>4. Framed(<<>>, NoFrame, NoFrame)
  BY FramedEmpty DEF NoFrame
<1>5. Whole(new)
  BY <1>3, <1>4 DEF Whole
<1> QED BY <1>3, <1>5 DEF new

\* Behind the track of a new picture nothing is handed before a keyframe.
LEMMA PublishTrackMoves ==
  ASSUME NEW old, NEW rd, NEW new, new.subs = Open(rd.subs), NEW kind, NEW s, NEW f, NEW g,
         g = IF s \in Open(rd.subs) THEN f \o <<Track(kind)>> ELSE f
  PROVE  Moves(s, old, f, new, g)
<1> SUFFICES ASSUME NEW c \in Nat, NEW z \in Nat, Linked(f, c, z)
             PROVE  \E y \in Nat : Linked(g, c, y) /\ At(new, s, y)
  BY DEF Moves
<1>1. CASE s \in Open(rd.subs)
  <2>1. Linked(f \o <<Track(kind)>>, c, NoFrame)
    BY TrackPasses, LinkedAppend DEF NoFrame
  <2> QED BY <1>1, <2>1 DEF At, NoFrame
<1>2. CASE s \notin Open(rd.subs)
  BY <1>2 DEF At
<1> QED BY <1>1, <1>2

LEMMA LostWhole ==
  ASSUME NEW rd, Sound(rd), Whole(rd)
  PROVE  Quiet(lost(rd), rd) /\ Whole(lost(rd)) /\ Sound(lost(rd))
<1>0. Sound(lost(rd))
  BY LostShrinks DEF Shrunk
<1>1. CASE rd.outage
  BY <1>1 DEF lost, Quiet
<1>2. CASE ~rd.outage
  <2> DEFINE left == Keep(rd, Open(rd.subs))
  <2>1. Quiet(left, rd) /\ Sound(left) /\ left.picture = rd.picture
    BY KeepQuiet DEF Open
  <2>2. lost(rd) = [left EXCEPT !.outage = TRUE, !.gop = <<>>, !.gop_valid = FALSE,
                                !.told = Open(rd.subs)]
    BY <1>2 DEF lost
  <2> HIDE DEF left
  <2>3. Quiet(lost(rd), rd) /\ ~lost(rd).gop_valid /\ lost(rd).picture = rd.picture
    BY <2>1, <2>2, FieldsOf DEF Quiet, Sound
  <2> QED BY <2>3, <1>0 DEF Whole, Quiet
<1> QED BY <1>1, <1>2

LEMMA LostMoves ==
  ASSUME NEW rd, Sound(rd), Whole(rd), NEW s \in Streams, NEW new, Quiet(new, rd)
  PROVE  Moves(s, rd, feed[s], new, Sent(rd.subs, schedule(rd))[s])
<1> DEFINE g == Sent(rd.subs, schedule(rd))[s]
<1>1. CASE rd.outage
  <2>1. g = feed[s] \o <<>> \/ g = feed[s]
    BY <1>1 DEF Sent, schedule
  <2> HIDE DEF g
  <2>2. Moves(s, rd, feed[s], new, g)
    <3> SUFFICES ASSUME NEW c \in Nat, NEW z \in Nat, Linked(feed[s], c, z), At(rd, s, z)
                 PROVE  Linked(g, c, z) /\ At(new, s, z)
      BY DEF Moves
    <3>1. Linked(<<>>, z, z)
      BY LinkedEmpty
    <3> QED BY <3>1, <2>1, LinkedConcat, QuietAt
  <2> QED BY <2>2 DEF g
<1>2. CASE ~rd.outage
  <2>1. g = feed[s] \o <<Lost, Notice("retrying")>> \/ g = feed[s]
    BY <1>2 DEF Sent, schedule
  <2> HIDE DEF g
  <2>2. Moves(s, rd, feed[s], new, g)
    BY <2>1, MovesQuiet, SilentOnes
  <2> QED BY <2>2 DEF g
<1> QED BY <1>1, <1>2

LEMMA ClosedWhole == Closed.subs = {} /\ Whole(Closed)
<1>1. /\ Closed.subs = {} /\ ~Closed.gop_valid /\ Closed.last = NoFrame
      /\ Closed.picture = "display"
  BY DEF Closed, NewReader
<1> QED BY <1>1 DEF Whole, NoFrame

LEMMA CloseMoves ==
  ASSUME NEW rd, NEW s \in Streams, NEW S, NEW failed
  PROVE  /\ Moves(s, rd, feed[s], Closed, Sent(S, <<End(failed)>>)[s])
         /\ Moves(s, rd, feed[s], Closed, feed[s])
<1>1. \A z : At(Closed, s, z)
  BY ClosedWhole DEF At
<1> DEFINE g == Sent(S, <<End(failed)>>)[s]
<1>2. g = feed[s] \o <<End(failed)>> \/ g = feed[s]
  BY DEF Sent
<1> HIDE DEF g
<1>3. ASSUME NEW c \in Nat, NEW z \in Nat, Linked(feed[s], c, z)
      PROVE  Linked(g, c, z)
  <2>1. Passes(z, End(failed), z)
    BY SilentPasses, SilentOnes
  <2>2. Linked(feed[s] \o <<End(failed)>>, c, z)
    BY <2>1, <1>3, LinkedAppend
  <2> QED BY <2>2, <1>2, <1>3
<1> QED BY <1>1, <1>3 DEF Moves, g

-----------------------------------------------------------------------------
(* What readers send: packets.                                             *)

LEMMA PacketPasses ==
  ASSUME NEW p, NEW a, NEW b
  PROVE  Passes(a, Packet(p), b) <=> Follows(a, p, b)
BY DEF Packet, Passes

\* What is handed behind a packet that the reader follows with.
LEMMA FrameFollows ==
  ASSUME NEW last \in Nat, NEW p, Frame(p), p.key \/ p.needs = last, NEW z \in {NoFrame, last}
  PROVE  \E y \in {NoFrame, IF p.ref THEN p.n ELSE last} : y \in Nat /\ Follows(z, p, y)
<1>1. p.n \in Nat /\ (p.key => p.ref) /\ NoFrame \in Nat
  BY DEF Frame, NoFrame
<1>2. CASE p.key
  BY <1>1, <1>2 DEF Follows
<1>3. CASE ~p.key /\ z = NoFrame
  BY <1>1, <1>3 DEF Follows
<1>4. CASE ~p.key /\ z # NoFrame
  BY <1>1, <1>4 DEF Follows
<1> QED BY <1>2, <1>3, <1>4

LEMMA CachedWhole ==
  ASSUME NEW rd, Whole(rd), NEW p, Frame(p), p.key \/ p.needs = rd.last,
         Cached(rd, p).gop_valid
  PROVE  \E z \in {NoFrame, IF p.ref THEN p.n ELSE rd.last} :
           Framed(Cached(rd, p).gop, NoFrame, z)
<1> DEFINE last == IF p.ref THEN p.n ELSE rd.last
<1>0. NoFrame \in Nat /\ rd.last \in Nat
  BY DEF NoFrame, Whole
<1>1. CASE p.key
  <2>1. Cached(rd, p).gop = <<p>>
    BY <1>1 DEF Cached
  <2>2. PICK y \in {NoFrame, last} : y \in Nat /\ Follows(NoFrame, p, y)
    BY <1>0, FrameFollows
  <2>3. Framed(<<>>, NoFrame, NoFrame)
    BY <1>0, FramedEmpty
  <2>4. Framed(Append(<<>>, p), NoFrame, y)
    BY <2>2, <2>3, <1>0, FramedAppend
  <2>5. Append(<<>>, p) = <<p>>
    OBVIOUS
  <2> QED BY <2>1, <2>2, <2>4, <2>5
<1>2. CASE ~p.key
  <2>1. rd.gop_valid /\ Cached(rd, p).gop = Append(rd.gop, p)
    BY <1>2 DEF Cached
  <2>2. PICK z \in {NoFrame, rd.last} : Framed(rd.gop, NoFrame, z)
    BY <2>1 DEF Whole
  <2>3. PICK y \in {NoFrame, last} : y \in Nat /\ Follows(z, p, y)
    BY <1>0, FrameFollows
  <2>4. Framed(Append(rd.gop, p), NoFrame, y)
    BY <2>2, <2>3, <1>0, FramedAppend
  <2> QED BY <2>1, <2>3, <2>4
<1> QED BY <1>1, <1>2

\* What a reader is behind a packet.
LEMMA PublishWhole ==
  ASSUME NEW rd, Sound(rd), Whole(rd), NEW p, Frame(p), p.key \/ p.needs = rd.last
  PROVE  LET new == publish(rd, p)
             takes == Takes(rd, p)
             stays == (rd.subs \ takes) \cup Open(takes)
         IN /\ new.subs = stays
            /\ new.waiting = ((rd.waiting \cup {t \in rd.subs : Behind(t)}) \ takes) \cap stays
            /\ new.last = (IF p.ref THEN p.n ELSE rd.last)
            /\ Whole(new)
<1> DEFINE new == publish(rd, p)
           cached == Cached(rd, p)
           takes == Takes(rd, p)
           waiting == (rd.waiting \cup {t \in rd.subs : Behind(t)}) \ takes
           base == [rd EXCEPT !.waiting = waiting]
           stays == (rd.subs \ takes) \cup Open(takes)
           left == Keep(base, stays)
           last == IF p.ref THEN p.n ELSE rd.last
<1>0. NoFrame \in Nat /\ rd.last \in Nat /\ p.n \in Nat
  BY DEF NoFrame, Whole, Frame
<1>1. takes \subseteq rd.subs /\ Open(takes) \subseteq takes
  BY DEF Takes, Resumes, Sound, Open
<1>2. /\ base.subs = rd.subs /\ base.waiting = waiting /\ base.last = rd.last
      /\ base.picture = rd.picture /\ Sound(base)
  <2>1. waiting \subseteq rd.subs
    BY DEF Sound
  <2> HIDE DEF waiting
  <2> QED BY <2>1, FieldsOf DEF Sound
<1>3. stays \subseteq base.subs
  BY <1>1, <1>2
<1>4. /\ Sound(left) /\ left.subs = stays /\ left.waiting = waiting \cap stays
      /\ left.last = rd.last /\ left.picture = rd.picture
  <2> HIDE DEF base, stays, waiting
  <2> QED BY <1>2, <1>3, KeepQuiet DEF Quiet
<1>5. new = [left EXCEPT !.gop = cached.gop, !.gop_valid = cached.gop_valid,
                         !.last = IF p.ref THEN p.n ELSE left.last]
  BY DEF publish
<1>6. /\ new.subs = stays /\ new.waiting = waiting \cap stays /\ new.last = last
      /\ new.gop = cached.gop /\ new.gop_valid = cached.gop_valid /\ new.picture = rd.picture
  <2> HIDE DEF left, stays, waiting, cached, new
  <2> QED BY <1>4, <1>5, FieldsOf DEF Sound
<1> HIDE DEF new
<1>7. Whole(new)
  <2>1. last \in Nat
    BY <1>0
  <2>2. cached.gop_valid => \E z \in {NoFrame, last} : Framed(cached.gop, NoFrame, z)
    BY CachedWhole
  <2> HIDE DEF cached, last
  <2> QED BY <2>1, <2>2, <1>6 DEF Whole
<1> QED BY <1>6, <1>7 DEF new

\* A stream gets a packet when it got those before it, or when it resumes with a keyframe.
LEMMA PublishMoves ==
  ASSUME NEW rd, Sound(rd), Whole(rd), NEW p, Frame(p), p.key \/ p.needs = rd.last,
         NEW s \in Streams, NEW F
  PROVE  Moves(s, rd, F[s], publish(rd, p), Published(rd, p, F)[s])
<1> DEFINE new == publish(rd, p)
           takes == Takes(rd, p)
           waiting == (rd.waiting \cup {t \in rd.subs : Behind(t)}) \ takes
           stays == (rd.subs \ takes) \cup Open(takes)
           last == IF p.ref THEN p.n ELSE rd.last
           g == Published(rd, p, F)[s]
<1>0. NoFrame \in Nat /\ rd.last \in Nat /\ p.n \in Nat
  BY DEF NoFrame, Whole, Frame
<1>1. takes \subseteq rd.subs /\ Open(takes) \subseteq takes
  BY DEF Takes, Resumes, Sound, Open
<1>6. new.subs = stays /\ new.waiting = waiting \cap stays /\ new.last = last
  BY PublishWhole
<1> HIDE DEF new
<1>8. g = IF s \notin Open(takes) THEN F[s]
          ELSE F[s] \o (IF s \in rd.waiting THEN <<Track(rd.track)>> ELSE <<>>) \o <<Packet(p)>>
  BY DEF Published
<1> HIDE DEF g
<1>9. ASSUME NEW c \in Nat, NEW z \in Nat, Linked(F[s], c, z), At(rd, s, z)
      PROVE  \E y \in Nat : Linked(g, c, y) /\ At(new, s, y)
  <2>1. CASE s \notin Open(takes)
    <3>1. s \in stays => s \in waiting
      BY <2>1 DEF Takes
    <3>2. At(new, s, z)
      <4> HIDE DEF stays, waiting
      <4> QED BY <3>1, <1>6 DEF At
    <3> QED BY <2>1, <3>2, <1>8, <1>9
  <2>2. CASE s \in Open(takes) /\ s \in rd.waiting
    <3>1. p.key
      BY <2>2, <1>1 DEF Takes, Resumes
    <3>2. Linked(F[s] \o <<Track(rd.track)>>, c, NoFrame)
      BY <1>0, <1>9, TrackPasses, LinkedAppend
    <3>3. Follows(NoFrame, p, p.n) /\ p.ref
      BY <3>1 DEF Follows, Frame
    <3>4. Passes(NoFrame, Packet(p), p.n)
      BY <3>3, PacketPasses
    <3> DEFINE h == F[s] \o <<Track(rd.track)>>
    <3>5. Linked(h, c, NoFrame) /\ g = h \o <<Packet(p)>>
      BY <3>2, <2>2, <1>8
    <3> HIDE DEF h
    <3>6. Linked(g, c, p.n)
      BY <3>4, <3>5, <1>0, LinkedAppend
    <3>7. At(new, s, p.n)
      BY <3>3, <1>6 DEF At
    <3> QED BY <3>6, <3>7, <1>0
  <2>3. CASE s \in Open(takes) /\ s \notin rd.waiting
    <3>1. s \in rd.subs
      BY <2>3, <1>1
    <3>2. z \in {NoFrame, rd.last}
      BY <3>1, <2>3, <1>9 DEF At
    <3>3. PICK y \in {NoFrame, last} : y \in Nat /\ Follows(z, p, y)
      BY <3>2, <1>0, FrameFollows
    <3>4. Passes(z, Packet(p), y)
      BY <3>3, PacketPasses
    <3> DEFINE e == <<>>
               h == F[s] \o e
    <3>5. g = h \o <<Packet(p)>>
      BY <2>3, <1>8
    <3>6. Linked(e, z, z)
      BY LinkedEmpty
    <3> HIDE DEF e
    <3>7. Linked(h, c, z)
      BY <3>6, <1>9, LinkedConcat
    <3> HIDE DEF h
    <3>8. Linked(g, c, y)
      BY <3>3, <3>4, <3>5, <3>7, LinkedAppend
    <3>9. At(new, s, y)
      BY <3>3, <1>6 DEF At
    <3> QED BY <3>3, <3>8, <3>9
  <2> QED BY <2>1, <2>2, <2>3
<1> QED BY <1>9 DEF Moves, new, g

\* A frame of the source follows the last one of its reader.
LEMMA FramesFollow ==
  ASSUME NEW rd, rd.last \in Nat, NEW n \in Nat \ {0}, NEW p \in Frames(rd, n),
         rd.picture \in {"display", "bframes", "pyramid"}
  PROVE  Frame(p) /\ (p.key \/ p.needs = rd.last)
<1> DEFINE frame(key, ref, step) ==
             [n |-> n, key |-> key, ref |-> ref, step |-> step,
              needs |-> IF key THEN NoFrame ELSE rd.last]
<1>1. \E ref, step : p = frame(TRUE, TRUE, "later") \/ p = frame(FALSE, ref, step)
  <2>1. CASE rd.picture = "display"
    BY <2>1 DEF Frames
  <2>2. CASE rd.picture = "bframes"
    BY <2>2 DEF Frames
  <2>3. CASE rd.picture = "pyramid"
    BY <2>3 DEF Frames
  <2> QED BY <2>1, <2>2, <2>3
<1>2. CASE p = frame(TRUE, TRUE, "later")
  BY <1>2 DEF Frame, NoFrame
<1>3. ASSUME NEW ref, NEW step, p = frame(FALSE, ref, step)
      PROVE  Frame(p) /\ (p.key \/ p.needs = rd.last)
  BY <1>3 DEF Frame, NoFrame
<1> QED BY <1>1, <1>2, <1>3

-----------------------------------------------------------------------------
(* What a stream returns of its feed.                                      *)

LEMMA FirstOfSeq ==
  ASSUME NEW x, NEW o, IsSeq(o), Len(o) = 1, o[1] = x, NEW q, IsSeq(q)
  PROVE  (o \o q)[1] = x /\ Tail(o \o q) = q
<1> DEFINE h == o \o q
           t == Tail(h)
<1>1. Len(q) \in Nat
  BY LenSeq
<1>2. IsSeq(o \o q)
  BY ConcatSeq
<1>3. Len(o \o q) = Len(o) + Len(q)
  BY ConcatSeq
<1>4. \A i \in 1 .. Len(o) : (o \o q)[i] = o[i]
  BY ConcatSeq
<1>5. \A i \in 1 .. Len(q) : (o \o q)[Len(o) + i] = q[i]
  BY ONLY IsSeq(o), IsSeq(q), ConcatSeq
<1>6. IsSeq(h) /\ Len(h) = Len(o) + Len(q)
  BY <1>2, <1>3
<1>7. (\A i \in 1 .. Len(o) : h[i] = o[i]) /\ \A i \in 1 .. Len(q) : h[Len(o) + i] = q[i]
  BY <1>4, <1>5
<1> HIDE DEF h
<1>8. h # <<>> /\ h[1] = x
  BY <1>1, <1>6, <1>7, LenSeq
<1>9. IsSeq(t) /\ Len(t) = Len(h) - 1 /\ \A i \in 1 .. Len(h) - 1 : t[i] = h[i + 1]
  BY <1>6, <1>8, TailSeq
<1> HIDE DEF t
<1>10. Len(t) = Len(q) /\ \A i \in 1 .. Len(q) : t[i] = q[i]
  BY <1>1, <1>6, <1>7, <1>9
<1>11. t = q
  BY <1>9, <1>10, SameSeq
<1> QED BY <1>8, <1>11 DEF t, h

LEMMA ConsSeq ==
  ASSUME NEW x, NEW q, IsSeq(q)
  PROVE  (<<x>> \o q)[1] = x /\ Tail(<<x>> \o q) = q
<1> DEFINE o == <<x>>
<1>1. IsSeq(o) /\ Len(o) = 1 /\ o[1] = x
  BY OneSeq
<1> HIDE DEF o
<1>2. (o \o q)[1] = x /\ Tail(o \o q) = q
  BY <1>1, FirstOfSeq
<1> QED BY <1>2 DEF o

LEMMA TailPlain ==
  ASSUME NEW q, IsSeq(q), q # <<>>, Plain(q)
  PROVE  q[1].type # "snapshot" /\ Plain(Tail(q))
<1> DEFINE t == Tail(q)
<1>1. /\ Len(t) = Len(q) - 1 /\ Len(q) \in Nat \ {0}
      /\ \A i \in 1 .. Len(q) - 1 : t[i] = q[i + 1]
  BY TailSeq
<1> HIDE DEF t
<1>2. Plain(t)
  <2> SUFFICES ASSUME NEW i \in 1 .. Len(t) PROVE t[i].type # "snapshot"
    BY DEF Plain
  <2>1. i \in 1 .. Len(q) - 1 /\ i + 1 \in 1 .. Len(q)
    BY <1>1
  <2> QED BY <2>1, <1>1 DEF Plain
<1>3. 1 \in 1 .. Len(q)
  BY <1>1
<1> QED BY <1>2, <1>3 DEF t, Plain

LEMMA NonePlain == ASSUME NEW q, q = <<>> PROVE Plain(q)
BY NoneSeq DEF Plain

\* What is taken from a message and what it leaves to be read follow the message.
LEMMA ItemsLinked ==
  ASSUME NEW s, NEW m, NEW c \in Nat, NEW d \in Nat, Passes(c, m, d)
  PROVE  /\ Items(s, m)[1].type # "snapshot" /\ Plain(Tail(Items(s, m)))
         /\ \E b \in Nat : Passes(c, Items(s, m)[1], b) /\ Linked(Tail(Items(s, m)), b, d)
<1>1. CASE m.type = "snapshot"
  <2> DEFINE p == Packets(m.packets)
             track == Track(m.kind)
  <2>1. Items(s, m) = <<track>> \o p
    BY <1>1 DEF Items, Packets
  <2>2. Framed(m.packets, NoFrame, d) /\ NoFrame \in Nat
    BY <1>1 DEF Passes, NoFrame
  <2>3. Linked(p, NoFrame, d) /\ Plain(p)
    BY <2>2, FramedLinked
  <2>4. track.type = "track" /\ Passes(c, track, NoFrame)
    BY TrackPasses DEF Track
  <2> HIDE DEF p, track
  <2>5. (<<track>> \o p)[1] = track /\ Tail(<<track>> \o p) = p
    BY <2>3, LinkedSeq, ConsSeq
  <2> QED BY <2>1, <2>2, <2>3, <2>4, <2>5
<1>2. ASSUME NEW i, Items(s, m) = <<i>>, i.type # "snapshot", Passes(c, i, d)
      PROVE  /\ Items(s, m)[1].type # "snapshot" /\ Plain(Tail(Items(s, m)))
             /\ \E b \in Nat : Passes(c, Items(s, m)[1], b) /\ Linked(Tail(Items(s, m)), b, d)
  <2> DEFINE t == Tail(<<i>>)
  <2>1. t = <<>> /\ <<i>>[1] = i
    OBVIOUS
  <2> HIDE DEF t
  <2>2. Linked(<<>>, d, d)
    BY LinkedEmpty
  <2>3. Linked(t, d, d) /\ Plain(t)
    BY <2>1, <2>2, NonePlain
  <2>4. Tail(Items(s, m)) = t /\ Items(s, m)[1] = i
    BY <1>2, <2>1 DEF t
  <2> QED BY <1>2, <2>3, <2>4
<1>3. CASE m.type = "lost"
  <2>1. Silent(m) /\ d = c
    BY <1>3, SilentPasses DEF Silent
  <2>2. \E i : Silent(i) /\ Items(s, m) = <<i>>
    BY <1>3, SilentOnes DEF Items
  <2>3. PICK i : Silent(i) /\ Items(s, m) = <<i>>
    BY <2>2
  <2>4. i.type # "snapshot" /\ Passes(c, i, d)
    BY <2>1, <2>3, SilentPasses DEF Silent
  <2> QED BY <2>3, <2>4, <1>2
<1>4. CASE m.type = "end"
  <2>1. Silent(m) /\ d = c
    BY <1>4, SilentPasses DEF Silent
  <2>2. \E i : Silent(i) /\ Items(s, m) = <<i>>
    BY <1>4, <2>1, SilentOnes DEF Items
  <2>3. PICK i : Silent(i) /\ Items(s, m) = <<i>>
    BY <2>2
  <2>4. i.type # "snapshot" /\ Passes(c, i, d)
    BY <2>1, <2>3, SilentPasses DEF Silent
  <2> QED BY <2>3, <2>4, <1>2
<1>5. CASE m.type \notin {"snapshot", "lost", "end"}
  <2>1. Items(s, m) = <<m>>
    BY <1>5 DEF Items
  <2> QED BY <2>1, <1>2, <1>5
<1> QED BY <1>1, <1>3, <1>4, <1>5

LEMMA PlaceQueued ==
  ASSUME NEW st, DOMAIN st = StreamFields, NEW s, NEW item
  PROVE  place(st, s, item).queued = st.queued
<1>1. \/ place(st, s, item) = st
      \/ \E k, o : place(st, s, item) = [st EXCEPT !.kind = k, !.order = o]
      \/ \E o : place(st, s, item) = [st EXCEPT !.started = TRUE, !.order = o]
      \/ \E h : place(st, s, item) = [st EXCEPT !.heard = h]
  <2>1. CASE item.type = "track"
    BY <2>1 DEF place
  <2>2. CASE item.type = "packet"
    BY <2>2 DEF place
  <2>3. CASE item.type = "notice" /\ item.what # "ended"
    BY <2>3 DEF place
  <2>4. CASE ~(item.type = "track") /\ ~(item.type = "packet")
             /\ ~(item.type = "notice" /\ item.what # "ended")
    BY <2>4 DEF place
  <2> QED BY <2>1, <2>2, <2>3, <2>4
<1> QED BY <1>1, FieldsOf

LEMMA NextQueued ==
  ASSUME NEW s, DOMAIN stream[s] = StreamFields
  PROVE  AfterNext(s).queued =
           IF stream[s].queued # <<>> THEN Tail(stream[s].queued)
           ELSE IF stream[s].ended \/ feed[s] = <<>> THEN stream[s].queued
           ELSE Tail(Items(s, feed[s][1]))
<1> DEFINE st == stream[s]
           m == feed[s][1]
           rest == IF st.queued # <<>> THEN [st EXCEPT !.queued = Tail(@)]
                   ELSE IF st.ended \/ feed[s] = <<>> THEN [st EXCEPT !.ended = TRUE]
                   ELSE [st EXCEPT !.queued = Tail(Items(s, m)),
                                   !.ended = @ \/ (m.type = "end"
                                                   \/ (m.type = "lost" /\ s \notin Patient))]
<1>1. AfterNext(s) = place(rest, s, NextItem(s))
  BY DEF AfterNext
<1>2. DOMAIN rest = StreamFields
  BY FieldsOf
<1>3. rest.queued = IF st.queued # <<>> THEN Tail(st.queued)
                    ELSE IF st.ended \/ feed[s] = <<>> THEN st.queued
                    ELSE Tail(Items(s, m))
  BY FieldsOf
<1> HIDE DEF rest
<1>4. AfterNext(s).queued = rest.queued
  BY <1>1, <1>2, PlaceQueued
<1> QED BY <1>3, <1>4

\* A read takes what comes first and leaves the rest in order.
LEMMA NextLinked ==
  ASSUME NEW s \in Streams, DOMAIN stream[s] = StreamFields, DOMAIN feed = Streams,
         NEW b \in Nat, NEW c \in Nat, NEW z \in Nat,
         Linked(stream[s].queued, b, c), Linked(feed[s], c, z), Plain(stream[s].queued)
  PROVE  /\ NextItem(s).type # "snapshot" /\ Plain(AfterNext(s).queued)
         /\ \E d, e \in Nat : /\ Passes(b, NextItem(s), d)
                              /\ Linked(AfterNext(s).queued, d, e)
                              /\ Linked(FeedAfterNext(s)[s], e, z)
<1> DEFINE q == stream[s].queued
           f == feed[s]
           q2 == AfterNext(s).queued
           f2 == FeedAfterNext(s)[s]
           item == NextItem(s)
<1>1. CASE q # <<>>
  <2>1. item = q[1] /\ q2 = Tail(q) /\ f2 = f
    BY <1>1, NextQueued DEF NextItem, FeedAfterNext
  <2>2. item.type # "snapshot" /\ Plain(q2)
    BY <1>1, <2>1, LinkedSeq, TailPlain
  <2>3. \E d \in Nat : Passes(b, item, d) /\ Linked(q2, d, c)
    BY <1>1, <2>1, LinkedTail
  <2> HIDE DEF item, q2, f2
  <2>4. \E d, e \in Nat : Passes(b, item, d) /\ Linked(q2, d, e) /\ Linked(f2, e, z)
    BY <2>1, <2>3
  <2> QED BY <2>2, <2>4 DEF item, q2, f2
<1>2. CASE q = <<>> /\ (stream[s].ended \/ f = <<>>)
  <2>1. item = End(FALSE) /\ q2 = q /\ f2 = f
    BY <1>2, NextQueued DEF NextItem, FeedAfterNext
  <2> HIDE DEF item, q2, f2
  <2>2. Silent(item)
    BY <2>1, SilentOnes
  <2>3. Passes(b, item, b)
    BY <2>2, SilentPasses
  <2> QED BY <2>1, <2>2, <2>3 DEF Silent, item, q2, f2
<1>3. CASE q = <<>> /\ ~(stream[s].ended \/ f = <<>>)
  <2>1. item = Items(s, f[1])[1] /\ q2 = Tail(Items(s, f[1])) /\ f2 = Tail(f)
    BY <1>3, NextQueued DEF NextItem, FeedAfterNext
  <2>2. b = c
    BY <1>3, LinkedNone
  <2>3. PICK e \in Nat : Passes(c, f[1], e) /\ Linked(Tail(f), e, z)
    BY <1>3, LinkedTail
  <2>4. /\ item.type # "snapshot" /\ Plain(q2)
        /\ \E d \in Nat : Passes(c, item, d) /\ Linked(q2, d, e)
    BY <2>1, <2>3, ItemsLinked
  <2> HIDE DEF item, q2, f2
  <2> QED BY <2>1, <2>2, <2>3, <2>4 DEF item, q2, f2
<1> QED BY <1>1, <1>2, <1>3

LEMMA FeedAfterNextOthers ==
  ASSUME NEW s \in Streams, DOMAIN feed = Streams
  PROVE  DOMAIN FeedAfterNext(s) = Streams
         /\ \A t \in Streams \ {s} : FeedAfterNext(s)[t] = feed[t]
BY DEF FeedAfterNext

-----------------------------------------------------------------------------
(* What an item makes of a session.                                        *)

\* A session has its fields, its thread fits its state, and no frame it wrote was broken.
Sane(se) ==
  /\ DOMAIN se = SessionFields
  /\ se.awaiting_key \in BOOLEAN /\ se.connected \in BOOLEAN /\ se.broken = FALSE
  /\ se.thread = "reads" => se.state \in {"live", "over"}
  /\ se.thread = "first" => se.state \in {"opening", "refused", "left"}
  /\ se.state \in {"opening", "opened"} => ~se.connected

\* What an item may change of a session.
Advances(new, se) ==
  /\ DOMAIN new = SessionFields /\ new.state = se.state /\ new.thread = se.thread
  /\ new.connected = se.connected /\ new.awaiting_key \in BOOLEAN /\ new.broken = FALSE

LEMMA AdvancesSane ==
  ASSUME NEW new, NEW se, Sane(se), Advances(new, se)
  PROVE  Sane(new)
BY DEF Sane, Advances

LEMMA HoldAt ==
  ASSUME NEW pic, NEW p, NEW a \in Nat, NEW b \in Nat, Follows(a, p, b),
         pic # <<>> => pic[1].key /\ Framed(pic, NoFrame, a), hold(pic, p) # <<>>
  PROVE  hold(pic, p)[1].key /\ Framed(hold(pic, p), NoFrame, b)
<1> DEFINE h == hold(pic, p)
<1>0. NoFrame \in Nat
  BY DEF NoFrame
<1>1. CASE p.key
  <2>1. h = <<p>>
    BY <1>1 DEF hold
  <2>2. Follows(NoFrame, p, b)
    BY <1>1 DEF Follows
  <2>3. Framed(<<>>, NoFrame, NoFrame)
    BY <1>0, FramedEmpty
  <2>4. Framed(Append(<<>>, p), NoFrame, b)
    BY <2>2, <2>3, <1>0, FramedAppend
  <2>5. Append(<<>>, p) = <<p>> /\ <<p>>[1] = p
    OBVIOUS
  <2> HIDE DEF h
  <2> QED BY <2>1, <2>4, <2>5, <1>1 DEF h
<1>2. CASE ~p.key
  <2>1. pic # <<>> /\ h = Append(pic, p)
    BY <1>2 DEF hold
  <2>2. Framed(pic, NoFrame, a) /\ pic[1].key
    BY <2>1
  <2>3. Framed(Append(pic, p), NoFrame, b)
    BY <2>2, <1>0, FramedAppend
  <2>4. IsSeq(pic)
    BY <2>2 DEF Framed
  <2>5. 1 \in 1 .. Len(pic)
    BY <2>1, <2>4, LenSeq
  <2>6. Append(pic, p)[1] = pic[1]
    BY <2>4, <2>5, AppendSeq
  <2> HIDE DEF h
  <2> QED BY <2>1, <2>2, <2>3, <2>6 DEF h
<1> QED BY <1>1, <1>2

\* A frame that nothing references changes nothing for the frames behind it.
LEMMA DroppedFrame ==
  ASSUME NEW s, NEW p, ~Holds(s, p), NEW a, NEW b, Follows(a, p, b)
  PROVE  a = b
BY DEF Holds, Follows, Frame

\* The picture of a session that is not connected grows by an item.
LEMMA HeldAt ==
  ASSUME NEW se, Sane(se), ~se.connected, NEW a \in Nat, NEW b \in Nat, SessionAt(se, a),
         NEW p, Follows(a, p, b)
  PROVE  LET new == [se EXCEPT !.picture = hold(@, p)]
         IN SessionAt(new, b) /\ Advances(new, se)
<1> DEFINE new == [se EXCEPT !.picture = hold(@, p)]
           h == hold(se.picture, p)
<1>1. h # <<>> => h[1].key /\ Framed(h, NoFrame, b)
  BY HoldAt DEF SessionAt
<1> HIDE DEF h
<1>2. /\ DOMAIN new = SessionFields /\ new.state = se.state /\ new.thread = se.thread
      /\ new.connected = se.connected /\ new.awaiting_key = se.awaiting_key /\ new.broken = se.broken
      /\ new.picture = h
  BY SessionFieldsOf DEF Sane, h
<1> HIDE DEF new
<1>3. new.awaiting_key
  BY <1>2 DEF SessionAt
<1>4. SessionAt(new, b)
  BY <1>1, <1>2, <1>3 DEF SessionAt
<1>5. Advances(new, se)
  BY <1>2 DEF Advances, Sane
<1> QED BY <1>4, <1>5 DEF new

LEMMA CollectAt ==
  ASSUME NEW se, Sane(se), ~se.connected, NEW a \in Nat, NEW b \in Nat, SessionAt(se, a),
         NEW s, NEW item, Passes(a, item, b), item.type # "snapshot"
  PROVE  SessionAt(Collect(se, s, item), b) /\ Advances(Collect(se, s, item), se)
<1> DEFINE new == Collect(se, s, item)
<1>0. Advances(se, se)
  BY DEF Advances, Sane
<1>1. CASE item.type = "track"
  <2>1. new = [se EXCEPT !.kind = item.kind, !.picture = <<>>]
    BY <1>1 DEF Collect
  <2>2. /\ DOMAIN new = SessionFields /\ new.state = se.state /\ new.thread = se.thread
        /\ new.connected = se.connected /\ new.awaiting_key = se.awaiting_key
        /\ new.broken = se.broken /\ new.picture = <<>>
    BY <2>1, SessionFieldsOf DEF Sane
  <2> HIDE DEF new
  <2>3. new.awaiting_key
    BY <2>2 DEF SessionAt
  <2>4. SessionAt(new, b) /\ Advances(new, se)
    BY <2>2, <2>3 DEF SessionAt, Advances, Sane
  <2> QED BY <2>4 DEF new
<1>2. CASE item.type = "packet" /\ Holds(s, item.packet)
  <2>1. new = [se EXCEPT !.picture = hold(@, item.packet)]
    BY <1>2 DEF Collect
  <2>2. Follows(a, item.packet, b)
    BY <1>2 DEF Passes
  <2> HIDE DEF new
  <2> QED BY <2>1, <2>2, HeldAt DEF new
<1>3. CASE item.type = "packet" /\ ~Holds(s, item.packet)
  <2>1. new = se
    BY <1>3 DEF Collect
  <2>2. a = b
    BY <1>3, DroppedFrame DEF Passes
  <2> HIDE DEF new
  <2> QED BY <2>1, <2>2, <1>0 DEF new
<1>4. CASE item.type \notin {"track", "packet"}
  <2>1. new = se
    BY <1>4 DEF Collect
  <2>2. a = b
    BY <1>4 DEF Passes
  <2> HIDE DEF new
  <2> QED BY <2>1, <2>2, <1>0 DEF new
<1> QED BY <1>1, <1>2, <1>3, <1>4

\* A frame is written only when the browser can decode it.
LEMMA WriteAt ==
  ASSUME NEW se, Sane(se), se.connected, NEW a \in Nat, NEW b \in Nat, SessionAt(se, a),
         NEW p, Follows(a, p, b), NEW ok \in BOOLEAN
  PROVE  SessionAt(write(se, p, ok), b) /\ Advances(write(se, p, ok), se)
<1> DEFINE new == write(se, p, ok)
<1>1. CASE se.awaiting_key /\ ~(p.key /\ ok)
  <2>1. new = se
    BY <1>1 DEF write
  <2> HIDE DEF new
  <2>2. SessionAt(new, b) /\ Advances(new, se)
    BY <1>1, <2>1 DEF SessionAt, Advances, Sane
  <2> QED BY <2>2 DEF new
<1>2. CASE ~(se.awaiting_key /\ ~(p.key /\ ok))
  <2>1. new = [se EXCEPT !.awaiting_key = FALSE,
                 !.broken = @ \/ (ok /\ p.needs # NoFrame /\ p.needs # se.handed),
                 !.handed = IF p.ref THEN p.n ELSE @]
    BY <1>2 DEF write
  <2>2. p.key \/ (se.handed = a /\ a # NoFrame)
    BY <1>2 DEF SessionAt
  <2>3. ~(p.needs # NoFrame /\ p.needs # se.handed)
    BY <2>2 DEF Follows, Frame
  <2>4. b = (IF p.ref THEN p.n ELSE se.handed) /\ b # NoFrame
    BY <2>2 DEF Follows, Frame, NoFrame
  <2>5. /\ DOMAIN new = SessionFields /\ new.state = se.state /\ new.thread = se.thread
        /\ new.connected = se.connected /\ new.awaiting_key = FALSE
        /\ new.broken = FALSE /\ new.handed = b
    BY <2>1, <2>3, <2>4, SessionFieldsOf DEF Sane
  <2> HIDE DEF new
  <2>6. SessionAt(new, b) /\ Advances(new, se)
    BY <2>4, <2>5 DEF SessionAt, Advances
  <2> QED BY <2>6 DEF new
<1> QED BY <1>1, <1>2

LEMMA FeedAt ==
  ASSUME NEW se, Sane(se), NEW a \in Nat, NEW b \in Nat, SessionAt(se, a),
         NEW s, NEW item, Passes(a, item, b), item.type # "snapshot", NEW ok \in BOOLEAN
  PROVE  SessionAt(FeedItem(se, s, item, ok), b) /\ Advances(FeedItem(se, s, item, ok), se)
<1> DEFINE new == FeedItem(se, s, item, ok)
<1>0. Advances(se, se)
  BY DEF Advances, Sane
<1>1. CASE item.type = "track"
  <2>1. new = [se EXCEPT !.kind = item.kind, !.awaiting_key = TRUE, !.picture = <<>>]
    BY <1>1 DEF FeedItem, FeedTrack
  <2>2. /\ DOMAIN new = SessionFields /\ new.state = se.state /\ new.thread = se.thread
        /\ new.connected = se.connected /\ new.awaiting_key = TRUE
        /\ new.broken = se.broken /\ new.picture = <<>>
    BY <2>1, SessionFieldsOf DEF Sane
  <2> HIDE DEF new
  <2>3. SessionAt(new, b) /\ Advances(new, se)
    BY <2>2 DEF SessionAt, Advances, Sane
  <2> QED BY <2>3 DEF new
<1>2. CASE item.type = "packet" /\ Holds(s, item.packet)
  <2>1. Follows(a, item.packet, b)
    BY <1>2 DEF Passes
  <2>2. CASE se.connected
    <3>1. new = write(se, item.packet, ok)
      BY <1>2, <2>2 DEF FeedItem
    <3> HIDE DEF new
    <3> QED BY <3>1, <2>1, <2>2, WriteAt DEF new
  <2>3. CASE ~se.connected
    <3>1. new = [se EXCEPT !.picture = hold(@, item.packet)]
      BY <1>2, <2>3 DEF FeedItem
    <3> HIDE DEF new
    <3> QED BY <3>1, <2>1, <2>3, HeldAt DEF new
  <2> QED BY <2>2, <2>3
<1>3. CASE item.type = "packet" /\ ~Holds(s, item.packet)
  <2>1. new = se
    BY <1>3 DEF FeedItem
  <2>2. a = b
    BY <1>3, DroppedFrame DEF Passes
  <2> HIDE DEF new
  <2> QED BY <2>1, <2>2, <1>0 DEF new
<1>4. CASE item.type \notin {"track", "packet"}
  <2>1. new = se
    BY <1>4 DEF FeedItem
  <2>2. a = b
    BY <1>4 DEF Passes
  <2> HIDE DEF new
  <2> QED BY <2>1, <2>2, <1>0 DEF new
<1> QED BY <1>1, <1>2, <1>3, <1>4

\* The picture held for a browser is written when it connects.
LEMMA ConnectedAt ==
  ASSUME NEW se, Sane(se), ~se.connected, se.state = "live", NEW a \in Nat, SessionAt(se, a),
         NEW failing
  PROVE  LET new == [Written(se, se.picture, failing) EXCEPT !.connected = TRUE, !.picture = <<>>]
         IN SessionAt(new, a) /\ Sane(new) /\ new.state = se.state /\ new.thread = se.thread
<1> DEFINE w == Written(se, se.picture, failing)
           new == [w EXCEPT !.connected = TRUE, !.picture = <<>>]
<1>0. se.awaiting_key = TRUE /\ se.broken = FALSE /\ DOMAIN se = SessionFields
  BY DEF SessionAt, Sane
<1>1. CASE se.picture = <<>>
  <2>1. w = se
    <3> DEFINE q == se.picture
               run == CHOOSE f : f = [i \in 0 .. Len(q) |->
                                        IF i = 0 THEN se ELSE write(f[i - 1], q[i], i \notin failing)]
               only == [i \in 0 .. 0 |-> se]
    <3>1. Len(q) = 0
      BY <1>1, NoneSeq
    <3>2. Written(se, q, failing) = run[Len(q)]
      BY DEF Written
    <3>3. \A i \in 0 .. Len(q) : i = 0
      BY <3>1
    <3>4. only = [i \in 0 .. Len(q) |-> IF i = 0 THEN se ELSE write(only[i - 1], q[i], i \notin failing)]
      BY <3>1, <3>3
    <3> HIDE DEF only
    <3>5. run = [i \in 0 .. Len(q) |-> IF i = 0 THEN se ELSE write(run[i - 1], q[i], i \notin failing)]
      BY <3>4, Zenon
    <3> HIDE DEF run
    <3>6. run[0] = se
      BY <3>1, <3>5
    <3> QED BY <3>1, <3>2, <3>6
  <2> HIDE DEF w
  <2>2. new = [se EXCEPT !.connected = TRUE, !.picture = <<>>]
    BY <2>1
  <2>3. /\ DOMAIN new = SessionFields /\ new.state = se.state /\ new.thread = se.thread
        /\ new.connected = TRUE /\ new.awaiting_key = TRUE /\ new.broken = FALSE
    BY <2>2, <1>0, SessionFieldsOf
  <2> HIDE DEF new
  <2>4. SessionAt(new, a) /\ Sane(new) /\ new.state = se.state /\ new.thread = se.thread
    BY <2>3 DEF SessionAt, Sane
  <2> QED BY <2>4 DEF new, w
<1>2. CASE se.picture # <<>>
  <2>1. se.picture[1].key /\ Framed(se.picture, NoFrame, a)
    BY <1>2 DEF SessionAt
  <2>2. w \in {se, [se EXCEPT !.awaiting_key = FALSE, !.handed = a]} /\ a # NoFrame
    BY <1>0, <1>2, <2>1, WrittenPicture
  <2>3. /\ DOMAIN w = SessionFields /\ w.state = se.state /\ w.thread = se.thread
        /\ w.awaiting_key \in BOOLEAN /\ w.broken = FALSE
        /\ ~w.awaiting_key => w.handed = a
    BY <2>2, <1>0, SessionFieldsOf
  <2> HIDE DEF w
  <2>4. /\ DOMAIN new = SessionFields /\ new.state = se.state /\ new.thread = se.thread
        /\ new.connected = TRUE /\ new.awaiting_key \in BOOLEAN /\ new.broken = FALSE
        /\ ~new.awaiting_key => new.handed = a
    BY <2>3, SessionFieldsOf
  <2> HIDE DEF new
  <2>5. SessionAt(new, a) /\ Sane(new) /\ new.state = se.state /\ new.thread = se.thread
    BY <2>2, <2>4 DEF SessionAt, Sane
  <2> QED BY <2>5 DEF new, w
<1> QED BY <1>1, <1>2

-----------------------------------------------------------------------------
(* The invariant, and the steps that read nothing.                         *)

ReaderWhole(rd) == Whole(rd) /\ (rd.thread \in {"none", "gone"} => rd.subs = {})

\* The sessions that may still show a picture.
Serviced == {"opening", "opened", "live"}

\* The world counts the frames of its source.
Counted == DOMAIN source = {"frames", "links", "lost"} /\ source.frames \in Nat

ReadersWhole == \A r \in Readers : ReaderWhole(reader[r])
SessionsSane == DOMAIN session = Watched /\ \A s \in Watched : Sane(session[s])
UnopenedClean ==
  \A s \in Watched : session[s].state = "none" =>
    /\ session[s] = NewSession /\ stream[s].queued = <<>>
    /\ \A r \in Readers : s \notin reader[r].subs
ReadsOwned ==
  /\ IsSeq(reads)
  /\ \A i \in 1 .. Len(reads) :
       reads[i].s \in Watched /\ session[reads[i].s].state \in {"live", "over"}
ServedLive == serving \/ \A s \in Watched : session[s].state # "live"
Chained ==
  \A s \in Watched : session[s].state \in Serviced =>
    Chain(s, session[s], reads, stream[s].queued, feed[s], reader)

PictureInv ==
  /\ LiveInv /\ Counted /\ DOMAIN feed = Streams
  /\ ReadersWhole /\ SessionsSane /\ UnopenedClean /\ ReadsOwned /\ ServedLive /\ Chained

LEMMA WatchedStreams == \A s \in Watched : s \in Streams /\ s \notin Muxed
BY RemuxAssumption DEF Streams

LEMMA ChainReaders ==
  ASSUME NEW s, NEW se, NEW rs, NEW q, NEW f, NEW R, NEW T, Chain(s, se, rs, q, f, R),
         \A r \in Readers, z \in Nat : At(R[r], s, z) => At(T[r], s, z)
  PROVE  Chain(s, se, rs, q, f, T)
BY DEF Chain

LEMMA ChainSession ==
  ASSUME NEW s, NEW se, NEW new, NEW rs, NEW q, NEW f, NEW R, Chain(s, se, rs, q, f, R),
         \A a \in Nat : SessionAt(se, a) => SessionAt(new, a),
         new.state # "live" => se.state # "live"
  PROVE  Chain(s, new, rs, q, f, R)
BY DEF Chain

\* A step without an item may make of a session.
Passed(new, se) ==
  /\ Sane(new)
  /\ new.state = "none" => new = se
  /\ se.state \in {"live", "over"} => new.state \in {"live", "over"}
  /\ new.state \in Serviced =>
       /\ se.state \in Serviced /\ (new.state # "live" => se.state # "live")
       /\ \A a \in Nat : SessionAt(se, a) => SessionAt(new, a)

LEMMA PassedSame ==
  ASSUME NEW se, Sane(se)
  PROVE  Passed(se, se)
BY DEF Passed

LEMMA PassedTrans ==
  ASSUME NEW se, NEW mid, NEW new, Passed(mid, se), Passed(new, mid)
  PROVE  Passed(new, se)
<1>1. Sane(new)
  BY DEF Passed
<1>2. new.state = "none" => new = se
  BY DEF Passed
<1>3. se.state \in {"live", "over"} => new.state \in {"live", "over"}
  BY DEF Passed
<1>4. ASSUME new.state \in Serviced
      PROVE  /\ se.state \in Serviced /\ (new.state # "live" => se.state # "live")
             /\ \A a \in Nat : SessionAt(se, a) => SessionAt(new, a)
  BY <1>4 DEF Passed
<1> QED BY <1>1, <1>2, <1>3, <1>4 DEF Passed

\* Readers that streams leave.
Calm ==
  /\ DOMAIN reader' = Readers
  /\ \A r \in Readers : Quiet(reader'[r], reader[r]) /\ ReaderWhole(reader'[r])

LEMMA CalmSame ==
  ASSUME PictureInv, reader' = reader
  PROVE  Calm
BY DEF Calm, PictureInv, ReadersWhole, Quiet, LiveInv, LiveShape

LEMMA CalmStop ==
  ASSUME PictureInv, NEW S, reader' = Stopped(S)
  PROVE  Calm
<1>1. DOMAIN reader' = Readers
  BY DEF Stopped
<1>2. ASSUME NEW r \in Readers
      PROVE  Quiet(reader'[r], reader[r]) /\ ReaderWhole(reader'[r])
  <2> DEFINE rd == reader[r]
  <2>1. Sound(rd) /\ ReaderWhole(rd)
    BY DEF PictureInv, LiveInv, LiveShape, ReadersWhole
  <2>2. reader'[r] = rd \/ \E L : reader'[r] = leave(rd, L)
    BY DEF Stopped
  <2> HIDE DEF rd
  <2>3. CASE reader'[r] = rd
    BY <2>1, <2>3 DEF Quiet, rd
  <2>4. ASSUME NEW L, reader'[r] = leave(rd, L)
        PROVE  Quiet(reader'[r], rd) /\ ReaderWhole(reader'[r])
    <3>1. Quiet(leave(rd, L), rd) /\ Whole(leave(rd, L))
      BY <2>1, LeaveQuiet DEF ReaderWhole
    <3>2. leave(rd, L).thread = rd.thread /\ leave(rd, L).subs \subseteq rd.subs
      BY <2>1, LeaveShrinks DEF Shrunk
    <3> QED BY <3>1, <3>2, <2>1, <2>4 DEF ReaderWhole
  <2> QED BY <2>2, <2>3, <2>4 DEF rd
<1> QED BY <1>1, <1>2 DEF Calm

\* Sessions pass and streams leave; nothing is read.
LEMMA PassedStep ==
  ASSUME PictureInv, LiveInv', Calm, source' = source, feed' = feed, reads' = reads,
         \A s \in Watched : stream'[s].queued = stream[s].queued,
         DOMAIN session' = Watched,
         \A s \in Watched : Passed(session'[s], session[s]),
         serving' \/ \A s \in Watched : session'[s].state # "live"
  PROVE  PictureInv'
<1> USE DEF PictureInv
<1>1. ReadersWhole'
  BY DEF ReadersWhole, Calm
<1>2. SessionsSane'
  BY DEF SessionsSane, Passed
<1>3. UnopenedClean'
  <2> SUFFICES ASSUME NEW s \in Watched, session'[s].state = "none"
               PROVE  /\ session'[s] = NewSession /\ stream'[s].queued = <<>>
                      /\ \A r \in Readers : s \notin reader'[r].subs
    BY DEF UnopenedClean
  <2>1. session'[s] = session[s]
    BY DEF Passed
  <2> QED BY <2>1 DEF UnopenedClean, Calm, Quiet
<1>4. ReadsOwned'
  BY DEF ReadsOwned, Passed
<1>5. ServedLive'
  BY DEF ServedLive
<1>6. Chained'
  <2> SUFFICES ASSUME NEW s \in Watched, session'[s].state \in Serviced
               PROVE  Chain(s, session'[s], reads, stream[s].queued, feed[s], reader')
    BY DEF Chained
  <2>1. /\ session[s].state \in Serviced
        /\ session'[s].state # "live" => session[s].state # "live"
        /\ \A a \in Nat : SessionAt(session[s], a) => SessionAt(session'[s], a)
    BY DEF Passed
  <2>2. Chain(s, session[s], reads, stream[s].queued, feed[s], reader)
    BY <2>1 DEF Chained
  <2>3. Chain(s, session'[s], reads, stream[s].queued, feed[s], reader)
    BY <2>1, <2>2, ChainSession
  <2>4. \A r \in Readers, z \in Nat : At(reader[r], s, z) => At(reader'[r], s, z)
    BY QuietAt DEF Calm
  <2> QED BY <2>3, <2>4, ChainReaders
<1>7. Counted'
  BY DEF Counted
<1> QED BY <1>1, <1>2, <1>3, <1>4, <1>5, <1>6, <1>7

\* A turn of the event loop ends: sessions skip to a keyframe or go on.
LEMMA KeepUpPasses ==
  ASSUME NEW se, NEW q, keep_up(se, q), DOMAIN se = Watched, \A s \in Watched : Sane(se[s])
  PROVE  DOMAIN session' = Watched /\ \A s \in Watched : Passed(session'[s], se[s])
                                       /\ session'[s].state = se[s].state
<1>1. CASE session' = se
  BY <1>1, PassedSame
<1>2. CASE session' = fall_behind(se, q)
  <2>1. DOMAIN session' = Watched
    BY <1>2 DEF fall_behind
  <2>2. ASSUME NEW s \in Watched
        PROVE  Passed(session'[s], se[s]) /\ session'[s].state = se[s].state
    <3>1. CASE se[s].state # "live"
      <4>1. session'[s] = se[s]
        BY <1>2, <3>1 DEF fall_behind
      <4> QED BY <4>1, PassedSame
    <3>2. CASE se[s].state = "live"
      <4> DEFINE old == se[s]
                 new == session'[s]
      <4>1. \E handed : new = [[old EXCEPT !.awaiting_key = TRUE, !.picture = <<>>]
                                EXCEPT !.handed = handed]
        BY <1>2, <3>2 DEF fall_behind, skip_to_key
      <4>2. /\ DOMAIN new = SessionFields /\ new.state = "live" /\ new.thread = old.thread
            /\ new.connected = old.connected /\ new.awaiting_key = TRUE
            /\ new.broken = FALSE /\ new.picture = <<>>
        <5>1. Sane(old)
          OBVIOUS
        <5> HIDE DEF new, old
        <5> QED BY <4>1, <5>1, <3>2, SessionFieldsOf DEF Sane, old
      <4>3. Sane(old) /\ old.state = "live"
        BY <3>2
      <4> HIDE DEF new, old
      <4>4. Sane(new)
        BY <4>2, <4>3 DEF Sane
      <4>5. \A a \in Nat : SessionAt(new, a)
        BY <4>2 DEF SessionAt
      <4>6. Passed(new, old)
        BY <4>2, <4>3, <4>4, <4>5 DEF Passed, Serviced
      <4> QED BY <4>2, <4>3, <4>6 DEF new, old
    <3> QED BY <3>1, <3>2
  <2> QED BY <2>1, <2>2
<1> QED BY <1>1, <1>2 DEF keep_up

\* Sessions that end.
LEMMA OverPasses ==
  ASSUME NEW se, Sane(se), se.state # "none" , se.thread # "first"
  PROVE  Passed(Over(se), se) /\ Over(se).state = "over"
<1> DEFINE new == Over(se)
<1>1. /\ DOMAIN new = SessionFields /\ new.state = "over" /\ new.thread = se.thread
      /\ new.connected = FALSE /\ new.awaiting_key = TRUE /\ new.broken = se.broken
  BY DEF Over, NewSession, SessionFields
<1> HIDE DEF new
<1>2. Sane(new)
  BY <1>1 DEF Sane
<1>3. Passed(new, se)
  BY <1>1, <1>2 DEF Passed, Serviced
<1> QED BY <1>1, <1>3 DEF new

-----------------------------------------------------------------------------
(* The steps of a reader.                                                  *)

\* Whatever a feed holds, it still holds.
Stays(f, g) == \A c, z \in Nat : Linked(f, c, z) => Linked(g, c, z)

\* A reader's step, behind which what it sends follows what it sent.
LEMMA ReaderMoves ==
  ASSUME PictureInv, LiveInv', NEW r \in Readers, NEW new, reader' = [reader EXCEPT ![r] = new],
         ReaderWhole(new), new.subs \subseteq reader[r].subs,
         stream' = stream, session' = session, reads' = reads, serving' = serving,
         Counted', DOMAIN feed' = Streams,
         \A s \in Streams : /\ Moves(s, reader[r], feed[s], new, feed'[s])
                            /\ s \notin reader[r].subs => Stays(feed[s], feed'[s])
  PROVE  PictureInv'
<1> USE DEF PictureInv
<1>1. reader'[r] = new /\ \A q \in Readers \ {r} : reader'[q] = reader[q]
  BY DEF LiveInv, LiveShape
<1>2. ReadersWhole'
  BY <1>1 DEF ReadersWhole
<1>3. SessionsSane' /\ ReadsOwned' /\ ServedLive'
  BY DEF SessionsSane, ReadsOwned, ServedLive
<1>4. UnopenedClean'
  BY <1>1 DEF UnopenedClean
<1>5. Chained'
  <2> SUFFICES ASSUME NEW s \in Watched, session[s].state \in Serviced
               PROVE  Chain(s, session[s], reads, stream[s].queued, feed'[s], reader')
    BY DEF Chained
  <2>0. s \in Streams
    BY WatchedStreams
  <2>1. Chain(s, session[s], reads, stream[s].queued, feed[s], reader)
    BY DEF Chained
  <2>2. PICK a \in Nat, b \in Nat, c \in Nat, z \in Nat :
          /\ SessionAt(session[s], a) /\ (session[s].state # "live" => a = b)
          /\ Linked(ReadsOf(reads, s), a, b) /\ Linked(stream[s].queued, b, c)
          /\ Linked(feed[s], c, z)
          /\ \A q \in Readers : At(reader[q], s, z)
    BY <2>1 DEF Chain
  <2>3. \E y \in Nat : Linked(feed'[s], c, y) /\ \A q \in Readers : At(reader'[q], s, y)
    <3>1. CASE s \notin reader[r].subs
      <4>1. At(new, s, z)
        BY <3>1 DEF At
      <4>2. Linked(feed'[s], c, z)
        BY <2>0, <2>2, <3>1 DEF Stays
      <4> QED BY <2>2, <4>1, <4>2, <1>1
    <3>2. CASE s \in reader[r].subs
      <4>1. Moves(s, reader[r], feed[s], new, feed'[s])
        BY <2>0
      <4>2. PICK y \in Nat : Linked(feed'[s], c, y) /\ At(new, s, y)
        BY <2>2, <4>1 DEF Moves
      <4>3. ASSUME NEW q \in Readers \ {r}
            PROVE  At(reader'[q], s, y)
        <5>1. s \notin reader[q].subs
          <6>1. reader[r].thread \notin {"none", "gone"}
            BY <3>2 DEF ReadersWhole, ReaderWhole
          <6>2. s \in reader[q].subs => reader[q].thread \notin {"none", "gone"}
            BY DEF ReadersWhole, ReaderWhole
          <6> QED BY <6>1, <6>2 DEF LiveInv, OneReader, Running
        <5> QED BY <5>1, <1>1 DEF At
      <4> QED BY <4>2, <4>3, <1>1
    <3> QED BY <3>1, <3>2
  <2> QED BY <2>1, <2>2, <2>3 DEF Chain
<1> QED BY <1>2, <1>3, <1>4, <1>5

\* A reader's step that sends nothing.
LEMMA ReaderRests ==
  ASSUME PictureInv, LiveInv', NEW r \in Readers, NEW new, reader' = [reader EXCEPT ![r] = new],
         Quiet(new, reader[r]), ReaderWhole(new),
         stream' = stream, session' = session, reads' = reads, serving' = serving,
         Counted', feed' = feed
  PROVE  PictureInv'
<1>1. \A s \in Streams : Moves(s, reader[r], feed[s], new, feed'[s])
  BY MovesQuiet
<1>2. DOMAIN feed' = Streams /\ new.subs \subseteq reader[r].subs
      /\ \A s \in Streams : Stays(feed[s], feed'[s])
  BY DEF PictureInv, Quiet, Stays
<1> QED BY <1>1, <1>2, ReaderMoves

\* A change of a reader's thread, of its linger or of what it knows of the source.
LEMMA ThreadRests ==
  ASSUME NEW rd, Sound(rd), Whole(rd), NEW thread, thread \notin {"none", "gone"}
  PROVE  LET new == [rd EXCEPT !.thread = thread]
         IN Quiet(new, rd) /\ ReaderWhole(new) /\ Sound(new) /\ new.thread = thread
BY FieldsOf DEF Quiet, ReaderWhole, Whole, Sound

LEMMA SentOnly ==
  ASSUME DOMAIN feed = Streams, NEW S, NEW messages
  PROVE  /\ DOMAIN Sent(S, messages) = Streams
         /\ \A s \in Streams : s \notin S => Sent(S, messages)[s] = feed[s]
BY DEF Sent, Open

LEMMA BackOnly ==
  ASSUME DOMAIN feed = Streams, NEW rd, Sound(rd)
  PROVE  /\ DOMAIN Back(rd) = Streams
         /\ \A s \in Streams : s \notin rd.subs => Back(rd)[s] = feed[s]
BY SentOnly DEF Back, Sound

LEMMA PublishedOnly ==
  ASSUME NEW rd, Sound(rd), NEW packet, NEW F
  PROVE  /\ DOMAIN Published(rd, packet, F) = Streams
         /\ \A s \in Streams : s \notin rd.subs => Published(rd, packet, F)[s] = F[s]
BY DEF Published, Sound, Open, Takes, Resumes

\* A packet goes out behind what was sent with it.
LEMMA PublishedMoves ==
  ASSUME NEW rd, NEW told, NEW sent, Sound(told), Whole(told), told.subs \subseteq rd.subs,
         told.thread = rd.thread, rd.thread \notin {"none", "gone"},
         \A s \in Streams : Moves(s, rd, feed[s], told, sent[s])
                            /\ (s \notin rd.subs => Stays(feed[s], sent[s])),
         NEW p, Frame(p), p.key \/ p.needs = told.last
  PROVE  LET new == publish(told, p)
             F == Published(told, p, sent)
         IN /\ ReaderWhole(new) /\ new.subs \subseteq rd.subs /\ DOMAIN F = Streams
            /\ \A s \in Streams : Moves(s, rd, feed[s], new, F[s])
                                  /\ (s \notin rd.subs => Stays(feed[s], F[s]))
<1> DEFINE new == publish(told, p)
           F == Published(told, p, sent)
<1>1. Whole(new)
  BY PublishWhole
<1>2. Shrunk(new, told)
  BY PublishShrinks
<1>3. DOMAIN F = Streams /\ \A s \in Streams : s \notin told.subs => F[s] = sent[s]
  BY PublishedOnly
<1>4. \A s \in Streams : Moves(s, told, sent[s], new, F[s])
  BY PublishMoves
<1> HIDE DEF new, F
<1>5. \A s \in Streams : Moves(s, rd, feed[s], new, F[s])
  BY <1>4, MovesTrans
<1>6. ReaderWhole(new) /\ new.subs \subseteq rd.subs
  BY <1>1, <1>2 DEF Shrunk, ReaderWhole
<1>7. \A s \in Streams : s \notin rd.subs => Stays(feed[s], F[s])
  BY <1>3
<1> QED BY <1>3, <1>5, <1>6, <1>7 DEF new, F

LEMMA ConnectPicture ==
  ASSUME PictureInv, LiveInv', NEW r \in Readers, Connect(r), UNCHANGED webrtcVars
  PROVE  PictureInv'
<1> DEFINE rd == reader[r]
<1>0. /\ Sound(rd) /\ Whole(rd) /\ ReaderWhole(rd) /\ DOMAIN feed = Streams
      /\ source.frames \in Nat /\ Counted
  BY DEF PictureInv, LiveInv, LiveShape, ReadersWhole, ReaderWhole, Counted
<1>00. session' = session /\ reads' = reads /\ serving' = serving /\ stream' = stream
  BY DEF webrtcVars, Connect
<1>1. PICK kind \in Kinds[Min({source.links + 1, Len(Kinds)})],
             picture \in IF copy THEN Pictures ELSE {"display"} :
        LET base == [rd EXCEPT !.thread = "reading", !.picture = picture, !.kind = kind]
            seen == [base EXCEPT !.last = source.frames + 1]
        IN IF copy
           THEN /\ reader' = [reader EXCEPT ![r] = PublishTrack(seen, kind)]
                /\ feed' = Sent(base.subs, <<Track(kind)>>)
                /\ source' = [source EXCEPT !.links = @ + 1, !.frames = @ + 1]
           ELSE /\ reader' = [reader EXCEPT ![r] = base]
                /\ source' = [source EXCEPT !.links = @ + 1]
                /\ UNCHANGED feed
  BY DEF Connect
<1> DEFINE base == [rd EXCEPT !.thread = "reading", !.picture = picture, !.kind = kind]
           seen == [base EXCEPT !.last = source.frames + 1]
<1>3. picture \in {"display", "bframes", "pyramid"}
  BY <1>1, RemuxAssumption
<1>4. /\ Sound(base) /\ base.subs = rd.subs /\ base.thread = "reading" /\ Quiet(base, rd)
      /\ ReaderWhole(base)
  BY <1>0, <1>3, FieldsOf DEF Sound, Quiet, ReaderWhole, Whole
<1>5. /\ Sound(seen) /\ seen.subs = rd.subs /\ seen.thread = "reading"
      /\ seen.last \in Nat /\ seen.picture = picture
  BY <1>0, <1>3, FieldsOf DEF Sound
<1>6. CASE ~copy
  <2>1. reader' = [reader EXCEPT ![r] = base] /\ feed' = feed /\ Counted'
    BY <1>0, <1>1, <1>6 DEF Counted
  <2> HIDE DEF base, seen
  <2> QED BY <2>1, <1>4, <1>0, <1>00, ReaderRests
<1>7. CASE copy
  <2> DEFINE new == PublishTrack(seen, kind)
  <2>1. reader' = [reader EXCEPT ![r] = new] /\ feed' = Sent(base.subs, <<Track(kind)>>)
    BY <1>1, <1>7
  <2>2. Counted'
    <3>1. source' = [source EXCEPT !.links = @ + 1, !.frames = @ + 1]
      BY <1>1, <1>7
    <3> QED BY <3>1, <1>0 DEF Counted
  <2> HIDE DEF base, seen
  <2>3. Shrunk(new, seen)
    BY <1>5, PublishTrackShrinks
  <2>4. new.subs = Open(seen.subs) /\ Whole(new)
    BY <1>3, <1>5, PublishTrackWhole
  <2> HIDE DEF new
  <2>5. ASSUME NEW s \in Streams
        PROVE  /\ Moves(s, rd, feed[s], new, feed'[s])
               /\ s \notin rd.subs => Stays(feed[s], feed'[s])
    <3>1. feed'[s] = IF s \in Open(seen.subs) THEN feed[s] \o <<Track(kind)>> ELSE feed[s]
      BY <2>1, <1>4, <1>5 DEF Sent
    <3>2. Moves(s, rd, feed[s], new, feed'[s])
      BY <3>1, <2>4, PublishTrackMoves
    <3> QED BY <3>1, <3>2, <1>5 DEF Open, Stays
  <2>6. ReaderWhole(new) /\ new.subs \subseteq rd.subs
    BY <2>3, <2>4, <1>5 DEF Shrunk, ReaderWhole
  <2>7. DOMAIN feed' = Streams
    BY <2>1, <1>0, SentOnly
  <2> QED BY <2>1, <2>2, <2>5, <2>6, <2>7, <1>00, ReaderMoves
<1> QED BY <1>6, <1>7

LEMMA ReadPicture ==
  ASSUME PictureInv, LiveInv', NEW r \in Readers, ReadCopy(r) \/ ReadTranscode(r),
         UNCHANGED webrtcVars
  PROVE  PictureInv'
<1> DEFINE rd == reader[r]
           got == received(rd)
           n == source.frames + 1
<1>0. /\ Sound(rd) /\ Whole(rd) /\ ReaderWhole(rd) /\ DOMAIN feed = Streams
      /\ source.frames \in Nat /\ Counted
  BY DEF PictureInv, LiveInv, LiveShape, ReadersWhole, ReaderWhole, Counted
<1>00. /\ session' = session /\ reads' = reads /\ serving' = serving /\ stream' = stream
       /\ rd.thread = "reading"
  BY DEF webrtcVars, ReadCopy, ReadTranscode
<1>1. Counted' /\ n \in Nat \ {0}
  <2>1. source' = [source EXCEPT !.frames = @ + 1]
    BY DEF ReadCopy, ReadTranscode
  <2> QED BY <2>1, <1>0 DEF Counted
<1>2. /\ Sound(got) /\ Whole(got) /\ Quiet(got, rd) /\ got.subs \subseteq rd.subs
      /\ got.thread = rd.thread
  BY <1>0, ReceivedWhole, ReceivedShrinks DEF Shrunk
<1>3. /\ DOMAIN Back(rd) = Streams
      /\ \A s \in Streams : s \notin rd.subs => Stays(feed[s], Back(rd)[s])
  BY <1>0, BackOnly DEF Stays
<1>4. \A s \in Streams : Moves(s, rd, feed[s], got, Back(rd)[s])
  BY <1>0, ReceivedMoves
<1>5. CASE ReadCopy(r)
  <2>1. PICK packet \in Frames(rd, n) :
          /\ reader' = [reader EXCEPT ![r] = publish(got, packet)]
          /\ feed' = Published(got, packet, Back(rd))
    BY <1>5 DEF ReadCopy
  <2> HIDE DEF got, rd, n
  <2>2. Frame(packet) /\ (packet.key \/ packet.needs = got.last)
    <3>1. got.last = rd.last
      BY <1>2 DEF Quiet
    <3>2. rd.last \in Nat /\ rd.picture \in {"display", "bframes", "pyramid"}
      BY <1>0 DEF Whole
    <3>3. Frame(packet) /\ (packet.key \/ packet.needs = rd.last)
      BY <3>2, <1>1, FramesFollow
    <3> QED BY <3>1, <3>3
  <2> DEFINE new == publish(got, packet)
  <2>3. /\ ReaderWhole(new) /\ new.subs \subseteq rd.subs /\ DOMAIN feed' = Streams
        /\ \A s \in Streams : Moves(s, rd, feed[s], new, feed'[s])
                              /\ (s \notin rd.subs => Stays(feed[s], feed'[s]))
    BY <2>1, <2>2, <1>00, <1>2, <1>3, <1>4, PublishedMoves
  <2>4. reader' = [reader EXCEPT ![r] = new]
    BY <2>1
  <2> HIDE DEF new
  <2> QED BY <2>3, <2>4, <1>1, <1>00, ReaderMoves DEF rd
<1>6. CASE ReadTranscode(r)
  <2> DEFINE fresh == ~got.published \/ got.track # got.kind
             told == IF fresh THEN PublishTrack(got, got.kind) ELSE got
             sent == IF fresh
                     THEN [s \in Streams |-> Back(rd)[s]
                             \o (IF s \in Open(got.subs) THEN <<Track(got.kind)>> ELSE <<>>)]
                     ELSE Back(rd)
  <2>1. \/ \E packet \in Frames([told EXCEPT !.picture = "display"], n) :
             /\ reader' = [reader EXCEPT ![r] = publish(told, packet)]
             /\ feed' = Published(told, packet, sent)
        \/ /\ reader' = [reader EXCEPT ![r] = got]
           /\ feed' = Back(rd)
    BY <1>6 DEF ReadTranscode
  <2> HIDE DEF got, rd, n
  <2>2. /\ Sound(told) /\ Whole(told) /\ told.subs \subseteq got.subs
        /\ told.thread = rd.thread
    <3>1. /\ Whole(PublishTrack(got, got.kind)) /\ Sound(PublishTrack(got, got.kind))
          /\ PublishTrack(got, got.kind).thread = got.thread
          /\ PublishTrack(got, got.kind).subs \subseteq got.subs
      BY <1>2, PublishTrackWhole, PublishTrackShrinks DEF Whole, Shrunk
    <3> QED BY <3>1, <1>2
  <2>3. ASSUME NEW s \in Streams
        PROVE  Moves(s, rd, feed[s], told, sent[s]) /\ (s \notin rd.subs => Stays(feed[s], sent[s]))
    <3>1. CASE ~fresh
      BY <3>1, <1>3, <1>4
    <3>2. CASE fresh
      <4> DEFINE f == Back(rd)[s]
      <4>1. told.subs = Open(got.subs) /\ Open(got.subs) \subseteq rd.subs
        BY <3>2, <1>2, PublishTrackWhole DEF Whole, Open
      <4>3. sent[s] = f \o (IF s \in Open(got.subs) THEN <<Track(got.kind)>> ELSE <<>>)
        BY <3>2
      <4>4. Moves(s, rd, feed[s], got, f) /\ (s \notin rd.subs => Stays(feed[s], f))
        BY <1>3, <1>4
      <4> HIDE DEF told, f, sent
      <4>5. CASE s \in Open(got.subs)
        <5>1. Moves(s, got, f, told, sent[s])
          BY <4>1, <4>3, <4>5, PublishTrackMoves
        <5> QED BY <5>1, <4>1, <4>4, <4>5, MovesTrans
      <4>6. CASE s \notin Open(got.subs)
        <5>1. Stays(f, sent[s])
          <6> SUFFICES ASSUME NEW c \in Nat, NEW z \in Nat, Linked(f, c, z)
                       PROVE  Linked(sent[s], c, z)
            BY DEF Stays
          <6>1. Linked(<<>>, z, z)
            BY LinkedEmpty
          <6>2. Linked(f \o <<>>, c, z)
            BY <6>1, LinkedConcat
          <6> QED BY <6>2, <4>3, <4>6
        <5>2. \A z : At(told, s, z)
          BY <4>1, <4>6 DEF At
        <5>3. Moves(s, got, f, told, sent[s])
          BY <5>1, <5>2 DEF Moves, Stays
        <5>4. Moves(s, rd, feed[s], told, sent[s])
          BY <5>3, <4>4, MovesTrans
        <5>5. s \notin rd.subs => Stays(feed[s], sent[s])
          BY <5>1, <4>4 DEF Stays
        <5> QED BY <5>4, <5>5
      <4> QED BY <4>5, <4>6
    <3> QED BY <3>1, <3>2
  <2> HIDE DEF fresh, told, sent
  <2>4. ASSUME NEW packet \in Frames([told EXCEPT !.picture = "display"], n),
               reader' = [reader EXCEPT ![r] = publish(told, packet)],
               feed' = Published(told, packet, sent)
        PROVE  PictureInv'
    <3> DEFINE base == [told EXCEPT !.picture = "display"]
    <3>1. base.last = told.last /\ base.picture = "display" /\ base.last \in Nat
      BY <2>2, FieldsOf DEF Sound, Whole
    <3> HIDE DEF base
    <3>2. Frame(packet) /\ (packet.key \/ packet.needs = told.last)
      <4>1. Frame(packet) /\ (packet.key \/ packet.needs = base.last)
        BY <2>4, <3>1, <1>1, FramesFollow DEF base
      <4> QED BY <4>1, <3>1
    <3> DEFINE new == publish(told, packet)
    <3>3. /\ ReaderWhole(new) /\ new.subs \subseteq rd.subs /\ DOMAIN feed' = Streams
          /\ \A s \in Streams : Moves(s, rd, feed[s], new, feed'[s])
                                /\ (s \notin rd.subs => Stays(feed[s], feed'[s]))
      BY <2>2, <2>3, <2>4, <3>2, <1>00, <1>2, PublishedMoves
    <3>4. reader' = [reader EXCEPT ![r] = new]
      BY <2>4
    <3> HIDE DEF new
    <3> QED BY <3>3, <3>4, <1>1, <1>00, ReaderMoves DEF rd
  <2>5. ASSUME reader' = [reader EXCEPT ![r] = got], feed' = Back(rd)
        PROVE  PictureInv'
    <3>1. ReaderWhole(got)
      BY <1>00, <1>2 DEF ReaderWhole
    <3>2. /\ DOMAIN feed' = Streams
          /\ \A s \in Streams : Moves(s, rd, feed[s], got, feed'[s])
                                /\ (s \notin rd.subs => Stays(feed[s], feed'[s]))
      BY <2>5, <1>3, <1>4
    <3> QED BY <3>1, <3>2, <2>5, <1>1, <1>2, <1>00, ReaderMoves DEF rd
  <2> QED BY <2>1, <2>4, <2>5
<1> QED BY <1>5, <1>6

LEMMA BackoffPicture ==
  ASSUME PictureInv, LiveInv', NEW r \in Readers, Backoff(r), UNCHANGED webrtcVars,
         stream' = stream, source' = source
  PROVE  PictureInv'
<1> DEFINE rd == reader[r]
           new == [lost(rd) EXCEPT !.thread = "head"]
<1>0. Sound(rd) /\ Whole(rd) /\ DOMAIN feed = Streams /\ Counted'
  BY DEF PictureInv, LiveInv, LiveShape, ReadersWhole, ReaderWhole, Counted
<1>1. reader' = [reader EXCEPT ![r] = new] /\ feed' = Sent(rd.subs, schedule(rd))
  BY DEF Backoff
<1>2. Quiet(lost(rd), rd) /\ Whole(lost(rd)) /\ Sound(lost(rd))
  BY <1>0, LostWhole
<1>3. Quiet(new, lost(rd)) /\ ReaderWhole(new)
  BY <1>2, ThreadRests
<1> HIDE DEF new
<1>4. Quiet(new, rd)
  BY <1>2, <1>3 DEF Quiet
<1>5. \A s \in Streams : Moves(s, rd, feed[s], new, feed'[s])
  BY <1>0, <1>1, <1>4, LostMoves
<1>6. /\ DOMAIN feed' = Streams
      /\ \A s \in Streams : s \notin rd.subs => Stays(feed[s], feed'[s])
  BY <1>0, <1>1, SentOnly DEF Stays
<1>7. session' = session /\ reads' = reads /\ serving' = serving
  BY DEF webrtcVars
<1> QED BY <1>0, <1>1, <1>3, <1>4, <1>5, <1>6, <1>7, ReaderMoves DEF Quiet

LEMMA ReaderStepPicture ==
  ASSUME PictureInv, LiveInv', NEW r \in Readers, ReaderStep(r) \/ Linger(r),
         UNCHANGED webrtcVars
  PROVE  PictureInv'
<1> DEFINE rd == reader[r]
<1>0. /\ Sound(rd) /\ Whole(rd) /\ ReaderWhole(rd) /\ DOMAIN feed = Streams
      /\ source.frames \in Nat /\ Counted
  BY DEF PictureInv, LiveInv, LiveShape, ReadersWhole, ReaderWhole, Counted
<1>00. session' = session /\ reads' = reads /\ serving' = serving
  BY DEF webrtcVars
<1>1. ASSUME NEW thread, thread \notin {"none", "gone"},
             reader' = [reader EXCEPT ![r].thread = thread],
             feed' = feed, stream' = stream, Counted'
      PROVE  PictureInv'
  <2> DEFINE new == [rd EXCEPT !.thread = thread]
  <2>1. reader' = [reader EXCEPT ![r] = new]
    BY <1>1
  <2>2. Quiet(new, rd) /\ ReaderWhole(new)
    BY <1>0, <1>1, ThreadRests
  <2> HIDE DEF new
  <2> QED BY <2>1, <2>2, <1>0, <1>00, <1>1, ReaderRests
<1>2. ReaderWhole(Closed) /\ Closed.subs = {}
  BY ClosedWhole DEF ReaderWhole
<1>3. CASE Round(r)
  <2>1. Counted'
    BY <1>0, <1>3 DEF Round, Counted
  <2> DEFINE thread == IF should_stop(r) THEN "head_stop" ELSE "connect"
  <2>2. thread \notin {"none", "gone"}
    OBVIOUS
  <2>3. reader' = [reader EXCEPT ![r].thread = thread] /\ feed' = feed /\ stream' = stream
    BY <1>3 DEF Round
  <2> HIDE DEF thread
  <2> QED BY <2>1, <2>2, <2>3, <1>1
<1>4. CASE LoseLink(r)
  <2>1. Counted'
    BY <1>0, <1>4 DEF LoseLink, Counted
  <2>2. reader' = [reader EXCEPT ![r].thread = "ended"] /\ feed' = feed /\ stream' = stream
    BY <1>4 DEF LoseLink
  <2>3. "ended" \notin {"none", "gone"}
    OBVIOUS
  <2> QED BY <2>1, <2>2, <2>3, <1>1
<1>5. CASE Fatal(r)
  <2>0. PICK failed \in BOOLEAN : close(r, failed)
    BY <1>5 DEF Fatal
  <2>1. /\ reader' = [reader EXCEPT ![r] = Closed] /\ feed' = Sent(rd.subs, <<End(failed)>>)
        /\ stream' = stream /\ Counted'
    BY <1>0, <1>5, <2>0 DEF Fatal, close, Counted
  <2>2. \A s \in Streams : /\ Moves(s, rd, feed[s], Closed, feed'[s])
                           /\ s \notin rd.subs => Stays(feed[s], feed'[s])
    <3>1. \A s \in Streams : Moves(s, rd, feed[s], Closed, Sent(rd.subs, <<End(failed)>>)[s])
      BY CloseMoves
    <3>2. \A s \in Streams : s \notin rd.subs => Sent(rd.subs, <<End(failed)>>)[s] = feed[s]
      BY <1>0, SentOnly
    <3> QED BY <2>1, <3>1, <3>2 DEF Stays
  <2>3. DOMAIN feed' = Streams
    BY <2>1, <1>0, SentOnly
  <2> QED BY <2>1, <2>2, <2>3, <1>00, <1>2, ReaderMoves
<1>6. CASE EndLink(r)
  <2>1. Counted' /\ stream' = stream /\ source' = source
    BY <1>0, <1>6 DEF EndLink, Counted
  <2>2. CASE should_stop(r)
    BY <2>1, <2>2, <1>1, <1>6 DEF EndLink
  <2>3. CASE ~should_stop(r)
    BY <2>1, <2>3, <1>6, BackoffPicture DEF EndLink
  <2> QED BY <2>2, <2>3
<1>7. CASE Stopping(r)
  <2>1. Counted' /\ stream' = stream /\ source' = source
    BY <1>0, <1>7 DEF Stopping, Counted
  <2>2. CASE try_close(r) /\ feed' = feed
    <3>1. reader' = [reader EXCEPT ![r] = Closed]
      BY <2>2 DEF try_close
    <3>2. \A s \in Streams : Moves(s, rd, feed[s], Closed, feed'[s]) /\ Stays(feed[s], feed'[s])
      BY <2>2, CloseMoves DEF Stays
    <3> QED BY <2>1, <2>2, <3>1, <3>2, <1>0, <1>00, <1>2, ReaderMoves
  <2>3. CASE reader' = [reader EXCEPT ![r].thread = "connect"] /\ feed' = feed
    <3>1. "connect" \notin {"none", "gone"}
      OBVIOUS
    <3> QED BY <2>1, <2>3, <3>1, <1>1
  <2>4. CASE Backoff(r)
    BY <2>1, <2>4, BackoffPicture
  <2> QED BY <1>7, <2>2, <2>3, <2>4 DEF Stopping
<1>8. CASE Linger(r)
  <2> DEFINE new == [rd EXCEPT !.empty = "lingered"]
  <2>1. /\ reader' = [reader EXCEPT ![r] = new] /\ feed' = feed /\ stream' = stream /\ Counted'
    BY <1>0, <1>8 DEF Linger, Counted
  <2>2. Quiet(new, rd) /\ ReaderWhole(new)
    BY <1>0, FieldsOf DEF Quiet, ReaderWhole, Whole, Sound
  <2> HIDE DEF new
  <2> QED BY <2>1, <2>2, <1>00, ReaderRests
<1> QED BY <1>3, <1>4, <1>5, <1>6, <1>7, <1>8, ConnectPicture, ReadPicture DEF ReaderStep

-----------------------------------------------------------------------------
(* A stream that joins.                                                    *)

\* A stream that joins is greeted with a picture that it can follow.
LEMMA GreetingLinked ==
  ASSUME NEW rd, Whole(rd), ~rd.closed
  PROVE  \E z \in {NoFrame, rd.last} : Linked(Greeting(rd), NoFrame, z)
<1> DEFINE first == IF rd.outage \/ rd.track = NoTrack THEN <<>>
                    ELSE IF rd.gop_valid THEN <<Snapshot(rd.track, rd.gop)>>
                    ELSE <<Track(rd.track)>>
<1>0. NoFrame \in Nat /\ rd.last \in Nat
  BY DEF Whole, NoFrame
<1>1. \E z \in {NoFrame, rd.last} : Linked(first, NoFrame, z)
  <2>1. CASE rd.outage \/ rd.track = NoTrack
    BY <2>1, <1>0, LinkedEmpty
  <2>2. CASE ~(rd.outage \/ rd.track = NoTrack) /\ rd.gop_valid
    <3>1. PICK z \in {NoFrame, rd.last} : Framed(rd.gop, NoFrame, z)
      BY <2>2 DEF Whole
    <3>2. Passes(NoFrame, Snapshot(rd.track, rd.gop), z)
      BY <3>1 DEF Snapshot, Passes
    <3>3. Linked(<<Snapshot(rd.track, rd.gop)>>, NoFrame, z)
      BY <3>2, <1>0, LinkedOne
    <3> QED BY <3>3, <2>2
  <2>3. CASE ~(rd.outage \/ rd.track = NoTrack) /\ ~rd.gop_valid
    <3>1. Linked(<<Track(rd.track)>>, NoFrame, NoFrame)
      BY <1>0, TrackPasses, LinkedOne
    <3> QED BY <3>1, <2>3
  <2> QED BY <2>1, <2>2, <2>3
<1>2. Greeting(rd) = first \o <<>>
  BY DEF Greeting
<1> HIDE DEF first
<1>3. PICK z \in {NoFrame, rd.last} : Linked(first, NoFrame, z)
  BY <1>1
<1>4. z \in Nat
  BY <1>0
<1>5. Linked(<<>>, z, z)
  BY <1>4, LinkedEmpty
<1>6. Linked(first \o <<>>, NoFrame, z)
  BY <1>0, <1>3, <1>4, <1>5, LinkedConcat
<1> QED BY <1>2, <1>6

\* What a stream that joins makes of the readers, of its feed and of the others.
LEMMA AttachReaders ==
  ASSUME PictureInv, NEW s \in Streams, CanAttach, attach(s)
  PROVE  /\ ReadersWhole' /\ DOMAIN feed' = Streams /\ stream'[s].queued = stream[s].queued
         /\ \A t \in Streams \ {s} :
              /\ feed'[t] = feed[t] /\ stream'[t] = stream[t]
              /\ \A q \in Readers : /\ t \notin reader[q].subs => t \notin reader'[q].subs
                                    /\ \A z \in Nat : At(reader[q], t, z) => At(reader'[q], t, z)
         /\ (\A q \in Readers : s \notin reader[q].subs) =>
              \E z \in Nat : Linked(feed'[s], NoFrame, z) /\ \A q \in Readers : At(reader'[q], s, z)
<1> PICK r \in Readers :
      /\ IF registry # {} THEN r \in registry
         ELSE r = CHOOSE x \in Readers : reader[x].thread = "none"
      /\ reader' = [reader EXCEPT ![r] =
           join(IF registry = {} THEN [@ EXCEPT !.thread = "head"] ELSE @, s)]
      /\ stream' = [stream EXCEPT ![s].state = "open", ![s].reader = r]
      /\ feed' = [feed EXCEPT ![s] = Greeting(reader[r])]
  BY DEF attach
<1> DEFINE base == IF registry = {} THEN [reader[r] EXCEPT !.thread = "head"] ELSE reader[r]
           new == join(base, s)
<1>0. /\ LiveInv /\ Sound(reader[r]) /\ Whole(reader[r]) /\ DOMAIN feed = Streams
      /\ DOMAIN reader = Readers /\ DOMAIN stream = Streams /\ DOMAIN stream[s] = StreamFields
  BY DEF PictureInv, LiveInv, LiveShape, ReadersWhole, ReaderWhole
<1>1. ~reader[r].closed
  <2>1. CASE registry # {}
    BY <1>0, <2>1 DEF LiveInv, Registered, Running, ClosedEmpty
  <2>2. CASE registry = {}
    <3>1. \E x \in Readers : reader[x].thread = "none"
      BY <2>2 DEF CanAttach
    <3>2. reader[r].thread = "none"
      BY <2>2, <3>1
    <3> QED BY <1>0, <3>2 DEF LiveInv, ClosedEmpty
  <2> QED BY <2>1, <2>2
<1>2. /\ Sound(base) /\ Whole(base) /\ base.subs = reader[r].subs
      /\ base.waiting = reader[r].waiting /\ base.last = reader[r].last
      /\ base.thread \notin {"none", "gone"}
  <2>1. registry # {} => reader[r].thread \notin {"none", "gone"}
    BY <1>0 DEF LiveInv, Registered, Running
  <2> QED BY <2>1, <1>0, FieldsOf DEF Sound, Whole
<1>3. reader' = [reader EXCEPT ![r] = new]
  OBVIOUS
<1> HIDE DEF base
<1>4. /\ Whole(new) /\ new.thread = base.thread /\ new.subs = base.subs \cup {s}
      /\ base.waiting \subseteq new.waiting /\ new.last = base.last
  BY <1>2, FieldsOf DEF join, Sound, Whole
<1> HIDE DEF new
<1>5. reader'[r] = new /\ \A q \in Readers \ {r} : reader'[q] = reader[q]
  BY <1>0, <1>3
<1>6. ReadersWhole'
  <2>1. ReaderWhole(new)
    BY <1>2, <1>4 DEF ReaderWhole
  <2> QED BY <2>1, <1>5 DEF PictureInv, ReadersWhole
<1>7. DOMAIN feed' = Streams /\ feed'[s] = Greeting(reader[r])
      /\ \A t \in Streams \ {s} : feed'[t] = feed[t] /\ stream'[t] = stream[t]
  BY <1>0
<1>8. stream'[s].queued = stream[s].queued
  <2>1. stream'[s] = [stream[s] EXCEPT !.state = "open", !.reader = r]
    BY <1>0
  <2> QED BY <2>1, <1>0, FieldsOf
<1>9. ASSUME NEW t \in Streams \ {s}, NEW q \in Readers
      PROVE  /\ t \notin reader[q].subs => t \notin reader'[q].subs
             /\ \A z \in Nat : At(reader[q], t, z) => At(reader'[q], t, z)
  <2>1. CASE q = r
    BY <2>1, <1>2, <1>4, <1>5 DEF At
  <2>2. CASE q # r
    BY <2>2, <1>5
  <2> QED BY <2>1, <2>2
<1>10. ASSUME \A q \in Readers : s \notin reader[q].subs
       PROVE  \E z \in Nat : Linked(feed'[s], NoFrame, z) /\ \A q \in Readers : At(reader'[q], s, z)
  <2>1. PICK z \in {NoFrame, reader[r].last} : Linked(Greeting(reader[r]), NoFrame, z)
    BY <1>0, <1>1, GreetingLinked
  <2>2. z \in Nat
    BY <1>0 DEF Whole, NoFrame
  <2>3. \A q \in Readers : At(reader'[q], s, z)
    BY <1>2, <1>4, <1>5, <1>10 DEF At
  <2> QED BY <2>1, <2>2, <2>3, <1>7
<1> QED BY <1>6, <1>7, <1>8, <1>9, <1>10

\* What a step leaves of a session it does not serve.
Apart(t) ==
  /\ feed'[t] = feed[t] /\ stream'[t].queued = stream[t].queued
  /\ Passed(session'[t], session[t])
  /\ \A q \in Readers : /\ t \notin reader[q].subs => t \notin reader'[q].subs
                        /\ \A z \in Nat : At(reader[q], t, z) => At(reader'[q], t, z)
  /\ session'[t].state \in Serviced =>
       /\ Plain(ReadsOf(reads, t)) => Plain(ReadsOf(reads', t))
       /\ \A a, b \in Nat : Linked(ReadsOf(reads, t), a, b) => Linked(ReadsOf(reads', t), a, b)

\* A step serves the sessions of S.
LEMMA SessionsMove ==
  ASSUME PictureInv, LiveInv', Counted', DOMAIN feed' = Streams, ReadersWhole',
         DOMAIN session' = Watched, ReadsOwned', ServedLive',
         NEW S \in SUBSET Watched, \A t \in Watched \ S : Apart(t),
         \A s \in S :
           /\ Sane(session'[s]) /\ session'[s].state # "none"
           /\ session'[s].state \in Serviced =>
                Chain(s, session'[s], reads', stream'[s].queued, feed'[s], reader')
  PROVE  PictureInv'
<1>1. SessionsSane'
  BY DEF SessionsSane, Apart, Passed
<1>2. UnopenedClean'
  <2> SUFFICES ASSUME NEW t \in Watched, session'[t].state = "none"
               PROVE  /\ session'[t] = NewSession /\ stream'[t].queued = <<>>
                      /\ \A r \in Readers : t \notin reader'[r].subs
    BY DEF UnopenedClean
  <2>1. t \notin S /\ session'[t] = session[t] /\ stream'[t].queued = stream[t].queued
    BY DEF Apart, Passed
  <2>2. \A r \in Readers : t \notin reader[r].subs => t \notin reader'[r].subs
    BY <2>1 DEF Apart
  <2> QED BY <2>1, <2>2 DEF PictureInv, UnopenedClean
<1>3. Chained'
  <2> SUFFICES ASSUME NEW t \in Watched, session'[t].state \in Serviced
               PROVE  Chain(t, session'[t], reads', stream'[t].queued, feed'[t], reader')
    BY DEF Chained
  <2>1. CASE t \in S
    BY <2>1
  <2>2. CASE t \notin S
    <3>1. Apart(t)
      BY <2>2
    <3>2. /\ session[t].state \in Serviced
          /\ session'[t].state # "live" => session[t].state # "live"
          /\ \A a \in Nat : SessionAt(session[t], a) => SessionAt(session'[t], a)
      BY <3>1 DEF Apart, Passed
    <3>3. Chain(t, session[t], reads, stream[t].queued, feed[t], reader)
      BY <3>2 DEF PictureInv, Chained
    <3>4. Chain(t, session'[t], reads, stream[t].queued, feed[t], reader)
      BY <3>2, <3>3, ChainSession
    <3>5. Chain(t, session'[t], reads, stream[t].queued, feed[t], reader')
      BY <3>1, <3>4, ChainReaders DEF Apart
    <3>6. Chain(t, session'[t], reads', stream[t].queued, feed[t], reader')
      BY <3>1, <3>5 DEF Chain, Apart
    <3> QED BY <3>1, <3>6 DEF Apart
  <2> QED BY <2>1, <2>2
<1> QED BY <1>1, <1>2, <1>3 DEF PictureInv

LEMMA OpenSessionPicture ==
  ASSUME PictureInv, LiveInv', NEW s \in Watched, OpenSession(s)
  PROVE  PictureInv'
<1>0. s \in Streams /\ CanAttach /\ attach(s)
  BY WatchedStreams DEF OpenSession
<1>1. /\ session[s].state = "none" /\ source' = source /\ reads' = reads /\ serving' = serving
      /\ session' = [session EXCEPT ![s].state = "opening", ![s].handle = "held",
                                    ![s].slot = TRUE, ![s].thread = "first"]
  BY DEF OpenSession
<1>2. /\ session[s] = NewSession /\ stream[s].queued = <<>> /\ DOMAIN session = Watched
      /\ \A r \in Readers : s \notin reader[r].subs
  BY <1>1 DEF PictureInv, UnopenedClean, SessionsSane
<1> DEFINE new == [NewSession EXCEPT !.state = "opening", !.handle = "held", !.slot = TRUE,
                                     !.thread = "first"]
<1>3. session'[s] = new /\ DOMAIN session' = Watched
      /\ \A t \in Watched \ {s} : session'[t] = session[t]
  BY <1>1, <1>2
<1>4. /\ Sane(new) /\ new.state = "opening" /\ ~new.connected /\ new.awaiting_key
      /\ new.picture = <<>>
  BY DEF Sane, NewSession, SessionFields
<1> HIDE DEF new
<1>5. /\ ReadersWhole' /\ DOMAIN feed' = Streams /\ stream'[s].queued = stream[s].queued
  BY <1>0, AttachReaders
<1>6. ReadsOwned' /\ \A i \in 1 .. Len(reads) : reads[i].s # s
  BY <1>1, <1>3 DEF PictureInv, ReadsOwned
<1>7. ServedLive' /\ Counted'
  BY <1>1, <1>3, <1>4 DEF PictureInv, ServedLive, Counted
<1>8. ASSUME NEW t \in Watched \ {s}
      PROVE  Apart(t)
  <2>1. t \in Streams \ {s}
    BY WatchedStreams
  <2>2. Passed(session'[t], session[t])
    BY <1>3, PassedSame DEF PictureInv, SessionsSane
  <2>3. /\ feed'[t] = feed[t] /\ stream'[t] = stream[t]
        /\ \A q \in Readers : /\ t \notin reader[q].subs => t \notin reader'[q].subs
                              /\ \A z \in Nat : At(reader[q], t, z) => At(reader'[q], t, z)
    BY <2>1, <1>0, AttachReaders
  <2> QED BY <2>2, <2>3, <1>1 DEF Apart
<1>9. Chain(s, new, reads, <<>>, feed'[s], reader')
  <2>1. PICK z \in Nat : Linked(feed'[s], NoFrame, z) /\ \A q \in Readers : At(reader'[q], s, z)
    BY <1>0, <1>2, AttachReaders
  <2>2. NoFrame \in Nat
    BY DEF NoFrame
  <2>3. SessionAt(new, NoFrame)
    BY <1>4 DEF SessionAt
  <2>4. Linked(ReadsOf(reads, s), NoFrame, NoFrame) /\ Plain(ReadsOf(reads, s))
    BY <1>6, <2>2, LinkedIdle DEF PictureInv, ReadsOwned
  <2>5. Linked(<<>>, NoFrame, NoFrame) /\ Plain(<<>>)
    BY <2>2, LinkedEmpty, NonePlain
  <2> QED BY <2>1, <2>2, <2>3, <2>4, <2>5 DEF Chain
<1>10. Chain(s, session'[s], reads', stream'[s].queued, feed'[s], reader')
  BY <1>1, <1>2, <1>3, <1>5, <1>9
<1> DEFINE S == {s}
<1>11. S \in SUBSET Watched /\ \A t \in Watched \ S : Apart(t)
  BY <1>8
<1>12. \A t \in S : /\ Sane(session'[t]) /\ session'[t].state # "none"
                    /\ Chain(t, session'[t], reads', stream'[t].queued, feed'[t], reader')
  BY <1>3, <1>4, <1>10
<1> HIDE DEF S
<1> QED BY <1>3, <1>5, <1>6, <1>7, <1>11, <1>12, SessionsMove

\* Streams of other ends read, join, end and stop.
LEMMA MuxedStepPicture ==
  ASSUME PictureInv, LiveInv', NEW s \in Muxed, MuxedStep(s), UNCHANGED webrtcVars
  PROVE  PictureInv'
<1>0. s \in Streams /\ source' = source /\ session' = session /\ reads' = reads
      /\ serving' = serving /\ s \notin Watched
  BY RemuxAssumption
     DEF Streams, webrtcVars, MuxedStep, OpenMuxed, stop, mux, MuxEnd
<1>1. /\ DOMAIN session' = Watched /\ ReadsOwned' /\ ServedLive' /\ Counted'
      /\ DOMAIN feed = Streams /\ ReadersWhole /\ LiveInv
  BY <1>0 DEF PictureInv, SessionsSane, ReadsOwned, ServedLive, Counted
<1>2. /\ ReadersWhole' /\ DOMAIN feed' = Streams
      /\ \A t \in Watched :
              /\ feed'[t] = feed[t] /\ stream'[t] = stream[t]
              /\ \A q \in Readers : /\ t \notin reader[q].subs => t \notin reader'[q].subs
                                    /\ \A z \in Nat : At(reader[q], t, z) => At(reader'[q], t, z)
  <2>1. CASE OpenMuxed(s)
    <3>1. CanAttach /\ attach(s)
      BY <2>1 DEF OpenMuxed
    <3>2. \A t \in Watched : t \in Streams \ {s}
      BY <1>0, WatchedStreams
    <3> QED BY <1>0, <3>1, <3>2, AttachReaders
  <2>2. CASE mux(s) \/ MuxEnd(s) \/ stop(s)
    <3>1. DOMAIN feed' = Streams /\ \A t \in Watched : feed'[t] = feed[t]
      BY <2>2, <1>0, <1>1, WatchedStreams DEF mux, MuxEnd, stop
    <3>2. \A t \in Watched : stream'[t] = stream[t]
      BY <2>2, <1>0, <1>1, WatchedStreams DEF mux, MuxEnd, stop, LiveInv, LiveShape
    <3>3. \A q \in Readers : Quiet(reader'[q], reader[q]) /\ ReaderWhole(reader'[q])
      <4>1. CASE reader' = reader
        BY <4>1, <1>1 DEF Quiet, ReadersWhole
      <4>2. CASE stop(s)
        <5> DEFINE r == stream[s].reader
                   new == leave(reader[r], {s})
        <5>1. r \in Readers /\ Sound(reader[r]) /\ ReaderWhole(reader[r]) /\ DOMAIN reader = Readers
          BY <4>2, <1>0, <1>1 DEF stop, LiveInv, Placed, LiveShape, ReadersWhole
        <5>2. reader' = [reader EXCEPT ![r] = new]
          BY <4>2 DEF stop
        <5> HIDE DEF r
        <5>3. Quiet(new, reader[r]) /\ Whole(new) /\ Shrunk(new, reader[r])
          BY <5>1, LeaveQuiet, LeaveShrinks DEF ReaderWhole
        <5> HIDE DEF new
        <5>4. ReaderWhole(new)
          BY <5>1, <5>3 DEF ReaderWhole, Shrunk
        <5> QED BY <5>1, <5>2, <5>3, <5>4, <1>1 DEF Quiet, ReadersWhole
      <4> QED BY <2>2, <4>1, <4>2 DEF mux, MuxEnd
    <3>4. ReadersWhole'
      BY <3>3 DEF ReadersWhole
    <3>5. \A t, q : q \in Readers =>
            /\ t \notin reader[q].subs => t \notin reader'[q].subs
            /\ \A z \in Nat : At(reader[q], t, z) => At(reader'[q], t, z)
      BY <3>3, QuietAt DEF Quiet
    <3> QED BY <3>1, <3>2, <3>4, <3>5
  <2> QED BY <2>1, <2>2 DEF MuxedStep
<1>3. ASSUME NEW t \in Watched
      PROVE  Apart(t)
  <2>1. Passed(session'[t], session[t])
    BY <1>0, PassedSame DEF PictureInv, SessionsSane
  <2> QED BY <2>1, <1>0, <1>2 DEF Apart
<1> DEFINE S == {}
<1>4. S \in SUBSET Watched /\ S = {}
  OBVIOUS
<1> HIDE DEF S
<1> QED BY <1>1, <1>2, <1>3, <1>4, SessionsMove

-----------------------------------------------------------------------------
(* The steps of requests and of the event loop.                            *)

\* A session that is no longer served.
LEMMA GoesPasses ==
  ASSUME NEW se, Sane(se), NEW new, DOMAIN new = SessionFields,
         new.thread = se.thread, new.connected = se.connected,
         new.awaiting_key = se.awaiting_key, new.broken = se.broken,
         \/ se.state \in {"none", "opening", "refused"} /\ new.state \in {"refused", "left"}
         \/ se.state \in {"refused", "over"} /\ new.state = se.state
  PROVE  Passed(new, se)
BY DEF Passed, Sane, Serviced

\* One session changes and a turn of the event loop ends.
LEMMA TurnPasses ==
  ASSUME PictureInv, NEW s \in Watched, NEW new, Passed(new, session[s]), NEW mid,
         DOMAIN mid = Watched, mid[s] = new, \A t \in Watched \ {s} : mid[t] = session[t],
         session' = mid \/ \E q : keep_up(mid, q)
  PROVE  /\ DOMAIN session' = Watched
         /\ \A t \in Watched : Passed(session'[t], session[t]) /\ session'[t].state = mid[t].state
<1>1. \A t \in Watched : Passed(mid[t], session[t])
  BY PassedSame DEF PictureInv, SessionsSane
<1>2. \A t \in Watched : Sane(mid[t])
  BY <1>1 DEF Passed
<1>3. CASE session' = mid
  BY <1>1, <1>3
<1>4. ASSUME NEW q, keep_up(mid, q)
      PROVE  /\ DOMAIN session' = Watched
             /\ \A t \in Watched : Passed(session'[t], session[t])
                                   /\ session'[t].state = mid[t].state
  <2>1. /\ DOMAIN session' = Watched
        /\ \A t \in Watched : Passed(session'[t], mid[t]) /\ session'[t].state = mid[t].state
    BY <1>2, <1>4, KeepUpPasses
  <2> QED BY <2>1, <1>1, PassedTrans
<1> QED BY <1>3, <1>4

\* Streams that stop keep what they have yet to return.
LEMMA StopCalm ==
  ASSUME PictureInv, NEW S, StopStreams(S)
  PROVE  Calm /\ \A s \in Watched : stream'[s].queued = stream[s].queued
<1>1. Calm
  BY CalmStop DEF StopStreams
<1>2. ASSUME NEW s \in Watched
      PROVE  stream'[s].queued = stream[s].queued
  <2>1. s \in Streams /\ DOMAIN stream[s] = StreamFields
    BY WatchedStreams DEF PictureInv, LiveInv, LiveShape
  <2>2. stream'[s] = stream[s] \/ stream'[s] = [stream[s] EXCEPT !.stopped = TRUE]
    BY <2>1 DEF StopStreams
  <2> QED BY <2>1, <2>2, FieldsOf
<1> QED BY <1>1, <1>2

\* One session changes, a turn may end, and its stream may stop.
LEMMA TurnPicture ==
  ASSUME PictureInv, LiveInv', NEW s \in Watched, NEW new, Passed(new, session[s]),
         \/ session' = [session EXCEPT ![s] = new]
         \/ \E q : keep_up([session EXCEPT ![s] = new], q),
         \/ reader' = reader /\ stream' = stream
         \/ StopStreams({s}),
         source' = source, feed' = feed, reads' = reads, serving' = serving,
         new.state = "live" => serving
  PROVE  PictureInv'
<1> DEFINE mid == [session EXCEPT ![s] = new]
<1>1. /\ DOMAIN mid = Watched /\ mid[s] = new /\ \A t \in Watched \ {s} : mid[t] = session[t]
  BY DEF PictureInv, SessionsSane
<1>2. session' = mid \/ \E q : keep_up(mid, q)
  OBVIOUS
<1> HIDE DEF mid
<1>3. /\ DOMAIN session' = Watched
      /\ \A t \in Watched : Passed(session'[t], session[t]) /\ session'[t].state = mid[t].state
  BY <1>1, <1>2, TurnPasses
<1>4. Calm /\ \A t \in Watched : stream'[t].queued = stream[t].queued
  BY CalmSame, StopCalm
<1>5. serving' \/ \A t \in Watched : session'[t].state # "live"
  BY <1>1, <1>3 DEF PictureInv, ServedLive
<1> QED BY <1>3, <1>4, <1>5, PassedStep

LEMMA EndedOne ==
  ASSUME NEW s \in Watched, DOMAIN session = Watched
  PROVE  Ended(session, {s}) = [session EXCEPT ![s] = Over(session[s])]
BY DEF Ended

LEMMA RequestStepPicture ==
  ASSUME PictureInv, LiveInv', NEW s \in Watched, RequestStep(s)
  PROVE  PictureInv'
<1> DEFINE se == session[s]
<1>0. Sane(se) /\ DOMAIN se = SessionFields
  BY DEF PictureInv, SessionsSane, Sane
<1>1. CASE OpenSession(s)
  BY <1>1, OpenSessionPicture
<1>2. CASE Refuse(s)
  <2> DEFINE new == [se EXCEPT !.state = "refused", !.handle = "held"]
  <2>1. /\ session' = [session EXCEPT ![s] = new] /\ se.state = "none"
        /\ source' = source /\ feed' = feed /\ reads' = reads /\ serving' = serving
        /\ reader' = reader /\ stream' = stream
    BY <1>2 DEF Refuse, remuxVars
  <2>2. /\ Passed(new, se) /\ new.state = "refused"
    BY <1>0, <2>1, GoesPasses, SessionFieldsOf
  <2> HIDE DEF new
  <2> QED BY <2>1, <2>2, TurnPicture
<1>3. CASE OpenTimeout(s)
  <2> DEFINE new == [se EXCEPT !.state = "refused", !.slot = FALSE]
  <2>1. /\ session' = [session EXCEPT ![s] = new] /\ se.state = "opening"
        /\ source' = source /\ feed' = feed /\ reads' = reads /\ serving' = serving
        /\ StopStreams({s})
    BY <1>3 DEF OpenTimeout
  <2>2. /\ Passed(new, se) /\ new.state = "refused"
    BY <1>0, <2>1, GoesPasses, SessionFieldsOf
  <2> HIDE DEF new
  <2> QED BY <2>1, <2>2, TurnPicture
<1>4. CASE ClientLeaves(s)
  <2> DEFINE new == [se EXCEPT !.state = "left", !.slot = FALSE]
  <2>1. /\ session' = [session EXCEPT ![s] = new] /\ se.state \in {"opening", "refused"}
        /\ source' = source /\ feed' = feed /\ reads' = reads /\ serving' = serving
        /\ reader' = reader /\ stream' = stream
    BY <1>4 DEF ClientLeaves, remuxVars
  <2>2. /\ Passed(new, se) /\ new.state = "left"
    BY <1>0, <2>1, GoesPasses, SessionFieldsOf
  <2> HIDE DEF new
  <2> QED BY <2>1, <2>2, TurnPicture
<1>5. CASE stream_close(s)
  <2> DEFINE new == [se EXCEPT !.handle = "closed"]
  <2>1. /\ session' = [session EXCEPT ![s] = new] /\ se.state \in {"refused", "over"}
        /\ source' = source /\ feed' = feed /\ reads' = reads /\ serving' = serving
        /\ reader' = reader /\ stream' = stream
    BY <1>5 DEF stream_close, remuxVars
  <2>2. /\ Passed(new, se) /\ new.state = se.state
    BY <1>0, <2>1, GoesPasses, SessionFieldsOf
  <2> HIDE DEF new
  <2> QED BY <2>1, <2>2, TurnPicture
<1> QED BY <1>1, <1>2, <1>3, <1>4, <1>5 DEF RequestStep

\* A session of the event loop opens, ends or connects.
LEMMA LoopPicture ==
  ASSUME PictureInv, LiveInv', NEW s \in Watched,
         CommandOpen(s) \/ EndSession(s) \/ Connected(s) \/ OpenUnserved(s)
  PROVE  PictureInv'
<1> DEFINE se == session[s]
<1>0. Sane(se) /\ DOMAIN se = SessionFields /\ DOMAIN session = Watched
  BY DEF PictureInv, SessionsSane, Sane
<1>00. source' = source /\ feed' = feed /\ reads' = reads /\ serving' = serving
  BY DEF CommandOpen, EndSession, Connected, OpenUnserved, remuxVars
<1>1. ASSUME se.state \in {"opened", "live"}, StopStreams({s}),
             session' = Ended(session, {s}) \/ \E q : keep_up(Ended(session, {s}), q)
      PROVE  PictureInv'
  <2>1. Passed(Over(se), se) /\ Over(se).state = "over"
    BY <1>0, <1>1, OverPasses DEF Sane
  <2>2. Ended(session, {s}) = [session EXCEPT ![s] = Over(se)]
    BY <1>0, EndedOne
  <2> QED BY <2>1, <2>2, <1>00, <1>1, TurnPicture
<1>2. CASE CommandOpen(s)
  <2>1. serving /\ se.state = "opened"
    BY <1>2 DEF CommandOpen
  <2>2. CASE /\ keep_up([session EXCEPT ![s].state = "live", ![s].thread = "reads"], queue)
             /\ UNCHANGED <<reader, stream>>
    <3> DEFINE new == [se EXCEPT !.state = "live", !.thread = "reads"]
    <3>1. keep_up([session EXCEPT ![s] = new], queue)
      <4>1. [session EXCEPT ![s].state = "live", ![s].thread = "reads"]
              = [session EXCEPT ![s] = new]
        BY <1>0
      <4> QED BY <2>2, <4>1
    <3>2. /\ DOMAIN new = SessionFields /\ new.state = "live" /\ new.thread = "reads"
          /\ new.connected = se.connected /\ new.awaiting_key = se.awaiting_key
          /\ new.broken = se.broken /\ new.handed = se.handed /\ new.picture = se.picture
      BY <1>0, SessionFieldsOf
    <3> HIDE DEF new
    <3>3. Sane(new)
      BY <3>2, <1>0 DEF Sane
    <3>4. \A a \in Nat : SessionAt(se, a) => SessionAt(new, a)
      BY <3>2 DEF SessionAt
    <3>5. Passed(new, se)
      BY <2>1, <3>2, <3>3, <3>4 DEF Passed, Serviced
    <3> QED BY <2>1, <2>2, <3>1, <3>5, <1>00, TurnPicture
  <2>3. CASE keep_up(Ended(session, {s}), queue) /\ StopStreams({s})
    BY <2>1, <2>3, <1>1
  <2> QED BY <1>2, <2>2, <2>3 DEF CommandOpen
<1>3. CASE EndSession(s)
  BY <1>1, <1>3 DEF EndSession, Live
<1>4. CASE OpenUnserved(s)
  BY <1>1, <1>4 DEF OpenUnserved
<1>5. CASE Connected(s)
  <2>0. PICK failing :
          \E q : keep_up([session EXCEPT ![s] =
                           [Written(se, se.picture, failing) EXCEPT !.connected = TRUE,
                                                                    !.picture = <<>>]], q)
    BY <1>5 DEF Connected
  <2> DEFINE new == [Written(se, se.picture, failing) EXCEPT !.connected = TRUE, !.picture = <<>>]
  <2>1. /\ serving /\ se.state = "live" /\ ~se.connected
        /\ \E q : keep_up([session EXCEPT ![s] = new], q)
        /\ reader' = reader /\ stream' = stream
    BY <1>5, <2>0 DEF Connected, Live, remuxVars
  <2>2. ASSUME NEW a \in Nat, SessionAt(se, a)
        PROVE  SessionAt(new, a) /\ Sane(new) /\ new.state = "live"
    BY <1>0, <2>1, <2>2, ConnectedAt
  <2>3. \E a \in Nat : SessionAt(se, a)
    BY <2>1 DEF PictureInv, Chained, Chain, Serviced
  <2> HIDE DEF new
  <2>4. Passed(new, se)
    BY <2>1, <2>2, <2>3 DEF Passed, Serviced
  <2>5. new.state = "live"
    BY <2>2, <2>3
  <2> QED BY <2>1, <2>4, <2>5, <1>00, TurnPicture
<1> QED BY <1>2, <1>3, <1>4, <1>5

LEMMA FlushPicture ==
  ASSUME PictureInv, LiveInv', Flush
  PROVE  PictureInv'
<1>1. PICK q : keep_up(session, q)
  BY DEF Flush
<1>2. source' = source /\ feed' = feed /\ reads' = reads /\ serving' = serving
      /\ reader' = reader /\ stream' = stream
  BY DEF Flush, remuxVars
<1>3. /\ DOMAIN session' = Watched
      /\ \A t \in Watched : Passed(session'[t], session[t])
                            /\ session'[t].state = session[t].state
  BY <1>1, KeepUpPasses DEF PictureInv, SessionsSane
<1>4. serving' \/ \A t \in Watched : session'[t].state # "live"
  BY <1>2, <1>3 DEF PictureInv, ServedLive
<1> QED BY <1>2, <1>3, <1>4, CalmSame, PassedStep

\* An item of another session is taken from those that wait, or added to them.
LEMMA TailReads ==
  ASSUME IsSeq(reads), reads # <<>>, NEW t, reads[1].s # t
  PROVE  /\ Plain(ReadsOf(reads, t)) => Plain(ReadsOf(Tail(reads), t))
         /\ \A a, b \in Nat : Linked(ReadsOf(reads, t), a, b) => Linked(ReadsOf(Tail(reads), t), a, b)
<1> DEFINE p == ReadsOf(reads, t)
<1>1. IsSeq(p) /\ p # <<>> /\ ReadsOf(Tail(reads), t) = Tail(p)
  BY ReadsOfSeq, ReadsOfTail
<1>2. p[1] = Lost
  <2>1. 1 \in 1 .. Len(reads)
    BY LenSeq
  <2> QED BY <2>1, ReadsOfSeq
<1> HIDE DEF p
<1>3. Plain(p) => Plain(Tail(p))
  BY <1>1, TailPlain
<1>4. ASSUME NEW a \in Nat, NEW b \in Nat, Linked(p, a, b)
      PROVE  Linked(Tail(p), a, b)
  <2>1. PICK c \in Nat : Passes(a, p[1], c) /\ Linked(Tail(p), c, b)
    BY <1>1, <1>4, LinkedTail
  <2>2. c = a
    BY <2>1, <1>2, SilentPasses, SilentOnes
  <2> QED BY <2>1, <2>2
<1> QED BY <1>1, <1>3, <1>4 DEF p

LEMMA PlainAppend ==
  ASSUME NEW q, IsSeq(q), Plain(q), NEW m, m.type # "snapshot"
  PROVE  Plain(Append(q, m))
<1> DEFINE u == Append(q, m)
           n == Len(q)
<1>1. n \in Nat /\ Len(u) = n + 1 /\ (\A i \in 1 .. n : u[i] = q[i]) /\ u[n + 1] = m
  BY AppendSeq, LenSeq
<1>2. \A i \in 1 .. n : q[i].type # "snapshot"
  BY DEF Plain
<1> HIDE DEF u, n
<1>3. \A i \in 1 .. n + 1 : u[i].type # "snapshot"
  <2> TAKE i \in 1 .. n + 1
  <2>1. i \in 1 .. n \/ i = n + 1
    BY <1>1
  <2> QED BY <2>1, <1>1, <1>2
<1>4. Plain(u)
  BY <1>1, <1>3 DEF Plain
<1> QED BY <1>4 DEF u

LEMMA AppendReads ==
  ASSUME IsSeq(reads), NEW e, NEW t, e.s # t
  PROVE  /\ Plain(ReadsOf(reads, t)) => Plain(ReadsOf(Append(reads, e), t))
         /\ \A a, b \in Nat :
              Linked(ReadsOf(reads, t), a, b) => Linked(ReadsOf(Append(reads, e), t), a, b)
<1> DEFINE p == ReadsOf(reads, t)
<1>1. IsSeq(p) /\ ReadsOf(Append(reads, e), t) = Append(p, Lost)
  BY ReadsOfSeq, ReadsOfAppend
<1> HIDE DEF p
<1>2. Silent(Lost)
  BY SilentOnes
<1>3. Plain(p) => Plain(Append(p, Lost))
  BY <1>1, <1>2, PlainAppend DEF Silent
<1>4. ASSUME NEW a \in Nat, NEW b \in Nat, Linked(p, a, b)
      PROVE  Linked(Append(p, Lost), a, b)
  BY <1>2, <1>4, SilentPasses, LinkedAppend
<1> QED BY <1>1, <1>3, <1>4 DEF p

LEMMA TailOwned ==
  ASSUME ReadsOwned, reads # <<>>, reads' = Tail(reads),
         \A t \in Watched : session[t].state \in {"live", "over"}
                            => session'[t].state \in {"live", "over"}
  PROVE  ReadsOwned'
<1>1. /\ IsSeq(reads') /\ Len(reads') = Len(reads) - 1 /\ Len(reads) \in Nat \ {0}
      /\ \A i \in 1 .. Len(reads) - 1 : reads'[i] = reads[i + 1]
  BY TailSeq DEF ReadsOwned
<1>2. ASSUME NEW i \in 1 .. Len(reads')
      PROVE  reads'[i].s \in Watched /\ session'[reads'[i].s].state \in {"live", "over"}
  <2>1. i + 1 \in 1 .. Len(reads) /\ reads'[i] = reads[i + 1]
    BY <1>1
  <2> QED BY <2>1 DEF ReadsOwned
<1> QED BY <1>1, <1>2 DEF ReadsOwned

LEMMA AppendOwned ==
  ASSUME ReadsOwned, NEW e, e.s \in Watched, reads' = Append(reads, e),
         session[e.s].state \in {"live", "over"},
         \A t \in Watched : session'[t].state = session[t].state
  PROVE  ReadsOwned'
<1> DEFINE n == Len(reads)
<1>1. /\ IsSeq(reads') /\ Len(reads') = n + 1 /\ n \in Nat
      /\ (\A i \in 1 .. n : reads'[i] = reads[i]) /\ reads'[n + 1] = e
  BY AppendSeq, LenSeq DEF ReadsOwned
<1>2. \A i \in 1 .. n : reads[i].s \in Watched /\ session[reads[i].s].state \in {"live", "over"}
  BY DEF ReadsOwned
<1> HIDE DEF n
<1>3. ASSUME NEW i \in 1 .. n + 1
      PROVE  reads'[i].s \in Watched /\ session'[reads'[i].s].state \in {"live", "over"}
  <2>1. i \in 1 .. n \/ i = n + 1
    BY <1>1
  <2> QED BY <2>1, <1>1, <1>2
<1> QED BY <1>1, <1>3 DEF ReadsOwned

\* What streams that only leave their readers mean to a stream.
LEMMA CalmApart ==
  ASSUME Calm, NEW t
  PROVE  \A q \in Readers : /\ t \notin reader[q].subs => t \notin reader'[q].subs
                            /\ \A z \in Nat : At(reader[q], t, z) => At(reader'[q], t, z)
BY QuietAt DEF Calm, Quiet

LEMMA CalmWhole ==
  ASSUME Calm
  PROVE  ReadersWhole'
BY DEF Calm, ReadersWhole

LEMMA FailPicture ==
  ASSUME PictureInv, LiveInv', Fail
  PROVE  PictureInv'
<1> DEFINE closed == {s \in Watched : session[s].state \in {"live", "opened"}}
           S == {s \in Watched : session[s].state = "opening"}
<1>1. /\ session' = Ended(session, closed) /\ StopStreams(closed) /\ reads' = <<>>
      /\ source' = source /\ feed' = feed
  BY DEF Fail
<1>2. Calm /\ \A s \in Watched : stream'[s].queued = stream[s].queued
  BY <1>1, StopCalm
<1>3. /\ DOMAIN session' = Watched
      /\ \A t \in Watched : session'[t] = IF t \in closed THEN Over(session[t]) ELSE session[t]
  BY <1>1 DEF Ended
<1>4. \A t \in Watched : Sane(session[t])
  BY DEF PictureInv, SessionsSane
<1>5. ASSUME NEW t \in Watched
      PROVE  Passed(session'[t], session[t]) /\ session'[t].state # "live"
             /\ (session'[t].state \in Serviced => t \in S /\ session'[t] = session[t])
  <2>1. CASE t \in closed
    <3>1. Passed(Over(session[t]), session[t]) /\ Over(session[t]).state = "over"
      BY <2>1, <1>4, OverPasses DEF Sane
    <3> QED BY <2>1, <3>1, <1>3 DEF Serviced
  <2>2. CASE t \notin closed
    BY <2>2, <1>3, <1>4, PassedSame DEF Serviced
  <2> QED BY <2>1, <2>2
<1> HIDE DEF closed
<1>6. IsSeq(reads') /\ Len(reads') = 0
  BY <1>1, NoneSeq
<1>7. ReadsOwned' /\ ServedLive' /\ Counted' /\ DOMAIN feed' = Streams /\ ReadersWhole'
  BY <1>1, <1>2, <1>5, <1>6, CalmWhole DEF PictureInv, ReadsOwned, ServedLive, Counted
<1>8. S \in SUBSET Watched
  OBVIOUS
<1>9. ASSUME NEW t \in Watched \ S
      PROVE  Apart(t)
  <2>1. t \in Watched /\ t \notin S
    OBVIOUS
  <2> HIDE DEF S
  <2> QED BY <2>1, <1>1, <1>2, <1>5, CalmApart DEF Apart
<1>10. ASSUME NEW s \in S
       PROVE  /\ Sane(session'[s]) /\ session'[s].state # "none"
              /\ Chain(s, session'[s], reads', stream'[s].queued, feed'[s], reader')
  <2>1. s \in Watched /\ session[s].state = "opening"
    OBVIOUS
  <2>2. session'[s] = session[s]
    BY <2>1, <1>3 DEF closed
  <2>3. Chain(s, session[s], reads, stream[s].queued, feed[s], reader)
    BY <2>1 DEF PictureInv, Chained, Serviced
  <2>4. PICK a \in Nat, c \in Nat, z \in Nat :
          /\ SessionAt(session[s], a) /\ Linked(stream[s].queued, a, c)
          /\ Linked(feed[s], c, z) /\ \A r \in Readers : At(reader[r], s, z)
    BY <2>1, <2>3 DEF Chain
  <2>5. Linked(ReadsOf(reads', s), a, a) /\ Plain(ReadsOf(reads', s))
    BY <1>6, LinkedIdle
  <2>6. \A r \in Readers : At(reader'[r], s, z)
    BY <2>4, <1>2, CalmApart
  <2>7. Plain(stream[s].queued)
    BY <2>3 DEF Chain
  <2>8. Chain(s, session[s], reads', stream[s].queued, feed[s], reader')
    BY <2>4, <2>5, <2>6, <2>7 DEF Chain
  <2> QED BY <2>1, <2>2, <2>8, <1>1, <1>2, <1>4
<1> HIDE DEF S
<1> QED BY <1>3, <1>7, <1>8, <1>9, <1>10, SessionsMove

\* The event loop takes an item from those that wait.
LEMMA ReadStepPicture ==
  ASSUME PictureInv, LiveInv', NEW s \in Watched, Read(s)
  PROVE  PictureInv'
<1> DEFINE se == session[s]
           item == reads[1].item
<1>0. /\ reads # <<>> /\ reads[1].s = s /\ reads' = Tail(reads) /\ serving
      /\ source' = source /\ feed' = feed /\ serving' = serving
  BY DEF Read
<1>1. /\ IsSeq(reads) /\ ReadsOwned /\ DOMAIN session = Watched
      /\ \A t \in Watched : Sane(session[t])
  BY DEF PictureInv, ReadsOwned, SessionsSane
<1>2. 1 \in 1 .. Len(reads)
  BY <1>0, <1>1, LenSeq
<1>3. se.state \in {"live", "over"}
  BY <1>0, <1>1, <1>2 DEF ReadsOwned
<1>4. ServedLive' /\ Counted' /\ DOMAIN feed' = Streams
  BY <1>0 DEF PictureInv, ServedLive, Counted
<1>5. \A t \in Watched \ {s} :
        /\ Plain(ReadsOf(reads, t)) => Plain(ReadsOf(reads', t))
        /\ \A a, b \in Nat : Linked(ReadsOf(reads, t), a, b) => Linked(ReadsOf(reads', t), a, b)
  BY <1>0, <1>1, TailReads
<1>6. ASSUME NEW mid, DOMAIN mid = Watched, \A t \in Watched \ {s} : mid[t] = session[t],
             Sane(mid[s]), mid[s].state \in {"live", "over"}, NEW q, keep_up(mid, q),
             mid[s].state = "live" => Chain(s, mid[s], reads', stream[s].queued, feed[s], reader),
             \/ reader' = reader /\ stream' = stream
             \/ StopStreams({s})
      PROVE  PictureInv'
  <2>1. \A t \in Watched : Sane(mid[t])
    BY <1>1, <1>6
  <2>2. /\ DOMAIN session' = Watched
        /\ \A t \in Watched : Passed(session'[t], mid[t]) /\ session'[t].state = mid[t].state
    BY <2>1, <1>6, KeepUpPasses
  <2>3. Calm /\ \A t \in Watched : stream'[t].queued = stream[t].queued
    BY <1>6, CalmSame, StopCalm
  <2>4. ReadsOwned'
    BY <2>2, <1>0, <1>1, <1>6, TailOwned
  <2>5. ReadersWhole'
    BY <2>3, CalmWhole
  <2>6. \A t \in Watched \ {s} : Apart(t)
    BY <2>2, <2>3, <1>0, <1>5, <1>6, CalmApart DEF Apart
  <2>7. /\ Sane(session'[s]) /\ session'[s].state # "none"
        /\ session'[s].state \in Serviced =>
             Chain(s, session'[s], reads', stream'[s].queued, feed'[s], reader')
    <3>1. Sane(session'[s]) /\ session'[s].state = mid[s].state
      BY <2>2 DEF Passed
    <3>2. ASSUME session'[s].state \in Serviced
          PROVE  Chain(s, session'[s], reads', stream'[s].queued, feed'[s], reader')
      <4>1. mid[s].state = "live"
        BY <3>1, <3>2, <1>6 DEF Serviced
      <4>2. Chain(s, mid[s], reads', stream[s].queued, feed[s], reader)
        BY <4>1, <1>6
      <4>3. Chain(s, session'[s], reads', stream[s].queued, feed[s], reader)
        BY <4>1, <4>2, <3>1, <3>2, <2>2, ChainSession DEF Passed
      <4>4. Chain(s, session'[s], reads', stream[s].queued, feed[s], reader')
        BY <4>3, <2>3, CalmApart, ChainReaders
      <4> QED BY <4>4, <2>3, <1>0
    <3> QED BY <3>1, <3>2, <1>6
  <2> DEFINE S == {s}
  <2>8. S \in SUBSET Watched /\ \A t \in Watched \ S : Apart(t)
    BY <2>6
  <2>9. \A t \in S : /\ Sane(session'[t]) /\ session'[t].state # "none"
                     /\ session'[t].state \in Serviced =>
                          Chain(t, session'[t], reads', stream'[t].queued, feed'[t], reader')
    BY <2>7
  <2> HIDE DEF S
  <2> QED BY <2>2, <2>4, <2>5, <2>8, <2>9, <1>4, SessionsMove
<1>7. CASE ~Live(s)
  <2>1. keep_up(session, queue) /\ reader' = reader /\ stream' = stream /\ se.state # "live"
    BY <1>7 DEF Read, Live
  <2> QED BY <2>1, <1>1, <1>3, <1>6
<1>8. CASE Live(s) /\ Refuses(s, item)
  <2>1. keep_up(Ended(session, {s}), queue) /\ StopStreams({s}) /\ se.state = "live"
    BY <1>8 DEF Read, Live
  <2>2. Passed(Over(se), se) /\ Over(se).state = "over"
    BY <2>1, <1>1, OverPasses DEF Sane
  <2> DEFINE mid == Ended(session, {s})
  <2>3. DOMAIN mid = Watched /\ mid[s] = Over(se) /\ \A t \in Watched \ {s} : mid[t] = session[t]
    BY <1>1 DEF Ended
  <2>4. keep_up(mid, queue)
    BY <2>1
  <2> HIDE DEF mid
  <2>5. Sane(mid[s]) /\ mid[s].state = "over"
    BY <2>2, <2>3 DEF Passed
  <2> QED BY <2>1, <2>3, <2>4, <2>5, <1>6
<1>9. CASE Live(s) /\ ~Refuses(s, item)
  <2>0. PICK ok \in BOOLEAN : \E q : keep_up([session EXCEPT ![s] = FeedItem(se, s, item, ok)], q)
    BY <1>9 DEF Read
  <2> DEFINE new == FeedItem(se, s, item, ok)
             mid == [session EXCEPT ![s] = new]
             p == ReadsOf(reads, s)
  <2>1. /\ se.state = "live" /\ (\E q : keep_up(mid, q)) /\ reader' = reader /\ stream' = stream
    BY <1>9, <2>0 DEF Read, Live
  <2>2. Chain(s, se, reads, stream[s].queued, feed[s], reader)
    BY <2>1 DEF PictureInv, Chained, Serviced
  <2>3. PICK a \in Nat, b \in Nat, c \in Nat, z \in Nat :
          /\ SessionAt(se, a) /\ Linked(p, a, b) /\ Linked(stream[s].queued, b, c)
          /\ Linked(feed[s], c, z) /\ \A r \in Readers : At(reader[r], s, z)
    BY <2>2 DEF Chain
  <2>4. Plain(p) /\ Plain(stream[s].queued)
    BY <2>2 DEF Chain
  <2>5. p # <<>> /\ IsSeq(p) /\ p[1] = item /\ ReadsOf(reads', s) = Tail(p)
    BY <1>0, <1>1, <1>2, ReadsOfSeq, ReadsOfTail
  <2> HIDE DEF p, item
  <2>6. PICK d \in Nat : Passes(a, item, d) /\ Linked(Tail(p), d, b)
    BY <2>3, <2>5, LinkedTail
  <2>7. item.type # "snapshot" /\ Plain(Tail(p))
    BY <2>4, <2>5, TailPlain
  <2>8. SessionAt(new, d) /\ Advances(new, se)
    BY <2>3, <2>6, <2>7, <1>1, FeedAt
  <2> HIDE DEF new
  <2>9. Sane(new) /\ new.state = "live"
    BY <2>1, <2>8, <1>1, AdvancesSane DEF Advances
  <2>10. Chain(s, new, reads', stream[s].queued, feed[s], reader)
    BY <2>3, <2>4, <2>5, <2>6, <2>7, <2>8, <2>9 DEF Chain
  <2>11. DOMAIN mid = Watched /\ mid[s] = new /\ \A t \in Watched \ {s} : mid[t] = session[t]
    BY <1>1
  <2>12. PICK q : keep_up(mid, q)
    BY <2>1
  <2> HIDE DEF mid
  <2> QED BY <2>1, <2>9, <2>10, <2>11, <2>12, <1>6
<1> QED BY <1>7, <1>8, <1>9

LEMMA CollectAdvances ==
  ASSUME NEW se, Sane(se), NEW s, NEW item
  PROVE  Advances(Collect(se, s, item), se)
<1> DEFINE new == Collect(se, s, item)
<1>1. \/ new = se
      \/ \E k, p : new = [se EXCEPT !.kind = k, !.picture = p]
      \/ \E p : new = [se EXCEPT !.picture = p]
  <2>1. CASE item.type = "track"
    BY <2>1 DEF Collect
  <2>2. CASE item.type = "packet" /\ Holds(s, item.packet)
    BY <2>2 DEF Collect
  <2>3. CASE item.type # "track" /\ ~(item.type = "packet" /\ Holds(s, item.packet))
    BY <2>3 DEF Collect
  <2> QED BY <2>1, <2>2, <2>3
<1> HIDE DEF new
<1>2. Advances(new, se)
  BY <1>1, SessionFieldsOf DEF Sane, Advances
<1> QED BY <1>2 DEF new

\* A thread reads the first picture of a session.
LEMMA FirstPicture ==
  ASSUME PictureInv, LiveInv', NEW s \in Watched, first_picture(s)
  PROVE  PictureInv'
<1> DEFINE se == Collect(session[s], s, NextItem(s))
           st == AfterNext(s)
           opened == [se EXCEPT !.thread = "none", !.state = "opened"]
           waits == se.state = "opening"
           gone == [se EXCEPT !.thread = "none", !.picture = <<>>,
                              !.slot = IF waits THEN FALSE ELSE @,
                              !.state = IF waits THEN "refused" ELSE @]
<1>0. /\ s \in Streams /\ session[s].thread = "first" /\ feed' = FeedAfterNext(s)
      /\ source' = source /\ reads' = reads /\ serving' = serving
  BY WatchedStreams DEF first_picture
<1>1. \/ /\ stream' = [stream EXCEPT ![s] = st] /\ session' = [session EXCEPT ![s] = se]
         /\ reader' = reader
      \/ /\ se.state = "opening" /\ stream' = [stream EXCEPT ![s] = st]
         /\ session' = [session EXCEPT ![s] = opened] /\ reader' = reader
      \/ /\ reader' = Stopped({s}) /\ stream' = [stream EXCEPT ![s] = [st EXCEPT !.stopped = TRUE]]
         /\ session' = [session EXCEPT ![s] = gone]
  BY DEF first_picture
<1>2. /\ Sane(session[s]) /\ DOMAIN session = Watched /\ DOMAIN feed = Streams /\ ReadsOwned
      /\ DOMAIN stream = Streams /\ DOMAIN stream[s] = StreamFields /\ IsSeq(reads)
  BY <1>0 DEF PictureInv, SessionsSane, LiveInv, LiveShape, ReadsOwned
<1>3. Advances(se, session[s]) /\ Sane(se)
  BY <1>2, CollectAdvances, AdvancesSane
<1>4. se.thread = "first" /\ se.state = session[s].state /\ se.state \in {"opening", "refused", "left"}
  BY <1>0, <1>2, <1>3 DEF Advances, Sane
<1>5. DOMAIN st = StreamFields
  BY <1>2, NextKeeps DEF Kept
<1> HIDE DEF se, st
<1>6. /\ DOMAIN opened = SessionFields /\ opened.state = "opened" /\ opened.thread = "none"
      /\ opened.connected = se.connected /\ opened.awaiting_key = se.awaiting_key
      /\ opened.broken = se.broken /\ opened.handed = se.handed /\ opened.picture = se.picture
  BY <1>3, SessionFieldsOf DEF Sane
<1>7. /\ DOMAIN gone = SessionFields /\ gone.state \in {"refused", "left"} /\ gone.thread = "none"
      /\ gone.connected = se.connected /\ gone.awaiting_key = se.awaiting_key
      /\ gone.broken = se.broken
  BY <1>3, <1>4, SessionFieldsOf DEF Sane
<1>8. se.state = "opening" => Sane(opened)
  BY <1>3, <1>6 DEF Sane
<1>9. Sane(gone)
  BY <1>3, <1>7 DEF Sane
<1> HIDE DEF opened, gone
<1>10. Calm /\ stream'[s].queued = st.queued /\ \A t \in Streams \ {s} : stream'[t] = stream[t]
  <2>1. [st EXCEPT !.stopped = TRUE].queued = st.queued
    BY <1>5, FieldsOf
  <2>2. stream'[s].queued = st.queued /\ \A t \in Streams \ {s} : stream'[t] = stream[t]
    BY <2>1, <1>0, <1>1, <1>2
  <2>3. Calm
    BY <1>1, CalmSame, CalmStop
  <2> QED BY <2>2, <2>3
<1>11. /\ DOMAIN session' = Watched /\ \A t \in Watched \ {s} : session'[t] = session[t]
       /\ \/ session'[s] = se
          \/ session'[s] = opened /\ se.state = "opening"
          \/ session'[s] = gone
  BY <1>1, <1>2
<1>12. Sane(session'[s]) /\ session'[s].state \in {"opening", "opened", "refused", "left"}
  BY <1>3, <1>4, <1>6, <1>7, <1>8, <1>9, <1>11
<1>13. \A i \in 1 .. Len(reads) : reads[i].s # s
  BY <1>2, <1>4 DEF ReadsOwned
<1>14. ReadsOwned'
  BY <1>0, <1>2, <1>11, <1>13 DEF ReadsOwned
<1>15. ServedLive' /\ Counted' /\ ReadersWhole'
  BY <1>0, <1>10, <1>11, <1>12, CalmWhole DEF PictureInv, ServedLive, Counted
<1>16. DOMAIN feed' = Streams /\ \A t \in Streams \ {s} : feed'[t] = feed[t]
  BY <1>0, <1>2, FeedAfterNextOthers
<1>17. ASSUME NEW t \in Watched \ {s}
       PROVE  Apart(t)
  <2>1. t \in Streams \ {s}
    BY WatchedStreams
  <2>2. Passed(session'[t], session[t])
    BY <1>11, PassedSame DEF PictureInv, SessionsSane
  <2> QED BY <2>1, <2>2, <1>0, <1>10, <1>16, CalmApart DEF Apart
<1>18. ASSUME session'[s].state \in Serviced
       PROVE  Chain(s, session'[s], reads', stream'[s].queued, feed'[s], reader')
  <2>1. se.state = "opening" /\ (session'[s] = se \/ session'[s] = opened)
    BY <1>4, <1>7, <1>11, <1>18 DEF Serviced
  <2>2. Chain(s, session[s], reads, stream[s].queued, feed[s], reader)
    BY <2>1, <1>4 DEF PictureInv, Chained, Serviced
  <2>3. PICK b \in Nat, c \in Nat, z \in Nat :
          /\ SessionAt(session[s], b) /\ Linked(stream[s].queued, b, c)
          /\ Linked(feed[s], c, z) /\ \A r \in Readers : At(reader[r], s, z)
    BY <2>1, <2>2, <1>4 DEF Chain
  <2>4. Plain(stream[s].queued)
    BY <2>2 DEF Chain
  <2>5. /\ NextItem(s).type # "snapshot" /\ Plain(st.queued)
        /\ \E d, e \in Nat : /\ Passes(b, NextItem(s), d) /\ Linked(st.queued, d, e)
                             /\ Linked(FeedAfterNext(s)[s], e, z)
    BY <2>3, <2>4, <1>0, <1>2, NextLinked DEF st
  <2>6. PICK d \in Nat, e \in Nat : /\ Passes(b, NextItem(s), d) /\ Linked(st.queued, d, e)
                                    /\ Linked(FeedAfterNext(s)[s], e, z)
    BY <2>5
  <2>7. ~session[s].connected
    BY <2>1, <1>2, <1>4 DEF Sane
  <2>8. SessionAt(se, d)
    BY <2>3, <2>5, <2>6, <2>7, <1>2, CollectAt DEF se
  <2>9. SessionAt(session'[s], d)
    BY <2>1, <2>8, <1>6 DEF SessionAt
  <2>10. Linked(ReadsOf(reads, s), d, d) /\ Plain(ReadsOf(reads, s))
    BY <1>2, <1>13, LinkedIdle
  <2>11. \A r \in Readers : At(reader'[r], s, z)
    BY <2>3, <1>10, CalmApart
  <2>12. Chain(s, session'[s], reads, st.queued, FeedAfterNext(s)[s], reader')
    BY <2>3, <2>5, <2>6, <2>9, <2>10, <2>11 DEF Chain
  <2> QED BY <2>12, <1>0, <1>10
<1> DEFINE S == {s}
<1>19. S \in SUBSET Watched /\ \A t \in Watched \ S : Apart(t)
  BY <1>17
<1>20. \A t \in S : /\ Sane(session'[t]) /\ session'[t].state # "none"
                    /\ session'[t].state \in Serviced =>
                         Chain(t, session'[t], reads', stream'[t].queued, feed'[t], reader')
  BY <1>12, <1>18
<1> HIDE DEF S
<1> QED BY <1>11, <1>14, <1>15, <1>16, <1>19, <1>20, SessionsMove

\* A thread reads the stream of a session for the event loop.
LEMMA SpawnedReadPicture ==
  ASSUME PictureInv, LiveInv', NEW s \in Watched, SpawnedRead(s)
  PROVE  PictureInv'
<1> DEFINE se == session[s]
           st == AfterNext(s)
           item == NextItem(s)
           e == [s |-> s, item |-> item]
           new == [se EXCEPT !.thread = IF item.type = "end" \/ ~serving THEN "none" ELSE @]
<1>0. /\ s \in Streams /\ se.thread = "reads" /\ feed' = FeedAfterNext(s)
      /\ source' = source /\ serving' = serving /\ reader' = reader
      /\ stream' = [stream EXCEPT ![s] = st] /\ session' = [session EXCEPT ![s] = new]
      /\ reads' = IF serving THEN Append(reads, e) ELSE reads
  BY WatchedStreams DEF SpawnedRead
<1>1. /\ Sane(se) /\ DOMAIN session = Watched /\ DOMAIN feed = Streams /\ ReadsOwned
      /\ DOMAIN stream = Streams /\ DOMAIN stream[s] = StreamFields /\ IsSeq(reads)
  BY <1>0 DEF PictureInv, SessionsSane, LiveInv, LiveShape, ReadsOwned
<1>2. se.state \in {"live", "over"} /\ (~serving => se.state = "over")
  BY <1>0, <1>1 DEF Sane, PictureInv, ServedLive
<1>3. e.s = s /\ e.item = item
  OBVIOUS
<1> HIDE DEF st, item, e
<1>4. /\ DOMAIN new = SessionFields /\ new.state = se.state
      /\ new.thread \in {"none", "reads"} /\ new.connected = se.connected
      /\ new.awaiting_key = se.awaiting_key /\ new.broken = se.broken
      /\ new.handed = se.handed /\ new.picture = se.picture
  BY <1>0, <1>1, SessionFieldsOf DEF Sane
<1> HIDE DEF new
<1>5. Sane(new)
  BY <1>1, <1>2, <1>4 DEF Sane
<1>6. /\ DOMAIN session' = Watched /\ session'[s] = new
      /\ \A t \in Watched \ {s} : session'[t] = session[t]
      /\ stream'[s] = st /\ \A t \in Streams \ {s} : stream'[t] = stream[t]
  BY <1>0, <1>1
<1>7. \A t \in Watched : session'[t].state = session[t].state
  BY <1>4, <1>6
<1>8. ReadsOwned'
  <2>1. CASE serving
    <3>1. reads' = Append(reads, e) /\ e.s \in Watched /\ session[e.s].state \in {"live", "over"}
      BY <2>1, <1>0, <1>2, <1>3
    <3> QED BY <3>1, <1>1, <1>7, AppendOwned
  <2>2. CASE ~serving
    BY <2>2, <1>0, <1>1, <1>7 DEF ReadsOwned
  <2> QED BY <2>1, <2>2
<1>9. Calm
  BY <1>0, CalmSame
<1>10. ServedLive' /\ Counted' /\ ReadersWhole'
  BY <1>0, <1>7, <1>9, CalmWhole DEF PictureInv, ServedLive, Counted
<1>11. DOMAIN feed' = Streams /\ \A t \in Streams \ {s} : feed'[t] = feed[t]
  BY <1>0, <1>1, FeedAfterNextOthers
<1>12. ASSUME NEW t \in Watched \ {s}
       PROVE  Apart(t)
  <2>1. t \in Streams \ {s}
    BY WatchedStreams
  <2>2. Passed(session'[t], session[t])
    BY <1>6, PassedSame DEF PictureInv, SessionsSane
  <2>3. /\ Plain(ReadsOf(reads, t)) => Plain(ReadsOf(reads', t))
        /\ \A a, b \in Nat : Linked(ReadsOf(reads, t), a, b) => Linked(ReadsOf(reads', t), a, b)
    <3>1. CASE serving
      <4>1. e.s # t /\ reads' = Append(reads, e)
        BY <3>1, <1>0, <1>3
      <4> QED BY <4>1, <1>1, AppendReads
    <3>2. CASE ~serving
      BY <3>2, <1>0
    <3> QED BY <3>1, <3>2
  <2> QED BY <2>1, <2>2, <2>3, <1>6, <1>9, <1>11, CalmApart DEF Apart
<1>13. ASSUME session'[s].state \in Serviced
       PROVE  Chain(s, session'[s], reads', stream'[s].queued, feed'[s], reader')
  <2>1. se.state = "live" /\ serving /\ reads' = Append(reads, e)
    BY <1>0, <1>2, <1>7, <1>13 DEF Serviced
  <2>2. Chain(s, se, reads, stream[s].queued, feed[s], reader)
    BY <2>1 DEF PictureInv, Chained, Serviced
  <2> DEFINE p == ReadsOf(reads, s)
  <2>3. PICK a \in Nat, b \in Nat, c \in Nat, z \in Nat :
          /\ SessionAt(se, a) /\ Linked(p, a, b) /\ Linked(stream[s].queued, b, c)
          /\ Linked(feed[s], c, z) /\ \A r \in Readers : At(reader[r], s, z)
    BY <2>2 DEF Chain
  <2>4. Plain(p) /\ Plain(stream[s].queued)
    BY <2>2 DEF Chain
  <2>5. /\ item.type # "snapshot" /\ Plain(st.queued)
        /\ \E d, f \in Nat : /\ Passes(b, item, d) /\ Linked(st.queued, d, f)
                             /\ Linked(FeedAfterNext(s)[s], f, z)
    BY <2>3, <2>4, <1>0, <1>1, NextLinked DEF st, item
  <2>6. PICK d \in Nat, f \in Nat : /\ Passes(b, item, d) /\ Linked(st.queued, d, f)
                                    /\ Linked(FeedAfterNext(s)[s], f, z)
    BY <2>5
  <2>7. IsSeq(p) /\ ReadsOf(reads', s) = Append(p, item)
    BY <2>1, <1>1, <1>3, ReadsOfSeq, ReadsOfAppend
  <2> HIDE DEF p
  <2>8. Linked(Append(p, item), a, d) /\ Plain(Append(p, item))
    BY <2>3, <2>4, <2>5, <2>6, <2>7, LinkedAppend, PlainAppend
  <2>9. SessionAt(new, a) /\ new.state = "live"
    BY <2>1, <2>3, <1>4 DEF SessionAt
  <2>10. Chain(s, new, reads', st.queued, FeedAfterNext(s)[s], reader)
    BY <2>3, <2>5, <2>6, <2>7, <2>8, <2>9 DEF Chain
  <2> QED BY <2>10, <1>0, <1>6
<1> DEFINE S == {s}
<1>14. S \in SUBSET Watched /\ \A t \in Watched \ S : Apart(t)
  BY <1>12
<1>15. \A t \in S : /\ Sane(session'[t]) /\ session'[t].state # "none"
                    /\ session'[t].state \in Serviced =>
                         Chain(t, session'[t], reads', stream'[t].queued, feed'[t], reader')
  BY <1>2, <1>5, <1>6, <1>7, <1>13
<1> HIDE DEF S
<1> QED BY <1>6, <1>8, <1>10, <1>11, <1>14, <1>15, SessionsMove

LEMMA SamePicture ==
  ASSUME PictureInv, LiveInv', UNCHANGED vars
  PROVE  PictureInv'
<1>1. /\ source' = source /\ feed' = feed /\ reads' = reads /\ serving' = serving
      /\ reader' = reader /\ stream' = stream /\ session' = session
  BY DEF vars, remuxVars, webrtcVars
<1>2. DOMAIN session' = Watched /\ \A t \in Watched : Passed(session'[t], session[t])
  BY <1>1, PassedSame DEF PictureInv, SessionsSane
<1>3. serving' \/ \A t \in Watched : session'[t].state # "live"
  BY <1>1 DEF PictureInv, ServedLive
<1> QED BY <1>1, <1>2, <1>3, CalmSame, PassedStep

LEMMA PictureInvInit == Init => PictureInv
<1> SUFFICES ASSUME Init PROVE PictureInv
  OBVIOUS
<1>1. LiveInv
  BY LiveInvInit
<1>2. /\ reader = [r \in Readers |-> NewReader] /\ feed = [s \in Streams |-> <<>>]
      /\ session = [s \in Watched |-> NewSession] /\ reads = <<>> /\ serving = TRUE
  BY DEF Init, RemuxInit, WebRtcInit
<1>3. PICK start \in Starts :
        /\ source = [frames |-> start.frames, links |-> start.links, lost |-> start.lost]
        /\ stream = [s \in Streams |->
             IF s \in start.streams THEN NewStream ELSE [NewStream EXCEPT !.state = "unused"]]
  BY DEF Init, RemuxInit
<1>4. Counted
  BY <1>3, RemuxAssumption DEF Counted
<1>5. /\ NewReader.subs = {} /\ ~NewReader.gop_valid /\ NewReader.last = NoFrame
      /\ NewReader.picture = "display"
  BY DEF NewReader
<1>6. ReaderWhole(NewReader)
  BY <1>5 DEF ReaderWhole, Whole, NoFrame
<1>7. ReadersWhole
  BY <1>2, <1>6 DEF ReadersWhole
<1>8. Sane(NewSession) /\ NewSession.state = "none"
  BY DEF Sane, NewSession, SessionFields
<1>9. SessionsSane
  BY <1>2, <1>8 DEF SessionsSane
<1>10. UnopenedClean
  <2>1. \A s \in Watched : stream[s].queued = <<>>
    BY <1>3, WatchedStreams DEF NewStream
  <2> QED BY <2>1, <1>2, <1>5 DEF UnopenedClean
<1>11. ReadsOwned /\ ServedLive
  BY <1>2, NoneSeq DEF ReadsOwned, ServedLive
<1>12. Chained
  BY <1>2, <1>8 DEF Chained, Serviced
<1> QED BY <1>1, <1>2, <1>4, <1>7, <1>9, <1>10, <1>11, <1>12 DEF PictureInv

LEMMA PictureInvNext == PictureInv /\ [Next]_vars => PictureInv'
<1> SUFFICES ASSUME PictureInv, [Next]_vars PROVE PictureInv'
  OBVIOUS
<1>0. LiveInv'
  BY LiveInvNext DEF PictureInv
<1>1. CASE SourceStep
  BY <1>0, <1>1, ReaderStepPicture DEF SourceStep
<1>2. CASE MuxStep
  BY <1>0, <1>2, MuxedStepPicture DEF MuxStep
<1>3. ASSUME NEW s \in Watched, RequestStep(s) \/ LoopStep(s) \/ ThreadStep(s)
      PROVE  PictureInv'
  BY <1>0, <1>3, RequestStepPicture, LoopPicture, ReadStepPicture, FirstPicture,
     SpawnedReadPicture DEF LoopStep, ThreadStep
<1>4. CASE Flush
  BY <1>0, <1>4, FlushPicture
<1>5. CASE Fail
  BY <1>0, <1>5, FailPicture
<1>6. CASE UNCHANGED vars
  BY <1>0, <1>6, SamePicture
<1> QED BY <1>1, <1>2, <1>3, <1>4, <1>5, <1>6 DEF Next

\* However a source reconnects, streams skip, pictures outgrow their bounds and the socket
\* drops its queue, no browser is ever written a frame it cannot decode: what waits for it in
\* its feed, its stream and the channel of the event loop always goes on from what it shows
\* or starts again with a keyframe (publish and attach of reader.rs, write of session.rs).
THEOREM AlwaysPictureWhole == Spec => []PictureWhole
<1>1. PictureInv => PictureWhole
  BY DEF PictureInv, SessionsSane, Sane, PictureWhole
<1> QED BY <1>1, PictureInvInit, PictureInvNext, PTL DEF Spec

-----------------------------------------------------------------------------
(* A timeline.                                                             *)

LEMMA MaxOfTwo ==
  ASSUME NEW a \in Int, NEW b \in Int
  PROVE  Max({a, b}) \in Int /\ Max({a, b}) >= a /\ Max({a, b}) >= b
<1>1. \E x \in {a, b} : \A y \in {a, b} : x >= y
  OBVIOUS
<1> QED BY <1>1 DEF Max

LEMMA MaxOfThree ==
  ASSUME NEW a \in Int, NEW b \in Int, NEW c \in Int
  PROVE  /\ Max({a, b, c}) \in Int
         /\ Max({a, b, c}) >= a /\ Max({a, b, c}) >= b /\ Max({a, b, c}) >= c
<1>1. \E x \in {a, b, c} : \A y \in {a, b, c} : x >= y
  OBVIOUS
<1> QED BY <1>1 DEF Max

\* Whatever the source sends with a packet, its place is a pair of times, and the first
\* packet of a connection is placed at the end or behind it.
LEMMA ShiftedPlace ==
  ASSUME NEW l \in Placement, NEW pts \in Times, NEW dts \in Times, NEW duration \in Durations
  PROVE  /\ Shifted(l, pts, dts, duration).dts \in Int
         /\ Shifted(l, pts, dts, duration).pts \in Int \cup {NoTime}
         /\ Shifted(l, pts, dts, duration).shift \in Int \cup {NoTime}
         /\ l.shift = NoTime => Shifted(l, pts, dts, duration).dts = l.end
<1>1. Max({duration, 1}) \in Int
  <2>1. duration \in Int /\ 1 \in Int
    BY TimelineAssumption
  <2> QED BY ONLY <2>1, MaxOfTwo
<1>2. pts \in Int \cup {NoTime} /\ dts \in Int \cup {NoTime} /\ NoTime \notin Int
  BY TimelineAssumption
<1> QED BY <1>1, <1>2 DEF Shifted, Placement

\* One packet placed: what is decoded increases, is handed no earlier than it is decoded, and
\* lands before the new end.
LEMMA PlacedWell ==
  ASSUME Advanced, TimelinePlace
  PROVE  /\ Advanced'
         /\ line.last # NoTime => placed'.dts > line.last
         /\ placed'.pts >= placed'.dts
         /\ placed'.first => placed'.dts >= line.end
         /\ line'.end >= line.end /\ line'.end > placed'.dts
<1>1. PICK pts \in Times, dts \in Times, duration \in Durations :
        LET at  == Shifted(line, pts, dts, duration)
            d   == Increasing(line, at.dts)
            p   == IF at.pts = NoTime THEN d ELSE Max({at.pts, d})
        IN /\ line' = [end   |-> Max({line.end, p + Max({duration, 0}), d + 1}),
                       last  |-> d,
                       shift |-> at.shift]
           /\ placed' = [pts |-> p, dts |-> d, first |-> line.shift = NoTime,
                         before |-> placed.before + 1]
  BY DEF TimelinePlace
<1> DEFINE at == Shifted(line, pts, dts, duration)
           d == Increasing(line, at.dts)
           p == IF at.pts = NoTime THEN d ELSE Max({at.pts, d})
           end == Max({line.end, p + Max({duration, 0}), d + 1})
<1>2. /\ line' = [end |-> end, last |-> d, shift |-> at.shift]
      /\ placed' = [pts |-> p, dts |-> d, first |-> line.shift = NoTime,
                    before |-> placed.before + 1]
  BY <1>1
<1>3. /\ at.dts \in Int /\ at.pts \in Int \cup {NoTime} /\ at.shift \in Int \cup {NoTime}
      /\ line.shift = NoTime => at.dts = line.end
  BY ShiftedPlace DEF Advanced
<1>4. /\ line.end \in Int /\ line.last \in Int \cup {NoTime} /\ NoTime \notin Int
      /\ placed.before \in Nat /\ (line.last # NoTime => line.last < line.end)
  BY TimelineAssumption DEF Advanced, Placement
<1> HIDE DEF at
<1>5. d \in Int /\ d >= at.dts /\ (line.last # NoTime => d > line.last)
  BY <1>3, <1>4 DEF Increasing
<1> HIDE DEF d
<1>6. p \in Int /\ p >= d
  BY <1>3, <1>5, MaxOfTwo
<1> HIDE DEF p
<1>7. Max({duration, 0}) \in Int
  <2>1. duration \in Int /\ 0 \in Int
    BY TimelineAssumption
  <2> QED BY ONLY <2>1, MaxOfTwo
<1>8. end \in Int /\ end >= line.end /\ end > d
  <2>1. end >= d + 1 /\ end >= line.end /\ end \in Int
    <3> DEFINE q == p + Max({duration, 0})
               e == d + 1
    <3>1. q \in Int /\ e \in Int /\ line.end \in Int
      BY <1>4, <1>5, <1>6, <1>7
    <3> HIDE DEF q, e
    <3>2. Max({line.end, q, e}) \in Int /\ Max({line.end, q, e}) >= line.end
          /\ Max({line.end, q, e}) >= e
      BY ONLY <3>1, MaxOfThree
    <3> QED BY <3>2 DEF q, e
  <2> HIDE DEF end
  <2> QED BY <2>1, <1>5
<1> HIDE DEF end
<1>9. Advanced'
  BY <1>2, <1>3, <1>4, <1>5, <1>8 DEF Advanced, Placement
<1> QED BY <1>2, <1>3, <1>4, <1>5, <1>6, <1>8, <1>9

\* The timeline always ends behind the last decode time (Timeline::place).
THEOREM AlwaysAdvanced == TimelineSpec => []Advanced
<1>1. TimelineInit => Advanced
  BY TimelineAssumption DEF TimelineInit, NewLine, NotPlaced, Advanced, Placement
<1>2. Advanced /\ [TimelineNext]_timelineVars => Advanced'
  <2>1. ASSUME Advanced, TimelineReconnect PROVE Advanced'
    BY <2>1 DEF TimelineReconnect, Advanced, Placement
  <2>2. ASSUME Advanced, UNCHANGED timelineVars PROVE Advanced'
    BY <2>2 DEF timelineVars, Advanced
  <2> QED BY <2>1, <2>2, PlacedWell DEF TimelineNext
<1> QED BY <1>1, <1>2, PTL DEF TimelineSpec

\* Whatever times a source sends over however many connections, what one stream plays has
\* one timeline that never rewinds (Timeline::place and Timeline::reconnect).
THEOREM AlwaysOneTimeline == TimelineSpec => OneTimeline
<1> DEFINE Step ==
      placed'.before > placed.before =>
        /\ line.last # NoTime => placed'.dts > line.last
        /\ placed'.pts >= placed'.dts
        /\ placed'.first => placed'.dts >= line.end
        /\ line'.end >= line.end /\ line'.end > placed'.dts
<1>1. Advanced /\ [TimelineNext]_timelineVars => [Step]_timelineVars
  <2> SUFFICES ASSUME Advanced, TimelineNext PROVE Step
    OBVIOUS
  <2>1. ASSUME TimelineReconnect PROVE ~(placed'.before > placed.before)
    BY <2>1 DEF TimelineReconnect, Advanced
  <2> QED BY <2>1, PlacedWell DEF TimelineNext
<1> QED BY <1>1, AlwaysAdvanced, PTL DEF TimelineSpec, OneTimeline
=============================================================================
