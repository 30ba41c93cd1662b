------------------------------- MODULE Remux -------------------------------
(***************************************************************************)
(* The streams that read one live source                                   *)
(* (rust/ceres-media/src/remux): the registry of shared readers, the       *)
(* thread of a reader that connects to the source and fans its packets     *)
(* out, and the two ends of a stream: RemuxStream, which muxes the packets *)
(* itself, and PacketStream, which a WebRTC session reads.                 *)
(*                                                                         *)
(* Every section under a lock is one action.  A packet is one frame; its   *)
(* `needs` is the frame it is decoded from.  Bytes are counted in packets. *)
(* Time enters as steps that may come at any moment: the linger of a       *)
(* reader without streams runs out, a source stalls, a delay passes.       *)
(* A source without a key, whose reader is one stream's own and never in   *)
(* the registry (reader.rs:209), is left out.                              *)
(***************************************************************************)
EXTENDS Integers, Sequences, SequencesExt, FiniteSets, FiniteSetsExt

CONSTANTS
  Muxed,       \* streams a RemuxStream reads
  Watched,     \* streams a PacketStream reads
  Patient,     \* streams opened with `reconnect`
  Readers,     \* bound: readers of the source, one after the other
  Dropping,    \* watched streams opened with `reordered=drop`
  FEED_BACKLOG, GOP_CACHE, IN_ORDER_PACKETS,
  Kinds,       \* codecs the source may send over its first and its later connections
  Pictures,    \* how the source orders its frames
  Starts,      \* bound: the streams of a behaviour, and what the source did before them
  MaxLinks,    \* bound: connections that succeed
  MaxFails,    \* bound: connections that fail or end
  MaxFrames    \* bound: frames of the source

Streams == Muxed \cup Watched

ASSUME RemuxAssumption ==
  /\ Muxed \cap Watched = {} /\ Patient \subseteq Streams /\ Dropping \subseteq Watched
  /\ FEED_BACKLOG \in Nat \ {0} /\ GOP_CACHE \in Nat /\ IN_ORDER_PACKETS \in Nat
  /\ Pictures \subseteq {"display", "bframes", "pyramid"}
  /\ MaxLinks \in Nat /\ MaxFails \in Nat /\ MaxFrames \in Nat
  /\ \A start \in Starts : start.frames \in Nat

VARIABLES
  copy,      \* whether the source's packets are copied or re-encoded
  registry,  \* READERS: the readers registered under the source's key
  reader,    \* each reader: its thread, its State and its encoder
  feed,      \* what was sent to each stream and it has yet to take
  stream,    \* each stream's own end
  source     \* the world: frames sent, connections made and lost

remuxVars == <<copy, registry, reader, feed, stream, source>>

NoTrack == "none"
NoFrame == 0

-----------------------------------------------------------------------------
(* Messages.                                                               *)

Track(kind) == [type |-> "track", kind |-> kind]
Snapshot(kind, packets) == [type |-> "snapshot", kind |-> kind, packets |-> packets]
Packet(packet) == [type |-> "packet", packet |-> packet]
Lost == [type |-> "lost"]
Notice(what) == [type |-> "notice", what |-> what]
End(failed) == [type |-> "end", failed |-> failed]

\* How many packets the stream has yet to take.
Pending(s) == Len(SelectSeq(feed[s], LAMBDA m : m.type = "packet"))

\* The streams whose end of the channel is still there: a send to another fails.
Open(S) == {s \in S : ~stream[s].dropped}

\* What is sent to the streams of S, those that are gone left out.
Sent(S, messages) ==
  [s \in Streams |-> IF s \in Open(S) THEN feed[s] \o messages ELSE feed[s]]

-----------------------------------------------------------------------------
(* A reader's state.                                                       *)

NewReader ==
  [thread |-> "none", subs |-> {}, waiting |-> {}, told |-> {},
   track |-> NoTrack, gop |-> <<>>, gop_valid |-> FALSE,
   outage |-> FALSE, empty |-> "no", closed |-> FALSE,
   picture |-> "display", kind |-> NoTrack, published |-> FALSE, last |-> NoFrame]

\* A reader that is done, of which nobody asks more.
Closed == [NewReader EXCEPT !.thread = "gone", !.closed = TRUE]

\* A subscriber taken out of the list drops its sender.
Keep(rd, S) == [rd EXCEPT !.subs = S, !.waiting = @ \cap S, !.told = @ \cap S]

\* A reader has had no stream for longer than it lingers.
should_stop(r) == reader[r].empty = "lingered"

join(rd, s) ==
  [rd EXCEPT !.subs = @ \cup {s}, !.empty = "no",
             !.waiting = IF rd.outage \/ (rd.track # NoTrack /\ ~rd.gop_valid)
                         THEN @ \cup {s} ELSE @]

Greeting(rd) ==
  (IF rd.outage \/ rd.track = NoTrack THEN <<>>
   ELSE IF rd.gop_valid THEN <<Snapshot(rd.track, rd.gop)>>
   ELSE <<Track(rd.track)>>)
    \o (IF rd.closed THEN <<End(FALSE)>> ELSE <<>>)

\* The streams of S stop reading.
leave(rd, S) ==
  LET left == Keep(rd, rd.subs \ S)
  IN IF left.subs = {} /\ ~rd.closed THEN [left EXCEPT !.empty = "yes"] ELSE left

-----------------------------------------------------------------------------
(* Opening and stopping a stream.                                          *)

NewStream ==
  [state |-> "new", reader |-> 0, stopped |-> FALSE, dropped |-> FALSE,
   kind |-> NoTrack, started |-> FALSE, ended |-> FALSE, queued |-> <<>>,
   heard |-> "up", order |-> [keyed |-> FALSE, steps |-> 0, back |-> FALSE]]

\* With the registry locked throughout, a stream joins the reader that is
\* registered or registers one and starts its thread.
attach(s) ==
  /\ stream[s].state = "new"
  /\ \E r \in Readers :
       /\ IF registry # {} THEN r \in registry
          ELSE r = CHOOSE x \in Readers : reader[x].thread = "none"
       /\ registry' = {r}
       /\ reader' = [reader EXCEPT ![r] =
            join(IF registry = {} THEN [@ EXCEPT !.thread = "head"] ELSE @, s)]
       /\ stream' = [stream EXCEPT ![s].state = "open", ![s].reader = r]
       /\ feed' = [feed EXCEPT ![s] = Greeting(reader[r])]

CanAttach == registry # {} \/ \E r \in Readers : reader[r].thread = "none"

\* What stopping the streams of S leaves of the readers.
Stopped(S) ==
  [r \in Readers |->
     LET leaving == {s \in S : stream[s].reader = r /\ ~stream[s].stopped}
     IN IF leaving = {} THEN reader[r] ELSE leave(reader[r], leaving)]

\* What is left of a RemuxStream whose thread ended.
Done(st) ==
  [NewStream EXCEPT !.state = "open", !.reader = st.reader, !.stopped = st.stopped,
                    !.ended = TRUE, !.dropped = TRUE]

\* The consumer stops a RemuxStream, or drops it.  Its thread drains what was
\* sent to it and ends.
stop(s) ==
  /\ s \in Muxed /\ stream[s].state = "open" /\ ~stream[s].stopped
  /\ reader' = [reader EXCEPT ![stream[s].reader] = leave(@, {s})]
  /\ stream' = [stream EXCEPT ![s] = [Done(@) EXCEPT !.stopped = TRUE]]
  /\ feed' = [feed EXCEPT ![s] = <<>>]
  /\ UNCHANGED <<copy, registry, source>>

-----------------------------------------------------------------------------
(* The reader's thread.                                                    *)

TryCloseUnchecked(r) ==
  /\ reader' = [reader EXCEPT ![r] = [Closed EXCEPT !.subs = reader[r].subs]]
  /\ registry' = registry \ {r}

\* Both locks held, the reader closes unless a stream joined meanwhile.
try_close(r) ==
  /\ reader[r].subs = {}
  /\ reader' = [reader EXCEPT ![r] = Closed]
  /\ registry' = registry \ {r}

\* Closing for good ends every stream.
close(r, failed) ==
  /\ reader' = [reader EXCEPT ![r] = Closed]
  /\ registry' = registry \ {r}
  /\ feed' = Sent(reader[r].subs, <<End(failed)>>)

\* The top of the loop; what should_stop() said may be stale when the locks
\* are taken.
Round(r) ==
  /\ reader[r].thread = "head"
  /\ reader' = [reader EXCEPT ![r].thread = IF should_stop(r) THEN "head_stop" ELSE "connect"]
  /\ UNCHANGED <<copy, registry, feed, stream, source>>

\* The track of a new connection, or of a new encoder, goes to every stream.
PublishTrack(rd, kind) ==
  [Keep(rd, Open(rd.subs)) EXCEPT !.track = kind, !.gop = <<>>, !.gop_valid = TRUE,
     !.published = TRUE]

\* A connection opens: the source plays a picture of some kind.  A frame the
\* camera sent before is what its first frame may need.
Connect(r) ==
  /\ reader[r].thread = "connect" /\ source.links < MaxLinks
  /\ \E kind \in Kinds[Min({source.links + 1, Len(Kinds)})],
        picture \in IF copy THEN Pictures ELSE {"display"} :
       LET rd   == [reader[r] EXCEPT !.thread = "reading", !.picture = picture, !.kind = kind]
           seen == [rd EXCEPT !.last = source.frames + 1]
       IN IF copy
          THEN /\ reader' = [reader EXCEPT ![r] = PublishTrack(seen, kind)]
               /\ feed' = Sent(rd.subs, <<Track(kind)>>)
               /\ source' = [source EXCEPT !.links = @ + 1, !.frames = @ + 1]
          ELSE /\ reader' = [reader EXCEPT ![r] = rd]
               /\ source' = [source EXCEPT !.links = @ + 1]
               /\ UNCHANGED feed
  /\ UNCHANGED <<copy, registry, stream>>

\* It fails, stalls, ends, or is interrupted because the reader should stop.
LoseLink(r) ==
  /\ reader[r].thread \in {"connect", "reading"}
  /\ source.lost < MaxFails \/ should_stop(r)
  /\ source' = IF should_stop(r) THEN source ELSE [source EXCEPT !.lost = @ + 1]
  /\ reader' = [reader EXCEPT ![r].thread = "ended"]
  /\ UNCHANGED <<copy, registry, feed, stream>>

\* The source cannot go on: a track cannot be copied, no decoder or encoder; or it has no
\* more connections to give, which ends its streams without an error.
Fatal(r) ==
  /\ reader[r].thread \in {"connect", "reading"} /\ source.lost < MaxFails
  /\ \E failed \in BOOLEAN : (failed \/ reader[r].thread = "connect") /\ close(r, failed)
  /\ source' = [source EXCEPT !.lost = @ + 1]
  /\ UNCHANGED <<copy, stream>>

-----------------------------------------------------------------------------
(* A packet arrives.                                                       *)

\* The outage is over once the picture arrives.
received(rd) ==
  IF rd.outage
  THEN [Keep(rd, (rd.subs \ rd.told) \cup Open(rd.told)) EXCEPT
          !.outage = FALSE, !.told = {}]
  ELSE rd

Back(rd) == IF rd.outage THEN Sent(rd.told, <<Notice("reconnected")>>) ELSE feed

\* What the cache holds behind a packet, and whether it holds a picture.
Cached(rd, packet) ==
  LET valid == rd.gop_valid \/ packet.key
      gop   == IF packet.key THEN <<packet>> ELSE Append(rd.gop, packet)
  IN IF ~valid THEN [gop |-> rd.gop, gop_valid |-> FALSE]
     ELSE IF Len(gop) > GOP_CACHE THEN [gop |-> <<>>, gop_valid |-> FALSE]
     ELSE [gop |-> gop, gop_valid |-> TRUE]

\* A stream with a full feed skips to the keyframe that finds room in it.
Behind(s) == Pending(s) >= FEED_BACKLOG
Resumes(rd, packet) == {s \in rd.waiting : packet.key /\ ~Behind(s)}
Takes(rd, packet) == {s \in rd.subs \ rd.waiting : ~Behind(s)} \cup Resumes(rd, packet)

publish(rd, packet) ==
  LET cached  == Cached(rd, packet)
      takes   == Takes(rd, packet)
      waiting == (rd.waiting \cup {s \in rd.subs : Behind(s)}) \ takes
  IN [Keep([rd EXCEPT !.waiting = waiting], (rd.subs \ takes) \cup Open(takes)) EXCEPT
        !.gop = cached.gop, !.gop_valid = cached.gop_valid,
        !.last = IF packet.ref THEN packet.n ELSE @]

\* The track comes again in front of the keyframe a stream resumes at.
Published(rd, packet, f) ==
  [s \in Streams |->
     IF s \notin Open(Takes(rd, packet)) THEN f[s]
     ELSE f[s] \o (IF s \in rd.waiting THEN <<Track(rd.track)>> ELSE <<>>)
               \o <<Packet(packet)>>]

\* The frames a source of this picture may send next: keyframes, frames that
\* others reference, and frames nothing references.  `step` is where a frame
\* shows with respect to the one before it.
Frames(rd, n) ==
  LET frame(key, ref, step) ==
        [n |-> n, key |-> key, ref |-> ref, step |-> step,
         needs |-> IF key THEN NoFrame ELSE rd.last]
      key == frame(TRUE, TRUE, "later")
  IN CASE rd.picture = "display" -> {key, frame(FALSE, TRUE, "later")}
       [] rd.picture = "bframes" ->
            {key, frame(FALSE, TRUE, "later"), frame(FALSE, FALSE, "back")}
       [] rd.picture = "pyramid" -> {key, frame(FALSE, TRUE, "back")}

\* Bound: what a source sends is followed while there is a stream to see it.
Followed(r) == reader[r].subs # {} \/ \E s \in Streams : stream[s].state = "new"

\* A copied packet.
ReadCopy(r) ==
  /\ reader[r].thread = "reading" /\ copy /\ source.frames < MaxFrames /\ Followed(r)
  /\ \E packet \in Frames(reader[r], source.frames + 1) :
       LET rd == received(reader[r])
       IN /\ reader' = [reader EXCEPT ![r] = publish(rd, packet)]
          /\ feed' = Published(rd, packet, Back(reader[r]))
  /\ source' = [source EXCEPT !.frames = @ + 1]
  /\ UNCHANGED <<copy, registry, stream>>

\* A re-encoded packet.  A picture whose size or format changed opens a new
\* encoder, whose first packet is a keyframe of a new track; the encoder
\* outlives a connection and sends its frames in display order.  The frame that
\* ends an outage may leave the encoder with nothing to send yet.
ReadTranscode(r) ==
  /\ reader[r].thread = "reading" /\ ~copy /\ source.frames < MaxFrames /\ Followed(r)
  /\ LET rd    == received(reader[r])
         fresh == ~rd.published \/ rd.track # rd.kind
         told  == IF fresh THEN PublishTrack(rd, rd.kind) ELSE rd
         sent  == IF fresh
                  THEN [s \in Streams |-> Back(reader[r])[s]
                          \o (IF s \in Open(rd.subs) THEN <<Track(rd.kind)>> ELSE <<>>)]
                  ELSE Back(reader[r])
     IN \/ \E packet \in Frames([told EXCEPT !.picture = "display"], source.frames + 1) :
             /\ fresh => packet.key
             /\ reader' = [reader EXCEPT ![r] = publish(told, packet)]
             /\ feed' = Published(told, packet, sent)
        \/ /\ reader[r].outage
           /\ reader' = [reader EXCEPT ![r] = rd]
           /\ feed' = Back(reader[r])
  /\ source' = [source EXCEPT !.frames = @ + 1]
  /\ UNCHANGED <<copy, registry, stream>>

-----------------------------------------------------------------------------
(* A link ended.                                                           *)

\* The streams are told once per outage, and no stream joins a picture the
\* source has moved past.
lost(rd) ==
  IF rd.outage THEN rd
  ELSE [Keep(rd, Open(rd.subs)) EXCEPT !.outage = TRUE, !.gop = <<>>, !.gop_valid = FALSE,
          !.told = Open(rd.subs)]

\* Those that were told learn of the first attempt to reach the source again.
schedule(rd) == IF rd.outage THEN <<>> ELSE <<Lost, Notice("retrying")>>

\* The reader waits for the delay of the backoff.
Backoff(r) ==
  /\ reader' = [reader EXCEPT ![r] = [lost(@) EXCEPT !.thread = "head"]]
  /\ feed' = Sent(reader[r].subs, schedule(reader[r]))

EndLink(r) ==
  /\ reader[r].thread = "ended"
  /\ IF should_stop(r)
     THEN reader' = [reader EXCEPT ![r].thread = "ended_stop"] /\ UNCHANGED feed
     ELSE Backoff(r)
  /\ UNCHANGED <<copy, registry, stream, source>>

\* Unless it closes, the reader goes on where it was.
Stopping(r) ==
  /\ \/ /\ reader[r].thread \in {"head_stop", "ended_stop"}
        /\ try_close(r) /\ UNCHANGED feed
     \/ /\ reader[r].thread = "head_stop" /\ reader[r].subs # {}
        /\ reader' = [reader EXCEPT ![r].thread = "connect"]
        /\ UNCHANGED <<registry, feed>>
     \/ /\ reader[r].thread = "ended_stop" /\ reader[r].subs # {}
        /\ Backoff(r) /\ UNCHANGED registry
  /\ UNCHANGED <<copy, stream, source>>

\* A reader has been without a stream for `linger`.
Linger(r) ==
  /\ reader[r].empty = "yes"
  /\ reader' = [reader EXCEPT ![r].empty = "lingered"]
  /\ UNCHANGED <<copy, registry, feed, stream, source>>

-----------------------------------------------------------------------------
(* The end of a stream that its consumer reads.                            *)

\* The reader dropped the stream: nothing more comes after what was sent.
Disconnected(s) == s \notin reader[stream[s].reader].subs

\* Where a frame shows with respect to those before it.  A keyframe starts
\* the count of the frames that each show later than the last.
observe(check, packet) ==
  LET keyed == check.keyed \/ packet.key
      steps == IF packet.key THEN 0 ELSE check.steps
  IN [keyed |-> keyed,
      back  |-> check.back \/ packet.step = "back",
      steps |-> IF ~packet.key /\ keyed /\ packet.step = "later" /\ steps < IN_ORDER_PACKETS
                THEN steps + 1 ELSE steps]

FrameOrder(check) ==
  IF check.back THEN "reordered"
  ELSE IF check.keyed /\ check.steps >= IN_ORDER_PACKETS THEN "display" ELSE "unknown"

\* What a lost source means for a stream: a notice, or its end.
LostHeard(st, s) ==
  IF s \in Patient THEN [st EXCEPT !.heard = "lost"] ELSE [st EXCEPT !.ended = TRUE]

Heard(st, m) ==
  IF m.what = "retrying" THEN [st EXCEPT !.heard = "retrying"] ELSE [st EXCEPT !.heard = "up"]

\* RemuxStream: the muxer opens with its first packet and lives as long as
\* the tracks match.
Muxes(st, kind) == st.started /\ st.kind # kind

mux(s) ==
  /\ s \in Muxed /\ stream[s].state = "open" /\ ~stream[s].ended /\ feed[s] # <<>>
  /\ LET m == feed[s][1]
         st == stream[s]
         on(kind, packets) ==
           IF Muxes(st, kind) THEN [st EXCEPT !.ended = TRUE]
           ELSE [st EXCEPT !.kind = kind, !.started = @ \/ packets # <<>>]
     IN stream' = [stream EXCEPT ![s] =
          CASE m.type = "track"    -> on(m.kind, <<>>)
            [] m.type = "snapshot" -> on(m.kind, m.packets)
            [] m.type = "packet"   -> [st EXCEPT !.started = @ \/ st.kind # NoTrack]
            [] m.type = "lost"     -> LostHeard(st, s)
            [] m.type = "notice"   -> Heard(st, m)
            [] OTHER               -> [st EXCEPT !.ended = TRUE]]   \* End
  /\ feed' = [feed EXCEPT ![s] = Tail(@)]
  /\ UNCHANGED <<copy, registry, reader, source>>

MuxEnd(s) ==
  /\ s \in Muxed /\ stream[s].state = "open" /\ ~stream[s].dropped
  /\ stream[s].ended \/ (feed[s] = <<>> /\ Disconnected(s))
  /\ stream' = [stream EXCEPT ![s] = Done(@)]
  /\ feed' = [feed EXCEPT ![s] = <<>>]
  /\ UNCHANGED <<copy, registry, reader, source>>

\* PacketStream: one message of the feed as the items a read returns.
Items(s, m) ==
  CASE m.type = "snapshot" -> <<Track(m.kind)>> \o [i \in 1 .. Len(m.packets) |-> Packet(m.packets[i])]
    [] m.type = "lost"     -> IF s \in Patient THEN <<Notice("lost")>>
                              ELSE IF stream[s].started THEN <<Notice("ended")>> ELSE <<End(TRUE)>>
    [] m.type = "end"      -> IF m.failed THEN <<m>> ELSE <<End(FALSE)>>
    [] OTHER               -> <<m>>

\* A session that drops the frames nothing references asks for the order of
\* the others only.
Holds(s, packet) == ~(s \in Dropping /\ ~packet.ref)

\* An item placed on the stream's timeline, with the order it shows.
place(st, s, item) ==
  CASE item.type = "track" ->
         [st EXCEPT !.kind = item.kind, !.order = NewStream.order]
    [] item.type = "packet" ->
         [st EXCEPT !.started = TRUE,
                    !.order = IF Holds(s, item.packet) THEN observe(@, item.packet) ELSE @]
    [] item.type = "notice" /\ item.what # "ended" ->
         [st EXCEPT !.heard = IF item.what = "reconnected" THEN "up" ELSE item.what]
    [] OTHER -> st

CanNext(s) ==
  \/ stream[s].queued # <<>> \/ stream[s].ended
  \/ feed[s] # <<>> \/ Disconnected(s)

\* next(): the item it returns, End(FALSE) standing for None.
NextItem(s) ==
  IF stream[s].queued # <<>> THEN stream[s].queued[1]
  ELSE IF stream[s].ended \/ feed[s] = <<>> THEN End(FALSE)
  ELSE Items(s, feed[s][1])[1]

AfterNext(s) ==
  LET st == stream[s]
      m  == feed[s][1]
      ends == m.type = "end" \/ (m.type = "lost" /\ s \notin Patient)
      rest == IF st.queued # <<>> THEN [st EXCEPT !.queued = Tail(@)]
              ELSE IF st.ended \/ feed[s] = <<>> THEN [st EXCEPT !.ended = TRUE]
              ELSE [st EXCEPT !.queued = Tail(Items(s, m)), !.ended = @ \/ ends]
  IN place(rest, s, NextItem(s))

FeedAfterNext(s) ==
  IF stream[s].queued = <<>> /\ ~stream[s].ended /\ feed[s] # <<>>
  THEN [feed EXCEPT ![s] = Tail(@)] ELSE feed

-----------------------------------------------------------------------------
RemuxInit ==
  /\ registry = {}
  /\ reader = [r \in Readers |-> NewReader]
  /\ feed = [s \in Streams |-> <<>>]
  /\ \E start \in Starts :
       /\ copy = start.copy
       /\ source = [frames |-> start.frames, links |-> start.links, lost |-> start.lost]
       /\ stream = [s \in Streams |->
            IF s \in start.streams THEN NewStream ELSE [NewStream EXCEPT !.state = "unused"]]

\* The thread of reader r.
ReaderStep(r) ==
  \/ Round(r) \/ Connect(r) \/ LoseLink(r) \/ Fatal(r) \/ ReadCopy(r) \/ ReadTranscode(r)
  \/ EndLink(r) \/ Stopping(r)

\* A RemuxStream opens.
OpenMuxed(s) ==
  /\ s \in Muxed /\ CanAttach
  /\ attach(s)
  /\ UNCHANGED <<copy, source>>

MuxedStep(s) == OpenMuxed(s) \/ stop(s) \/ mux(s) \/ MuxEnd(s)

=============================================================================
