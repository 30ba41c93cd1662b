------------------------------- MODULE WebRtc -------------------------------
(***************************************************************************)
(* WebRTC sessions (rust/ceres-webrtc/src) and the WHEP route that opens   *)
(* them (rust/ceres-server/src/api/whep.rs), over the streams of Remux.    *)
(*                                                                         *)
(* A request holds a handle of the host, and `open` takes a slot, joins    *)
(* the source, reads it on a thread of its own until the order of its      *)
(* frames shows, and hands the session to the event loop.  The event loop  *)
(* owns the sessions and the socket; a thread per session reads its stream *)
(* into a bounded channel.  Every turn of the loop ends with keep_up().    *)
(* One socket is modelled.  str0m, which is external, connects a session,  *)
(* disconnects it and packetizes what is written to it; a frame is one     *)
(* datagram.                                                               *)
(***************************************************************************)
EXTENDS Remux

CONSTANTS
  max_sessions,   \* slots
  PACKET_BACKLOG, \* reads that may wait for the event loop
  QUEUE           \* datagrams the socket holds back

ASSUME WebRtcAssumption ==
  max_sessions \in Nat /\ PACKET_BACKLOG \in Nat \ {0} /\ QUEUE \in Nat

VARIABLES
  session,  \* each request and its session
  reads,    \* reads that wait for the event loop
  queue,    \* datagrams the socket holds back
  serving   \* whether the event loop runs

webrtcVars == <<session, reads, queue, serving>>
vars == <<remuxVars, webrtcVars>>

NewSession ==
  [state |-> "none", thread |-> "none", slot |-> FALSE, handle |-> "none",
   connected |-> FALSE, awaiting_key |-> TRUE, picture |-> <<>>,
   kind |-> NoTrack,
   handed |-> NoFrame,  \* the last frame others refer to that was given to be written
   broken |-> FALSE]    \* history: a frame was written without the one it refers to

Slots == Cardinality({s \in Watched : session[s].slot})

-----------------------------------------------------------------------------
(* Ends.  Whoever drops the last reference to a PacketStream stops it.     *)

StopStreams(S) ==
  /\ reader' = Stopped(S)
  /\ stream' = [s \in Streams |->
       IF s \in S THEN [stream[s] EXCEPT !.stopped = TRUE] ELSE stream[s]]

\* Session::drop stops the stream, frees the slot and resolves `closed`.
Over(se) ==
  [NewSession EXCEPT !.state = "over", !.thread = se.thread, !.handle = se.handle,
                     !.broken = se.broken]

-----------------------------------------------------------------------------
(* The request.                                                            *)

\* The host answers the call with a live source and a handle.  A slot is taken,
\* the stream joins the source, and a thread reads it.
OpenSession(s) ==
  /\ session[s].state = "none" /\ Slots < max_sessions /\ CanAttach
  /\ attach(s)
  /\ session' = [session EXCEPT ![s].state = "opening", ![s].handle = "held",
                                ![s].slot = TRUE, ![s].thread = "first"]
  /\ UNCHANGED <<copy, source, reads, queue, serving>>

\* No slot is left, the offer is refused, or the procedure is not a live source.
Refuse(s) ==
  /\ session[s].state = "none" /\ stream[s].state = "new"
  /\ session' = [session EXCEPT ![s].state = "refused", ![s].handle = "held"]
  /\ UNCHANGED <<remuxVars, reads, queue, serving>>

\* The frames since the latest keyframe, up to a limit.
hold(picture, packet) ==
  LET held == IF packet.key THEN <<packet>>
              ELSE IF picture = <<>> THEN <<>> ELSE Append(picture, packet)
  IN IF Len(held) > GOP_CACHE THEN <<>> ELSE held

\* One read of the first picture's thread, until the source fails or the
\* order of its frames shows.
Collect(se, s, item) ==
  CASE item.type = "track" -> [se EXCEPT !.kind = item.kind, !.picture = <<>>]
    [] item.type = "packet" /\ Holds(s, item.packet) ->
         [se EXCEPT !.picture = hold(@, item.packet)]
    [] OTHER -> se

first_picture(s) ==
  /\ session[s].thread = "first" /\ CanNext(s)
  /\ LET item == NextItem(s)
         st   == AfterNext(s)
         se   == Collect(session[s], s, item)
         failed == item.type = "end"
         known  == se.kind # NoTrack /\ FrameOrder(st.order) # "unknown"
         \* The request that waits for the picture goes on; without it the
         \* thread held the last reference to the stream.
         waits  == se.state = "opening"
     IN /\ feed' = FeedAfterNext(s)
        /\ IF ~failed /\ ~known
           THEN /\ stream' = [stream EXCEPT ![s] = st]
                /\ session' = [session EXCEPT ![s] = se]
                /\ UNCHANGED reader
           ELSE IF waits /\ known /\ FrameOrder(st.order) = "display"
           THEN \* The answer: codecs and candidates agree.
                /\ stream' = [stream EXCEPT ![s] = st]
                /\ session' = [session EXCEPT ![s] =
                     [se EXCEPT !.thread = "none", !.state = "opened"]]
                /\ UNCHANGED reader
           ELSE /\ reader' = Stopped({s})
                /\ stream' = [stream EXCEPT ![s] = [st EXCEPT !.stopped = TRUE]]
                /\ session' = [session EXCEPT ![s] =
                     [se EXCEPT !.thread = "none", !.picture = <<>>,
                        !.slot = IF waits THEN FALSE ELSE @,
                        !.state = IF waits THEN "refused" ELSE @]]
  /\ UNCHANGED <<copy, registry, source, reads, queue, serving>>

OpenTimeoutUnstopped(s) ==
  /\ session[s].state = "opening"
  /\ session' = [session EXCEPT ![s].state = "refused", ![s].slot = FALSE]
  /\ UNCHANGED <<remuxVars, reads, queue, serving>>

\* OPEN_TRACK_TIMEOUT: the stream is stopped, since the thread holds it too.
OpenTimeout(s) ==
  /\ session[s].state = "opening"
  /\ StopStreams({s})
  /\ session' = [session EXCEPT ![s].state = "refused", ![s].slot = FALSE]
  /\ UNCHANGED <<copy, registry, feed, source, reads, queue, serving>>

\* The client leaves and the request is dropped at the await it is in: its
\* thread reads on, and nobody is left to close the handle.
ClientLeaves(s) ==
  /\ session[s].state \in {"opening", "refused"} /\ session[s].handle = "held"
  /\ session' = [session EXCEPT ![s].state = "left", ![s].slot = FALSE]
  /\ UNCHANGED <<remuxVars, reads, queue, serving>>

\* A refused request, and the task behind `closed` of an answered one.
stream_close(s) ==
  /\ session[s].handle = "held"
  /\ session[s].state \in {"refused", "over"}
  /\ session' = [session EXCEPT ![s].handle = "closed"]
  /\ UNCHANGED <<remuxVars, reads, queue, serving>>

-----------------------------------------------------------------------------
(* The event loop.                                                         *)

WriteAlways(se, packet, ok) ==
  [se EXCEPT !.awaiting_key = FALSE,
     !.broken = @ \/ (ok /\ packet.needs # NoFrame /\ packet.needs # se.handed),
     !.handed = IF packet.ref THEN packet.n ELSE @]

\* A frame is written once the picture can start with it.  ~ok: the frame has no time, there
\* is no writer, or str0m refuses it; a session that awaited its keyframe awaits it still,
\* and one that did not writes on.
write(se, packet, ok) ==
  IF se.awaiting_key /\ ~(packet.key /\ ok) THEN se
  ELSE [se EXCEPT !.awaiting_key = FALSE,
          !.broken = @ \/ (ok /\ packet.needs # NoFrame /\ packet.needs # se.handed),
          !.handed = IF packet.ref THEN packet.n ELSE @]

\* The writes of `failing` fail.
Written(se, packets, failing) ==
  LET run[i \in 0 .. Len(packets)] ==
        IF i = 0 THEN se ELSE write(run[i - 1], packets[i], i \notin failing)
  IN run[Len(packets)]

\* The frames of `packets` that are written, which become datagrams.
Datagrams(se, s, packets, failing) ==
  LET goes == {i \in (1 .. Len(packets)) \ failing :
                 ~(Written(se, SubSeq(packets, 1, i - 1), failing).awaiting_key
                     /\ ~packets[i].key)}
  IN [i \in 1 .. Cardinality(goes) |-> s]

\* The socket sends what it can: a datagram goes at once while the queue is
\* empty and the send buffer takes it, and waits otherwise; past the limit it
\* is lost and the browser asks for it again.
Enqueue(q, datagrams) ==
  IF q = <<>> /\ datagrams = <<>> THEN {<<>>}
  ELSE LET bounded(l) == IF Len(l) > QUEUE THEN SubSeq(l, 1, QUEUE) ELSE l
       IN {bounded(q \o SubSeq(datagrams, i, Len(datagrams))) :
             i \in IF q = <<>> THEN 1 .. Len(datagrams) + 1 ELSE {1}}

skip_to_key(se) == [se EXCEPT !.awaiting_key = TRUE, !.picture = <<>>]

\* Once the oldest datagram has waited too long the queue is dropped, and
\* every session skips to its next keyframe: what its browser had is a gap.
fall_behind(se, q) ==
  [s \in Watched |->
     IF se[s].state # "live" THEN se[s]
     ELSE [skip_to_key(se[s]) EXCEPT !.handed = IF s \in Range(q) THEN NoFrame ELSE @]]

keep_up(se, q) ==
  \/ session' = se /\ queue' = q
  \/ q # <<>> /\ session' = fall_behind(se, q) /\ queue' = <<>>

\* The sessions of S end.
Ended(se, S) == [s \in Watched |-> IF s \in S THEN Over(se[s]) ELSE se[s]]

\* The thread of a live session still holds its stream.
Live(s) == session[s].state = "live"

\* A command opens the session, unless driving it fails.
CommandOpen(s) ==
  /\ serving /\ session[s].state = "opened"
  /\ \/ /\ keep_up([session EXCEPT ![s].state = "live", ![s].thread = "reads"], queue)
        /\ UNCHANGED <<reader, stream>>
     \/ /\ keep_up(Ended(session, {s}), queue)
        /\ StopStreams({s})
  /\ UNCHANGED <<copy, registry, feed, source, reads, serving>>

\* A request closes its session, or str0m fails, or the browser goes away, or
\* does not connect in time.
EndSession(s) ==
  /\ serving /\ Live(s)
  /\ keep_up(Ended(session, {s}), queue)
  /\ StopStreams({s})
  /\ UNCHANGED <<copy, registry, feed, source, reads, serving>>

\* The browser connects, and gets the picture held for it.
Connected(s) ==
  /\ serving /\ Live(s) /\ ~session[s].connected
  /\ \E failing \in SUBSET DOMAIN session[s].picture :
       LET se == session[s]
           after == [Written(se, se.picture, failing) EXCEPT !.connected = TRUE,
                                                             !.picture = <<>>]
       IN \E q \in Enqueue(queue, Datagrams(se, s, se.picture, failing)) :
            keep_up([session EXCEPT ![s] = after], q)
  /\ UNCHANGED <<remuxVars, reads, serving>>

\* The thread reads the stream into the channel, and ends with the stream.
SpawnedRead(s) ==
  /\ session[s].thread = "reads" /\ CanNext(s)
  /\ serving => Len(reads) < PACKET_BACKLOG
  /\ LET last == NextItem(s).type = "end"
     IN /\ reads' = IF serving THEN Append(reads, [s |-> s, item |-> NextItem(s)]) ELSE reads
        /\ session' = [session EXCEPT ![s].thread = IF last \/ ~serving THEN "none" ELSE @]
        /\ feed' = FeedAfterNext(s)
        /\ stream' = [stream EXCEPT ![s] = AfterNext(s)]
  /\ UNCHANGED <<copy, registry, reader, source, queue, serving>>

\* A track starts a new picture, and one of another codec ends the session.
FeedTrack(se, kind) == [se EXCEPT !.kind = kind, !.awaiting_key = TRUE, !.picture = <<>>]

FeedItem(se, s, item, ok) ==
  CASE item.type = "track" -> FeedTrack(se, item.kind)
    [] item.type = "packet" /\ Holds(s, item.packet) ->
         IF se.connected THEN write(se, item.packet, ok)
         ELSE [se EXCEPT !.picture = hold(@, item.packet)]
    [] OTHER -> se

\* The order is the stream's, whose thread may have read further.
Refuses(s, item) ==
  \/ item.type = "end"
  \/ item.type = "track" /\ item.kind # session[s].kind
  \/ item.type = "packet" /\ Holds(s, item.packet) /\ FrameOrder(stream[s].order) = "reordered"

Read(s) ==
  /\ serving /\ reads # <<>> /\ reads[1].s = s
  /\ reads' = Tail(reads)
  /\ LET item == reads[1].item
         se   == session[s]
         goes == se.connected /\ item.type = "packet" /\ Holds(s, item.packet)
     IN IF ~Live(s)
        THEN keep_up(session, queue) /\ UNCHANGED <<reader, stream>>
        ELSE IF Refuses(s, item)
        THEN keep_up(Ended(session, {s}), queue) /\ StopStreams({s})
        ELSE /\ \E failing \in SUBSET (IF goes THEN {1} ELSE {}) :
                  \E q \in Enqueue(queue, IF goes THEN Datagrams(se, s, <<item.packet>>, failing)
                                          ELSE <<>>) :
                    keep_up([session EXCEPT ![s] = FeedItem(se, s, item, failing = {})], q)
             /\ UNCHANGED <<reader, stream>>
  /\ UNCHANGED <<copy, registry, feed, source, serving>>

\* The socket takes some of what it holds back.
Flush ==
  /\ serving /\ queue # <<>>
  /\ \E i \in 1 .. Len(queue) : keep_up(session, SubSeq(queue, i + 1, Len(queue)))
  /\ UNCHANGED <<remuxVars, reads, serving>>

\* The socket fails and the loop ends with every session: those in its map
\* are closed and the one in its channel is dropped.
Fail ==
  /\ serving
  /\ serving' = FALSE /\ reads' = <<>> /\ queue' = <<>>
  /\ LET closed == {s \in Watched : session[s].state \in {"live", "opened"}}
     IN /\ session' = Ended(session, closed)
        /\ StopStreams(closed)
  /\ UNCHANGED <<copy, registry, feed, source>>

\* A session that opens when the loop has ended is dropped with its command.
OpenUnserved(s) ==
  /\ ~serving /\ session[s].state = "opened"
  /\ session' = Ended(session, {s})
  /\ StopStreams({s})
  /\ UNCHANGED <<copy, registry, feed, source, reads, queue, serving>>

-----------------------------------------------------------------------------
WebRtcInit ==
  /\ session = [s \in Watched |-> NewSession]
  /\ reads = <<>> /\ queue = <<>> /\ serving = TRUE

Init == RemuxInit /\ WebRtcInit

SourceStep ==
  /\ \E r \in Readers : ReaderStep(r) \/ Linger(r)
  /\ UNCHANGED webrtcVars
MuxStep ==
  /\ \E s \in Muxed : MuxedStep(s)
  /\ UNCHANGED webrtcVars
RequestStep(s) ==
  \/ Refuse(s) \/ OpenSession(s) \/ OpenTimeout(s) \/ ClientLeaves(s) \/ stream_close(s)
LoopStep(s) ==
  \/ CommandOpen(s) \/ EndSession(s) \/ Connected(s) \/ Read(s) \/ OpenUnserved(s)
ThreadStep(s) == first_picture(s) \/ SpawnedRead(s)

Next ==
  \/ SourceStep \/ MuxStep
  \/ \E s \in Watched : RequestStep(s) \/ LoopStep(s) \/ ThreadStep(s)
  \/ Flush \/ Fail

\* What runs by itself: the threads of readers and streams, timers, and the
\* turns of the event loop.  Sources, browsers and clients do what they like.
Progress ==
  \/ /\ \/ \E r \in Readers :
             Round(r) \/ EndLink(r) \/ Stopping(r) \/ Linger(r) \/ (should_stop(r) /\ LoseLink(r))
        \/ \E s \in Muxed : mux(s) \/ MuxEnd(s)
     /\ UNCHANGED webrtcVars
  \/ \E s \in Watched :
       \/ OpenTimeout(s) \/ ThreadStep(s) \/ stream_close(s)
       \/ CommandOpen(s) \/ OpenUnserved(s) \/ Read(s)

Spec == Init /\ [][Next]_vars /\ WF_vars(Progress)

-----------------------------------------------------------------------------
(* Properties.                                                             *)

\* A browser is only ever written frames whose reference frame was given to be
\* written before: behind a reconnect, a stretch the stream skipped, a picture let
\* go because it outgrew its bound, or a queue the socket dropped, nothing is
\* written before a keyframe (awaiting_key of session.rs, `waiting` of
\* reader.rs).  Not claimed is that the reference arrived: a write that fails
\* between keyframes is only logged, and the frames behind it are written
\* (session.rs:246).
PictureWhole == \A s \in Watched : ~session[s].broken

\* No stream waits for a reader that is gone: one that reads a closed reader
\* was sent its end or was dropped by it (try_close and close of reader.rs).
NoneStranded ==
  \A s \in Streams :
    stream[s].state = "open" /\ reader[stream[s].reader].closed
      => s \notin reader[stream[s].reader].subs

\* A request that is answered or refused gives everything back: its stream
\* stops, its thread ends, its slot is free and the host's handle is closed.
\* Left out is the client that leaves while its session opens.
Released ==
  \A s \in Watched :
    session[s].state \in {"refused", "over"}
      ~> (\/ session[s].state = "left"
          \/ /\ ~session[s].slot /\ session[s].handle = "closed" /\ session[s].thread = "none"
             /\ stream[s].state = "open" => stream[s].stopped)
=============================================================================
