------------------------------ MODULE Timeline ------------------------------
(***************************************************************************)
(* The timeline of one stream                                              *)
(* (rust/ceres-media/src/remux/timeline.rs), on which the packets of every *)
(* connection of its source are placed one behind the other.  A source     *)
(* restarts its clock with every connection, sends frames without times,   *)
(* and sends times that go back.                                           *)
(***************************************************************************)
EXTENDS Integers, FiniteSetsExt

CONSTANTS
  NoTime,    \* a time the source left out
  Times,     \* times a source may send
  Durations, \* durations it may send
  MaxPlaced  \* bound: packets placed

ASSUME TimelineAssumption ==
  /\ NoTime \notin Int
  /\ Times \subseteq Int \cup {NoTime} /\ Durations \subseteq Int /\ MaxPlaced \in Nat

VARIABLES line, placed

timelineVars == <<line, placed>>

NewLine == [end |-> 0, last |-> NoTime, shift |-> NoTime]
NotPlaced == [pts |-> NoTime, dts |-> NoTime, first |-> FALSE, before |-> 0]

\* Where the source's times put a packet: its presentation and decode times
\* and the shift from the source's clock to the timeline's.
Shifted(l, pts, dts, duration) ==
  LET source == IF dts # NoTime THEN dts ELSE pts
      shift  == IF l.shift = NoTime THEN l.end - source ELSE l.shift
  IN IF source # NoTime
     THEN [pts   |-> IF pts = NoTime THEN NoTime ELSE pts + shift,
           dts   |-> source + shift,
           shift |-> shift]
     ELSE [pts   |-> NoTime,
           dts   |-> IF l.shift # NoTime /\ l.last # NoTime
                     THEN l.last + Max({duration, 1}) ELSE l.end,
           shift |-> l.shift]

AnyDecodeTime(l, dts) == dts

\* The muxer rejects a decode time that does not increase.
Increasing(l, dts) == IF l.last # NoTime /\ dts <= l.last THEN l.last + 1 ELSE dts

TimelinePlace ==
  /\ placed.before < MaxPlaced
  /\ \E pts \in Times, dts \in Times, duration \in Durations :
       LET at  == Shifted(line, pts, dts, duration)
           d   == Increasing(line, at.dts)
           p   == IF at.pts = NoTime THEN d ELSE Max({at.pts, d})
       IN /\ line' = [end   |-> Max({line.end, p + Max({duration, 0}), d + 1}),
                      last  |-> d,
                      shift |-> at.shift]
          /\ placed' = [pts |-> p, dts |-> d, first |-> line.shift = NoTime,
                        before |-> placed.before + 1]

\* A new connection, whose first packet lands at the end.
TimelineReconnect ==
  /\ line.shift # NoTime
  /\ line' = [line EXCEPT !.shift = NoTime]
  /\ placed' = [placed EXCEPT !.first = FALSE]

TimelineInit == line = NewLine /\ placed = NotPlaced
TimelineNext == TimelinePlace \/ TimelineReconnect
TimelineSpec == TimelineInit /\ [][TimelineNext]_timelineVars

Placement == [end : Int, last : Int \cup {NoTime}, shift : Int \cup {NoTime}]

\* The timeline and the last packet are made of times, and the timeline ends behind the
\* last decode time.
Advanced ==
  /\ line \in Placement
  /\ placed.before \in Nat
  /\ line.last # NoTime => line.last < line.end

\* Whatever times the source sends, a packet is decoded after the one before
\* it and shown no earlier than it is decoded, and the first packet of a
\* connection is behind everything shown before it, so a reconnect never
\* rewinds the picture (place and reconnect of timeline.rs).
OneTimeline ==
  [][placed'.before > placed.before =>
       /\ line.last # NoTime => placed'.dts > line.last
       /\ placed'.pts >= placed'.dts
       /\ placed'.first => placed'.dts >= line.end
       /\ line'.end >= line.end /\ line'.end > placed'.dts]_timelineVars
=============================================================================
