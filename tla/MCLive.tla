------------------------------- MODULE MCLive -------------------------------
(***************************************************************************)
(* An instance of WebRtc, of Timeline and of RtspServer.  What the source  *)
(* does is bounded by what it did before the first stream: a behaviour is  *)
(* of one session over two connections, of two muxed streams over two      *)
(* connections, of a session that joins a source another stream reads, of  *)
(* one timeline, or of the test server with two clients.                   *)
(***************************************************************************)
EXTENDS WebRtc, Timeline, RtspServer

CONSTANTS m1, m2, w1

VARIABLE part   \* what a behaviour is about

MCKinds == <<{"a"}, {"a", "b"}>>

Start(streams, copied, frames, links, failed) ==
  [streams |-> streams, copy |-> copied, frames |-> frames, links |-> links, lost |-> failed]

MCStarts ==
  { Start({w1}, TRUE, 0, 0, 1), Start({w1}, FALSE, 2, 0, 1),
    Start({m1, m2}, TRUE, 3, 0, 0), Start({m1, m2}, FALSE, 3, 0, 1),
    Start({m1, w1}, TRUE, 2, 1, 2), Start({}, TRUE, 0, 0, 0) }

MCTimes == {NoTime, 0, 3}

\* The part of a behaviour in which there is no stream.
Streamless == \A s \in Streams : stream[s].state = "unused"

\* Either the timeline moves or the test server does.
MCInit ==
  /\ Init /\ TimelineInit /\ RtspInit
  /\ part \in {"live", "rtsp"} /\ (part = "rtsp" => Streamless)
  /\ part # "rtsp" => acceptor.refuse = 0

MCNext ==
  /\ part' = part
  /\ \/ part = "live" /\ Next /\ UNCHANGED <<timelineVars, rtspVars>>
     \/ part = "live" /\ Streamless /\ TimelineNext /\ UNCHANGED <<vars, rtspVars>>
     \/ part = "rtsp" /\ RtspNext /\ UNCHANGED <<vars, timelineVars>>

MCSpec ==
  /\ MCInit /\ [][MCNext]_<<part, vars, timelineVars, rtspVars>>
  /\ WF_vars(part = "live" /\ Progress)
  /\ WF_rtspVars(part = "rtsp" /\ Acceptor)
  /\ \A p \in Peers : /\ WF_rtspVars(part = "rtsp" /\ SessionThread(p))
                      /\ WF_rtspVars(part = "rtsp" /\ PlayerThread(p))
=============================================================================
