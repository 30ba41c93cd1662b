----------------------------- MODULE RtspServer -----------------------------
(***************************************************************************)
(* The test RTSP server (rust/ceres-media/src/server): a thread that       *)
(* accepts, one thread per session, one player thread per session that     *)
(* plays, and a mutex per connection around its writing half.  A write to  *)
(* a client that stopped reading holds that mutex until the socket is      *)
(* closed.  Dropping the server waits for all of the threads.              *)
(***************************************************************************)
EXTENDS Naturals, FiniteSets

CONSTANTS
  MaxPeers,      \* bound: the connections clients open over time
  MaxSessions,   \* max_sessions
  MaxRefused     \* bound: the connections `refuse` closes

ASSUME RtspAssumption == MaxPeers \in Nat /\ MaxSessions \in Nat /\ MaxRefused \in Nat

Peers == 1..MaxPeers   \* connections, in the order in which they are opened

VARIABLES
  acceptor,   \* where the accepting thread is, with the options it uses up
  quit,       \* Shared::stop, set when the server is dropped
  listed,     \* Shared::live, the sessions close_sessions reaches
  socket,     \* each connection as the server has it
  peer,       \* each client: reads, is stuck (reads no more), or is away
  thread,     \* where each thread's thread is
  player,     \* where each thread's player is
  writer      \* who holds the mutex of each connection's writing half

threadVars == <<thread, player, writer>>
rtspVars == <<acceptor, quit, listed, socket, peer, threadVars>>

\* What a client asks for: a stream to play, the end of the session, or one of the
\* methods that are answered and change nothing (a stream that is not found, a transport
\* that is not offered and an unknown method among them).
Methods == {"PLAY", "TEARDOWN", "other"}

RtspInit ==
  /\ acceptor \in [at : {"check"}, refuse : 0..MaxRefused, restart : {TRUE}]
  /\ quit = FALSE /\ listed = {}
  /\ socket = [p \in Peers |-> "none"]
  /\ peer = [p \in Peers |-> "away"]
  /\ thread = [p \in Peers |-> "none"]
  /\ player = [p \in Peers |-> "none"]
  /\ writer = [p \in Peers |-> "free"]

----------------------------------------------------------------------------
\* The accepting thread.

\* Every listed connection is shut down, past the mutex of its writing half.
close_sessions(also) ==
  /\ socket' = [p \in Peers |-> IF p \in listed \cup also THEN "shut" ELSE socket[p]]
  /\ listed' = {}

Backlog == { p \in Peers : socket[p] = "queued" }

\* The head of the loop: it ends when the server stops.
CheckStop ==
  /\ acceptor.at = "check"
  /\ acceptor' = [acceptor EXCEPT !.at = IF quit THEN "closing" ELSE "poll"]
  /\ UNCHANGED <<quit, listed, socket, peer, threadVars>>

\* The one restart: the listener goes with the connections in its backlog, and then
\* every session.
Restart ==
  /\ acceptor.at = "poll" /\ acceptor.restart
  /\ acceptor' = [acceptor EXCEPT !.at = "down", !.restart = FALSE]
  /\ close_sessions(Backlog)
  /\ UNCHANGED <<quit, peer, threadVars>>

\* The downtime is over or cut short, and the address is bound again, unless the server
\* stops first.
Rebind ==
  /\ acceptor.at = "down"
  /\ \/ acceptor' = [acceptor EXCEPT !.at = "check"]
     \/ quit /\ acceptor' = [acceptor EXCEPT !.at = "closing"]
  /\ UNCHANGED <<quit, listed, socket, peer, threadVars>>

\* A connection is closed because `refuse` says so or because too many are open.
Turned(p) ==
  /\ acceptor.refuse > 0 \/ Cardinality(listed) >= MaxSessions
  /\ acceptor' = [acceptor EXCEPT !.at = "check", !.refuse = IF @ > 0 THEN @ - 1 ELSE @]
  /\ socket' = [socket EXCEPT ![p] = "shut"]
  /\ UNCHANGED <<listed, thread>>

\* A connection is listed and given a thread, which ends at once when it cannot clone the
\* connection.  When there is no thread to be had the connection stays listed and open.
Spawned(p) ==
  /\ acceptor.refuse = 0 /\ Cardinality(listed) < MaxSessions
  /\ acceptor' = [acceptor EXCEPT !.at = "check"]
  /\ socket' = [socket EXCEPT ![p] = "open"]
  /\ listed' = listed \cup {p}
  /\ \E at \in {"none", "reading", "joining"} : thread' = [thread EXCEPT ![p] = at]

Accept(p) ==
  /\ acceptor.at = "poll" /\ p \in Backlog /\ \A q \in Backlog : p <= q
  /\ Turned(p) \/ Spawned(p)
  /\ UNCHANGED <<quit, peer, player, writer>>

\* Nothing to accept.
Idle ==
  /\ acceptor.at = "poll" /\ Backlog = {}
  /\ acceptor' = [acceptor EXCEPT !.at = "check"]
  /\ UNCHANGED <<quit, listed, socket, peer, threadVars>>

\* As if a thread's connection were shut down through the mutex of its writing half.
ClosingPolitely ==
  /\ acceptor.at = "closing" /\ \A p \in listed : writer[p] = "free"
  /\ acceptor' = [acceptor EXCEPT !.at = "joining"]
  /\ close_sessions({})
  /\ UNCHANGED <<quit, peer, threadVars>>

Closing ==
  /\ acceptor.at = "closing"
  /\ acceptor' = [acceptor EXCEPT !.at = "joining"]
  /\ close_sessions({})
  /\ UNCHANGED <<quit, peer, threadVars>>

\* The last session that was spawned is joined, and the listener closed with its backlog.
Joined ==
  /\ acceptor.at = "joining" /\ \A p \in Peers : thread[p] \in {"none", "gone"}
  /\ acceptor' = [acceptor EXCEPT !.at = "ended"]
  /\ socket' = [p \in Peers |-> IF p \in Backlog THEN "shut" ELSE socket[p]]
  /\ UNCHANGED <<quit, listed, peer, threadVars>>

Acceptor ==
  CheckStop \/ Restart \/ Rebind \/ Idle \/ Closing \/ Joined \/ \E p \in Peers : Accept(p)

----------------------------------------------------------------------------
\* Writing to a connection, with the mutex of its writing half held from before the write
\* to after it.

\* A write goes through to a client that reads, and may still do to one that has left; it
\* fails on a closed connection; otherwise it blocks.
Goes(p) == socket[p] = "open" /\ peer[p] \in {"reads", "away"}
Fails(p) == socket[p] = "shut" \/ peer[p] = "away"

Lock(p, who) == writer[p] = "free" /\ writer' = [writer EXCEPT ![p] = who]
Unlock(p) == writer' = [writer EXCEPT ![p] = "free"]

----------------------------------------------------------------------------
\* A thread's thread.

\* read_request: a client that is there sends a request, or closes its own half and will
\* send none.
Request(p) ==
  /\ thread[p] = "reading" /\ socket[p] = "open" /\ peer[p] # "away"
  /\ \E m \in Methods \cup {"dropping"} : thread' = [thread EXCEPT ![p] = m]
  /\ UNCHANGED <<acceptor, quit, listed, socket, peer, player, writer>>

\* Nothing more is to be read.
EndOfRequests(p) ==
  /\ thread[p] = "reading"
  /\ socket[p] = "shut" \/ peer[p] = "away"
  /\ thread' = [thread EXCEPT ![p] = "dropping"]
  /\ UNCHANGED <<acceptor, quit, listed, socket, peer, player, writer>>

\* The mutex is taken to answer.
BeginRespond(p) ==
  /\ thread[p] \in Methods /\ Lock(p, "session")
  /\ UNCHANGED <<acceptor, quit, listed, socket, peer, thread, player>>

\* The answer is written: the first PLAY starts the player, TEARDOWN ends the session, and
\* so does an answer that cannot be written or a player that cannot be started.
Respond(p) ==
  LET first == thread[p] = "PLAY" /\ player[p] = "none" IN
  /\ thread[p] \in Methods /\ writer[p] = "session"
  /\ \/ /\ Goes(p) /\ thread[p] # "TEARDOWN"
        /\ thread' = [thread EXCEPT ![p] = "reading"]
        /\ player' = IF first THEN [player EXCEPT ![p] = "running"] ELSE player
     \/ /\ Fails(p) \/ (Goes(p) /\ (first \/ thread[p] = "TEARDOWN"))
        /\ thread' = [thread EXCEPT ![p] = "dropping"]
        /\ UNCHANGED player
  /\ Unlock(p)
  /\ UNCHANGED <<acceptor, quit, listed, socket, peer>>

\* Session::drop: the connection is closed under the mutex, and the player told to stop.
DropSession(p) ==
  /\ thread[p] = "dropping" /\ writer[p] = "free"
  /\ socket' = [socket EXCEPT ![p] = "shut"]
  /\ thread' = [thread EXCEPT ![p] = "joining"]
  /\ UNCHANGED <<acceptor, quit, listed, peer, player, writer>>

\* Player::stop is set while its session waits for it.
Halted(p) == thread[p] = "joining"

\* The player is joined, and the session forgotten, with which the last handle of the
\* connection goes.
ForgetSession(p) ==
  /\ thread[p] = "joining" /\ player[p] \in {"none", "gone"}
  /\ thread' = [thread EXCEPT ![p] = "gone"]
  /\ listed' = listed \ {p}
  /\ socket' = [socket EXCEPT ![p] = "shut"]
  /\ UNCHANGED <<acceptor, quit, peer, player, writer>>

SessionThread(p) ==
  EndOfRequests(p) \/ BeginRespond(p) \/ Respond(p) \/ DropSession(p) \/ ForgetSession(p)

----------------------------------------------------------------------------
\* A thread's player.

\* The head of the loop: it ends when told to or when its clip cannot be read, closes the
\* connection or falls silent when that fault is due, and has a packet to send otherwise.
Stream(p) ==
  /\ player[p] = "running"
  /\ \E next \in IF Halted(p) THEN {"gone"} ELSE {"sending", "cutting", "stalled", "gone"} :
       player' = [player EXCEPT ![p] = next]
  /\ UNCHANGED <<acceptor, quit, listed, socket, peer, thread, writer>>

BeginInterleave(p) ==
  /\ player[p] = "sending" /\ Lock(p, "player")
  /\ UNCHANGED <<acceptor, quit, listed, socket, peer, thread, player>>

interleave(p) ==
  /\ player[p] = "sending" /\ writer[p] = "player"
  /\ \/ Goes(p) /\ player' = [player EXCEPT ![p] = "running"]
     \/ Fails(p) /\ player' = [player EXCEPT ![p] = "gone"]
  /\ Unlock(p)
  /\ UNCHANGED <<acceptor, quit, listed, socket, peer, thread>>

\* drop_after: the connection is closed under the mutex, which ends the session.
Cut(p) ==
  /\ player[p] = "cutting" /\ writer[p] = "free"
  /\ socket' = [socket EXCEPT ![p] = "shut"]
  /\ player' = [player EXCEPT ![p] = "gone"]
  /\ UNCHANGED <<acceptor, quit, listed, peer, thread, writer>>

\* stall_after: nothing more is sent until the player is told to stop.
Stalled(p) ==
  /\ player[p] = "stalled" /\ Halted(p)
  /\ player' = [player EXCEPT ![p] = "gone"]
  /\ UNCHANGED <<acceptor, quit, listed, socket, peer, thread, writer>>

PlayerThread(p) == Stream(p) \/ BeginInterleave(p) \/ interleave(p) \/ Cut(p) \/ Stalled(p)

----------------------------------------------------------------------------
\* Clients, and the owner of the server.

\* The listener takes connections while it is bound, whatever the accepting thread does.
Arrive(p) ==
  /\ socket[p] = "none" /\ \A q \in 1..(p - 1) : socket[q] # "none"
  /\ acceptor.at \notin {"down", "ended"}
  /\ socket' = [socket EXCEPT ![p] = "queued"]
  /\ peer' = [peer EXCEPT ![p] = "reads"]
  /\ UNCHANGED <<acceptor, quit, listed, threadVars>>

\* A client stops reading or leaves.  (After the server closed the connection nothing
\* depends on what it does.)
Behave(p) ==
  /\ socket[p] # "shut"
  /\ \/ peer[p] = "reads" /\ peer' = [peer EXCEPT ![p] = "stuck"]
     \/ peer[p] # "away" /\ peer' = [peer EXCEPT ![p] = "away"]
  /\ UNCHANGED <<acceptor, quit, listed, socket, threadVars>>

\* The server is dropped.
Quit ==
  /\ ~quit /\ quit' = TRUE
  /\ UNCHANGED <<acceptor, listed, socket, peer, threadVars>>

RtspNext ==
  \/ Acceptor \/ Quit
  \/ \E p \in Peers : Request(p) \/ SessionThread(p) \/ PlayerThread(p) \/ Arrive(p) \/ Behave(p)

----------------------------------------------------------------------------
\* Dropping the server always ends (RtspServer::drop joins the accepting thread), and every
\* session and every player has ended by then, although clients may have stopped reading
\* with the mutex of the writing half held, may never leave, and may be accepted while the
\* server stops.
QuitsWhole ==
  quit ~> /\ acceptor.at = "ended" /\ listed = {}
          /\ \A p \in Peers : thread[p] \in {"none", "gone"} /\ player[p] \in {"none", "gone"}
=============================================================================
