------------------------------ MODULE Streams ------------------------------
(***************************************************************************)
(* What the native server opens on the engine's host and has to give back: *)
(* the WebSocket streams that `pump` forwards, and the response bodies     *)
(* that carry a `Release` guard.                                           *)
(*                                                                         *)
(* The two sides run concurrently.  The server (Rust, a tokio task per     *)
(* connection) awaits one host call at a time and may drop the future it   *)
(* awaits.  The host (Python, one event loop) starts the calls of a        *)
(* connection in the order they were scheduled; a dropped future leaves    *)
(* its coroutine running, and the answer goes nowhere.  The iterator a     *)
(* call advances refuses a second `anext` and an `aclose` while it is      *)
(* busy.                                                                   *)
(***************************************************************************)
EXTENDS Naturals, Sequences

CONSTANTS Conns,      \* the connections
          MaxYielded, \* bound: items an iterator yields
          MaxFrames   \* bound: frames, pings included, a socket's client sends

StreamKinds == {"socket", "chunks", "file"}

ASSUME StreamsAssumption ==
    /\ MaxYielded \in Nat
    /\ MaxFrames \in Nat

VARIABLES
    kind,       \* what each connection opens
    client,     \* whether the client is still connected
    frames,     \* how many frames it sent
    phase,      \* where the server's task for the connection is
    awaited,    \* the host call it awaits, 0 for none
    answer,     \* that call's answer once there is one
    calls,      \* host calls scheduled on the event loop and not yet started
    asked,      \* how many calls were made, which numbers them
    registered, \* whether the handle is in `_streams`, `_chunks` or `_releases`
    iterator,   \* the state of the connection's iterator
    pulling,    \* the call whose `anext` the iterator is busy with, 0 for none
    pulls,      \* `_pulls[handle]`, 0 for none
    closing,    \* where the host's `stream_close` of the handle is
    hook,       \* how often the output's exit hook ran
    yielded,    \* how many items the iterator yielded
    sent        \* the items the client was sent

serverVars == <<phase, awaited, answer, sent>>
hostVars == <<registered, iterator, pulling, pulls, closing, hook, yielded>>
streamVars == <<kind, client, frames, serverVars, calls, asked, hostVars>>

NoAnswer == [is |-> "none", item |-> 0]

Phases == {"request", "asked", "loop", "pull", "close", "closed", "refused",
           "abandoned"}

StreamsInit ==
    /\ kind \in [Conns -> StreamKinds]
    /\ client = [c \in Conns |-> "here"]
    /\ frames = [c \in Conns |-> 0]
    /\ phase = [c \in Conns |-> "request"]
    /\ awaited = [c \in Conns |-> 0]
    /\ answer = [c \in Conns |-> NoAnswer]
    /\ calls = [c \in Conns |-> <<>>]
    /\ asked = [c \in Conns |-> 0]
    /\ registered = [c \in Conns |-> FALSE]
    /\ iterator = [c \in Conns |-> "none"]
    /\ pulling = [c \in Conns |-> 0]
    /\ pulls = [c \in Conns |-> 0]
    /\ closing = [c \in Conns |-> "no"]
    /\ hook = [c \in Conns |-> 0]
    /\ yielded = [c \in Conns |-> 0]
    /\ sent = [c \in Conns |-> <<>>]

----------------------------------------------------------------------------
\* The envelopes that cross the boundary.

\* What a stream's envelope says: a close it reports, its end, a message, or the
\* payload of an `ok`, in that order.
into_stream_message(envelope) ==
    IF "close" \in envelope THEN "close"
    ELSE IF "end" \in envelope THEN "end"
    ELSE IF envelope \cap {"message", "ok"} # {} THEN "text" ELSE "end"

\* What an operation's envelope says: a typed refusal before everything, then a
\* described response or a live source, then the payload.
into_answer(envelope) ==
    IF "error" \in envelope THEN "refused"
    ELSE IF "response" \in envelope THEN "served"
    ELSE IF "live" \in envelope THEN "live" ELSE "payload"

\* Schedule a host method on the event loop and await its result.
call(c, method) ==
    /\ asked' = [asked EXCEPT ![c] = @ + 1]
    /\ calls' = [calls EXCEPT ![c] = Append(@, [method |-> method, id |-> asked[c] + 1])]
    /\ awaited' = [awaited EXCEPT ![c] = asked[c] + 1]
    /\ answer' = [answer EXCEPT ![c] = NoAnswer]

\* Complete call `id`: the answer reaches the server if the server still awaits it.
Complete(c, id, is, item) ==
    answer' = IF awaited[c] = id
              THEN [answer EXCEPT ![c] = [is |-> is, item |-> item]]
              ELSE answer

\* Drop the future the server holds; the coroutine behind it goes on.
Forget(c) ==
    /\ awaited' = [awaited EXCEPT ![c] = 0]
    /\ answer' = [answer EXCEPT ![c] = NoAnswer]

Begin(c, method) ==
    /\ calls[c] # <<>>
    /\ Head(calls[c]).method = method
    /\ calls' = [calls EXCEPT ![c] = Tail(@)]

----------------------------------------------------------------------------
\* The host, on its event loop.

\* `stream_open` registers an iterator, or reports why the socket has to close.
stream_open(c) ==
    /\ kind[c] = "socket"
    /\ Begin(c, "open")
    /\ \E envelope \in {{"ok"}, {"close"}} :
         LET opened == into_stream_message(envelope) = "text" IN
         /\ registered' = [registered EXCEPT ![c] = opened]
         /\ iterator' = [iterator EXCEPT ![c] = IF opened THEN "idle" ELSE @]
         /\ Complete(c, Head(calls[c]).id, IF opened THEN "handle" ELSE "refused", 0)
    /\ UNCHANGED <<kind, client, frames, phase, awaited, sent, asked, pulling, pulls, closing,
                   hook, yielded>>

\* `operate` runs a procedure whose output the server serves: a file by its path, a
\* stream entered here with its chunks registered.  Either way the output's exit
\* hook waits under the handle.  A refused operation registers nothing.
serve_output(c) ==
    /\ kind[c] # "socket"
    /\ Begin(c, "open")
    /\ \E envelope \in {{"response"}, {"error"}} :
         LET served == into_answer(envelope) = "served" IN
         /\ registered' = [registered EXCEPT ![c] = served]
         /\ iterator' = [iterator EXCEPT ![c] =
                             IF served /\ kind[c] = "chunks" THEN "idle" ELSE @]
         /\ Complete(c, Head(calls[c]).id, IF served THEN "handle" ELSE "refused", 0)
    /\ UNCHANGED <<kind, client, frames, phase, awaited, sent, asked, pulling, pulls, closing,
                   hook, yielded>>

\* `stream_next` and `next_chunk`: a handle nobody registered has ended; a busy
\* iterator refuses, and the refused pull takes the other one's entry out of
\* `_pulls` with its own; an exhausted one ends again; an idle one is advanced.
stream_next(c) ==
    LET id == Head(calls[c]).id IN
    /\ Begin(c, "next")
    /\ \/ /\ ~registered[c] \/ iterator[c] = "ended"
          /\ Complete(c, id, into_stream_message({"end"}), 0)
          /\ UNCHANGED <<iterator, pulling, pulls>>
       \/ /\ registered[c] /\ iterator[c] = "busy"
          /\ pulls' = [pulls EXCEPT ![c] = 0]
          /\ Complete(c, id, into_stream_message({"close"}), 0)
          /\ UNCHANGED <<iterator, pulling>>
       \/ /\ registered[c] /\ iterator[c] = "idle"
          /\ pulls' = [pulls EXCEPT ![c] = id]
          /\ pulling' = [pulling EXCEPT ![c] = id]
          /\ iterator' = [iterator EXCEPT ![c] = "busy"]
          /\ UNCHANGED answer
    /\ UNCHANGED <<kind, client, frames, phase, awaited, sent, asked, registered, closing, hook,
                   yielded>>

\* The iterator yields an item, ends or raises, which completes the pull it is busy
\* with.  A pull that `stream_close` cancelled does not get this far.
Advance(c) ==
    /\ iterator[c] = "busy" /\ closing[c] # "waiting"
    /\ pulling' = [pulling EXCEPT ![c] = 0]
    /\ pulls' = [pulls EXCEPT ![c] = 0]
    /\ \/ /\ yielded[c] < MaxYielded
          /\ yielded' = [yielded EXCEPT ![c] = @ + 1]
          /\ iterator' = [iterator EXCEPT ![c] = "idle"]
          /\ Complete(c, pulling[c], into_stream_message({"message"}), yielded[c] + 1)
       \/ /\ iterator' = [iterator EXCEPT ![c] = "ended"]
          /\ \E envelope \in {{"end"}, {"close"}} :
               Complete(c, pulling[c], into_stream_message(envelope), 0)
          /\ UNCHANGED yielded
    /\ UNCHANGED <<kind, client, frames, phase, awaited, sent, calls, asked, registered, closing,
                   hook>>

\* `stream_close` first cancels the pull under the handle and waits for it, for a
\* busy iterator refuses `aclose`.
stream_close(c) ==
    /\ Begin(c, "close")
    /\ pulls' = [pulls EXCEPT ![c] = 0]
    /\ closing' = [closing EXCEPT ![c] = IF pulls[c] # 0 THEN "waiting" ELSE "release"]
    /\ UNCHANGED <<kind, client, frames, serverVars, asked, registered, iterator, pulling, hook,
                   yielded>>

\* The cancelled pull ends, and its iterator with it.
Cancelled(c) ==
    /\ closing[c] = "waiting"
    /\ iterator' = [iterator EXCEPT ![c] = "ended"]
    /\ pulling' = [pulling EXCEPT ![c] = 0]
    /\ closing' = [closing EXCEPT ![c] = "release"]
    /\ UNCHANGED <<kind, client, frames, serverVars, calls, asked, registered, pulls, hook, yielded>>

\* Then it forgets the handle, closes the iterator unless that is busy, which is
\* swallowed, and runs the exit hook of an output.
release_handle(c) ==
    /\ closing[c] = "release"
    /\ closing' = [closing EXCEPT ![c] = "done"]
    /\ registered' = [registered EXCEPT ![c] = FALSE]
    /\ iterator' = [iterator EXCEPT ![c] = IF @ = "idle" THEN "ended" ELSE @]
    /\ hook' = [hook EXCEPT ![c] = IF registered[c] /\ kind[c] # "socket" THEN @ + 1 ELSE @]
    /\ UNCHANGED <<kind, client, frames, serverVars, calls, asked, pulling, pulls, yielded>>

----------------------------------------------------------------------------
\* The server's task for one connection.

\* The upgraded socket opens its stream; a request runs the operation that answers
\* it.
Ask(c) ==
    /\ phase[c] = "request"
    /\ phase' = [phase EXCEPT ![c] = "asked"]
    /\ call(c, "open")
    /\ UNCHANGED <<kind, client, frames, sent, hostVars>>

\* The handle opens the pump's loop, or the body that holds the release guard; a
\* refusal closes the socket or answers the error.
Opened(c) ==
    /\ phase[c] = "asked" /\ answer[c] # NoAnswer
    /\ phase' = [phase EXCEPT ![c] = IF answer[c].is = "handle" THEN "loop" ELSE "refused"]
    /\ Forget(c)
    /\ UNCHANGED <<kind, client, frames, calls, asked, sent, hostVars>>

\* Ask the host for the next message or chunk.  A file's bytes never cross.
next_chunk(c) ==
    /\ phase[c] = "loop" /\ kind[c] # "file"
    /\ phase' = [phase EXCEPT ![c] = "pull"]
    /\ call(c, "next")
    /\ UNCHANGED <<kind, client, frames, sent, hostVars>>

\* A pump that takes the first message for the acknowledgement, for comparison.
pump_skipping(c) ==
    /\ phase[c] = "pull" /\ answer[c] # NoAnswer
    /\ LET forwards == answer[c].is = "text" /\ client[c] = "here" IN
       /\ sent' = [sent EXCEPT ![c] = IF forwards /\ answer[c].item # 1
                                     THEN Append(@, answer[c].item) ELSE @]
       /\ phase' = [phase EXCEPT ![c] = IF forwards THEN "loop" ELSE "close"]
    /\ Forget(c)
    /\ UNCHANGED <<kind, client, frames, calls, asked, hostVars>>

\* Forward what arrived.  An end, a failure and a send to a client that is gone
\* leave the loop.
pump(c) ==
    /\ phase[c] = "pull" /\ answer[c] # NoAnswer
    /\ LET forwards == answer[c].is = "text" /\ client[c] = "here" IN
       /\ sent' = [sent EXCEPT ![c] = IF forwards THEN Append(@, answer[c].item) ELSE @]
       /\ phase' = [phase EXCEPT ![c] = IF forwards THEN "loop" ELSE "close"]
    /\ Forget(c)
    /\ UNCHANGED <<kind, client, frames, calls, asked, hostVars>>

\* A frame from a socket's client, a ping included, wins the select: the pending
\* `stream_next` is dropped and the loop starts over.
Frame(c) ==
    /\ kind[c] = "socket" /\ client[c] = "here"
    /\ phase[c] \in {"loop", "pull"}
    /\ frames[c] < MaxFrames
    /\ frames' = [frames EXCEPT ![c] = @ + 1]
    /\ phase' = [phase EXCEPT ![c] = "loop"]
    /\ Forget(c)
    /\ UNCHANGED <<kind, client, sent, calls, asked, hostVars>>

\* The last bytes of a file end its body.
file_body(c) ==
    /\ phase[c] = "loop" /\ kind[c] = "file"
    /\ phase' = [phase EXCEPT ![c] = "close"]
    /\ UNCHANGED <<kind, client, frames, awaited, answer, sent, calls, asked, hostVars>>

\* The server sees that the client left: the pump breaks out of its loop, a body is
\* dropped.  A request whose answer is still awaited is dropped with its future.
Notice(c) ==
    /\ client[c] = "left"
    /\ \/ /\ phase[c] \in {"loop", "pull"}
          /\ phase' = [phase EXCEPT ![c] = "close"]
       \/ /\ phase[c] = "asked" /\ kind[c] # "socket"
          /\ phase' = [phase EXCEPT ![c] = "abandoned"]
    /\ Forget(c)
    /\ UNCHANGED <<kind, client, frames, sent, calls, asked, hostVars>>

\* A body whose release does not ride along with it, for comparison.
ReleaseDropQuiet(c) ==
    /\ phase[c] = "close"
    /\ phase' = [phase EXCEPT ![c] = "closed"]
    /\ IF kind[c] = "socket" \/ client[c] = "here"
       THEN call(c, "close")
       ELSE UNCHANGED <<asked, calls, awaited, answer>>
    /\ UNCHANGED <<kind, client, frames, sent, hostVars>>

\* Whatever ended it, the handle is closed: by the pump after its loop, by the drop
\* of the body's release guard.
ReleaseDrop(c) ==
    /\ phase[c] = "close"
    /\ phase' = [phase EXCEPT ![c] = "closed"]
    /\ call(c, "close")
    /\ UNCHANGED <<kind, client, frames, sent, hostVars>>

LeaveClient(c) ==
    /\ client[c] = "here" /\ phase[c] # "request"
    /\ client' = [client EXCEPT ![c] = "left"]
    /\ UNCHANGED <<kind, frames, serverVars, calls, asked, hostVars>>

----------------------------------------------------------------------------
HostLoop(c) ==
    \/ stream_open(c) \/ serve_output(c) \/ stream_next(c) \/ stream_close(c)
    \/ Cancelled(c) \/ release_handle(c)

ServerTask(c) ==
    \/ Ask(c) \/ Opened(c) \/ next_chunk(c) \/ pump(c) \/ file_body(c) \/ Notice(c)
    \/ ReleaseDrop(c)

StreamsNext == \E c \in Conns : HostLoop(c) \/ ServerTask(c) \/ Advance(c) \/ Frame(c) \/ LeaveClient(c)

\* Both runtimes keep running; an iterator may stay silent and a client may stay.
StreamsFairness ==
    \A c \in Conns : WF_streamVars(HostLoop(c)) /\ WF_streamVars(ServerTask(c))

StreamsSpec == StreamsInit /\ [][StreamsNext]_streamVars /\ StreamsFairness

----------------------------------------------------------------------------
\* What the pump or the body has sent is what the iterator yielded, in order, and all of
\* it once it closes on a client that is still there: it has then seen the iterator's end.
SentAll(c) ==
    /\ \A i \in 1..Len(sent[c]) : sent[c][i] = i
    /\ phase[c] = "close" /\ client[c] = "here" /\ kind[c] # "file" =>
           iterator[c] = "ended" /\ Len(sent[c]) = yielded[c]

\* A stream is forwarded whole and in order until the client leaves or the stream ends,
\* as long as the client itself sends no frame (pump, next_chunk).
Forwarded == \A c \in Conns : frames[c] = 0 => SentAll(c)

\* The same whatever the client sends: the task "then pumps the engine's messages out as
\* text frames until the client leaves or the stream ends" (api/streams.rs).
ForwardedThroughFrames == \A c \in Conns : SentAll(c)

Quiet(c) ==
    /\ ~registered[c] /\ iterator[c] # "busy"
    /\ kind[c] # "socket" /\ phase[c] = "closed" => hook[c] = 1

\* A client that leaves, at whatever point of the exchange, has its stream or its
\* body given back: the handle is forgotten, no pull is left behind, and the exit
\* hook of an output has run.  Left out are a request dropped while its operation was
\* still running, whose handle nobody learns, and a client that sent frames: a pull they
\* make the server forget is not cancelled with the stream.
GivenBack ==
    \A c \in Conns :
        client[c] = "left" /\ frames[c] = 0 ~> (Quiet(c) \/ phase[c] = "abandoned")
=============================================================================
