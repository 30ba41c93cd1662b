------------------------------ MODULE Serving ------------------------------
(***************************************************************************)
(* The engine's HTTP server: the listeners one `Server` tasklet binds and  *)
(* serves (rust/ceres-core/src/server.rs, ceres/__internal__/server.py),   *)
(* the log sink and the media server they share, and the file that tells   *)
(* the command line where the control listener is.                         *)
(*                                                                         *)
(* The event loop's thread binds, cancels and forgets listeners.  What a   *)
(* listener serves lives on tokio threads: a cancelled `serve` is dropped  *)
(* there some time later, a connection lives until its client closes it,   *)
(* and both hold the application state with the media server in it.        *)
(***************************************************************************)
EXTENDS Naturals, FiniteSets

CONSTANTS
  Confs,      \* the `server` sections the engine is given: the listeners, and which
              \* `webrtc` section, 0 for none
  Clients,    \* bound: the listeners that clients connect to, one at a time
  MaxGen      \* bound: servers created

ASSUME ServingAssumption ==
  /\ Confs \subseteq [https : BOOLEAN, http : {"none", "serve", "redirect"}, rtc : Nat]
  /\ Clients \subseteq {"cli", "https", "http"}
  /\ MaxGen \in Nat

Slots == {"cli", "https", "http"}
Ids == (1..MaxGen) \X Slots

VARIABLES
  engine,   \* whether the engine runs, is leaving, or has left
  conf,     \* the section in force
  server,   \* the engine's `_server`
  gen,      \* how many servers were created
  native,   \* the `NativeServer`s
  sinks,    \* the log sink the native crates' records go to, and how many hold it
  webrtc,   \* the server whose media server `WEBRTC` points at, 0 for none
  info      \* the server whose control listener the info file names, 0 for no file, and
            \* whether it is left from a write or a delete that failed

servingVars == <<engine, conf, server, gen, native, sinks, webrtc, info>>

NoServer == [gen |-> 0, phase |-> "none"]
NoInfo == [of |-> 0, left |-> FALSE]

\* `object` is the Python object's life and `socket` the listener's; `conn` is the
\* state of a connection it accepted.
NoNative == [object |-> "none", holds |-> FALSE, socket |-> "none", rtc |-> 0,
             conn |-> "none", graced |-> FALSE]

Mine == {id \in Ids : id[1] = server.gen}

----------------------------------------------------------------------------
\* The log sink.

hold_log_sink == sinks' = [sink |-> server.gen, holders |-> sinks.holders + 1]

\* `n` holders let go.
release_log_sink(n) ==
  LET left == IF sinks.holders > n THEN sinks.holders - n ELSE 0 IN
  sinks' = [sink |-> IF left = 0 THEN 0 ELSE sinks.sink, holders |-> left]

\* Listeners let go of the sink, each once however often it is asked to.
release_log(ids) == release_log_sink(Cardinality({id \in ids : native[id].holds}))

----------------------------------------------------------------------------
\* The media server.

HasState(n) == n.socket \in {"bound", "serving", "dropping"} \/ n.conn # "none"

\* Whether something still holds media server `g`.
Alive(g) == \E id \in Ids : native[id].rtc = g /\ HasState(native[id])

shared_webrtc_fresh == IF server.conf.rtc = 0 THEN 0 ELSE server.gen

\* The media server a listener gets: none, the one that is still held, or a new one.
shared_webrtc ==
  IF server.conf.rtc = 0 THEN 0
  ELSE IF webrtc # 0 /\ Alive(webrtc) THEN webrtc
  ELSE server.gen

----------------------------------------------------------------------------
\* Binding.  `__run__` binds one listener after the other without a break for the event
\* loop, though not for the tokio threads.

\* A fixed port is taken as long as an earlier listener's socket is open.
Taken(slot) ==
  slot # "cli" /\ \E g \in 1..(server.gen - 1) :
                    native[<<g, slot>>].socket \in {"bound", "serving", "dropping"}

\* What `__run__` binds after `slot`.
Following(slot) ==
  CASE slot = "cli" /\ server.conf.https -> "https"
    [] slot \in {"cli", "https"} /\ ~(slot = "cli" /\ server.conf.https)
         /\ server.conf.http # "none" -> "http"
    [] OTHER -> "info"

Bound(slot, holds, rtc) ==
  /\ native' = [native EXCEPT ![<<server.gen, slot>>] =
                  [NoNative EXCEPT !.object = "held", !.holds = holds, !.socket = "bound",
                                   !.rtc = rtc]]
  /\ server' = [server EXCEPT !.phase = Following(slot)]

\* An exception leaves `__run__` with what it bound so far still on the server.
Raise == server' = [server EXCEPT !.phase = "raised"]

\* The control listener takes any loopback port and holds neither sink nor media.
cli ==
  /\ server.phase = "cli"
  /\ Bound("cli", FALSE, 0)
  /\ UNCHANGED <<engine, conf, gen, sinks, webrtc, info>>

\* A web listener holds the sink before anything can fail and lets go when it does:
\* the media port, the certificate or the port refuse.
web(slot) ==
  \/ /\ ~Taken(slot)
     /\ hold_log_sink
     /\ webrtc' = IF shared_webrtc = 0 THEN webrtc ELSE shared_webrtc
     /\ Bound(slot, TRUE, shared_webrtc)
  \/ /\ sinks' = [sink |-> IF sinks.holders = 0 THEN 0 ELSE server.gen,
                  holders |-> sinks.holders]
     /\ Raise
     /\ UNCHANGED <<native, webrtc>>

\* The redirecting listener answers for itself.
redirect ==
  \/ /\ ~Taken("http")
     /\ Bound("http", FALSE, 0)
  \/ Raise /\ UNCHANGED native

web_holding ==
  /\ server.phase \in {"https", "http"}
  /\ IF server.phase = "http" /\ server.conf.http = "redirect"
     THEN redirect /\ UNCHANGED <<sinks, webrtc>>
     ELSE web(server.phase)
  /\ UNCHANGED <<engine, conf, gen, info>>

\* The info file is written once everything is bound, and everything serves.  A write that
\* fails, which may leave a file behind, does so outside the `try`.
serve_all ==
  /\ server.phase = "info"
  /\ \/ /\ info' = [of |-> server.gen, left |-> FALSE]
        /\ native' = [id \in Ids |-> IF id \in Mine /\ native[id].object = "held"
                                     THEN [native[id] EXCEPT !.socket = "serving"]
                                     ELSE native[id]]
        /\ server' = [server EXCEPT !.phase = "serving"]
     \/ /\ info' \in {info, [of |-> server.gen, left |-> TRUE]}
        /\ Raise
        /\ UNCHANGED native
  /\ UNCHANGED <<engine, conf, gen, sinks, webrtc>>

\* After an exception `__stop__` stops what is still on the server: the listeners let
\* go of the sink and are told to wind down; they stay bound, for nothing serves them.
stop_listeners ==
  /\ server.phase = "raised"
  /\ release_log(Mine)
  /\ native' = [id \in Ids |->
                  IF id \in Mine /\ native[id].object = "held"
                  THEN [native[id] EXCEPT !.holds = FALSE, !.graced = TRUE] ELSE native[id]]
  /\ server' = [server EXCEPT !.phase = "failed"]
  /\ UNCHANGED <<engine, conf, gen, webrtc, info>>

----------------------------------------------------------------------------
\* Stopping.

\* Stopping the tasklet cancels `__run__` first, and with it every `serve`.  A listener
\* that fails does the same to the others, and leaves its exception behind.
Cancel_cli ==
  /\ server.phase = "serving"
  /\ native' = [native EXCEPT ![<<server.gen, "cli">>].socket = "dropping"]
  /\ \E outcome \in {"cancelled", "broken"} :
       /\ outcome = "cancelled" => engine # "up"
       /\ server' = [server EXCEPT !.phase = outcome]
  /\ UNCHANGED <<engine, conf, gen, sinks, webrtc, info>>

Cancel ==
  /\ server.phase = "serving"
  /\ native' = [id \in Ids |-> IF id \in Mine /\ native[id].socket = "serving"
                               THEN [native[id] EXCEPT !.socket = "dropping"] ELSE native[id]]
  /\ \E outcome \in {"cancelled", "broken"} :
       /\ outcome = "cancelled" => engine # "up"
       /\ server' = [server EXCEPT !.phase = outcome]
  /\ UNCHANGED <<engine, conf, gen, sinks, webrtc, info>>

\* `__run__`'s `finally`: the listeners are forgotten and the info file is deleted, unless
\* that fails, which is only printed.  `__stop__` runs after it and finds no listener left
\* to stop.
Finally ==
  /\ server.phase \in {"cancelled", "broken"}
  /\ native' = [id \in Ids |-> IF id \in Mine /\ native[id].object = "held"
                               THEN [native[id] EXCEPT !.object = "garbage"] ELSE native[id]]
  /\ info' \in {NoInfo, [info EXCEPT !.left = TRUE]}
  /\ server' = [server EXCEPT !.phase = IF @ = "broken" THEN "failed" ELSE "stopped"]
  /\ UNCHANGED <<engine, conf, gen, sinks, webrtc>>

\* The engine forgets a server that stopped or failed.  A failed one is in a cycle with
\* its exception's traceback, so its listeners wait for the collector.
_stop_server ==
  /\ engine # "up"
  /\ server.phase \in {"stopped", "failed"}
  /\ server' = NoServer
  /\ native' = [id \in Ids |-> IF id \in Mine /\ native[id].object = "held"
                               THEN [native[id] EXCEPT !.object = "garbage"] ELSE native[id]]
  /\ UNCHANGED <<engine, conf, gen, sinks, webrtc, info>>

----------------------------------------------------------------------------
\* The engine.

\* A configuration is applied: the server is restarted when there is none or its section
\* changed, also when it failed, and left alone otherwise.
_apply(c) ==
  /\ engine = "up"
  /\ gen < MaxGen
  /\ server.phase \in {"none", "serving", "failed"}
  /\ server.phase # "none" => server.conf # c
  /\ conf' = c
  /\ engine' = "applying"
  /\ UNCHANGED <<server, gen, native, sinks, webrtc, info>>

_start_server ==
  /\ engine = "applying"
  /\ server = NoServer
  /\ gen' = gen + 1
  /\ server' = [gen |-> gen + 1, phase |-> "cli", conf |-> conf]
  /\ engine' = "up"
  /\ UNCHANGED <<conf, native, sinks, webrtc, info>>

Leave ==
  /\ engine = "up"
  /\ server.phase \in {"none", "serving", "failed"}
  /\ engine' = "leaving"
  /\ UNCHANGED <<conf, server, gen, native, sinks, webrtc, info>>

----------------------------------------------------------------------------
\* Elsewhere.

\* The last reference to a listener goes: it lets go of the sink, and of its socket when
\* nothing ever served it.
NativeServerDrop(id) ==
  /\ native[id].object = "garbage"
  /\ release_log({id})
  /\ native' = [native EXCEPT ![id].object = "freed", ![id].holds = FALSE,
                              ![id].socket = IF @ = "bound" THEN "closed" ELSE @]
  /\ UNCHANGED <<engine, conf, server, gen, webrtc, info>>

\* A tokio thread drops a cancelled `serve`, and its socket with it.
Dropped(id) ==
  /\ native[id].socket = "dropping"
  /\ native' = [native EXCEPT ![id].socket = "closed"]
  /\ UNCHANGED <<engine, conf, server, gen, sinks, webrtc, info>>

\* A client connects, is answered, and closes its connection.
Connection(id) ==
  /\ id[2] \in Clients
  /\ \/ native[id].conn = "none" /\ native[id].socket = "serving"
        /\ native' = [native EXCEPT ![id].conn = "busy"]
     \/ native[id].conn = "busy" /\ native' = [native EXCEPT ![id].conn = "idle"]
     \/ native[id].conn = "idle" /\ native' = [native EXCEPT ![id].conn = "none"]
  /\ UNCHANGED <<engine, conf, server, gen, sinks, webrtc, info>>

ServingInit ==
  /\ engine = "up"
  /\ conf \in Confs
  /\ server = NoServer
  /\ gen = 0
  /\ native = [id \in Ids |-> NoNative]
  /\ sinks = [sink |-> 0, holders |-> 0]
  /\ webrtc = 0
  /\ info = NoInfo

\* What the event loop does by itself.
Loop == cli \/ web_holding \/ serve_all \/ stop_listeners \/ Finally \/ _stop_server \/ _start_server

ServingNext ==
  \/ Loop \/ Cancel \/ Leave
  \/ \E c \in Confs : _apply(c)
  \/ \E id \in Ids : NativeServerDrop(id) \/ Dropped(id) \/ Connection(id)

\* The event loop and the runtime's threads keep running, and a stop that was asked for
\* cancels.  A client may keep its connection, and the collector may wait.
ServingFairness ==
  /\ WF_servingVars(Loop)
  /\ WF_servingVars(engine # "up" /\ Cancel)
  /\ \A id \in Ids : WF_servingVars(Dropped(id))

ServingSpec == ServingInit /\ [][ServingNext]_servingVars /\ ServingFairness

----------------------------------------------------------------------------
\* There is one media server at a time, across restarts too: whatever listener or
\* connection holds one holds the same (shared_webrtc).  It is not the case that "a
\* restarted engine binds afresh" (server.rs:450): a connection that outlives its listener
\* keeps the media server, with the section it was bound for, and the next server's
\* listeners get that one.
OneMediaServer ==
  \A i, j \in Ids :
    /\ native[i].rtc # 0 /\ HasState(native[i])
    /\ native[j].rtc # 0 /\ HasState(native[j])
    => native[i].rtc = native[j].rtc

\* An engine that leaves, or applies another section, is rid of the server it had: nothing
\* of it serves any more, nothing but the collector holds what it bound and could not
\* serve, and its info file is gone unless writing or deleting it failed (_stop_server).
StopsListening ==
  \A g \in 1..MaxGen :
    engine # "up" /\ server.gen = g ~>
      /\ server.gen # g
      /\ info.of = g => info.left
      /\ \A slot \in Slots : /\ native[<<g, slot>>].socket \notin {"serving", "dropping"}
                             /\ native[<<g, slot>>].object # "held"
=============================================================================
