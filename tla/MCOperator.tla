----------------------------- MODULE MCOperator -----------------------------
(***************************************************************************)
(* An instance of what surrounds the engine: the streams the server opens  *)
(* on its host, the listeners and what they share, the configuration file, *)
(* the service and the watching parent.  A behaviour is of one of them:    *)
(* the others are in a state in which they have nothing to do.             *)
(***************************************************************************)
EXTENDS Streams, Serving, Config, Service, Watch

VARIABLE part   \* what a behaviour is about

MCConfs == { [https |-> TRUE, http |-> "serve", rtc |-> 1],
             [https |-> TRUE, http |-> "redirect", rtc |-> 2],
             [https |-> FALSE, http |-> "none", rtc |-> 0] }

\* What the configuration file may say.
NoSettings == [bind |-> None, https |-> None, http |-> None, authentication |-> None,
               cors |-> None, compression |-> None, webrtc |-> None, files |-> None]

Cert(path, key, password, switch) ==
  Some([is |-> "settings",
        raw |-> [path |-> path, key |-> key, key_password |-> password, auto |-> switch]])
AutoSettings(days, dns, ca) ==
  Some([is |-> "settings", raw |-> [days |-> days, dns |-> dns, ca |-> ca]])
Switched(to) == Some([is |-> to])

Certs ==
  { None, Switched("auto"),
    Cert(Some("dotted"), Some("other"), None, None),
    Cert(None, Some("dotted"), None, None),
    Cert(Some("absolute"), Some("other"), None, None),
    Cert(Some("around"), Some("other"), None, Switched("on")),
    Cert(Some("absolute"), Some("absolute"), None, None),
    Cert(Some("absolute"), Some("above"), None, None),
    Cert(None, Some("server.crt"), None, Switched("off")),
    Cert(Some("climbing"), Some("looping"), None, Switched("on")),
    Cert(None, None, Some("pw"), Switched("on")),
    Cert(None, None, None, AutoSettings(Some(826), None, None)),
    Cert(None, None, None, AutoSettings(Some(825), Some("invalid"), None)),
    Cert(None, None, None, AutoSettings(Some(0), None, None)),
    Cert(None, None, None, AutoSettings(None, None, Some([path |-> Some("dotted"), key |-> None]))),
    Cert(None, Some("other"), None,
         AutoSettings(None, None, Some([path |-> None, key |-> Some("other")]))) }

Secure == {None} \cup { Some([port |-> p, certificate |-> c]) :
                        p \in {None, Some(0), Some(80)}, c \in Certs }
Insecure == {None} \cup { Some([port |-> p, redirect |-> r]) :
                          p \in {None, Some(0), Some(443)}, r \in {None, Some(TRUE)} }

Servers ==
  { [NoSettings EXCEPT !.https = s, !.http = h] : s \in Secure, h \in Insecure }
  \cup
  { [NoSettings EXCEPT !.bind = Some("invalid")],
    [NoSettings EXCEPT !.authentication = Some([secret |-> None])],
    [NoSettings EXCEPT !.cors = Some([allow_origin_regex |-> Some("invalid"), max_age |-> Some(0)])],
    [NoSettings EXCEPT !.compression = Some([zstd_level |-> Some(0), brotli_quality |-> Some(0),
                                             gzip_level |-> Some(10)])],
    [NoSettings EXCEPT !.webrtc = Some([max_sessions |-> Some(0), no_ice_timeout |-> None])],
    [NoSettings EXCEPT !.files = Some([mounts |-> "misnamed", exclude |-> "good"])] }

Argon(memory, lanes) ==
  Some([type |-> "argon2", memory_cost |-> memory, parallelism |-> lanes, time_cost |-> None,
        hash_length |-> None, salt_length |-> None])
Hashings ==
  {None, Some([type |-> "bcrypt", rounds |-> Some(3)])}
  \cup { Argon(m, l) : m \in {None, Some(7), Some(31), Some(32)}, l \in {None, Some(0), Some(1)} }
Databases ==
  { [type |-> "sqlite", path |-> p, hashing |-> h] :
    p \in {None, Some(":memory:")}, h \in Hashings }
  \cup
  { [type |-> "postgres", host |-> h, database |-> Some("d"), user |-> Some("u"),
     hashing |-> None] : h \in {None, Some("blank"), Some("h")} }

Loggings ==
  [engine : [LoggingFields -> {None, Some("debug")}],
   component : { [output |-> o, events |-> None] : o \in {None, Some("info"), Some("debug")} }]

Well(raw) == Some([shape |-> "right", raw |-> raw])

MCEdits ==
  { <<"server", Well(x)>> : x \in Servers } \cup { <<"database", Well(x)>> : x \in Databases }
  \cup { <<"service", Well([name |-> n, user |-> None])>> : n \in {None, Some("invalid")} }
  \cup { <<"service", Some([shape |-> "wrong"])>> }
  \cup { <<"logging", l>> : l \in Loggings }

----------------------------------------------------------------------------
\* A user who is at the machine.
Idle == [session |-> TRUE, linger |-> FALSE, bus |-> TRUE, other |-> FALSE]

Parts == {"streams", "serving", "config", "service", "watch"}

MCInit ==
  /\ part \in Parts
  /\ StreamsInit /\ (part # "streams" => kind = [c \in Conns |-> "socket"])
  /\ ServingInit /\ (part # "serving" => conf = CHOOSE c \in Confs : TRUE)
  /\ ConfigInit
  /\ ServiceInit /\ (part # "service" => manager = "systemd" /\ user = Idle)
  /\ WatchInit /\ (part # "watch" => options.watch /\ options.source)

OnlyStreams == StreamsNext /\ UNCHANGED <<servingVars, configVars, serviceVars, watchVars>>
OnlyServing == ServingNext /\ UNCHANGED <<streamVars, configVars, serviceVars, watchVars>>
OnlyConfig == ConfigNext /\ UNCHANGED <<streamVars, servingVars, serviceVars, watchVars>>
OnlyService == ServiceNext /\ UNCHANGED <<streamVars, servingVars, configVars, watchVars>>
OnlyWatch == WatchNext /\ UNCHANGED <<streamVars, servingVars, configVars, serviceVars>>

MCNext ==
  /\ part' = part
  /\ \/ part = "streams" /\ OnlyStreams
     \/ part = "serving" /\ OnlyServing
     \/ part = "config" /\ OnlyConfig
     \/ part = "service" /\ OnlyService
     \/ part = "watch" /\ OnlyWatch

\* The parts' fairness, each where its part runs.
MCFairness ==
  /\ \A c \in Conns : /\ WF_streamVars(part = "streams" /\ HostLoop(c))
                      /\ WF_streamVars(part = "streams" /\ ServerTask(c))
  /\ WF_servingVars(part = "serving" /\ Loop)
  /\ WF_servingVars(part = "serving" /\ engine # "up" /\ Cancel)
  /\ \A id \in Ids : WF_servingVars(part = "serving" /\ Dropped(id))
  /\ WF_watchVars(part = "watch" /\ Resident)
  /\ SF_watchVars(part = "watch" /\ Leaves)

MCSpec ==
  /\ MCInit
  /\ [][MCNext]_<<part, streamVars, servingVars, configVars, serviceVars, watchVars>>
  /\ MCFairness
=============================================================================
