---------------------------- MODULE Certificates ----------------------------
(***************************************************************************)
(* The managed HTTPS certificate (rust/ceres-server/src/tls.rs and         *)
(* tls/managed.rs), the listener that presents it (serve.rs) and           *)
(* `ceres generate certificate` (rust/ceres-cli/src/commands/generate.rs). *)
(*                                                                         *)
(* Four files hold everything that survives a crash: the authority's key   *)
(* and certificate and the leaf's key and certificate.  A key is a number, *)
(* 0 is a missing file, and an authority's certificate is the number of    *)
(* the key it belongs to.  The actors are the listener, a renewal of a     *)
(* listener that was dropped while it ran (renew_every lets it run to its  *)
(* end on the blocking pool) and the command.                              *)
(*                                                                         *)
(* An action is one file operation or the reads between two of them.  A    *)
(* pair is read as one step: a pair is renamed key first, and its readers  *)
(* open the certificate first, so reading one file before and the other    *)
(* after a concurrent rename yields no pair that is not also on disk       *)
(* between the two renames.                                                *)
(***************************************************************************)
EXTENDS Integers, FiniteSets

CONSTANTS
  Configured,  \* the names `auto.ip` and `auto.dns` list, {} to detect them
  Address,     \* names the machine may gain and lose: its interface addresses
  LinkLocal,   \* the addresses among them that only reach their own link
  Supplied,    \* whether `auto.ca` names the authority
  Life,        \* `auto.days`, in ticks
  Backdate,    \* BACKDATE, in ticks
  Interval,    \* RENEWAL_INTERVAL, in ticks
  MaxWindow,   \* the 30 days of renewal_window, in ticks
  MaxTime,     \* bound: ticks
  MaxKey,      \* bound: keys generated
  MaxFault     \* bound: crashes, failures, lost files and clock changes

ASSUME ConstantsAssumption ==
  /\ Supplied \in BOOLEAN
  /\ Life \in Nat /\ Backdate \in Nat /\ Interval \in Nat \ {0}
  /\ MaxWindow \in Nat /\ MaxTime \in Nat /\ MaxKey \in Nat /\ MaxFault \in Nat
  /\ LinkLocal \subseteq Address

\* A day at least, of which a third and the hour of BACKDATE leave something.
ASSUME MarginAssumption == Backdate + Life \div 3 < Life

VARIABLES
  now,        \* the clock
  addresses,  \* the addresses of the machine's interfaces
  caKey,      \* the authority's key file
  caCert,     \* the authority's certificate file
  key,        \* the leaf's key file
  cert,       \* the leaf's certificate file
  actor,      \* what each actor is doing
  listener,   \* "down", "load" or "up"
  presented,  \* Presented: the pair the listener answers handshakes with
  wake,       \* when renew_every's sleep ends
  good,       \* history: the time read by the last check that succeeded
  published,  \* history: authorities that stood on disk as a whole pair
  raced,      \* history: two actors found no authority at the same time
  fresh,      \* keys generated so far
  faults      \* faults so far

files == <<caKey, caCert, key, cert>>
vars == <<now, addresses, files, actor, listener, presented, wake, good,
          published, raced, fresh, faults>>

Actor == {"server", "dropped", "command"}
NoCert == [key |-> 0, by |-> 0, from |-> 0, until |-> 0, names |-> {}]
NoPair == [key |-> 0, cert |-> NoCert]
Idle == [pc |-> "idle", at |-> 0, names |-> {}, force |-> FALSE,
         authority |-> 0, key |-> 0, cert |-> NoCert]

Min2(a, b) == IF a < b THEN a ELSE b

\* renewal_window: a third of the lifetime, 30 days at most.
Window == Min2(Life \div 3, MaxWindow)

\* SubjectName::required: the configured names, or the ones the machine has.
Local == {"localhost"} \cup (addresses \ LinkLocal)
Required == IF Configured # {} THEN Configured ELSE Local
-----------------------------------------------------------------------------
AuthorityCarelessly ==
  IF caKey # 0 /\ caCert # 0 THEN "present" ELSE "absent"

\* Authority::read and Authority::validate, on the files as they are.
AuthorityState ==
  CASE caKey # 0 /\ caCert # 0 -> IF caKey = caCert THEN "present" ELSE "unusable"
    [] caKey = 0 /\ caCert = 0 -> IF Supplied THEN "missing" ELSE "absent"
    [] OTHER -> IF Supplied THEN "missing" ELSE "incomplete"

JudgeNames(at, names) ==
  IF cert = NoCert \/ key = 0 \/ cert.key # key THEN "missing"
  ELSE IF names \subseteq cert.names THEN "current" ELSE "missing names"

JudgeUnpaired(at, names) ==
  IF cert = NoCert \/ key = 0 THEN "missing"
  ELSE IF cert.by # caCert THEN "foreign issuer"
  ELSE IF cert.until - at < Window THEN "expiring" ELSE "current"

\* Leaf::judge: the first reason for which the certificate is due.
Judge(at, names) ==
  IF cert = NoCert \/ key = 0 THEN "missing"
  ELSE IF cert.key # key THEN "unparsable"
  ELSE IF AuthorityState # "present" \/ cert.by # caCert THEN "foreign issuer"
  ELSE IF cert.from > at THEN "not yet valid"
  ELSE IF cert.until - at < Window THEN "expiring"
  ELSE IF ~(names \subseteq cert.names) THEN "missing names" ELSE "current"

\* sign: what is issued at a time, for the names, by an authority, with a new key.
Signed(at, names, authority, k) ==
  [key |-> k, by |-> authority, from |-> at - Backdate,
   until |-> at - Backdate + Life - 1, names |-> names]

\* certified_key: what the listener reads back, an error when a file is missing or the
\* key does not belong to the certificate.
Readable == cert # NoCert /\ key # 0 /\ cert.key = key
-----------------------------------------------------------------------------
Init ==
  /\ now = 0
  /\ addresses = {}
  /\ \/ ~Supplied /\ caKey = 0 /\ fresh = 0
     \/ caKey = 1 /\ fresh = 1
  /\ caCert = caKey
  /\ published = {caKey} \ {0}
  /\ key = 0 /\ cert = NoCert
  /\ actor = [a \in Actor |-> Idle]
  /\ listener = "down"
  /\ presented = NoPair
  /\ wake = 0 /\ good = 0
  /\ raced = FALSE
  /\ faults = 0

Becomes(a, r) == actor' = [actor EXCEPT ![a] = r]
At(a, pc) == actor[a].pc = pc

\* Renewer::ensure, and the command: the names and the clock are read first.
Begin(a, force) ==
  Becomes(a, [Idle EXCEPT !.pc = "read", !.at = now, !.names = Required,
                          !.force = force])

\* Issuance::ensure up to the first write: read the authority, judge the leaf, and keep
\* it, or generate what the writes need.
Ended(a) == IF a = "server" THEN [actor[a] EXCEPT !.pc = "kept"] ELSE Idle

Issue(a, authority, used) ==
  [actor[a] EXCEPT !.pc = "key",
                   !.authority = authority, !.key = used + 1,
                   !.cert = Signed(actor[a].at, actor[a].names, authority, used + 1)]

Examine(a) ==
  /\ At(a, "read")
  /\ \/ /\ AuthorityState = "present"
        /\ \/ /\ ~actor[a].force
              /\ Judge(actor[a].at, actor[a].names) = "current"
              /\ Becomes(a, Ended(a))
              /\ UNCHANGED fresh
           \/ /\ actor[a].force \/ Judge(actor[a].at, actor[a].names) # "current"
              /\ fresh < MaxKey
              /\ fresh' = fresh + 1
              /\ Becomes(a, Issue(a, caCert, fresh))
        /\ UNCHANGED raced
     \/ /\ AuthorityState = "absent"
        /\ fresh + 1 < MaxKey
        /\ fresh' = fresh + 2
        /\ Becomes(a, [Issue(a, fresh + 1, fresh + 1) EXCEPT !.pc = "caKey"])
        /\ raced' = (raced \/ \E b \in Actor \ {a} : actor[b].pc \in {"caKey", "caCert"})
  /\ UNCHANGED <<now, addresses, files, listener, presented, wake, good, published,
                 faults>>

\* create_authority, then the leaf: write_pair renames the key into place, then the
\* certificate.
RenameCaKey(a) ==
  /\ At(a, "caKey")
  /\ caKey' = actor[a].authority
  /\ Becomes(a, [actor[a] EXCEPT !.pc = "caCert"])
  /\ UNCHANGED <<now, addresses, caCert, key, cert, listener, presented, wake, good,
                 published, raced, fresh, faults>>

RenameCaCert(a) ==
  /\ At(a, "caCert")
  /\ caCert' = actor[a].authority
  /\ published' = IF caKey = caCert' THEN published \cup {caKey} ELSE published
  /\ Becomes(a, [actor[a] EXCEPT !.pc = "key"])
  /\ UNCHANGED <<now, addresses, caKey, key, cert, listener, presented, wake, good,
                 raced, fresh, faults>>

RenameKey(a) ==
  /\ At(a, "key")
  /\ key' = actor[a].key
  /\ Becomes(a, [actor[a] EXCEPT !.pc = "cert"])
  /\ UNCHANGED <<now, addresses, caKey, caCert, cert, listener, presented, wake, good,
                 published, raced, fresh, faults>>

RenameCert(a) ==
  /\ At(a, "cert")
  /\ cert' = actor[a].cert
  /\ Becomes(a, IF a = "server" THEN [actor[a] EXCEPT !.pc = "issued"] ELSE Idle)
  /\ UNCHANGED <<now, addresses, caKey, caCert, key, listener, presented, wake, good,
                 published, raced, fresh, faults>>
-----------------------------------------------------------------------------
\* Tls::load_detecting: ensure, then read the pair back; BoundServer::with_tls fails with
\* it, and the server does not start.
Load ==
  /\ listener = "down"
  /\ At("server", "idle")
  /\ listener' = "load"
  /\ Begin("server", FALSE)
  /\ UNCHANGED <<now, addresses, files, presented, wake, good, published, raced, fresh,
                 faults>>

PresentSigned ==
  /\ presented' = [key |-> actor["server"].key, cert |-> cert]
  /\ good' = actor["server"].at

\* Presented::replace with what certified_key reads.
Present ==
  /\ presented' = [key |-> key, cert |-> cert]
  /\ good' = actor["server"].at

Loaded ==
  /\ listener = "load"
  /\ actor["server"].pc \in {"kept", "issued"}
  /\ Readable
  /\ Present
  /\ listener' = "up"
  /\ wake' = now + Interval
  /\ Becomes("server", Idle)
  /\ UNCHANGED <<now, addresses, files, published, raced, fresh, faults>>

\* renew_every wakes up and runs Renewer::renew on the blocking pool.
Check ==
  /\ listener = "up"
  /\ At("server", "idle")
  /\ now >= wake
  /\ Begin("server", FALSE)
  /\ UNCHANGED <<now, addresses, files, listener, presented, wake, good, published,
                 raced, fresh, faults>>

\* Renewer::renew ends: a new certificate is presented, a current one stays.
Sleep == wake' = now + Interval

RenewKept ==
  /\ listener = "up"
  /\ At("server", "kept")
  /\ good' = actor["server"].at
  /\ UNCHANGED presented

RenewIssued ==
  /\ listener = "up"
  /\ At("server", "issued")
  /\ Readable
  /\ Present

Renewed ==
  /\ RenewKept \/ RenewIssued
  /\ Sleep
  /\ Becomes("server", Idle)
  /\ UNCHANGED <<now, addresses, files, listener, published, raced, fresh, faults>>

\* Any of the reads and writes may fail, and reading an authority or a pair that does not
\* fit does: the command ends, loading fails, a renewal keeps what it presents.
Refused(a) ==
  \/ At(a, "read") /\ AuthorityState \notin {"present", "absent"}
  \/ a = "server" /\ At(a, "issued") /\ ~Readable
  \/ a = "server" /\ At(a, "kept") /\ listener = "load" /\ ~Readable

Failed(a) ==
  /\ Becomes(a, Idle)
  /\ listener' = IF a = "server" /\ listener = "load" THEN "down" ELSE listener
  /\ wake' = IF a = "server" /\ listener = "up" THEN now + Interval ELSE wake
  /\ UNCHANGED <<now, addresses, files, presented, good, published, raced, fresh>>

Refuse(a) == Refused(a) /\ Failed(a) /\ UNCHANGED faults

Fault == faults < MaxFault /\ faults' = faults + 1

Fail(a) == ~At(a, "idle") /\ Fault /\ Failed(a)
-----------------------------------------------------------------------------
\* The command; without `auto` it runs the same issuance, forced.
Generate(force) ==
  /\ At("command", "idle")
  /\ fresh < MaxKey
  /\ Begin("command", force)
  /\ UNCHANGED <<now, addresses, files, listener, presented, wake, good, published,
                 raced, fresh, faults>>

\* The server stops: select! drops renew_every, and a renewal under way runs on.
Stop ==
  /\ listener = "up"
  /\ Fault
  /\ At("dropped", "idle")
  /\ actor' = [actor EXCEPT !["server"] = Idle,
                 !["dropped"] = IF actor["server"].pc \in {"kept", "issued"}
                                  THEN Idle ELSE actor["server"]]
  /\ listener' = "down"
  /\ presented' = NoPair
  /\ UNCHANGED <<now, addresses, files, wake, good, published, raced, fresh>>

\* The machine loses power: every actor is gone, the files are what was renamed.
Crash ==
  /\ Fault
  /\ actor' = [a \in Actor |-> Idle]
  /\ listener' = "down"
  /\ presented' = NoPair
  /\ UNCHANGED <<now, addresses, files, wake, good, published, raced, fresh>>

\* A file of the default authority is lost, or the operator removes both (not while one
\* is being created).
Lose ==
  /\ Fault
  /\ ~Supplied
  /\ \A a \in Actor : ~At(a, "caKey") /\ ~At(a, "caCert")
  /\ \/ caKey' = 0 /\ UNCHANGED caCert
     \/ caCert' = 0 /\ UNCHANGED caKey
     \/ caKey' = 0 /\ caCert' = 0
  /\ UNCHANGED <<now, addresses, key, cert, actor, listener, presented, wake, good,
                 published, raced, fresh>>

Rewire ==
  /\ Fault
  /\ \E s \in SUBSET Address : addresses' = s
  /\ UNCHANGED <<now, files, actor, listener, presented, wake, good, published, raced,
                 fresh>>

\* A clock that was ahead is set back; the sleep does not follow the clock.  (Not
\* in the middle of an issuance, which has read it.)
SetBack ==
  /\ Fault
  /\ now > 0
  /\ \A a \in Actor : At(a, "idle")
  /\ now' = 0
  /\ wake' = wake - now
  /\ UNCHANGED <<addresses, files, actor, listener, presented, good, published, raced,
                 fresh>>

\* Time passes, but not over a check that is due or an issuance under way: the sleep is a
\* timer, and an issuance takes much less than a tick.
Tick ==
  /\ now < MaxTime
  /\ \A a \in Actor : At(a, "idle")
  /\ listener = "up" => now < wake
  /\ now' = now + 1
  /\ UNCHANGED <<addresses, files, actor, listener, presented, wake, good, published,
                 raced, fresh, faults>>

Ensure(a) ==
  Examine(a) \/ RenameCaKey(a) \/ RenameCaCert(a) \/ RenameKey(a) \/ RenameCert(a)
    \/ Refuse(a)

Serve == Load \/ Loaded \/ Check \/ Renewed

Next ==
  \/ \E a \in Actor : Ensure(a) \/ Fail(a)
  \/ Serve
  \/ \E force \in BOOLEAN : Generate(force)
  \/ Stop \/ Crash \/ Lose \/ Rewire \/ SetBack \/ Tick

\* The executor runs what was started and the timer ends; starting the server is the
\* supervisor's retry.  Nothing obliges an operator, a fault or the command.
Fairness ==
  /\ WF_vars(Ensure("server"))
  /\ WF_vars(Serve)
  /\ WF_vars(Ensure("dropped"))
  /\ WF_vars(Ensure("command"))

Spec == Init /\ [][Next]_vars /\ Fairness
-----------------------------------------------------------------------------
Name == Configured \cup Address \cup {"localhost"}
Certificate == [key : Nat, by : Nat, from : Int, until : Int, names : SUBSET Name]
Steps == {"idle", "read", "caKey", "caCert", "key", "cert", "kept", "issued"}
Acting == [pc : Steps, at : Int, names : SUBSET Name, force : BOOLEAN,
           authority : Nat, key : Nat, cert : Certificate]

\* Every variable has the shape of what it stands for.
TypeOK ==
  /\ now \in Nat /\ addresses \subseteq Address
  /\ caKey \in Nat /\ caCert \in Nat /\ key \in Nat /\ cert \in Certificate
  /\ actor \in [Actor -> Acting]
  /\ listener \in {"down", "load", "up"}
  /\ presented \in [key : Nat, cert : Certificate]
  /\ wake \in Int /\ good \in Int
  /\ published \subseteq Nat /\ raced \in BOOLEAN
  /\ fresh \in Nat /\ faults \in Nat

\* The actors that are creating the authority.
Creating(a) == actor[a].pc \in {"caKey", "caCert"}

\* An authority is numbered from 1, so that a missing file is never a published one.
Numbered ==
  /\ 0 \notin published
  /\ \A a \in Actor : Creating(a) => actor[a].authority # 0

\* Unless two actors raced, one at most creates the authority, over no other one, and what
\* it has not renamed yet is not there.
OneCreates ==
  /\ \A a, b \in Actor : Creating(a) /\ Creating(b) => a = b
  /\ \A a \in Actor : At(a, "caKey") => caKey = 0 /\ caCert = 0
  /\ \A a \in Actor : At(a, "caCert") => caKey = actor[a].authority /\ caCert = 0

\* Unless two actors raced, what is signed, on disk or about to be, is signed by an
\* authority that stood on disk, or by the one its actor is creating.
Traced ==
  /\ caKey # 0 /\ caKey = caCert => caKey \in published
  /\ cert # NoCert => cert.by \in published
  /\ \A a \in Actor : actor[a].pc \in {"key", "cert"} => actor[a].cert.by \in published
  /\ \A a \in Actor : Creating(a) => actor[a].cert.by = actor[a].authority

\* The inductive invariant behind PresentedUsable and AuthorityKept.
Sound == Numbered /\ (~raced => OneCreates /\ Traced)

\* Whatever the command, a dropped renewal, a crash or a failed rename leaves on disk, the
\* listener answers handshakes with a key that belongs to its certificate, issued by an
\* authority that stood on disk for clients to trust (Presented, certified_key).
PresentedUsable ==
  presented = NoPair \/
    /\ presented.key = presented.cert.key
    /\ ~raced => presented.cert.by \in published

\* While either file of an authority that clients may trust remains, nothing puts another
\* authority in its place (Authority::read answers AuthorityIncomplete for one file alone,
\* create_authority runs only when both are absent), unless two actors created it at once.
AuthorityKept ==
  [][~raced' => /\ caKey \in published => caKey' \in {caKey, 0}
                /\ caCert \in published => caCert' \in {caCert, 0}]_vars

\* A listener that presents what is on disk has a valid certificate for a whole renewal
\* window after the last check that succeeded, however many checks fail in between: the
\* judgement leaves that much of the lifetime (Leaf::judge, renewal_window).
Fresh ==
  listener = "up" /\ presented.cert = cert /\ good <= now /\ now <= good + Window
    => presented.cert.from <= now /\ now <= presented.cert.until

\* After a crash, a failure or a stop at any point of an issuance the server comes up
\* again: a pair left half renamed is judged and issued again.  Only an authority that
\* cannot be read, which Ceres never replaces, keeps it down.
Recovers ==
  listener # "up" ~> \/ listener = "up"
                     \/ AuthorityState \notin {"present", "absent"}
                     \/ fresh + (IF AuthorityState = "absent" THEN 1 ELSE 0) >= MaxKey
=============================================================================
