------------------------------ MODULE Requests ------------------------------
(***************************************************************************)
(* One request to the native server, from its headers to its answer        *)
(* (rust/ceres-server/src/app.rs, auth.rs, scrub.rs and api/), over the    *)
(* accounts the host keeps.                                                *)
(*                                                                         *)
(* A handler runs without a break up to a host call and after it; between  *)
(* the two, accounts change and tokens expire.  Requests share nothing but *)
(* the accounts and the tokens, so one request is followed at a time and   *)
(* whatever another one does to an account is an `Alter`.                  *)
(***************************************************************************)
EXTENDS Naturals, Sequences

CONSTANTS
  Users,        \* the users there may be
  Apps,         \* the applications a server may be configured to be
  Initially,    \* the accounts there are at first
  Payloads,     \* JSON documents an operation may answer with, and their parts
  Duration,     \* how long a token lasts
  MaxTime,      \* bound: the clock
  MaxEvents     \* bound: requests served and accounts changed from outside, together

ASSUME RequestsAssumption ==
  /\ Apps \subseteq [cli : BOOLEAN, auth : BOOLEAN, impersonate : BOOLEAN, native : BOOLEAN,
                     console : {"none", "unbuilt", "built"}]
  /\ Initially \in [Users -> [exists : BOOLEAN, admin : BOOLEAN, disabled : BOOLEAN,
                                password : 0..1]]
  /\ "nobody" \notin Users
  /\ \A document \in Payloads :
       /\ \A f \in DOMAIN document.fields : document.fields[f] \in Payloads
       /\ \A i \in DOMAIN document.items : document.items[i] \in Payloads
  /\ Duration \in Nat \ {0}
  /\ MaxTime \in Nat /\ MaxEvents \in Nat

NoAccount == [exists |-> FALSE, admin |-> FALSE, disabled |-> FALSE, password |-> 0]
Account(admin, disabled, password) ==
  [exists |-> TRUE, admin |-> admin, disabled |-> disabled, password |-> password]

NoUser == "nobody"

\* The values the `Authorization` header and cookie carry that are no usable
\* bearer token: none, the control app's token, and anything else.
Plain(text) == [bearer |-> FALSE, text |-> text]
Absent == Plain("absent")
CliToken == Plain("cli")
Malformed == Plain("malformed")
NoToken == [sub |-> NoUser]

VARIABLES
  app,       \* what the application serves: its role and its settings
  accounts,  \* the accounts in the database
  clock,
  tokens,    \* the tokens that were handed out, with where they come from
  req,       \* the request being served
  events,    \* how many were served, and how often an account changed from outside
  admins     \* who was ever an administrator

requestVars == <<app, accounts, clock, tokens, req, events, admins>>

----------------------------------------------------------------------------
\* JSON documents, and the credentials that never leave in one.

Leaf == [is |-> "leaf", fields |-> <<>>, items |-> <<>>]
Object(fields) == [is |-> "object", fields |-> fields, items |-> <<>>]
Array(items) == [is |-> "array", fields |-> <<>>, items |-> items]
Unreadable == [is |-> "unreadable", fields |-> <<>>, items |-> <<>>]

CREDENTIAL_FIELDS == {"secret", "password", "key_password"}

scrub_credentials[value \in Payloads] ==
  CASE value.is = "object" ->
         Object([f \in DOMAIN value.fields \ CREDENTIAL_FIELDS |->
                   scrub_credentials[value.fields[f]]])
    [] value.is = "array" ->
         Array([i \in DOMAIN value.items |-> scrub_credentials[value.items[i]]])
    [] OTHER -> value

\* Text that does not parse scrubs to `null`.
scrub_json(payload) == IF payload = Unreadable THEN Leaf ELSE scrub_credentials[payload]

----------------------------------------------------------------------------
\* Tokens.

\* The claims of a token, and beside them its history: the login it descends from and
\* the administrators that took on another identity on the way.
Token(sub, imp, root, via) ==
  [bearer |-> TRUE, sub |-> sub, imp |-> imp, exp |-> clock + Duration, root |-> root,
   via |-> via]

mint(sub, imp, root, via) == tokens' = tokens \cup {Token(sub, imp, root, via)}

\* The header wins over the cookie, also when the header holds no bearer token.
bearer_token(headers) ==
  LET value == IF headers.header # Absent THEN headers.header ELSE headers.cookie
  IN IF value.bearer THEN value ELSE NoToken

\* Anything wrong with a token makes the request anonymous.
parse(token) == IF token # NoToken /\ token.exp >= clock THEN token ELSE NoToken

----------------------------------------------------------------------------
\* The routes.  Rows of the route table that differ only in an operation whose effect is
\* beyond the accounts are one row here.  `uuid` says whether the path has UUIDs in it.

Route(gate, uuid, body, status, scrub, does) ==
  [gate |-> gate, uuid |-> uuid, body |-> body, status |-> status, scrub |-> scrub,
   does |-> does]

EngineRoutes ==
  { Route("admin", FALSE, FALSE, 200, TRUE, "plain"),
    Route("authenticated", FALSE, TRUE, 200, FALSE, "plain"),
    Route("admin", FALSE, TRUE, 200, FALSE, "plain") }

UserRoutes ==
  { Route("authenticated", FALSE, FALSE, 200, FALSE, "plain"),
    Route("authenticated", TRUE, FALSE, 200, FALSE, "plain"),
    Route("admin", TRUE, TRUE, 201, FALSE, "create"),
    Route("self", TRUE, TRUE, 200, FALSE, "update"),
    Route("admin", TRUE, FALSE, 200, FALSE, "delete"),
    Route("admin", TRUE, TRUE, 200, FALSE, "plain") }

PermissionRoutes ==
  { Route("self", TRUE, FALSE, 200, FALSE, "plain"),
    Route("admin", TRUE, FALSE, 200, FALSE, "plain"),
    Route("admin", TRUE, TRUE, 200, FALSE, "plain") }

WorkspaceRoutes ==
  { Route("authenticated", FALSE, TRUE, 200, FALSE, "plain"),
    Route("authenticated", TRUE, TRUE, 200, FALSE, "plain"),
    Route("self", TRUE, FALSE, 200, FALSE, "plain"),
    Route("self", TRUE, TRUE, 200, FALSE, "plain") }

ComponentRoutes ==
  { Route("open", FALSE, FALSE, 200, FALSE, "plain"),
    Route("open", FALSE, TRUE, 200, FALSE, "call"),
    Route("authenticated", FALSE, FALSE, 200, FALSE, "plain"),
    Route("authenticated", FALSE, TRUE, 200, FALSE, "plain") }

host_routes ==
  EngineRoutes \cup UserRoutes \cup PermissionRoutes \cup WorkspaceRoutes \cup ComponentRoutes

\* The listings, counts and records, and the statuses, which gate in their handlers.
record_routes == Route("authenticated", FALSE, FALSE, 200, FALSE, "plain")

\* The sections of the configuration, the console's open to everybody.
sections == { Route(gate, FALSE, FALSE, 200, TRUE, "plain") : gate \in {"admin", "open"} }

\* The login family.
AuthRoute(does) == Route("open", FALSE, TRUE, 200, FALSE, does)

----------------------------------------------------------------------------
\* What the fields of a body are found to be.

required_string(field) ==
  IF field \in {"text", "uuid"} THEN {} ELSE {"missing or of the wrong type"}
required_uuid(field) ==
  IF field = "uuid" THEN {} ELSE required_string(field) \cup {"no UUID"}
cookie(field) == IF field \in {"absent", "text"} THEN {} ELSE {"no cookie type"}

Bodies == [json : {"object"}, field : {"text", "uuid", "absent"},
           cookie : {"absent", "text", "number"}]
          \cup [json : {"other"}, field : {"absent"}, cookie : {"absent"}]

\* A body that is no JSON object is refused at once; the problems of the others are
\* collected.
BodyRefused(body, required) ==
  \/ body.json # "object"
  \/ required \cup cookie(body.cookie) # {}

----------------------------------------------------------------------------
\* Gates.

Actor(user, account) ==
  [user |-> user, admin |-> account.admin, disabled |-> account.disabled,
   unrestricted |-> app.cli \/ ~app.auth]

Anonymous == Actor(NoUser, NoAccount)

require_authenticated_lax(actor) ==
  IF actor.unrestricted \/ actor.user # NoUser THEN "ok" ELSE "not-authenticated"

require_authenticated(actor) ==
  IF actor.unrestricted THEN "ok"
  ELSE IF actor.user = NoUser THEN "not-authenticated"
  ELSE IF actor.disabled THEN "not-permitted" ELSE "ok"

require_admin(actor) ==
  IF require_authenticated(actor) # "ok" THEN require_authenticated(actor)
  ELSE IF actor.unrestricted \/ actor.admin THEN "ok" ELSE "not-permitted"

require_self_or_admin(actor, named) ==
  IF require_authenticated(actor) # "ok" THEN require_authenticated(actor)
  ELSE IF actor.unrestricted \/ actor.admin \/ actor.user = named THEN "ok"
  ELSE "not-permitted"

admit_gate(gate, actor, named) ==
  CASE gate = "open"          -> "ok"
    [] gate = "authenticated" -> require_authenticated(actor)
    [] gate = "admin"         -> require_admin(actor)
    [] gate = "self"          -> require_self_or_admin(actor, named)

----------------------------------------------------------------------------
\* The request being served.

IdleRequest == [phase |-> "idle"]

\* The answer, with what is left to say of its request.
Answered(status, scrub, payload, body) ==
  [phase |-> "answered", status |-> status, scrub |-> scrub, payload |-> payload, body |-> body]

Answer(status) == req' = Answered(status, FALSE, Leaf, Leaf)

\* The statuses of the typed errors.
errors(slug) ==
  CASE slug \in {"not-authenticated", "bad-credentials"} -> 401
    [] slug \in {"not-permitted", "authentication-disabled"} -> 403
    [] slug = "not-found" -> 404
    [] slug = "validation-failed" -> 422
    [] slug = "error" -> 500

Refuse(slug) == Answer(errors(slug))

Request(route, token) ==
  [phase |-> "resolve", route |-> route, token |-> token, target |-> NoUser, body |-> "good",
   password |-> 0, actor |-> Anonymous, read |-> NoAccount,
   arrived |-> IF token = NoToken THEN 0 ELSE clock,
   seen |-> IF token = NoToken THEN {NoAccount} ELSE {accounts[token.sub]}]

\* A handler was entered and awaits its first host call, or answered before any.
Enter(asking) == req' = asking

Headers == [header : {Absent, CliToken, Malformed} \cup tokens, cookie : {Absent} \cup tokens]

Unchanged == UNCHANGED <<app, accounts, clock, events, admins>>

\* Every request of the control app carries its token.
require_cli_token(headers) == app.cli => headers.header = CliToken

\* The token a request is judged by, none when authentication is off.
Presented(headers) == IF app.auth THEN parse(bearer_token(headers)) ELSE NoToken

\* A request arrives, and the router chooses its handler.
Incoming ==
  /\ req = IdleRequest
  /\ events < MaxEvents
  /\ Unchanged
  /\ UNCHANGED tokens

\* Without the control app's token nothing is routed.
Unauthorized ==
  /\ Incoming
  /\ \E headers \in Headers :
       /\ ~require_cli_token(headers)
       /\ Refuse("not-authenticated")

\* Paths no handler is routed for: under `/api`, elsewhere without a console, and the
\* console's own, served when its index was there at startup.
serve_console(path) ==
  CASE path = "api" -> 404
    [] path = "method" -> 405
    [] path = "alive" -> 200
    [] OTHER -> CASE app.console = "none" -> 404
                  [] app.console = "unbuilt" -> 503
                  [] app.console = "built" -> 200

build_router ==
  /\ Incoming
  /\ \E headers \in Headers,
        path \in {"api", "method", "alive", "other"} :
       /\ require_cli_token(headers)
       /\ Answer(serve_console(path))

\* Whether anything depends on the user a route's path names.
NamesUser(route) == route.gate = "self" \/ route.does \in {"create", "update", "delete"}

\* A route of the table: a path parameter that is no UUID means it never matched; then
\* the actor is resolved.
Dispatch ==
  /\ Incoming
  /\ \E headers \in Headers, route \in host_routes,
        named \in Users \cup {NoUser}, body \in {"invalid", "good"} :
       /\ require_cli_token(headers)
       /\ ~route.uuid => named = NoUser
       /\ ~route.body => body = "good"
       /\ IF route.uuid /\ named = NoUser
          THEN Refuse("not-found")
          ELSE Enter([Request(route, Presented(headers)) EXCEPT
                        !.target = IF NamesUser(route) THEN named ELSE NoUser, !.body = body])

\* A listing, a count, a record or a section: the actor is resolved first, by its
\* standing alone where the handler serves nothing of the user.
GetHandlers ==
  /\ Incoming
  /\ \E headers \in Headers,
        route \in sections \cup {record_routes} :
       /\ require_cli_token(headers)
       /\ LET token == Presented(headers) IN
          Enter([Request(route, token) EXCEPT !.phase =
                   IF route.gate = "open" THEN "operate"
                   ELSE IF route = record_routes /\ token # NoToken THEN "standing" ELSE @])

\* `me` and `logout` take no body; `refresh` validates its body and then asks for the
\* settings.
AskIdentity ==
  /\ Incoming
  /\ \E headers \in Headers,
        does \in {"me", "logout", "refresh"}, body \in Bodies :
       /\ require_cli_token(headers)
       /\ LET asking == Request(AuthRoute(does), Presented(headers))
          IN CASE does = "refresh" /\ BodyRefused(body, {}) ->
                    Refuse("validation-failed")
               [] does = "refresh" /\ ~BodyRefused(body, {}) /\ ~app.auth ->
                    Refuse("authentication-disabled")
               [] OTHER -> Enter(asking)

\* `impersonate` validates its body, asks for the settings, reports itself missing when
\* the feature is off, and then resolves the caller.
AskImpersonate ==
  /\ Incoming
  /\ \E headers \in Headers, named \in Users,
        body \in Bodies :
       /\ require_cli_token(headers)
       /\ LET asking == Request(AuthRoute("impersonate"), Presented(headers))
              refused == BodyRefused(body, required_uuid(body.field))
          IN CASE refused -> Refuse("validation-failed")
               [] ~refused /\ ~app.auth -> Refuse("authentication-disabled")
               [] ~refused /\ app.auth /\ ~app.impersonate -> Refuse("not-found")
               [] OTHER -> Enter([asking EXCEPT !.target = named])

\* `login` reads no token.
AskLogin ==
  /\ Incoming
  /\ \E headers \in Headers, named \in Users,
        body \in Bodies, password \in 0..1 :
       /\ require_cli_token(headers)
       /\ LET asking == Request(AuthRoute("login"), NoToken)
              refused == BodyRefused(body, required_string(body.field))
          IN CASE refused -> Refuse("validation-failed")
               [] ~refused /\ ~app.auth -> Refuse("authentication-disabled")
               [] OTHER -> Enter([asking EXCEPT !.phase = "account", !.target = named,
                                    !.password = password])

\* `change_password` gates before it looks at its body.
AskPassword ==
  /\ Incoming
  /\ \E headers \in Headers,
        body \in {"invalid", "good"}, password \in 0..1 :
       /\ require_cli_token(headers)
       /\ Enter([Request([AuthRoute("password") EXCEPT !.gate = "authenticated"],
                         Presented(headers)) EXCEPT !.body = body, !.password = password])

----------------------------------------------------------------------------
\* After the host answered.

\* What a handler does with its resolved caller, before its next host call.
respond_identity(actor) ==
  LET token == req.token IN
  CASE actor.user = NoUser ->
         Refuse("not-authenticated") /\ UNCHANGED tokens
    [] actor.user # NoUser /\ req.route.does = "refresh" ->
         Answer(200) /\ mint(actor.user, NoUser, token.root, token.via)
    [] actor.user # NoUser /\ req.route.does \in {"me", "logout"} ->
         Answer(200) /\ UNCHANGED tokens

impersonate_any(actor) ==
  /\ IF actor.user = NoUser THEN Refuse("not-authenticated")
     ELSE req' = [req EXCEPT !.phase = "target", !.actor = actor]
  /\ UNCHANGED tokens

\* The caller has to be an administrator to take on another identity.
impersonate(actor) ==
  /\ CASE actor.user = NoUser -> Refuse("not-authenticated")
       [] actor.user # NoUser /\ ~actor.admin -> Refuse("not-permitted")
       [] OTHER -> req' = [req EXCEPT !.phase = "target", !.actor = actor]
  /\ UNCHANGED tokens

\* The gate, then the body, then the operation.
answer(actor) ==
  LET gated == admit_gate(req.route.gate, actor, req.target) IN
  /\ CASE gated # "ok" -> Refuse(gated)
       [] gated = "ok" /\ req.route.does = "password" /\ actor.user = NoUser -> Answer(401)
       [] gated = "ok" /\ req.body = "invalid" /\ ~(req.route.does = "password" /\ actor.user = NoUser) ->
            Refuse("validation-failed")
       [] OTHER -> req' = [req EXCEPT !.actor = actor,
                             !.phase = IF req.route.does = "password" THEN "account" ELSE "operate"]
  /\ UNCHANGED tokens

Continue(actor) ==
  CASE req.route.does \in {"me", "logout", "refresh"} -> respond_identity(actor)
    [] req.route.does = "impersonate" -> impersonate(actor)
    [] OTHER -> answer(actor)

\* The caller the request's token names, as the host finds it.
Found == IF req.token = NoToken THEN Anonymous
         ELSE LET account == accounts[req.token.sub] IN
              IF account.exists THEN Actor(req.token.sub, account) ELSE Anonymous

identity ==
  /\ req.phase = "resolve"
  /\ Continue(Found)
  /\ Unchanged

\* The native store answers with the user's standing; without one, or when it fails,
\* the full lookup does.
native_gate_user ==
  /\ req.phase = "standing"
  /\ \/ app.native /\ Continue(Found)
     \/ req' = [req EXCEPT !.phase = "resolve"] /\ UNCHANGED tokens
  /\ Unchanged

\* The identity taken on is the target's own.
impersonate_target ==
  /\ req.phase = "target"
  /\ IF accounts[req.target].exists
     THEN /\ mint(req.target, req.actor.user, req.token.root, req.token.via \cup {req.actor.user})
          /\ Answer(200)
     ELSE Refuse("not-found") /\ UNCHANGED tokens
  /\ Unchanged

\* A login and a password change read the account first ...
verify_login ==
  /\ req.phase = "account"
  /\ LET user == IF req.route.does = "login" THEN req.target ELSE req.actor.user IN
     req' = [req EXCEPT !.phase = "verify", !.read = accounts[user], !.target = user]
  /\ UNCHANGED tokens
  /\ Unchanged

\* ... and then check the password against what they read, which takes a while.
verify_password ==
  /\ req.phase = "verify"
  /\ LET matches == req.read.exists /\ req.read.password = req.password IN
     CASE ~matches -> Refuse("bad-credentials") /\ UNCHANGED tokens
       [] matches /\ req.route.does = "login" ->
            Answer(200) /\ mint(req.target, NoUser, req.target, {})
       [] OTHER -> req' = [req EXCEPT !.phase = "update"] /\ UNCHANGED tokens
  /\ Unchanged

change_password ==
  /\ req.phase = "update"
  /\ LET account == accounts[req.target] IN
     /\ accounts' = IF account.exists
                    THEN [accounts EXCEPT ![req.target].password = 1 - req.password]
                    ELSE accounts
     /\ Answer(200)
  /\ UNCHANGED <<app, clock, tokens, events, admins>>

\* The accounts a user may be created with.
Created == {Account(a, FALSE, 0) : a \in BOOLEAN}

\* What an operation on users does to an account.
Operated(does, user) ==
  CASE does = "create" -> Created
    [] does = "update" -> {Account(a, d, accounts[user].password) : a \in BOOLEAN, d \in BOOLEAN}
    [] does = "delete" -> {NoAccount}

\* Forward the operation and serve what it answers: a payload with the route's status,
\* scrubbed where the route says so, a body the output described, a typed error.
respond ==
  /\ req.phase = "operate"
  /\ \/ /\ \E payload \in Payloads :
             req' = IF req.route.scrub
                    THEN Answered(req.route.status, TRUE, payload, scrub_json(payload))
                    ELSE Answered(req.route.status, FALSE, Leaf, Leaf)
        /\ IF req.route.does \in {"create", "update", "delete"}
           THEN /\ accounts[req.target].exists = (req.route.does # "create")
                /\ \E account \in Operated(req.route.does, req.target) :
                     accounts' = [accounts EXCEPT ![req.target] = account]
           ELSE UNCHANGED accounts
     \/ /\ req.route.does = "call"
        /\ Answer(200)
        /\ UNCHANGED accounts
     \/ /\ Refuse("not-found")
        /\ UNCHANGED accounts
  /\ admins' = admins \cup {u \in Users : accounts'[u].admin}
  /\ UNCHANGED <<app, clock, tokens, events>>

\* A host call that fails for no typed reason.
HostFails ==
  /\ req.phase \notin {"idle", "answered", "standing"}
  /\ Refuse("error")
  /\ UNCHANGED tokens
  /\ Unchanged

\* The response is out; the server goes on with the next request.
Finish ==
  /\ req.phase = "answered"
  /\ req' = IdleRequest
  /\ events' = events + 1
  /\ UNCHANGED <<app, accounts, clock, tokens, admins>>

----------------------------------------------------------------------------
\* Meanwhile.

\* What may happen to an account: it is created, deleted, promoted or demoted, disabled
\* or enabled, or given another password.
Altered(account) ==
  IF ~account.exists THEN Created
  ELSE { NoAccount, [account EXCEPT !.admin = ~@], [account EXCEPT !.disabled = ~@],
         [account EXCEPT !.password = 1 - @] }

\* Another request, or the control app, changes an account.
Alter ==
  /\ events < MaxEvents
  /\ \E u \in Users : \E account \in Altered(accounts[u]) :
       /\ accounts' = [accounts EXCEPT ![u] = account]
       /\ req' = IF req.phase \notin {"idle", "answered"} /\ req.token # NoToken
                 THEN [req EXCEPT !.seen = @ \cup {accounts'[req.token.sub]}] ELSE req
  /\ admins' = admins \cup {u \in Users : accounts'[u].admin}
  /\ events' = events + 1
  /\ UNCHANGED <<app, clock, tokens>>

\* Time passes, which only tokens notice.
Tick ==
  /\ tokens # {}
  /\ clock < MaxTime
  /\ clock' = clock + 1
  /\ UNCHANGED <<app, accounts, tokens, req, events, admins>>

RequestsInit ==
  /\ app \in Apps
  /\ accounts = Initially
  /\ clock = 0
  /\ tokens = {}
  /\ req = IdleRequest
  /\ events = 0
  /\ admins = {u \in Users : accounts[u].admin}

Handle == identity \/ native_gate_user \/ impersonate_target \/ verify_login \/ verify_password
          \/ change_password \/ respond \/ HostFails \/ Finish

Arrive == Unauthorized \/ build_router \/ Dispatch \/ GetHandlers \/ AskIdentity
          \/ AskImpersonate \/ AskLogin \/ AskPassword

RequestsNext == Arrive \/ Handle \/ Alter \/ Tick

RequestsSpec == RequestsInit /\ [][RequestsNext]_requestVars

----------------------------------------------------------------------------
\* Whether a user with this standing may pass a gate.
Passes(gate, user, account, named) ==
  CASE gate = "open" -> TRUE
    [] gate = "authenticated" -> account.exists /\ ~account.disabled
    [] gate = "admin" -> account.exists /\ ~account.disabled /\ account.admin
    [] gate = "self" -> /\ account.exists /\ ~account.disabled
                        /\ account.admin \/ user = named

\* An operation runs for a caller that was fit for it while the request was being
\* served: its token had not expired when the request arrived, and its account passed
\* the route's gate at some moment since (actor, admit and Gate::admit; the standing is
\* read once, and accounts change between that and the operation).
ActsAsAdmitted ==
  req.phase \in {"operate", "update"} =>
    \/ app.cli \/ ~app.auth \/ req.route.gate = "open"
    \/ /\ req.token # NoToken
       /\ req.token.exp >= req.arrived
       /\ \E account \in req.seen : Passes(req.route.gate, req.token.sub, account, req.target)

\* Every token that was handed out traces back to a login: as its own subject, or
\* through identities taken on by users who were administrators, the marker naming the
\* last of them; and none outlives a full duration from now (mint, refresh, impersonate).
\* An identity taken on takes on another only where it is an administrator's: "Chaining is
\* prevented structurally" (api/auth.rs:153) holds for all others.
TokensTraced ==
  \A t \in tokens :
    /\ t.via = {} => t.sub = t.root
    /\ t.via \subseteq admins
    /\ t.imp # NoUser => t.imp \in t.via
    /\ t.exp <= clock + Duration
=============================================================================
