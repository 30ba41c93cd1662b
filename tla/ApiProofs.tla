----------------------------- MODULE ApiProofs -----------------------------
(***************************************************************************)
(* What the server's API keeps for any accounts, applications, tokens and  *)
(* times: an operation runs for a caller that was admitted, and a token    *)
(* goes back to a login.  And what the file browser keeps for any tree,    *)
(* any requests at once: no name but a part's shows part of a file, and    *)
(* nothing is replaced unasked.                                            *)
(***************************************************************************)
EXTENDS Files, Requests, FiniteSetTheorems, SequenceTheorems, FunctionTheorems,
        WellFoundedInduction, TLAPS

-----------------------------------------------------------------------------
(* Requests.                                                               *)

RequestFields ==
  {"phase", "route", "token", "target", "body", "password", "actor", "read", "arrived", "seen"}

Accounts == [exists : BOOLEAN, admin : BOOLEAN, disabled : BOOLEAN, password : 0..1]

Pending == req.phase \notin {"idle", "answered"}

\* Accounts are those of users, and every administrator was seen to be one.
Accounted ==
  /\ accounts \in [Users -> Accounts]
  /\ \A user \in Users : accounts[user].admin => user \in admins
  /\ clock \in Nat

\* A token names users and goes back to a login.
Traced(t) ==
  /\ t.bearer = TRUE /\ t.sub \in Users /\ t.root \in Users /\ t.exp \in Nat
  /\ t.via = {} => t.sub = t.root
  /\ t.via \subseteq admins
  /\ t.imp # NoUser => t.imp \in t.via
  /\ t.exp <= clock + Duration

\* A request under way carries a token that was handed out and had not expired then, and
\* everything its account has been since.
Carried ==
  /\ DOMAIN req = RequestFields /\ req.password \in 0..1
  /\ req.token = NoToken \/ req.token \in tokens
  /\ req.token # NoToken =>
       /\ req.token.exp >= req.arrived
       /\ accounts[req.token.sub] \in req.seen

\* What stands of a request is one the router makes.
Routed ==
  /\ req.route.gate \in {"open", "authenticated", "admin", "self"}
  /\ req.route.does = "password" => req.route.gate = "authenticated"
  /\ req.route.does = "impersonate" => req.target \in Users
  /\ req.phase = "account" => req.route.does \in {"login", "password"}
  /\ req.phase = "verify" => req.route.does \in {"login", "password"}
  /\ req.phase = "update" => req.route.does = "password"
  /\ req.phase = "account" /\ req.route.does = "login" => req.target \in Users
  /\ req.phase = "verify" /\ req.route.does = "login" => req.target \in Users
  /\ req.phase = "target" =>
       /\ req.target \in Users /\ req.token \in tokens
       /\ req.actor.user \in admins

\* The caller of an operation passed its gate.
Admitted ==
  \/ app.cli \/ ~app.auth \/ req.route.gate = "open"
  \/ /\ req.token # NoToken
     /\ req.token.exp >= req.arrived
     /\ \E account \in req.seen : Passes(req.route.gate, req.token.sub, account, req.target)

\* A request that operates, or is on its way to change a password, was admitted.
OnlyAdmitted ==
  \/ req.phase \in {"operate", "update"}
  \/ req.phase \in {"account", "verify"} /\ req.route.does = "password"
  => Admitted

RequestsInv ==
  /\ Accounted
  /\ \A t \in tokens : Traced(t)
  /\ Pending => Carried /\ Routed /\ OnlyAdmitted

-----------------------------------------------------------------------------
\* What a request that ended leaves.
LEMMA Ends ==
  ASSUME Accounted', \A t \in tokens' : Traced(t)', req'.phase \in {"idle", "answered"}
  PROVE  RequestsInv'
BY DEF RequestsInv, Pending

LEMMA Settled ==
  ASSUME RequestsInv, Unchanged, UNCHANGED tokens
  PROVE  Accounted' /\ \A t \in tokens' : Traced(t)'
BY DEF RequestsInv, Accounted, Traced, Unchanged

LEMMA Refusal ==
  ASSUME NEW slug, Refuse(slug)
  PROVE  req'.phase = "answered"
BY DEF Refuse, Answer, Answered

LEMMA Reply ==
  ASSUME NEW status, Answer(status)
  PROVE  req'.phase = "answered"
BY DEF Answer, Answered

-----------------------------------------------------------------------------
\* Arrivals.
LEMMA PresentedFacts ==
  ASSUME RequestsInv, NEW headers \in Headers
  PROVE  \/ Presented(headers) = NoToken
         \/ Presented(headers) \in tokens /\ Presented(headers).exp >= clock
<1> DEFINE value == IF headers.header # Absent THEN headers.header ELSE headers.cookie
<1>1. value \in {Absent, CliToken, Malformed} \cup tokens
  BY DEF Headers
<1>2. value.bearer => value \in tokens
  BY <1>1 DEF Absent, CliToken, Malformed, Plain
<1>3. bearer_token(headers) = NoToken \/ bearer_token(headers) \in tokens
  BY <1>2 DEF bearer_token
<1> HIDE DEF value
<1> QED BY <1>3 DEF Presented, parse

LEMMA NewRequest ==
  ASSUME RequestsInv, Unchanged, UNCHANGED tokens,
         NEW route, NEW token, NEW r, req' = r,
         \/ token = NoToken
         \/ token \in tokens /\ token.exp >= clock,
         DOMAIN r = RequestFields, r.route = route, r.token = token, r.password \in 0..1,
         r.arrived = Request(route, token).arrived, r.seen = Request(route, token).seen,
         route.gate \in {"open", "authenticated", "admin", "self"},
         route.does = "password" => route.gate = "authenticated",
         route.does = "impersonate" => r.target \in Users,
         \/ r.phase \in {"resolve", "standing"}
         \/ r.phase = "operate" /\ route.gate = "open"
         \/ r.phase = "account" /\ route.does = "login" /\ r.target \in Users
  PROVE  RequestsInv'
<1>1. Accounted' /\ \A t \in tokens' : Traced(t)'
  BY Settled
<1>2. token # NoToken => r.arrived = clock /\ r.seen = {accounts[token.sub]}
  BY DEF Request
<1>3. Carried'
  BY <1>2 DEF Carried, Unchanged
<1>4. Routed'
  BY DEF Routed
<1>5. OnlyAdmitted'
  BY DEF OnlyAdmitted, Admitted
<1> QED BY <1>1, <1>3, <1>4, <1>5 DEF RequestsInv

LEMMA RequestShape ==
  ASSUME NEW route, NEW token
  PROVE  LET r == Request(route, token) IN
         /\ DOMAIN r = RequestFields /\ r.route = route /\ r.token = token
         /\ r.password = 0 /\ r.phase = "resolve"
BY DEF Request, RequestFields

LEMMA Gates ==
  /\ \A route \in host_routes \cup sections \cup {record_routes} :
       /\ route.gate \in {"open", "authenticated", "admin", "self"}
       /\ route.does \notin {"password", "impersonate"}
  /\ \A does : AuthRoute(does).gate = "open" /\ AuthRoute(does).does = does
<1>1. \A route \in EngineRoutes \cup UserRoutes : 
        /\ route.gate \in {"open", "authenticated", "admin", "self"}
        /\ route.does \notin {"password", "impersonate"}
  BY DEF EngineRoutes, UserRoutes, Route
<1>2. \A route \in PermissionRoutes \cup WorkspaceRoutes \cup ComponentRoutes : 
        /\ route.gate \in {"open", "authenticated", "admin", "self"}
        /\ route.does \notin {"password", "impersonate"}
  BY DEF PermissionRoutes, WorkspaceRoutes, ComponentRoutes, Route
<1>3. \A route \in sections \cup {record_routes} : 
        /\ route.gate \in {"open", "authenticated", "admin", "self"}
        /\ route.does \notin {"password", "impersonate"}
  BY DEF sections, record_routes, Route
<1>4. \A does : AuthRoute(does).gate = "open" /\ AuthRoute(does).does = does
  BY DEF AuthRoute, Route
<1> QED BY <1>1, <1>2, <1>3, <1>4 DEF host_routes

LEMMA ArriveKeeps ==
  ASSUME RequestsInv, Arrive
  PROVE  RequestsInv'
<1>1. Unchanged /\ UNCHANGED tokens
  BY DEF Arrive, Unauthorized, build_router, Dispatch, GetHandlers, AskIdentity,
         AskImpersonate, AskLogin, AskPassword, Incoming
<1>2. ASSUME req'.phase = "answered" PROVE RequestsInv'
  BY <1>1, <1>2, Ends, Settled
<1>3. CASE Unauthorized \/ build_router
  BY <1>2, <1>3, Refusal, Reply DEF Unauthorized, build_router
<1>4. CASE Dispatch
  <2>1. PICK headers \in Headers, route \in host_routes,
             named \in Users \cup {NoUser}, body \in {"invalid", "good"} :
          IF route.uuid /\ named = NoUser
          THEN Refuse("not-found")
          ELSE Enter([Request(route, Presented(headers)) EXCEPT
                        !.target = IF NamesUser(route) THEN named ELSE NoUser, !.body = body])
    BY <1>4 DEF Dispatch
  <2> DEFINE token == Presented(headers)
             r == [Request(route, token) EXCEPT
                        !.target = IF NamesUser(route) THEN named ELSE NoUser, !.body = body]
  <2>2. /\ DOMAIN r = RequestFields /\ r.route = route /\ r.token = token
        /\ r.password = 0 /\ r.phase = "resolve"
        /\ r.arrived = Request(route, token).arrived /\ r.seen = Request(route, token).seen
    BY DEF Request, RequestFields
  <2>3. \/ token = NoToken
        \/ token \in tokens /\ token.exp >= clock
    BY PresentedFacts
  <2>4. /\ route.gate \in {"open", "authenticated", "admin", "self"}
        /\ route.does \notin {"password", "impersonate"}
    BY Gates
  <2>5. CASE req' = r
    <3> HIDE DEF r, token
    <3> QED BY <1>1, <2>2, <2>3, <2>4, <2>5, NewRequest
  <2>6. CASE Refuse("not-found")
    BY <1>2, <2>6, Refusal
  <2> QED BY <2>1, <2>5, <2>6 DEF Enter
<1>5. CASE GetHandlers
  <2>1. PICK headers \in Headers, route \in sections \cup {record_routes} :
          Enter([Request(route, Presented(headers)) EXCEPT !.phase =
                   IF route.gate = "open" THEN "operate"
                   ELSE IF route = record_routes /\ Presented(headers) # NoToken
                   THEN "standing" ELSE @])
    BY <1>5 DEF GetHandlers
  <2> DEFINE token == Presented(headers)
             r == [Request(route, token) EXCEPT !.phase =
                   IF route.gate = "open" THEN "operate"
                   ELSE IF route = record_routes /\ token # NoToken THEN "standing" ELSE @]
  <2>2. /\ DOMAIN r = RequestFields /\ r.route = route /\ r.token = token
        /\ r.password = 0
        /\ \/ r.phase \in {"resolve", "standing"}
           \/ r.phase = "operate" /\ route.gate = "open"
        /\ r.arrived = Request(route, token).arrived /\ r.seen = Request(route, token).seen
    BY DEF Request, RequestFields
  <2>3. \/ token = NoToken
        \/ token \in tokens /\ token.exp >= clock
    BY PresentedFacts
  <2>4. /\ route.gate \in {"open", "authenticated", "admin", "self"}
        /\ route.does \notin {"password", "impersonate"}
    BY Gates
  <2>5. req' = r
    BY <2>1 DEF Enter
  <2> HIDE DEF r, token
  <2> QED BY <1>1, <2>2, <2>3, <2>4, <2>5, NewRequest
<1>6. CASE AskIdentity
  <2>1. PICK headers \in Headers, does \in {"me", "logout", "refresh"} :
          \/ Refuse("validation-failed") \/ Refuse("authentication-disabled")
          \/ Enter(Request(AuthRoute(does), Presented(headers)))
    BY <1>6, Zenon DEF AskIdentity
  <2> DEFINE token == Presented(headers)
             route == AuthRoute(does)
             r == Request(route, token)
  <2>2. /\ DOMAIN r = RequestFields /\ r.route = route /\ r.token = token
        /\ r.password = 0 /\ r.phase = "resolve"
    BY RequestShape
  <2>3. \/ token = NoToken
        \/ token \in tokens /\ token.exp >= clock
    BY PresentedFacts
  <2>4. route.gate = "open" /\ route.does \notin {"password", "impersonate"}
    BY Gates
  <2>5. CASE req' = r
    <3>1. req' = Request(route, token) BY <2>5
    <3> HIDE DEF token, route
    <3> QED BY <1>1, <2>2, <2>3, <2>4, <3>1, NewRequest
  <2>6. CASE Refuse("validation-failed") \/ Refuse("authentication-disabled")
    BY <1>2, <2>6, Refusal
  <2> QED BY <2>1, <2>5, <2>6 DEF Enter
<1>7. CASE AskImpersonate
  <2>1. PICK headers \in Headers, named \in Users :
          \/ Refuse("validation-failed") \/ Refuse("authentication-disabled")
          \/ Refuse("not-found")
          \/ Enter([Request(AuthRoute("impersonate"), Presented(headers)) EXCEPT
                     !.target = named])
    BY <1>7, Zenon DEF AskImpersonate
  <2> DEFINE token == Presented(headers)
             route == AuthRoute("impersonate")
             r == [Request(route, token) EXCEPT !.target = named]
  <2>2. /\ DOMAIN r = RequestFields /\ r.route = route /\ r.token = token
        /\ r.password = 0 /\ r.phase = "resolve" /\ r.target = named
        /\ r.arrived = Request(route, token).arrived /\ r.seen = Request(route, token).seen
    BY DEF Request, RequestFields
  <2>3. \/ token = NoToken
        \/ token \in tokens /\ token.exp >= clock
    BY PresentedFacts
  <2>4. route.gate = "open" /\ route.does = "impersonate"
    BY Gates
  <2>5. CASE req' = r
    <3> HIDE DEF r, token, route
    <3> QED BY <1>1, <2>2, <2>3, <2>4, <2>5, NewRequest
  <2>6. CASE Refuse("validation-failed") \/ Refuse("authentication-disabled") \/ Refuse("not-found")
    BY <1>2, <2>6, Refusal
  <2> QED BY <2>1, <2>5, <2>6 DEF Enter
<1>8. CASE AskLogin
  <2>1. PICK named \in Users, password \in 0..1 :
          \/ Refuse("validation-failed") \/ Refuse("authentication-disabled")
          \/ Enter([Request(AuthRoute("login"), NoToken) EXCEPT !.phase = "account",
                      !.target = named, !.password = password])
    BY <1>8, Zenon DEF AskLogin
  <2> DEFINE route == AuthRoute("login")
             r == [Request(route, NoToken) EXCEPT !.phase = "account", !.target = named,
                                                  !.password = password]
  <2>2. /\ DOMAIN r = RequestFields /\ r.route = route /\ r.token = NoToken
        /\ r.password = password /\ r.phase = "account" /\ r.target = named
        /\ r.arrived = Request(route, NoToken).arrived /\ r.seen = Request(route, NoToken).seen
    BY DEF Request, RequestFields
  <2>3. route.gate = "open" /\ route.does = "login"
    BY Gates
  <2>4. CASE req' = r
    <3> HIDE DEF r, route
    <3> QED BY <1>1, <2>2, <2>3, <2>4, NewRequest
  <2>5. CASE Refuse("validation-failed") \/ Refuse("authentication-disabled")
    BY <1>2, <2>5, Refusal
  <2> QED BY <2>1, <2>4, <2>5 DEF Enter
<1>9. CASE AskPassword
  <2>1. PICK headers \in Headers, body \in {"invalid", "good"}, password \in 0..1 :
          Enter([Request([AuthRoute("password") EXCEPT !.gate = "authenticated"],
                         Presented(headers)) EXCEPT !.body = body, !.password = password])
    BY <1>9 DEF AskPassword
  <2> DEFINE token == Presented(headers)
             route == [AuthRoute("password") EXCEPT !.gate = "authenticated"]
             r == [Request(route, token) EXCEPT !.body = body, !.password = password]
  <2>2. /\ DOMAIN r = RequestFields /\ r.route = route /\ r.token = token
        /\ r.password = password /\ r.phase = "resolve"
        /\ r.arrived = Request(route, token).arrived /\ r.seen = Request(route, token).seen
    BY DEF Request, RequestFields
  <2>3. \/ token = NoToken
        \/ token \in tokens /\ token.exp >= clock
    BY PresentedFacts
  <2>4. route.gate = "authenticated" /\ route.does = "password"
    BY DEF AuthRoute, Route
  <2>5. req' = r
    BY <2>1 DEF Enter
  <2> HIDE DEF r, token, route
  <2> QED BY <1>1, <2>2, <2>3, <2>4, <2>5, NewRequest
<1> QED BY <1>3, <1>4, <1>5, <1>6, <1>7, <1>8, <1>9 DEF Arrive

-----------------------------------------------------------------------------
\* The handlers.
LEMMA Minted ==
  ASSUME RequestsInv, Unchanged, NEW sub \in Users, NEW imp, NEW root \in Users, NEW via,
         mint(sub, imp, root, via), via = {} => sub = root, via \subseteq admins,
         imp # NoUser => imp \in via
  PROVE  Accounted' /\ \A t \in tokens' : Traced(t)'
<1>1. Accounted' /\ clock \in Nat /\ Duration \in Nat
  BY RequestsAssumption DEF RequestsInv, Accounted, Unchanged
<1> DEFINE new == Token(sub, imp, root, via)
<1>2. /\ new.bearer = TRUE /\ new.sub = sub /\ new.root = root /\ new.via = via
      /\ new.imp = imp /\ new.exp = clock + Duration
  BY DEF Token
<1> HIDE DEF new
<1>3. Traced(new)
  BY <1>1, <1>2 DEF Traced
<1>4. ASSUME NEW t, Traced(t) PROVE Traced(t)'
  BY <1>4 DEF Traced, Unchanged
<1>5. tokens' = tokens \cup {new}
  BY DEF mint, new
<1> QED BY <1>1, <1>3, <1>4, <1>5 DEF RequestsInv

\* The caller is anonymous, or is the account its token names, as it is now.
LEMMA FoundFacts ==
  ASSUME RequestsInv, Pending
  PROVE  /\ Found.unrestricted = (app.cli \/ ~app.auth)
         /\ \/ Found.user = NoUser
            \/ /\ req.token # NoToken /\ req.token \in tokens
               /\ Found.user = req.token.sub /\ Found.user \in Users
               /\ accounts[Found.user].exists
               /\ Found.admin = accounts[Found.user].admin
               /\ Found.disabled = accounts[Found.user].disabled
<1>1. \/ req.token = NoToken
      \/ req.token \in tokens /\ req.token.sub \in Users
  <2>1. req.token = NoToken \/ req.token \in tokens
    BY DEF RequestsInv, Carried
  <2>2. \A t \in tokens : t.sub \in Users
    BY DEF RequestsInv, Traced
  <2> QED BY <2>1, <2>2
<1>2. /\ Anonymous.unrestricted = (app.cli \/ ~app.auth) /\ Anonymous.user = NoUser
  BY DEF Anonymous, Actor
<1>3. ASSUME NEW sub, NEW account
      PROVE  LET a == Actor(sub, account) IN
             /\ a.unrestricted = (app.cli \/ ~app.auth) /\ a.user = sub
             /\ a.admin = account.admin /\ a.disabled = account.disabled
  BY DEF Actor
<1>4. CASE Found = Anonymous
  BY <1>2, <1>4
<1>5. CASE /\ req.token # NoToken /\ accounts[req.token.sub].exists
           /\ Found = Actor(req.token.sub, accounts[req.token.sub])
  BY <1>1, <1>3, <1>5
<1> QED BY <1>4, <1>5 DEF Found

\* A gate that says "ok" lets through whom it should.
LEMMA GateAdmits ==
  ASSUME RequestsInv, Pending, admit_gate(req.route.gate, Found, req.target) = "ok"
  PROVE  Admitted
<1> SUFFICES ASSUME ~app.cli, app.auth, req.route.gate # "open" PROVE Admitted
  BY DEF Admitted
<1>1. /\ ~Found.unrestricted
      /\ req.route.gate \in {"open", "authenticated", "admin", "self"}
      /\ Carried
  BY FoundFacts DEF RequestsInv, Routed
<1>2. require_authenticated(Found) = "ok" => Found.user # NoUser /\ ~Found.disabled
  BY <1>1 DEF require_authenticated
<1>3. /\ Found.user # NoUser /\ ~Found.disabled
      /\ req.route.gate = "admin" => Found.admin
      /\ req.route.gate = "self" => Found.admin \/ Found.user = req.target
  BY <1>1, <1>2 DEF admit_gate, require_admin, require_self_or_admin
<1>4. /\ req.token # NoToken
      /\ Found.user = req.token.sub /\ accounts[req.token.sub].exists
      /\ Found.admin = accounts[req.token.sub].admin
      /\ Found.disabled = accounts[req.token.sub].disabled
  BY <1>3, FoundFacts
<1>5. Passes(req.route.gate, req.token.sub, accounts[req.token.sub], req.target)
  BY <1>1, <1>3, <1>4 DEF Passes
<1> QED BY <1>1, <1>4, <1>5 DEF Carried, Admitted

\* A step of a request within its handler.
LEMMA Moves ==
  ASSUME RequestsInv, Pending, Unchanged, UNCHANGED tokens, DOMAIN req' = RequestFields,
         req'.password = req.password, req'.token = req.token, req'.arrived = req.arrived,
         req'.seen = req.seen, Routed', OnlyAdmitted'
  PROVE  RequestsInv'
<1>1. Carried'
  BY DEF RequestsInv, Carried, Unchanged
<1> QED BY <1>1, Settled DEF RequestsInv

LEMMA ContinueKeeps ==
  ASSUME RequestsInv, req.phase \in {"resolve", "standing"}, Continue(Found), Unchanged
  PROVE  RequestsInv'
<1> DEFINE actor == Found
<1>1. Pending /\ Carried /\ Routed
  BY DEF RequestsInv, Pending
<1>2. /\ actor.unrestricted = (app.cli \/ ~app.auth)
      /\ \/ actor.user = NoUser
         \/ /\ req.token # NoToken /\ req.token \in tokens
            /\ actor.user = req.token.sub /\ actor.user \in Users
            /\ accounts[actor.user].exists
            /\ actor.admin = accounts[actor.user].admin
            /\ actor.disabled = accounts[actor.user].disabled
  BY <1>1, FoundFacts
<1>3. ASSUME UNCHANGED tokens, req'.phase = "answered" PROVE RequestsInv'
  BY <1>3, Ends, Settled
<1>4. admit_gate(req.route.gate, actor, req.target) = "ok" => Admitted
  BY <1>1, GateAdmits
<1>5. Continue(actor)
  OBVIOUS
<1>6. NoUser \notin Users
  BY RequestsAssumption DEF NoUser
<1> HIDE DEF actor
<1>7. CASE req.route.does \in {"me", "logout", "refresh"}
  <2>1. respond_identity(actor)
    BY <1>5, <1>7 DEF Continue
  <2>2. CASE UNCHANGED tokens /\ (Refuse("not-authenticated") \/ Answer(200))
    BY <1>3, <2>2, Refusal, Reply
  <2>3. CASE /\ actor.user # NoUser /\ Answer(200)
             /\ mint(actor.user, NoUser, req.token.root, req.token.via)
    <3>1. Traced(req.token) /\ actor.user = req.token.sub /\ actor.user \in Users
      BY <1>2, <2>3 DEF RequestsInv
    <3>2. /\ req.token.root \in Users /\ req.token.via \subseteq admins
          /\ req.token.via = {} => actor.user = req.token.root
      BY <3>1 DEF Traced
    <3>3. mint(actor.user, NoUser, req.token.root, req.token.via)
      BY <2>3
    <3>4. Accounted' /\ \A t \in tokens' : Traced(t)'
      BY <3>1, <3>2, <3>3, Minted
    <3> QED BY <2>3, <3>4, Reply, Ends
  <2> QED BY <1>7, <2>1, <2>2, <2>3 DEF respond_identity
<1>8. CASE req.route.does = "impersonate"
  <2>1. impersonate(actor) /\ UNCHANGED tokens
    BY <1>5, <1>8 DEF Continue, impersonate
  <2>2. CASE Refuse("not-authenticated") \/ Refuse("not-permitted")
    BY <1>3, <2>1, <2>2, Refusal
  <2>3. CASE /\ actor.user # NoUser /\ actor.admin
             /\ req' = [req EXCEPT !.phase = "target", !.actor = actor]
    <3>1. /\ DOMAIN req' = RequestFields /\ req'.phase = "target" /\ req'.actor = actor
          /\ \A f \in RequestFields \ {"phase", "actor"} : req'[f] = req[f]
      BY <1>1, <2>3 DEF Carried, RequestFields
    <3>2. req'.route = req.route /\ req'.token = req.token /\ req'.target = req.target
          /\ req'.password = req.password /\ req'.arrived = req.arrived /\ req'.seen = req.seen
      BY <3>1 DEF RequestFields
    <3>3. actor.user \in admins
      BY <1>2, <2>3 DEF RequestsInv, Accounted
    <3>4. req.token \in tokens /\ tokens' = tokens /\ admins' = admins
      BY <1>2, <2>1, <2>3 DEF Unchanged
    <3>5. Routed'
      BY <1>1, <1>8, <3>1, <3>2, <3>3, <3>4 DEF Routed
    <3>6. OnlyAdmitted'
      BY <3>1 DEF OnlyAdmitted
    <3> QED BY <1>1, <2>1, <3>1, <3>2, <3>5, <3>6, Moves
  <2> QED BY <2>1, <2>2, <2>3 DEF impersonate
<1>9. CASE req.route.does \notin {"me", "logout", "refresh", "impersonate"}
  <2> DEFINE gated == admit_gate(req.route.gate, actor, req.target)
             phase == IF req.route.does = "password" THEN "account" ELSE "operate"
  <2>1. answer(actor) /\ UNCHANGED tokens
    BY <1>5, <1>9 DEF Continue, answer
  <2>2. CASE Refuse(gated) \/ Answer(401) \/ Refuse("validation-failed")
    BY <1>3, <2>1, <2>2, Refusal, Reply
  <2>3. CASE gated = "ok" /\ req' = [req EXCEPT !.actor = actor, !.phase = phase]
    <3>1. /\ DOMAIN req' = RequestFields /\ req'.phase = phase
          /\ \A f \in RequestFields \ {"phase", "actor"} : req'[f] = req[f]
      BY <1>1, <2>3 DEF Carried, RequestFields
    <3>2. req'.route = req.route /\ req'.token = req.token /\ req'.target = req.target
          /\ req'.password = req.password /\ req'.arrived = req.arrived /\ req'.seen = req.seen
      BY <3>1 DEF RequestFields
    <3>3. Admitted
      BY <1>4, <2>3
    <3>4. Routed'
      BY <1>1, <1>9, <3>1, <3>2 DEF Routed
    <3>5. OnlyAdmitted'
      BY <3>2, <3>3 DEF OnlyAdmitted, Admitted, Unchanged
    <3> QED BY <1>1, <2>1, <3>1, <3>2, <3>4, <3>5, Moves
  <2> QED BY <2>1, <2>2, <2>3 DEF answer
<1> QED BY <1>7, <1>8, <1>9
LEMMA HandlersKeep ==
  ASSUME RequestsInv, \/ identity \/ native_gate_user \/ impersonate_target \/ verify_login
                      \/ verify_password \/ HostFails
  PROVE  RequestsInv'
<1>1. Unchanged /\ Pending /\ Carried /\ Routed
  BY DEF identity, native_gate_user, impersonate_target, verify_login, verify_password,
         HostFails, RequestsInv, Pending
<1>2. ASSUME UNCHANGED tokens, req'.phase = "answered" PROVE RequestsInv'
  BY <1>1, <1>2, Ends, Settled
<1>3. ASSUME NEW phase, UNCHANGED tokens, req' = [req EXCEPT !.phase = phase]
      PROVE  /\ DOMAIN req' = RequestFields /\ req'.phase = phase
             /\ req'.route = req.route /\ req'.token = req.token /\ req'.target = req.target
             /\ req'.password = req.password /\ req'.arrived = req.arrived
             /\ req'.seen = req.seen /\ req'.actor = req.actor
  BY <1>1, <1>3 DEF Carried, RequestFields
<1>4. CASE identity
  BY <1>1, <1>4, ContinueKeeps DEF identity
<1>5. CASE native_gate_user
  <2>1. CASE Continue(Found)
    BY <1>1, <1>5, <2>1, ContinueKeeps DEF native_gate_user
  <2>2. CASE req' = [req EXCEPT !.phase = "resolve"] /\ UNCHANGED tokens
    <3>1. Routed'
      BY <1>1, <1>3, <2>2 DEF Routed
    <3>2. OnlyAdmitted'
      BY <1>3, <2>2 DEF OnlyAdmitted
    <3> QED BY <1>1, <1>3, <2>2, <3>1, <3>2, Moves
  <2> QED BY <1>5, <2>1, <2>2 DEF native_gate_user
<1>6. CASE impersonate_target
  <2>1. CASE Refuse("not-found") /\ UNCHANGED tokens
    BY <1>2, <2>1, Refusal
  <2>2. CASE /\ mint(req.target, req.actor.user, req.token.root,
                     req.token.via \cup {req.actor.user})
             /\ Answer(200)
    <3>1. req.target \in Users /\ req.token \in tokens /\ req.actor.user \in admins
      BY <1>1, <1>6 DEF Routed, impersonate_target
    <3>2. req.token.root \in Users /\ req.token.via \subseteq admins
      BY <3>1 DEF RequestsInv, Traced
    <3> DEFINE via == req.token.via \cup {req.actor.user}
    <3>3. via # {} /\ via \subseteq admins /\ req.actor.user \in via
      BY <3>1, <3>2
    <3>4. mint(req.target, req.actor.user, req.token.root, via)
      BY <2>2
    <3> HIDE DEF via
    <3>5. Accounted' /\ \A t \in tokens' : Traced(t)'
      BY <1>1, <3>1, <3>2, <3>3, <3>4, Minted
    <3> QED BY <2>2, <3>5, Reply, Ends
  <2> QED BY <1>6, <2>1, <2>2 DEF impersonate_target
<1>7. CASE verify_login
  <2> DEFINE user == IF req.route.does = "login" THEN req.target ELSE req.actor.user
  <2>1. /\ req' = [req EXCEPT !.phase = "verify", !.read = accounts[user], !.target = user]
        /\ UNCHANGED tokens /\ req.phase = "account"
    BY <1>7 DEF verify_login
  <2>2. /\ DOMAIN req' = RequestFields /\ req'.phase = "verify" /\ req'.target = user
        /\ req'.route = req.route /\ req'.token = req.token
        /\ req'.password = req.password /\ req'.arrived = req.arrived /\ req'.seen = req.seen
    BY <1>1, <2>1 DEF Carried, RequestFields
  <2>3. Routed'
    BY <1>1, <2>1, <2>2 DEF Routed
  <2>4. OnlyAdmitted'
    <3> SUFFICES ASSUME req.route.does = "password" PROVE Admitted'
      BY <2>2 DEF OnlyAdmitted
    <3>1. Admitted /\ req.route.gate = "authenticated"
      BY <1>1, <2>1 DEF RequestsInv, OnlyAdmitted, Routed
    <3> QED BY <1>1, <2>2, <3>1 DEF Admitted, Passes, Unchanged
  <2> QED BY <1>1, <2>1, <2>2, <2>3, <2>4, Moves
<1>8. CASE verify_password
  <2>1. CASE Refuse("bad-credentials") /\ UNCHANGED tokens
    BY <1>2, <2>1, Refusal
  <2>2. CASE /\ req.route.does = "login" /\ Answer(200)
             /\ mint(req.target, NoUser, req.target, {})
    <3>1. req.target \in Users
      BY <1>1, <1>8, <2>2 DEF Routed, verify_password
    <3>2. mint(req.target, NoUser, req.target, {})
      BY <2>2
    <3>3. Accounted' /\ \A t \in tokens' : Traced(t)'
      BY <1>1, <3>1, <3>2, Minted
    <3> QED BY <2>2, <3>3, Reply, Ends
  <2>3. CASE /\ req.route.does # "login"
             /\ req' = [req EXCEPT !.phase = "update"] /\ UNCHANGED tokens
    <3>1. req.phase = "verify" /\ req.route.does = "password"
      BY <1>1, <1>8, <2>3 DEF Routed, verify_password
    <3>2. Routed'
      BY <1>1, <1>3, <2>3, <3>1 DEF Routed
    <3>3. Admitted
      BY <1>1, <3>1 DEF RequestsInv, OnlyAdmitted
    <3>4. OnlyAdmitted'
      BY <1>1, <1>3, <2>3, <3>3 DEF OnlyAdmitted, Admitted, Unchanged
    <3> QED BY <1>1, <1>3, <2>3, <3>2, <3>4, Moves
  <2> QED BY <1>8, <2>1, <2>2, <2>3 DEF verify_password
<1>9. CASE HostFails
  BY <1>2, <1>9, Refusal DEF HostFails
<1> QED BY <1>4, <1>5, <1>6, <1>7, <1>8, <1>9

\* A step after which the accounts are others.
LEMMA AccountsChange ==
  ASSUME RequestsInv, accounts' \in [Users -> Accounts], UNCHANGED <<clock, tokens>>,
         admins' = admins \cup {user \in Users : accounts'[user].admin}
  PROVE  Accounted' /\ \A t \in tokens' : Traced(t)'
BY DEF RequestsInv, Accounted, Traced

LEMMA AccountTyped ==
  /\ NoAccount \in Accounts /\ Created \subseteq Accounts
  /\ \A a \in BOOLEAN, d \in BOOLEAN, p \in 0..1 : Account(a, d, p) \in Accounts
<1>1. \A a \in BOOLEAN, d \in BOOLEAN, p \in 0..1 : Account(a, d, p) \in Accounts
  BY DEF Account, Accounts
<1>2. ASSUME NEW account \in Created PROVE account \in Accounts
  <2>1. PICK a \in BOOLEAN : account = Account(a, FALSE, 0)
    BY <1>2, Zenon DEF Created
  <2>2. 0 \in 0..1 /\ FALSE \in BOOLEAN
    OBVIOUS
  <2> QED BY <1>1, <2>1, <2>2
<1> QED BY <1>1, <1>2 DEF NoAccount, Accounts

LEMMA AccountEdited ==
  ASSUME NEW a \in Accounts, NEW b \in BOOLEAN, NEW p \in 0..1
  PROVE  /\ [a EXCEPT !.admin = b] \in Accounts /\ [a EXCEPT !.disabled = b] \in Accounts
         /\ [a EXCEPT !.password = p] \in Accounts
BY DEF Accounts

LEMMA OperationsKeep ==
  ASSUME RequestsInv, respond \/ change_password \/ Finish
  PROVE  RequestsInv'
<1>1. accounts \in [Users -> Accounts]
  BY DEF RequestsInv, Accounted
<1>2. CASE respond
  <2>1. req'.phase = "answered"
    BY <1>2, Reply, Refusal DEF respond, Answered
  <2>2. accounts' \in [Users -> Accounts]
    <3>1. CASE UNCHANGED accounts
      BY <1>1, <3>1
    <3>2. CASE /\ req.route.does \in {"create", "update", "delete"}
               /\ \E account \in Operated(req.route.does, req.target) :
                    accounts' = [accounts EXCEPT ![req.target] = account]
      <4>1. PICK account \in Operated(req.route.does, req.target) :
              accounts' = [accounts EXCEPT ![req.target] = account]
        BY <3>2
      <4>2. CASE req.target \in Users
        <5>1. accounts[req.target].password \in 0..1
          BY <1>1, <4>2 DEF Accounts
        <5>2. account \in Accounts
          <6>1. CASE req.route.does = "create"
            BY <4>1, <6>1, AccountTyped DEF Operated
          <6>2. CASE req.route.does = "update"
            <7>1. PICK a \in BOOLEAN, d \in BOOLEAN :
                    account = Account(a, d, accounts[req.target].password)
              BY <4>1, <6>2 DEF Operated
            <7> QED BY <5>1, <7>1, AccountTyped
          <6>3. CASE req.route.does = "delete"
            BY <4>1, <6>3, AccountTyped DEF Operated
          <6> QED BY <3>2, <6>1, <6>2, <6>3
        <5> QED BY <1>1, <4>1, <5>2
      <4>3. CASE req.target \notin Users
        BY <1>1, <4>1, <4>3
      <4> QED BY <4>2, <4>3
    <3> QED BY <1>2, <3>1, <3>2 DEF respond
  <2> QED BY <1>2, <2>1, <2>2, AccountsChange, Ends DEF respond
<1>3. CASE change_password
  <2>1. req'.phase = "answered"
    BY <1>3, Reply DEF change_password
  <2>2. req.password \in 0..1
    BY <1>3 DEF RequestsInv, change_password, Pending, Carried
  <2>3. /\ accounts' \in [Users -> Accounts]
        /\ \A user \in Users : accounts'[user].admin = accounts[user].admin
    <3>1. CASE accounts' = accounts
      BY <1>1, <3>1
    <3>2. CASE accounts' = [accounts EXCEPT ![req.target].password = 1 - req.password]
      <4> DEFINE new == [accounts[req.target] EXCEPT !.password = 1 - req.password]
      <4>1. accounts' = [accounts EXCEPT ![req.target] = new]
        BY <3>2
      <4>2. req.target \in Users => new \in Accounts /\ new.admin = accounts[req.target].admin
        BY <1>1, <2>2 DEF Accounts
      <4> HIDE DEF new
      <4> QED BY <1>1, <4>1, <4>2
    <3> QED BY <1>3, <3>1, <3>2 DEF change_password
  <2> QED BY <1>3, <2>1, <2>3, Ends DEF change_password, RequestsInv, Accounted, Traced
<1>4. CASE Finish
  BY <1>4, Ends DEF Finish, IdleRequest, RequestsInv, Accounted, Traced
<1> QED BY <1>2, <1>3, <1>4
LEMMA AlterKeeps ==
  ASSUME RequestsInv, Alter
  PROVE  RequestsInv'
<1>1. accounts \in [Users -> Accounts]
  BY DEF RequestsInv, Accounted
<1>2. PICK user \in Users : \E account \in Altered(accounts[user]) :
        /\ accounts' = [accounts EXCEPT ![user] = account]
        /\ req' = IF req.phase \notin {"idle", "answered"} /\ req.token # NoToken
                  THEN [req EXCEPT !.seen = @ \cup {accounts'[req.token.sub]}] ELSE req
  BY DEF Alter
<1>3. PICK account \in Altered(accounts[user]) :
        /\ accounts' = [accounts EXCEPT ![user] = account]
        /\ req' = IF req.phase \notin {"idle", "answered"} /\ req.token # NoToken
                  THEN [req EXCEPT !.seen = @ \cup {accounts'[req.token.sub]}] ELSE req
  BY <1>2
<1>4. account \in Accounts
  <2>1. /\ accounts[user] \in Accounts /\ (~accounts[user].admin) \in BOOLEAN
        /\ (~accounts[user].disabled) \in BOOLEAN /\ 1 - accounts[user].password \in 0..1
    BY <1>1 DEF Accounts
  <2>2. /\ [accounts[user] EXCEPT !.admin = ~@] \in Accounts
        /\ [accounts[user] EXCEPT !.disabled = ~@] \in Accounts
        /\ [accounts[user] EXCEPT !.password = 1 - @] \in Accounts
    BY <2>1, AccountEdited
  <2>3. 0 \in 0..1
    OBVIOUS
  <2> QED BY <1>3, <2>2, <2>3, AccountTyped DEF Altered
<1>5. accounts' \in [Users -> Accounts]
  BY <1>1, <1>3, <1>4
<1>6. Accounted' /\ \A t \in tokens' : Traced(t)'
  BY <1>5, AccountsChange DEF Alter
<1>7. CASE ~Pending
  BY <1>3, <1>6, <1>7, Ends DEF Pending
<1>8. CASE Pending
  <2>1. Carried /\ Routed /\ OnlyAdmitted
    BY <1>8 DEF RequestsInv
  <2>2. /\ DOMAIN req' = RequestFields /\ req.seen \subseteq req'.seen
        /\ req.token # NoToken => accounts'[req.token.sub] \in req'.seen
        /\ \A f \in RequestFields \ {"seen"} : req'[f] = req[f]
    BY <1>3, <1>8, <2>1 DEF Pending, Carried, RequestFields
  <2>3. /\ req'.phase = req.phase /\ req'.route = req.route /\ req'.token = req.token
        /\ req'.target = req.target /\ req'.password = req.password
        /\ req'.arrived = req.arrived /\ req'.actor = req.actor
    BY <2>2 DEF RequestFields
  <2>4. Carried'
    BY <2>1, <2>2, <2>3 DEF Carried, Alter
  <2>5. Routed'
    BY <2>1, <2>3 DEF Routed, Alter
  <2>6. OnlyAdmitted'
    BY <2>1, <2>2, <2>3 DEF OnlyAdmitted, Admitted, Alter
  <2> QED BY <1>6, <2>4, <2>5, <2>6 DEF RequestsInv
<1> QED BY <1>7, <1>8

LEMMA RequestsStart == RequestsInit => RequestsInv
BY RequestsAssumption DEF RequestsInit, RequestsInv, Accounted, Accounts, Pending, IdleRequest

LEMMA RequestsStep == RequestsInv /\ [RequestsNext]_requestVars => RequestsInv'
<1> SUFFICES ASSUME RequestsInv, [RequestsNext]_requestVars PROVE RequestsInv'
  OBVIOUS
<1>1. CASE Arrive
  BY <1>1, ArriveKeeps
<1>2. CASE Handle
  BY <1>2, HandlersKeep, OperationsKeep DEF Handle
<1>3. CASE Alter
  BY <1>3, AlterKeeps
<1>4. CASE Tick
  <2>1. Accounted' /\ clock' = clock + 1 /\ clock \in Nat /\ Duration \in Nat
    BY <1>4, RequestsAssumption DEF Tick, RequestsInv, Accounted
  <2>2. \A t \in tokens' : Traced(t)'
    BY <1>4, <2>1 DEF Tick, RequestsInv, Traced
  <2> QED BY <1>4, <2>1, <2>2 DEF Tick, RequestsInv, Pending, Carried, Routed, OnlyAdmitted,
        Admitted
<1>5. CASE UNCHANGED requestVars
  BY <1>5 DEF requestVars, RequestsInv, Accounted, Traced, Pending, Carried, Routed,
        OnlyAdmitted, Admitted
<1> QED BY <1>1, <1>2, <1>3, <1>4, <1>5 DEF RequestsNext

\* Whatever happens to accounts and tokens while requests are served: an operation, and the
\* change of a password, runs only for a caller whose token had not expired when the
\* request arrived and whose account passed the route's gate at some moment since
\* (actor, admit, Gate::admit and change_password).
THEOREM AlwaysActsAsAdmitted == RequestsSpec => []ActsAsAdmitted
<1>1. RequestsInv => ActsAsAdmitted
  BY DEF RequestsInv, Pending, OnlyAdmitted, Admitted, ActsAsAdmitted
<1> QED BY <1>1, RequestsStart, RequestsStep, PTL DEF RequestsSpec

\* Every token traces back to a login, as its own subject or through identities that
\* administrators took on, and lasts at most a full duration from now (mint, refresh,
\* impersonate).
THEOREM AlwaysTokensTraced == RequestsSpec => []TokensTraced
<1>1. RequestsInv => TokensTraced
  BY DEF RequestsInv, Traced, TokensTraced
<1> QED BY <1>1, RequestsStart, RequestsStep, PTL DEF RequestsSpec

-----------------------------------------------------------------------------
(* Files: numbers and paths.                                               *)

\* A set of numbers that is not empty has a smallest one.
LEMMA SmallestOf ==
  ASSUME NEW T, T \subseteq Nat, T # {}
  PROVE  \E x \in T : \A y \in T : x <= y
<1> DEFINE R == OpToRel(<, Nat)
<1>1. IsWellFoundedOn(R, Nat)
  BY NatLessThanWellFounded
<1>2. R = {ss \in Nat \X Nat : ss[1] < ss[2]}
  BY DEF OpToRel
<1> HIDE DEF R
<1>3. \E x \in T : \A y \in T : ~(<<y, x>> \in R)
  BY <1>1, WFMin
<1>4. \A x, y \in T : ~(<<y, x>> \in R) => x <= y
  BY <1>2
<1> QED BY <1>3, <1>4

Paths == Seq(Int)

LEMMA PathAt ==
  ASSUME NEW p \in Paths
  PROVE  Len(p) \in Nat /\ \A i \in 1 .. Len(p) : p[i] \in Int
BY DEF Paths

LEMMA SamePath ==
  ASSUME NEW p \in Paths, NEW q \in Paths, Len(p) = Len(q),
         \A i \in 1 .. Len(p) : p[i] = q[i]
  PROVE  p = q
BY SeqEqual DEF Paths

LEMMA SubPath ==
  ASSUME NEW p \in Paths, NEW n \in 0 .. Len(p)
  PROVE  /\ SubSeq(p, 1, n) \in Paths /\ Len(SubSeq(p, 1, n)) = n
         /\ \A i \in 1 .. n : SubSeq(p, 1, n)[i] = p[i]
BY DEF Paths

LEMMA PrefixAt ==
  ASSUME NEW p \in Paths, NEW q \in Paths
  PROVE  IsPrefix(p, q) <=> Len(p) <= Len(q) /\ \A i \in 1 .. Len(p) : p[i] = q[i]
<1>1. SubSeq(p, 1, Len(p)) \in Paths /\ Len(SubSeq(p, 1, Len(p))) = Len(p)
      /\ \A i \in 1 .. Len(p) : SubSeq(p, 1, Len(p))[i] = p[i]
  BY SubPath, PathAt
<1>2. ASSUME Len(p) <= Len(q)
      PROVE  SubSeq(q, 1, Len(p)) \in Paths /\ Len(SubSeq(q, 1, Len(p))) = Len(p)
             /\ \A i \in 1 .. Len(p) : SubSeq(q, 1, Len(p))[i] = q[i]
  BY <1>2, SubPath, PathAt
<1>3. ASSUME IsPrefix(p, q)
      PROVE  Len(p) <= Len(q) /\ \A i \in 1 .. Len(p) : p[i] = q[i]
  BY <1>1, <1>2, <1>3 DEF IsPrefix
<1>4. ASSUME Len(p) <= Len(q), \A i \in 1 .. Len(p) : p[i] = q[i]
      PROVE  IsPrefix(p, q)
  <2>1. SubSeq(p, 1, Len(p)) = SubSeq(q, 1, Len(p))
    BY <1>1, <1>2, <1>4, SamePath, PathAt
  <2> QED BY <2>1, <1>4 DEF IsPrefix
<1> QED BY <1>3, <1>4

\* A prefix is an initial piece.
LEMMA PrefixIsSub ==
  ASSUME NEW p \in Paths, NEW q \in Paths, IsPrefix(p, q)
  PROVE  p = SubSeq(q, 1, Len(p))
<1>1. Len(p) \in 0 .. Len(q) /\ \A i \in 1 .. Len(p) : p[i] = q[i]
  BY PrefixAt, PathAt
<1>2. SubSeq(q, 1, Len(p)) \in Paths /\ Len(SubSeq(q, 1, Len(p))) = Len(p)
      /\ \A i \in 1 .. Len(p) : SubSeq(q, 1, Len(p))[i] = q[i]
  BY <1>1, SubPath
<1> QED BY <1>1, <1>2, SamePath

LEMMA SubIsPrefix ==
  ASSUME NEW q \in Paths, NEW n \in 0 .. Len(q)
  PROVE  IsPrefix(SubSeq(q, 1, n), q)
<1> DEFINE s == SubSeq(q, 1, n)
<1>1. s \in Paths /\ Len(s) = n /\ \A i \in 1 .. n : s[i] = q[i]
  BY SubPath
<1> HIDE DEF s
<1>2. Len(s) <= Len(q) /\ \A i \in 1 .. Len(s) : s[i] = q[i]
  BY <1>1, PathAt
<1>3. IsPrefix(s, q)
  BY <1>1, <1>2, PrefixAt
<1> QED BY <1>3 DEF s

LEMMA RebasedAt ==
  ASSUME NEW p \in Paths, NEW from \in Paths, NEW to \in Paths, Len(from) <= Len(p)
  PROVE  LET r == Rebased(p, from, to) IN
         /\ r \in Paths /\ Len(r) = Len(to) + Len(p) - Len(from)
         /\ \A i \in 1 .. Len(to) : r[i] = to[i]
         /\ \A i \in Len(to) + 1 .. Len(r) : r[i] = p[i - Len(to) + Len(from)]
<1> DEFINE rest == SubSeq(p, Len(from) + 1, Len(p))
           r == to \o rest
<1>1. rest \in Paths /\ Len(rest) = Len(p) - Len(from)
      /\ \A i \in 1 .. Len(rest) : rest[i] = p[i + Len(from)]
  BY PathAt DEF Paths
<1> HIDE DEF rest
<1>2. Rebased(p, from, to) = r
  BY DEF Rebased, rest
<1>3. r \in Paths /\ Len(r) = Len(to) + Len(rest)
      /\ \A i \in 1 .. Len(to) + Len(rest) : r[i] = IF i <= Len(to) THEN to[i] ELSE rest[i - Len(to)]
  <2>1. rest \in Seq(Int) /\ to \in Seq(Int)
    BY <1>1 DEF Paths
  <2>2. /\ r \in Seq(Int) /\ Len(r) = Len(to) + Len(rest)
        /\ \A i \in 1 .. Len(to) + Len(rest) :
             r[i] = IF i <= Len(to) THEN to[i] ELSE rest[i - Len(to)]
    BY <2>1, ConcatProperties
  <2> QED BY <2>2 DEF Paths
<1> HIDE DEF r
<1>4. Len(to) \in Nat /\ Len(from) \in Nat /\ Len(p) \in Nat
  BY PathAt
<1>5. \A i \in 1 .. Len(to) : r[i] = to[i]
  BY <1>1, <1>3, <1>4
<1>6. ASSUME NEW i \in Len(to) + 1 .. Len(r)
      PROVE  r[i] = p[i - Len(to) + Len(from)]
  <2>1. i - Len(to) \in 1 .. Len(rest) /\ i \in 1 .. Len(to) + Len(rest) /\ ~(i <= Len(to))
    BY <1>1, <1>3, <1>4
  <2> QED BY <2>1, <1>1, <1>3
<1> QED BY <1>1, <1>2, <1>3, <1>4, <1>5, <1>6

LEMMA AppendAt ==
  ASSUME NEW p \in Paths, NEW x \in Int
  PROVE  LET r == Append(p, x) IN
         /\ r \in Paths /\ Len(r) = Len(p) + 1 /\ r # <<>> /\ r[Len(r)] = x
         /\ \A i \in 1 .. Len(p) : r[i] = p[i]
         /\ Front(r) = p /\ Last(r) = x
<1> DEFINE r == Append(p, x)
<1>1. /\ r \in Paths /\ Len(r) = Len(p) + 1
      /\ r[Len(p) + 1] = x
      /\ \A i \in 1 .. Len(p) : r[i] = p[i]
  BY DEF Paths
<1> HIDE DEF r
<1>2. Len(p) \in Nat /\ Len(p) \in 0 .. Len(r)
  BY <1>1, PathAt
<1>3. SubSeq(r, 1, Len(p)) \in Paths /\ Len(SubSeq(r, 1, Len(p))) = Len(p)
      /\ \A i \in 1 .. Len(p) : SubSeq(r, 1, Len(p))[i] = r[i]
  BY <1>1, <1>2, SubPath
<1>4. SubSeq(r, 1, Len(p)) = p
  BY <1>1, <1>2, <1>3, SamePath
<1>5. Len(r) - 1 = Len(p) /\ r # <<>>
  BY <1>1, <1>2
<1>6. Front(r) = p /\ Last(r) = x
  BY <1>1, <1>4, <1>5 DEF Front, Last
<1> QED BY <1>1, <1>5, <1>6 DEF r

LEMMA FrontAt ==
  ASSUME NEW p \in Paths, p # <<>>
  PROVE  /\ Front(p) \in Paths /\ Len(Front(p)) = Len(p) - 1 /\ Len(p) >= 1
         /\ \A i \in 1 .. Len(p) - 1 : Front(p)[i] = p[i]
         /\ Front(p) = SubSeq(p, 1, Len(p) - 1)
         /\ Last(p) = p[Len(p)] /\ Last(p) \in Int
<1>1. Len(p) >= 1 /\ Len(p) \in Nat
  BY EmptySeq DEF Paths
<1>2. Len(p) - 1 \in 0 .. Len(p) /\ Len(p) \in 1 .. Len(p)
  BY <1>1
<1>3. p[Len(p)] \in Int
  BY <1>2, PathAt
<1> DEFINE f == SubSeq(p, 1, Len(p) - 1)
<1>4. f \in Paths /\ Len(f) = Len(p) - 1 /\ \A i \in 1 .. Len(p) - 1 : f[i] = p[i]
  BY <1>2, SubPath
<1> QED BY <1>1, <1>3, <1>4 DEF Front, Last

-----------------------------------------------------------------------------
(* Where paths lead.                                                       *)

\* One step of a resolution, from what the names before led to.
Onto(at, name) ==
  IF ~IsDir(at) THEN Gone ELSE Follow(Append(at, name))

LEMMA ResolutionExists ==
  ASSUME NEW path
  PROVE  \A m \in Nat : \E g : g = [n \in 0 .. m |-> IF n = 0 THEN <<>> ELSE Onto(g[n - 1], path[n])]
<1> DEFINE Fix(g, m) == g = [n \in 0 .. m |-> IF n = 0 THEN <<>> ELSE Onto(g[n - 1], path[n])]
           Bad == {m \in Nat : ~\E g : Fix(g, m)}
<1>1. SUFFICES ASSUME Bad # {} PROVE FALSE
  OBVIOUS
<1>2. PICK m \in Bad : \A k \in Bad : m <= k
  <2> HIDE DEF Fix
  <2> QED BY <1>1, SmallestOf
<1>3. m # 0
  <2>1. Fix([n \in 0 .. 0 |-> <<>>], 0)
    OBVIOUS
  <2> QED BY <2>1
<1>4. m - 1 \in Nat /\ m - 1 \notin Bad
  <2> HIDE DEF Fix
  <2> QED BY <1>2, <1>3
<1>5. PICK g : Fix(g, m - 1)
  BY <1>4
<1> DEFINE h == [n \in 0 .. m |-> IF n < m THEN g[n] ELSE Onto(g[m - 1], path[m])]
<1>6. ASSUME NEW n \in 0 .. m
      PROVE  h[n] = IF n = 0 THEN <<>> ELSE Onto(h[n - 1], path[n])
  <2>1. CASE n = 0
    BY <2>1, <1>3, <1>4, <1>5
  <2>2. CASE n # 0 /\ n < m
    <3>1. n \in 0 .. m - 1 /\ n - 1 < m /\ n - 1 \in 0 .. m
      BY <2>2, <1>4
    <3>2. h[n] = g[n] /\ h[n - 1] = g[n - 1]
      BY <3>1, <2>2
    <3>3. g[n] = IF n = 0 THEN <<>> ELSE Onto(g[n - 1], path[n])
      BY <3>1, <1>5
    <3> QED BY <2>2, <3>2, <3>3
  <2>3. CASE n = m
    <3>1. h[m] = Onto(g[m - 1], path[m]) /\ h[m - 1] = g[m - 1]
      BY <1>4
    <3> QED BY <2>3, <3>1, <1>3
  <2> QED BY <2>1, <2>2, <2>3
<1>7. Fix(h, m)
  <2>1. h = [n \in 0 .. m |-> h[n]]
    OBVIOUS
  <2> HIDE DEF h
  <2> QED BY <2>1, <1>6
<1> QED BY <1>7, <1>2

LEMMA Resolution ==
  ASSUME NEW path, Len(path) \in Nat
  PROVE  \E g : /\ g = [n \in 0 .. Len(path) |-> IF n = 0 THEN <<>> ELSE Onto(g[n - 1], path[n])]
                /\ canonicalize(path) = g[Len(path)]
<1> DEFINE r == CHOOSE g : g = [n \in 0 .. Len(path) |-> IF n = 0 THEN <<>> ELSE Onto(g[n - 1], path[n])]
<1>1. \E g : g = [n \in 0 .. Len(path) |-> IF n = 0 THEN <<>> ELSE Onto(g[n - 1], path[n])]
  BY ResolutionExists
<1>2. r = [n \in 0 .. Len(path) |-> IF n = 0 THEN <<>> ELSE Onto(r[n - 1], path[n])]
  BY <1>1
<1>3. canonicalize(path) = r[Len(path)]
  BY DEF canonicalize, Onto
<1> HIDE DEF r
<1> QED BY <1>2, <1>3

EntryType ==
  [id : Nat, kind : {"file", "dir", "link"}, whole : BOOLEAN, synced : BOOLEAN,
   old : BOOLEAN, copy : BOOLEAN, loose : BOOLEAN, to : Paths]

\* Every directory above an entry is an entry.
Shape(T) ==
  \A p \in DOMAIN T :
    /\ p \in Paths /\ p # <<>> /\ T[p] \in EntryType
    /\ \A i \in 1 .. Len(p) - 1 : SubSeq(p, 1, i) \in DOMAIN T /\ T[SubSeq(p, 1, i)].kind = "dir"

LEMMA FixedPaths == <<>> \in Paths /\ Gone \in Paths
BY DEF Paths, Gone

LEMMA EntryFacts ==
  ASSUME Shape(tree), NEW p
  PROVE  /\ p \in DOMAIN tree => Entry(p) = tree[p] /\ Entry(p) \in EntryType
         /\ p \notin DOMAIN tree => Entry(p) = NoFile /\ Entry(p).kind = "none"
         /\ IsDir(p) <=> p = <<>> \/ (p \in DOMAIN tree /\ tree[p].kind = "dir")
         /\ Entry(p).to \in Paths
BY FixedPaths DEF Entry, NoFile, IsDir, Shape, EntryType

LEMMA FollowFacts ==
  ASSUME Shape(tree), NEW p
  PROVE  \/ Follow(p) \in {<<>>, Gone}
         \/ Follow(p) \in DOMAIN tree /\ tree[Follow(p)].kind # "link"
<1> DEFINE once(q) == IF Entry(q).kind = "link" THEN Entry(q).to ELSE q
           end == once(once(p))
<1>1. Follow(p) = IF end = <<>> \/ (end \in DOMAIN tree /\ Entry(end).kind # "link") THEN end ELSE Gone
  BY DEF Follow
<1> HIDE DEF end
<1> QED BY <1>1, EntryFacts

LEMMA CanonAny ==
  ASSUME Shape(tree), NEW path, Len(path) \in Nat
  PROVE  /\ \/ canonicalize(path) \in {<<>>, Gone}
            \/ canonicalize(path) \in DOMAIN tree /\ tree[canonicalize(path)].kind # "link"
         /\ canonicalize(path) \in Paths
<1>0. Len(path) \in Nat
  OBVIOUS
<1>1. PICK g : /\ g = [n \in 0 .. Len(path) |-> IF n = 0 THEN <<>> ELSE Onto(g[n - 1], path[n])]
               /\ canonicalize(path) = g[Len(path)]
  BY <1>0, Resolution
<1>2. CASE Len(path) = 0
  BY <1>0, <1>1, <1>2, FixedPaths
<1>3. CASE Len(path) # 0
  <2> DEFINE at == g[Len(path) - 1]
  <2>0. PICK n \in 0 .. Len(path) : n = Len(path)
    BY <1>0
  <2>1. canonicalize(path) = Onto(at, path[Len(path)])
    <3>1. g[n] = Onto(g[n - 1], path[n])
      BY <1>0, <1>1, <1>3, <2>0
    <3> QED BY <3>1, <2>0, <1>1
  <2> HIDE DEF at
  <2>2. \/ canonicalize(path) \in {<<>>, Gone}
        \/ canonicalize(path) \in DOMAIN tree /\ tree[canonicalize(path)].kind # "link"
    BY <2>1, FollowFacts DEF Onto
  <2> DEFINE c == canonicalize(path)
  <2>3. c \in {<<>>, Gone} \/ c \in DOMAIN tree
    BY <2>2
  <2> HIDE DEF c
  <2>4. c \in Paths
    BY <2>3, FixedPaths DEF Shape
  <2> QED BY <2>2, <2>4 DEF c
<1> QED BY <1>2, <1>3

LEMMA CanonFacts ==
  ASSUME Shape(tree), NEW path \in Paths
  PROVE  /\ \/ canonicalize(path) \in {<<>>, Gone}
            \/ canonicalize(path) \in DOMAIN tree /\ tree[canonicalize(path)].kind # "link"
         /\ canonicalize(path) \in Paths
BY CanonAny, PathAt

\* Where an operation on the last name of a path acts.
LEMMA WhereFacts ==
  ASSUME Shape(tree), NEW path \in Paths, path # <<>>
  PROVE  /\ Where(path) = Append(canonicalize(Front(path)), Last(path))
         /\ canonicalize(Front(path)) \in Paths /\ Last(path) \in Int
         /\ Where(path) \in Paths /\ Where(path) # <<>> /\ Len(Where(path)) \in Nat \ {0}
         /\ Front(Where(path)) = canonicalize(Front(path))
         /\ Last(Where(path)) = Last(path)
<1>1. Front(path) \in Paths /\ Last(path) \in Int
  BY FrontAt
<1> DEFINE c == canonicalize(Front(path))
<1>3. c \in Paths
  BY <1>1, CanonFacts
<1>4. Where(path) = Append(c, Last(path))
  BY DEF Where
<1> HIDE DEF c
<1>6. /\ Append(c, Last(path)) \in Paths /\ Append(c, Last(path)) # <<>>
      /\ Len(Append(c, Last(path))) = Len(c) + 1
      /\ Front(Append(c, Last(path))) = c /\ Last(Append(c, Last(path))) = Last(path)
  BY <1>1, <1>3, AppendAt
<1>7. Len(c) + 1 \in Nat \ {0}
  BY <1>3, PathAt
<1> QED BY <1>1, <1>3, <1>4, <1>6, <1>7 DEF c

Named == Paths \ {<<>>}

\* Paths whose last name is no part's.
Proper == {p \in Named : Last(p) >= 0}

LEMMA AdmitFacts ==
  ASSUME Shape(tree), NEW path \in Paths
  PROVE  admit(path) \in Paths
BY CanonFacts, FixedPaths DEF admit

\* What the write of a client names: an entry of a directory.
LEMMA TargetFacts ==
  ASSUME Shape(tree), NEW names \in Paths, target(names) # Gone
  PROVE  /\ names # <<>>
         /\ target(names) \in Named
         /\ target(names) = Append(admit(Front(names)), Last(names))
         /\ Front(target(names)) = admit(Front(names)) /\ Front(target(names)) \in Paths
         /\ IsDir(Front(target(names)))
         /\ Last(target(names)) = Last(names) /\ Last(names) \in Int
<1>1. names # <<>>
  BY DEF target
<1> DEFINE parent == admit(Front(names))
<1>2. target(names) = Append(parent, Last(names)) /\ parent # Gone /\ IsDir(parent)
  BY <1>1 DEF target
<1>3. Front(names) \in Paths /\ Last(names) \in Int
  BY <1>1, FrontAt
<1>4. parent \in Paths
  BY <1>3, AdmitFacts
<1> HIDE DEF parent
<1>6. /\ Append(parent, Last(names)) # <<>> /\ Append(parent, Last(names)) \in Paths
      /\ Front(Append(parent, Last(names))) = parent /\ Last(Append(parent, Last(names))) = Last(names)
  BY <1>3, <1>4, AppendAt
<1> QED BY <1>1, <1>2, <1>3, <1>4, <1>6 DEF parent, Named

-----------------------------------------------------------------------------
(* The tree after an operation.                                            *)
\* A path in the directory d: what is above it is d and what is above d.
LEMMA AboveAppend ==
  ASSUME Shape(tree), NEW d \in Paths, IsDir(d), NEW x \in Int,
         NEW i \in 1 .. Len(Append(d, x)) - 1
  PROVE  /\ SubSeq(Append(d, x), 1, i) \in DOMAIN tree
         /\ tree[SubSeq(Append(d, x), 1, i)].kind = "dir"
<1> DEFINE r == Append(d, x)
<1>1. r \in Paths /\ Len(r) = Len(d) + 1 /\ \A k \in 1 .. Len(d) : r[k] = d[k]
  BY AppendAt
<1>2. Len(d) \in Nat /\ i \in 1 .. Len(d) /\ i \in 0 .. Len(d) /\ i \in 0 .. Len(r)
  BY <1>1, PathAt
<1> HIDE DEF r
<1>3. SubSeq(r, 1, i) \in Paths /\ Len(SubSeq(r, 1, i)) = i
      /\ \A k \in 1 .. i : SubSeq(r, 1, i)[k] = r[k]
  BY <1>1, <1>2, SubPath
<1>4. SubSeq(d, 1, i) \in Paths /\ Len(SubSeq(d, 1, i)) = i
      /\ \A k \in 1 .. i : SubSeq(d, 1, i)[k] = d[k]
  BY <1>2, SubPath
<1>5. SubSeq(r, 1, i) = SubSeq(d, 1, i)
  <2>1. \A k \in 1 .. i : SubSeq(r, 1, i)[k] = SubSeq(d, 1, i)[k]
    BY <1>1, <1>2, <1>3, <1>4
  <2> QED BY <2>1, <1>3, <1>4, SamePath
<1>6. d # <<>>
  BY <1>2, EmptySeq
<1>7. d \in DOMAIN tree /\ tree[d].kind = "dir"
  BY <1>6, EntryFacts
<1>8. CASE i = Len(d)
  <2>1. SubSeq(d, 1, i) = d
    BY <1>8, <1>4, <1>2, SamePath
  <2> QED BY <2>1, <1>5, <1>7 DEF r
<1>9. CASE i # Len(d)
  <2>1. i \in 1 .. Len(d) - 1
    BY <1>9, <1>2
  <2> QED BY <2>1, <1>5, <1>7 DEF Shape, r
<1> QED BY <1>8, <1>9

LEMMA ShapeWith ==
  ASSUME Shape(tree), NEW d \in Paths, IsDir(d), NEW x \in Int,
         Append(d, x) \notin DOMAIN tree, NEW entry \in EntryType
  PROVE  Shape(With(Append(d, x), entry))
<1> DEFINE path == Append(d, x)
           T == With(path, entry)
<1>1. DOMAIN T = DOMAIN tree \cup {path} /\ T[path] = entry
      /\ \A p \in DOMAIN tree : T[p] = tree[p]
  BY DEF With
<1>2. path \in Paths /\ path # <<>>
  BY AppendAt
<1>3. ASSUME NEW i \in 1 .. Len(path) - 1
      PROVE  SubSeq(path, 1, i) \in DOMAIN tree /\ tree[SubSeq(path, 1, i)].kind = "dir"
  BY AboveAppend
<1> HIDE DEF path, T
<1>4. Shape(T)
  BY <1>1, <1>2, <1>3 DEF Shape
<1> QED BY <1>4 DEF T, path

LEMMA ShapeWithout ==
  ASSUME Shape(tree), NEW S,
         \A p \in DOMAIN tree \ S : \A i \in 1 .. Len(p) - 1 : SubSeq(p, 1, i) \notin S
  PROVE  Shape(Without(S))
BY DEF Shape, Without

\* A subtree is removed whole.
LEMMA ShapeWithoutSubtree ==
  ASSUME Shape(tree), NEW top \in Named
  PROVE  Shape(Without(Subtree(top)))
<1>0. top \in Paths /\ top # <<>>
  BY DEF Named
<1>1. ASSUME NEW p \in DOMAIN tree \ Subtree(top), NEW i \in 1 .. Len(p) - 1,
             SubSeq(p, 1, i) \in Subtree(top)
      PROVE  FALSE
  <2>1. p \in Paths /\ Len(p) \in Nat /\ Len(top) \in Nat /\ i \in 0 .. Len(p) /\ i < Len(p)
    BY <1>0, PathAt DEF Shape
  <2> DEFINE q == SubSeq(p, 1, i)
  <2>2. q \in Paths /\ Len(q) = i /\ \A k \in 1 .. i : q[k] = p[k]
    BY <2>1, SubPath
  <2> HIDE DEF q
  <2>3. IsPrefix(top, q) /\ Len(top) <= Len(q)
    <3>1. q = top \/ IsPrefix(top, q)
      BY <1>1 DEF q, Subtree, Below
    <3> QED BY <3>1, <2>1, <2>2, <1>0, PrefixAt
  <2>4. IsPrefix(top, p) /\ Len(p) > Len(top)
    BY <2>1, <2>2, <2>3, <1>0, PrefixAt
  <2> QED BY <2>4, <1>0 DEF Subtree, Below
<1> QED BY <1>1, ShapeWithout

\* Attributes change and kinds stay.
LEMMA ShapeUpdate ==
  ASSUME Shape(tree), NEW T, DOMAIN T = DOMAIN tree,
         \A p \in DOMAIN tree : T[p] \in EntryType /\ T[p].kind = tree[p].kind
  PROVE  Shape(T)
BY DEF Shape

LEMMA PrefixTransitive ==
  ASSUME NEW a \in Paths, NEW b \in Paths, NEW c \in Paths, IsPrefix(a, b), IsPrefix(b, c)
  PROVE  IsPrefix(a, c)
<1>1. Len(a) <= Len(b) /\ Len(b) <= Len(c) /\ Len(a) \in Nat /\ Len(b) \in Nat /\ Len(c) \in Nat
      /\ (\A i \in 1 .. Len(a) : a[i] = b[i]) /\ (\A i \in 1 .. Len(b) : b[i] = c[i])
  BY PrefixAt, PathAt
<1>2. \A i \in 1 .. Len(a) : a[i] = c[i]
  BY <1>1
<1> QED BY <1>1, <1>2, PrefixAt

LEMMA SubtreeAt ==
  ASSUME Shape(tree), NEW top \in Named, NEW p \in DOMAIN tree
  PROVE  p \in Subtree(top) <=> IsPrefix(top, p)
<1>1. p \in Paths /\ top \in Paths /\ Len(p) \in Nat /\ Len(top) \in Nat
  BY PathAt DEF Shape, Named
<1>2. ASSUME IsPrefix(top, p), ~(Len(p) > Len(top)) PROVE p = top
  BY <1>1, <1>2, PrefixAt, SamePath
<1>3. IsPrefix(top, top)
  BY PrefixAt, <1>1
<1> QED BY <1>1, <1>2, <1>3 DEF Subtree, Below, Named

LEMMA RebasedBelow ==
  ASSUME NEW q \in Paths, NEW from \in Paths, NEW to \in Paths, IsPrefix(from, q)
  PROVE  /\ Rebased(q, from, to) \in Paths /\ IsPrefix(to, Rebased(q, from, to))
         /\ Len(Rebased(q, from, to)) = Len(to) + Len(q) - Len(from)
         /\ Len(from) <= Len(q)
<1>1. Len(from) <= Len(q) /\ Len(from) \in Nat /\ Len(q) \in Nat /\ Len(to) \in Nat
  BY PrefixAt, PathAt
<1> DEFINE r == Rebased(q, from, to)
<1>2. r \in Paths /\ Len(r) = Len(to) + Len(q) - Len(from) /\ \A i \in 1 .. Len(to) : r[i] = to[i]
  BY <1>1, RebasedAt
<1> HIDE DEF r
<1>3. IsPrefix(to, r)
  BY <1>1, <1>2, PrefixAt
<1> QED BY <1>1, <1>2, <1>3 DEF r

LEMMA RebasedInjective ==
  ASSUME NEW p \in Paths, NEW q \in Paths, NEW from \in Paths, NEW to \in Paths,
         IsPrefix(from, p), IsPrefix(from, q), Rebased(p, from, to) = Rebased(q, from, to)
  PROVE  p = q
<1>1. /\ Len(from) <= Len(q) /\ Len(from) <= Len(p) /\ Len(from) \in Nat /\ Len(q) \in Nat
      /\ Len(p) \in Nat /\ Len(to) \in Nat
      /\ \A i \in 1 .. Len(from) : p[i] = from[i] /\ q[i] = from[i]
  BY PrefixAt, PathAt
<1> DEFINE r == Rebased(q, from, to)
<1>2. /\ Len(r) = Len(to) + Len(q) - Len(from)
      /\ \A i \in Len(to) + 1 .. Len(r) : r[i] = q[i - Len(to) + Len(from)]
  BY <1>1, RebasedAt
<1>3. /\ Len(r) = Len(to) + Len(p) - Len(from)
      /\ \A i \in Len(to) + 1 .. Len(r) : r[i] = p[i - Len(to) + Len(from)]
  BY <1>1, RebasedAt
<1> HIDE DEF r
<1>4. Len(p) = Len(q)
  BY <1>1, <1>2, <1>3
<1>5. ASSUME NEW i \in 1 .. Len(p) PROVE p[i] = q[i]
  <2>1. CASE i <= Len(from)
    BY <2>1, <1>1
  <2>2. CASE i > Len(from)
    <3> DEFINE k == i - Len(from) + Len(to)
    <3>1. k \in Len(to) + 1 .. Len(r) /\ k - Len(to) + Len(from) = i
      BY <2>2, <1>1, <1>3
    <3> HIDE DEF k
    <3> QED BY <3>1, <1>2, <1>3
  <2> QED BY <2>1, <2>2, <1>1
<1> QED BY <1>4, <1>5, SamePath

\* What a move leaves and where what it moves comes from.
LEMMA MovedFacts ==
  ASSUME Shape(tree), NEW from \in DOMAIN tree, NEW to \in Named
  PROVE  LET T == MovedTo(from, to) IN
         /\ \A p \in DOMAIN T :
              \/ /\ p \in DOMAIN tree /\ ~IsPrefix(from, p) /\ ~IsPrefix(to, p)
                 /\ T[p] = tree[p]
              \/ \E q \in DOMAIN tree :
                   IsPrefix(from, q) /\ p = Rebased(q, from, to) /\ T[p] = tree[q]
         /\ \A p \in DOMAIN tree : ~IsPrefix(from, p) /\ ~IsPrefix(to, p) =>
              p \in DOMAIN T /\ T[p] = tree[p]
         /\ \A q \in DOMAIN tree : IsPrefix(from, q) =>
              Rebased(q, from, to) \in DOMAIN T /\ T[Rebased(q, from, to)] = tree[q]
<1> DEFINE moved  == Subtree(from)
           kept   == (DOMAIN tree \ Subtree(to)) \ moved
           T == MovedTo(from, to)
           new(q) == Rebased(q, from, to)
<1>1. T = [p \in kept \cup {new(q) : q \in moved} |->
             IF p \in kept THEN tree[p] ELSE tree[CHOOSE q \in moved : new(q) = p]]
  BY DEF MovedTo
<1>2. /\ moved \subseteq DOMAIN tree /\ from \in Paths /\ from \in Named /\ to \in Paths
      /\ \A p \in DOMAIN tree : p \in Paths
  BY DEF Subtree, Below, Shape, Named
<1>3. \A p \in DOMAIN tree : /\ p \in moved <=> IsPrefix(from, p)
                             /\ p \in kept <=> ~IsPrefix(from, p) /\ ~IsPrefix(to, p)
  BY <1>2, SubtreeAt
<1>4. kept \subseteq DOMAIN tree
  OBVIOUS
<1>5. ASSUME NEW q \in moved
      PROVE  /\ new(q) \notin kept
             /\ \A a \in moved : new(a) = new(q) => a = q
  <2>1. q \in Paths /\ IsPrefix(from, q)
    BY <1>2, <1>3
  <2>2. IsPrefix(to, new(q))
    BY <2>1, <1>2, RebasedBelow
  <2>3. new(q) \notin kept
    BY <2>2, <1>3
  <2>4. \A a \in moved : new(a) = new(q) => a = q
    BY <1>2, <1>3, <2>1, RebasedInjective
  <2> QED BY <2>3, <2>4
<1> HIDE DEF moved, kept, T, new
<1>6. ASSUME NEW q \in moved PROVE new(q) \in DOMAIN T /\ T[new(q)] = tree[q]
  <2>1. new(q) \in DOMAIN T /\ T[new(q)] = tree[CHOOSE a \in moved : new(a) = new(q)]
    BY <1>1, <1>5
  <2>2. (CHOOSE a \in moved : new(a) = new(q)) = q
    BY <1>5
  <2> QED BY <2>1, <2>2
<1>7. \A p \in kept : p \in DOMAIN T /\ T[p] = tree[p]
  BY <1>1
<1>8. \A p \in DOMAIN T : p \in kept \/ \E q \in moved : p = new(q)
  BY <1>1
<1>9. \A p \in DOMAIN T :
        \/ /\ p \in DOMAIN tree /\ ~IsPrefix(from, p) /\ ~IsPrefix(to, p)
           /\ T[p] = tree[p]
        \/ \E q \in DOMAIN tree : IsPrefix(from, q) /\ p = new(q) /\ T[p] = tree[q]
  BY <1>2, <1>3, <1>4, <1>6, <1>7, <1>8
<1>10. \A p \in DOMAIN tree : ~IsPrefix(from, p) /\ ~IsPrefix(to, p) =>
              p \in DOMAIN T /\ T[p] = tree[p]
  BY <1>3, <1>7
<1>11. \A q \in DOMAIN tree : IsPrefix(from, q) => new(q) \in DOMAIN T /\ T[new(q)] = tree[q]
  BY <1>3, <1>6
<1> QED BY <1>9, <1>10, <1>11 DEF T, new

\* The pieces of a path that was moved: those of its new top, and those of it moved.
LEMMA RebasedSub ==
  ASSUME NEW q \in Paths, NEW from \in Paths, NEW to \in Paths, IsPrefix(from, q),
         NEW i \in 1 .. Len(Rebased(q, from, to)) - 1
  PROVE  LET r == Rebased(q, from, to)
             j == i - Len(to) + Len(from) IN
         /\ i < Len(to) => i \in 1 .. Len(to) - 1 /\ SubSeq(r, 1, i) = SubSeq(to, 1, i)
         /\ i >= Len(to) => /\ j \in Len(from) .. Len(q) - 1
                            /\ IsPrefix(from, SubSeq(q, 1, j))
                            /\ SubSeq(r, 1, i) = Rebased(SubSeq(q, 1, j), from, to)
<1> DEFINE r == Rebased(q, from, to)
           j == i - Len(to) + Len(from)
           a == SubSeq(r, 1, i)
<1>1. /\ Len(from) <= Len(q) /\ Len(from) \in Nat /\ Len(q) \in Nat /\ Len(to) \in Nat
      /\ \A k \in 1 .. Len(from) : from[k] = q[k]
  BY PrefixAt, PathAt
<1>2. /\ r \in Paths /\ Len(r) = Len(to) + Len(q) - Len(from)
      /\ \A k \in 1 .. Len(to) : r[k] = to[k]
      /\ \A k \in Len(to) + 1 .. Len(r) : r[k] = q[k - Len(to) + Len(from)]
  BY <1>1, RebasedAt
<1>3. i \in 0 .. Len(r) /\ i \in 1 .. Len(r) - 1
  BY <1>1, <1>2
<1> HIDE DEF r
<1>4. a \in Paths /\ Len(a) = i /\ \A k \in 1 .. i : a[k] = r[k]
  BY <1>2, <1>3, SubPath
<1> HIDE DEF a
<1>5. ASSUME i < Len(to)
      PROVE  i \in 1 .. Len(to) - 1 /\ a = SubSeq(to, 1, i)
  <2> DEFINE b == SubSeq(to, 1, i)
  <2>1. i \in 0 .. Len(to) /\ i \in 1 .. Len(to) - 1
    BY <1>5, <1>1, <1>3
  <2>2. b \in Paths /\ Len(b) = i /\ \A k \in 1 .. i : b[k] = to[k]
    BY <2>1, SubPath
  <2> HIDE DEF b
  <2>3. \A k \in 1 .. i : a[k] = b[k]
    BY <2>1, <2>2, <1>1, <1>2, <1>4
  <2> QED BY <2>1, <2>2, <2>3, <1>4, SamePath DEF b
<1>6. ASSUME i >= Len(to)
      PROVE  /\ j \in Len(from) .. Len(q) - 1 /\ IsPrefix(from, SubSeq(q, 1, j))
             /\ a = Rebased(SubSeq(q, 1, j), from, to)
  <2> DEFINE b == SubSeq(q, 1, j)
             c == Rebased(b, from, to)
  <2>1. j \in 0 .. Len(q) /\ j \in Len(from) .. Len(q) - 1 /\ j >= Len(from)
    BY <1>6, <1>1, <1>2, <1>3
  <2>2. b \in Paths /\ Len(b) = j /\ \A k \in 1 .. j : b[k] = q[k]
    BY <2>1, SubPath
  <2> HIDE DEF b
  <2>3. IsPrefix(from, b)
    <3>1. \A k \in 1 .. Len(from) : from[k] = b[k]
      BY <1>1, <2>1, <2>2
    <3> QED BY <3>1, <2>1, <2>2, PrefixAt
  <2>4. /\ c \in Paths /\ Len(c) = Len(to) + Len(b) - Len(from)
        /\ \A k \in 1 .. Len(to) : c[k] = to[k]
        /\ \A k \in Len(to) + 1 .. Len(c) : c[k] = b[k - Len(to) + Len(from)]
    BY <2>1, <2>2, RebasedAt
  <2> HIDE DEF c
  <2>5. Len(c) = i
    BY <2>2, <2>4, <1>1, <1>3
  <2>6. ASSUME NEW k \in 1 .. i PROVE a[k] = c[k]
    <3>1. CASE k <= Len(to)
      <4>1. k \in 1 .. Len(to)
        BY <3>1
      <4> QED BY <4>1, <1>2, <1>4, <2>4
    <3>2. CASE k > Len(to)
      <4>1. k \in Len(to) + 1 .. Len(c) /\ k \in Len(to) + 1 .. Len(r)
        BY <3>2, <2>5, <1>1, <1>3
      <4>2. k - Len(to) + Len(from) \in 1 .. j
        BY <4>1, <2>5, <1>1
      <4> QED BY <4>1, <4>2, <2>2, <2>4, <1>2, <1>4
    <3> QED BY <3>1, <3>2, <1>1
  <2>7. a = c
    BY <2>4, <2>5, <2>6, <1>4, SamePath
  <2> QED BY <2>1, <2>3, <2>7 DEF b, c
<1> QED BY <1>5, <1>6 DEF r, a

LEMMA ShapeMoved ==
  ASSUME Shape(tree), NEW from \in DOMAIN tree, NEW d \in Paths, IsDir(d), NEW x \in Int,
         ~IsPrefix(from, Append(d, x))
  PROVE  Shape(MovedTo(from, Append(d, x)))
<1> DEFINE to == Append(d, x)
           T == MovedTo(from, to)
<1>1. to \in Paths /\ to # <<>> /\ Len(to) \in Nat /\ to \in Named
  BY AppendAt, PathAt DEF Named
<1>2. from \in Paths /\ from # <<>> /\ Len(from) \in Nat /\ Len(from) >= 1
  BY PathAt, EmptySeq DEF Shape, Paths
<1>3. \A i \in 1 .. Len(to) - 1 :
        SubSeq(to, 1, i) \in DOMAIN tree /\ tree[SubSeq(to, 1, i)].kind = "dir"
  BY AboveAppend
<1>4. ~IsPrefix(from, to)
  OBVIOUS
<1> HIDE DEF to
<1>5. /\ \A p \in DOMAIN T :
           \/ p \in DOMAIN tree /\ ~IsPrefix(from, p) /\ ~IsPrefix(to, p) /\ T[p] = tree[p]
           \/ \E q \in DOMAIN tree :
                   IsPrefix(from, q) /\ p = Rebased(q, from, to) /\ T[p] = tree[q]
      /\ \A p \in DOMAIN tree : ~IsPrefix(from, p) /\ ~IsPrefix(to, p) =>
              p \in DOMAIN T /\ T[p] = tree[p]
      /\ \A q \in DOMAIN tree : IsPrefix(from, q) =>
              Rebased(q, from, to) \in DOMAIN T /\ T[Rebased(q, from, to)] = tree[q]
  BY <1>1, MovedFacts
<1> HIDE DEF T
<1>6. ASSUME NEW p \in DOMAIN T
      PROVE  /\ p \in Paths /\ p # <<>> /\ T[p] \in EntryType
             /\ \A i \in 1 .. Len(p) - 1 :
                  SubSeq(p, 1, i) \in DOMAIN T /\ T[SubSeq(p, 1, i)].kind = "dir"
  <2>1. CASE p \in DOMAIN tree /\ ~IsPrefix(from, p) /\ ~IsPrefix(to, p) /\ T[p] = tree[p]
    <3>1. p \in Paths /\ p # <<>> /\ T[p] \in EntryType
      BY <2>1 DEF Shape
    <3>2. ASSUME NEW i \in 1 .. Len(p) - 1
          PROVE  SubSeq(p, 1, i) \in DOMAIN T /\ T[SubSeq(p, 1, i)].kind = "dir"
      <4> DEFINE s == SubSeq(p, 1, i)
      <4>1. i \in 0 .. Len(p)
        BY <3>1, PathAt
      <4>2. s \in DOMAIN tree /\ tree[s].kind = "dir" /\ s \in Paths
        BY <2>1 DEF Shape
      <4>3. IsPrefix(s, p)
        BY <3>1, <4>1, SubIsPrefix
      <4> HIDE DEF s
      <4>4. ~IsPrefix(from, s) /\ ~IsPrefix(to, s)
        BY <4>2, <4>3, <2>1, <3>1, <1>1, <1>2, PrefixTransitive
      <4>5. s \in DOMAIN T /\ T[s].kind = "dir"
        BY <4>2, <4>4, <1>5
      <4> QED BY <4>5 DEF s
    <3> QED BY <3>1, <3>2
  <2>2. CASE \E q \in DOMAIN tree :
               IsPrefix(from, q) /\ p = Rebased(q, from, to) /\ T[p] = tree[q]
    <3>0. PICK q \in DOMAIN tree :
               IsPrefix(from, q) /\ p = Rebased(q, from, to) /\ T[p] = tree[q]
      BY <2>2
    <3>q. q \in Paths
      BY DEF Shape
    <3>1. p \in Paths /\ Len(p) = Len(to) + Len(q) - Len(from) /\ Len(from) <= Len(q)
      BY <3>0, <3>q, <1>1, <1>2, RebasedBelow
    <3>2. p # <<>> /\ T[p] \in EntryType
      <4>1. Len(to) >= 1 /\ Len(q) \in Nat
        BY <1>1, <3>q, PathAt, EmptySeq DEF Paths
      <4>2. Len(p) >= 1
        BY <3>1, <4>1, <1>1, <1>2
      <4> QED BY <4>2, <3>0 DEF Shape
    <3>3. ASSUME NEW i \in 1 .. Len(p) - 1
          PROVE  SubSeq(p, 1, i) \in DOMAIN T /\ T[SubSeq(p, 1, i)].kind = "dir"
      <4> DEFINE j == i - Len(to) + Len(from)
      <4>1. /\ i < Len(to) => i \in 1 .. Len(to) - 1 /\ SubSeq(p, 1, i) = SubSeq(to, 1, i)
            /\ i >= Len(to) => /\ j \in Len(from) .. Len(q) - 1
                               /\ IsPrefix(from, SubSeq(q, 1, j))
                               /\ SubSeq(p, 1, i) = Rebased(SubSeq(q, 1, j), from, to)
        BY <3>0, <3>q, <1>1, <1>2, RebasedSub
      <4> HIDE DEF j
      <4>2. CASE i < Len(to)
        <5> DEFINE s == SubSeq(to, 1, i)
        <5>1. i \in 1 .. Len(to) - 1 /\ SubSeq(p, 1, i) = s /\ i \in 0 .. Len(to)
          BY <4>1, <4>2, <1>1
        <5>2. s \in DOMAIN tree /\ tree[s].kind = "dir" /\ s \in Paths /\ Len(s) = i
          BY <5>1, <1>1, <1>3, SubPath
        <5>3. IsPrefix(s, to)
          BY <5>1, <1>1, SubIsPrefix
        <5> HIDE DEF s
        <5>4. ~IsPrefix(from, s)
          BY <5>2, <5>3, <1>1, <1>2, <1>4, PrefixTransitive
        <5>5. ~IsPrefix(to, s)
          BY <5>2, <4>2, <1>1, PrefixAt
        <5> QED BY <5>1, <5>2, <5>4, <5>5, <1>5
      <4>3. CASE i >= Len(to)
        <5> DEFINE s == SubSeq(q, 1, j)
        <5>1. j \in 1 .. Len(q) - 1
          BY <4>1, <4>3, <1>2
        <5>2. s \in DOMAIN tree /\ tree[s].kind = "dir"
          BY <5>1 DEF Shape
        <5> HIDE DEF s
        <5>3. IsPrefix(from, s) /\ SubSeq(p, 1, i) = Rebased(s, from, to)
          BY <4>1, <4>3 DEF s
        <5> QED BY <5>2, <5>3, <1>5
      <4>4. i \in Int /\ Len(to) \in Int
        BY <1>1
      <4> QED BY <4>2, <4>3, <4>4
    <3> QED BY <3>1, <3>2, <3>3
  <2> QED BY <2>1, <2>2, <1>5
<1>7. Shape(T)
  BY <1>6 DEF Shape
<1> QED BY <1>7 DEF T, to

\* The last name of a path that was moved.
LEMMA RebasedLast ==
  ASSUME NEW q \in Named, NEW from \in Paths, NEW to \in Named, IsPrefix(from, q)
  PROVE  LET r == Rebased(q, from, to) IN
         /\ r \in Named /\ IsPrefix(to, r)
         /\ q = from => r = to
         /\ q # from => Last(r) = Last(q)
<1> DEFINE r == Rebased(q, from, to)
<1>0. q \in Paths /\ from \in Paths /\ to \in Paths /\ q # <<>> /\ to # <<>>
  BY DEF Named
<1>1. /\ Len(from) <= Len(q) /\ Len(from) \in Nat /\ Len(q) \in Nat /\ Len(to) \in Nat
      /\ \A k \in 1 .. Len(from) : from[k] = q[k]
  BY <1>0, PrefixAt, PathAt
<1>2. /\ r \in Paths /\ Len(r) = Len(to) + Len(q) - Len(from)
      /\ \A k \in 1 .. Len(to) : r[k] = to[k]
      /\ \A k \in Len(to) + 1 .. Len(r) : r[k] = q[k - Len(to) + Len(from)]
  BY <1>0, <1>1, RebasedAt
<1>3. IsPrefix(to, r)
  BY <1>0, RebasedBelow
<1> HIDE DEF r
<1>4. Len(to) >= 1 /\ Len(q) >= 1 /\ Last(q) = q[Len(q)]
  BY <1>0, FrontAt
<1>5. r # <<>> /\ r \in Named
  <2>1. Len(r) >= 1
    BY <1>1, <1>2, <1>4
  <2> QED BY <2>1, <1>2 DEF Named
<1>6. ASSUME q = from PROVE r = to
  <2>1. Len(r) = Len(to)
    BY <1>1, <1>2, <1>6
  <2> QED BY <2>1, <1>0, <1>2, SamePath
<1>7. ASSUME q # from PROVE Last(r) = Last(q)
  <2>1. Len(q) > Len(from)
    <3>1. Len(q) = Len(from) => q = from
      BY <1>0, <1>1, SamePath
    <3> QED BY <3>1, <1>1, <1>7
  <2>2. Len(r) \in Len(to) + 1 .. Len(r) /\ Len(r) - Len(to) + Len(from) = Len(q)
    BY <2>1, <1>1, <1>2
  <2>3. r[Len(r)] = q[Len(q)]
    BY <2>2, <1>2
  <2>4. Last(r) = r[Len(r)]
    BY <1>2, <1>5, FrontAt
  <2> QED BY <2>3, <2>4, <1>4
<1> QED BY <1>3, <1>5, <1>6, <1>7 DEF r

-----------------------------------------------------------------------------
(* The invariant.                                                          *)

AsksTo(op) == {ask \in Asks : ask.op = op}

Reading ==
  [pc : {"describe", "open", "walk", "member", "done"}, number : Nat, ask : Asks,
   target : Paths, seen : Nat]
Uploading ==
  [pc : {"body", "sync", "commit", "place", "rename", "discard", "done"}, number : Nat,
   ask : AsksTo("upload"), target : Proper, id : Nat]
Moving ==
  [pc : {"move", "done"}, number : Nat, ask : AsksTo("rename"), target : Named,
   destination : Proper, replace : BOOLEAN]
Copying ==
  [pc : {"create", "copy", "place", "discard", "done"}, number : Nat, ask : AsksTo("copy"),
   source : Named, target : Proper, kind : {"file", "dir"}, replace : BOOLEAN, id : Nat,
   whole : BOOLEAN]
Removing ==
  [pc : {"remove", "done"}, number : Nat, ask : AsksTo("delete"), target : Named,
   kind : {"file", "dir", "link"}]
Over == [pc : {"done"}, number : Nat, ask : Asks, target : Paths]

RequestType ==
  {Idle} \cup Reading \cup Uploading \cup Moving \cup Copying \cup Removing \cup Over

FilesTyped ==
  /\ Shape(tree) /\ IsFiniteSet(DOMAIN tree)
  /\ made \in 0 .. MaxRequest /\ fresh \in Nat /\ crashes \in Nat
  /\ request \in [Slot -> RequestType]

InProgress(r) == r.pc \notin {"idle", "done"}

\* No two requests under way have one number.
Numbers ==
  /\ \A s \in Slot : request[s].number <= made /\ (InProgress(request[s]) => request[s].number >= 1)
  /\ \A s, t \in Slot :
       s # t /\ InProgress(request[s]) /\ InProgress(request[t]) =>
         request[s].number # request[t].number

\* Who may replace asked for it, or names one place twice.
Asked(r) ==
  /\ r \in Moving /\ r.pc = "move" /\ r.replace => r.ask.overwrite \/ r.target = r.destination
  /\ r \in Copying /\ r.replace => r.ask.overwrite

\* How far the part of a request has come: the part of an upload ...
Uploaded(r, e) ==
  /\ e.id = r.id
  /\ r.pc # "body" => e.whole
  /\ r.pc \in {"commit", "place", "rename"} => e.synced

\* ... and that of a file's copy.
CopiedFile(r, e, c) ==
  /\ e.id = r.id /\ e.copy /\ r.kind = "file"
  /\ r.pc = "copy" => r.whole \/ e.loose \/ c > 0
  /\ r.pc = "place" => e.whole \/ e.loose \/ c > 0

\* A file called by the number of a request is the request's.
Mine(r, e, c) ==
  /\ r \in Uploading /\ r.pc \in {"body", "sync", "commit", "place", "rename"} => Uploaded(r, e)
  /\ r \in Copying /\ r.pc \in {"copy", "place"} => CopiedFile(r, e, c)

\* A file with a name that is no part's is whole, and stays it when the machine stops.
Sound(e, c) ==
  /\ e.whole \/ e.loose \/ (c > 0 /\ e.copy)
  /\ e.synced \/ e.copy \/ e.loose

\* Nothing has the number of a request to come, or of one whose part is not there yet.
Numbered(n, m, q) ==
  n < 0 /\ -n <= MaxRequest =>
    -n <= m /\ \A s \in Slot : q[s].pc = "create" => q[s].number # -n

\* An entry e whose last name is n.
Fits(n, e, m, q, c) ==
  /\ Numbered(n, m, q)
  /\ e.kind = "file" => /\ n >= 0 => Sound(e, c)
                        /\ \A s \in Slot : n = -q[s].number => Mine(q[s], e, c)

FilesInv ==
  /\ FilesTyped
  /\ Numbers
  /\ \A s \in Slot : Asked(request[s])
  /\ \A p \in DOMAIN tree : Fits(Last(p), tree[p], made, request, crashes)

\* An entry e that was d, with what happened to it since.
Better(e, d) ==
  /\ e.kind = d.kind /\ e.id = d.id /\ e.copy = d.copy
  /\ d.whole => e.whole
  /\ d.synced => e.synced
  /\ d.loose => e.loose

\* It had this last name before.
Comes(n, e) == \E q \in DOMAIN tree : Last(q) = n /\ Better(e, tree[q])

\* It does what the request r, about to be a slot's, asks of what has its number.
Own(r, n, e, c) ==
  /\ r.pc = "create" => n # -r.number
  /\ e.kind = "file" /\ n = -r.number => Mine(r, e, c)

LEMMA Improved ==
  ASSUME NEW n, NEW e, NEW d, NEW m, NEW q, NEW c, Fits(n, d, m, q, c), Better(e, d)
  PROVE  Fits(n, e, m, q, c)
<1>1. Sound(d, c) => Sound(e, c)
  BY DEF Better, Sound
<1>2. \A s \in Slot : Mine(q[s], d, c) => Mine(q[s], e, c)
  BY DEF Better, Mine, Uploaded, CopiedFile
<1> QED BY <1>1, <1>2 DEF Fits, Better

LEMMA ByPc ==
  ASSUME NEW r \in RequestType
  PROVE  /\ r.pc \in {"describe", "open", "walk", "member"} => r \in Reading
         /\ r.pc \in {"body", "sync", "commit", "rename"} => r \in Uploading
         /\ r.pc \in {"create", "copy"} => r \in Copying
         /\ r.pc \in {"place", "discard"} => r \in Uploading \/ r \in Copying
         /\ r.pc = "place" /\ r.ask.op = "upload" => r \in Uploading
         /\ r.pc = "place" /\ r.ask.op = "copy" => r \in Copying
         /\ r.pc = "move" => r \in Moving
         /\ r.pc = "remove" => r \in Removing
         /\ r.number \in Nat
         /\ InProgress(r) => r # Idle
BY DEF RequestType, Idle, Reading, Uploading, Moving, Copying, Removing, Over, AsksTo, InProgress

\* What fits fits on when one request goes on.
LEMMA StillFits ==
  ASSUME NEW n, NEW e, NEW s \in Slot, NEW r, NEW c, NEW m \in Nat, NEW m2 \in Nat, m2 >= m,
         NEW q, NEW q2, \A t \in Slot \ {s} : q2[t] = q[t], q2[s] = r, n \in Int,
         Fits(n, e, m, q, c), Own(r, n, e, c)
  PROVE  Fits(n, e, m2, q2, c)
<1>1. Numbered(n, m2, q2)
  BY DEF Fits, Own, Numbered
<1>2. ASSUME e.kind = "file", NEW t \in Slot, n = -q2[t].number PROVE Mine(q2[t], e, c)
  BY <1>2 DEF Fits, Own
<1> QED BY <1>1, <1>2 DEF Fits

\* A step of one request.
LEMMA OneStep ==
  ASSUME FilesInv, NEW s \in Slot, NEW r \in RequestType, request' = [request EXCEPT ![s] = r],
         made' \in 0 .. MaxRequest, made' >= made, fresh' \in Nat, crashes' = crashes,
         Shape(tree'), IsFiniteSet(DOMAIN tree'),
         r.number <= made',
         \/ r.number = made + 1
         \/ r.number = request[s].number /\ (InProgress(r) => InProgress(request[s])),
         r.number >= 1, Asked(r),
         \A p \in DOMAIN tree' :
           \/ Comes(Last(p), tree'[p]) /\ Own(r, Last(p), tree'[p], crashes)
           \/ Fits(Last(p), tree'[p], made', [request EXCEPT ![s] = r], crashes)
  PROVE  FilesInv'
<1>1. request \in [Slot -> RequestType] /\ request' \in [Slot -> RequestType]
  BY DEF FilesInv, FilesTyped
<1>2. request'[s] = r /\ \A t \in Slot \ {s} : request'[t] = request[t]
  BY <1>1
<1>3. FilesTyped'
  BY <1>1 DEF FilesInv, FilesTyped
<1>m. made \in Nat /\ made' \in Nat
  BY FilesAssumption DEF FilesInv, FilesTyped
<1>4. Numbers'
  <2>1. \A t \in Slot : /\ request[t].number <= made
                        /\ InProgress(request[t]) => request[t].number >= 1
    BY DEF FilesInv, Numbers
  <2>0. r.number \in Nat /\ \A t \in Slot : request[t].number \in Nat
    BY <1>1, ByPc
  <2>2. \A t \in Slot : /\ request'[t].number <= made'
                        /\ InProgress(request'[t]) => request'[t].number >= 1
    BY <1>2, <1>m, <2>0, <2>1
  <2>3. \A a, b \in Slot :
          a # b /\ InProgress(request[a]) /\ InProgress(request[b]) =>
            request[a].number # request[b].number
    BY DEF FilesInv, Numbers
  <2>4. \A a, b \in Slot :
          a # b /\ InProgress(request'[a]) /\ InProgress(request'[b]) =>
            request'[a].number # request'[b].number
    BY <1>2, <1>m, <2>0, <2>1, <2>3
  <2> QED BY <2>2, <2>4 DEF Numbers, InProgress
<1>5. \A t \in Slot : Asked(request'[t])
  BY <1>2 DEF FilesInv
<1>6. ASSUME NEW p \in DOMAIN tree' PROVE Fits(Last(p), tree'[p], made', request', crashes)
  <2> DEFINE n == Last(p)
             e == tree'[p]
  <2>1. n \in Int
    BY FrontAt DEF Shape
  <2>2. CASE Comes(n, e) /\ Own(r, n, e, crashes)
    <3>1. Fits(n, e, made, request, crashes)
      BY <2>2, Improved DEF Comes, FilesInv
    <3> HIDE DEF n, e
    <3>2. Fits(n, e, made', request', crashes)
      BY <3>1, <2>1, <2>2, <1>2, <1>m, StillFits
    <3> QED BY <3>2 DEF n, e
  <2> QED BY <2>2
<1> QED BY <1>3, <1>4, <1>5, <1>6 DEF FilesInv, Fits, Numbered, Sound, Mine, Uploaded, CopiedFile, Asked

LEMMA Kinds ==
  /\ \A r \in Reading : r \notin Uploading /\ r \notin Copying /\ r \notin Moving
  /\ \A r \in Moving : r \notin Uploading /\ r \notin Copying
  /\ \A r \in Removing : r \notin Uploading /\ r \notin Copying /\ r \notin Moving
  /\ \A r \in Over : r \notin Uploading /\ r \notin Copying /\ r \notin Moving
  /\ \A r \in Uploading : r \notin Copying /\ r \notin Moving
  /\ \A r \in Copying : r \notin Moving
<1>1. \A r \in Reading : DOMAIN r = {"pc", "number", "ask", "target", "seen"}
  BY DEF Reading
<1>2. \A r \in Uploading : DOMAIN r = {"pc", "number", "ask", "target", "id"}
  BY DEF Uploading
<1>3. \A r \in Moving : DOMAIN r = {"pc", "number", "ask", "target", "destination", "replace"}
  BY DEF Moving
<1>4. \A r \in Copying : DOMAIN r = {"pc", "number", "ask", "source", "target", "kind", "replace",
                                     "id", "whole"}
  BY DEF Copying
<1>5. \A r \in Removing : DOMAIN r = {"pc", "number", "ask", "target", "kind"}
  BY DEF Removing
<1>6. \A r \in Over : DOMAIN r = {"pc", "number", "ask", "target"}
  BY DEF Over
<1>7. "seen" \notin {"pc", "number", "ask", "target", "id"}
      /\ "seen" \notin {"pc", "number", "ask", "target", "destination", "replace"}
      /\ "seen" \notin {"pc", "number", "ask", "source", "target", "kind", "replace", "id", "whole"}
      /\ "id" \notin {"pc", "number", "ask", "target", "destination", "replace"}
      /\ "source" \notin {"pc", "number", "ask", "target", "destination", "replace"}
      /\ "source" \notin {"pc", "number", "ask", "target", "id"}
      /\ "kind" \notin {"pc", "number", "ask", "target", "id"}
      /\ "kind" \notin {"pc", "number", "ask", "target", "destination", "replace"}
      /\ "source" \notin {"pc", "number", "ask", "target", "kind"}
      /\ "id" \notin {"pc", "number", "ask", "target"}
      /\ "replace" \notin {"pc", "number", "ask", "target"}
  OBVIOUS
<1> QED BY <1>1, <1>2, <1>3, <1>4, <1>5, <1>6, <1>7

\* Requests that have no part, or no more use for it.
Partless(r) ==
  \/ r \in Reading \/ r \in Moving \/ r \in Removing \/ r \in Over
  \/ (r \in Uploading \/ r \in Copying) /\ r.pc \in {"discard", "done"}

LEMMA PartlessOwns ==
  ASSUME NEW r, Partless(r), NEW n, NEW e, NEW c
  PROVE  Own(r, n, e, c)
<1>1. (r \notin Uploading /\ r \notin Copying) \/ r.pc \in {"discard", "done"}
  BY Kinds DEF Partless
<1>2. r.pc # "create"
  BY DEF Partless, Reading, Moving, Removing, Over
<1> QED BY <1>1, <1>2 DEF Own, Mine

\* An entry is what it was.
LEMMA SameComes ==
  ASSUME NEW q \in DOMAIN tree
  PROVE  Comes(Last(q), tree[q])
BY DEF Comes, Better

\* No entry has the number of a request that has not been made.
LEMMA FreshNumber ==
  ASSUME FilesInv, made < MaxRequest, NEW p \in DOMAIN tree
  PROVE  Last(p) # -(made + 1) /\ Last(p) \in Int
<1>1. made \in Nat /\ MaxRequest \in Nat /\ p \in Paths /\ p # <<>> /\ Numbered(Last(p), made, request)
  BY FilesAssumption DEF FilesInv, FilesTyped, Fits, Shape
<1>2. Last(p) \in Int
  BY <1>1, FrontAt
<1> QED BY <1>1, <1>2 DEF Numbered

\* A new request that leaves the tree alone.
LEMMA NewStep ==
  ASSUME FilesInv, NEW s \in Slot, NEW r \in RequestType, request' = [request EXCEPT ![s] = r],
         made < MaxRequest, made' = made + 1, fresh' \in Nat, crashes' = crashes, tree' = tree,
         r.number = made + 1, Asked(r)
  PROVE  FilesInv'
<1>1. made \in Nat /\ MaxRequest \in Nat /\ Shape(tree) /\ IsFiniteSet(DOMAIN tree)
  BY FilesAssumption DEF FilesInv, FilesTyped
<1>2. made' \in 0 .. MaxRequest /\ made' >= made /\ r.number <= made' /\ r.number >= 1
  BY <1>1
<1>3. \A p \in DOMAIN tree' : Comes(Last(p), tree'[p]) /\ Own(r, Last(p), tree'[p], crashes)
  BY SameComes, FreshNumber DEF Own
<1> QED BY <1>1, <1>2, <1>3, OneStep

\* A request goes on to where it has no use for a part, and what is left in the tree was there.
LEMMA Proceeds ==
  ASSUME FilesInv, NEW s \in Slot, NEW r \in RequestType, request' = [request EXCEPT ![s] = r],
         made' = made, fresh' = fresh, crashes' = crashes,
         Shape(tree'), IsFiniteSet(DOMAIN tree'),
         \A p \in DOMAIN tree' :
           \/ Comes(Last(p), tree'[p])
           \/ Fits(Last(p), tree'[p], made', [request EXCEPT ![s] = r], crashes),
         InProgress(request[s]), r.number = request[s].number, Asked(r), Partless(r)
  PROVE  FilesInv'
<1>1. made \in 0 .. MaxRequest /\ fresh \in Nat /\ made \in Nat
  BY FilesAssumption DEF FilesInv, FilesTyped
<1>2. request[s].number <= made /\ request[s].number >= 1
  BY DEF FilesInv, Numbers
<1>3. made' >= made
  BY <1>1
<1>4. \A p \in DOMAIN tree' :
           \/ Comes(Last(p), tree'[p]) /\ Own(r, Last(p), tree'[p], crashes)
           \/ Fits(Last(p), tree'[p], made', [request EXCEPT ![s] = r], crashes)
  BY PartlessOwns
<1> QED BY <1>1, <1>2, <1>3, <1>4, OneStep

LEMMA AskFacts ==
  ASSUME NEW ask \in Asks
  PROVE  ask.path \in Paths /\ (ask.op \in {"rename", "copy"} => ask.to \in Paths)
<1>1. \A p \in Seq(Int \ {0}) : p \in Seq(Int)
  BY SeqMonotonic
<1> QED BY <1>1, AsksAssumption DEF Paths

LEMMA EntryKinds ==
  ASSUME Shape(tree), NEW p
  PROVE  /\ Entry(p).kind \in {"file", "dir", "link", "none"} /\ Entry(p).id \in Nat
         /\ Entry(p).kind # "none" => p \in DOMAIN tree
BY EntryFacts DEF EntryType, NoFile, None
-----------------------------------------------------------------------------
(* The checks of a request.                                                *)

LEMMA ReadAdmitInv ==
  ASSUME FilesInv, made < MaxRequest, NEW s \in Slot, NEW ask \in Asks, ReadAdmit(s, ask)
  PROVE  FilesInv'
<1> DEFINE r == [pc |-> "describe", number |-> made + 1, ask |-> ask, target |-> admit(ask.path),
                 seen |-> None]
<1>1. Shape(tree) /\ made \in Nat /\ fresh \in Nat
  BY FilesAssumption DEF FilesInv, FilesTyped
<1>2. /\ request' = [request EXCEPT ![s] = r] /\ made' = made + 1 /\ fresh' = fresh
      /\ crashes' = crashes /\ tree' = tree
  BY DEF ReadAdmit, Begin
<1>3. r \in Reading
  BY <1>1, AskFacts, AdmitFacts DEF Reading, None
<1>4. r.number = made + 1
  OBVIOUS
<1> HIDE DEF r
<1>5. Asked(r) /\ r \in RequestType
  BY <1>3, Kinds DEF Asked, RequestType
<1> QED BY <1>1, <1>2, <1>4, <1>5, NewStep

LEMMA ArchiveStartInv ==
  ASSUME FilesInv, made < MaxRequest, NEW s \in Slot, NEW ask \in Asks, ArchiveStart(s, ask)
  PROVE  FilesInv'
<1> DEFINE r == [pc |-> "walk", number |-> made + 1, ask |-> ask, target |-> admit(ask.path),
                 seen |-> None]
<1>1. Shape(tree) /\ made \in Nat /\ fresh \in Nat
  BY FilesAssumption DEF FilesInv, FilesTyped
<1>2. /\ request' = [request EXCEPT ![s] = r] /\ made' = made + 1 /\ fresh' = fresh
      /\ crashes' = crashes /\ tree' = tree
  BY DEF ArchiveStart, Begin
<1>3. r \in Reading
  BY <1>1, AskFacts, AdmitFacts DEF Reading, None
<1>4. r.number = made + 1
  OBVIOUS
<1> HIDE DEF r
<1>5. Asked(r) /\ r \in RequestType
  BY <1>3, Kinds DEF Asked, RequestType
<1> QED BY <1>1, <1>2, <1>4, <1>5, NewStep

LEMMA RenameCheckInv ==
  ASSUME FilesInv, made < MaxRequest, NEW s \in Slot, NEW ask \in Asks, RenameCheck(s, ask)
  PROVE  FilesInv'
<1> DEFINE source == target(ask.path)
           dest == target(ask.to)
           replaced == Existing(dest).kind # "none"
           r == [pc |-> "move", number |-> made + 1, ask |-> ask, target |-> source,
                 destination |-> dest, replace |-> replaced]
<1>1. Shape(tree) /\ made \in Nat /\ fresh \in Nat
  BY FilesAssumption DEF FilesInv, FilesTyped
<1>2. /\ request' = [request EXCEPT ![s] = r] /\ made' = made + 1 /\ fresh' = fresh
      /\ crashes' = crashes /\ tree' = tree /\ ask.op = "rename"
      /\ source # Gone /\ dest # Gone /\ ~(Last(dest) < 0)
      /\ replaced => ask.overwrite \/ source = dest
  BY DEF RenameCheck, Begin, is_part
<1>3. source \in Named /\ dest \in Proper
  BY <1>1, <1>2, AskFacts, TargetFacts DEF Proper
<1>4. replaced \in BOOLEAN
  OBVIOUS
<1> HIDE DEF source, dest, replaced
<1>5. r \in Moving /\ r.number = made + 1
  BY <1>1, <1>2, <1>3, <1>4 DEF Moving, AsksTo
<1>6. r.replace => r.ask.overwrite \/ r.target = r.destination
  BY <1>2
<1> HIDE DEF r
<1>7. Asked(r) /\ r \in RequestType
  BY <1>5, <1>6, Kinds DEF Asked, RequestType
<1> QED BY <1>1, <1>2, <1>5, <1>7, NewStep

LEMMA CopyCheckInv ==
  ASSUME FilesInv, made < MaxRequest, NEW s \in Slot, NEW ask \in Asks, CopyCheck(s, ask)
  PROVE  FilesInv'
<1> DEFINE source == target(ask.path)
           dest == target(ask.to)
           kind == Existing(source).kind
           replaced == Existing(dest).kind # "none"
           r == [pc |-> "create", number |-> made + 1, ask |-> ask, source |-> source,
                 target |-> dest, kind |-> kind, replace |-> replaced, id |-> fresh + 1,
                 whole |-> FALSE]
<1>1. Shape(tree) /\ made \in Nat /\ fresh \in Nat
  BY FilesAssumption DEF FilesInv, FilesTyped
<1>2. /\ request' = [request EXCEPT ![s] = r] /\ made' = made + 1 /\ fresh' = fresh + 1
      /\ crashes' = crashes /\ tree' = tree /\ ask.op = "copy"
      /\ source # Gone /\ dest # Gone /\ ~(Last(dest) < 0) /\ kind \in {"file", "dir"}
      /\ replaced => ask.overwrite
  BY DEF CopyCheck, Begin, is_part
<1>3. source \in Named /\ dest \in Proper
  BY <1>1, <1>2, AskFacts, TargetFacts DEF Proper
<1>4. replaced \in BOOLEAN
  OBVIOUS
<1> HIDE DEF source, dest, replaced, kind
<1>5. r \in Copying /\ r.number = made + 1
  BY <1>1, <1>2, <1>3, <1>4 DEF Copying, AsksTo
<1>6. r.replace => r.ask.overwrite
  BY <1>2
<1> HIDE DEF r
<1>7. Asked(r) /\ r \in RequestType
  BY <1>5, <1>6, Kinds DEF Asked, RequestType
<1>8. made' = made + 1 /\ fresh' \in Nat
  BY <1>1, <1>2
<1> QED BY <1>2, <1>5, <1>7, <1>8, NewStep

LEMMA DeleteCheckInv ==
  ASSUME FilesInv, made < MaxRequest, NEW s \in Slot, NEW ask \in Asks, DeleteCheck(s, ask)
  PROVE  FilesInv'
<1> DEFINE path == target(ask.path)
           kind == Existing(path).kind
           r == [pc |-> "remove", number |-> made + 1, ask |-> ask, target |-> path, kind |-> kind]
<1>1. Shape(tree) /\ made \in Nat /\ fresh \in Nat
  BY FilesAssumption DEF FilesInv, FilesTyped
<1>2. /\ request' = [request EXCEPT ![s] = r] /\ made' = made + 1 /\ fresh' = fresh
      /\ crashes' = crashes /\ tree' = tree /\ ask.op = "delete"
      /\ path # Gone /\ kind # "none"
  BY DEF DeleteCheck, Begin
<1>3. path \in Named
  BY <1>1, <1>2, AskFacts, TargetFacts
<1>4. kind \in {"file", "dir", "link"}
  BY <1>1, <1>2, EntryKinds DEF Existing
<1> HIDE DEF path, kind
<1>5. r \in Removing /\ r.number = made + 1
  BY <1>1, <1>2, <1>3, <1>4 DEF Removing, AsksTo
<1> HIDE DEF r
<1>6. Asked(r) /\ r \in RequestType
  BY <1>5, Kinds DEF Asked, RequestType
<1> QED BY <1>1, <1>2, <1>5, <1>6, NewStep

-----------------------------------------------------------------------------
(* The steps of a request that leave the tree alone.                       *)

\* A request goes on without a change of the tree.
LEMMA ProceedsQuietly ==
  ASSUME FilesInv, NEW s \in Slot, NEW r \in RequestType, request' = [request EXCEPT ![s] = r],
         made' = made, fresh' = fresh, crashes' = crashes, tree' = tree,
         InProgress(request[s]), r.number = request[s].number, Asked(r), Partless(r)
  PROVE  FilesInv'
<1>1. Shape(tree') /\ IsFiniteSet(DOMAIN tree')
  BY DEF FilesInv, FilesTyped
<1>2. \A p \in DOMAIN tree' : Comes(Last(p), tree'[p])
  BY SameComes
<1> QED BY <1>1, <1>2, Proceeds

\* What a download may reach next.
MayFind(s) ==
  LET directory == request[s].target
      selected  == {admit(Append(directory, name)) : name \in request[s].ask.entries}
  IN IF selected = {} THEN Reached(directory)
     ELSE selected \cup UNION {Reached(path) : path \in selected \ {Gone}}

LEMMA ReachedPaths ==
  ASSUME Shape(tree), NEW directory \in Paths, NEW path \in Reached(directory)
  PROVE  path \in Paths
<1> DEFINE real == canonicalize(directory)
           below == IF IsDir(real) THEN walk(real, directory) ELSE {}
<1>1. real \in Paths
  BY CanonFacts
<1>2. \A p \in below : p \in DOMAIN tree /\ p \in Paths /\ IsPrefix(real, p)
  BY DEF walk, Below, Shape
<1>3. (\E p \in below : path = Rebased(p, real, directory)) \/ (\E p \in below : path = admit(p))
  BY DEF Reached
<1> HIDE DEF real, below
<1>4. ASSUME NEW p \in below, path = Rebased(p, real, directory) PROVE path \in Paths
  BY <1>1, <1>2, <1>4, RebasedBelow
<1>5. ASSUME NEW p \in below, path = admit(p) PROVE path \in Paths
  BY <1>2, <1>5, AdmitFacts
<1> QED BY <1>3, <1>4, <1>5

LEMMA MayFindPaths ==
  ASSUME Shape(tree), NEW s \in Slot, request[s].target \in Paths, NEW path \in MayFind(s)
  PROVE  path \in Paths
<1> DEFINE directory == request[s].target
           selected  == {admit(Append(directory, name)) : name \in request[s].ask.entries}
<1>1. ASSUME NEW name PROVE admit(Append(directory, name)) \in Paths
  <2>1. Len(Append(directory, name)) \in Nat
    BY DEF Paths
  <2>2. canonicalize(Append(directory, name)) \in Paths
    BY <2>1, CanonAny
  <2> QED BY <2>2, FixedPaths DEF admit
<1>2. selected \subseteq Paths
  BY <1>1
<1>3. path \in Reached(directory) \/ path \in selected
      \/ \E other \in selected : path \in Reached(other)
  BY DEF MayFind
<1> HIDE DEF selected
<1> QED BY <1>2, <1>3, ReachedPaths

LEMMA ReadStepInv ==
  ASSUME FilesInv, NEW s \in Slot,
         ReadDescribe(s) \/ ReadOpen(s) \/ ArchiveReach(s) \/ ArchiveMember(s) \/ ArchiveEnd(s)
  PROVE  FilesInv'
<1>1. Shape(tree) /\ request \in [Slot -> RequestType]
  BY DEF FilesInv, FilesTyped
<1>2. request[s] \in Reading /\ InProgress(request[s])
  BY <1>1, ByPc DEF ReadDescribe, ReadOpen, ArchiveReach, ArchiveMember, ArchiveEnd, InProgress
<1>3. made' = made /\ fresh' = fresh /\ crashes' = crashes /\ tree' = tree
  BY DEF ReadDescribe, ReadOpen, ArchiveReach, ArchiveMember, ArchiveEnd, Quiet
<1>4. SUFFICES ASSUME NEW r \in Reading, request' = [request EXCEPT ![s] = r],
                      r.number = request[s].number
               PROVE  FilesInv'
  <2>1. CASE ReadDescribe(s)
    <3> DEFINE pc == IF Entry(canonicalize(request[s].target)).kind = "file" THEN "open" ELSE "done"
               seen == IF Entry(canonicalize(request[s].target)).kind = "file"
                       THEN Entry(canonicalize(request[s].target)).id ELSE None
               r == [request[s] EXCEPT !.pc = pc, !.seen = seen]
    <3>1. request' = [request EXCEPT ![s] = r]
      BY <2>1, <1>1 DEF ReadDescribe
    <3>2. pc \in {"open", "done"} /\ seen \in Nat
      BY <1>1, EntryKinds DEF None
    <3> HIDE DEF pc, seen
    <3>3. r \in Reading /\ r.number = request[s].number
      BY <1>2, <3>2 DEF Reading
    <3> QED BY <3>1, <3>3, <1>4
  <2>2. CASE ReadOpen(s)
    <3> DEFINE seen == VerifiedOpen(request[s].seen, request[s].target)
               r == [request[s] EXCEPT !.pc = "done", !.seen = seen]
    <3>1. request' = [request EXCEPT ![s] = r]
      BY <2>2, <1>1 DEF ReadOpen
    <3>2. seen \in Nat
      BY <1>2 DEF VerifiedOpen, Reading, None
    <3> HIDE DEF seen
    <3>3. r \in Reading /\ r.number = request[s].number
      BY <1>2, <3>2 DEF Reading
    <3> QED BY <3>1, <3>3, <1>4
  <2>3. CASE ArchiveReach(s)
    <3>1. PICK path \in MayFind(s) :
            request' = [request EXCEPT ![s].pc = "member", ![s].target = path]
      BY <2>3 DEF ArchiveReach, MayFind
    <3> DEFINE r == [request[s] EXCEPT !.pc = "member", !.target = path]
    <3>2. request' = [request EXCEPT ![s] = r]
      BY <3>1, <1>1
    <3>3. path \in Paths
      <4>1. request[s].target \in Paths
        BY <1>2 DEF Reading
      <4> QED BY <1>1, <4>1, MayFindPaths
    <3>4. r \in Reading /\ r.number = request[s].number
      BY <1>2, <3>3 DEF Reading
    <3> QED BY <3>2, <3>4, <1>4
  <2>4. CASE ArchiveMember(s)
    <3> DEFINE seen == open_without_following(request[s].target)
               r == [request[s] EXCEPT !.pc = "done", !.seen = seen]
    <3>1. request' = [request EXCEPT ![s] = r]
      BY <2>4, <1>1 DEF ArchiveMember
    <3>2. seen \in Nat
      BY <1>1, EntryKinds DEF open_without_following, None, Existing
    <3> HIDE DEF seen
    <3>3. r \in Reading /\ r.number = request[s].number
      BY <1>2, <3>2 DEF Reading
    <3> QED BY <3>1, <3>3, <1>4
  <2>5. CASE ArchiveEnd(s)
    <3> DEFINE r == [request[s] EXCEPT !.pc = "done"]
    <3>1. request' = [request EXCEPT ![s] = r]
      BY <2>5, <1>1 DEF ArchiveEnd, Done, Goto
    <3>2. r \in Reading /\ r.number = request[s].number
      BY <1>2 DEF Reading
    <3> QED BY <3>1, <3>2, <1>4
  <2> QED BY <2>1, <2>2, <2>3, <2>4, <2>5
<1>5. r \in RequestType /\ Asked(r) /\ Partless(r)
  BY Kinds DEF RequestType, Asked, Partless
<1> QED BY <1>2, <1>3, <1>4, <1>5, ProceedsQuietly

\* What a step to another pc leaves of a request.

\* What a step to another pc leaves of a request.
LEMMA GotoFacts ==
  ASSUME FilesInv, NEW s \in Slot, NEW pc, Goto(s, pc)
  PROVE  LET r == [request[s] EXCEPT !.pc = pc] IN
         /\ request' = [request EXCEPT ![s] = r]
         /\ request[s] \in RequestType
         /\ request[s] \in Uploading
            /\ pc \in {"body", "sync", "commit", "place", "rename", "discard", "done"} =>
              /\ r \in Uploading /\ r \in RequestType /\ r.pc = pc /\ r.number = request[s].number
              /\ r.ask = request[s].ask /\ r.target = request[s].target /\ r.id = request[s].id
         /\ request[s] \in Copying /\ pc \in {"create", "copy", "place", "discard", "done"} =>
              /\ r \in Copying /\ r \in RequestType /\ r.pc = pc /\ r.number = request[s].number
              /\ r.ask = request[s].ask /\ r.target = request[s].target /\ r.id = request[s].id
              /\ r.kind = request[s].kind /\ r.source = request[s].source
              /\ r.replace = request[s].replace /\ r.whole = request[s].whole
         /\ request[s] \in Moving /\ pc = "done" =>
              r \in Moving /\ r \in RequestType /\ r.pc = pc /\ r.number = request[s].number
         /\ request[s] \in Removing /\ pc = "done" =>
              r \in Removing /\ r \in RequestType /\ r.pc = pc /\ r.number = request[s].number
<1>1. request \in [Slot -> RequestType]
  BY DEF FilesInv, FilesTyped
<1>2. request' = [request EXCEPT ![s] = [request[s] EXCEPT !.pc = pc]]
  BY <1>1 DEF Goto
<1> QED BY <1>1, <1>2 DEF RequestType, Uploading, Copying, Moving, Removing

\* A name that is no part's, at a step of a request.
LEMMA SeenFits ==
  ASSUME FilesInv, NEW s \in Slot, NEW r \in RequestType, r.number >= 1,
         NEW n \in Int, n >= 0, NEW m, NEW e, e.kind = "file" => Sound(e, crashes)
  PROVE  Fits(n, e, m, [request EXCEPT ![s] = r], crashes)
<1> DEFINE q2 == [request EXCEPT ![s] = r]
<1>1. request \in [Slot -> RequestType] /\ q2 \in [Slot -> RequestType]
  BY DEF FilesInv, FilesTyped
<1>2. \A t \in Slot : q2[t] = r \/ q2[t] = request[t]
  BY <1>1
<1> HIDE DEF q2
<1>3. ASSUME NEW t \in Slot, n = -q2[t].number PROVE Mine(q2[t], e, crashes)
  <2>1. q2[t].number \in Nat
    BY <1>1, ByPc
  <2>2. q2[t].number = 0
    BY <1>3, <2>1
  <2>3. q2[t] = request[t]
    BY <1>2, <2>2
  <2>4. InProgress(request[t]) => request[t].number >= 1
    BY DEF FilesInv, Numbers
  <2> QED BY <2>2, <2>3, <2>4 DEF InProgress, Mine
<1>4. Numbered(n, m, q2)
  BY DEF Numbered
<1>5. Fits(n, e, m, q2, crashes)
  BY <1>3, <1>4 DEF Fits
<1> QED BY <1>5 DEF q2

\* A request that ends or gives its part up.
LEMMA GivesUp ==
  ASSUME FilesInv, NEW s \in Slot, NEW pc \in {"discard", "done"}, Goto(s, pc),
         \/ request[s] \in Uploading
         \/ request[s] \in Copying
         \/ pc = "done" /\ (request[s] \in Moving \/ request[s] \in Removing),
         InProgress(request[s]), made' = made, fresh' = fresh, crashes' = crashes,
         Shape(tree'), IsFiniteSet(DOMAIN tree'),
         \A p \in DOMAIN tree' :
           \/ Comes(Last(p), tree'[p])
           \/ Last(p) >= 0 /\ (tree'[p].kind = "file" => Sound(tree'[p], crashes))
  PROVE  FilesInv'
<1> DEFINE r == [request[s] EXCEPT !.pc = pc]
<1>1. /\ request' = [request EXCEPT ![s] = r] /\ r \in RequestType /\ r.pc = pc
      /\ r.number = request[s].number
      /\ \/ r \in Uploading
         \/ r \in Copying /\ request[s] \in Copying /\ r.ask = request[s].ask /\ r.replace = request[s].replace
         \/ r \in Moving
         \/ r \in Removing
  BY GotoFacts
<1>2. Asked(request[s])
  BY DEF FilesInv
<1> HIDE DEF r
<1>3. Asked(r) /\ Partless(r)
  BY <1>1, <1>2, Kinds DEF Asked, Partless
<1>4. \A p \in DOMAIN tree' :
           \/ Comes(Last(p), tree'[p])
           \/ Fits(Last(p), tree'[p], made', [request EXCEPT ![s] = r], crashes)
  <2>1. r.number >= 1
    BY <1>1 DEF FilesInv, Numbers
  <2>2. \A p \in DOMAIN tree' : Last(p) \in Int
    BY FrontAt DEF Shape
  <2> QED BY <1>1, <2>1, <2>2, SeenFits
<1> QED BY <1>1, <1>3, <1>4, Proceeds

LEMMA GivesUpQuietly ==
  ASSUME FilesInv, NEW s \in Slot, NEW pc \in {"discard", "done"}, Goto(s, pc),
         \/ request[s] \in Uploading
         \/ request[s] \in Copying
         \/ pc = "done" /\ (request[s] \in Moving \/ request[s] \in Removing),
         InProgress(request[s]), made' = made, fresh' = fresh, crashes' = crashes, tree' = tree
  PROVE  FilesInv'
<1>1. Shape(tree') /\ IsFiniteSet(DOMAIN tree')
  BY DEF FilesInv, FilesTyped
<1>2. \A p \in DOMAIN tree' : Comes(Last(p), tree'[p])
  BY SameComes
<1> QED BY <1>1, <1>2, GivesUp

\* A request goes on with its part, and what is in the tree was there.
LEMMA GoesOnWithPart ==
  ASSUME FilesInv, NEW s \in Slot, NEW r, r \in Uploading \/ r \in Copying,
         request' = [request EXCEPT ![s] = r],
         made' = made, fresh' = fresh, crashes' = crashes,
         Shape(tree'), IsFiniteSet(DOMAIN tree'),
         InProgress(request[s]), r.number = request[s].number, Asked(r), r.pc # "create",
         \A p \in DOMAIN tree' :
           /\ Comes(Last(p), tree'[p])
           /\ tree'[p].kind = "file" /\ Last(p) = -r.number => Mine(r, tree'[p], crashes)
  PROVE  FilesInv'
<1>1. made \in 0 .. MaxRequest /\ fresh \in Nat /\ made \in Nat
  BY FilesAssumption DEF FilesInv, FilesTyped
<1>2. request[s].number <= made /\ request[s].number >= 1
  BY DEF FilesInv, Numbers
<1>3. made' >= made /\ r \in RequestType
  BY <1>1 DEF RequestType
<1>4. \A p \in DOMAIN tree' : Comes(Last(p), tree'[p]) /\ Own(r, Last(p), tree'[p], crashes)
  BY DEF Own
<1> QED BY <1>1, <1>2, <1>3, <1>4, OneStep

\* An upload that is synced stays so.
LEMMA StaysReady ==
  ASSUME FilesInv, NEW s \in Slot, NEW pc \in {"place", "rename"}, Goto(s, pc),
         request[s] \in Uploading, request[s].pc \in {"commit", "place"},
         made' = made, fresh' = fresh, crashes' = crashes, tree' = tree
  PROVE  FilesInv'
<1> DEFINE r == [request[s] EXCEPT !.pc = pc]
<1>1. /\ request' = [request EXCEPT ![s] = r] /\ r \in Uploading
      /\ r.pc = pc /\ r.number = request[s].number /\ r.id = request[s].id
  BY GotoFacts
<1> HIDE DEF r
<1>2. ASSUME NEW p \in DOMAIN tree, tree[p].kind = "file", Last(p) = -r.number
      PROVE  Mine(r, tree[p], crashes)
  <2>1. Mine(request[s], tree[p], crashes)
    BY <1>1, <1>2 DEF FilesInv, Fits
  <2> QED BY <2>1, <1>1, Kinds DEF Mine, Uploaded
<1>3. Asked(r) /\ InProgress(request[s]) /\ r.pc # "create"
  BY <1>1, Kinds DEF Asked, InProgress
<1>4. Shape(tree') /\ IsFiniteSet(DOMAIN tree')
  BY DEF FilesInv, FilesTyped
<1>5. \A p \in DOMAIN tree' :
           /\ Comes(Last(p), tree'[p])
           /\ tree'[p].kind = "file" /\ Last(p) = -r.number => Mine(r, tree'[p], crashes)
  BY <1>2, SameComes
<1> QED BY <1>1, <1>3, <1>4, <1>5, GoesOnWithPart

LEMMA UploadQuietInv ==
  ASSUME FilesInv, NEW s \in Slot, UploadCut(s) \/ CommitCheck(s) \/ CopyFails(s)
  PROVE  FilesInv'
<1>1. request[s] \in RequestType
  BY DEF FilesInv, FilesTyped
<1>2. made' = made /\ fresh' = fresh /\ crashes' = crashes /\ tree' = tree
  BY DEF UploadCut, CommitCheck, CopyFails, Quiet
<1>3. CASE UploadCut(s)
  <2>1. request[s] \in Uploading /\ InProgress(request[s]) /\ Goto(s, "discard")
    BY <1>1, <1>3, ByPc DEF UploadCut, InProgress
  <2> QED BY <1>2, <2>1, GivesUpQuietly
<1>4. CASE CopyFails(s)
  <2>1. request[s] \in Copying /\ InProgress(request[s]) /\ Goto(s, "discard")
    BY <1>1, <1>4, ByPc DEF CopyFails, InProgress
  <2> QED BY <1>2, <2>1, GivesUpQuietly
<1>5. CASE CommitCheck(s)
  <2>1. request[s] \in Uploading /\ InProgress(request[s]) /\ request[s].pc = "commit"
    BY <1>1, <1>5, ByPc DEF CommitCheck, InProgress
  <2>2. CASE Goto(s, "discard")
    BY <1>2, <2>1, <2>2, GivesUpQuietly
  <2>3. CASE Goto(s, "place")
    BY <1>2, <2>1, <2>3, StaysReady
  <2> QED BY <1>5, <2>2, <2>3 DEF CommitCheck
<1> QED BY <1>3, <1>4, <1>5

-----------------------------------------------------------------------------
(* The steps that change the tree.                                         *)

\* A tree whose entries were there before, or may be seen.
Tidy(T) ==
  /\ Shape(T) /\ IsFiniteSet(DOMAIN T)
  /\ \A p \in DOMAIN T :
       \/ Comes(Last(p), T[p])
       \/ Last(p) >= 0 /\ (T[p].kind = "file" => Sound(T[p], crashes))

LEMMA TidyEnd ==
  ASSUME FilesInv, NEW s \in Slot, NEW pc \in {"discard", "done"}, Goto(s, pc),
         \/ request[s] \in Uploading
         \/ request[s] \in Copying
         \/ pc = "done" /\ (request[s] \in Moving \/ request[s] \in Removing),
         InProgress(request[s]), made' = made, fresh' = fresh, crashes' = crashes,
         NEW T, Tidy(T), tree' = T
  PROVE  FilesInv'
BY GivesUp DEF Tidy

LEMMA TidyWithout ==
  ASSUME FilesInv, NEW S, Shape(Without(S))
  PROVE  Tidy(Without(S)) /\ \A p \in DOMAIN Without(S) : Comes(Last(p), Without(S)[p])
<1> DEFINE T == Without(S)
<1>1. DOMAIN T \subseteq DOMAIN tree /\ \A p \in DOMAIN T : T[p] = tree[p]
  BY DEF Without
<1>2. Shape(T)
  OBVIOUS
<1> HIDE DEF T
<1>3. IsFiniteSet(DOMAIN T)
  BY <1>1, FS_Subset DEF FilesInv, FilesTyped
<1>4. \A p \in DOMAIN T : Comes(Last(p), T[p])
  BY <1>1, SameComes
<1>5. Tidy(T)
  BY <1>2, <1>3, <1>4 DEF Tidy
<1> QED BY <1>4, <1>5 DEF T

LEMMA TidySame ==
  ASSUME FilesInv
  PROVE  Tidy(tree)
BY SameComes DEF Tidy, FilesInv, FilesTyped

\* A tree in which the entry at `from`, and nothing else, has another last name.
Retitled(T, from, to) ==
  /\ Shape(T) /\ IsFiniteSet(DOMAIN T)
  /\ \A p \in DOMAIN T :
       \/ Comes(Last(p), T[p])
       \/ p = to /\ from \in DOMAIN tree /\ T[p] = tree[from]

LEMMA RetitledTidy ==
  ASSUME NEW T, NEW from, NEW to, Retitled(T, from, to), Last(to) >= 0,
         from \in DOMAIN tree => (tree[from].kind = "file" => Sound(tree[from], crashes))
  PROVE  Tidy(T)
BY DEF Retitled, Tidy

LEMMA RetitledSame ==
  ASSUME FilesInv, NEW from, NEW to
  PROVE  Retitled(tree, from, to)
BY SameComes DEF Retitled, FilesInv, FilesTyped

LEMMA RetitledLoose ==
  ASSUME NEW T, NEW from, NEW to \in Proper, Retitled(T, from, to)
  PROVE  Tidy(Loosened(T, to))
<1> DEFINE L == Loosened(T, to)
<1>1. DOMAIN L = DOMAIN T
      /\ \A p \in DOMAIN T : L[p] = IF IsPrefix(to, p) THEN [T[p] EXCEPT !.loose = TRUE] ELSE T[p]
  BY DEF Loosened
<1> HIDE DEF L
<1>2. ASSUME NEW p \in DOMAIN T
      PROVE  /\ L[p] \in EntryType /\ Better(L[p], T[p])
             /\ IsPrefix(to, p) => L[p].loose
  <2> DEFINE e == T[p]
             w == [e EXCEPT !.loose = TRUE]
  <2>1. L[p] = IF IsPrefix(to, p) THEN w ELSE e
    BY <1>1
  <2>2. e \in EntryType
    BY DEF Retitled, Shape
  <2> HIDE DEF e
  <2>3. /\ w \in EntryType /\ w.kind = e.kind /\ w.id = e.id /\ w.copy = e.copy
        /\ w.whole = e.whole /\ w.synced = e.synced /\ w.loose = TRUE
    BY <2>2 DEF EntryType
  <2> HIDE DEF w
  <2>4. Better(w, e) /\ Better(e, e) /\ w.loose
    BY <2>3 DEF Better
  <2> QED BY <2>1, <2>2, <2>3, <2>4 DEF e
<1>3. Shape(L)
  <2>1. \A p \in DOMAIN T : L[p].kind = T[p].kind
    BY <1>2 DEF Better
  <2> QED BY <1>1, <1>2, <2>1 DEF Retitled, Shape
<1>4. ASSUME NEW p \in DOMAIN T, Comes(Last(p), T[p]) PROVE Comes(Last(p), L[p])
  <2>1. PICK q \in DOMAIN tree : Last(q) = Last(p) /\ Better(T[p], tree[q])
    BY <1>4 DEF Comes
  <2>2. Better(L[p], tree[q])
    BY <1>2, <2>1 DEF Better
  <2> QED BY <2>1, <2>2 DEF Comes
<1>5. IsPrefix(to, to) /\ Last(to) >= 0
  <2>1. to \in Paths /\ Last(to) >= 0 /\ Len(to) <= Len(to)
    BY PathAt DEF Proper, Named
  <2> QED BY <2>1, PrefixAt
<1>6. ASSUME NEW p \in DOMAIN T, p = to PROVE Sound(L[p], crashes)
  BY <1>2, <1>5, <1>6 DEF Sound
<1>7. IsFiniteSet(DOMAIN L)
  BY <1>1 DEF Retitled
<1>8. Tidy(L)
  BY <1>1, <1>3, <1>4, <1>5, <1>6, <1>7 DEF Tidy, Retitled
<1> QED BY <1>8 DEF L

LEMMA FrontLast ==
  ASSUME NEW p \in Paths, p # <<>>
  PROVE  p = Append(Front(p), Last(p))
<1>1. /\ Len(p) \in Nat /\ Len(Front(p)) = Len(p) - 1 /\ Last(p) = p[Len(p)] /\ Len(p) >= 1
      /\ \A i \in 1 .. Len(p) - 1 : Front(p)[i] = p[i]
      /\ Front(p) \in Paths /\ Last(p) \in Int
  BY FrontAt, PathAt
<1> DEFINE a == Append(Front(p), Last(p))
<1>2. a \in Paths /\ Len(a) = Len(Front(p)) + 1 /\ a[Len(a)] = Last(p)
      /\ \A i \in 1 .. Len(Front(p)) : a[i] = Front(p)[i]
  BY <1>1, AppendAt
<1> HIDE DEF a
<1>3. Len(a) = Len(p) /\ \A i \in 1 .. Len(a) : a[i] = p[i]
  BY <1>1, <1>2
<1>4. a = p
  BY <1>2, <1>3, SamePath
<1> QED BY <1>4 DEF a

\* An operation reaches what is excluded, or a directory above it, under its own name only.

LEMMA MovedRetitled ==
  ASSUME FilesInv, NEW from \in DOMAIN tree, NEW to \in Named, IsDir(Front(to)), ~IsPrefix(from, to)
  PROVE  Retitled(MovedTo(from, to), from, to)
<1> DEFINE T == MovedTo(from, to)
<1>1. Shape(tree) /\ IsFiniteSet(DOMAIN tree) /\ from \in Named /\ to \in Paths /\ to # <<>>
  BY DEF FilesInv, FilesTyped, Shape, Named
<1>2. Front(to) \in Paths /\ Last(to) \in Int /\ to = Append(Front(to), Last(to))
  BY <1>1, FrontAt, FrontLast
<1>3. Shape(T)
  <2> DEFINE d == Front(to)
             x == Last(to)
  <2>1. IsDir(d) /\ ~IsPrefix(from, Append(d, x)) /\ T = MovedTo(from, Append(d, x))
    BY <1>2
  <2> HIDE DEF d, x
  <2>2. d \in Paths /\ x \in Int
    BY <1>2 DEF d, x
  <2>3. Shape(MovedTo(from, Append(d, x)))
    BY <1>1, <2>1, <2>2, ShapeMoved
  <2> QED BY <2>1, <2>3
<1>4. \A p \in DOMAIN T :
        \/ p \in DOMAIN tree /\ ~IsPrefix(from, p) /\ ~IsPrefix(to, p) /\ T[p] = tree[p]
        \/ \E q \in DOMAIN tree : IsPrefix(from, q) /\ p = Rebased(q, from, to) /\ T[p] = tree[q]
  BY <1>1, MovedFacts
<1> HIDE DEF T
<1>5. IsFiniteSet(DOMAIN T)
  <2> DEFINE U == {Rebased(q, from, to) : q \in DOMAIN tree}
  <2>1. IsFiniteSet(U)
    <3> DEFINE f == [q \in DOMAIN tree |-> Rebased(q, from, to)]
    <3>1. f \in Surjection(DOMAIN tree, U)
      BY DEF Surjection
    <3> HIDE DEF f, U
    <3> QED BY <1>1, <3>1, FS_Surjection
  <2>2. IsFiniteSet(DOMAIN tree \cup U)
    BY <1>1, <2>1, FS_Union
  <2>3. DOMAIN T \subseteq DOMAIN tree \cup U
    BY <1>4
  <2> QED BY <2>2, <2>3, FS_Subset
<1>6. ASSUME NEW p \in DOMAIN T
      PROVE  Comes(Last(p), T[p]) \/ (p = to /\ T[p] = tree[from])
  <2>1. CASE p \in DOMAIN tree /\ T[p] = tree[p]
    BY <2>1, SameComes
  <2>2. ASSUME NEW q \in DOMAIN tree, IsPrefix(from, q), p = Rebased(q, from, to), T[p] = tree[q]
        PROVE  Comes(Last(p), T[p]) \/ (p = to /\ T[p] = tree[from])
    <3>0. q \in Named
      BY <1>1 DEF Shape, Named
    <3>1. (q = from => p = to) /\ (q # from => Last(p) = Last(q))
      BY <3>0, <2>2, <1>1, RebasedLast DEF Named
    <3>2. CASE q = from
      BY <3>1, <3>2, <2>2
    <3>3. CASE q # from
      BY <3>1, <3>3, <2>2, SameComes
    <3> QED BY <3>2, <3>3
  <2> QED BY <2>1, <2>2, <1>4
<1>7. Retitled(T, from, to)
  BY <1>3, <1>5, <1>6 DEF Retitled
<1> QED BY <1>7 DEF T

\* A rename of one entry, when it succeeds.
LEMMA RenamedRetitled ==
  ASSUME FilesInv, NEW from, NEW to \in Named, Renames(from, to)
  PROVE  Retitled(Renamed(from, to), from, to)
<1>1. CASE Renamed(from, to) = tree
  BY <1>1, RetitledSame
<1>2. CASE Renamed(from, to) # tree
  <2>1. Renamed(from, to) = MovedTo(from, to) /\ from # to
    BY <1>2 DEF Renamed
  <2>2. from \in DOMAIN tree /\ IsDir(Front(to)) /\ ~IsPrefix(from, to)
    BY <2>1 DEF Renames
  <2> QED BY <2>1, <2>2, MovedRetitled
<1> QED BY <1>1, <1>2

\* A file whose path has no part in it may be seen.
LEMMA SoundThere ==
  ASSUME FilesInv, NEW p \in DOMAIN tree, Last(p) >= 0, tree[p].kind = "file"
  PROVE  Sound(tree[p], crashes)
BY DEF FilesInv, Fits

LEMMA RenameMoveInv ==
  ASSUME FilesInv, NEW s \in Slot, RenameMove(s)
  PROVE  FilesInv'
<1> DEFINE from == Where(request[s].target)
           to == Where(request[s].destination)
<1>1. request[s] \in RequestType /\ Shape(tree)
  BY DEF FilesInv, FilesTyped
<1>2. /\ request[s] \in Moving /\ InProgress(request[s])
      /\ Goto(s, "done") /\ made' = made /\ fresh' = fresh /\ crashes' = crashes
      /\ \/ tree' = tree
         \/ /\ Renames(from, to)
            /\ \/ HasPart(from, <<>>) /\ tree' = Loosened(Renamed(from, to), to)
               \/ ~HasPart(from, <<>>) /\ tree' = Renamed(from, to)
  BY <1>1, ByPc DEF RenameMove, InProgress, Done, MoveAllowed, rename_without_replacing
<1>3. /\ request[s].target \in Paths /\ request[s].target # <<>>
      /\ request[s].destination \in Paths /\ request[s].destination # <<>>
      /\ Last(request[s].destination) >= 0
  BY <1>2 DEF Moving, Named, Proper
<1>4. from \in Paths /\ from # <<>> /\ to \in Proper /\ to \in Named /\ Last(to) >= 0
  BY <1>1, <1>3, WhereFacts DEF Proper, Named
<1> HIDE DEF from, to
<1>5. ASSUME ~HasPart(from, <<>>), from \in DOMAIN tree PROVE tree[from].kind = "file" => Sound(tree[from], crashes)
  <2>1. Len(from) >= 1 /\ Last(from) = from[Len(from)] /\ Last(from) \in Int /\ Len(from) \in Nat
    BY <1>4, FrontAt, PathAt
  <2>2. Len(<<>>) = 0
    OBVIOUS
  <2>3. Len(from) \in Len(<<>>) + 1 .. Len(from)
    BY <2>1, <2>2
  <2>4. ~(from[Len(from)] < 0)
    BY <1>5, <2>3 DEF HasPart, is_part
  <2> QED BY <2>1, <2>4, <1>5, SoundThere
<1>6. ASSUME Renames(from, to) PROVE Retitled(Renamed(from, to), from, to)
  BY <1>4, <1>6, RenamedRetitled
<1>7. Tidy(tree')
  <2>1. CASE tree' = tree
    BY <2>1, TidySame
  <2>2. CASE Renames(from, to) /\ tree' = Loosened(Renamed(from, to), to)
    BY <2>2, <1>4, <1>6, RetitledLoose
  <2>3. CASE Renames(from, to) /\ ~HasPart(from, <<>>) /\ tree' = Renamed(from, to)
    BY <2>3, <1>4, <1>5, <1>6, RetitledTidy
  <2> QED BY <2>1, <2>2, <2>3, <1>2
<1> QED BY <1>2, <1>7, TidyEnd

LEMMA DeleteRemoveInv ==
  ASSUME FilesInv, NEW s \in Slot, DeleteRemove(s)
  PROVE  FilesInv'
<1> DEFINE path == Where(request[s].target)
<1>1. request[s] \in RequestType /\ Shape(tree)
  BY DEF FilesInv, FilesTyped
<1>2. /\ request[s] \in Removing /\ InProgress(request[s])
      /\ Goto(s, "done") /\ made' = made /\ fresh' = fresh /\ crashes' = crashes
      /\ tree' = tree \/ tree' = Without(Subtree(path))
  BY <1>1, ByPc DEF DeleteRemove, InProgress, Done, Quiet
<1>3. path \in Named
  <2>1. request[s].target \in Paths /\ request[s].target # <<>>
    BY <1>2 DEF Removing, Named
  <2> QED BY <2>1, <1>1, WhereFacts DEF Named
<1> HIDE DEF path
<1>4. Tidy(tree')
  BY <1>1, <1>2, <1>3, ShapeWithoutSubtree, TidyWithout, TidySame
<1> QED BY <1>2, <1>4, TidyEnd

\* The stale parts are removed.
LEMMA ListInv ==
  ASSUME FilesInv, made < MaxRequest, NEW s \in Slot, NEW ask \in Asks, List(s, ask)
  PROVE  FilesInv'
<1> DEFINE directory == admit(ask.path)
           S == Stale(directory)
           r == [pc |-> "done", number |-> made + 1, ask |-> ask, target |-> directory]
<1>1. Shape(tree) /\ made \in Nat /\ MaxRequest \in Nat /\ fresh \in Nat
  BY FilesAssumption DEF FilesInv, FilesTyped
<1>2. /\ request' = [request EXCEPT ![s] = r] /\ made' = made + 1 /\ fresh' = fresh
      /\ crashes' = crashes /\ tree' = Without(S)
  BY DEF List, Begin
<1>3. r \in Over
  BY <1>1, AskFacts, AdmitFacts DEF Over
<1>4. r.number = made + 1 /\ r.pc = "done"
  OBVIOUS
<1> HIDE DEF r
<1>5. Asked(r) /\ r \in RequestType /\ Partless(r)
  BY <1>3, Kinds DEF Asked, RequestType, Partless
<1>6. \A p \in S : p \in DOMAIN tree /\ tree[p].kind = "file"
  BY DEF Stale, Below
<1> HIDE DEF S
<1>7. Shape(Without(S))
  BY <1>1, <1>6, ShapeWithout DEF Shape
<1> DEFINE T == Without(S)
<1>8. Tidy(T) /\ \A p \in DOMAIN T : Comes(Last(p), T[p])
  BY <1>7, TidyWithout
<1> HIDE DEF T
<1>9. tree' = T
  BY <1>2 DEF T
<1>10. \A p \in DOMAIN tree' : Comes(Last(p), tree'[p]) /\ Own(r, Last(p), tree'[p], crashes)
  BY <1>5, <1>8, <1>9, PartlessOwns
<1>11. made' \in 0 .. MaxRequest /\ made' >= made /\ fresh' \in Nat /\ r.number <= made' /\ r.number >= 1
  BY <1>1, <1>2, <1>4
<1>12. Shape(tree') /\ IsFiniteSet(DOMAIN tree')
  BY <1>8, <1>9 DEF Tidy
<1> QED BY <1>2, <1>4, <1>5, <1>10, <1>11, <1>12, OneStep

\* The path of a part, and where it is.
LEMMA PartFacts ==
  ASSUME FilesInv, NEW s \in Slot, request[s] \in Uploading \/ request[s] \in Copying,
         InProgress(request[s])
  PROVE  LET part == Where(PartPath(s))
             path == Where(request[s].target) IN
         /\ request[s].target \in Proper
         /\ request[s].number \in Nat /\ request[s].number >= 1 /\ request[s].number <= made
         /\ request[s].number <= MaxRequest
         /\ part \in Named /\ path \in Proper /\ path \in Named /\ Last(path) >= 0
         /\ part = Append(Front(part), -request[s].number)
         /\ path = Append(Front(part), Last(path))
         /\ Front(part) = canonicalize(Front(request[s].target)) /\ Front(path) = Front(part)
         /\ Front(part) \in Paths /\ Last(path) \in Int
         /\ Last(part) = -request[s].number /\ Last(part) < 0
<1>1. /\ Shape(tree) /\ made \in 0 .. MaxRequest /\ MaxRequest \in Nat
      /\ request[s].target \in Proper
      /\ request[s].number \in Nat /\ request[s].number >= 1 /\ request[s].number <= made
  BY FilesAssumption DEF FilesInv, FilesTyped, Numbers, Uploading, Copying
<1> DEFINE d == Front(request[s].target)
           n == -request[s].number
<1>2. /\ request[s].target \in Paths /\ request[s].target # <<>> /\ Last(request[s].target) >= 0
      /\ Last(request[s].target) \in Int /\ d \in Paths /\ n \in Int /\ n < 0
  BY <1>1, FrontAt DEF Proper, Named
<1>3. PartPath(s) = Append(d, n)
  BY DEF PartPath, Part
<1>4. Append(d, n) \in Paths /\ Append(d, n) # <<>> /\ Front(Append(d, n)) = d /\ Last(Append(d, n)) = n
  BY <1>2, AppendAt
<1> DEFINE part == Where(PartPath(s))
           path == Where(request[s].target)
           c == canonicalize(d)
<1>5. /\ part = Append(c, n) /\ part \in Paths /\ part # <<>> /\ Front(part) = c /\ Last(part) = n
      /\ c \in Paths
  BY <1>1, <1>2, <1>3, <1>4, WhereFacts
<1>6. /\ path = Append(c, Last(request[s].target)) /\ path # <<>> /\ path \in Paths /\ Front(path) = c
      /\ Last(path) = Last(request[s].target)
  BY <1>1, <1>2, WhereFacts
<1> HIDE DEF part, path, c, n
<1>7. request[s].number <= MaxRequest
  BY <1>1
<1>8. part \in Named /\ path \in Proper /\ path \in Named /\ Last(path) >= 0
  BY <1>2, <1>5, <1>6 DEF Named, Proper
<1> QED BY <1>1, <1>2, <1>5, <1>6, <1>7, <1>8 DEF part, path, c, n

LEMMA DiscardInv ==
  ASSUME FilesInv, NEW s \in Slot, Discard(s)
  PROVE  FilesInv'
<1> DEFINE top == Where(PartPath(s))
<1>1. request[s] \in RequestType /\ Shape(tree)
  BY DEF FilesInv, FilesTyped
<1>2. /\ (request[s] \in Uploading \/ request[s] \in Copying) /\ InProgress(request[s])
      /\ Goto(s, "done") /\ made' = made /\ fresh' = fresh /\ crashes' = crashes
      /\ tree' = Without(Subtree(top))
  BY <1>1, ByPc DEF Discard, InProgress, Done, Quiet
<1>3. top \in Named
  BY <1>2, PartFacts
<1> HIDE DEF top
<1>4. Tidy(tree')
  BY <1>1, <1>2, <1>3, ShapeWithoutSubtree, TidyWithout
<1> QED BY <1>2, <1>4, TidyEnd

\* A part that takes its place may be seen.
LEMMA PlacedSound ==
  ASSUME FilesInv, NEW s \in Slot, request[s].pc \in {"place", "rename"},
         Where(PartPath(s)) \in DOMAIN tree, tree[Where(PartPath(s))].kind = "file"
  PROVE  Sound(tree[Where(PartPath(s))], crashes)
<1> DEFINE part == Where(PartPath(s))
<1>1. request[s] \in RequestType
  BY DEF FilesInv, FilesTyped
<1>2. (request[s] \in Uploading \/ request[s] \in Copying) /\ InProgress(request[s])
  BY <1>1, ByPc DEF InProgress
<1>3. Last(part) = -request[s].number
  BY <1>2, PartFacts
<1>4. Mine(request[s], tree[part], crashes)
  BY <1>3 DEF FilesInv, Fits
<1>5. CASE request[s] \in Uploading
  BY <1>4, <1>5 DEF Mine, Uploaded, Sound
<1>6. CASE request[s] \in Copying
  <2>1. request[s].pc = "place"
    BY <1>6 DEF Copying
  <2> QED BY <1>4, <1>6, <2>1 DEF Mine, CopiedFile, Sound
<1> QED BY <1>2, <1>5, <1>6

LEMMA PlaceInv ==
  ASSUME FilesInv, NEW s \in Slot, CommitRename(s) \/ Place(s)
  PROVE  FilesInv'
<1> DEFINE part == Where(PartPath(s))
           path == Where(request[s].target)
<1>1. request[s] \in RequestType
  BY DEF FilesInv, FilesTyped
<1>2. /\ (request[s] \in Uploading \/ request[s] \in Copying) /\ InProgress(request[s])
      /\ made' = made /\ fresh' = fresh /\ crashes' = crashes /\ request[s].pc \in {"place", "rename"}
      /\ \/ tree' = Renamed(part, path) /\ Renames(part, path) /\ Goto(s, "done")
         \/ tree' = tree /\ Goto(s, "discard")
  BY <1>1, ByPc DEF CommitRename, Place, InProgress, Done, Quiet, MoveAllowed,
     rename_without_replacing
<1>3. path \in Named /\ Last(path) >= 0
  BY <1>2, PartFacts
<1>4. part \in DOMAIN tree => (tree[part].kind = "file" => Sound(tree[part], crashes))
  BY <1>2, PlacedSound
<1> HIDE DEF part, path
<1>5. Tidy(tree')
  BY <1>2, <1>3, <1>4, RenamedRetitled, RetitledTidy, TidySame
<1> QED BY <1>2, <1>5, TidyEnd

\* The directory an entry is in.
LEMMA FrontIsDir ==
  ASSUME Shape(tree), NEW p \in DOMAIN tree
  PROVE  IsDir(Front(p))
<1>1. p \in Paths /\ p # <<>>
  BY DEF Shape
<1>2. /\ Front(p) \in Paths /\ Len(Front(p)) = Len(p) - 1 /\ Len(p) >= 1
      /\ Front(p) = SubSeq(p, 1, Len(p) - 1) /\ Len(p) \in Nat
  BY <1>1, FrontAt, PathAt
<1>3. CASE Len(p) = 1
  <2>1. Front(p) = <<>>
    BY <1>2, <1>3, EmptySeq DEF Paths
  <2> QED BY <2>1, EntryFacts
<1>4. CASE Len(p) # 1
  <2>1. Len(p) - 1 \in 1 .. Len(p) - 1
    BY <1>2, <1>4
  <2> QED BY <2>1, <1>2, EntryFacts DEF Shape
<1> QED BY <1>3, <1>4

\* A new entry that is no part.
LEMMA TidyWith ==
  ASSUME FilesInv, NEW d \in Paths, IsDir(d), NEW x \in Int, x >= 0,
         Append(d, x) \notin DOMAIN tree, NEW entry \in EntryType,
         entry.kind = "file" => Sound(entry, crashes)
  PROVE  Tidy(With(Append(d, x), entry))
<1> DEFINE path == Append(d, x)
           T == With(path, entry)
<1>1. Shape(tree) /\ IsFiniteSet(DOMAIN tree)
  BY DEF FilesInv, FilesTyped
<1>2. DOMAIN T = DOMAIN tree \cup {path} /\ T[path] = entry
      /\ \A p \in DOMAIN tree \ {path} : T[p] = tree[p]
  BY DEF With
<1>3. Shape(T)
  BY <1>1, ShapeWith
<1>p. Last(path) = x
  BY AppendAt
<1> HIDE DEF T, path
<1>4. IsFiniteSet(DOMAIN T)
  <2>1. IsFiniteSet(DOMAIN tree \cup {path})
    BY <1>1, FS_AddElement
  <2> QED BY <2>1, <1>2
<1>5. Tidy(T)
  BY <1>2, <1>3, <1>4, <1>p, SameComes DEF Tidy
<1> QED BY <1>5 DEF T, path

LEMMA CommitLinkInv ==
  ASSUME FilesInv, NEW s \in Slot, CommitLink(s)
  PROVE  FilesInv'
<1> DEFINE part == Where(PartPath(s))
           path == Where(request[s].target)
<1>1. request[s] \in RequestType /\ Shape(tree)
  BY DEF FilesInv, FilesTyped
<1>2. /\ request[s] \in Uploading /\ InProgress(request[s])
      /\ made' = made /\ fresh' = fresh /\ crashes' = crashes /\ request[s].pc = "place"
      /\ \/ tree' = tree /\ Goto(s, "discard")
         \/ tree' = tree /\ Goto(s, "rename")
         \/ /\ Entry(part).kind # "none" /\ path \notin DOMAIN tree
            /\ tree' = With(path, tree[part]) /\ Goto(s, "discard")
  BY <1>1, ByPc DEF CommitLink, InProgress, Quiet
<1>3. CASE tree' = tree /\ Goto(s, "discard")
  BY <1>2, <1>3, GivesUpQuietly
<1>4. CASE tree' = tree /\ Goto(s, "rename")
  BY <1>2, <1>4, StaysReady
<1>5. CASE /\ Entry(part).kind # "none" /\ path \notin DOMAIN tree
           /\ tree' = With(path, tree[part]) /\ Goto(s, "discard")
  <2> DEFINE d == Front(part)
             x == Last(path)
  <2>0. d \in Paths /\ x \in Int /\ x >= 0 /\ path = Append(d, x)
    BY <1>2, PartFacts
  <2>1. part \in DOMAIN tree
    BY <1>1, <1>5, EntryKinds
  <2>2. IsDir(d)
    BY <1>1, <2>1, FrontIsDir
  <2>3. tree[part] \in EntryType
    BY <1>1, <2>1 DEF Shape
  <2>4. tree[part].kind = "file" => Sound(tree[part], crashes)
    BY <1>2, <2>1, PlacedSound
  <2>5. Append(d, x) \notin DOMAIN tree /\ tree' = With(Append(d, x), tree[part])
    BY <2>0, <1>5
  <2> HIDE DEF part, path, d, x
  <2>6. Tidy(tree')
    BY <2>0, <2>2, <2>3, <2>4, <2>5, TidyWith
  <2> QED BY <2>6, <1>2, <1>5, TidyEnd
<1> QED BY <1>2, <1>3, <1>4, <1>5

\* A request goes on, or begins, with a new entry.
LEMMA Adds ==
  ASSUME FilesInv, NEW s \in Slot, NEW r \in RequestType, request' = [request EXCEPT ![s] = r],
         made' \in 0 .. MaxRequest, made' >= made, fresh' \in Nat, crashes' = crashes,
         NEW d \in Paths, IsDir(d), NEW x \in Int, Append(d, x) \notin DOMAIN tree,
         NEW entry \in EntryType, tree' = With(Append(d, x), entry),
         r.number <= made',
         \/ r.number = made + 1
         \/ r.number = request[s].number /\ (InProgress(r) => InProgress(request[s])),
         r.number >= 1, Asked(r),
         \A p \in DOMAIN tree : Own(r, Last(p), tree[p], crashes),
         Fits(x, entry, made', [request EXCEPT ![s] = r], crashes)
  PROVE  FilesInv'
<1> DEFINE path == Append(d, x)
<1>1. Shape(tree) /\ IsFiniteSet(DOMAIN tree)
  BY DEF FilesInv, FilesTyped
<1>2. DOMAIN tree' = DOMAIN tree \cup {path} /\ tree'[path] = entry
      /\ \A p \in DOMAIN tree \ {path} : tree'[p] = tree[p]
  BY DEF With
<1>3. Shape(tree')
  BY <1>1, ShapeWith
<1>p. Last(path) = x
  BY AppendAt
<1> HIDE DEF path
<1>4. IsFiniteSet(DOMAIN tree')
  <2>1. IsFiniteSet(DOMAIN tree \cup {path})
    BY <1>1, FS_AddElement
  <2> QED BY <2>1, <1>2
<1>5. \A p \in DOMAIN tree' :
           \/ Comes(Last(p), tree'[p]) /\ Own(r, Last(p), tree'[p], crashes)
           \/ Fits(Last(p), tree'[p], made', [request EXCEPT ![s] = r], crashes)
  BY <1>2, <1>p, SameComes
<1> QED BY <1>3, <1>4, <1>5, OneStep

LEMMA NewFileFacts ==
  ASSUME fresh \in Nat, NEW whole \in BOOLEAN
  PROVE  /\ NewFile(whole) \in EntryType /\ NewFile(whole).id = fresh + 1
         /\ NewFile(whole).kind = "file"
         /\ NewDirectory \in EntryType /\ NewDirectory.kind = "dir"
<1> DEFINE file(w) == [id |-> fresh + 1, kind |-> "file", whole |-> w, synced |-> FALSE,
                       old |-> FALSE, copy |-> FALSE, loose |-> FALSE, to |-> Gone]
           base == NewFile(TRUE)
<1>1. fresh + 1 \in Nat /\ Gone \in Paths
  BY FixedPaths
<1>2. file(whole) \in EntryType /\ file(TRUE) \in EntryType
  BY <1>1 DEF EntryType
<1>3. NewFile(whole) = file(whole) /\ base = file(TRUE)
  BY DEF NewFile
<1>5. NewDirectory = [base EXCEPT !.kind = "dir", !.synced = TRUE]
  BY DEF NewDirectory
<1> HIDE DEF base
<1>4. base \in EntryType
  BY <1>2, <1>3
<1>6. NewDirectory \in EntryType /\ NewDirectory.kind = "dir"
  BY <1>4, <1>5 DEF EntryType
<1> QED BY <1>2, <1>3, <1>6

LEMMA CreateDirectoryInv ==
  ASSUME FilesInv, made < MaxRequest, NEW s \in Slot, NEW ask \in Asks, Known(ask.path),
         CreateDirectory(s, ask)
  PROVE  FilesInv'
<1> DEFINE path == target(ask.path)
           d == admit(Front(ask.path))
           x == Last(ask.path)
           r == [pc |-> "done", number |-> made + 1, ask |-> ask, target |-> path]
<1>1. Shape(tree) /\ made \in Nat /\ fresh \in Nat /\ MaxRequest \in Nat
      /\ request \in [Slot -> RequestType]
  BY FilesAssumption DEF FilesInv, FilesTyped
<1>2. /\ request' = [request EXCEPT ![s] = r] /\ made' = made + 1 /\ fresh' = fresh + 1
      /\ crashes' = crashes /\ tree' = With(path, NewDirectory) /\ path \notin DOMAIN tree
      /\ path # Gone
  BY DEF CreateDirectory, Begin
<1>3. /\ path = Append(d, x) /\ path \in Paths /\ IsDir(d) /\ d \in Paths /\ ask.path # <<>>
      /\ ask.path \in Paths /\ x \in Int
  BY <1>1, <1>2, AskFacts, TargetFacts DEF Named
<1>4. Numbered(x, made, request)
  <2>1. x = ask.path[Len(ask.path)] /\ Len(ask.path) \in 1 .. Len(ask.path)
    BY <1>3, FrontAt, PathAt
  <2> QED BY <2>1 DEF Known, Numbered
<1>5. r \in Over /\ r.number = made + 1 /\ r.pc = "done"
  BY <1>1, <1>3 DEF Over
<1> HIDE DEF path, d, x, r
<1>6. Asked(r) /\ r \in RequestType /\ Partless(r)
  BY <1>5, Kinds DEF Asked, RequestType, Partless
<1> DEFINE q2 == [request EXCEPT ![s] = r]
<1>7. Fits(x, NewDirectory, made', q2, crashes)
  <2>1. NewDirectory.kind # "file"
    BY <1>1, NewFileFacts
  <2>2. \A t \in Slot : q2[t].pc = "create" => q2[t] = request[t]
    BY <1>1, <1>5
  <2> HIDE DEF q2
  <2>3. Numbered(x, made', q2)
    BY <1>1, <1>2, <1>3, <1>4, <2>2 DEF Numbered
  <2> QED BY <2>1, <2>3 DEF Fits
<1>8. NewDirectory \in EntryType
  BY <1>1, NewFileFacts
<1>9. made' \in 0 .. MaxRequest /\ made' >= made /\ fresh' \in Nat /\ r.number <= made' /\ r.number >= 1
  BY <1>1, <1>2, <1>5
<1>10. \A p \in DOMAIN tree : Own(r, Last(p), tree[p], crashes)
  BY <1>6, PartlessOwns
<1>11. tree' = With(Append(d, x), NewDirectory) /\ Append(d, x) \notin DOMAIN tree
  BY <1>2, <1>3
<1> QED BY <1>2, <1>3, <1>5, <1>6, <1>7, <1>8, <1>9, <1>10, <1>11, Adds

\* The part of a request that begins or is about to create it.
LEMMA PartFits ==
  ASSUME FilesInv, NEW s \in Slot, NEW n \in Nat, n >= 1,
         \/ n = made + 1
         \/ n = request[s].number /\ InProgress(request[s]),
         NEW m \in Nat, n <= m, NEW r, r.pc # "create",
         NEW entry, entry.kind = "file" => Mine(r, entry, crashes)
  PROVE  Fits(-n, entry, m, [request EXCEPT ![s] = r], crashes)
<1> DEFINE q2 == [request EXCEPT ![s] = r]
<1>1. /\ made \in Nat /\ request \in [Slot -> RequestType]
      /\ \A t \in Slot : request[t].number \in Nat /\ request[t].number <= made
      /\ \A t \in Slot \ {s} : InProgress(request[s]) /\ InProgress(request[t]) =>
                                 request[s].number # request[t].number
  BY FilesAssumption, ByPc DEF FilesInv, FilesTyped, Numbers
<1>2. q2[s] = r /\ \A t \in Slot \ {s} : q2[t] = request[t]
  BY <1>1
<1> HIDE DEF q2
<1>3. \A t \in Slot \ {s} : request[t].number = n => ~InProgress(request[t])
  BY <1>1
<1>4. Numbered(-n, m, q2)
  <2>1. \A t \in Slot : q2[t].pc = "create" => t # s /\ q2[t] = request[t] /\ InProgress(request[t])
    BY <1>2 DEF InProgress
  <2>2. \A t \in Slot : q2[t].pc = "create" => q2[t].number # n
    BY <2>1, <1>3
  <2> QED BY <2>2 DEF Numbered
<1>5. ASSUME NEW t \in Slot, -n = -q2[t].number, entry.kind = "file" PROVE Mine(q2[t], entry, crashes)
  <2>1. CASE t = s
    BY <2>1, <1>2, <1>5
  <2>2. CASE t # s
    <3>1. q2[t] = request[t] /\ request[t].number = n
      BY <2>2, <1>1, <1>2, <1>5
    <3>2. ~InProgress(q2[t])
      BY <3>1, <2>2, <1>3
    <3> QED BY <3>2 DEF Mine, InProgress
  <2> QED BY <2>1, <2>2
<1>6. Fits(-n, entry, m, q2, crashes)
  BY <1>4, <1>5 DEF Fits
<1> QED BY <1>6 DEF q2

LEMMA UploadStartInv ==
  ASSUME FilesInv, made < MaxRequest, NEW s \in Slot, NEW ask \in Asks, UploadStart(s, ask)
  PROVE  FilesInv'
<1> DEFINE path == target(ask.path)
           d == Front(path)
           n == made + 1
           x == -n
           entry == NewFile(FALSE)
           r == [pc |-> "body", number |-> n, ask |-> ask, target |-> path, id |-> fresh + 1]
<1>1. Shape(tree) /\ made \in Nat /\ fresh \in Nat /\ MaxRequest \in Nat
  BY FilesAssumption DEF FilesInv, FilesTyped
<1>2. /\ request' = [request EXCEPT ![s] = r] /\ made' = n /\ fresh' = fresh + 1
      /\ crashes' = crashes /\ tree' = With(Append(d, x), entry) /\ path # Gone /\ ask.op = "upload"
      /\ ~(Last(path) < 0)
  BY DEF UploadStart, Begin, is_part
<1>3. path \in Proper /\ IsDir(d) /\ d \in Paths
  BY <1>1, <1>2, AskFacts, TargetFacts DEF Proper
<1>4. entry \in EntryType /\ entry.kind = "file" /\ entry.id = fresh + 1
  BY <1>1, NewFileFacts
<1>5. n \in Nat /\ n >= 1 /\ n <= n /\ n \in 0 .. MaxRequest /\ x \in Int /\ n = made + 1 /\ n >= made
  BY <1>1
<1>6. \A p \in DOMAIN tree : Last(p) # x
  BY FreshNumber
<1>7. r \in Uploading /\ r.number = n /\ r.pc = "body" /\ r.id = fresh + 1
  BY <1>1, <1>2, <1>3, <1>5 DEF Uploading, AsksTo
<1> HIDE DEF entry, d, path, r
<1>8. Asked(r) /\ r \in RequestType /\ Mine(r, entry, crashes)
  BY <1>4, <1>7, Kinds DEF Asked, RequestType, Mine, Uploaded
<1>9. Append(d, x) \notin DOMAIN tree
  <2>1. Last(Append(d, x)) = x
    BY <1>3, <1>5, AppendAt
  <2> QED BY <2>1, <1>6
<1>10. Fits(x, entry, n, [request EXCEPT ![s] = r], crashes)
  <2> HIDE DEF n
  <2> QED BY <1>5, <1>7, <1>8, PartFits
<1>11. \A p \in DOMAIN tree : Own(r, Last(p), tree[p], crashes)
  BY <1>6, <1>7 DEF Own
<1>12. fresh' \in Nat
  BY <1>1, <1>2
<1> HIDE DEF n, x
<1> QED BY <1>2, <1>3, <1>4, <1>5, <1>7, <1>8, <1>9, <1>10, <1>11, <1>12, Adds

\* A file under a name that is no part's, and below none, may be read.
LEMMA MayBeRead ==
  ASSUME FilesInv, NEW p \in DOMAIN tree, ~HasPart(p, <<>>), tree[p].kind = "file"
  PROVE  Sound(tree[p], crashes)
<1>1. p \in Paths /\ p # <<>>
  BY DEF FilesInv, FilesTyped, Shape
<1>2. Len(p) \in Nat /\ Len(p) >= 1 /\ Last(p) = p[Len(p)] /\ Last(p) \in Int
  BY <1>1, FrontAt, PathAt
<1>3. Len(p) \in Len(<<>>) + 1 .. Len(p)
  BY <1>2
<1>4. Last(p) >= 0
  BY <1>2, <1>3 DEF HasPart, is_part
<1> QED BY <1>4 DEF FilesInv, Fits

LEMMA CopyCreateInv ==
  ASSUME FilesInv, NEW s \in Slot, CopyCreate(s)
  PROVE  FilesInv'
<1> DEFINE part == Where(PartPath(s))
           d == Front(part)
           n == request[s].number
           read == canonicalize(request[s].source)
           loose == Entry(read).loose \/ HasPart(read, <<>>)
           whole == request[s].kind = "file" => Entry(read).whole
           new == [NewFile(FALSE) EXCEPT !.id = request[s].id, !.copy = TRUE]
           entry == IF request[s].kind = "dir" THEN [new EXCEPT !.kind = "dir", !.whole = TRUE]
                    ELSE [new EXCEPT !.loose = loose]
           r == [request[s] EXCEPT !.pc = "copy", !.whole = whole]
<1>1. /\ Shape(tree) /\ made \in Nat /\ fresh \in Nat /\ request[s] \in RequestType
      /\ Asked(request[s]) /\ request \in [Slot -> RequestType] /\ made \in 0 .. MaxRequest
  BY FilesAssumption DEF FilesInv, FilesTyped
<1>2. /\ request[s] \in Copying /\ InProgress(request[s]) /\ request[s].pc = "create"
      /\ made' = made /\ fresh' = fresh /\ crashes' = crashes
  BY <1>1, ByPc DEF CopyCreate, InProgress, Quiet
<1>3. CASE tree' = tree /\ Goto(s, "done")
  BY <1>2, <1>3, GivesUpQuietly
<1>4. CASE /\ IsDir(d) /\ (request[s].kind = "file" => Entry(read).kind = "file")
           /\ tree' = With(part, entry)
           /\ request' = [request EXCEPT ![s].pc = "copy", ![s].whole = whole]
  <2>1. /\ n \in Nat /\ n >= 1 /\ n <= made /\ n <= MaxRequest /\ d \in Paths /\ part = Append(d, -n)
        /\ Last(part) = -n
    BY <1>2, PartFacts
  <2>2. \A p \in DOMAIN tree : Last(p) # -n
    <3>1. SUFFICES ASSUME NEW p \in DOMAIN tree, Last(p) = -n PROVE FALSE
      OBVIOUS
    <3>2. Numbered(Last(p), made, request)
      BY DEF FilesInv, Fits
    <3> QED BY <3>1, <3>2, <2>1, <1>2 DEF Numbered
  <2>w. whole \in BOOLEAN /\ (request[s].kind = "file" => whole = Entry(read).whole)
    <3>1. request[s].kind = "file" => Entry(read).whole \in BOOLEAN
      BY <1>1, <1>4, EntryFacts, EntryKinds DEF EntryType
    <3> QED BY <3>1
  <2>3. /\ request' = [request EXCEPT ![s] = r] /\ r \in Copying
        /\ r.pc = "copy" /\ r.number = n /\ r.id = request[s].id /\ r.kind = request[s].kind
        /\ r.ask = request[s].ask /\ r.replace = request[s].replace /\ r.whole = whole
    <3> HIDE DEF whole
    <3>1. request' = [request EXCEPT ![s] = r]
      BY <1>1, <1>4
    <3> QED BY <3>1, <1>2, <2>w DEF Copying
  <2>4. request[s].id \in Nat /\ request[s].kind \in {"file", "dir"}
    BY <1>2 DEF Copying
  <2>5. new \in EntryType /\ new.kind = "file" /\ new.id = request[s].id /\ new.copy = TRUE
    <3> DEFINE base == NewFile(FALSE)
    <3>1. base \in EntryType /\ base.kind = "file"
      BY <1>1, NewFileFacts
    <3>2. new = [base EXCEPT !.id = request[s].id, !.copy = TRUE]
      OBVIOUS
    <3> HIDE DEF base, new
    <3> QED BY <3>1, <3>2, <2>4 DEF EntryType
  <2>l. loose \in BOOLEAN
    OBVIOUS
  <2>6. ASSUME request[s].kind = "file" PROVE whole \/ loose \/ crashes > 0
    <3>1. read \in DOMAIN tree /\ Entry(read) = tree[read] /\ tree[read].kind = "file"
      BY <1>1, <1>4, <2>6, EntryFacts, EntryKinds
    <3>2. ~HasPart(read, <<>>) => Sound(tree[read], crashes)
      BY <3>1, MayBeRead
    <3> QED BY <3>1, <3>2, <2>6 DEF Sound
  <2> HIDE DEF new, loose, whole, read
  <2>7. /\ entry \in EntryType /\ entry.kind = request[s].kind
        /\ request[s].kind = "file" => entry.id = request[s].id /\ entry.copy /\ entry.loose = loose
    BY <2>4, <2>5, <2>l DEF EntryType
  <2> HIDE DEF entry, r
  <2>8. entry.kind = "file" => Mine(r, entry, crashes)
    BY <2>3, <2>6, <2>7, Kinds DEF Mine, CopiedFile
  <2>9. Asked(r) /\ r \in RequestType
    BY <1>1, <1>2, <2>3, Kinds DEF Asked, RequestType
  <2>10. \A p \in DOMAIN tree : Own(r, Last(p), tree[p], crashes)
    BY <2>2, <2>3 DEF Own
  <2> DEFINE x == -n
  <2>x. x \in Int /\ part = Append(d, x) /\ part \notin DOMAIN tree
    BY <2>1, <2>2
  <2> HIDE DEF d, n, part, x
  <2>11. Append(d, x) \notin DOMAIN tree /\ tree' = With(Append(d, x), entry)
    BY <2>x, <1>4
  <2>12. Fits(x, entry, made, [request EXCEPT ![s] = r], crashes)
    <3>1. n = request[s].number
      BY DEF n
    <3>2. Fits(-n, entry, made, [request EXCEPT ![s] = r], crashes)
      BY <3>1, <1>1, <1>2, <2>1, <2>3, <2>8, PartFits
    <3> QED BY <3>2 DEF x
  <2>13. /\ made' \in 0 .. MaxRequest /\ made' >= made /\ fresh' \in Nat /\ r.number <= made'
         /\ r.number >= 1 /\ r.number = request[s].number
    BY <1>1, <1>2, <2>1, <2>3 DEF n
  <2>14. IsDir(d) /\ Fits(x, entry, made', [request EXCEPT ![s] = r], crashes) /\ crashes' = crashes
    BY <1>4, <2>12, <1>2
  <2> QED BY <1>2, <2>1, <2>3, <2>7, <2>9, <2>10, <2>11, <2>13, <2>14, <2>x, Adds
<1>5. \/ /\ IsDir(d) /\ (request[s].kind = "file" => Entry(read).kind = "file")
         /\ tree' = With(part, entry)
         /\ request' = [request EXCEPT ![s].pc = "copy", ![s].whole = whole]
      \/ tree' = tree /\ Goto(s, "done")
  BY DEF CopyCreate, Done
<1> QED BY <1>3, <1>4, <1>5

LEMMA WriteFacts ==
  ASSUME FilesInv, NEW s \in Slot, NEW field \in {"whole", "synced"}, Write(s, field)
  PROVE  /\ Shape(tree') /\ IsFiniteSet(DOMAIN tree') /\ DOMAIN tree' = DOMAIN tree
         /\ \A p \in DOMAIN tree : Better(tree'[p], tree[p]) /\ Comes(Last(p), tree'[p])
         /\ \A p \in DOMAIN tree : tree[p].id = request[s].id => tree'[p][field] = TRUE
<1>1. Shape(tree) /\ IsFiniteSet(DOMAIN tree) /\ \A p \in DOMAIN tree : tree[p] \in EntryType
  BY DEF FilesInv, FilesTyped, Shape
<1>2. DOMAIN tree' = DOMAIN tree
  BY DEF Write
<1>3. ASSUME NEW p \in DOMAIN tree
      PROVE  /\ tree'[p] \in EntryType /\ Better(tree'[p], tree[p])
             /\ tree[p].id = request[s].id => tree'[p][field] = TRUE
  <2> DEFINE e == tree[p]
             w == [e EXCEPT ![field] = TRUE, !.old = FALSE]
  <2>1. tree'[p] = IF e.id = request[s].id THEN w ELSE e
    BY DEF Write
  <2>2. e \in EntryType
    BY <1>1
  <2> HIDE DEF e
  <2>3. /\ w \in EntryType /\ w.kind = e.kind /\ w.id = e.id /\ w.copy = e.copy
        /\ (e.whole => w.whole) /\ (e.synced => w.synced) /\ (e.loose => w.loose) /\ w[field] = TRUE
    <3>1. CASE field = "whole"
      BY <2>2, <3>1 DEF EntryType
    <3>2. CASE field = "synced"
      BY <2>2, <3>2 DEF EntryType
    <3> QED BY <3>1, <3>2
  <2> HIDE DEF w
  <2>4. Better(w, e) /\ Better(e, e)
    BY <2>3 DEF Better
  <2> QED BY <2>1, <2>2, <2>3, <2>4 DEF e
<1>4. \A p \in DOMAIN tree : Comes(Last(p), tree'[p])
  BY <1>3 DEF Comes
<1>5. Shape(tree')
  BY <1>1, <1>2, <1>3, ShapeUpdate DEF Better
<1> QED BY <1>1, <1>2, <1>3, <1>4, <1>5

LEMMA UploadWriteInv ==
  ASSUME FilesInv, NEW s \in Slot, UploadBody(s) \/ UploadSync(s)
  PROVE  FilesInv'
<1> DEFINE field == IF request[s].pc = "body" THEN "whole" ELSE "synced"
           pc == IF request[s].pc = "body" THEN "sync" ELSE "commit"
           r == [request[s] EXCEPT !.pc = pc]
<1>1. request[s] \in RequestType
  BY DEF FilesInv, FilesTyped
<1>2. /\ request[s] \in Uploading /\ InProgress(request[s]) /\ request[s].pc \in {"body", "sync"}
      /\ Write(s, field) /\ Goto(s, pc)
      /\ made' = made /\ fresh' = fresh /\ crashes' = crashes
  BY <1>1, ByPc DEF UploadBody, UploadSync, InProgress, Quiet
<1>3. /\ request' = [request EXCEPT ![s] = r] /\ r \in Uploading
      /\ r.pc = pc /\ r.number = request[s].number /\ r.id = request[s].id
  BY <1>2, GotoFacts
<1>4. /\ Shape(tree') /\ IsFiniteSet(DOMAIN tree') /\ DOMAIN tree' = DOMAIN tree
      /\ \A p \in DOMAIN tree : Better(tree'[p], tree[p]) /\ Comes(Last(p), tree'[p])
      /\ \A p \in DOMAIN tree : tree[p].id = request[s].id => tree'[p][field] = TRUE
  BY <1>2, WriteFacts
<1> HIDE DEF r
<1>5. Asked(r) /\ r \notin Copying /\ r.pc # "create"
  BY <1>2, <1>3, Kinds DEF Asked
<1>6. ASSUME NEW p \in DOMAIN tree', tree'[p].kind = "file", Last(p) = -r.number
      PROVE  Mine(r, tree'[p], crashes)
  <2>1. Better(tree'[p], tree[p])
    BY <1>4
  <2>2. Mine(request[s], tree[p], crashes)
    BY <1>3, <1>4, <1>6, <2>1 DEF FilesInv, Fits, Better
  <2>3. Uploaded(request[s], tree[p])
    BY <2>2, <1>2 DEF Mine
  <2>4. tree'[p][field] = TRUE
    BY <1>4, <2>3 DEF Uploaded
  <2> QED BY <2>1, <2>3, <2>4, <1>2, <1>3, <1>5 DEF Mine, Uploaded, Better
<1>7. \A p \in DOMAIN tree' :
           /\ Comes(Last(p), tree'[p])
           /\ tree'[p].kind = "file" /\ Last(p) = -r.number => Mine(r, tree'[p], crashes)
  BY <1>4, <1>6
<1> QED BY <1>2, <1>3, <1>4, <1>5, <1>7, GoesOnWithPart

-----------------------------------------------------------------------------
(* What a directory's copy adds.                                           *)

\* What is below an excluded path is excluded.
LEMMA ExcludedBelow ==
  ASSUME NEW p \in Paths, NEW j \in 0 .. Len(p), excludes(SubSeq(p, 1, j))
  PROVE  excludes(p)
<1> DEFINE q == SubSeq(p, 1, j)
<1>1. q \in Paths /\ Len(q) = j /\ (\A k \in 1 .. j : q[k] = p[k]) /\ Len(p) \in Nat
  BY SubPath, PathAt
<1>2. PICK i \in 1 .. j : q[i] \in ExcludedNames \/ SubSeq(q, 1, i) \in ExcludedPaths
  BY <1>1 DEF excludes
<1> HIDE DEF q
<1>3. i \in 1 .. Len(p) /\ i \in 0 .. Len(p) /\ i \in 0 .. Len(q) /\ i <= j
  BY <1>1
<1>4. SubSeq(q, 1, i) = SubSeq(p, 1, i)
  <2> DEFINE a == SubSeq(q, 1, i)
             b == SubSeq(p, 1, i)
  <2>1. a \in Paths /\ Len(a) = i /\ \A k \in 1 .. i : a[k] = q[k]
    BY <1>1, <1>3, SubPath
  <2>2. b \in Paths /\ Len(b) = i /\ \A k \in 1 .. i : b[k] = p[k]
    BY <1>3, SubPath
  <2> HIDE DEF a, b
  <2>3. \A k \in 1 .. i : a[k] = b[k]
    BY <2>1, <2>2, <1>1, <1>3
  <2> QED BY <2>1, <2>2, <2>3, SamePath DEF a, b
<1> QED BY <1>1, <1>2, <1>3, <1>4 DEF excludes

LEMMA WalkFacts ==
  ASSUME Shape(tree), NEW directory \in Paths, NEW relative, NEW path \in walk(directory, relative)
  PROVE  /\ path \in DOMAIN tree /\ path \in Named /\ path \in Paths /\ IsPrefix(directory, path)
         /\ Len(path) > Len(directory) /\ path # directory
         /\ ~HasPart(path, directory) /\ Last(path) >= 0 /\ Last(path) \in Int
<1>1. path \in DOMAIN tree /\ path \in Paths /\ path # <<>> /\ IsPrefix(directory, path)
      /\ ~HasPart(path, directory) /\ Len(path) > Len(directory)
  BY DEF walk, Below, Shape
<1>2. Len(path) \in Nat /\ Len(directory) \in Nat /\ Last(path) = path[Len(path)] /\ Last(path) \in Int
  BY <1>1, PathAt, FrontAt
<1>3. Len(path) \in Len(directory) + 1 .. Len(path) /\ path # directory
  BY <1>1, <1>2
<1>4. ~(Last(path) < 0)
  BY <1>1, <1>2, <1>3 DEF HasPart, is_part
<1> QED BY <1>1, <1>2, <1>3, <1>4 DEF Named

\* A walk reaches the directories above what it reaches.
LEMMA WalkAbove ==
  ASSUME Shape(tree), NEW directory \in Paths, NEW relative \in Paths,
         NEW path \in walk(directory, relative),
         NEW j \in Len(directory) + 1 .. Len(path) - 1
  PROVE  /\ SubSeq(path, 1, j) \in walk(directory, relative)
         /\ tree[SubSeq(path, 1, j)].kind = "dir"
<1>1. path \in DOMAIN tree /\ path \in Paths /\ IsPrefix(directory, path)
      /\ ~HasPart(path, directory) /\ Len(path) > Len(directory)
      /\ ~excludes(Rebased(path, directory, relative))
      /\ (Outside(path) => directory # <<>>)
  BY DEF walk, Below, Shape
<1>2. Len(directory) \in Nat /\ Len(path) \in Nat /\ Len(relative) \in Nat
  BY <1>1, PathAt
<1> DEFINE q == SubSeq(path, 1, j)
<1>3. j \in 1 .. Len(path) - 1 /\ j \in 0 .. Len(path) /\ j \in Nat /\ j > Len(directory)
  BY <1>2
<1>4. q \in DOMAIN tree /\ tree[q].kind = "dir"
  BY <1>1, <1>3 DEF Shape
<1>5. q \in Paths /\ Len(q) = j /\ \A i \in 1 .. j : q[i] = path[i]
  BY <1>1, <1>3, SubPath
<1>6. ~excludes(Rebased(q, directory, relative))
  <2> DEFINE r == Rebased(path, directory, relative)
             i == j - Len(directory) + Len(relative)
  <2>1. r \in Paths /\ Len(r) = Len(relative) + Len(path) - Len(directory)
    BY <1>1, RebasedBelow
  <2>2. i \in 1 .. Len(r) - 1 /\ i >= Len(relative) /\ i - Len(relative) + Len(directory) = j
    BY <2>1, <1>2, <1>3
  <2>3. SubSeq(r, 1, i) = Rebased(q, directory, relative)
    <3> DEFINE k == i - Len(relative) + Len(directory)
    <3>1. k = j
      BY <2>2
    <3>2. i >= Len(relative) => SubSeq(r, 1, i) = Rebased(SubSeq(path, 1, k), directory, relative)
      <4> HIDE DEF i
      <4> QED BY <2>2, <1>1, RebasedSub
    <3> HIDE DEF k, i, r
    <3> QED BY <3>1, <3>2, <2>2
  <2>4. i \in 0 .. Len(r)
    <3>1. Len(r) \in Nat
      BY <2>1, <1>1, <1>2
    <3> QED BY <3>1, <2>2
  <2>5. ~excludes(r)
    BY <1>1
  <2> HIDE DEF r, i, q
  <2> QED BY <2>1, <2>3, <2>4, <2>5, ExcludedBelow
<1> HIDE DEF q
<1>8. ~HasPart(q, directory)
  BY <1>1, <1>2, <1>3, <1>5 DEF HasPart, is_part
<1>9. IsPrefix(directory, q) /\ Len(q) > Len(directory)
  <2>1. \A i \in 1 .. Len(directory) : directory[i] = path[i]
    BY <1>1, <1>2, PrefixAt
  <2>3. \A i \in 1 .. Len(directory) : directory[i] = q[i]
    BY <2>1, <1>2, <1>3, <1>5
  <2> QED BY <2>3, <1>2, <1>3, <1>5, PrefixAt
<1>10. Outside(q) => directory # <<>>
  <2>1. q[1] = path[1] /\ path # <<>>
    <3>1. 1 \in 1 .. j
      BY <1>3
    <3>2. path # <<>>
      BY <1>1 DEF Shape
    <3> QED BY <3>1, <3>2, <1>5
  <2> QED BY <2>1, <1>1 DEF Outside
<1>11. q \in walk(directory, relative)
  BY <1>4, <1>6, <1>8, <1>9, <1>10 DEF walk, Below
<1> QED BY <1>4, <1>11 DEF q

LEMMA NumberingFacts ==
  ASSUME NEW S, IsFiniteSet(S)
  PROVE  /\ Cardinality(S) \in Nat
         /\ Numbering(S) \in [S -> 1 .. Cardinality(S)]
         /\ IsInjective(Numbering(S))
<1>1. Cardinality(S) \in Nat /\ ExistsBijection(1 .. Cardinality(S), S)
  BY FS_CardinalityType
<1>2. ExistsBijection(S, 1 .. Cardinality(S))
  BY <1>1, Fun_ExistsBijSymmetric
<1>3. \E f \in [S -> 1 .. Cardinality(S)] : IsInjective(f)
  BY <1>2 DEF ExistsBijection, Bijection, Injection
<1> QED BY <1>1, <1>3 DEF Numbering

\* The tree with what a directory's copy adds, and what it writes over.
Copied(T, below, source, part) ==
  /\ DOMAIN T = DOMAIN tree \cup {Rebased(b, source, part) : b \in below}
  /\ \A p \in DOMAIN tree : p \notin {Rebased(b, source, part) : b \in below} => T[p] = tree[p]
  /\ \A b \in below :
       LET e == T[Rebased(b, source, part)] IN
       /\ e \in EntryType /\ e.kind = tree[b].kind /\ e.copy /\ e.whole = tree[b].whole
       /\ tree[b].loose => e.loose
       /\ Rebased(b, source, part) \in DOMAIN tree => tree[Rebased(b, source, part)].kind # "dir"

LEMMA CopiedFacts ==
  ASSUME FilesInv, NEW part \in DOMAIN tree, tree[part].kind = "dir",
         NEW source \in Paths, NEW relative \in Paths, NEW below, below \subseteq walk(source, relative),
         \A b \in walk(source, relative) : tree[b].kind = "dir" => b \in below,
         NEW T, Copied(T, below, source, part)
  PROVE  /\ Shape(T) /\ IsFiniteSet(DOMAIN T)
         /\ \A p \in DOMAIN T :
              \/ p \in DOMAIN tree /\ T[p] = tree[p]
              \/ Last(p) >= 0 /\ (T[p].kind = "file" => Sound(T[p], crashes))
<1> DEFINE new(b) == Rebased(b, source, part)
           copies == {new(b) : b \in below}
<1>1. /\ Shape(tree) /\ IsFiniteSet(DOMAIN tree)
      /\ \A p \in DOMAIN tree : Fits(Last(p), tree[p], made, request, crashes)
  BY DEF FilesInv, FilesTyped
<1>2. /\ DOMAIN T = DOMAIN tree \cup copies
      /\ \A p \in DOMAIN tree : p \notin copies => T[p] = tree[p]
      /\ \A b \in below : /\ T[new(b)] \in EntryType /\ T[new(b)].kind = tree[b].kind
                          /\ T[new(b)].copy /\ T[new(b)].whole = tree[b].whole
                          /\ tree[b].loose => T[new(b)].loose
                          /\ new(b) \in DOMAIN tree => tree[new(b)].kind # "dir"
  BY DEF Copied
<1>3. part \in Paths /\ part \in Named /\ Len(part) \in Nat /\ Len(source) \in Nat /\ part # <<>>
  BY <1>1, PathAt DEF Shape, Named
<1>4. \A b \in below : /\ b \in DOMAIN tree /\ b \in Named /\ b \in Paths /\ b # source
                       /\ IsPrefix(source, b) /\ Len(b) > Len(source) /\ Len(b) \in Nat
                       /\ Last(b) >= 0
  BY <1>1, WalkFacts, PathAt
<1>5. \A b \in below : new(b) \in Paths /\ new(b) # <<>> /\ Last(new(b)) >= 0
  <2>1. ASSUME NEW b \in below PROVE new(b) \in Named /\ Last(new(b)) = Last(b)
    <3>1. b \in Named /\ IsPrefix(source, b) /\ b # source
      BY <1>4
    <3> QED BY <3>1, <1>3, RebasedLast
  <2> HIDE DEF new
  <2> QED BY <2>1, <1>4 DEF Named
<1>l. \A b \in below : Len(new(b)) > Len(part)
  <2>1. ASSUME NEW b \in below PROVE Len(new(b)) = Len(part) + Len(b) - Len(source)
    BY <1>3, <1>4, RebasedBelow
  <2> HIDE DEF new
  <2> QED BY <2>1, <1>3, <1>4
<1>6. \A p \in DOMAIN T : (p \in DOMAIN tree /\ p \notin copies) \/ \E b \in below : p = new(b)
  BY <1>2
<1>d. \A p \in DOMAIN tree : tree[p].kind = "dir" => p \in DOMAIN T /\ T[p] = tree[p]
  BY <1>2
<1>c. \A p \in copies : \E b \in below : p = new(b)
  OBVIOUS
<1>k. \A b \in below : T[new(b)].kind = tree[b].kind
  BY <1>2
<1>n. \A b \in below : new(b) \in DOMAIN T
  BY <1>2
<1> HIDE DEF new, copies
<1>7. ASSUME NEW p \in DOMAIN T
      PROVE  /\ p \in Paths /\ p # <<>> /\ T[p] \in EntryType
             /\ \A i \in 1 .. Len(p) - 1 :
                  SubSeq(p, 1, i) \in DOMAIN T /\ T[SubSeq(p, 1, i)].kind = "dir"
  <2>1. CASE p \in DOMAIN tree /\ p \notin copies
    BY <2>1, <1>1, <1>2, <1>d DEF Shape
  <2>2. ASSUME NEW b \in below, p = new(b)
        PROVE  /\ p \in Paths /\ p # <<>> /\ T[p] \in EntryType
               /\ \A i \in 1 .. Len(p) - 1 :
                    SubSeq(p, 1, i) \in DOMAIN T /\ T[SubSeq(p, 1, i)].kind = "dir"
    <3>1. p \in Paths /\ T[p] \in EntryType /\ Len(p) > Len(part) /\ p # <<>>
      BY <2>2, <1>2, <1>5, <1>l
    <3>3. ASSUME NEW i \in 1 .. Len(p) - 1
          PROVE  SubSeq(p, 1, i) \in DOMAIN T /\ T[SubSeq(p, 1, i)].kind = "dir"
      <4> DEFINE j == i - Len(part) + Len(source)
      <4>1. /\ i < Len(part) => i \in 1 .. Len(part) - 1 /\ SubSeq(p, 1, i) = SubSeq(part, 1, i)
            /\ i >= Len(part) => /\ j \in Len(source) .. Len(b) - 1
                                 /\ IsPrefix(source, SubSeq(b, 1, j))
                                 /\ SubSeq(p, 1, i) = Rebased(SubSeq(b, 1, j), source, part)
        BY <2>2, <1>3, <1>4, RebasedSub DEF new
      <4>5. Len(p) \in Nat
        BY <3>1, PathAt
      <4>6. i \in Int
        BY <4>5
      <4>0. i \in Int /\ (j = Len(source) <=> i = Len(part))
        <5>1. Len(part) \in Int /\ Len(source) \in Int
          BY <1>3
        <5>2. \A x, y, z \in Int : x - y + z = z <=> x = y
          OBVIOUS
        <5> QED BY <5>1, <5>2, <4>6
      <4> HIDE DEF j
      <4>2. CASE i < Len(part)
        <5>1. SubSeq(part, 1, i) \in DOMAIN tree /\ tree[SubSeq(part, 1, i)].kind = "dir"
          BY <4>1, <4>2, <1>1 DEF Shape
        <5> QED BY <4>1, <4>2, <5>1, <1>d
      <4>3. CASE i = Len(part)
        <5>1. IsPrefix(part, p)
          BY <2>2, <1>3, <1>4, RebasedBelow DEF new
        <5>2. SubSeq(p, 1, i) = part
          BY <5>1, <4>3, <3>1, <1>3, PrefixIsSub
        <5> QED BY <5>2, <1>d
      <4>4. CASE i > Len(part)
        <5>1. i >= Len(part) /\ j # Len(source)
          BY <4>0, <4>4, <1>3
        <5>2. j \in Len(source) + 1 .. Len(b) - 1
          BY <4>1, <5>1, <1>3, <1>4
        <5> DEFINE c == SubSeq(b, 1, j)
        <5>3. c \in walk(source, relative) /\ tree[c].kind = "dir"
          BY <5>2, <1>1, WalkAbove
        <5>4. SubSeq(p, 1, i) = new(c)
          BY <4>1, <5>1 DEF new
        <5> HIDE DEF c
        <5>5. c \in below
          BY <5>3
        <5>6. new(c) \in DOMAIN T /\ T[new(c)].kind = "dir"
          BY <5>3, <5>5, <1>k, <1>n
        <5> QED BY <5>4, <5>6
      <4> QED BY <4>0, <4>2, <4>3, <4>4, <1>3
    <3> QED BY <3>1, <3>3
  <2> QED BY <2>1, <2>2, <1>6
<1>8. Shape(T)
  BY <1>7 DEF Shape
<1>9. IsFiniteSet(DOMAIN T)
  <2>1. below \subseteq DOMAIN tree
    BY <1>4
  <2>2. IsFiniteSet(below)
    BY <2>1, <1>1, FS_Subset
  <2>3. IsFiniteSet(copies)
    <3> DEFINE f == [b \in below |-> new(b)]
    <3>1. f \in Surjection(below, copies)
      BY DEF Surjection, copies
    <3> HIDE DEF f
    <3> QED BY <2>2, <3>1, FS_Surjection
  <2>4. IsFiniteSet(DOMAIN tree \cup copies)
    BY <1>1, <2>3, FS_Union
  <2> QED BY <1>2, <2>4
<1>10. ASSUME NEW b \in below, T[new(b)].kind = "file" PROVE Sound(T[new(b)], crashes)
  <2>1. b \in DOMAIN tree /\ tree[b].kind = "file" /\ Last(b) >= 0
    BY <1>2, <1>4, <1>10
  <2>2. Sound(tree[b], crashes)
    BY <2>1, <1>1 DEF Fits
  <2> QED BY <2>2, <1>2 DEF Sound
<1>11. ASSUME NEW p \in DOMAIN T
       PROVE  \/ p \in DOMAIN tree /\ T[p] = tree[p]
              \/ Last(p) >= 0 /\ (T[p].kind = "file" => Sound(T[p], crashes))
  BY <1>2, <1>5, <1>6, <1>10
<1> QED BY <1>8, <1>9, <1>11

LEMMA CopyContentsInv ==
  ASSUME FilesInv, NEW s \in Slot, CopyContents(s)
  PROVE  FilesInv'
<1> DEFINE part   == Where(PartPath(s))
           source == canonicalize(request[s].source)
           below  == {p \in walk(source, request[s].source) : tree[p].kind # "link"}
           new(p) == Rebased(p, source, part)
           number == Numbering(below)
           copied == {new(p) : p \in below}
           copy(p) == [tree[p] EXCEPT !.id = fresh + number[p], !.synced = FALSE, !.copy = TRUE,
                                      !.loose = @ \/ HasPart(source, <<>>)]
           r == [request[s] EXCEPT !.pc = "place"]
           T == [q \in DOMAIN tree \cup copied |->
                   IF q \in copied THEN copy(CHOOSE p \in below : new(p) = q) ELSE tree[q]]
<1>1. /\ Shape(tree) /\ made \in Nat /\ made \in 0 .. MaxRequest /\ fresh \in Nat
      /\ request[s] \in RequestType /\ Asked(request[s]) /\ IsFiniteSet(DOMAIN tree)
  BY FilesAssumption DEF FilesInv, FilesTyped
<1>2. /\ request[s] \in Copying /\ InProgress(request[s]) /\ request[s].pc = "copy"
      /\ made' = made /\ crashes' = crashes
  BY <1>1, ByPc DEF CopyContents, InProgress, Quiet
<1>3. \/ /\ request[s].kind = "dir" /\ IsDir(part) /\ tree' = T
         /\ \A p \in below : new(p) \in DOMAIN tree => tree[new(p)].kind = "file"
         /\ fresh' = fresh + Cardinality(below) /\ Goto(s, "place")
      \/ Goto(s, "discard") /\ tree' = tree /\ fresh' = fresh
      \/ /\ request[s].kind # "dir" /\ Goto(s, "place") /\ fresh' = fresh
         /\ request[s].whole => Write(s, "whole")
         /\ ~request[s].whole => tree' = tree
  BY DEF CopyContents
<1>4. ASSUME Goto(s, "place")
      PROVE  /\ request' = [request EXCEPT ![s] = r] /\ r \in Copying /\ r \in RequestType
             /\ r.pc = "place" /\ r.number = request[s].number /\ r.id = request[s].id
             /\ r.kind = request[s].kind /\ r.ask = request[s].ask /\ r.replace = request[s].replace
  BY <1>2, <1>4, GotoFacts
<1>5. ASSUME Goto(s, "place") PROVE Asked(r)
  <2> HIDE DEF r
  <2> QED BY <1>1, <1>2, <1>4, <1>5, Kinds DEF Asked
<1>m. ASSUME NEW p \in DOMAIN tree, tree[p].kind = "file", Last(p) = -request[s].number
      PROVE  CopiedFile(request[s], tree[p], crashes)
  BY <1>2, <1>m DEF FilesInv, Fits, Mine
<1>6. CASE Goto(s, "discard") /\ tree' = tree /\ fresh' = fresh
  BY <1>1, <1>2, <1>6, GivesUpQuietly
<1>7. CASE /\ request[s].kind # "dir" /\ Goto(s, "place") /\ fresh' = fresh
           /\ request[s].whole => Write(s, "whole")
           /\ ~request[s].whole => tree' = tree
  <2> HIDE DEF r
  <2>1. /\ Shape(tree') /\ IsFiniteSet(DOMAIN tree') /\ DOMAIN tree' = DOMAIN tree
        /\ \A p \in DOMAIN tree : Better(tree'[p], tree[p]) /\ Comes(Last(p), tree'[p])
        /\ \A p \in DOMAIN tree : request[s].whole /\ tree[p].id = request[s].id => tree'[p].whole = TRUE
    <3>1. CASE request[s].whole
      <4>1. Write(s, "whole")
        BY <1>7, <3>1
      <4> QED BY <4>1, WriteFacts
    <3>2. CASE ~request[s].whole
      <4>1. tree' = tree /\ \A p \in DOMAIN tree : Better(tree[p], tree[p])
        BY <1>7, <3>2 DEF Better
      <4> QED BY <4>1, <3>2, <1>1, SameComes
    <3> QED BY <3>1, <3>2
  <2>2. ASSUME NEW p \in DOMAIN tree', tree'[p].kind = "file", Last(p) = -r.number
        PROVE  Mine(r, tree'[p], crashes)
    <3>1. p \in DOMAIN tree /\ Better(tree'[p], tree[p])
      BY <2>1
    <3>2. CopiedFile(request[s], tree[p], crashes)
      BY <3>1, <2>2, <1>4, <1>7, <1>m DEF Better
    <3>3. tree'[p].whole \/ tree'[p].loose \/ crashes > 0
      BY <3>1, <3>2, <2>1, <1>2 DEF CopiedFile, Better
    <3>4. CopiedFile(r, tree'[p], crashes)
      BY <3>1, <3>2, <3>3, <1>4, <1>7 DEF CopiedFile, Better
    <3> QED BY <3>4, <1>4, <1>7, Kinds DEF Mine
  <2>3. \A p \in DOMAIN tree' :
           /\ Comes(Last(p), tree'[p])
           /\ tree'[p].kind = "file" /\ Last(p) = -r.number => Mine(r, tree'[p], crashes)
    BY <2>1, <2>2
  <2>4. r.pc # "create"
    BY <1>4, <1>7
  <2> QED BY <1>2, <1>4, <1>5, <1>7, <2>1, <2>3, <2>4, GoesOnWithPart
<1>8. CASE /\ request[s].kind = "dir" /\ IsDir(part) /\ tree' = T
           /\ \A p \in below : new(p) \in DOMAIN tree => tree[new(p)].kind = "file"
           /\ fresh' = fresh + Cardinality(below) /\ Goto(s, "place")
  <2> DEFINE relative == request[s].source
  <2>1. part \in Named /\ request[s].number >= 1 /\ request[s].number <= made
    BY <1>2, PartFacts
  <2>2. part \in DOMAIN tree /\ tree[part].kind = "dir" /\ part \in Paths
    BY <2>1, <1>1, <1>8, EntryFacts DEF Named
  <2>3. source \in Paths /\ relative \in Paths
    <3>1. relative \in Paths
      BY <1>2 DEF Copying, Named
    <3> QED BY <3>1, <1>1, CanonFacts
  <2>4. /\ below \subseteq walk(source, relative) /\ below \subseteq DOMAIN tree
        /\ \A b \in walk(source, relative) : tree[b].kind = "dir" => b \in below
    <3>1. \A b \in walk(source, relative) : b \in DOMAIN tree
      BY DEF walk, Below
    <3>2. \A b \in walk(source, relative) : tree[b].kind = "dir" => b \in below
      OBVIOUS
    <3> QED BY <3>1, <3>2
  <2>5. IsFiniteSet(below)
    BY <2>4, <1>1, FS_Subset
  <2>6. /\ Cardinality(below) \in Nat /\ number \in [below -> 1 .. Cardinality(below)]
    BY <2>5, NumberingFacts
  <2> HIDE DEF below, number
  <2>7. \A b \in below : fresh + number[b] \in Nat
    BY <2>6, <1>1
  <2>8. ASSUME NEW b \in below
        PROVE  /\ copy(b) \in EntryType /\ copy(b).kind = tree[b].kind /\ copy(b).copy = TRUE
               /\ copy(b).whole = tree[b].whole /\ (tree[b].loose => copy(b).loose)
    <3> DEFINE e == tree[b]
               id == fresh + number[b]
               l == e.loose \/ HasPart(source, <<>>)
               c == [e EXCEPT !.id = id, !.synced = FALSE, !.copy = TRUE, !.loose = l]
    <3>1. e \in EntryType /\ id \in Nat
      BY <2>4, <2>7, <1>1 DEF Shape
    <3>2. copy(b) = c
      BY <3>1 DEF EntryType
    <3>l. l \in BOOLEAN /\ (e.loose => l)
      OBVIOUS
    <3>3. c \in EntryType /\ c.kind = e.kind /\ c.copy = TRUE /\ c.whole = e.whole /\ c.loose = l
      <4> HIDE DEF e, id, l
      <4> QED BY <3>1, <3>l DEF EntryType
    <3> HIDE DEF c, copy, l
    <3> QED BY <3>2, <3>3, <3>l
  <2> HIDE DEF copy, source, part, relative
  <2>10. ASSUME NEW b \in below
         PROVE  new(b) \in copied /\ \A c \in below : new(c) = new(b) => c = b
    <3>2. \A c \in below : c \in Paths /\ IsPrefix(source, c)
      BY <1>1, <2>3, <2>4, WalkFacts
    <3>3. \A c \in below : new(c) = new(b) => c = b
      BY <3>2, <2>2, <2>3, RebasedInjective
    <3> QED BY <3>3
  <2>n. copied = {new(b) : b \in below}
    OBVIOUS
  <2>d. DOMAIN T = DOMAIN tree \cup copied /\ \A p \in DOMAIN tree : p \notin copied => T[p] = tree[p]
    OBVIOUS
  <2>e. \A q \in copied : T[q] = copy(CHOOSE p \in below : new(p) = q)
    OBVIOUS
  <2>t. tree' = T /\ \A p \in below : new(p) \in DOMAIN tree => tree[new(p)].kind = "file"
    BY <1>8
  <2> HIDE DEF T, copied, new
  <2>11. ASSUME NEW b \in below PROVE T[new(b)] = copy(b)
    <3>1. (CHOOSE p \in below : new(p) = new(b)) = b
      BY <2>10
    <3> QED BY <3>1, <2>10, <2>e
  <2>13. Copied(T, below, source, part)
    <3>0. copied = {Rebased(b, source, part) : b \in below}
      BY <2>n DEF new
    <3>1. DOMAIN T = DOMAIN tree \cup {Rebased(b, source, part) : b \in below}
      BY <3>0, <2>d
    <3>2. ASSUME NEW b \in below
          PROVE  LET e == T[Rebased(b, source, part)] IN
                 /\ e \in EntryType /\ e.kind = tree[b].kind /\ e.copy /\ e.whole = tree[b].whole
                 /\ tree[b].loose => e.loose
                 /\ Rebased(b, source, part) \in DOMAIN tree =>
                      tree[Rebased(b, source, part)].kind # "dir"
      <4>1. T[Rebased(b, source, part)] = copy(b)
        BY <2>11 DEF new
      <4>2. Rebased(b, source, part) \in DOMAIN tree => tree[Rebased(b, source, part)].kind = "file"
        BY <2>t DEF new
      <4> QED BY <4>1, <4>2, <2>8
    <3>3. \A p \in DOMAIN tree : p \notin {Rebased(b, source, part) : b \in below} => T[p] = tree[p]
      BY <3>0, <2>d
    <3> QED BY <3>1, <3>2, <3>3 DEF Copied
  <2>15. /\ Shape(T) /\ IsFiniteSet(DOMAIN T)
         /\ \A p \in DOMAIN T :
              \/ p \in DOMAIN tree /\ T[p] = tree[p]
              \/ Last(p) >= 0 /\ (T[p].kind = "file" => Sound(T[p], crashes))
    BY <2>2, <2>3, <2>4, <2>13, CopiedFacts
  <2>16. /\ request' = [request EXCEPT ![s] = r] /\ r \in Copying /\ r \in RequestType
         /\ r.pc = "place" /\ r.number = request[s].number /\ r.kind = "dir" /\ Asked(r)
    BY <1>4, <1>5, <1>8
  <2> HIDE DEF r
  <2>17. ASSUME NEW p \in DOMAIN T
         PROVE  \/ Comes(Last(p), T[p]) /\ Own(r, Last(p), T[p], crashes)
                \/ Fits(Last(p), T[p], made', [request EXCEPT ![s] = r], crashes)
    <3>1. CASE p \in DOMAIN tree /\ T[p] = tree[p]
      <4>1. Comes(Last(p), T[p])
        BY <3>1, SameComes
      <4>2. ASSUME tree[p].kind = "file", Last(p) = -request[s].number PROVE FALSE
        <5>1. CopiedFile(request[s], tree[p], crashes)
          BY <3>1, <4>2, <1>m
        <5> QED BY <5>1, <1>8 DEF CopiedFile
      <4>3. Own(r, Last(p), T[p], crashes)
        BY <3>1, <4>2, <2>16 DEF Own
      <4> QED BY <4>1, <4>3
    <3>2. CASE Last(p) >= 0 /\ (T[p].kind = "file" => Sound(T[p], crashes))
      <4>1. Last(p) \in Int /\ r.number >= 1
        BY <2>1, <2>15, <2>16, FrontAt DEF Shape
      <4> QED BY <3>2, <4>1, <2>16, SeenFits
    <3> QED BY <3>1, <3>2, <2>15
  <2>18. /\ made' \in 0 .. MaxRequest /\ made' >= made /\ fresh' \in Nat /\ r.number <= made' /\ r.number >= 1
    BY <1>1, <1>2, <1>8, <2>1, <2>6, <2>16
  <2>19. /\ Shape(tree') /\ IsFiniteSet(DOMAIN tree')
         /\ \A p \in DOMAIN tree' :
              \/ Comes(Last(p), tree'[p]) /\ Own(r, Last(p), tree'[p], crashes)
              \/ Fits(Last(p), tree'[p], made', [request EXCEPT ![s] = r], crashes)
    BY <2>t, <2>15, <2>17
  <2>20. InProgress(r) => InProgress(request[s])
    BY <1>2
  <2> QED BY <1>2, <2>16, <2>18, <2>19, <2>20, OneStep
<1> QED BY <1>3, <1>6, <1>7, <1>8

-----------------------------------------------------------------------------
(* The world, and the beginning.                                           *)

LEMMA AgeInv ==
  ASSUME FilesInv, Age
  PROVE  FilesInv'
<1>1. /\ made \in 0 .. MaxRequest /\ fresh \in Nat /\ crashes \in Nat /\ Numbers
      /\ request \in [Slot -> RequestType] /\ Shape(tree) /\ IsFiniteSet(DOMAIN tree)
      /\ \A t \in Slot : Asked(request[t])
      /\ \A p \in DOMAIN tree : tree[p] \in EntryType
      /\ \A p \in DOMAIN tree : Fits(Last(p), tree[p], made, request, crashes)
  BY DEF FilesInv, FilesTyped, Shape
<1>2. PICK path \in DOMAIN tree : tree' = [tree EXCEPT ![path].old = TRUE]
  BY DEF Age
<1>3. request' = request /\ made' = made /\ fresh' = fresh /\ crashes' = crashes
  BY DEF Age
<1>4. DOMAIN tree' = DOMAIN tree
  BY <1>2
<1>5. ASSUME NEW p \in DOMAIN tree PROVE tree'[p] \in EntryType /\ Better(tree'[p], tree[p])
  <2> DEFINE e == tree[p]
             w == [e EXCEPT !.old = TRUE]
  <2>1. tree'[p] = IF p = path THEN w ELSE e
    BY <1>2
  <2>2. e \in EntryType
    BY <1>1
  <2> HIDE DEF e
  <2>3. /\ w \in EntryType /\ w.kind = e.kind /\ w.id = e.id /\ w.copy = e.copy
        /\ w.whole = e.whole /\ w.synced = e.synced /\ w.loose = e.loose
    BY <2>2 DEF EntryType
  <2> HIDE DEF w
  <2>4. Better(w, e) /\ Better(e, e)
    BY <2>3 DEF Better
  <2> QED BY <2>1, <2>2, <2>3, <2>4 DEF e
<1>6. Shape(tree')
  BY <1>1, <1>4, <1>5, ShapeUpdate DEF Better
<1>7. \A p \in DOMAIN tree' : Fits(Last(p), tree'[p], made, request, crashes)
  BY <1>1, <1>4, <1>5, Improved
<1>8. FilesTyped'
  BY <1>1, <1>3, <1>4, <1>6 DEF FilesTyped
<1>9. Numbers'
  BY <1>1, <1>3 DEF Numbers
<1> QED BY <1>1, <1>3, <1>7, <1>8, <1>9
        DEF FilesInv, Fits, Numbered, Sound, Mine, Uploaded, CopiedFile, Asked

\* A slot with nothing to do.
LEMMA IdleFacts ==
  ASSUME NEW e, NEW c
  PROVE  Mine(Idle, e, c) /\ Asked(Idle) /\ Idle \in RequestType /\ Idle.number = 0
         /\ ~InProgress(Idle) /\ Idle.pc # "create"
<1>1. Idle.pc = "idle" /\ Idle.number = 0 /\ Idle \in RequestType
  BY DEF Idle, RequestType
<1>2. DOMAIN Idle = {"pc", "number"}
  BY DEF Idle
<1>3. Idle \notin Moving /\ Idle \notin Copying
  <2>1. \A r \in Moving : "ask" \in DOMAIN r
    BY DEF Moving
  <2>2. \A r \in Copying : "ask" \in DOMAIN r
    BY DEF Copying
  <2> QED BY <1>2, <2>1, <2>2
<1> HIDE DEF Idle
<1> QED BY <1>1, <1>3 DEF Mine, Asked, InProgress

LEMMA CrashInv ==
  ASSUME FilesInv, Crash
  PROVE  FilesInv'
<1>1. /\ made \in 0 .. MaxRequest /\ made \in Nat /\ fresh \in Nat /\ crashes \in Nat
      /\ Shape(tree) /\ IsFiniteSet(DOMAIN tree)
      /\ \A p \in DOMAIN tree : Fits(Last(p), tree[p], made, request, crashes)
  BY FilesAssumption DEF FilesInv, FilesTyped
<1>2. /\ request' = [s \in Slot |-> Idle] /\ made' = made /\ fresh' = fresh
      /\ crashes' = crashes + 1 /\ DOMAIN tree' = DOMAIN tree
  BY DEF Crash
<1>3. ASSUME NEW p \in DOMAIN tree
      PROVE  /\ tree'[p] \in EntryType /\ tree'[p].kind = tree[p].kind
             /\ tree'[p].copy = tree[p].copy /\ tree'[p].synced = tree[p].synced
             /\ tree'[p].loose = tree[p].loose
             /\ tree[p].synced => tree'[p].whole = tree[p].whole
  <2> DEFINE e == tree[p]
             w == [e EXCEPT !.whole = FALSE]
  <2>1. tree'[p] = IF e.synced THEN e ELSE w
    BY DEF Crash
  <2>2. e \in EntryType
    BY <1>1 DEF Shape
  <2> HIDE DEF e
  <2>3. w \in EntryType /\ w.kind = e.kind /\ w.copy = e.copy /\ w.synced = e.synced /\ w.loose = e.loose
    BY <2>2 DEF EntryType
  <2> HIDE DEF w
  <2> QED BY <2>1, <2>2, <2>3 DEF e
<1>4. Shape(tree')
  BY <1>1, <1>2, <1>3, ShapeUpdate
<1>5. \A s \in Slot : request'[s] = Idle
  BY <1>2
<1>6. ASSUME NEW p \in DOMAIN tree' PROVE Fits(Last(p), tree'[p], made', request', crashes')
  <2>1. p \in DOMAIN tree /\ Fits(Last(p), tree[p], made, request, crashes) /\ crashes' > 0
    BY <1>1, <1>2
  <2>2. Numbered(Last(p), made', request')
    BY <2>1, <1>2, <1>5, IdleFacts DEF Fits, Numbered
  <2>3. tree[p].kind = "file" /\ Sound(tree[p], crashes) => Sound(tree'[p], crashes')
    BY <2>1, <1>3 DEF Sound
  <2>4. \A s \in Slot : Mine(request'[s], tree'[p], crashes')
    BY <1>5, IdleFacts
  <2> QED BY <2>1, <2>2, <2>3, <2>4, <1>3 DEF Fits
<1>7. FilesTyped'
  <2>1. request' \in [Slot -> RequestType]
    BY <1>2, IdleFacts
  <2> QED BY <2>1, <1>1, <1>2, <1>4 DEF FilesTyped
<1>8. Numbers'
  BY <1>1, <1>2, <1>5, IdleFacts DEF Numbers, InProgress
<1>9. \A s \in Slot : Asked(request'[s])
  BY <1>5, IdleFacts
<1> QED BY <1>6, <1>7, <1>8, <1>9
        DEF FilesInv, Fits, Numbered, Sound, Mine, Uploaded, CopiedFile, Asked

\* A finite set of numbers that is not empty has a largest one.
LEMMA LargestOf ==
  ASSUME NEW S, S \subseteq Nat, S # {}, IsFiniteSet(S)
  PROVE  Max(S) \in S /\ \A y \in S : Max(S) >= y
<1>1. Cardinality(S) \in Nat /\ ExistsBijection(1 .. Cardinality(S), S)
  BY FS_CardinalityType
<1> DEFINE N == Cardinality(S)
<1>2. PICK f \in [1 .. N -> S] : \A y \in S : \E i \in 1 .. N : f[i] = y
  BY <1>1 DEF ExistsBijection, Bijection, Surjection
<1>n. N \in Nat
  BY <1>1
<1> HIDE DEF N
<1> DEFINE Bounded(k) == \E m \in Nat : \A i \in 1 .. k : f[i] <= m
           Unbounded == {k \in 0 .. N : ~Bounded(k)}
<1>3. Unbounded = {}
  <2> SUFFICES ASSUME Unbounded # {} PROVE FALSE
    OBVIOUS
  <2>0. Unbounded \subseteq Nat
    BY <1>n
  <2>1. PICK k \in Unbounded : \A j \in Unbounded : k <= j
    <3> HIDE DEF Unbounded
    <3> QED BY <2>0, SmallestOf
  <2>2. k # 0
    BY DEF Unbounded
  <2>3. k \in 1 .. N /\ k - 1 \in 0 .. N /\ ~(k <= k - 1)
    BY <2>2, <1>n
  <2>4. PICK m \in Nat : \A i \in 1 .. k - 1 : f[i] <= m
    BY <2>1, <2>3
  <2> HIDE DEF Unbounded, Bounded
  <2>5. f[k] \in Nat /\ k \in Nat /\ k <= N /\ k >= 1
    <3>1. f[k] \in S
      BY <2>3
    <3>2. k \in 1 .. N
      BY <2>3
    <3>3. k \in Nat /\ k <= N /\ k >= 1
      BY <3>2, <1>n
    <3>4. f[k] \in Nat
      BY <3>1
    <3> QED BY <3>3, <3>4
  <2>6. PICK M \in Nat : m <= M /\ f[k] <= M
    <3> DEFINE g == f[k]
    <3>1. g \in Nat /\ m \in Nat
      BY <2>5
    <3> HIDE DEF g
    <3>2. \/ m <= m /\ g <= m
          \/ m <= g /\ g <= g
      BY <3>1
    <3>3. \E M \in Nat : m <= M /\ g <= M
      BY <3>1, <3>2
    <3> QED BY <3>3 DEF g
  <2>7. ASSUME NEW i \in 1 .. k PROVE f[i] <= M
    <3>1. (i = k \/ i \in 1 .. k - 1) /\ i \in 1 .. N
      BY <2>5, <1>n
    <3>2. f[i] \in Nat
      BY <3>1
    <3>3. CASE i = k
      BY <3>3, <2>6
    <3>4. CASE i \in 1 .. k - 1
      <4>1. f[i] <= m
        BY <3>4, <2>4
      <4>2. m <= M /\ m \in Nat /\ M \in Nat
        BY <2>6
      <4> QED BY <4>1, <4>2, <3>2
    <3> QED BY <3>1, <3>3, <3>4
  <2> QED BY <2>6, <2>7 DEF Unbounded, Bounded
<1>4. PICK m \in Nat : \A y \in S : y <= m
  <2>0. N \in 0 .. N
    BY <1>n
  <2>1. Bounded(N)
    BY <1>3, <2>0
  <2> QED BY <2>1, <1>2
<1> DEFINE B == {b \in Nat : \A y \in S : y <= b}
<1>5. PICK b \in B : \A c \in B : b <= c
  <2>1. B \subseteq Nat /\ B # {}
    BY <1>4
  <2> HIDE DEF B
  <2> QED BY <2>1, SmallestOf
<1>6. b \in S
  <2> SUFFICES ASSUME b \notin S PROVE FALSE
    OBVIOUS
  <2>1. \A y \in S : y <= b - 1 /\ b - 1 \in Nat
    BY <1>5
  <2>2. b - 1 \in B
    BY <2>1
  <2> QED BY <2>2, <1>5
<1>7. b \in S /\ \A y \in S : b >= y
  BY <1>5, <1>6
<1> QED BY <1>7 DEF Max
LEMMA FilesInitInv ==
  ASSUME FilesInit
  PROVE  FilesInv
<1>1. /\ tree = Tree /\ request = [s \in Slot |-> Idle] /\ made = 0 /\ crashes = 0
      /\ fresh = Max({None} \cup {Tree[path].id : path \in DOMAIN Tree})
  BY DEF FilesInit
<1>2. IsFiniteSet(DOMAIN Tree)
  BY TreeAssumption
<1>3. \A p \in Seq(Nat) : p \in Paths
  BY SeqMonotonic DEF Paths
<1>4. ASSUME NEW p \in DOMAIN Tree
      PROVE  /\ p \in Paths /\ p # <<>> /\ Last(p) >= 0 /\ Tree[p] \in EntryType
             /\ \A i \in 1 .. Len(p) - 1 :
                  SubSeq(p, 1, i) \in DOMAIN Tree /\ Tree[SubSeq(p, 1, i)].kind = "dir"
             /\ Tree[p].whole = TRUE /\ Tree[p].synced = TRUE /\ Tree[p].id \in Nat
  <2> DEFINE e == Tree[p]
  <2>1. e \in [id : Nat \ {0}, kind : {"file", "dir", "link"}, whole : {TRUE},
               synced : {TRUE}, old : BOOLEAN, copy : BOOLEAN, loose : {FALSE}, to : Seq(Nat)]
    BY TreeAssumption
  <2> HIDE DEF e
  <2>2. e \in EntryType /\ e.whole = TRUE /\ e.synced = TRUE /\ e.id \in Nat
    BY <2>1, <1>3 DEF EntryType
  <2>3. p \in Paths /\ p # <<>> /\ p \in Seq(Nat)
    BY <1>3, TreeAssumption
  <2>4. Last(p) >= 0
    <3>1. Last(p) = p[Len(p)] /\ Len(p) \in 1 .. Len(p)
      BY <2>3, FrontAt, PathAt
    <3>2. p[Len(p)] \in Nat
      BY <3>1, <2>3
    <3> QED BY <3>1, <3>2
  <2>5. \A i \in 1 .. Len(p) - 1 :
          SubSeq(p, 1, i) \in DOMAIN Tree /\ Tree[SubSeq(p, 1, i)].kind = "dir"
    BY TreeAssumption
  <2> QED BY <2>2, <2>3, <2>4, <2>5 DEF e
<1>5. Shape(tree)
  BY <1>1, <1>4 DEF Shape
<1>6. fresh \in Nat
  <2> DEFINE ids == {Tree[path].id : path \in DOMAIN Tree}
             S == {None} \cup ids
  <2>1. IsFiniteSet(ids)
    <3> DEFINE f == [path \in DOMAIN Tree |-> Tree[path].id]
    <3>1. f \in Surjection(DOMAIN Tree, ids)
      BY DEF Surjection
    <3> HIDE DEF f, ids
    <3> QED BY <1>2, <3>1, FS_Surjection
  <2>2. ids \subseteq Nat
    BY <1>4
  <2> HIDE DEF ids
  <2>3. IsFiniteSet(S)
    <3>1. IsFiniteSet(ids \cup {None}) /\ S = ids \cup {None}
      BY <2>1, FS_AddElement
    <3> QED BY <3>1
  <2>4. S \subseteq Nat /\ S # {}
    BY <2>2 DEF None
  <2> HIDE DEF S
  <2>5. Max(S) \in S
    BY <2>3, <2>4, LargestOf
  <2>6. fresh = Max(S)
    BY <1>1 DEF S, ids
  <2> QED BY <2>4, <2>5, <2>6
<1>7. \A s \in Slot : request[s] = Idle
  BY <1>1
<1>8. FilesTyped
  <2>1. made \in 0 .. MaxRequest /\ crashes \in Nat
    BY <1>1, FilesAssumption
  <2>2. request \in [Slot -> RequestType]
    BY <1>1, IdleFacts
  <2> QED BY <2>1, <2>2, <1>1, <1>2, <1>5, <1>6 DEF FilesTyped
<1>9. Numbers
  BY <1>1, <1>7, IdleFacts DEF Numbers
<1>10. ASSUME NEW p \in DOMAIN tree PROVE Fits(Last(p), tree[p], made, request, crashes)
  <2>1. Last(p) >= 0 /\ Last(p) \in Int /\ Sound(tree[p], crashes)
    BY <1>1, <1>4, FrontAt DEF Sound
  <2>2. Numbered(Last(p), made, request)
    BY <2>1 DEF Numbered
  <2>3. \A s \in Slot : Mine(request[s], tree[p], crashes)
    BY <1>7, IdleFacts
  <2> QED BY <2>1, <2>2, <2>3 DEF Fits
<1> QED BY <1>7, <1>8, <1>9, <1>10, IdleFacts DEF FilesInv

LEMMA FilesStep ==
  ASSUME FilesInv, FilesNext
  PROVE  FilesInv'
<1>1. ASSUME NEW s \in Slot, Respond(s) PROVE FilesInv'
  <2>1. PICK ask \in Asks :
          /\ Known(ask.path)
          /\ \/ ReadAdmit(s, ask) \/ ArchiveStart(s, ask) \/ List(s, ask)
             \/ UploadStart(s, ask) \/ CreateDirectory(s, ask) \/ RenameCheck(s, ask)
             \/ CopyCheck(s, ask) \/ DeleteCheck(s, ask)
    BY <1>1 DEF Respond
  <2>2. made < MaxRequest
    BY <1>1 DEF Respond
  <2> QED BY <2>1, <2>2, ReadAdmitInv, ArchiveStartInv, ListInv, UploadStartInv, CreateDirectoryInv,
             RenameCheckInv, CopyCheckInv, DeleteCheckInv
<1>2. ASSUME NEW s \in Slot, Step(s) PROVE FilesInv'
  <2>1. \/ ReadDescribe(s) \/ ReadOpen(s)
        \/ ArchiveReach(s) \/ ArchiveMember(s) \/ ArchiveEnd(s)
        \/ UploadBody(s) \/ UploadCut(s) \/ UploadSync(s)
        \/ CommitCheck(s) \/ CommitLink(s) \/ CommitRename(s) \/ Discard(s)
        \/ RenameMove(s) \/ CopyCreate(s) \/ CopyContents(s) \/ CopyFails(s) \/ Place(s)
        \/ DeleteRemove(s)
    BY <1>2 DEF Step
  <2> QED BY <2>1, ReadStepInv, UploadWriteInv, UploadQuietInv, CommitLinkInv, PlaceInv, DiscardInv,
             RenameMoveInv, CopyCreateInv, CopyContentsInv, DeleteRemoveInv
<1> QED BY <1>1, <1>2, AgeInv, CrashInv DEF FilesNext

LEMMA FilesStutter ==
  ASSUME FilesInv, UNCHANGED fileVars
  PROVE  FilesInv'
<1>1. tree' = tree /\ request' = request /\ made' = made /\ fresh' = fresh /\ crashes' = crashes
  BY DEF fileVars
<1> QED BY <1>1 DEF FilesInv, FilesTyped, Numbers, Fits, Numbered, Sound, Mine, Uploaded, CopiedFile, Asked

\* The mount stays a tree, no two requests under way have one number, nothing is called by
\* the number of a request before the request has made its part, and what is called by it
\* is what write_body and copy_entry have put there so far, whatever clients do to parts.
THEOREM FilesSafe == FilesSpec => []FilesInv
<1>1. FilesInit => FilesInv
  BY FilesInitInv
<1>2. FilesInv /\ [FilesNext]_fileVars => FilesInv'
  BY FilesStep, FilesStutter
<1> QED BY <1>1, <1>2, PTL DEF FilesSpec

\* A name that is no part's never shows part of an upload, whatever runs beside write_body
\* and PartFile::commit and wherever the machine stops, unless a client itself took it out
\* of a part; a copy is whole until the machine stops.
THEOREM AlwaysNeverTorn == FilesSpec => []NeverTorn
<1>1. FilesInv => NeverTorn
  BY MayBeRead DEF NeverTorn, Sound
<1> QED BY <1>1, FilesSafe, PTL

-----------------------------------------------------------------------------
(* What takes the place of what.                                           *)

\* No name but a part's, or one below a part, holds another file than before.
IdsKept ==
  \A p \in DOMAIN tree \cap DOMAIN tree' : ~HasPart(p, <<>>) => tree'[p].id = tree[p].id

\* Nothing is below a path where nothing is.
LEMMA NothingBelow ==
  ASSUME Shape(tree), NEW top \in Paths, top # <<>>, NEW p \in DOMAIN tree, IsPrefix(top, p)
  PROVE  top \in DOMAIN tree
<1>1. p \in Paths /\ Len(p) \in Nat /\ Len(top) \in Nat /\ Len(top) <= Len(p)
  BY PrefixAt, PathAt DEF Shape
<1>2. top = SubSeq(p, 1, Len(top)) /\ Len(top) # 0
  BY <1>1, PrefixIsSub, EmptySeq DEF Paths
<1>3. CASE Len(top) = Len(p)
  <2>1. top = p
    BY <1>1, <1>3, PrefixAt, SamePath
  <2> QED BY <2>1
<1>4. CASE Len(top) < Len(p)
  <2>1. Len(top) \in 1 .. Len(p) - 1
    BY <1>1, <1>2, <1>4
  <2> QED BY <2>1, <1>2 DEF Shape
<1> QED BY <1>1, <1>3, <1>4

\* A rename onto a free name keeps the files of all others.
LEMMA RenamedKeeps ==
  ASSUME Shape(tree), NEW from \in DOMAIN tree, NEW to \in Paths, to # <<>>,
         to \notin DOMAIN tree \/ from = to, NEW T, T = Renamed(from, to)
  PROVE  \A p \in DOMAIN tree \cap DOMAIN T : T[p].id = tree[p].id
<1>1. CASE T = tree
  BY <1>1
<1>2. CASE to \notin DOMAIN tree /\ T = MovedTo(from, to)
  <2>1. \A p \in DOMAIN T :
          \/ p \in DOMAIN tree /\ T[p] = tree[p]
          \/ \E q \in DOMAIN tree : IsPrefix(from, q) /\ p = Rebased(q, from, to)
    <3>1. to \in Named
      BY DEF Named
    <3> QED BY <3>1, <1>2, MovedFacts
  <2>2. ASSUME NEW q \in DOMAIN tree, IsPrefix(from, q) PROVE Rebased(q, from, to) \notin DOMAIN tree
    <3>1. q \in Paths /\ from \in Paths
      BY DEF Shape
    <3>2. IsPrefix(to, Rebased(q, from, to))
      BY <2>2, <3>1, RebasedBelow
    <3> QED BY <3>2, <1>2, NothingBelow
  <2> QED BY <2>1, <2>2
<1> QED BY <1>1, <1>2 DEF Renamed

\* What is taken out of a part keeps its id.
LEMMA LoosenedKeeps ==
  ASSUME NEW T, NEW top, \A p \in DOMAIN T : T[p] \in EntryType, NEW L, L = Loosened(T, top)
  PROVE  DOMAIN L = DOMAIN T /\ \A p \in DOMAIN T : L[p].id = T[p].id
<1>1. DOMAIN L = DOMAIN T
  BY DEF Loosened
<1>2. ASSUME NEW p \in DOMAIN T PROVE L[p].id = T[p].id
  <2> DEFINE e == T[p]
  <2>1. L[p] = e \/ L[p] = [e EXCEPT !.loose = TRUE]
    BY DEF Loosened
  <2>2. e \in EntryType
    OBVIOUS
  <2> HIDE DEF e
  <2>3. [e EXCEPT !.loose = TRUE].id = e.id
    BY <2>2 DEF EntryType
  <2>4. L[p].id = e.id
    BY <2>1, <2>3
  <2> QED BY <2>4 DEF e
<1> QED BY <1>1, <1>2

LEMMA WithKeeps ==
  ASSUME NEW path, path \notin DOMAIN tree, NEW entry, tree' = With(path, entry)
  PROVE  IdsKept
BY DEF With, IdsKept

LEMMA WithoutKeeps ==
  ASSUME NEW S, tree' = Without(S)
  PROVE  IdsKept
BY DEF Without, IdsKept

\* A step that is one of a request that asked to replace.
ByReplacing ==
  \E s \in Slot : request'[s] # request[s] /\ "ask" \in DOMAIN request[s] /\ Replaces(s)

\* The checks of a request, and its first step.
LEMMA RespondKeeps ==
  ASSUME FilesInv, NEW s \in Slot, Respond(s)
  PROVE  IdsKept
<1>1. PICK ask \in Asks :
        \/ ReadAdmit(s, ask) \/ ArchiveStart(s, ask) \/ List(s, ask)
        \/ UploadStart(s, ask) \/ CreateDirectory(s, ask) \/ RenameCheck(s, ask)
        \/ CopyCheck(s, ask) \/ DeleteCheck(s, ask)
  BY DEF Respond
<1>2. CASE tree' = tree
  BY <1>2 DEF IdsKept
<1>3. CASE List(s, ask)
  BY <1>3, WithoutKeeps DEF List
<1>4. CASE CreateDirectory(s, ask)
  BY <1>4, WithKeeps DEF CreateDirectory
<1>5. CASE UploadStart(s, ask)
  <2> DEFINE d == Front(target(ask.path))
             x == -(made + 1)
             part == Append(d, x)
  <2>1. /\ Shape(tree) /\ made \in Nat /\ target(ask.path) # Gone /\ made < MaxRequest
        /\ tree' = With(part, NewFile(FALSE))
    BY <1>5, FilesAssumption DEF UploadStart, FilesInv, FilesTyped, Respond
  <2>2. d \in Paths /\ x \in Int
    BY <2>1, AskFacts, TargetFacts
  <2>3. Last(part) = x
    BY <2>2, AppendAt
  <2>4. \A p \in DOMAIN tree : Last(p) # x
    BY <2>1, FreshNumber
  <2> QED BY <2>1, <2>3, <2>4, WithKeeps
<1>6. CASE ReadAdmit(s, ask) \/ ArchiveStart(s, ask) \/ RenameCheck(s, ask) \/ CopyCheck(s, ask)
           \/ DeleteCheck(s, ask)
  BY <1>2, <1>6 DEF ReadAdmit, ArchiveStart, RenameCheck, CopyCheck, DeleteCheck
<1> QED BY <1>1, <1>3, <1>4, <1>5, <1>6

\* A request in progress that goes on is not the one it was.
LEMMA GoesOn ==
  ASSUME FilesInv, NEW s \in Slot, NEW pc, Goto(s, pc), InProgress(request[s]), request[s].pc # pc
  PROVE  request'[s] # request[s] /\ "ask" \in DOMAIN request[s]
<1>1. request \in [Slot -> RequestType]
  BY DEF FilesInv, FilesTyped
<1>2. "ask" \in DOMAIN request[s] /\ "pc" \in DOMAIN request[s]
  <2>1. request[s] \in Reading \cup Uploading \cup Moving \cup Copying \cup Removing \cup Over
    BY <1>1, ByPc DEF RequestType
  <2> QED BY <2>1 DEF Reading, Uploading, Moving, Copying, Removing, Over
<1>3. request'[s] = [request[s] EXCEPT !.pc = pc]
  BY <1>1 DEF Goto
<1>4. request'[s].pc = pc
  BY <1>2, <1>3
<1> QED BY <1>2, <1>4

LEMMA PlaceKeeps ==
  ASSUME FilesInv, NEW s \in Slot, CommitRename(s) \/ Place(s) \/ RenameMove(s)
  PROVE  IdsKept \/ ByReplacing
<1> DEFINE from == IF request[s].pc = "move" THEN Where(request[s].target) ELSE Where(PartPath(s))
           to   == IF request[s].pc = "move" THEN Where(request[s].destination)
                   ELSE Where(request[s].target)
           after == Renamed(from, to)
<1>1. request[s] \in RequestType /\ Shape(tree) /\ Asked(request[s])
  BY DEF FilesInv, FilesTyped
<1>2. CASE tree' = tree
  BY <1>2 DEF IdsKept
<1>3. InProgress(request[s])
  BY DEF CommitRename, Place, RenameMove, InProgress
<1>4. to \in Named
  <2>1. CASE CommitRename(s) \/ Place(s)
    <3>1. request[s].pc # "move" /\ (request[s] \in Uploading \/ request[s] \in Copying)
      BY <2>1, <1>1, ByPc DEF CommitRename, Place
    <3> QED BY <3>1, <1>3, PartFacts
  <2>2. CASE RenameMove(s)
    <3>1. request[s].pc = "move" /\ request[s] \in Moving
      BY <2>2, <1>1, ByPc DEF RenameMove
    <3>2. request[s].destination \in Paths /\ request[s].destination # <<>>
      BY <3>1 DEF Moving, Proper, Named
    <3> QED BY <3>1, <3>2, <1>1, WhereFacts DEF Named
  <2> QED BY <2>1, <2>2
<1>5. ASSUME Renames(from, to), to \notin DOMAIN tree \/ from = to
      PROVE  \A p \in DOMAIN tree \cap DOMAIN after : after[p].id = tree[p].id
  <2>1. from \in DOMAIN tree /\ to \in Paths /\ to # <<>>
    BY <1>4, <1>5 DEF Renames, Named
  <2> HIDE DEF from, to
  <2> QED BY <2>1, <1>1, <1>5, RenamedKeeps
<1>6. CASE CommitRename(s) /\ tree' # tree
  <2>1. Goto(s, "done") /\ request[s].pc \in {"place", "rename"}
    BY <1>6 DEF CommitRename, Done
  <2>2. Replaces(s)
    <3>1. request[s].pc = "rename" => request[s].ask.op = "upload"
      BY <1>1, ByPc DEF Uploading, AsksTo
    <3> QED BY <3>1, <1>6 DEF CommitRename, Replaces
  <2> QED BY <2>1, <2>2, <1>3, GoesOn DEF ByReplacing
<1>7. CASE Place(s) /\ tree' # tree
  <2>1. /\ Goto(s, "done") /\ request[s].pc = "place" /\ request[s].ask.op = "copy"
        /\ request[s] \in Copying /\ MoveAllowed(from, to, request[s].replace)
        /\ tree' = after
    BY <1>1, <1>7, ByPc DEF Place, Done
  <2>2. Replaces(s) => ByReplacing
    BY <2>1, <1>3, GoesOn DEF ByReplacing
  <2>3. request[s].replace => Replaces(s)
    BY <2>1, <1>1 DEF Replaces, Asked
  <2> HIDE DEF from, to, after
  <2>4. ~request[s].replace => Replaces(s) \/ (to \notin DOMAIN tree /\ Renames(from, to))
    BY <2>1 DEF Replaces, MoveAllowed, rename_without_replacing
  <2> QED BY <2>1, <2>2, <2>3, <2>4, <1>5 DEF IdsKept
<1>8. CASE RenameMove(s) /\ tree' # tree
  <2>1. /\ Goto(s, "done") /\ request[s].pc = "move"
        /\ request[s] \in Moving /\ MoveAllowed(from, to, request[s].replace)
        /\ tree' = after \/ tree' = Loosened(after, to)
    BY <1>1, <1>8, ByPc DEF RenameMove, Done
  <2>5. request[s].ask.op = "rename" /\ request[s].replace \in BOOLEAN
    BY <2>1 DEF Moving, AsksTo
  <2>2. Replaces(s) => ByReplacing
    BY <2>1, <1>3, GoesOn DEF ByReplacing
  <2>3. request[s].replace => Replaces(s) \/ from = to
    BY <2>1, <2>5, <1>1 DEF Replaces, Asked
  <2>6. Renames(from, to)
    BY <2>1 DEF MoveAllowed, rename_without_replacing
  <2>7. \A p \in DOMAIN after : after[p] \in EntryType
    <3>1. Retitled(after, from, to)
      <4> HIDE DEF from, to
      <4> QED BY <1>4, <2>6, RenamedRetitled
    <3> QED BY <3>1 DEF Retitled, Shape
  <2> HIDE DEF from, to, after
  <2>4. ~request[s].replace => Replaces(s) \/ to \notin DOMAIN tree
    BY <2>1, <2>5 DEF Replaces, MoveAllowed, rename_without_replacing
  <2>8. DOMAIN tree' = DOMAIN after /\ \A p \in DOMAIN after : tree'[p].id = after[p].id
    BY <2>1, <2>7, LoosenedKeeps
  <2>9. CASE to \notin DOMAIN tree \/ from = to
    BY <2>6, <2>8, <2>9, <1>5 DEF IdsKept
  <2> QED BY <2>2, <2>3, <2>4, <2>5, <2>9
<1> QED BY <1>2, <1>6, <1>7, <1>8

\* What a directory's copy writes over is in its part.
LEMMA CopyContentsKeeps ==
  ASSUME FilesInv, NEW s \in Slot, CopyContents(s)
  PROVE  IdsKept
<1> DEFINE part   == Where(PartPath(s))
           source == canonicalize(request[s].source)
           copied == {Rebased(p, source, part) :
                        p \in {q \in walk(source, request[s].source) : tree[q].kind # "link"}}
<1>1. Shape(tree) /\ request[s] \in RequestType
  BY DEF FilesInv, FilesTyped
<1>2. /\ request[s] \in Copying /\ InProgress(request[s])
  BY <1>1, ByPc DEF CopyContents, InProgress
<1>3. \/ \A p \in DOMAIN tree \ copied : tree'[p] = tree[p]
      \/ Write(s, "whole")
  BY DEF CopyContents
<1>4. CASE Write(s, "whole")
  BY <1>4, WriteFacts DEF IdsKept, Better
<1>5. ASSUME NEW p \in copied PROVE HasPart(p, <<>>)
  <2>1. part \in Paths /\ part # <<>> /\ Last(part) < 0
    BY <1>2, PartFacts DEF Named
  <2>2. source \in Paths
    <3>1. request[s].source \in Paths
      BY <1>2 DEF Copying, Named
    <3> QED BY <3>1, <1>1, CanonFacts
  <2> HIDE DEF part, source
  <2>3. PICK b \in walk(source, request[s].source) : p = Rebased(b, source, part)
    BY <1>5
  <2>4. b \in Paths /\ IsPrefix(source, b)
    BY <2>2, <1>1, WalkFacts
  <2>5. p \in Paths /\ IsPrefix(part, p)
    BY <2>1, <2>2, <2>3, <2>4, RebasedBelow
  <2>6. Len(part) \in Nat /\ Len(part) >= 1 /\ Last(part) = part[Len(part)] /\ Len(p) \in Nat
    BY <2>1, <2>5, FrontAt, PathAt
  <2>7. Len(part) <= Len(p) /\ p[Len(part)] = part[Len(part)]
    <3>1. Len(part) \in 1 .. Len(part)
      BY <2>6
    <3> QED BY <3>1, <2>1, <2>5, PrefixAt
  <2>8. Len(part) \in Len(<<>>) + 1 .. Len(p)
    BY <2>6, <2>7
  <2> QED BY <2>1, <2>6, <2>7, <2>8 DEF HasPart, is_part
<1>6. CASE \A p \in DOMAIN tree \ copied : tree'[p] = tree[p]
  <2> HIDE DEF copied
  <2> QED BY <1>5, <1>6 DEF IdsKept
<1> QED BY <1>3, <1>4, <1>6

LEMMA StepKeeps ==
  ASSUME FilesInv, NEW s \in Slot, Step(s)
  PROVE  IdsKept \/ ByReplacing
<1>1. request[s] \in RequestType /\ Shape(tree)
  BY DEF FilesInv, FilesTyped
<1>2. CASE tree' = tree
  BY <1>2 DEF IdsKept
<1>3. CASE ReadDescribe(s) \/ ReadOpen(s) \/ ArchiveReach(s) \/ ArchiveMember(s) \/ ArchiveEnd(s)
           \/ UploadCut(s) \/ CommitCheck(s) \/ CopyFails(s)
  BY <1>2, <1>3 DEF ReadDescribe, ReadOpen, ArchiveReach, ArchiveMember, ArchiveEnd,
                    UploadCut, CommitCheck, CopyFails
<1>4. CASE UploadBody(s) \/ UploadSync(s)
  <2>1. Write(s, "whole") \/ Write(s, "synced")
    BY <1>4 DEF UploadBody, UploadSync
  <2> QED BY <2>1, WriteFacts DEF IdsKept, Better
<1>5. CASE CommitLink(s)
  <2>1. tree' = tree \/ (Where(request[s].target) \notin DOMAIN tree
                         /\ tree' = With(Where(request[s].target), tree[Where(PartPath(s))]))
    BY <1>5 DEF CommitLink
  <2> QED BY <2>1, <1>2, WithKeeps
<1>6. CASE CommitRename(s) \/ Place(s) \/ RenameMove(s)
  BY <1>6, PlaceKeeps
<1>7. CASE Discard(s)
  BY <1>7, WithoutKeeps DEF Discard
<1>8. CASE DeleteRemove(s)
  <2>1. tree' = tree \/ tree' = Without(Subtree(Where(request[s].target)))
    BY <1>8 DEF DeleteRemove
  <2> QED BY <2>1, <1>2, WithoutKeeps
<1>9. CASE CopyContents(s)
  BY <1>9, CopyContentsKeeps
<1>10. CASE CopyCreate(s)
  <2> DEFINE part == Where(PartPath(s))
  <2>1. tree' = tree \/ \E entry : tree' = With(part, entry)
    BY <1>10 DEF CopyCreate
  <2>2. request[s].pc = "create" /\ request[s] \in Copying /\ InProgress(request[s])
    BY <1>1, <1>10, ByPc DEF CopyCreate, InProgress
  <2>3. Last(part) = -request[s].number /\ request[s].number <= MaxRequest /\ request[s].number \in Nat
        /\ request[s].number >= 1
    BY <2>2, PartFacts
  <2> HIDE DEF part
  <2>4. part \notin DOMAIN tree
    <3>1. part \in DOMAIN tree => Numbered(Last(part), made, request)
      BY DEF FilesInv, Fits
    <3> QED BY <3>1, <2>2, <2>3 DEF Numbered
  <2> QED BY <2>1, <2>4, <1>2, WithKeeps
<1> QED BY <1>3, <1>4, <1>5, <1>6, <1>7, <1>8, <1>9, <1>10 DEF Step

LEMMA WorldKeeps ==
  ASSUME FilesInv, Age \/ Crash
  PROVE  IdsKept
<1>1. \A p \in DOMAIN tree : tree[p] \in EntryType
  BY DEF FilesInv, FilesTyped, Shape
<1>2. CASE Age
  <2>1. PICK path \in DOMAIN tree : tree' = [tree EXCEPT ![path].old = TRUE]
    BY <1>2 DEF Age
  <2>2. ASSUME NEW p \in DOMAIN tree PROVE tree'[p].id = tree[p].id
    <3> DEFINE e == tree[p]
    <3>1. tree'[p] = e \/ tree'[p] = [e EXCEPT !.old = TRUE]
      BY <2>1
    <3>2. e \in EntryType
      BY <1>1
    <3> HIDE DEF e
    <3>3. tree'[p].id = e.id
      BY <3>1, <3>2 DEF EntryType
    <3> QED BY <3>3 DEF e
  <2> QED BY <2>2 DEF IdsKept
<1>3. CASE Crash
  <2>1. ASSUME NEW p \in DOMAIN tree PROVE tree'[p].id = tree[p].id
    <3> DEFINE e == tree[p]
    <3>1. tree'[p] = e \/ tree'[p] = [e EXCEPT !.whole = FALSE]
      BY <1>3 DEF Crash
    <3>2. e \in EntryType
      BY <1>1
    <3> HIDE DEF e
    <3>3. tree'[p].id = e.id
      BY <3>1, <3>2 DEF EntryType
    <3> QED BY <3>3 DEF e
  <2> QED BY <2>1 DEF IdsKept
<1> QED BY <1>2, <1>3

\* A step gives a name that is no part's, and below none, another file only when it belongs to
\* a request that asked to replace, or to a move or a copy on a filesystem without exclusive
\* renames.
THEOREM AlwaysNoClobber == FilesSpec => NoClobber
<1>1. FilesInv /\ [FilesNext]_fileVars =>
        [\A path \in DOMAIN tree \cap DOMAIN tree' :
           ~HasPart(path, <<>>) /\ tree'[path].id # tree[path].id =>
             \E s \in Slot : request'[s] # request[s] /\ "ask" \in DOMAIN request[s]
                             /\ Replaces(s)]_fileVars
  <2> SUFFICES ASSUME FilesInv, FilesNext
               PROVE  \A path \in DOMAIN tree \cap DOMAIN tree' :
                        ~HasPart(path, <<>>) /\ tree'[path].id # tree[path].id =>
                          \E s \in Slot : request'[s] # request[s] /\ "ask" \in DOMAIN request[s]
                                          /\ Replaces(s)
    OBVIOUS
  <2>1. IdsKept \/ ByReplacing
    BY RespondKeeps, StepKeeps, WorldKeeps DEF FilesNext
  <2> QED BY <2>1 DEF IdsKept, ByReplacing
<1> QED BY <1>1, FilesSafe, PTL DEF FilesSpec, NoClobber
=============================================================================
