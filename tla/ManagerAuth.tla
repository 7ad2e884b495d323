----------------------------- MODULE ManagerAuth -----------------------------
(***************************************************************************)
(* Signing in to the manager: internal/server/manager/auth.go and oidc.go  *)
(* with the page's own part, web-manager/js/auth.js and api.js.            *)
(*                                                                         *)
(* The server has one seat: every login replaces the whole session map.    *)
(* A session lives in three places that change at different moments: the   *)
(* server's map, the cookie of the browser, which all its pages share, and *)
(* the CSRF token, which each page keeps for itself.  Replies may be lost, *)
(* two pages of a browser may sign in or out at the same time, and a login *)
(* over OIDC stays open at the provider and at the token exchange for any  *)
(* length of time.                                                         *)
(*                                                                         *)
(* The token of session n is n: create draws both at random, together.     *)
(* The configuration is read once, so the password version never differs.  *)
(* A page has one request under way at a time.                             *)
(***************************************************************************)
EXTENDS Integers, Sequences, FiniteSets

CONSTANTS
    Pages,       \* open pages of the manager
    Browsers,    \* browsers, one cookie jar each
    Idle,        \* sessionIdle (12 h in the code)
    MaxAge,      \* sessionMaxAge (24 h in the code)
    PendingTTL,  \* oidcPendingTTL (10 min in the code)
    MaxSessions, \* bound: sessions created
    MaxLogins,   \* bound: logins begun over OIDC
    MaxTime      \* bound: ticks of the clock

ASSUME TimesAssumption == Idle \in Nat \ {0} /\ MaxAge \in Nat \ {0} /\ PendingTTL \in Nat \ {0}
ASSUME BoundsAssumption == MaxSessions \in Nat /\ MaxLogins \in Nat /\ MaxTime \in Nat

VARIABLES
    now,      \* time.Now
    sessions, \* sessionStore.sessions: a function on session numbers
    pending,  \* oidcPendingStore.byID: a function from login numbers to expiry
    working,  \* callbacks in the token exchange: [login, page, live]
    browserOf,\* browserOf[p]: the browser a page is open in
    cookie,   \* cookie[b]: the session cookie of a browser, 0 when it has none
    view,     \* view[p]: what the page shows
    csrf,     \* csrf[p]: csrfToken of api.js
    call,     \* call[p]: the page's request
    \* history variables
    newest,   \* sessions created so far
    born,     \* when the newest session was created
    used,     \* when the newest session was last accepted
    granted,  \* granted[l]: sessions created for login l
    swapped   \* pages whose browser's session another of its pages has touched
              \* since the page sent its last request for one, or that could
              \* not read the token of theirs

vars == <<now, sessions, pending, working, browserOf, cookie, view, csrf, call,
          newest, born, used, granted, swapped>>

server == <<sessions, pending, working, newest, born, used, granted, browserOf>>

Kinds  == {"auth", "act", "logout", "login", "callback"}
Steps  == {"sent", "away", "working", "answered"}
NoCall == [kind |-> "none", step |-> "none", id |-> 0, answer |-> "none", login |-> 0]
Calls  == [kind : Kinds \cup {"none"}, step : Steps \cup {"none"}, id : 0..MaxSessions,
           answer : {"none", "ok", "unauthorized", "forbidden"}, login : 0..MaxLogins]

Empty == [x \in {} |-> 0]

Init ==
    /\ now = 0
    /\ sessions = Empty /\ pending = Empty /\ working = {}
    /\ browserOf \in [Pages -> Browsers]
    /\ cookie = [b \in Browsers |-> 0]
    /\ view = [p \in Pages |-> "blank"]
    /\ csrf = [p \in Pages |-> 0]
    /\ call = [p \in Pages |-> NoCall]
    /\ newest = 0 /\ born = 0 /\ used = 0 /\ granted = <<>>
    /\ swapped = {}

Jar(p)     == cookie[browserOf[p]]
Others(p)  == {q \in Pages \ {p} : browserOf[q] = browserOf[p]}
Without(f, x) == [y \in DOMAIN f \ {x} |-> f[y]]

Sent(kind, p) == [NoCall EXCEPT !.kind = kind, !.step = "sent",
                                !.id = IF kind = "login" THEN 0 ELSE Jar(p)]

\* The page's own requests.  A load starts with an empty token and asks
\* /api/auth, the other three need the view that offers them.
Send(p, kind) ==
    /\ call[p] = NoCall
    /\ \/ kind = "auth" /\ view' = [view EXCEPT ![p] = "blank"] /\ csrf' = [csrf EXCEPT ![p] = 0]
       \/ kind = "login" /\ view[p] = "login" /\ UNCHANGED <<view, csrf>>
       \/ kind \in {"act", "logout"} /\ view[p] = "app" /\ UNCHANGED <<view, csrf>>
    /\ call' = [call EXCEPT ![p] = Sent(kind, p)]
    /\ swapped' = IF kind \in {"auth", "login"} THEN swapped \ {p} ELSE swapped
    /\ UNCHANGED <<now, server, cookie>>

-----------------------------------------------------------------------------
(* The session store. *)

\* create: the map is replaced by one with the new session alone.
Seat(n) == [m \in {n} |-> [created |-> now, expiry |-> now + Idle]]

Create ==
    /\ newest < MaxSessions
    /\ newest' = newest + 1
    /\ sessions' = Seat(newest + 1)
    /\ born' = now /\ used' = now

\* (Fault) Only the idle time ends a session.
IdleOnly(id) == now > sessions[id].expiry

\* A session is too old, or too long unused; both limits are inclusive.
Over(id) == now > sessions[id].created + MaxAge \/ now > sessions[id].expiry

Accepts(id) == id \in DOMAIN sessions /\ ~Over(id)

\* (Fault) An accepted request does not extend the session.
NotExtended(id) == sessions[id]

Extended(id) == [sessions[id] EXCEPT !.expiry = now + Idle]

\* valid: extends an accepted session, deletes one that is over.
Validate(id) ==
    /\ sessions' = IF Accepts(id) THEN [sessions EXCEPT ![id] = Extended(id)] ELSE Without(sessions, id)
    /\ used' = IF Accepts(id) THEN now ELSE used
    /\ UNCHANGED <<pending, working, browserOf, newest, born, granted>>

-----------------------------------------------------------------------------
(* The handlers. *)

Reply(p, answer, id) == call' = [call EXCEPT ![p].step = "answered", ![p].answer = answer, ![p].id = id]

\* requireAuth: a request that changes something also needs the token of
\* the session; /api/auth is public and only says whether there is one.
Verdict(p) ==
    CASE ~Accepts(call[p].id) -> "unauthorized"
      [] Accepts(call[p].id) /\ call[p].kind = "act" /\ csrf[p] # call[p].id -> "forbidden"
      [] OTHER -> "ok"

\* /api/auth, and requireAuth before every other handler.
ServeRequest(p) ==
    /\ call[p].kind \in {"auth", "act"} /\ call[p].step = "sent"
    /\ Validate(call[p].id)
    /\ Reply(p, Verdict(p), call[p].id)
    /\ UNCHANGED <<now, browserOf, cookie, view, csrf, swapped>>

\* /api/logout: take removes whatever session the cookie names.
ServeLogout(p) ==
    LET id == call[p].id IN
    /\ call[p].kind = "logout" /\ call[p].step = "sent"
    /\ sessions' = Without(sessions, id)
    /\ swapped' = IF id \in DOMAIN sessions THEN swapped \cup Others(p) ELSE swapped
    /\ Reply(p, "ok", id)
    /\ UNCHANGED <<now, pending, working, newest, born, used, granted, browserOf, cookie, view, csrf>>

\* /api/login with the right password.
ServeLogin(p) ==
    /\ call[p].kind = "login" /\ call[p].step = "sent"
    /\ Create
    /\ Reply(p, "ok", newest + 1)
    /\ UNCHANGED <<now, pending, working, granted, browserOf, cookie, view, csrf, swapped>>

\* /api/login disabled, refused by the limiter, or with a wrong password.
RefuseLogin(p) ==
    /\ call[p].kind = "login" /\ call[p].step = "sent"
    /\ Reply(p, "unauthorized", 0)
    /\ UNCHANGED <<now, server, cookie, view, csrf, swapped>>

\* put: entries that have expired are dropped, the new one is added.
Put(l) ==
    [m \in {m \in DOMAIN pending : now <= pending[m]} \cup {l} |->
        IF m = l THEN now + PendingTTL ELSE pending[m]]

\* /api/oidc/login: the page leaves for the provider.
BeginLogin(p) ==
    LET l == Len(granted) + 1 IN
    /\ l <= MaxLogins
    /\ call[p] = NoCall /\ view[p] \in {"blank", "login"}
    /\ pending' = Put(l)
    /\ granted' = Append(granted, 0)
    /\ view' = [view EXCEPT ![p] = "blank"]
    /\ call' = [call EXCEPT ![p] = [NoCall EXCEPT !.kind = "callback", !.step = "away", !.login = l]]
    /\ UNCHANGED <<now, sessions, working, newest, born, used, browserOf, cookie, csrf, swapped>>

\* (Fault) take leaves the entry in the map.
TakeLeaves(l) == pending

Taken(l) == Without(pending, l)

\* /api/oidc/callback up to take: the provider has sent the page back.
Callback(p) ==
    LET l == call[p].login IN
    /\ call[p].kind = "callback" /\ call[p].step = "away"
    /\ pending' = Taken(l)
    /\ IF l \in DOMAIN pending /\ now <= pending[l]
       THEN /\ working' = working \cup {[login |-> l, page |-> p, live |-> TRUE]}
            /\ call' = [call EXCEPT ![p].step = "working"]
            /\ UNCHANGED view
       ELSE /\ call' = [call EXCEPT ![p] = NoCall]
            /\ view' = [view EXCEPT ![p] = "error"]
            /\ UNCHANGED working
    /\ UNCHANGED <<now, sessions, newest, born, used, granted, browserOf, cookie, csrf, swapped>>

\* /api/oidc/callback with an error of the provider, or without code or state: the
\* entry of the login stays until it expires.
TurnedAway(p) ==
    /\ call[p].kind = "callback" /\ call[p].step = "away"
    /\ call' = [call EXCEPT ![p] = NoCall]
    /\ view' = [view EXCEPT ![p] = "error"]
    /\ UNCHANGED <<now, server, cookie, csrf, swapped>>

\* The exchange and the checks of the ID token succeed: a session is made,
\* for a page that may have stopped waiting for it.
Grant(w) ==
    /\ w \in working
    /\ Create
    /\ granted' = [granted EXCEPT ![w.login] = @ + 1]
    /\ working' = working \ {w}
    /\ IF w.live THEN Reply(w.page, "ok", newest + 1) ELSE UNCHANGED call
    /\ UNCHANGED <<now, pending, browserOf, cookie, view, csrf, swapped>>

\* The provider, the token or the groups say no.
Refuse(w) ==
    /\ w \in working
    /\ working' = working \ {w}
    /\ IF w.live
       THEN call' = [call EXCEPT ![w.page] = NoCall] /\ view' = [view EXCEPT ![w.page] = "error"]
       ELSE UNCHANGED <<call, view>>
    /\ UNCHANGED <<now, sessions, pending, newest, born, used, granted, browserOf, cookie, csrf, swapped>>

-----------------------------------------------------------------------------
(* The pages receive replies. *)

\* A new session cookie: the pages that share the jar have it as well.
SetCookie(p, id) ==
    /\ cookie' = [cookie EXCEPT ![browserOf[p]] = id]
    /\ swapped' = (swapped \cup Others(p)) \ {p}

Show(p, v, token) ==
    /\ view' = [view EXCEPT ![p] = v]
    /\ csrf' = [csrf EXCEPT ![p] = token]

Done(p) == call' = [call EXCEPT ![p] = NoCall]

\* ensureAuth with the answer of /api/auth.
GotAuth(p) ==
    /\ call[p].kind = "auth" /\ call[p].step = "answered"
    /\ IF call[p].answer = "ok" THEN Show(p, "app", call[p].id) ELSE Show(p, "login", 0)
    /\ Done(p)
    /\ UNCHANGED <<now, server, cookie, swapped>>

\* doLogin with the answer of /api/login.
GotLogin(p) ==
    /\ call[p].kind = "login" /\ call[p].step = "answered"
    /\ IF call[p].answer = "ok"
       THEN SetCookie(p, call[p].id) /\ Show(p, "app", call[p].id)
       ELSE UNCHANGED <<cookie, swapped, view, csrf>>
    /\ Done(p)
    /\ UNCHANGED <<now, server>>

\* The reply of /api/login breaks off after its headers: the cookie is set,
\* and doLogin, which ignores that it cannot read the body, shows the app
\* without a token.
GotLoginCut(p) ==
    /\ call[p].kind = "login" /\ call[p].step = "answered" /\ call[p].answer = "ok"
    /\ cookie' = [cookie EXCEPT ![browserOf[p]] = call[p].id]
    /\ swapped' = swapped \cup Others(p) \cup {p}
    /\ Show(p, "app", 0)
    /\ Done(p)
    /\ UNCHANGED <<now, server>>

\* The redirect of the callback sets the cookie and loads the page anew.
GotCallback(p) ==
    /\ call[p].kind = "callback" /\ call[p].step = "answered"
    /\ SetCookie(p, call[p].id)
    /\ Show(p, "blank", 0)
    /\ call' = [call EXCEPT ![p] = [NoCall EXCEPT !.kind = "auth", !.step = "sent", !.id = call[p].id]]
    /\ UNCHANGED <<now, server>>

\* 401 shows the login, 403 (a token of another session) and success leave
\* the page as it is.
GotAct(p) ==
    /\ call[p].kind = "act" /\ call[p].step = "answered"
    /\ IF call[p].answer = "unauthorized" THEN Show(p, "login", 0) ELSE UNCHANGED <<view, csrf>>
    /\ Done(p)
    /\ UNCHANGED <<now, server, cookie, swapped>>

\* The reply of /api/logout clears the cookie, whichever the jar has by then.
GotLogout(p) ==
    /\ call[p].kind = "logout" /\ call[p].step = "answered"
    /\ SetCookie(p, 0)
    /\ Show(p, "login", 0)
    /\ Done(p)
    /\ UNCHANGED <<now, server>>

\* A request or its reply is lost: each caller has its catch.  A login
\* keeps its form, a load and a logout show it, an act shows the error.
Lose(p) ==
    /\ call[p].step \in {"sent", "answered"} /\ call[p].kind # "callback"
    /\ IF call[p].kind \in {"auth", "logout"} THEN Show(p, "login", 0) ELSE UNCHANGED <<view, csrf>>
    /\ Done(p)
    /\ UNCHANGED <<now, server, cookie, swapped>>

\* The callback is loaded again while its exchange is under way, or its
\* reply is: the first handler goes on without anyone to answer.
Again(p) ==
    /\ call[p].kind = "callback" /\ call[p].step \in {"working", "answered"}
    /\ working' = {IF w.page = p THEN [w EXCEPT !.live = FALSE] ELSE w : w \in working}
    /\ call' = [call EXCEPT ![p].step = "away", ![p].answer = "none", ![p].id = 0]
    /\ UNCHANGED <<now, sessions, pending, newest, born, used, granted, browserOf, cookie, view, csrf, swapped>>

Tick ==
    /\ now < MaxTime
    /\ now' = now + 1
    /\ UNCHANGED <<server, cookie, view, csrf, call, swapped>>

Next ==
    \/ \E p \in Pages :
          \/ \E kind \in Kinds \ {"callback"} : Send(p, kind)
          \/ ServeRequest(p) \/ ServeLogout(p) \/ ServeLogin(p) \/ RefuseLogin(p)
          \/ BeginLogin(p) \/ Callback(p) \/ TurnedAway(p) \/ Again(p)
          \/ GotAuth(p) \/ GotLogin(p) \/ GotLoginCut(p) \/ GotCallback(p) \/ GotAct(p) \/ GotLogout(p)
          \/ Lose(p)
    \/ \E w \in working : Grant(w) \/ Refuse(w)
    \/ Tick

Spec == Init /\ [][Next]_vars

-----------------------------------------------------------------------------

\* Every variable has its type, and the server has one seat.
TypeOK ==
    /\ now \in 0..MaxTime
    /\ DOMAIN sessions \subseteq {newest}
    /\ \A id \in DOMAIN sessions : sessions[id] \in [created : 0..now, expiry : 0..now + Idle]
    /\ DOMAIN pending \subseteq 1..Len(granted)
    /\ \A l \in DOMAIN pending : pending[l] \in 0..now + PendingTTL
    /\ working \subseteq [login : 1..Len(granted), page : Pages, live : BOOLEAN]
    /\ browserOf \in [Pages -> Browsers] /\ cookie \in [Browsers -> 0..newest]
    /\ view \in [Pages -> {"blank", "login", "app", "error"}]
    /\ csrf \in [Pages -> 0..newest]
    /\ call \in [Pages -> Calls] /\ \A p \in Pages : call[p].id <= newest
    /\ newest \in 0..MaxSessions
    /\ born \in 0..now /\ used \in 0..now
    /\ granted \in Seq(Nat) /\ Len(granted) <= MaxLogins
    /\ swapped \subseteq Pages

\* A page that shows the app, with no request under way, has the token of
\* the session its browser names, and the server still has that session,
\* unless someone signed in later, a time limit has passed, another page
\* of the same browser signed in or out meanwhile, or the reply of its own
\* login broke off.
SignedInWorks ==
    \A p \in Pages \ swapped :
        view[p] = "app" /\ call[p] = NoCall =>
            /\ csrf[p] = Jar(p) /\ Jar(p) # 0
            /\ \/ Jar(p) \in DOMAIN sessions
               \/ Jar(p) < newest
               \/ now > used + Idle
               \/ now > born + MaxAge

\* No request is accepted outside the limits, counted from the login and
\* from the last accepted request, whatever came in between.
ServedInTime ==
    [][newest' = newest /\ used' # used => now <= born + MaxAge /\ now <= used + Idle]_vars

\* A login over OIDC gives one session at most, however often its callback
\* is loaded and while exchanges overlap.
OneSessionPerLogin == \A l \in DOMAIN granted : granted[l] <= 1
=============================================================================
