--------------------------- MODULE ManagerAuthProofs ---------------------------
(***************************************************************************)
(* Theorems about signing in to the manager (ManagerAuth), for any number  *)
(* of pages, browsers, sessions and logins, and any time limits; and, at   *)
(* the end, about the limiter of password attempts (LoginLimiter).         *)
(*                                                                         *)
(* Three invariants, each resting on those before it.  LoginInv follows a  *)
(* login over OIDC: it is open, or in one exchange, or over.  SeatInv says *)
(* what the one session in the store is.  PageInv follows the number of a  *)
(* session from the reply that brings it to the cookie and to the page:    *)
(* the number belongs to one browser, and before the reply is there, to    *)
(* one call.                                                               *)
(***************************************************************************)
EXTENDS ManagerAuth, LoginLimiter, SequenceTheorems, FiniteSetTheorems, TLAPS

-----------------------------------------------------------------------------
(* The invariants. *)

\* An open login has given no session and is in no exchange; an exchange has a
\* login of its own, which has given no session; and a page that waits for an
\* exchange is the page of that one.
OpenInv      == \A l \in DOMAIN pending : granted[l] = 0 /\ \A w \in working : w.login # l
ExchangeInv  == \A w \in working : granted[w.login] = 0
OwnLogin     == \A v, w \in working : v.login = w.login => v = w
Awaited(w)   == /\ call[w.page].kind = "callback" /\ call[w.page].step = "working"
                /\ call[w.page].login = w.login
AwaitedInv   == \A w \in working : w.live => Awaited(w)
LoginInv == OpenInv /\ ExchangeInv /\ OwnLogin /\ AwaitedInv /\ OneSessionPerLogin

\* The session in the store is the newest, created when born says, and good for
\* Idle from its last use.
SeatInv ==
    \A id \in DOMAIN sessions :
        id >= 1 /\ sessions[id].created = born /\ sessions[id].expiry = used + Idle

\* The server still has session id, or has a reason not to.
Kept(id) ==
    \/ id \in DOMAIN sessions
    \/ id < newest
    \/ now > used + Idle
    \/ now > born + MaxAge

\* Browser b has the number of session n in its cookie or in a call.
Has(b, n) == cookie[b] = n \/ \E p \in Pages : browserOf[p] = b /\ call[p].id = n

OneBrowser ==
    \A b, c \in Browsers, n \in 1..newest : Has(b, n) /\ Has(c, n) => b = c

\* A login is answered with a new session.
Signed(p) ==
    /\ call[p].kind \in {"login", "callback"}
    /\ call[p].step = "answered" /\ call[p].answer = "ok"

\* Nobody else knows the session of a reply that has not arrived.
RepliesInv ==
    /\ \A p \in Pages :
          Signed(p) => /\ call[p].id >= 1 /\ Kept(call[p].id)
                       /\ \A q \in Pages \ {p} : call[q].id # call[p].id
                       /\ \A b \in Browsers : cookie[b] # call[p].id
    /\ \A p \in Pages : call[p].kind = "callback" /\ call[p].step = "answered" => call[p].answer = "ok"
    /\ \A p \in Pages : call[p].kind \in {"auth", "login"} /\ call[p].answer = "ok" => call[p].step = "answered"

\* What holds of a page that nobody has interfered with: while it asks whether
\* it has a session, and while it shows the app.
AuthOk(p) ==
    call[p].kind = "auth" =>
        call[p].id = Jar(p) /\ (call[p].answer = "ok" => Jar(p) >= 1 /\ Kept(Jar(p)))

LoggedOut(p) == call[p].kind = "logout" /\ call[p].step = "answered"

AppOk(p) ==
    view[p] = "app" => /\ csrf[p] = Jar(p) /\ Jar(p) >= 1
                       /\ Kept(Jar(p)) \/ LoggedOut(p)

PageOk(p) == AuthOk(p) /\ AppOk(p)

PagesInv == \A p \in Pages \ swapped : PageOk(p)

PageInv == OneBrowser /\ RepliesInv /\ PagesInv

-----------------------------------------------------------------------------
(* Type correctness. *)

LEMMA ZeroType == 0 \in 0..MaxSessions /\ 0 \in 0..MaxLogins
  BY BoundsAssumption

LEMMA NoCallType == NoCall \in Calls
  BY ZeroType DEF NoCall, Calls

\* The calls of the pages: what an answer makes of them.
LEMMA ReplyType ==
    ASSUME TypeOK, NEW p \in Pages, NEW answer \in {"ok", "unauthorized", "forbidden"},
           NEW id \in 0..MaxSessions, Reply(p, answer, id)
    PROVE  /\ call' \in [Pages -> Calls]
           /\ call'[p].kind = call[p].kind /\ call'[p].login = call[p].login
           /\ call'[p].step = "answered" /\ call'[p].answer = answer /\ call'[p].id = id
           /\ \A q \in Pages : q # p => call'[q] = call[q]
<1> DEFINE c == [[[call[p] EXCEPT !.step = "answered"] EXCEPT !.answer = answer] EXCEPT !.id = id]
<1>1. call[p] \in Calls
  BY DEF TypeOK
<1>2. /\ c \in Calls
      /\ c.kind = call[p].kind /\ c.login = call[p].login
      /\ c.step = "answered" /\ c.answer = answer /\ c.id = id
  BY <1>1 DEF Calls, Steps
<1>3. call' = [call EXCEPT ![p] = c]
  BY DEF Reply, TypeOK
<1> HIDE DEF c
<1> QED
  BY <1>2, <1>3 DEF TypeOK

LEMMA ReplyKind ==
    ASSUME TypeOK, NEW p \in Pages, NEW answer, NEW id, Reply(p, answer, id)
    PROVE  call'[p].kind = call[p].kind /\ call'[p].step = "answered" /\ call'[p].answer = answer
<1>1. call[p] \in Calls
  BY DEF TypeOK
<1> QED
  BY <1>1 DEF Reply, TypeOK, Calls

LEMMA DoneType ==
    ASSUME TypeOK, NEW p \in Pages, Done(p)
    PROVE  /\ call' \in [Pages -> Calls] /\ call'[p] = NoCall
           /\ \A q \in Pages : q # p => call'[q] = call[q]
  BY NoCallType DEF Done, TypeOK

LEMMA SendType ==
    ASSUME TypeOK, NEW p \in Pages, NEW kind \in Kinds, Send(p, kind)
    PROVE  /\ call' \in [Pages -> Calls]
           /\ call'[p].kind = kind /\ call'[p].step = "sent" /\ call'[p].answer = "none"
           /\ call'[p].id = IF kind = "login" THEN 0 ELSE Jar(p)
           /\ \A q \in Pages : q # p => call'[q] = call[q]
<1> DEFINE c == Sent(kind, p)
<1>1. Jar(p) \in 0..MaxSessions /\ 0 \in 0..MaxSessions
  BY BoundsAssumption DEF Jar, TypeOK
<1>2. /\ c \in Calls
      /\ c.kind = kind /\ c.step = "sent" /\ c.answer = "none"
      /\ c.id = IF kind = "login" THEN 0 ELSE Jar(p)
  BY <1>1, ZeroType DEF Sent, NoCall, Calls, Steps, Kinds
<1>3. call' = [call EXCEPT ![p] = c]
  BY DEF Send
<1> HIDE DEF c
<1> QED
  BY <1>2, <1>3 DEF TypeOK

LEMMA BeginType ==
    ASSUME TypeOK, NEW p \in Pages, BeginLogin(p)
    PROVE  /\ call' \in [Pages -> Calls]
           /\ call'[p].kind = "callback" /\ call'[p].step = "away" /\ call'[p].answer = "none"
           /\ call'[p].id = 0
           /\ \A q \in Pages : q # p => call'[q] = call[q]
<1> DEFINE c == [NoCall EXCEPT !.kind = "callback", !.step = "away", !.login = Len(granted) + 1]
<1>1. Len(granted) + 1 \in 0..MaxLogins
  BY LenProperties, BoundsAssumption DEF BeginLogin, TypeOK
<1>2. /\ c \in Calls
      /\ c.kind = "callback" /\ c.step = "away" /\ c.answer = "none" /\ c.id = 0
  BY <1>1, ZeroType DEF NoCall, Calls, Steps, Kinds
<1>3. call' = [call EXCEPT ![p] = c]
  BY DEF BeginLogin
<1> HIDE DEF c
<1> QED
  BY <1>2, <1>3 DEF TypeOK

LEMMA WorkingType ==
    ASSUME TypeOK, NEW p \in Pages, call' = [call EXCEPT ![p].step = "working"]
    PROVE  /\ call' \in [Pages -> Calls]
           /\ call'[p].step = "working"
           /\ call'[p].kind = call[p].kind /\ call'[p].login = call[p].login
           /\ call'[p].answer = call[p].answer /\ call'[p].id = call[p].id
           /\ \A q \in Pages : q # p => call'[q] = call[q]
<1> DEFINE c == [call[p] EXCEPT !.step = "working"]
<1>1. call[p] \in Calls
  BY DEF TypeOK
<1>2. /\ c \in Calls /\ c.step = "working"
      /\ c.kind = call[p].kind /\ c.login = call[p].login
      /\ c.answer = call[p].answer /\ c.id = call[p].id
  BY <1>1 DEF Calls, Steps
<1>3. call' = [call EXCEPT ![p] = c]
  BY DEF TypeOK
<1> HIDE DEF c
<1> QED
  BY <1>2, <1>3 DEF TypeOK

LEMMA AgainType ==
    ASSUME TypeOK, NEW p \in Pages, Again(p)
    PROVE  /\ call' \in [Pages -> Calls]
           /\ call'[p].kind = call[p].kind /\ call'[p].login = call[p].login
           /\ call'[p].step = "away" /\ call'[p].answer = "none" /\ call'[p].id = 0
           /\ \A q \in Pages : q # p => call'[q] = call[q]
<1> DEFINE c == [[[call[p] EXCEPT !.step = "away"] EXCEPT !.answer = "none"] EXCEPT !.id = 0]
<1>1. call[p] \in Calls
  BY DEF TypeOK
<1>2. /\ c \in Calls
      /\ c.kind = call[p].kind /\ c.login = call[p].login
      /\ c.step = "away" /\ c.answer = "none" /\ c.id = 0
  BY <1>1, ZeroType DEF Calls, Steps
<1>3. call' = [call EXCEPT ![p] = c]
  BY DEF Again, TypeOK
<1> HIDE DEF c
<1> QED
  BY <1>2, <1>3 DEF TypeOK

LEMMA GotCallbackType ==
    ASSUME TypeOK, NEW p \in Pages, GotCallback(p)
    PROVE  /\ call' \in [Pages -> Calls]
           /\ call'[p].kind = "auth" /\ call'[p].step = "sent" /\ call'[p].answer = "none"
           /\ call'[p].id = call[p].id
           /\ \A q \in Pages : q # p => call'[q] = call[q]
<1> DEFINE c == [NoCall EXCEPT !.kind = "auth", !.step = "sent", !.id = call[p].id]
<1>1. call[p].id \in 0..MaxSessions
  BY DEF TypeOK, Calls
<1>2. /\ c \in Calls
      /\ c.kind = "auth" /\ c.step = "sent" /\ c.answer = "none" /\ c.id = call[p].id
  BY <1>1, ZeroType DEF NoCall, Calls, Steps, Kinds
<1>3. call' = [call EXCEPT ![p] = c]
  BY DEF GotCallback
<1> HIDE DEF c
<1> QED
  BY <1>2, <1>3 DEF TypeOK

LEMMA RefuseType ==
    ASSUME TypeOK, NEW w \in working, Refuse(w)
    PROVE  /\ call' \in [Pages -> Calls] /\ w.page \in Pages
           /\ w.live => call'[w.page] = NoCall
           /\ \A q \in Pages : ~w.live \/ q # w.page => call'[q] = call[q]
<1>1. w.page \in Pages
  BY DEF TypeOK
<1> QED
  <2>1. CASE w.live
    <3>1. call' = [call EXCEPT ![w.page] = NoCall]
      BY <2>1 DEF Refuse
    <3> QED
      BY <1>1, <2>1, <3>1, NoCallType DEF TypeOK
  <2>2. CASE ~w.live
    <3>1. call' = call
      BY <2>2 DEF Refuse
    <3> QED
      BY <1>1, <2>2, <3>1 DEF TypeOK
  <2> QED
    BY <2>1, <2>2

\* The exchanges.
LEMMA ExchangeType ==
    ASSUME TypeOK, NEW w \in working
    PROVE  /\ w = [login |-> w.login, page |-> w.page, live |-> w.live]
           /\ w.login \in 1..Len(granted) /\ w.page \in Pages /\ w.live \in BOOLEAN
           /\ Len(granted) \in Nat /\ DOMAIN granted = 1..Len(granted)
<1>1. w \in [login : 1..Len(granted), page : Pages, live : BOOLEAN]
  BY DEF TypeOK
<1>2. Len(granted) \in Nat /\ DOMAIN granted = 1..Len(granted)
  BY LenProperties DEF TypeOK
<1> QED
  BY <1>1, <1>2

\* The store's part of TypeOK.
StoreType ==
    /\ now \in 0..MaxTime
    /\ DOMAIN sessions \subseteq {newest}
    /\ \A id \in DOMAIN sessions : sessions[id] \in [created : 0..now, expiry : 0..now + Idle]
    /\ newest \in 0..MaxSessions
    /\ born \in 0..now /\ used \in 0..now

\* The part about logins over OIDC.
LoginsType ==
    /\ DOMAIN pending \subseteq 1..Len(granted)
    /\ \A l \in DOMAIN pending : pending[l] \in 0..now + PendingTTL
    /\ working \subseteq [login : 1..Len(granted), page : Pages, live : BOOLEAN]
    /\ granted \in Seq(Nat) /\ Len(granted) <= MaxLogins

\* The browsers' part.
PagesType ==
    /\ browserOf \in [Pages -> Browsers] /\ cookie \in [Browsers -> 0..newest]
    /\ view \in [Pages -> {"blank", "login", "app", "error"}]
    /\ csrf \in [Pages -> 0..newest]
    /\ swapped \subseteq Pages

CallsType == call \in [Pages -> Calls] /\ \A p \in Pages : call[p].id <= newest

LEMMA TypeParts == TypeOK <=> StoreType /\ LoginsType /\ PagesType /\ CallsType
  BY Zenon DEF TypeOK, StoreType, LoginsType, PagesType, CallsType

LEMMA CreateType ==
    ASSUME StoreType, Create, now' = now
    PROVE  StoreType' /\ newest' = newest + 1 /\ newest' \in 1..MaxSessions /\ DOMAIN sessions' = {newest'}
<1>1. /\ newest' = newest + 1 /\ newest' \in 1..MaxSessions
      /\ born' = now /\ used' = now
      /\ now \in 0..now /\ now + Idle \in 0..now + Idle
  BY BoundsAssumption, TimesAssumption DEF Create, StoreType
<1>2. /\ sessions' = Seat(newest')
      /\ DOMAIN Seat(newest') = {newest'}
      /\ Seat(newest')[newest'] = [created |-> now, expiry |-> now + Idle]
  BY DEF Create, Seat
<1> QED
  BY <1>1, <1>2 DEF StoreType

LEMMA ValidateType ==
    ASSUME StoreType, NEW id \in 0..MaxSessions, Validate(id), now' = now
    PROVE  StoreType'
<1>1. CASE Accepts(id)
  <2>1. id \in DOMAIN sessions /\ sessions' = [sessions EXCEPT ![id] = Extended(id)]
    BY <1>1 DEF Accepts, Validate
  <2>2. now + Idle \in 0..now + Idle /\ now \in 0..now
    BY TimesAssumption DEF StoreType
  <2>3. Extended(id) \in [created : 0..now, expiry : 0..now + Idle]
    BY <2>1, <2>2 DEF Extended, StoreType
  <2>4. used' = now /\ UNCHANGED <<newest, born>>
    BY <1>1 DEF Validate
  <2> QED
    BY <2>1, <2>2, <2>3, <2>4 DEF StoreType
<1>2. CASE ~Accepts(id)
  BY <1>2 DEF Validate, Without, StoreType
<1> QED
  BY <1>1, <1>2

LEMMA StoreTypeNext == TypeOK /\ [Next]_vars => StoreType'
<1> SUFFICES ASSUME TypeOK, StoreType, [Next]_vars
             PROVE  StoreType'
  BY TypeParts
<1>1. CASE UNCHANGED <<now, sessions, newest, born, used>>
  BY <1>1 DEF StoreType
<1>2. ASSUME NEW p \in Pages, ServeRequest(p)
      PROVE  StoreType'
  <2>1. call[p].id \in 0..MaxSessions
    BY DEF TypeOK, Calls
  <2> QED
    BY <1>2, <2>1, ValidateType DEF ServeRequest
<1>3. ASSUME NEW p \in Pages, ServeLogout(p)
      PROVE  StoreType'
  BY <1>3 DEF ServeLogout, Without, StoreType
<1>4. ASSUME Create, now' = now
      PROVE  StoreType'
  BY <1>4, CreateType
<1>5. CASE Tick
  BY <1>5, TimesAssumption, BoundsAssumption DEF Tick, server, StoreType
<1> QED
  BY <1>1, <1>2, <1>3, <1>4, <1>5, ZenonT(60)
     DEF Next, vars, server, Send, ServeLogin, RefuseLogin, BeginLogin, Callback, TurnedAway, Again, GotAuth,
         GotLogin, GotLoginCut, GotCallback, GotAct, GotLogout, Lose, Grant, Refuse

LEMMA LoginsTypeNext == TypeOK /\ [Next]_vars => LoginsType'
<1> SUFFICES ASSUME TypeOK, StoreType, LoginsType, [Next]_vars
             PROVE  LoginsType'
  BY TypeParts
<1>1. CASE UNCHANGED <<now, pending, working, granted>>
  BY <1>1 DEF LoginsType
<1>2. ASSUME NEW p \in Pages, BeginLogin(p)
      PROVE  LoginsType'
  <2>1. /\ granted' \in Seq(Nat) /\ Len(granted') = Len(granted) + 1 /\ Len(granted') <= MaxLogins
        /\ Len(granted) \in Nat
    BY <1>2, AppendProperties, LenProperties DEF BeginLogin, LoginsType
  <2>2. pending' = Put(Len(granted) + 1) /\ working' = working /\ now' = now
    BY <1>2 DEF BeginLogin
  <2>3. now + PendingTTL \in 0..now + PendingTTL
    BY TimesAssumption DEF StoreType
  <2>4. /\ DOMAIN pending' \subseteq DOMAIN pending \cup {Len(granted) + 1}
        /\ \A l \in DOMAIN pending' : pending'[l] \in 0..now + PendingTTL
    BY <2>2, <2>3 DEF Put, LoginsType
  <2>5. DOMAIN pending' \subseteq 1..Len(granted')
    BY <2>1, <2>4 DEF LoginsType
  <2>6. working' \subseteq [login : 1..Len(granted'), page : Pages, live : BOOLEAN]
    BY <2>1, <2>2 DEF LoginsType
  <2> QED
    BY <2>1, <2>2, <2>4, <2>5, <2>6 DEF LoginsType
<1>3. ASSUME NEW p \in Pages, Callback(p)
      PROVE  LoginsType'
  <2>1. /\ DOMAIN pending' \subseteq DOMAIN pending
        /\ \A l \in DOMAIN pending' : pending'[l] = pending[l]
        /\ UNCHANGED <<now, granted>>
    BY <1>3 DEF Callback, Taken, Without
  <2>2. CASE call[p].login \in DOMAIN pending /\ now <= pending[call[p].login]
    <3>1. working' = working \cup {[login |-> call[p].login, page |-> p, live |-> TRUE]}
      BY <1>3, <2>2 DEF Callback
    <3>2. call[p].login \in 1..Len(granted)
      BY <2>2 DEF LoginsType
    <3>3. working' \subseteq [login : 1..Len(granted), page : Pages, live : BOOLEAN]
      <4>1. [login |-> call[p].login, page |-> p, live |-> TRUE]
              \in [login : 1..Len(granted), page : Pages, live : BOOLEAN]
        BY <3>2
      <4> QED
        BY <3>1, <4>1, Zenon DEF LoginsType
    <3> QED
      BY <2>1, <3>3 DEF LoginsType
  <2>3. CASE ~(call[p].login \in DOMAIN pending /\ now <= pending[call[p].login])
    BY <1>3, <2>1, <2>3 DEF Callback, LoginsType
  <2> QED
    BY <2>2, <2>3
<1>4. ASSUME NEW w \in working, Grant(w)
      PROVE  LoginsType'
  <2>1. w.login \in 1..Len(granted)
    BY ExchangeType
  <2>2. granted[w.login] \in Nat
    BY <2>1, LenProperties DEF LoginsType
  <2>3. granted' \in Seq(Nat) /\ Len(granted') = Len(granted)
    <3>1. granted[w.login] + 1 \in Nat /\ granted' = [granted EXCEPT ![w.login] = granted[w.login] + 1]
      BY <1>4, <2>2 DEF Grant
    <3> QED
      BY <2>1, <3>1, ExceptSeq DEF LoginsType
  <2> QED
    BY <1>4, <2>3 DEF Grant, LoginsType
<1>5. ASSUME NEW w \in working, Refuse(w)
      PROVE  LoginsType'
  BY <1>5 DEF Refuse, LoginsType
<1>6. ASSUME NEW p \in Pages, Again(p)
      PROVE  LoginsType'
  <2>1. ASSUME NEW w \in working
        PROVE  [w EXCEPT !.live = FALSE] \in [login : 1..Len(granted), page : Pages, live : BOOLEAN]
    BY <2>1 DEF LoginsType
  <2>2. working' \subseteq [login : 1..Len(granted), page : Pages, live : BOOLEAN]
    BY <1>6, <2>1 DEF Again, LoginsType
  <2> QED
    BY <1>6, <2>2 DEF Again, LoginsType
<1>7. CASE Tick
  BY <1>7, TimesAssumption DEF Tick, server, LoginsType, StoreType
<1> QED
  BY <1>1, <1>2, <1>3, <1>4, <1>5, <1>6, <1>7, ZenonT(60)
     DEF Next, vars, server, Send, ServeRequest, Validate, ServeLogout, ServeLogin, RefuseLogin, TurnedAway,
         GotAuth, GotLogin, GotLoginCut, GotCallback, GotAct, GotLogout, Lose

LEMMA NewestGrows ==
    ASSUME StoreType, [Next]_vars
    PROVE  newest \in Nat /\ newest' \in Nat /\ newest' >= newest
<1>1. newest' = newest \/ newest' = newest + 1
  BY ZenonT(60) DEF Next, vars, server, Send, ServeRequest, Validate, ServeLogout, ServeLogin, RefuseLogin,
         BeginLogin,
         Callback, TurnedAway, Again, GotAuth, GotLogin, GotLoginCut, GotCallback, GotAct, GotLogout, Lose, Grant, Refuse,
         Create, Tick
<1> QED
  BY <1>1 DEF StoreType

LEMMA TimeGoesOn ==
    ASSUME StoreType, [Next]_vars
    PROVE  now \in Nat /\ now' \in Nat /\ now' >= now
<1>1. CASE Tick
  BY <1>1 DEF Tick, StoreType
<1>2. CASE now' = now
  BY <1>2 DEF StoreType
<1>3. ASSUME NEW p \in Pages,
             \/ \E kind \in Kinds : Send(p, kind)
             \/ ServeRequest(p) \/ ServeLogout(p) \/ ServeLogin(p) \/ RefuseLogin(p)
             \/ BeginLogin(p) \/ Callback(p) \/ TurnedAway(p) \/ Again(p)
      PROVE  now' = now
  BY <1>3 DEF Send, ServeRequest, ServeLogout, ServeLogin, RefuseLogin, BeginLogin, Callback, TurnedAway, Again
<1>4. ASSUME NEW p \in Pages,
             \/ GotAuth(p) \/ GotLogin(p) \/ GotLoginCut(p) \/ GotCallback(p) \/ GotAct(p) \/ GotLogout(p)
             \/ Lose(p)
      PROVE  now' = now
  BY <1>4 DEF GotAuth, GotLogin, GotLoginCut, GotCallback, GotAct, GotLogout, Lose
<1>5. ASSUME NEW w \in working, Grant(w) \/ Refuse(w)
      PROVE  now' = now
  BY <1>5 DEF Grant, Refuse
<1>6. CASE UNCHANGED vars
  BY <1>2, <1>6 DEF vars
<1> QED
  BY <1>1, <1>2, <1>3, <1>4, <1>5, <1>6 DEF Next

LEMMA CallsTypeNext == TypeOK /\ [Next]_vars => CallsType'
<1> SUFFICES ASSUME TypeOK, StoreType, [Next]_vars
             PROVE  CallsType'
  BY TypeParts
<1>0. /\ newest \in Nat /\ newest' \in Nat /\ newest' >= newest
      /\ call \in [Pages -> Calls]
      /\ \A p \in Pages : call[p].id \in 0..MaxSessions /\ call[p].id <= newest
      /\ \A p \in Pages : Jar(p) \in 0..newest
  BY NewestGrows DEF TypeOK, Calls, Jar
<1>1. CASE UNCHANGED call
  BY <1>0, <1>1 DEF CallsType
<1>2. ASSUME NEW p \in Pages, call' \in [Pages -> Calls],
             call'[p].id <= newest', \A q \in Pages : q # p => call'[q] = call[q]
      PROVE  CallsType'
  <2>1. ASSUME NEW q \in Pages
        PROVE  call'[q].id <= newest'
    <3>1. CASE q = p
      BY <1>2, <3>1
    <3>2. CASE q # p
      <4>1. call'[q].id = call[q].id
        BY <1>2, <3>2
      <4> QED
        BY <1>0, <4>1
    <3> QED
      BY <3>1, <3>2
  <2> QED
    BY <1>2, <2>1 DEF CallsType
<1>3. ASSUME NEW p \in Pages, ServeRequest(p) \/ ServeLogout(p)
      PROVE  CallsType'
  <2>1. /\ call' \in [Pages -> Calls] /\ call'[p].id = call[p].id
        /\ \A q \in Pages : q # p => call'[q] = call[q]
    BY <1>0, <1>3, ReplyType DEF ServeRequest, ServeLogout, Verdict
  <2> QED
    BY <1>0, <1>2, <2>1
<1>4. ASSUME NEW p \in Pages, RefuseLogin(p)
      PROVE  CallsType'
  <2>1. /\ call' \in [Pages -> Calls] /\ call'[p].id = 0
        /\ \A q \in Pages : q # p => call'[q] = call[q]
    BY <1>4, ReplyType, ZeroType DEF RefuseLogin
  <2> QED
    BY <1>0, <1>2, <2>1
<1>5. ASSUME NEW p \in Pages, Create, Reply(p, "ok", newest + 1)
      PROVE  CallsType'
  <2>1. newest + 1 \in 0..MaxSessions /\ newest' = newest + 1
    BY <1>5, BoundsAssumption DEF Create, StoreType
  <2>2. /\ call' \in [Pages -> Calls] /\ call'[p].id = newest + 1
        /\ \A q \in Pages : q # p => call'[q] = call[q]
    BY <1>5, <2>1, ReplyType
  <2> QED
    BY <1>0, <1>2, <2>1, <2>2
<1>6. ASSUME NEW p \in Pages, NEW kind \in Kinds, Send(p, kind)
      PROVE  CallsType'
  <2>1. /\ call' \in [Pages -> Calls] /\ call'[p].id = IF kind = "login" THEN 0 ELSE Jar(p)
        /\ \A q \in Pages : q # p => call'[q] = call[q]
    BY <1>6, SendType
  <2> QED
    BY <1>0, <1>2, <2>1
<1>7. ASSUME NEW p \in Pages, BeginLogin(p) \/ Again(p) \/ GotCallback(p)
      PROVE  CallsType'
  <2>1. /\ call' \in [Pages -> Calls] /\ call'[p].id \in {0, call[p].id}
        /\ \A q \in Pages : q # p => call'[q] = call[q]
    BY <1>7, BeginType, AgainType, GotCallbackType
  <2> QED
    BY <1>0, <1>2, <2>1
<1>8. ASSUME NEW p \in Pages, Done(p)
      PROVE  CallsType'
  <2>1. /\ call' \in [Pages -> Calls] /\ call'[p].id = 0
        /\ \A q \in Pages : q # p => call'[q] = call[q]
    BY <1>8, DoneType DEF NoCall
  <2> QED
    BY <1>0, <1>2, <2>1
<1>9. ASSUME NEW p \in Pages, Callback(p)
      PROVE  CallsType'
  <2>1. CASE Done(p)
    BY <1>8, <2>1
  <2>2. CASE call' = [call EXCEPT ![p].step = "working"]
    <3>1. /\ call' \in [Pages -> Calls] /\ call'[p].id = call[p].id
          /\ \A q \in Pages : q # p => call'[q] = call[q]
      BY <2>2, WorkingType
    <3> QED
      BY <1>0, <1>2, <3>1
  <2> QED
    BY <1>9, <2>1, <2>2 DEF Callback, Done
<1>10. ASSUME NEW w \in working, Grant(w)
       PROVE  CallsType'
  BY <1>1, <1>5, <1>10, ExchangeType DEF Grant
<1>11. ASSUME NEW w \in working, Refuse(w)
       PROVE  CallsType'
  <2>1. CASE w.live
    BY <1>8, <1>11, <2>1, ExchangeType DEF Refuse, Done
  <2>2. CASE ~w.live
    BY <1>1, <1>11, <2>2 DEF Refuse
  <2> QED
    BY <2>1, <2>2
<1> QED
  BY <1>1, <1>3, <1>4, <1>5, <1>6, <1>7, <1>8, <1>9, <1>10, <1>11
     DEF Next, vars, ServeLogin, TurnedAway, Done, GotAuth, GotLogin, GotLoginCut, GotAct, GotLogout, Lose, Tick

LEMMA PagesTypeNext == TypeOK /\ [Next]_vars => PagesType'
<1> SUFFICES ASSUME TypeOK, StoreType, PagesType, [Next]_vars
             PROVE  PagesType'
  BY TypeParts
<1>0. /\ newest \in Nat /\ newest' \in Nat /\ newest' >= newest /\ 0 \in 0..newest
      /\ \A p \in Pages : call[p].id \in 0..newest /\ Others(p) \subseteq Pages
      /\ \A p \in Pages : browserOf[p] \in Browsers
  BY NewestGrows DEF TypeOK, Calls, Others
<1>1. ASSUME /\ cookie' \in [Browsers -> 0..newest]
             /\ view' \in [Pages -> {"blank", "login", "app", "error"}]
             /\ csrf' \in [Pages -> 0..newest]
             /\ swapped' \subseteq Pages
             /\ UNCHANGED browserOf
      PROVE  PagesType'
  <2>1. 0..newest \subseteq 0..newest'
    BY <1>0
  <2>2. cookie' \in [Browsers -> 0..newest'] /\ csrf' \in [Pages -> 0..newest']
    BY <1>1, <2>1
  <2> QED
    BY <1>1, <2>2 DEF PagesType
<1>2. CASE UNCHANGED <<browserOf, cookie, view, csrf, swapped>>
  BY <1>1, <1>2 DEF PagesType
<1>3. ASSUME NEW p \in Pages, NEW v \in {"blank", "login", "app", "error"}, NEW token \in 0..newest,
             Show(p, v, token)
      PROVE  /\ view' \in [Pages -> {"blank", "login", "app", "error"}]
             /\ csrf' \in [Pages -> 0..newest]
  BY <1>3 DEF Show, PagesType
<1>4. ASSUME NEW p \in Pages, NEW id \in 0..newest, cookie' = [cookie EXCEPT ![browserOf[p]] = id]
      PROVE  cookie' \in [Browsers -> 0..newest]
  BY <1>4 DEF PagesType
<1>5. ASSUME NEW p \in Pages, NEW kind \in Kinds, Send(p, kind)
      PROVE  PagesType'
  BY <1>0, <1>1, <1>5 DEF Send, server, PagesType
<1>6. ASSUME NEW p \in Pages, ServeRequest(p) \/ ServeLogout(p) \/ ServeLogin(p) \/ RefuseLogin(p)
      PROVE  PagesType'
  <2>1. swapped' \subseteq Pages /\ UNCHANGED <<browserOf, cookie, view, csrf>>
    BY <1>0, <1>6 DEF ServeRequest, ServeLogout, ServeLogin, RefuseLogin, server, PagesType
  <2> QED
    BY <1>1, <2>1 DEF PagesType
<1>7. ASSUME NEW p \in Pages, BeginLogin(p) \/ Callback(p) \/ TurnedAway(p) \/ Again(p)
      PROVE  PagesType'
  <2>1. /\ UNCHANGED <<browserOf, cookie, csrf, swapped>>
        /\ view' \in {view, [view EXCEPT ![p] = "blank"], [view EXCEPT ![p] = "error"]}
    BY <1>7 DEF BeginLogin, Callback, TurnedAway, Again, server
  <2> QED
    BY <1>1, <2>1 DEF PagesType
<1>8. ASSUME NEW p \in Pages, GotAuth(p) \/ GotAct(p) \/ Lose(p)
      PROVE  PagesType'
  <2>1. /\ view' \in [Pages -> {"blank", "login", "app", "error"}]
        /\ csrf' \in [Pages -> 0..newest]
    BY <1>0, <1>3, <1>8 DEF GotAuth, GotAct, Lose, PagesType
  <2>2. UNCHANGED <<browserOf, cookie, swapped>>
    BY <1>8 DEF GotAuth, GotAct, Lose, server
  <2> QED
    BY <1>1, <2>1, <2>2 DEF PagesType
<1>9. ASSUME NEW p \in Pages, GotLogin(p) \/ GotLoginCut(p) \/ GotCallback(p) \/ GotLogout(p)
      PROVE  PagesType'
  <2>1. /\ view' \in [Pages -> {"blank", "login", "app", "error"}]
        /\ csrf' \in [Pages -> 0..newest]
    BY <1>0, <1>3, <1>9 DEF GotLogin, GotLoginCut, GotCallback, GotLogout, PagesType
  <2>2. /\ cookie' \in [Browsers -> 0..newest] /\ swapped' \subseteq Pages
        /\ UNCHANGED browserOf
    BY <1>0, <1>4, <1>9 DEF GotLogin, GotLoginCut, GotCallback, GotLogout, SetCookie, server, PagesType
  <2> QED
    BY <1>1, <2>1, <2>2 DEF PagesType
<1>10. ASSUME NEW w \in working, Grant(w) \/ Refuse(w)
       PROVE  PagesType'
  <2>1. /\ UNCHANGED <<browserOf, cookie, csrf, swapped>>
        /\ view' \in {view, [view EXCEPT ![w.page] = "error"]}
    BY <1>10 DEF Grant, Refuse
  <2> QED
    BY <1>1, <2>1 DEF PagesType
<1>11. CASE Tick
  BY <1>2, <1>11 DEF Tick, server
<1> QED
  BY <1>2, <1>5, <1>6, <1>7, <1>8, <1>9, <1>10, <1>11 DEF Next, vars

LEMMA TypeInit == Init => TypeOK
<1> SUFFICES ASSUME Init
             PROVE  TypeOK
  OBVIOUS
<1>1. StoreType
  BY BoundsAssumption, TimesAssumption DEF Init, StoreType, Empty
<1>2. LoginsType
  BY EmptySeq, BoundsAssumption DEF Init, LoginsType, Empty
<1>3. PagesType
  BY DEF Init, PagesType
<1>4. CallsType
  BY NoCallType DEF Init, CallsType, NoCall
<1> QED
  BY <1>1, <1>2, <1>3, <1>4, TypeParts

LEMMA TypeNext == TypeOK /\ [Next]_vars => TypeOK'
<1>1. (StoreType /\ LoginsType /\ PagesType /\ CallsType)' => TypeOK'
  BY Zenon DEF TypeOK, StoreType, LoginsType, PagesType, CallsType
<1> QED
  BY <1>1, StoreTypeNext, LoginsTypeNext, PagesTypeNext, CallsTypeNext

\* Every variable of the sign-in keeps its type: one session at most is in the
\* store, and nobody has the number of a session that was not created.
\* Code: auth.go and oidc.go of internal/server/manager.
THEOREM TypeCorrect == Spec => []TypeOK
  BY TypeInit, TypeNext, PTL DEF Spec

-----------------------------------------------------------------------------
(* One session for a login over OIDC. *)

LEMMA LoginInit == Init => LoginInv
  BY DEF Init, LoginInv, OpenInv, ExchangeInv, OwnLogin, AwaitedInv, OneSessionPerLogin, Empty

LEMMA LoginNext == TypeOK /\ LoginInv /\ [Next]_vars => LoginInv'
<1> SUFFICES ASSUME TypeOK, LoginInv, [Next]_vars
             PROVE  LoginInv'
  OBVIOUS
<1>0. /\ Len(granted) \in Nat /\ DOMAIN granted = 1..Len(granted)
      /\ \A w \in working : w.login \in 1..Len(granted) /\ w.page \in Pages
      /\ DOMAIN pending \subseteq 1..Len(granted)
      /\ \A l \in 1..Len(granted) : granted[l] \in Nat
  BY ExchangeType, LenProperties, SMTT(60) DEF TypeOK
\* A call that is not that of an exchange may do what it likes.
<1>1. ASSUME UNCHANGED <<pending, working, granted>>,
             \A q \in Pages : call'[q] = call[q] \/ call[q].kind # "callback" \/ call[q].step # "working"
      PROVE  LoginInv'
  <2>1. ASSUME NEW w \in working, w.live
        PROVE  call'[w.page] = call[w.page]
    BY <1>0, <1>1, <2>1 DEF LoginInv, AwaitedInv, Awaited
  <2>2. AwaitedInv'
    BY <1>1, <2>1 DEF LoginInv, AwaitedInv, Awaited
  <2> QED
    BY <1>1, <2>2 DEF LoginInv, OpenInv, ExchangeInv, OwnLogin, OneSessionPerLogin
<1>2. ASSUME NEW p \in Pages, NEW kind \in Kinds, Send(p, kind)
      PROVE  LoginInv'
  <2>1. UNCHANGED <<pending, working, granted>> /\ call[p].kind # "callback"
    BY <1>2 DEF Send, server, NoCall
  <2> QED
    BY <1>1, <1>2, <2>1, SendType
<1>3. ASSUME NEW p \in Pages, ServeRequest(p) \/ ServeLogout(p) \/ ServeLogin(p) \/ RefuseLogin(p)
      PROVE  LoginInv'
  <2>1. UNCHANGED <<pending, working, granted>> /\ call[p].kind # "callback"
    BY <1>3 DEF ServeRequest, ServeLogout, ServeLogin, RefuseLogin, Validate, server
  <2>2. \A q \in Pages : q # p => call'[q] = call[q]
    BY <1>3 DEF ServeRequest, ServeLogout, ServeLogin, RefuseLogin, Reply, TypeOK
  <2> QED
    BY <1>1, <2>1, <2>2
<1>4. ASSUME NEW p \in Pages, GotAuth(p) \/ GotLogin(p) \/ GotLoginCut(p) \/ GotAct(p) \/ GotLogout(p) \/ Lose(p)
      PROVE  LoginInv'
  <2>1. UNCHANGED <<pending, working, granted>> /\ call[p].kind # "callback" /\ Done(p)
    BY <1>4 DEF GotAuth, GotLogin, GotLoginCut, GotAct, GotLogout, Lose, server
  <2> QED
    BY <1>1, <2>1, DoneType
<1>5. ASSUME NEW p \in Pages, GotCallback(p) \/ TurnedAway(p)
      PROVE  LoginInv'
  <2>1. UNCHANGED <<pending, working, granted>> /\ call[p].step # "working"
    BY <1>5 DEF GotCallback, TurnedAway, server
  <2> QED
    BY <1>1, <1>5, <2>1, GotCallbackType, DoneType DEF TurnedAway, Done
<1>6. ASSUME NEW p \in Pages, BeginLogin(p)
      PROVE  LoginInv'
  <2> DEFINE l == Len(granted) + 1
  <2>1. /\ l \notin 1..Len(granted) /\ Len(granted') = l /\ DOMAIN granted' = 1..l
        /\ \A k \in 1..Len(granted) : granted'[k] = granted[k]
        /\ granted'[l] = 0 /\ 1..l = 1..Len(granted) \cup {l}
    <3>1. granted' = Append(granted, 0) /\ granted \in Seq(Nat)
      BY <1>6 DEF BeginLogin, TypeOK
    <3>2. /\ granted' \in Seq(Nat) /\ Len(granted') = l
          /\ \A k \in 1..Len(granted) : granted'[k] = granted[k]
          /\ granted'[l] = 0
      BY <3>1, AppendProperties
    <3> QED
      BY <1>0, <3>2, LenProperties
  <2>2. working' = working /\ DOMAIN pending' \subseteq DOMAIN pending \cup {l}
    BY <1>6 DEF BeginLogin, Put
  <2> HIDE DEF l
  <2>3. OpenInv'
    BY <1>0, <2>1, <2>2 DEF LoginInv, OpenInv
  <2>4. ExchangeInv' /\ OwnLogin'
    BY <1>0, <2>1, <2>2 DEF LoginInv, ExchangeInv, OwnLogin
  <2>5. AwaitedInv'
    <3>1. call[p].step # "working" /\ \A q \in Pages : q # p => call'[q] = call[q]
      BY <1>6, BeginType DEF BeginLogin, NoCall
    <3> QED
      BY <1>0, <2>2, <3>1 DEF LoginInv, AwaitedInv, Awaited
  <2>6. OneSessionPerLogin'
    BY <1>0, <2>1 DEF LoginInv, OneSessionPerLogin
  <2> QED
    BY <2>3, <2>4, <2>5, <2>6 DEF LoginInv
<1>7. ASSUME NEW p \in Pages, Callback(p)
      PROVE  LoginInv'
  <2> DEFINE l == call[p].login
             v == [login |-> l, page |-> p, live |-> TRUE]
  <2>1. /\ UNCHANGED granted
        /\ DOMAIN pending' = DOMAIN pending \ {l}
        /\ call[p].kind = "callback" /\ call[p].step = "away"
    BY <1>7 DEF Callback, Taken, Without
  <2>2. ASSUME NEW w \in working, w.live
        PROVE  w.page # p
    BY <2>1, <2>2 DEF LoginInv, AwaitedInv, Awaited
  <2>3. CASE l \in DOMAIN pending /\ now <= pending[l]
    <3>1. /\ working' = working \cup {v} /\ v.login = l /\ v.page = p
          /\ call' = [call EXCEPT ![p].step = "working"]
      BY <1>7, <2>3 DEF Callback
    <3>2. /\ call'[p].step = "working" /\ call'[p].kind = "callback" /\ call'[p].login = l
          /\ \A q \in Pages : q # p => call'[q] = call[q]
      BY <2>1, <3>1, WorkingType
    <3> HIDE DEF l, v
    <3>3. OpenInv'
      BY <2>1, <3>1 DEF LoginInv, OpenInv
    <3>4. ExchangeInv' /\ OwnLogin'
      BY <2>1, <2>3, <3>1 DEF LoginInv, OpenInv, ExchangeInv, OwnLogin
    <3>5. AwaitedInv'
      BY <1>0, <2>2, <3>1, <3>2 DEF LoginInv, AwaitedInv, Awaited
    <3> QED
      BY <2>1, <3>3, <3>4, <3>5 DEF LoginInv, OneSessionPerLogin
  <2>4. CASE ~(l \in DOMAIN pending /\ now <= pending[l])
    <3>1. working' = working /\ Done(p)
      BY <1>7, <2>4 DEF Callback, Done
    <3>2. \A q \in Pages : q # p => call'[q] = call[q]
      BY <3>1, DoneType
    <3>3. OpenInv'
      BY <2>1, <3>1 DEF LoginInv, OpenInv
    <3>4. ExchangeInv' /\ OwnLogin'
      BY <2>1, <3>1 DEF LoginInv, ExchangeInv, OwnLogin
    <3>5. AwaitedInv'
      BY <1>0, <2>2, <3>1, <3>2 DEF LoginInv, AwaitedInv, Awaited
    <3> QED
      BY <2>1, <3>3, <3>4, <3>5 DEF LoginInv, OneSessionPerLogin
  <2> QED
    BY <2>3, <2>4
<1>8. ASSUME NEW p \in Pages, Again(p)
      PROVE  LoginInv'
  <2>1. /\ UNCHANGED <<granted, pending>>
        /\ working' = {IF w.page = p THEN [w EXCEPT !.live = FALSE] ELSE w : w \in working}
    BY <1>8 DEF Again
  <2>2. ASSUME NEW w \in working'
        PROVE  \E v \in working : /\ w.login = v.login /\ w.page = v.page
                                  /\ w = IF v.page = p THEN [v EXCEPT !.live = FALSE] ELSE v
                                  /\ w.live => w = v /\ v.page # p
    <3>1. PICK v \in working : w = IF v.page = p THEN [v EXCEPT !.live = FALSE] ELSE v
      BY <2>1, <2>2
    <3>2. /\ v = [login |-> v.login, page |-> v.page, live |-> v.live]
      BY ExchangeType
    <3>3. CASE v.page = p
      <4>1. w = [login |-> v.login, page |-> v.page, live |-> FALSE]
        BY <3>1, <3>2, <3>3
      <4> QED
        BY <3>1, <4>1
    <3>4. CASE v.page # p
      BY <3>1, <3>4
    <3> QED
      BY <3>3, <3>4
  <2>3. \A q \in Pages : q # p => call'[q] = call[q]
    BY <1>8, AgainType
  <2>4. OpenInv' /\ ExchangeInv'
    BY <2>1, <2>2 DEF LoginInv, OpenInv, ExchangeInv
  <2>5. OwnLogin'
    <3> SUFFICES ASSUME NEW v \in working', NEW w \in working', v.login = w.login
                 PROVE  v = w
      BY DEF OwnLogin
    <3>1. PICK x \in working : v.login = x.login /\ v = IF x.page = p THEN [x EXCEPT !.live = FALSE] ELSE x
      BY <2>2
    <3>2. PICK y \in working : w.login = y.login /\ w = IF y.page = p THEN [y EXCEPT !.live = FALSE] ELSE y
      BY <2>2
    <3>3. x = y
      BY <3>1, <3>2 DEF LoginInv, OwnLogin
    <3> QED
      BY <3>1, <3>2, <3>3
  <2>6. AwaitedInv'
    BY <1>0, <2>2, <2>3 DEF LoginInv, AwaitedInv, Awaited
  <2> QED
    BY <2>1, <2>4, <2>5, <2>6 DEF LoginInv, OneSessionPerLogin
<1>9. ASSUME NEW w \in working, Grant(w)
      PROVE  LoginInv'
  <2>1. /\ UNCHANGED pending /\ working' = working \ {w}
        /\ granted' = [granted EXCEPT ![w.login] = @ + 1]
    BY <1>9 DEF Grant
  <2>2. /\ DOMAIN granted' = DOMAIN granted /\ granted'[w.login] = 1
        /\ \A l \in DOMAIN granted : l # w.login => granted'[l] = granted[l]
    BY <1>0, <2>1 DEF LoginInv, ExchangeInv
  <2>3. \A v \in working' : v \in working /\ v.login # w.login
    BY <2>1 DEF LoginInv, OwnLogin
  <2>4. OpenInv'
    BY <1>0, <2>1, <2>2, <2>3 DEF LoginInv, OpenInv
  <2>5. ExchangeInv' /\ OwnLogin'
    BY <1>0, <2>2, <2>3 DEF LoginInv, ExchangeInv, OwnLogin
  <2>6. AwaitedInv'
    <3>1. CASE w.live
      <4>1. \A q \in Pages : q # w.page => call'[q] = call[q]
        BY <1>9, <3>1 DEF Grant, Reply, TypeOK
      <4>2. \A v \in working' : v.live => v.page # w.page
        BY <2>3, <3>1 DEF LoginInv, AwaitedInv, Awaited
      <4> QED
        BY <1>0, <2>3, <4>1, <4>2 DEF LoginInv, AwaitedInv, Awaited
    <3>2. CASE ~w.live
      BY <1>9, <2>3, <3>2 DEF Grant, LoginInv, AwaitedInv, Awaited
    <3> QED
      BY <3>1, <3>2
  <2>7. OneSessionPerLogin'
    BY <2>2 DEF LoginInv, OneSessionPerLogin
  <2> QED
    BY <2>4, <2>5, <2>6, <2>7 DEF LoginInv
<1>10. ASSUME NEW w \in working, Refuse(w)
       PROVE  LoginInv'
  <2>1. UNCHANGED <<pending, granted>> /\ working' = working \ {w}
    BY <1>10 DEF Refuse
  <2>2. \A v \in working' : v \in working /\ v.login # w.login
    BY <2>1 DEF LoginInv, OwnLogin
  <2>3. OpenInv' /\ ExchangeInv' /\ OwnLogin'
    BY <2>1, <2>2 DEF LoginInv, OpenInv, ExchangeInv, OwnLogin
  <2>4. AwaitedInv'
    <3>1. \A v \in working' : v.live /\ w.live => v.page # w.page
      BY <2>2 DEF LoginInv, AwaitedInv, Awaited
    <3>2. \A q \in Pages : ~w.live \/ q # w.page => call'[q] = call[q]
      BY <1>10, RefuseType
    <3> QED
      BY <1>0, <2>2, <3>1, <3>2 DEF LoginInv, AwaitedInv, Awaited
  <2> QED
    BY <2>1, <2>3, <2>4 DEF LoginInv, OneSessionPerLogin
<1>11. CASE Tick \/ UNCHANGED vars
  BY <1>1, <1>11 DEF Tick, vars, server
<1> QED
  BY <1>2, <1>3, <1>4, <1>5, <1>6, <1>7, <1>8, <1>9, <1>10, <1>11 DEF Next

\* A login over OIDC gives one session at most, however often its callback is
\* loaded and while exchanges overlap.
\* Code: oidcPendingStore.take and handleOIDCCallback in oidc.go.
THEOREM LoginUsedOnce == Spec => []OneSessionPerLogin
<1>1. Init => TypeOK /\ LoginInv
  BY TypeInit, LoginInit
<1>2. TypeOK /\ LoginInv /\ [Next]_vars => (TypeOK /\ LoginInv)'
  BY TypeNext, LoginNext
<1>3. LoginInv => OneSessionPerLogin
  BY DEF LoginInv
<1> QED
  BY <1>1, <1>2, <1>3, PTL DEF Spec

-----------------------------------------------------------------------------
(* The one seat and its limits. *)

\* What the requests do to the store: a new session, a use within the limits,
\* the removal of some session, or nothing.
LEMMA StoreStep ==
    ASSUME TypeOK, SeatInv, [Next]_vars
    PROVE  \/ UNCHANGED <<sessions, newest, born, used>>
           \/ Create /\ now' = now
           \/ /\ \E p \in Pages : ServeRequest(p) \/ ServeLogout(p)
              /\ DOMAIN sessions' \subseteq DOMAIN sessions
              /\ \A id \in DOMAIN sessions' : sessions'[id] = sessions[id]
              /\ UNCHANGED <<now, newest, born, used>>
           \/ /\ \E p \in Pages : ServeRequest(p)
              /\ newest \in DOMAIN sessions /\ DOMAIN sessions' = {newest}
              /\ now <= used + Idle /\ now <= born + MaxAge
              /\ sessions'[newest].created = born /\ sessions'[newest].expiry = now + Idle
              /\ used' = now /\ UNCHANGED <<now, newest, born>>
<1>1. ASSUME NEW p \in Pages, ServeRequest(p), Accepts(call[p].id)
      PROVE  /\ newest \in DOMAIN sessions /\ DOMAIN sessions' = {newest}
             /\ now <= used + Idle /\ now <= born + MaxAge
             /\ sessions'[newest].created = born /\ sessions'[newest].expiry = now + Idle
             /\ used' = now /\ UNCHANGED <<now, newest, born>>
  <2>1. call[p].id = newest /\ newest \in DOMAIN sessions /\ DOMAIN sessions = {newest} /\ ~Over(newest)
    BY <1>1 DEF Accepts, TypeOK
  <2>2. sessions[newest].created = born /\ sessions[newest].expiry = used + Idle
    BY <2>1 DEF SeatInv
  <2>3. now <= used + Idle /\ now <= born + MaxAge
    BY <2>1, <2>2, TimesAssumption DEF Over, TypeOK
  <2>4. /\ sessions' = [sessions EXCEPT ![newest] = [sessions[newest] EXCEPT !.expiry = now + Idle]]
        /\ used' = now /\ UNCHANGED <<now, newest, born>>
    BY <1>1, <2>1 DEF ServeRequest, Validate, Extended
  <2>5. sessions[newest] \in [created : 0..now, expiry : 0..now + Idle]
    BY <2>1 DEF TypeOK
  <2>6. sessions'[newest] = [sessions[newest] EXCEPT !.expiry = now + Idle] /\ DOMAIN sessions' = {newest}
    BY <2>1, <2>4
  <2>7. sessions'[newest].created = born /\ sessions'[newest].expiry = now + Idle
    BY <2>2, <2>5, <2>6
  <2> QED
    BY <2>1, <2>3, <2>4, <2>6, <2>7
<1>2. ASSUME NEW p \in Pages, ServeLogout(p) \/ (ServeRequest(p) /\ ~Accepts(call[p].id))
      PROVE  /\ DOMAIN sessions' \subseteq DOMAIN sessions
             /\ \A id \in DOMAIN sessions' : sessions'[id] = sessions[id]
             /\ UNCHANGED <<now, newest, born, used>>
  <2>1. sessions' = Without(sessions, call[p].id) /\ UNCHANGED <<now, newest, born, used>>
    BY <1>2 DEF ServeLogout, ServeRequest, Validate
  <2>2. /\ DOMAIN sessions' = DOMAIN sessions \ {call[p].id}
        /\ \A id \in DOMAIN sessions \ {call[p].id} : sessions'[id] = sessions[id]
    BY <2>1 DEF Without
  <2>3. DOMAIN sessions' \subseteq DOMAIN sessions
    BY <2>2
  <2>4. \A id \in DOMAIN sessions' : sessions'[id] = sessions[id]
    BY <2>2
  <2> QED
    BY <2>1, <2>3, <2>4
<1>3. CASE \E p \in Pages : ServeRequest(p) \/ ServeLogout(p)
  <2>1. PICK p \in Pages : ServeRequest(p) \/ ServeLogout(p)
    BY <1>3
  <2>2. CASE ServeRequest(p) /\ Accepts(call[p].id)
    BY <1>1, <2>2
  <2>3. CASE ServeLogout(p) \/ (ServeRequest(p) /\ ~Accepts(call[p].id))
    BY <1>2, <1>3, <2>3
  <2> QED
    BY <2>1, <2>2, <2>3
<1>4. CASE ~\E p \in Pages : ServeRequest(p) \/ ServeLogout(p)
  <2>1. ASSUME NEW p \in Pages, NEW kind \in Kinds, Send(p, kind)
        PROVE  UNCHANGED <<sessions, newest, born, used>>
    BY <2>1 DEF Send, server
  <2>2. ASSUME NEW p \in Pages,
               \/ RefuseLogin(p) \/ BeginLogin(p) \/ Callback(p) \/ TurnedAway(p) \/ Again(p)
               \/ GotAuth(p) \/ GotLogin(p) \/ GotLoginCut(p) \/ GotCallback(p)
               \/ GotAct(p) \/ GotLogout(p) \/ Lose(p)
        PROVE  UNCHANGED <<sessions, newest, born, used>>
    BY <2>2 DEF server, RefuseLogin, BeginLogin, Callback, TurnedAway, Again, GotAuth,
           GotLogin, GotLoginCut, GotCallback, GotAct, GotLogout, Lose
  <2>3. ASSUME NEW p \in Pages, ServeLogin(p)
        PROVE  Create /\ now' = now
    BY <2>3 DEF ServeLogin
  <2>4. ASSUME NEW w \in working, Grant(w)
        PROVE  Create /\ now' = now
    BY <2>4 DEF Grant
  <2>5. ASSUME NEW w \in working, Refuse(w)
        PROVE  UNCHANGED <<sessions, newest, born, used>>
    BY <2>5 DEF Refuse
  <2>6. CASE Tick \/ UNCHANGED vars
    BY <2>6 DEF Tick, server, vars
  <2> QED
    BY <1>4, <2>1, <2>2, <2>3, <2>4, <2>5, <2>6 DEF Next
<1> QED
  BY <1>3, <1>4

LEMMA SeatNext == TypeOK /\ SeatInv /\ [Next]_vars => SeatInv'
<1> SUFFICES ASSUME TypeOK, SeatInv, [Next]_vars
             PROVE  SeatInv'
  OBVIOUS
<1>1. CASE UNCHANGED <<sessions, newest, born, used>>
  BY <1>1 DEF SeatInv
<1>2. CASE Create /\ now' = now
  <2>1. newest' = newest + 1 /\ newest' >= 1 /\ born' = now /\ used' = now
    BY <1>2 DEF Create, TypeOK
  <2>2. /\ DOMAIN sessions' = {newest'}
        /\ sessions'[newest'] = [created |-> now, expiry |-> now + Idle]
    BY <1>2, <2>1 DEF Create, Seat
  <2> QED
    BY <2>1, <2>2 DEF SeatInv
<1>3. CASE /\ DOMAIN sessions' \subseteq DOMAIN sessions
           /\ \A id \in DOMAIN sessions' : sessions'[id] = sessions[id]
           /\ UNCHANGED <<now, newest, born, used>>
  BY <1>3 DEF SeatInv
<1>4. CASE /\ newest \in DOMAIN sessions /\ DOMAIN sessions' = {newest}
           /\ sessions'[newest].created = born /\ sessions'[newest].expiry = now + Idle
           /\ used' = now /\ UNCHANGED <<now, newest, born>>
  BY <1>4 DEF SeatInv
<1> QED
  BY <1>1, <1>2, <1>3, <1>4, StoreStep

LEMMA SeatAlways == Spec => [](TypeOK /\ SeatInv)
<1>1. Init => TypeOK /\ SeatInv
  BY TypeInit DEF Init, SeatInv, Empty
<1>2. TypeOK /\ SeatInv /\ [Next]_vars => (TypeOK /\ SeatInv)'
  BY TypeNext, SeatNext
<1> QED
  BY <1>1, <1>2, PTL DEF Spec

\* No request is accepted outside the limits, counted from the login and from
\* the last accepted request.
\* Code: sessionStore.valid in auth.go.
THEOREM AcceptedInTime == Spec => ServedInTime
<1>1. TypeOK /\ SeatInv /\ [Next]_vars
        => (newest' = newest /\ used' # used => now <= born + MaxAge /\ now <= used + Idle)
  <2> SUFFICES ASSUME TypeOK, SeatInv, [Next]_vars, newest' = newest, used' # used
               PROVE  now <= born + MaxAge /\ now <= used + Idle
    OBVIOUS
  <2>1. ~Create
    BY DEF Create, TypeOK
  <2> QED
    BY <2>1, StoreStep
<1> QED
  BY <1>1, SeatAlways, PTL DEF Spec, ServedInTime

-----------------------------------------------------------------------------
(* A page that shows the app has a session. *)

\* Only a logout takes a session without a reason.
LEMMA KeptStays ==
    ASSUME TypeOK, SeatInv, [Next]_vars, NEW id \in 0..newest, Kept(id)
    PROVE  \/ Kept(id)'
           \/ \E p \in Pages : ServeLogout(p) /\ call[p].id = id /\ id \in DOMAIN sessions
<1>0. /\ newest \in Nat /\ now \in Nat /\ born \in Nat /\ used \in Nat
      /\ DOMAIN sessions \subseteq {newest}
  BY DEF TypeOK
<1>1. CASE id < newest
  BY <1>0, <1>1, NewestGrows, TypeParts DEF Kept
<1>2. CASE id = newest /\ UNCHANGED <<sessions, newest, born, used>>
  <2>1. now' \in Nat /\ now' >= now
    BY TimeGoesOn, TypeParts
  <2> QED
    BY <1>0, <1>2, <2>1, TimesAssumption DEF Kept
<1>3. CASE Create
  BY <1>0, <1>3 DEF Create, Kept, Seat
<1>4. ASSUME NEW p \in Pages, ServeLogout(p)
      PROVE  \/ Kept(id)'
             \/ \E q \in Pages : ServeLogout(q) /\ call[q].id = id /\ id \in DOMAIN sessions
  <2>1. /\ DOMAIN sessions' = DOMAIN sessions \ {call[p].id}
        /\ UNCHANGED <<now, newest, born, used>>
    BY <1>4 DEF ServeLogout, Without
  <2> QED
    BY <1>4, <2>1 DEF Kept
<1>5. ASSUME NEW p \in Pages, ServeRequest(p)
      PROVE  Kept(id)'
  <2>1. CASE Accepts(call[p].id)
    BY <1>0, <1>1, <1>5, <2>1, NewestGrows, TypeParts DEF ServeRequest, Validate, Accepts, Kept
  <2>2. CASE ~Accepts(call[p].id)
    <3>1. /\ DOMAIN sessions' = DOMAIN sessions \ {call[p].id}
          /\ UNCHANGED <<now, newest, born, used>>
      BY <1>5, <2>2 DEF ServeRequest, Validate, Without
    <3>2. CASE id \in DOMAIN sessions /\ call[p].id = id
      <4>1. now > sessions[id].created + MaxAge \/ now > sessions[id].expiry
        BY <2>2, <3>2 DEF Accepts, Over
      <4>2. sessions[id].created = born /\ sessions[id].expiry = used + Idle
        BY <3>2 DEF SeatInv
      <4> QED
        BY <3>1, <4>1, <4>2 DEF Kept
    <3> QED
      BY <3>1, <3>2 DEF Kept
  <2> QED
    BY <2>1, <2>2
<1>6. id = newest \/ id < newest
  BY <1>0
<1> QED
  BY <1>1, <1>2, <1>3, <1>4, <1>5, <1>6, StoreStep

\* What a step of p leaves another page.
PageSame(q) ==
    /\ view'[q] = view[q] /\ csrf'[q] = csrf[q] /\ call'[q] = call[q]
    /\ q \in swapped => q \in swapped'
    /\ q \notin swapped' => cookie'[browserOf[q]] = cookie[browserOf[q]]

Turn(p) ==
    /\ browserOf' = browserOf
    /\ \A q \in Pages \ {p} : PageSame(q)
    /\ \A b \in Browsers : \/ cookie'[b] \in {0, cookie[b]}
                           \/ b = browserOf[p] /\ cookie'[b] = call[p].id

\* A step that leaves the cookies alone.
LEMMA PlainTurn ==
    ASSUME TypeOK, NEW p \in Pages, UNCHANGED <<browserOf, cookie>>,
           \A q \in Pages \ {p} : view'[q] = view[q] /\ csrf'[q] = csrf[q] /\ call'[q] = call[q],
           \A q \in Pages \ {p} : q \in swapped => q \in swapped'
    PROVE  Turn(p)
  BY DEF Turn, PageSame

\* A step of p that sets the cookie.
LEMMA CookieTurn ==
    ASSUME TypeOK, NEW p \in Pages, NEW id \in {0, call[p].id}, UNCHANGED browserOf,
           cookie' = [cookie EXCEPT ![browserOf[p]] = id],
           swapped' \in {(swapped \cup Others(p)) \ {p}, swapped \cup Others(p) \cup {p}},
           \A q \in Pages \ {p} : view'[q] = view[q] /\ csrf'[q] = csrf[q] /\ call'[q] = call[q]
    PROVE  Turn(p)
<1>1. \A q \in Pages \ {p} : q \in swapped => q \in swapped'
  OBVIOUS
<1>2. ASSUME NEW q \in Pages \ {p}, q \notin swapped'
      PROVE  cookie'[browserOf[q]] = cookie[browserOf[q]]
  <2>1. browserOf[q] # browserOf[p] /\ browserOf[q] \in Browsers /\ browserOf[p] \in Browsers
    BY <1>2 DEF Others, TypeOK
  <2> QED
    BY <2>1 DEF TypeOK
<1>3. ASSUME NEW b \in Browsers
      PROVE  cookie'[b] \in {0, cookie[b]} \/ (b = browserOf[p] /\ cookie'[b] = call[p].id)
  BY DEF TypeOK
<1> QED
  BY <1>1, <1>2, <1>3 DEF Turn, PageSame

\* Every step is the turn of one page, or of none.
LEMMA StepIsTurn ==
    ASSUME TypeOK, NEW p \in Pages
    PROVE  /\ \A kind \in Kinds : Send(p, kind) => Turn(p)
           /\ ServeRequest(p) \/ ServeLogout(p) \/ ServeLogin(p) \/ RefuseLogin(p) => Turn(p)
           /\ BeginLogin(p) \/ Callback(p) \/ TurnedAway(p) \/ Again(p) => Turn(p)
           /\ GotAuth(p) \/ GotAct(p) \/ Lose(p) => Turn(p)
           /\ GotLogin(p) \/ GotLoginCut(p) \/ GotCallback(p) \/ GotLogout(p) => Turn(p)
           /\ \A w \in working : w.page = p /\ (Grant(w) \/ Refuse(w)) => Turn(p)
<1>1. ASSUME NEW kind \in Kinds, Send(p, kind)
      PROVE  Turn(p)
  <2>1. \A q \in Pages \ {p} : view'[q] = view[q] /\ csrf'[q] = csrf[q] /\ (q \in swapped => q \in swapped')
    BY <1>1 DEF Send, TypeOK
  <2>2. UNCHANGED <<browserOf, cookie>>
    BY <1>1 DEF Send, server
  <2> QED
    BY <1>1, <2>1, <2>2, SendType, PlainTurn
<1>2. ASSUME ServeRequest(p) \/ ServeLogout(p) \/ ServeLogin(p) \/ RefuseLogin(p)
      PROVE  Turn(p)
  <2>1. /\ UNCHANGED <<browserOf, cookie, view, csrf>>
        /\ \A q \in Pages \ {p} : q \in swapped => q \in swapped'
    BY <1>2 DEF ServeRequest, ServeLogout, ServeLogin, RefuseLogin, server
  <2>2. \A q \in Pages \ {p} : call'[q] = call[q]
    BY <1>2 DEF ServeRequest, ServeLogout, ServeLogin, RefuseLogin, Reply, TypeOK
  <2> QED
    BY <2>1, <2>2, PlainTurn
<1>3. ASSUME BeginLogin(p) \/ Callback(p) \/ TurnedAway(p) \/ Again(p)
      PROVE  Turn(p)
  <2>1. UNCHANGED <<browserOf, cookie, csrf, swapped>>
    BY <1>3 DEF BeginLogin, Callback, TurnedAway, Again, server
  <2>2. \A q \in Pages \ {p} : view'[q] = view[q]
    BY <1>3 DEF BeginLogin, Callback, TurnedAway, Again, TypeOK
  <2>3. \A q \in Pages \ {p} : call'[q] = call[q]
    BY <1>3 DEF BeginLogin, Callback, TurnedAway, Again, TypeOK
  <2> QED
    BY <2>1, <2>2, <2>3, PlainTurn
<1>4. ASSUME GotAuth(p) \/ GotAct(p) \/ Lose(p)
      PROVE  Turn(p)
  <2>1. UNCHANGED <<browserOf, cookie, swapped>> /\ Done(p)
    BY <1>4 DEF GotAuth, GotAct, Lose, server
  <2>2. \A q \in Pages \ {p} : view'[q] = view[q] /\ csrf'[q] = csrf[q]
    BY <1>4 DEF GotAuth, GotAct, Lose, Show, TypeOK
  <2> QED
    BY <2>1, <2>2, DoneType, PlainTurn
<1>5. ASSUME GotLogin(p) \/ GotLoginCut(p) \/ GotCallback(p) \/ GotLogout(p)
      PROVE  Turn(p)
  <2>1. \A q \in Pages \ {p} : view'[q] = view[q] /\ csrf'[q] = csrf[q]
    BY <1>5 DEF GotLogin, GotLoginCut, GotCallback, GotLogout, Show, TypeOK
  <2>2. UNCHANGED browserOf /\ \A q \in Pages \ {p} : call'[q] = call[q]
    BY <1>5, DoneType, GotCallbackType DEF GotLogin, GotLoginCut, GotCallback, GotLogout, server
  <2>3. CASE UNCHANGED <<cookie, swapped>>
    BY <2>1, <2>2, <2>3, PlainTurn
  <2>4. CASE ~UNCHANGED <<cookie, swapped>>
    <3>1. PICK id \in {0, call[p].id} :
             /\ cookie' = [cookie EXCEPT ![browserOf[p]] = id]
             /\ swapped' \in {(swapped \cup Others(p)) \ {p}, swapped \cup Others(p) \cup {p}}
      BY <1>5, <2>4 DEF GotLogin, GotLoginCut, GotCallback, GotLogout, SetCookie
    <3> QED
      BY <2>1, <2>2, <3>1, CookieTurn
  <2> QED
    BY <2>3, <2>4
<1>6. ASSUME NEW w \in working, w.page = p, Grant(w) \/ Refuse(w)
      PROVE  Turn(p)
  <2>1. UNCHANGED <<browserOf, cookie, csrf, swapped>>
    BY <1>6 DEF Grant, Refuse
  <2>2. \A q \in Pages \ {p} : view'[q] = view[q]
    BY <1>6 DEF Grant, Refuse, TypeOK
  <2>3. \A q \in Pages \ {p} : call'[q] = call[q]
    BY <1>6 DEF Grant, Refuse, Reply, TypeOK
  <2> QED
    BY <2>1, <2>2, <2>3, PlainTurn
<1> QED
  BY <1>1, <1>2, <1>3, <1>4, <1>5, <1>6

\* The turns, by name.
PageStep(p) ==
    \/ \E kind \in Kinds \ {"callback"} : Send(p, kind)
    \/ ServeRequest(p) \/ ServeLogout(p) \/ ServeLogin(p) \/ RefuseLogin(p)
    \/ BeginLogin(p) \/ Callback(p) \/ TurnedAway(p) \/ Again(p)
    \/ GotAuth(p) \/ GotLogin(p) \/ GotLoginCut(p) \/ GotCallback(p) \/ GotAct(p) \/ GotLogout(p)
    \/ Lose(p)
    \/ \E w \in working : w.page = p /\ (Grant(w) \/ Refuse(w))

LEMMA NextIsTurn ==
    ASSUME TypeOK, [Next]_vars
    PROVE  (\E p \in Pages : PageStep(p)) \/ Tick \/ UNCHANGED vars
<1>1. \A w \in working : w.page \in Pages
  BY ExchangeType
<1> QED
  BY <1>1, Zenon DEF Next, PageStep

LEMMA PageStepIsTurn ==
    ASSUME TypeOK, NEW p \in Pages, PageStep(p)
    PROVE  Turn(p)
  BY StepIsTurn DEF PageStep

\* A page that is not on turn cannot be logged out.
LEMMA LogoutAt ==
    ASSUME TypeOK, NEW p \in Pages, Turn(p), NEW x \in Pages, ServeLogout(x)
    PROVE  x = p
<1>1. call[x].step = "sent" /\ call'[x].step = "answered"
  BY ReplyType DEF ServeLogout, TypeOK, Calls
<1> QED
  BY <1>1 DEF Turn, PageSame

LEMMA KeptAt ==
    ASSUME TypeOK, SeatInv, [Next]_vars, NEW p \in Pages, Turn(p), NEW id \in 0..newest, Kept(id)
    PROVE  Kept(id)' \/ (ServeLogout(p) /\ call[p].id = id /\ id \in DOMAIN sessions)
  BY KeptStays, LogoutAt

\* The numbers that a page on turn has or comes by.
LEMMA IdStep ==
    ASSUME TypeOK, NEW p \in Pages, PageStep(p)
    PROVE  call'[p].id \in {0, call[p].id, Jar(p), newest + 1}
<1>0. newest \in Nat /\ newest + 1 \in Nat
  BY DEF TypeOK
<1>1. ASSUME NEW kind \in Kinds, Send(p, kind)
      PROVE  call'[p].id \in {0, Jar(p)}
  BY <1>1, SendType
<1>2. ASSUME ServeRequest(p) \/ ServeLogout(p) \/ RefuseLogin(p)
      PROVE  call'[p].id \in {0, call[p].id}
  <2>1. call[p] \in Calls
    BY DEF TypeOK
  <2> QED
    BY <1>2, <2>1 DEF ServeRequest, ServeLogout, RefuseLogin, Reply, TypeOK, Calls
<1>3. ASSUME ServeLogin(p)
      PROVE  call'[p].id = newest + 1
  BY <1>3 DEF ServeLogin, Reply, TypeOK, Calls
<1>4. ASSUME BeginLogin(p) \/ Again(p)
      PROVE  call'[p].id = 0
  BY <1>4, BeginType, AgainType
<1>5. ASSUME Callback(p)
      PROVE  call'[p].id \in {0, call[p].id}
  <2>1. CASE call' = [call EXCEPT ![p].step = "working"]
    BY <2>1, WorkingType
  <2>2. CASE call' = [call EXCEPT ![p] = NoCall]
    BY <2>2 DEF NoCall, TypeOK
  <2> QED
    BY <1>5, <2>1, <2>2 DEF Callback
<1>6. ASSUME \/ GotAuth(p) \/ GotLogin(p) \/ GotLoginCut(p) \/ GotAct(p) \/ GotLogout(p) \/ Lose(p)
             \/ TurnedAway(p)
      PROVE  call'[p].id = 0
  BY <1>6, DoneType DEF GotAuth, GotLogin, GotLoginCut, GotAct, GotLogout, Lose, TurnedAway, Done, NoCall
<1>7. ASSUME GotCallback(p)
      PROVE  call'[p].id = call[p].id
  BY <1>7, GotCallbackType
<1>8. ASSUME NEW w \in working, w.page = p, Grant(w)
      PROVE  call'[p].id \in {call[p].id, newest + 1}
  <2>1. CASE w.live
    BY <1>8, <2>1 DEF Grant, Reply, TypeOK, Calls
  <2>2. CASE ~w.live
    BY <1>8, <2>2 DEF Grant
  <2> QED
    BY <2>1, <2>2
<1>9. ASSUME NEW w \in working, w.page = p, Refuse(w)
      PROVE  call'[p].id \in {0, call[p].id}
  BY <1>9, RefuseType DEF NoCall
<1> QED
  BY <1>1, <1>2, <1>3, <1>4, <1>5, <1>6, <1>7, <1>8, <1>9 DEF PageStep

LEMMA IdTypes ==
    ASSUME TypeOK
    PROVE  /\ newest \in Nat
           /\ \A b \in Browsers : cookie[b] \in 0..newest
           /\ \A p \in Pages : call[p].id \in 0..newest /\ browserOf[p] \in Browsers /\ Jar(p) \in 0..newest
<1>1. newest \in Nat /\ \A p \in Pages : call[p] \in Calls /\ call[p].id <= newest
  BY DEF TypeOK
<1>2. \A p \in Pages : call[p].id \in Nat
  BY <1>1 DEF Calls
<1> QED
  BY <1>1, <1>2 DEF TypeOK, Jar

\* Nobody comes by a number that his browser does not have, but for a new one.
LEMMA HasOld ==
    ASSUME TypeOK, NEW p \in Pages, PageStep(p), NEW b \in Browsers, NEW n \in 1..newest, Has(b, n)'
    PROVE  Has(b, n)
<1>0. newest \in Nat /\ n # 0 /\ n # newest + 1 /\ browserOf' = browserOf
  BY PageStepIsTurn, IdTypes DEF Turn
<1>1. CASE cookie'[b] = n
  <2>1. cookie[b] = n \/ (b = browserOf[p] /\ call[p].id = n)
    BY <1>0, <1>1, PageStepIsTurn DEF Turn
  <2> QED
    BY <2>1 DEF Has
<1>2. ASSUME NEW q \in Pages, browserOf[q] = b, call'[q].id = n
      PROVE  Has(b, n)
  <2>1. CASE q = p
    <3>1. call[p].id = n \/ Jar(p) = n
      BY <1>0, <1>2, <2>1, IdStep
    <3> QED
      BY <1>2, <2>1, <3>1 DEF Has, Jar
  <2>2. CASE q # p
    <3>1. call[q].id = n
      BY <1>2, <2>2, PageStepIsTurn DEF Turn, PageSame
    <3> QED
      BY <1>2, <3>1 DEF Has
  <2> QED
    BY <2>1, <2>2
<1> QED
  BY <1>0, <1>1, <1>2 DEF Has

LEMMA HasNew ==
    ASSUME TypeOK, NEW p \in Pages, PageStep(p), NEW b \in Browsers, NEW n \in Nat, n > newest, Has(b, n)'
    PROVE  b = browserOf[p]
<1>0. /\ newest \in Nat /\ n # 0 /\ browserOf' = browserOf
      /\ \A c \in Browsers : cookie[c] # n
      /\ \A q \in Pages : call[q].id # n
  BY PageStepIsTurn, IdTypes DEF Turn
<1>1. cookie'[b] # n
  BY <1>0, PageStepIsTurn DEF Turn
<1>2. PICK q \in Pages : browserOf[q] = b /\ call'[q].id = n
  BY <1>0, <1>1 DEF Has
<1>3. CASE q # p
  BY <1>0, <1>2, <1>3, PageStepIsTurn DEF Turn, PageSame
<1> QED
  BY <1>2, <1>3

LEMMA OneBrowserNext ==
    ASSUME TypeOK, OneBrowser, NEW p \in Pages, PageStep(p), newest' \in Nat
    PROVE  OneBrowser'
<1> SUFFICES ASSUME NEW b \in Browsers, NEW c \in Browsers, NEW n \in 1..newest', Has(b, n)', Has(c, n)'
             PROVE  b = c
  BY DEF OneBrowser
<1>0. newest \in Nat /\ n \in Nat /\ n >= 1
  BY IdTypes
<1>1. CASE n <= newest
  <2>1. n \in 1..newest
    BY <1>0, <1>1
  <2>2. Has(b, n) /\ Has(c, n)
    BY <2>1, HasOld
  <2> QED
    BY <2>1, <2>2 DEF OneBrowser
<1>2. CASE n > newest
  BY <1>0, <1>2, HasNew
<1> QED
  BY <1>0, <1>1, <1>2

-----------------------------------------------------------------------------
(* Replies that bring a session. *)

\* A page is told of a new session when it is created, or had been told before.
LEMMA SignedNow ==
    ASSUME TypeOK, LoginInv, NEW p \in Pages, PageStep(p), Signed(p)'
    PROVE  /\ cookie' = cookie
           /\ (Create /\ now' = now /\ call'[p].id = newest + 1) \/ (Signed(p) /\ call' = call)
<1>1. ASSUME NEW kind \in Kinds, Send(p, kind)
      PROVE  FALSE
  BY <1>1, SendType DEF Signed
<1>2. ASSUME ServeRequest(p) \/ ServeLogout(p) \/ RefuseLogin(p)
      PROVE  FALSE
  <2>1. call[p] \in Calls
    BY DEF TypeOK
  <2>2. CASE RefuseLogin(p)
    BY <2>1, <2>2 DEF RefuseLogin, Reply, Signed, TypeOK, Calls
  <2>3. CASE ServeRequest(p) \/ ServeLogout(p)
    BY <2>3, ReplyKind DEF ServeRequest, ServeLogout, Signed
  <2> QED
    BY <1>2, <2>2, <2>3
<1>3. CASE ServeLogin(p)
  BY <1>3 DEF ServeLogin, Reply, TypeOK, Calls
<1>4. ASSUME BeginLogin(p) \/ Again(p)
      PROVE  FALSE
  BY <1>4, BeginType, AgainType DEF Signed
<1>5. ASSUME Callback(p)
      PROVE  FALSE
  <2>1. CASE call' = [call EXCEPT ![p].step = "working"]
    BY <2>1, WorkingType DEF Signed
  <2>2. CASE call' = [call EXCEPT ![p] = NoCall]
    BY <2>2 DEF NoCall, TypeOK, Signed
  <2> QED
    BY <1>5, <2>1, <2>2 DEF Callback
<1>6. ASSUME \/ GotAuth(p) \/ GotLogin(p) \/ GotLoginCut(p) \/ GotAct(p) \/ GotLogout(p) \/ Lose(p)
             \/ TurnedAway(p)
      PROVE  FALSE
  BY <1>6, DoneType DEF GotAuth, GotLogin, GotLoginCut, GotAct, GotLogout, Lose, TurnedAway, Done, NoCall, Signed
<1>7. ASSUME GotCallback(p)
      PROVE  FALSE
  BY <1>7, GotCallbackType DEF Signed
<1>8. ASSUME NEW w \in working, w.page = p, Grant(w)
      PROVE  /\ cookie' = cookie
             /\ (Create /\ now' = now /\ call'[p].id = newest + 1) \/ (Signed(p) /\ call' = call)
  <2>1. CASE w.live
    BY <1>8, <2>1 DEF Grant, Reply, TypeOK, Calls
  <2>2. CASE ~w.live
    BY <1>8, <2>2 DEF Grant, Signed
  <2> QED
    BY <2>1, <2>2
<1>9. ASSUME NEW w \in working, w.page = p, Refuse(w)
      PROVE  cookie' = cookie /\ Signed(p) /\ call' = call
  <2>1. CASE w.live
    BY <1>9, <2>1, RefuseType DEF NoCall, Signed
  <2>2. CASE ~w.live
    BY <1>9, <2>2 DEF Refuse, Signed
  <2> QED
    BY <2>1, <2>2
<1> QED
  BY <1>1, <1>2, <1>3, <1>4, <1>5, <1>6, <1>7, <1>8, <1>9 DEF PageStep

AnswersAt(p) ==
    /\ call[p].kind = "callback" /\ call[p].step = "answered" => call[p].answer = "ok"
    /\ call[p].kind \in {"auth", "login"} /\ call[p].answer = "ok" => call[p].step = "answered"

LEMMA AnswersNext ==
    ASSUME TypeOK, LoginInv, NEW p \in Pages, AnswersAt(p), PageStep(p)
    PROVE  AnswersAt(p)'
<1>1. ASSUME NEW kind \in Kinds \ {"callback"}, Send(p, kind)
      PROVE  AnswersAt(p)'
  BY <1>1, SendType DEF AnswersAt
<1>2. ASSUME ServeRequest(p) \/ ServeLogout(p) \/ ServeLogin(p) \/ RefuseLogin(p)
      PROVE  AnswersAt(p)'
  BY <1>2, ReplyKind DEF ServeRequest, ServeLogout, ServeLogin, RefuseLogin, AnswersAt
<1>3. ASSUME BeginLogin(p) \/ Again(p)
      PROVE  AnswersAt(p)'
  BY <1>3, BeginType, AgainType DEF Again, AnswersAt
<1>4. ASSUME Callback(p)
      PROVE  AnswersAt(p)'
  <2>1. CASE call' = [call EXCEPT ![p].step = "working"]
    BY <1>4, <2>1, WorkingType DEF Callback, AnswersAt
  <2>2. CASE call' = [call EXCEPT ![p] = NoCall]
    BY <2>2 DEF NoCall, TypeOK, AnswersAt
  <2> QED
    BY <1>4, <2>1, <2>2 DEF Callback
<1>5. ASSUME Done(p)
      PROVE  AnswersAt(p)'
  BY <1>5, DoneType DEF NoCall, AnswersAt
<1>6. ASSUME GotCallback(p)
      PROVE  AnswersAt(p)'
  BY <1>6, GotCallbackType DEF AnswersAt
<1>7. ASSUME NEW w \in working, w.page = p, Grant(w)
      PROVE  AnswersAt(p)'
  <2>1. CASE w.live
    <3>1. call[p].kind = "callback"
      BY <1>7, <2>1 DEF LoginInv, AwaitedInv, Awaited
    <3> QED
      BY <1>7, <2>1, <3>1, ReplyKind DEF Grant, AnswersAt
  <2>2. CASE ~w.live
    BY <1>7, <2>2 DEF Grant, AnswersAt
  <2> QED
    BY <2>1, <2>2
<1>8. ASSUME NEW w \in working, w.page = p, Refuse(w)
      PROVE  AnswersAt(p)'
  <2>1. CASE w.live
    BY <1>8, <2>1, RefuseType DEF NoCall, AnswersAt
  <2>2. CASE ~w.live
    BY <1>8, <2>2 DEF Refuse, AnswersAt
  <2> QED
    BY <2>1, <2>2
<1> QED
  BY <1>1, <1>2, <1>3, <1>4, <1>5, <1>6, <1>7, <1>8
     DEF PageStep, TurnedAway, Done, GotAuth, GotLogin, GotLoginCut, GotAct, GotLogout, Lose

\* What RepliesInv says of one page.
NewsAt(p) ==
    Signed(p) => /\ call[p].id >= 1 /\ Kept(call[p].id)
                 /\ \A q \in Pages \ {p} : call[q].id # call[p].id
                 /\ \A b \in Browsers : cookie[b] # call[p].id

LEMMA RepliesByPage == RepliesInv <=> \A p \in Pages : NewsAt(p) /\ AnswersAt(p)
  BY Zenon DEF RepliesInv, NewsAt, AnswersAt

\* The page on turn.
LEMMA OwnNews ==
    ASSUME TypeOK, LoginInv, SeatInv, [Next]_vars, NEW p \in Pages, NewsAt(p), PageStep(p)
    PROVE  NewsAt(p)'
<1> SUFFICES ASSUME Signed(p)'
             PROVE  /\ call'[p].id >= 1 /\ Kept(call[p].id)'
                    /\ \A q \in Pages \ {p} : call'[q].id # call'[p].id
                    /\ \A b \in Browsers : cookie'[b] # call'[p].id
  BY DEF NewsAt
<1>0. /\ newest \in Nat
      /\ \A b \in Browsers : cookie[b] \in 0..newest
      /\ \A q \in Pages : call[q].id \in 0..newest
      /\ cookie' = cookie
      /\ \A q \in Pages \ {p} : call'[q] = call[q]
  BY IdTypes, SignedNow, PageStepIsTurn DEF Turn, PageSame
<1>1. CASE Create /\ now' = now /\ call'[p].id = newest + 1
  <2>1. call'[p].id \in DOMAIN sessions' /\ call'[p].id = newest + 1
    BY <1>1 DEF Create, Seat
  <2>2. Kept(call[p].id)'
    BY <2>1 DEF Kept
  <2> QED
    BY <1>0, <2>1, <2>2
<1>2. CASE Signed(p) /\ call' = call
  <2>1. PICK n \in 0..newest : n = call[p].id
    BY <1>0
  <2>2. /\ n >= 1 /\ Kept(n)
        /\ \A q \in Pages \ {p} : call[q].id # n
        /\ \A b \in Browsers : cookie[b] # n
    BY <1>2, <2>1 DEF NewsAt
  <2>3. ~ServeLogout(p)
    BY <1>2 DEF Signed, ServeLogout
  <2>4. Kept(n)'
    BY <2>2, <2>3, KeptAt, PageStepIsTurn
  <2> QED
    BY <1>0, <1>2, <2>1, <2>2, <2>4 DEF Kept
<1> QED
  BY <1>1, <1>2, SignedNow

\* Any other page.
LEMMA OtherNews ==
    ASSUME TypeOK, SeatInv, [Next]_vars, NEW p \in Pages, NEW q \in Pages \ {p}, NewsAt(q), PageStep(p)
    PROVE  NewsAt(q)'
<1> SUFFICES ASSUME Signed(q)'
             PROVE  /\ call'[q].id >= 1 /\ Kept(call[q].id)'
                    /\ \A x \in Pages \ {q} : call'[x].id # call'[q].id
                    /\ \A b \in Browsers : cookie'[b] # call'[q].id
  BY DEF NewsAt
<1>1. call'[q] = call[q] /\ Signed(q)
  BY PageStepIsTurn DEF Turn, PageSame, Signed
<1>2. PICK n \in 0..newest : n = call[q].id
  BY IdTypes
<1>3. /\ n >= 1 /\ Kept(n)
      /\ \A x \in Pages \ {q} : call[x].id # n
      /\ \A b \in Browsers : cookie[b] # n
  BY <1>1, <1>2 DEF NewsAt
<1>4. call[p].id # n /\ Jar(p) # n /\ n # 0 /\ n # newest + 1
  BY <1>3, IdTypes DEF Jar
<1>5. ASSUME NEW x \in Pages \ {q}
      PROVE  call'[x].id # n
  <2>1. CASE x = p
    BY <1>4, <2>1, IdStep
  <2>2. CASE x # p
    BY <1>3, <1>5, <2>2, PageStepIsTurn DEF Turn, PageSame
  <2> QED
    BY <2>1, <2>2
<1>6. \A b \in Browsers : cookie'[b] # n
  BY <1>3, <1>4, PageStepIsTurn DEF Turn
<1>7. Kept(n)'
  BY <1>3, <1>4, KeptAt, PageStepIsTurn
<1> QED
  BY <1>1, <1>2, <1>3, <1>5, <1>6, <1>7 DEF Kept

LEMMA RepliesNext ==
    ASSUME TypeOK, LoginInv, SeatInv, RepliesInv, [Next]_vars, NEW p \in Pages, PageStep(p)
    PROVE  RepliesInv'
<1>1. ASSUME NEW q \in Pages
      PROVE  NewsAt(q)' /\ AnswersAt(q)'
  <2>1. NewsAt(q) /\ AnswersAt(q) /\ NewsAt(p) /\ AnswersAt(p)
    BY RepliesByPage
  <2>2. CASE q = p
    BY <2>1, <2>2, OwnNews, AnswersNext
  <2>3. CASE q # p
    <3>1. AnswersAt(q)'
      BY <2>1, <2>3, PageStepIsTurn DEF Turn, PageSame, AnswersAt
    <3> QED
      BY <2>1, <2>3, <3>1, OtherNews
  <2> QED
    BY <2>2, <2>3
<1>2. RepliesInv' <=> \A q \in Pages : NewsAt(q)' /\ AnswersAt(q)'
  BY Zenon DEF RepliesInv, NewsAt, AnswersAt
<1> QED
  BY <1>1, <1>2

-----------------------------------------------------------------------------
(* The pages. *)

LEMMA OtherPage ==
    ASSUME TypeOK, SeatInv, OneBrowser, [Next]_vars, NEW p \in Pages, Turn(p),
           NEW q \in Pages \ {p}, q \notin swapped', PageOk(q)
    PROVE  PageOk(q)'
<1>1. /\ view'[q] = view[q] /\ csrf'[q] = csrf[q] /\ call'[q] = call[q]
      /\ browserOf' = browserOf /\ cookie'[browserOf[q]] = cookie[browserOf[q]]
  BY DEF Turn, PageSame
<1>2. PICK n \in 0..newest : n = Jar(q)
  BY IdTypes
<1>3. Jar(q)' = n
  BY <1>1, <1>2 DEF Jar
<1>4. ASSUME Kept(n), n >= 1
      PROVE  Kept(n)'
  <2>1. SUFFICES ASSUME ServeLogout(p), call[p].id = n, n \in DOMAIN sessions
                 PROVE  FALSE
    BY <1>4, KeptAt
  <2>2. n \in 1..newest /\ browserOf[p] \in Browsers /\ browserOf[q] \in Browsers
    BY <1>4, IdTypes
  <2>3. Has(browserOf[p], n) /\ Has(browserOf[q], n)
    BY <1>2, <2>1 DEF Has, Jar
  <2>4. browserOf[p] = browserOf[q]
    BY <2>2, <2>3 DEF OneBrowser
  <2>5. q \in swapped'
    BY <2>1, <2>4 DEF ServeLogout, Others
  <2> QED
    BY <2>5
<1>5. AuthOk(q)'
  BY <1>1, <1>2, <1>3, <1>4 DEF PageOk, AuthOk, Kept
<1>6. AppOk(q)'
  BY <1>1, <1>2, <1>3, <1>4 DEF PageOk, AppOk, LoggedOut, Kept
<1> QED
  BY <1>5, <1>6 DEF PageOk

\* A page on turn that goes on showing the app with the same cookie.
LEMMA AppStays ==
    ASSUME TypeOK, SeatInv, [Next]_vars, NEW p \in Pages, Turn(p), AppOk(p), cookie' = cookie,
           view'[p] = view[p], csrf'[p] = csrf[p], LoggedOut(p) => call'[p] = call[p]
    PROVE  AppOk(p)'
<1>1. PICK n \in 0..newest : n = Jar(p)
  BY IdTypes
<1>2. Jar(p)' = n
  BY <1>1 DEF Jar, Turn
<1>3. SUFFICES ASSUME view[p] = "app"
               PROVE  csrf'[p] = n /\ n >= 1 /\ (Kept(n)' \/ LoggedOut(p)')
  BY <1>2 DEF AppOk, Kept
<1>4. csrf[p] = n /\ n >= 1 /\ (Kept(n) \/ LoggedOut(p))
  BY <1>1, <1>3 DEF AppOk
<1>5. CASE LoggedOut(p)
  BY <1>4, <1>5 DEF LoggedOut
<1>6. CASE Kept(n)
  <2>1. ServeLogout(p) => LoggedOut(p)'
    BY ReplyKind DEF ServeLogout, LoggedOut
  <2> QED
    BY <1>4, <1>6, <2>1, KeptAt
<1> QED
  BY <1>4, <1>5, <1>6

\* A session that the page on turn has just been told of stays.
LEMMA KeptJar ==
    ASSUME TypeOK, SeatInv, [Next]_vars, NEW p \in Pages, Turn(p), cookie' = cookie, Kept(Jar(p)),
           call[p].kind # "logout"
    PROVE  Kept(Jar(p))'
<1>1. PICK n \in 0..newest : n = Jar(p)
  BY IdTypes
<1>2. Jar(p)' = n
  BY <1>1 DEF Jar, Turn
<1>3. Kept(n)'
  BY <1>1, KeptAt DEF Kept, ServeLogout
<1> QED
  BY <1>2, <1>3 DEF Kept

\* What the page on turn must satisfy, action by action.
LEMMA OwnSend ==
    ASSUME TypeOK, SeatInv, PagesInv, [Next]_vars, NEW p \in Pages, NEW kind \in Kinds \ {"callback"},
           Send(p, kind), p \notin swapped'
    PROVE  PageOk(p)'
<1>1. /\ call'[p].kind = kind /\ call'[p].answer = "none"
      /\ call'[p].id = (IF kind = "login" THEN 0 ELSE Jar(p))
      /\ UNCHANGED <<cookie, browserOf>>
  BY SendType DEF Send, server
<1>2. Jar(p)' = Jar(p)
  BY <1>1 DEF Jar
<1>3. AuthOk(p)'
  BY <1>1, <1>2 DEF AuthOk
<1>4. CASE kind \in {"auth", "login"}
  <2>1. view'[p] # "app"
    BY <1>4 DEF Send, TypeOK
  <2> QED
    BY <1>3, <2>1 DEF AppOk, PageOk
<1>5. CASE kind \in {"act", "logout"}
  <2>1. UNCHANGED <<view, csrf, swapped>> /\ ~LoggedOut(p)
    BY <1>5 DEF Send, NoCall, LoggedOut
  <2>2. AppOk(p)
    BY <2>1 DEF PagesInv, PageOk
  <2>3. Turn(p)
    BY StepIsTurn
  <2> QED
    BY <1>1, <1>3, <2>1, <2>2, <2>3, AppStays DEF PageOk
<1> QED
  BY <1>4, <1>5 DEF Kinds

LEMMA OwnServe ==
    ASSUME TypeOK, SeatInv, PagesInv, [Next]_vars, NEW p \in Pages, p \notin swapped',
           ServeRequest(p) \/ ServeLogout(p) \/ ServeLogin(p) \/ RefuseLogin(p)
    PROVE  PageOk(p)'
<1>1. /\ UNCHANGED <<view, csrf, cookie, browserOf>> /\ p \notin swapped
      /\ call'[p].kind = call[p].kind
      /\ ~LoggedOut(p)
  BY ReplyKind DEF ServeRequest, ServeLogout, ServeLogin, RefuseLogin, server, LoggedOut
<1>2. PageOk(p) /\ Turn(p)
  BY <1>1, StepIsTurn DEF PagesInv
<1>3. AppOk(p)'
  BY <1>1, <1>2, AppStays DEF PageOk
<1>4. AuthOk(p)'
  <2>1. SUFFICES ASSUME call[p].kind = "auth"
                 PROVE  /\ call'[p].id = Jar(p)'
                        /\ call'[p].answer = "ok" => Jar(p)' >= 1 /\ Kept(Jar(p))'
    BY <1>1 DEF AuthOk
  <2>2. ServeRequest(p)
    BY <2>1 DEF ServeLogout, ServeLogin, RefuseLogin
  <2>3. call[p].id = Jar(p) /\ Jar(p)' = Jar(p) /\ call[p] \in Calls
    BY <1>1, <1>2, <2>1 DEF PageOk, AuthOk, Jar, TypeOK
  <2>4. call'[p].id = call[p].id
    BY <2>2, <2>3 DEF ServeRequest, Reply, TypeOK, Calls
  <2>5. ASSUME call'[p].answer = "ok"
        PROVE  Jar(p)' >= 1 /\ Kept(Jar(p))'
    <3>1. call'[p].answer = Verdict(p)
      BY <2>2, ReplyKind DEF ServeRequest
    <3>2. Accepts(Jar(p))
      BY <2>3, <2>5, <3>1 DEF Verdict
    <3>3. Jar(p) >= 1 /\ Kept(Jar(p))
      BY <3>2 DEF Accepts, SeatInv, Kept
    <3> QED
      BY <1>1, <1>2, <2>1, <2>3, <3>3, KeptJar
  <2> QED
    BY <2>3, <2>4, <2>5
<1> QED
  BY <1>3, <1>4 DEF PageOk

LEMMA OwnOidc ==
    ASSUME TypeOK, LoginInv, SeatInv, PagesInv, [Next]_vars, NEW p \in Pages, p \notin swapped',
           \/ BeginLogin(p) \/ Callback(p) \/ TurnedAway(p) \/ Again(p)
           \/ \E w \in working : w.page = p /\ (Grant(w) \/ Refuse(w))
    PROVE  PageOk(p)'
<1>1. UNCHANGED <<csrf, cookie, browserOf, swapped>>
  BY DEF BeginLogin, Callback, TurnedAway, Again, Grant, Refuse, server
<1>2. PageOk(p) /\ Turn(p)
  BY <1>1, StepIsTurn DEF PagesInv
<1>3. ASSUME view'[p] # "app", call'[p].kind # "auth"
      PROVE  PageOk(p)'
  BY <1>3 DEF PageOk, AuthOk, AppOk
<1>4. ASSUME view' = view, call[p].kind = "callback", call'[p].kind = "callback"
      PROVE  PageOk(p)'
  <2>1. AppOk(p)'
    BY <1>1, <1>2, <1>4, AppStays DEF PageOk, LoggedOut
  <2> QED
    BY <1>4, <2>1 DEF PageOk, AuthOk
<1>5. ASSUME view' = view, call' = call
      PROVE  PageOk(p)'
  <2>1. AppOk(p)'
    BY <1>1, <1>2, <1>5, AppStays DEF PageOk
  <2>2. Jar(p)' = Jar(p)
    BY <1>1 DEF Jar
  <2>3. AuthOk(p)'
    BY <1>1, <1>2, <1>5, <2>2, KeptJar DEF PageOk, AuthOk
  <2> QED
    BY <2>1, <2>3 DEF PageOk
<1>6. CASE BeginLogin(p)
  BY <1>3, <1>6, BeginType DEF BeginLogin, TypeOK
<1>7. CASE Callback(p)
  <2>1. CASE call' = [call EXCEPT ![p].step = "working"] /\ UNCHANGED view
    BY <1>4, <1>7, <2>1, WorkingType DEF Callback
  <2>2. CASE call' = [call EXCEPT ![p] = NoCall] /\ view' = [view EXCEPT ![p] = "error"]
    BY <1>3, <2>2 DEF NoCall, TypeOK
  <2> QED
    BY <1>7, <2>1, <2>2 DEF Callback
<1>8. CASE TurnedAway(p) \/ Again(p)
  <2>1. CASE TurnedAway(p)
    <3>1. view'[p] = "error" /\ call'[p] = NoCall
      BY <2>1 DEF TurnedAway, TypeOK
    <3> QED
      BY <1>3, <3>1 DEF NoCall
  <2>2. CASE Again(p)
    BY <1>4, <2>2, AgainType DEF Again
  <2> QED
    BY <1>8, <2>1, <2>2
<1>9. ASSUME NEW w \in working, w.page = p, Grant(w)
      PROVE  PageOk(p)'
  <2>1. CASE w.live
    <3>1. call[p].kind = "callback"
      BY <1>9, <2>1 DEF LoginInv, AwaitedInv, Awaited
    <3> QED
      BY <1>4, <1>9, <2>1, <3>1, ReplyKind DEF Grant
  <2>2. CASE ~w.live
    BY <1>5, <1>9, <2>2 DEF Grant
  <2> QED
    BY <2>1, <2>2
<1>10. ASSUME NEW w \in working, w.page = p, Refuse(w)
       PROVE  PageOk(p)'
  <2>1. CASE w.live
    BY <1>3, <1>10, <2>1 DEF Refuse, NoCall, TypeOK
  <2>2. CASE ~w.live
    BY <1>5, <1>10, <2>2 DEF Refuse
  <2> QED
    BY <2>1, <2>2
<1> QED
  BY <1>6, <1>7, <1>8, <1>9, <1>10

LEMMA OwnAnswer ==
    ASSUME TypeOK, SeatInv, PagesInv, [Next]_vars, NEW p \in Pages, p \notin swapped',
           GotAuth(p) \/ GotAct(p) \/ Lose(p)
    PROVE  PageOk(p)'
<1>1. /\ UNCHANGED <<cookie, browserOf, swapped>> /\ call'[p].kind = "none"
      /\ AuthOk(p)'
  BY DoneType DEF GotAuth, GotAct, Lose, server, NoCall, AuthOk
<1>2. PageOk(p) /\ Turn(p) /\ Jar(p)' = Jar(p)
  BY <1>1, StepIsTurn DEF PagesInv, Jar
<1>3. CASE view'[p] # "app"
  BY <1>1, <1>3 DEF AppOk, PageOk
<1>4. CASE UNCHANGED <<view, csrf>> /\ ~LoggedOut(p)
  BY <1>1, <1>2, <1>4, AppStays DEF PageOk
<1>5. CASE GotAuth(p) /\ call[p].answer = "ok"
  <2>1. call[p].id = Jar(p) /\ Jar(p) >= 1 /\ Kept(Jar(p)) /\ call[p].kind = "auth"
    BY <1>2, <1>5 DEF GotAuth, PageOk, AuthOk
  <2>2. csrf'[p] = Jar(p)
    BY <1>5, <2>1 DEF GotAuth, Show, TypeOK
  <2>3. Kept(Jar(p))'
    BY <1>1, <1>2, <2>1, KeptJar
  <2> QED
    BY <1>1, <1>2, <2>1, <2>2, <2>3 DEF AppOk, PageOk
<1>6. CASE (GotAuth(p) /\ call[p].answer # "ok") \/ (GotAct(p) /\ call[p].answer = "unauthorized")
           \/ (Lose(p) /\ call[p].kind \in {"auth", "logout"})
  <2>1. view'[p] = "login"
    BY <1>6 DEF GotAuth, GotAct, Lose, Show, TypeOK
  <2> QED
    BY <1>3, <2>1
<1>7. CASE (GotAct(p) /\ call[p].answer # "unauthorized")
           \/ (Lose(p) /\ call[p].kind \notin {"auth", "logout"})
  BY <1>4, <1>7 DEF GotAct, Lose, LoggedOut
<1> QED
  BY <1>5, <1>6, <1>7

LEMMA OwnCookie ==
    ASSUME TypeOK, SeatInv, RepliesInv, PagesInv, [Next]_vars, NEW p \in Pages, p \notin swapped',
           GotLogin(p) \/ GotLoginCut(p) \/ GotCallback(p) \/ GotLogout(p)
    PROVE  PageOk(p)'
<1>1. /\ browserOf' = browserOf /\ ~GotLoginCut(p) /\ Turn(p)
      /\ browserOf[p] \in Browsers
  BY StepIsTurn DEF GotLogin, GotLoginCut, GotCallback, GotLogout, server, TypeOK
<1>2. CASE GotLogout(p)
  BY <1>2, DoneType, SMTT(60) DEF GotLogout, Show, NoCall, TypeOK, PageOk, AuthOk, AppOk
<1>3. CASE GotCallback(p)
  <2>1. call'[p].id = call[p].id /\ call'[p].answer = "none"
    BY <1>3, GotCallbackType
  <2>2. cookie'[browserOf[p]] = call[p].id
    BY <1>1, <1>3 DEF GotCallback, SetCookie, TypeOK
  <2>3. view'[p] = "blank"
    BY <1>3 DEF GotCallback, Show, TypeOK
  <2> QED
    BY <1>1, <2>1, <2>2, <2>3 DEF PageOk, AuthOk, AppOk, Jar
<1>4. CASE GotLogin(p) /\ call[p].answer # "ok"
  <2>1. UNCHANGED <<cookie, swapped, view, csrf>> /\ call'[p].kind = "none" /\ ~LoggedOut(p)
    BY <1>4, DoneType DEF GotLogin, NoCall, LoggedOut
  <2>2. AppOk(p)
    BY <2>1 DEF PagesInv, PageOk
  <2>3. AppOk(p)'
    BY <1>1, <2>1, <2>2, AppStays
  <2> QED
    BY <2>1, <2>3 DEF PageOk, AuthOk
<1>5. CASE GotLogin(p) /\ call[p].answer = "ok"
  <2>1. Signed(p)
    BY <1>5 DEF GotLogin, Signed
  <2>2. PICK n \in 0..newest : n = call[p].id
    BY IdTypes
  <2>3. n >= 1 /\ Kept(n)
    BY <2>1, <2>2 DEF RepliesInv
  <2>4. Kept(n)'
    BY <1>1, <1>5, <2>3, KeptAt DEF GotLogin, ServeLogout
  <2>5. csrf'[p] = n /\ cookie'[browserOf[p]] = n /\ call'[p].kind = "none"
    BY <1>1, <1>5, <2>2, DoneType DEF GotLogin, SetCookie, Show, NoCall, TypeOK
  <2>6. Jar(p)' = n
    BY <1>1, <2>5 DEF Jar
  <2> QED
    BY <2>3, <2>4, <2>5, <2>6 DEF PageOk, AuthOk, AppOk, Kept
<1> QED
  BY <1>1, <1>2, <1>3, <1>4, <1>5

LEMMA PagesNext ==
    ASSUME TypeOK, LoginInv, SeatInv, PageInv, [Next]_vars, NEW p \in Pages, PageStep(p)
    PROVE  PagesInv'
<1> SUFFICES ASSUME NEW q \in Pages, q \notin swapped'
             PROVE  PageOk(q)'
  BY DEF PagesInv
<1>1. CASE q = p
  BY <1>1, OwnSend, OwnServe, OwnOidc, OwnAnswer, OwnCookie DEF PageStep, PageInv, Kinds
<1>2. CASE q # p
  <2>1. PageOk(q)
    BY <1>2, PageStepIsTurn DEF Turn, PageSame, PageInv, PagesInv
  <2> QED
    BY <1>2, <2>1, PageStepIsTurn, OtherPage DEF PageInv
<1> QED
  BY <1>1, <1>2

LEMMA PageInit == Init => PageInv
<1> SUFFICES ASSUME Init
             PROVE  PageInv
  OBVIOUS
<1>1. \A p \in Pages : call[p].kind = "none" /\ call[p].step = "none" /\ view[p] = "blank"
  BY DEF Init, NoCall
<1>2. RepliesInv /\ PagesInv
  BY <1>1 DEF RepliesInv, Signed, PagesInv, PageOk, AuthOk, AppOk
<1>3. OneBrowser
  BY DEF Init, OneBrowser
<1> QED
  BY <1>2, <1>3 DEF PageInv

\* A step of nobody: the clock, or no step at all.
LEMMA IdleStep ==
    ASSUME TypeOK, SeatInv, PageInv, [Next]_vars, Tick \/ UNCHANGED vars
    PROVE  PageInv'
<1>1. UNCHANGED <<sessions, newest, browserOf, cookie, view, csrf, call, swapped>>
  BY DEF Tick, vars, server
<1>2. \A n \in 0..newest : Kept(n) => Kept(n)'
  <2>1. ASSUME NEW p \in Pages, ServeLogout(p)
        PROVE  FALSE
    BY <1>1, <2>1, ReplyKind DEF ServeLogout
  <2> QED
    BY <2>1, KeptStays
<1>3. OneBrowser'
  BY <1>1 DEF PageInv, OneBrowser, Has
<1>4. ASSUME NEW p \in Pages
      PROVE  NewsAt(p)' /\ AnswersAt(p)'
  <2>1. NewsAt(p) /\ AnswersAt(p)
    BY RepliesByPage DEF PageInv
  <2>2. AnswersAt(p)'
    BY <1>1, <2>1 DEF AnswersAt
  <2>3. PICK n \in 0..newest : n = call[p].id
    BY IdTypes
  <2>4. NewsAt(p)'
    BY <1>1, <1>2, <2>1, <2>3 DEF NewsAt, Signed, Kept
  <2> QED
    BY <2>2, <2>4
<1>5. RepliesInv'
  BY <1>4, Zenon DEF RepliesInv, NewsAt, AnswersAt
<1>6. ASSUME NEW p \in Pages, p \notin swapped'
      PROVE  PageOk(p)'
  <2>1. PageOk(p)
    BY <1>1, <1>6 DEF PageInv, PagesInv
  <2>2. PICK n \in 0..newest : n = Jar(p)
    BY IdTypes
  <2>3. Jar(p)' = n
    BY <1>1, <2>2 DEF Jar
  <2>4. AuthOk(p)'
    BY <1>1, <1>2, <2>1, <2>2, <2>3 DEF PageOk, AuthOk, Kept
  <2>5. AppOk(p)'
    BY <1>1, <1>2, <2>1, <2>2, <2>3 DEF PageOk, AppOk, LoggedOut, Kept
  <2> QED
    BY <2>4, <2>5 DEF PageOk
<1>7. PagesInv'
  BY <1>6 DEF PagesInv
<1> QED
  BY <1>3, <1>5, <1>7 DEF PageInv

LEMMA PageNext == TypeOK /\ LoginInv /\ SeatInv /\ PageInv /\ [Next]_vars => PageInv'
<1> SUFFICES ASSUME TypeOK, LoginInv, SeatInv, PageInv, [Next]_vars
             PROVE  PageInv'
  OBVIOUS
<1>1. ASSUME NEW p \in Pages, PageStep(p)
      PROVE  PageInv'
  <2>1. newest' \in Nat
    BY NewestGrows, TypeParts
  <2>2. OneBrowser'
    BY <1>1, <2>1, OneBrowserNext DEF PageInv
  <2>3. RepliesInv'
    BY <1>1, RepliesNext DEF PageInv
  <2>4. PagesInv'
    BY <1>1, PagesNext
  <2> QED
    BY <2>2, <2>3, <2>4 DEF PageInv
<1> QED
  BY <1>1, NextIsTurn, IdleStep

\* A page that shows the app, and whose browser no other page has signed in or
\* out, has a session, its own, that the server still knows unless there is a
\* reason why not.
\* Code: sessionStore in auth.go, auth.js and api.js of the manager's page.
THEOREM SessionOfThePage == Spec => []SignedInWorks
<1>1. Init => TypeOK /\ LoginInv /\ SeatInv /\ PageInv
  BY TypeInit, LoginInit, PageInit DEF Init, SeatInv, Empty
<1>2. TypeOK /\ LoginInv /\ SeatInv /\ PageInv /\ [Next]_vars
        => (TypeOK /\ LoginInv /\ SeatInv /\ PageInv)'
  BY TypeNext, LoginNext, SeatNext, PageNext
<1>3. PageInv => SignedInWorks
  <2> SUFFICES ASSUME PageInv, NEW p \in Pages \ swapped, view[p] = "app", call[p] = NoCall
               PROVE  csrf[p] = Jar(p) /\ Jar(p) # 0 /\ Kept(Jar(p))
    BY Zenon DEF SignedInWorks, Kept
  <2>1. ~LoggedOut(p)
    BY DEF LoggedOut, NoCall
  <2> QED
    BY <2>1 DEF PageInv, PagesInv, PageOk, AppOk
<1> QED
  BY <1>1, <1>2, <1>3, PTL DEF Spec


-----------------------------------------------------------------------------
(* The limiter of password attempts. *)

\* The window's failures are all kept, the peak is one, and the limit is not
\* overrun.
LimiterInv ==
    /\ LimiterTypeOK
    /\ \A a \in Addrs : Recent(a) \subseteq fails[a]
    /\ \A a \in Addrs : Cardinality(UnderWay(a)) <= peak[a]
    /\ OverrunByOverlap

LEMMA LimiterFinite ==
    ASSUME LimiterTypeOK
    PROVE  /\ \A a \in Addrs : IsFiniteSet(UnderWay(a)) /\ Cardinality(UnderWay(a)) \in Nat
           /\ \A a \in Addrs : Cardinality(UnderWay(a)) <= Cardinality(Callers)
           /\ \A a \in Addrs : IsFiniteSet(Recent(a)) /\ Cardinality(Recent(a)) \in Nat
           /\ Cardinality(Callers) \in Nat
<1>1. ASSUME NEW a \in Addrs
      PROVE  /\ IsFiniteSet(UnderWay(a)) /\ Cardinality(UnderWay(a)) \in Nat
             /\ Cardinality(UnderWay(a)) <= Cardinality(Callers)
  <2>1. UnderWay(a) \subseteq Callers
    BY DEF UnderWay
  <2> QED
    BY <2>1, CallersAssumption, FS_Subset, FS_CardinalityType
<1>2. ASSUME NEW a \in Addrs
      PROVE  IsFiniteSet(Recent(a)) /\ Cardinality(Recent(a)) \in Nat
  <2>1. log[a] \in Seq(0..MaxTicks)
    BY DEF LimiterTypeOK
  <2>2. Recent(a) \subseteq 1..Len(log[a]) /\ Len(log[a]) \in Nat
    BY <2>1 DEF Recent
  <2>3. IsFiniteSet(1..Len(log[a]))
    BY <2>2, FS_Interval
  <2> QED
    BY <2>2, <2>3, FS_Subset, FS_CardinalityType
<1> QED
  BY <1>1, <1>2, CallersAssumption, FS_CardinalityType

\* The list decides as the history does.
LEMMA PrunedIsRecent ==
    ASSUME LimiterInv, NEW a \in Addrs
    PROVE  Prune(a) = Recent(a)
BY DEF LimiterInv, LimiterTypeOK, Prune, Recent

\* A login that ends is one less; it is of no other address.
LEMMA LoginEnds ==
    ASSUME LimiterTypeOK, NEW c \in Callers, from[c] # Nowhere, from' = [from EXCEPT ![c] = Nowhere]
    PROVE  /\ from[c] \in Addrs /\ from' \in [Callers -> Addrs \cup {Nowhere}]
           /\ \A a \in Addrs :
                 /\ Cardinality(UnderWay(a)') \in Nat
                 /\ Cardinality(UnderWay(a)') <= Cardinality(UnderWay(a))
                 /\ a = from[c] => Cardinality(UnderWay(a)') = Cardinality(UnderWay(a)) - 1
<1>1. from[c] \in Addrs /\ from' \in [Callers -> Addrs \cup {Nowhere}]
  BY DEF LimiterTypeOK
<1>2. \A a \in Addrs : UnderWay(a)' = UnderWay(a) \ {c}
  BY NowhereAssumption DEF UnderWay, LimiterTypeOK
<1>3. \A a \in Addrs : a = from[c] => c \in UnderWay(a)
  BY DEF UnderWay
<1>4. ASSUME NEW a \in Addrs
      PROVE  /\ Cardinality(UnderWay(a)') \in Nat
             /\ Cardinality(UnderWay(a)') =
                   IF c \in UnderWay(a) THEN Cardinality(UnderWay(a)) - 1 ELSE Cardinality(UnderWay(a))
             /\ Cardinality(UnderWay(a)') <= Cardinality(UnderWay(a))
  <2>1. IsFiniteSet(UnderWay(a)) /\ Cardinality(UnderWay(a)) \in Nat
    BY LimiterFinite
  <2>2. /\ IsFiniteSet(UnderWay(a) \ {c})
        /\ Cardinality(UnderWay(a) \ {c}) =
              IF c \in UnderWay(a) THEN Cardinality(UnderWay(a)) - 1 ELSE Cardinality(UnderWay(a))
    BY <2>1, FS_RemoveElement
  <2>3. Cardinality(UnderWay(a) \ {c}) \in Nat
    BY <2>2, FS_CardinalityType
  <2>4. UnderWay(a)' = UnderWay(a) \ {c}
    BY <1>2
  <2> QED
    BY <2>1, <2>2, <2>3, <2>4
<1> QED
  BY <1>1, <1>3, <1>4

LEMMA LimiterInvInit == LimiterInit => LimiterInv
<1> SUFFICES ASSUME LimiterInit PROVE LimiterInv
  OBVIOUS
<1>1. Cardinality(Callers) \in Nat
  BY CallersAssumption, FS_CardinalityType
<1>2. LimiterTypeOK
  <2>1. 0 \in 0..MaxTicks /\ 0 \in 0..Cardinality(Callers)
    BY <1>1, MaxTicksAssumption
  <2>2. <<>> \in Seq(0..MaxTicks) /\ {} \in SUBSET Nat
    OBVIOUS
  <2> QED
    BY <2>1, <2>2 DEF LimiterInit, LimiterTypeOK
<1>3. \A a \in Addrs : Recent(a) = {} /\ UnderWay(a) = {} /\ peak[a] = 0
  BY NowhereAssumption DEF LimiterInit, Recent, UnderWay
<1>4. Cardinality({}) = 0
  BY FS_EmptySet
<1>5. OverrunByOverlap
  BY <1>3, <1>4, LimitsAssumption DEF OverrunByOverlap
<1> QED
  BY <1>2, <1>3, <1>4, <1>5 DEF LimiterInv

LEMMA AllowInv ==
    ASSUME LimiterInv, NEW c \in Callers, NEW a \in Addrs, Allow(c, a)
    PROVE  LimiterInv'
<1> DEFINE u == Cardinality(UnderWay(a))
<1>1. /\ from[c] = Nowhere /\ fails' = [fails EXCEPT ![a] = Prune(a)]
      /\ from' = [from EXCEPT ![c] = a] /\ clock' = clock /\ log' = log
      /\ peak' = [peak EXCEPT ![a] = IF u >= @ THEN u + 1 ELSE @]
      /\ Cardinality(Prune(a)) < MaxFails
  BY DEF Allow, Admits
<1>2. LimiterTypeOK /\ \A b \in Addrs : peak[b] \in Nat /\ peak[b] <= Cardinality(Callers)
  BY LimiterFinite DEF LimiterInv, LimiterTypeOK
<1>3. /\ UnderWay(a)' = UnderWay(a) \cup {c} /\ c \notin UnderWay(a)
      /\ \A b \in Addrs : b # a => UnderWay(b)' = UnderWay(b)
      /\ \A b \in Addrs : Recent(b)' = Recent(b)
  BY <1>1, <1>2, NowhereAssumption DEF UnderWay, LimiterTypeOK, Recent
<1>4. u \in Nat /\ Cardinality(UnderWay(a)') = u + 1
  BY <1>2, <1>3, LimiterFinite, FS_AddElement
<1>5. u + 1 <= Cardinality(Callers)
  <2>1. UnderWay(a)' \subseteq Callers
    BY <1>3 DEF UnderWay
  <2> QED
    BY <1>4, <2>1, CallersAssumption, FS_Subset
<1>6. /\ peak'[a] = IF u >= peak[a] THEN u + 1 ELSE peak[a]
      /\ \A b \in Addrs : b # a => peak'[b] = peak[b]
      /\ fails'[a] = Recent(a) /\ \A b \in Addrs : b # a => fails'[b] = fails[b]
  BY <1>1, <1>2, PrunedIsRecent DEF LimiterTypeOK
<1>7. LimiterTypeOK'
  <2>1. peak'[a] \in 0..Cardinality(Callers)
    BY <1>2, <1>4, <1>5, <1>6
  <2>2. peak' \in [Addrs -> 0..Cardinality(Callers)]
    BY <1>1, <1>2, <1>6, <2>1 DEF LimiterTypeOK
  <2>3. fails' \in [Addrs -> SUBSET Nat] /\ \A b \in Addrs : fails'[b] \subseteq DOMAIN log[b]
    BY <1>1, <1>2 DEF LimiterTypeOK, Prune
  <2> QED
    BY <1>1, <1>2, <2>2, <2>3 DEF LimiterTypeOK
<1>8. \A b \in Addrs : Recent(b)' \subseteq fails'[b]
  BY <1>3, <1>6 DEF LimiterInv
<1>9. \A b \in Addrs : Cardinality(UnderWay(b)') <= peak'[b]
  <2> SUFFICES ASSUME NEW b \in Addrs PROVE Cardinality(UnderWay(b)') <= peak'[b]
    OBVIOUS
  <2>1. CASE b = a
    BY <1>2, <1>4, <1>6, <2>1
  <2>2. CASE b # a
    BY <1>3, <1>6, <2>2 DEF LimiterInv
  <2> QED
    BY <2>1, <2>2
<1>10. OverrunByOverlap'
  <2>1. Cardinality(Recent(a)) < MaxFails /\ Cardinality(Recent(a)) \in Nat
    BY <1>1, <1>2, PrunedIsRecent, LimiterFinite
  <2>2. Cardinality(Recent(a)) + u + 1 <= MaxFails - 1 + (IF peak'[a] = 0 THEN 1 ELSE peak'[a])
    BY <1>2, <1>4, <1>6, <2>1, LimitsAssumption
  <2>3. \A b \in Addrs : b # a =>
            Cardinality(Recent(b)) + Cardinality(UnderWay(b))
                <= MaxFails - 1 + (IF peak[b] = 0 THEN 1 ELSE peak[b])
    BY DEF LimiterInv, OverrunByOverlap
  <2>4. ASSUME NEW b \in Addrs
        PROVE  Cardinality(Recent(b)') + Cardinality(UnderWay(b)')
                   <= MaxFails - 1 + (IF peak'[b] = 0 THEN 1 ELSE peak'[b])
    <3>1. Recent(b)' = Recent(b)
      BY <1>3
    <3>2. CASE b = a
      <4>1. Cardinality(Recent(a)') = Cardinality(Recent(a)) /\ Cardinality(UnderWay(a)') = u + 1
        BY <1>4, <3>1, <3>2
      <4> HIDE DEF u
      <4> QED
        BY <1>4, <2>1, <2>2, <3>2, <4>1
    <3>3. CASE b # a
      <4>1. UnderWay(b)' = UnderWay(b) /\ peak'[b] = peak[b]
        BY <1>3, <1>6, <3>3
      <4> QED
        BY <2>3, <3>1, <3>3, <4>1
    <3> QED
      BY <3>2, <3>3
  <2> QED
    BY <2>4 DEF OverrunByOverlap
<1> QED
  BY <1>7, <1>8, <1>9, <1>10 DEF LimiterInv

LEMMA FailInv ==
    ASSUME LimiterInv, NEW c \in Callers, Fail(c)
    PROVE  LimiterInv'
<1>2. LimiterTypeOK
  BY DEF LimiterInv
<1>0. PICK a \in Addrs : a = from[c]
  BY <1>2, LoginEnds DEF Fail
<1> DEFINE n == Len(log[a]) + 1
<1>1. /\ from[c] # Nowhere /\ from' = [from EXCEPT ![c] = Nowhere]
      /\ fails' = [fails EXCEPT ![a] = Prune(a) \cup {n}]
      /\ log' = [log EXCEPT ![a] = Append(@, clock)]
      /\ clock' = clock /\ peak' = peak
  BY <1>0 DEF Fail
<1>3. /\ from' \in [Callers -> Addrs \cup {Nowhere}]
      /\ Cardinality(UnderWay(a)') = Cardinality(UnderWay(a)) - 1
      /\ \A b \in Addrs : Cardinality(UnderWay(b)') \in Nat
                          /\ Cardinality(UnderWay(b)') <= Cardinality(UnderWay(b))
  BY <1>0, <1>1, <1>2, LoginEnds
<1>4. log[a] \in Seq(0..MaxTicks) /\ clock \in 0..MaxTicks /\ Len(log[a]) \in Nat
  BY <1>2, <1>3 DEF LimiterTypeOK
<1>5. /\ Append(log[a], clock) \in Seq(0..MaxTicks)
      /\ DOMAIN Append(log[a], clock) = DOMAIN log[a] \cup {n}
      /\ Append(log[a], clock)[n] = clock
      /\ \A i \in DOMAIN log[a] : Append(log[a], clock)[i] = log[a][i]
      /\ n \notin DOMAIN log[a]
  BY <1>4
<1>6. /\ log'[a] = Append(log[a], clock) /\ \A b \in Addrs : b # a => log'[b] = log[b]
      /\ fails'[a] = Prune(a) \cup {n} /\ \A b \in Addrs : b # a => fails'[b] = fails[b]
  BY <1>1, <1>2, <1>3 DEF LimiterTypeOK
<1> HIDE DEF n
<1>7. /\ Recent(a)' \subseteq Recent(a) \cup {n}
      /\ \A b \in Addrs : b # a => Recent(b)' = Recent(b)
  <2>1. Recent(a)' = {i \in DOMAIN Append(log[a], clock) : clock - Append(log[a], clock)[i] <= Window}
    BY <1>1, <1>6 DEF Recent
  <2>2. Recent(a)' \subseteq Recent(a) \cup {n}
    BY <1>5, <2>1 DEF Recent
  <2>3. ASSUME NEW b \in Addrs, b # a PROVE Recent(b)' = Recent(b)
    <3>1. log'[b] = log[b]
      BY <1>6, <2>3
    <3> QED
      BY <1>1, <3>1 DEF Recent
  <2> QED
    BY <2>2, <2>3
<1>8. LimiterTypeOK'
  <2>1. log' \in [Addrs -> Seq(0..MaxTicks)]
    BY <1>1, <1>2, <1>3, <1>5 DEF LimiterTypeOK
  <2>2. Prune(a) \subseteq DOMAIN log[a] /\ Prune(a) \subseteq Nat /\ n \in Nat
    BY <1>2, <1>3, <1>4 DEF Prune, LimiterTypeOK, n
  <2>3. fails' \in [Addrs -> SUBSET Nat]
    BY <1>1, <1>2, <1>3, <2>2 DEF LimiterTypeOK
  <2>4. \A b \in Addrs : fails'[b] \subseteq DOMAIN log'[b]
    BY <1>2, <1>5, <1>6, <2>2 DEF LimiterTypeOK
  <2> QED
    BY <1>1, <1>2, <1>3, <2>1, <2>3, <2>4 DEF LimiterTypeOK
<1>9. \A b \in Addrs : Recent(b)' \subseteq fails'[b]
  <2> SUFFICES ASSUME NEW b \in Addrs PROVE Recent(b)' \subseteq fails'[b]
    OBVIOUS
  <2>1. CASE b = a
    <3>1. Prune(a) = Recent(a)
      BY <1>3, PrunedIsRecent
    <3> QED
      BY <1>6, <1>7, <2>1, <3>1
  <2>2. CASE b # a
    BY <1>6, <1>7, <2>2 DEF LimiterInv
  <2> QED
    BY <2>1, <2>2
<1>10. \A b \in Addrs : Cardinality(UnderWay(b)') <= peak'[b]
  <2> SUFFICES ASSUME NEW b \in Addrs PROVE Cardinality(UnderWay(b)') <= peak[b]
    BY <1>1
  <2>1. Cardinality(UnderWay(b)) \in Nat /\ peak[b] \in Nat
    BY <1>2, LimiterFinite DEF LimiterTypeOK
  <2> QED
    BY <1>3, <2>1 DEF LimiterInv
<1>11. OverrunByOverlap'
  <2> SUFFICES ASSUME NEW b \in Addrs
               PROVE  Cardinality(Recent(b)') + Cardinality(UnderWay(b)')
                          <= MaxFails - 1 + (IF peak[b] = 0 THEN 1 ELSE peak[b])
    BY <1>1 DEF OverrunByOverlap
  <2>1. /\ IsFiniteSet(Recent(b)) /\ Cardinality(Recent(b)) \in Nat
        /\ Cardinality(UnderWay(b)) \in Nat /\ peak[b] \in Nat
    BY <1>2, LimiterFinite DEF LimiterTypeOK
  <2>2. Cardinality(Recent(b)) + Cardinality(UnderWay(b))
            <= MaxFails - 1 + (IF peak[b] = 0 THEN 1 ELSE peak[b])
    BY DEF LimiterInv, OverrunByOverlap
  <2>3. CASE b = a
    <3>1. /\ IsFiniteSet(Recent(b) \cup {n})
          /\ Cardinality(Recent(b) \cup {n}) <= Cardinality(Recent(b)) + 1
      <4>1. /\ IsFiniteSet(Recent(b) \cup {n})
            /\ Cardinality(Recent(b) \cup {n}) =
                  IF n \in Recent(b) THEN Cardinality(Recent(b)) ELSE Cardinality(Recent(b)) + 1
        BY <2>1, FS_AddElement
      <4> QED
        BY <2>1, <4>1
    <3>2. Cardinality(Recent(b)') <= Cardinality(Recent(b) \cup {n}) /\ IsFiniteSet(Recent(b)')
      <4>1. Recent(b)' \in SUBSET (Recent(b) \cup {n})
        BY <1>7, <2>3
      <4> QED
        BY <3>1, <4>1, FS_Subset
    <3>3. Cardinality(Recent(b)') \in Nat /\ Cardinality(Recent(b) \cup {n}) \in Nat
      BY <3>1, <3>2, FS_CardinalityType
    <3>4. Cardinality(UnderWay(b)') = Cardinality(UnderWay(b)) - 1
      BY <1>3, <2>3
    <3> QED
      BY <2>1, <2>2, <3>1, <3>2, <3>3, <3>4, LimitsAssumption
  <2>4. CASE b # a
    BY <1>3, <1>7, <2>1, <2>2, <2>4, LimitsAssumption
  <2> QED
    BY <2>3, <2>4
<1> QED
  BY <1>8, <1>9, <1>10, <1>11 DEF LimiterInv

\* No more of the window's failures and no more logins than before.
LEMMA LimiterShrinks ==
    ASSUME LimiterInv, LimiterTypeOK', peak' = peak,
           \A a \in Addrs : Recent(a)' \subseteq Recent(a) /\ Recent(a)' \subseteq fails'[a],
           \A a \in Addrs : Cardinality(UnderWay(a)') <= Cardinality(UnderWay(a))
    PROVE  LimiterInv'
<1> SUFFICES ASSUME NEW a \in Addrs
             PROVE  /\ Cardinality(UnderWay(a)') <= peak[a]
                    /\ Cardinality(Recent(a)') + Cardinality(UnderWay(a)')
                           <= MaxFails - 1 + (IF peak[a] = 0 THEN 1 ELSE peak[a])
  BY DEF LimiterInv, OverrunByOverlap
<1>1. /\ IsFiniteSet(Recent(a)) /\ Cardinality(Recent(a)) \in Nat
      /\ Cardinality(UnderWay(a)) \in Nat /\ peak[a] \in Nat
  BY LimiterFinite DEF LimiterInv, LimiterTypeOK
<1>2. UnderWay(a)' \subseteq Callers
  BY DEF UnderWay
<1>3. Cardinality(UnderWay(a)') \in Nat
  BY <1>2, CallersAssumption, FS_Subset, FS_CardinalityType
<1>4. Cardinality(Recent(a)') <= Cardinality(Recent(a)) /\ Cardinality(Recent(a)') \in Nat
  BY <1>1, FS_Subset, FS_CardinalityType
<1> QED
  BY <1>1, <1>3, <1>4, LimitsAssumption DEF LimiterInv, OverrunByOverlap

LEMMA LimiterInvNext == LimiterInv /\ [LimiterNext]_limiterVars => LimiterInv'
<1> SUFFICES ASSUME LimiterInv, [LimiterNext]_limiterVars PROVE LimiterInv'
  OBVIOUS
<1>0. LimiterTypeOK
  BY DEF LimiterInv
<1>1. ASSUME NEW c \in Callers, NEW a \in Addrs, Deny(c, a) PROVE LimiterInv'
  <2>1. fails' = [fails EXCEPT ![a] = Prune(a)] /\ UNCHANGED <<clock, from, log, peak>>
    BY <1>1 DEF Deny
  <2>2. LimiterTypeOK'
    BY <1>0, <2>1 DEF LimiterTypeOK, Prune
  <2>3. \A b \in Addrs : Recent(b)' = Recent(b) /\ UnderWay(b)' = UnderWay(b)
    BY <2>1 DEF Recent, UnderWay
  <2>4. \A b \in Addrs : Recent(b) \subseteq fails'[b]
    BY <1>0, <2>1, PrunedIsRecent DEF LimiterInv, LimiterTypeOK
  <2>5. \A b \in Addrs : Cardinality(UnderWay(b)) \in Nat
    BY <1>0, LimiterFinite
  <2> QED
    BY <2>1, <2>2, <2>3, <2>4, <2>5, LimiterShrinks
<1>2. ASSUME NEW c \in Callers, BadRequest(c) PROVE LimiterInv'
  <2>1. /\ from[c] # Nowhere /\ from' = [from EXCEPT ![c] = Nowhere]
        /\ UNCHANGED <<clock, fails, log, peak>>
    BY <1>2 DEF BadRequest
  <2>2. LimiterTypeOK'
    BY <1>0, <2>1, LoginEnds DEF LimiterTypeOK
  <2>3. \A b \in Addrs : Recent(b)' = Recent(b)
    BY <2>1 DEF Recent
  <2> QED
    BY <1>0, <2>1, <2>2, <2>3, LoginEnds, LimiterShrinks DEF LimiterInv
<1>3. ASSUME NEW c \in Callers, Succeed(c) PROVE LimiterInv'
  <2>2. PICK a \in Addrs : a = from[c]
    BY <1>0, <1>3 DEF Succeed, LimiterTypeOK
  <2>1. /\ from[c] # Nowhere /\ from' = [from EXCEPT ![c] = Nowhere]
        /\ fails' = [fails EXCEPT ![a] = {}] /\ log' = [log EXCEPT ![a] = <<>>]
        /\ clock' = clock /\ peak' = peak
    BY <1>3, <2>2 DEF Succeed
  <2>3. /\ fails'[a] = {} /\ log'[a] = <<>>
        /\ \A b \in Addrs : b # a => fails'[b] = fails[b] /\ log'[b] = log[b]
    BY <1>0, <2>1, <2>2 DEF LimiterTypeOK
  <2>4. LimiterTypeOK'
    <3>1. <<>> \in Seq(0..MaxTicks) /\ {} \in SUBSET Nat
      OBVIOUS
    <3>2. from' \in [Callers -> Addrs \cup {Nowhere}]
      BY <1>0, <2>1 DEF LimiterTypeOK
    <3> QED
      BY <1>0, <2>1, <2>2, <2>3, <3>1, <3>2 DEF LimiterTypeOK
  <2>5. ASSUME NEW b \in Addrs
        PROVE  Recent(b)' \subseteq Recent(b) /\ Recent(b)' \subseteq fails'[b]
    <3>1. CASE b = a
      <4>1. DOMAIN log'[b] = {}
        BY <2>3, <3>1
      <4> QED
        BY <4>1 DEF Recent
    <3>2. CASE b # a
      <4>1. log'[b] = log[b] /\ fails'[b] = fails[b]
        BY <2>3, <3>2
      <4>2. Recent(b)' = Recent(b)
        BY <2>1, <4>1 DEF Recent
      <4> QED
        BY <4>1, <4>2 DEF LimiterInv
    <3> QED
      BY <3>1, <3>2
  <2> QED
    BY <1>0, <2>1, <2>4, <2>5, LoginEnds, LimiterShrinks
<1>4. CASE LimiterTick
  <2>1. clock < MaxTicks /\ clock' = clock + 1 /\ UNCHANGED <<fails, from, log, peak>>
    BY <1>4 DEF LimiterTick
  <2>2. LimiterTypeOK'
    BY <1>0, <2>1, MaxTicksAssumption DEF LimiterTypeOK
  <2>3. ASSUME NEW b \in Addrs
        PROVE  UnderWay(b)' = UnderWay(b) /\ Recent(b)' \subseteq Recent(b) /\ Recent(b)' \subseteq fails'[b]
    <3>1. UnderWay(b)' = UnderWay(b)
      BY <2>1 DEF UnderWay
    <3>2. \A i \in DOMAIN log[b] : log[b][i] \in Nat /\ clock \in Nat
      BY <1>0, MaxTicksAssumption DEF LimiterTypeOK
    <3>3. Recent(b)' \subseteq Recent(b)
      BY <2>1, <3>2, LimitsAssumption DEF Recent
    <3> QED
      BY <2>1, <3>1, <3>3 DEF LimiterInv
  <2>4. \A b \in Addrs : Cardinality(UnderWay(b)) \in Nat
    BY <1>0, LimiterFinite
  <2> QED
    BY <2>1, <2>2, <2>3, <2>4, LimiterShrinks
<1>5. CASE UNCHANGED limiterVars
  BY <1>5 DEF limiterVars, LimiterInv, LimiterTypeOK, Recent, UnderWay, OverrunByOverlap
<1> QED
  BY <1>1, <1>2, <1>3, <1>4, <1>5, AllowInv, FailInv DEF LimiterNext

LEMMA LimiterInvHolds == LimiterSpec => []LimiterInv
  BY LimiterInvInit, LimiterInvNext, PTL DEF LimiterSpec

\* The limiter is well typed.
THEOREM LimiterTypeCorrect == LimiterSpec => []LimiterTypeOK
<1>1. LimiterInv => LimiterTypeOK
  BY DEF LimiterInv
<1> QED
  BY <1>1, LimiterInvHolds, PTL

\* Only logins that overlap overrun the limit, by one each: for any number of
\* logins and addresses, any limit and any window.
THEOREM OverrunHolds == LimiterSpec => []OverrunByOverlap
<1>1. LimiterInv => OverrunByOverlap
  BY DEF LimiterInv
<1> QED
  BY <1>1, LimiterInvHolds, PTL

\* The pruned list decides as the whole history of failures would.
THEOREM RefusedWithCauseHolds == LimiterSpec => []RefusedWithCause
<1>1. LimiterInv => RefusedWithCause
  BY PrunedIsRecent DEF RefusedWithCause, Admits
<1> QED
  BY <1>1, LimiterInvHolds, PTL

===============================================================================
