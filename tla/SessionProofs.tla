----------------------------- MODULE SessionProofs -----------------------------
(***************************************************************************)
(* Theorems about what a session makes of the browser's events: that it    *)
(* keeps to one tab (SingleTab), whom it books navigations to (NavSource), *)
(* and what becomes of the records it makes of them (AuditLog).            *)
(***************************************************************************)
EXTENDS SingleTab, NavSource, AuditLog, SequenceTheorems, FiniteSetTheorems,
        WellFoundedInduction, TLAPS

-----------------------------------------------------------------------------
(* Lemmas about the sequence of events. *)

\* The events that wait, in whatever order.
Reported == {events[i] : i \in DOMAIN events}

LEMMA ReportType ==
    ASSUME TypeOK,
           NEW kind \in {"created", "changed", "destroyed"}, NEW t \in Tabs,
           NEW shows \in Shown \cup {Nothing}
    PROVE  Report(kind, t, shows) \in Seq(Events)
  BY AppendProperties DEF Report, Events, TypeOK

\* A report joins the events that wait.
LEMMA ReportJoins ==
    ASSUME TypeOK,
           NEW kind \in {"created", "changed", "destroyed"}, NEW t \in Tabs,
           NEW shows \in Shown \cup {Nothing}, events' = Report(kind, t, shows)
    PROVE  Reported' = Reported \cup {[kind |-> kind, tab |-> t, shows |-> shows]}
  <1> DEFINE e == [kind |-> kind, tab |-> t, shows |-> shows]
  <1>1. e \in Events /\ events \in Seq(Events)
    BY DEF Events, TypeOK
  <1> HIDE DEF e
  <1> DEFINE new == Append(events, e)
  <1>2. /\ new \in Seq(Events)
        /\ Len(new) = Len(events) + 1
        /\ \A i \in 1..Len(events) : new[i] = events[i]
        /\ new[Len(events) + 1] = e
    BY <1>1, AppendProperties
  <1>3. /\ DOMAIN events = 1..Len(events) /\ Len(events) \in Nat
        /\ DOMAIN new = 1..(Len(events) + 1)
    BY <1>1, <1>2, LenProperties
  <1>4. events' = new
    BY DEF Report, e
  <1> HIDE DEF new
  <1>5. Reported' = Reported \cup {e}
    BY <1>2, <1>3, <1>4 DEF Reported
  <1> QED
    BY <1>5 DEF e

LEMMA ReportNews ==
    ASSUME TypeOK,
           NEW kind \in {"created", "changed", "destroyed"}, NEW t \in Tabs,
           NEW shows \in Shown \cup {Nothing}, events' = Report(kind, t, shows)
    PROVE  \E e \in Reported' : e.kind = kind /\ e.tab = t /\ e.shows = shows
  <1> DEFINE e == [kind |-> kind, tab |-> t, shows |-> shows]
  <1>1. e \in Reported'
    BY ReportJoins
  <1>2. e.kind = kind /\ e.tab = t /\ e.shows = shows
    OBVIOUS
  <1> HIDE DEF e
  <1> QED
    BY <1>1, <1>2

\* The first event is handled.
LEMMA HandledType ==
    ASSUME TypeOK, events # <<>>
    PROVE  /\ Head(events) \in Events /\ Head(events) = events[1]
           /\ Tail(events) \in Seq(Events)
           /\ 1 \in DOMAIN events
           /\ \A i \in DOMAIN Tail(events) : i + 1 \in DOMAIN events /\ Tail(events)[i] = events[i + 1]
           /\ \A i \in DOMAIN events : i # 1 => i - 1 \in DOMAIN Tail(events)
                                                /\ Tail(events)[i - 1] = events[i]
  <1>1. events \in Seq(Events)
    BY DEF TypeOK
  <1>2. /\ Head(events) \in Events /\ Tail(events) \in Seq(Events)
        /\ Len(Tail(events)) = Len(events) - 1
        /\ \A i \in 1..Len(Tail(events)) : Tail(events)[i] = events[i + 1]
    BY <1>1, HeadTailProperties
  <1>3. /\ DOMAIN events = 1..Len(events) /\ DOMAIN Tail(events) = 1..Len(Tail(events))
        /\ Len(events) \in Nat \ {0}
    BY <1>1, <1>2, LenProperties, EmptySeq
  <1>4. Head(events) = events[1]
    OBVIOUS
  <1> QED
    BY <1>2, <1>3, <1>4

\* The first event leaves them.
LEMMA HandledLeaves ==
    ASSUME TypeOK, events # <<>>, events' = Tail(events)
    PROVE  Reported' \subseteq Reported /\ Reported \subseteq Reported' \cup {Head(events)}
  BY HandledType DEF Reported

-----------------------------------------------------------------------------
(* Type correctness. *)

\* What NavigateMain and Close leave of the types.
LEMMA NavigateMainType ==
    ASSUME TypeOK, NavigateMain
    PROVE  url' \in [Tabs -> Shown \cup {"new", "closed"}] /\ events' \in Seq(Events)
  BY AttachedAssumption, ReportType DEF NavigateMain, TypeOK, Shown

LEMMA CloseType ==
    ASSUME TypeOK, NEW t \in Tabs, Close(t)
    PROVE  /\ url' \in [Tabs -> Shown \cup {"new", "closed"}] /\ events' \in Seq(Events)
           /\ selfClosed' \in BOOLEAN
  BY ReportType DEF Close, TypeOK, Shown

LEMMA TypeNext == TypeOK /\ [Next]_vars => TypeOK'
<1> SUFFICES ASSUME TypeOK, [Next]_vars
             PROVE  TypeOK'
  OBVIOUS
<1> USE BoundAssumption
<1>1. CASE UNCHANGED vars
  BY <1>1 DEF vars, TypeOK
<1>2. ASSUME NEW t \in Tabs, NEW u \in Shown, OpenTab(t, u) \/ NavigateTab(t, u)
      PROVE  TypeOK'
  <2>1. events' \in Seq(Events)
    <3>1. events' = Report("created", t, u) \/ events' = Report("changed", t, u)
      BY <1>2 DEF OpenTab, NavigateTab
    <3> QED
      BY <3>1, ReportType
  <2>2. url' \in [Tabs -> Shown \cup {"new", "closed"}]
    BY <1>2 DEF OpenTab, NavigateTab, TypeOK
  <2> QED
    BY <1>2, <2>1, <2>2 DEF OpenTab, NavigateTab, Move, TypeOK
<1>3. ASSUME NEW t \in Tabs, CloseTab(t)
      PROVE  TypeOK'
  <2>1. events' \in Seq(Events)
    BY <1>3, ReportType DEF CloseTab
  <2> QED
    BY <1>3, <2>1 DEF CloseTab, Move, TypeOK
<1>4. CASE HandleEvent
  <2>1. Head(events) \in Events /\ Tail(events) \in Seq(Events)
    BY <1>4, HandledType DEF HandleEvent
  <2>2. /\ mainID' \in Tabs \cup {Nothing} /\ deny' \in BOOLEAN
        /\ adopts' \subseteq adopts \cup {Head(events).tab}
        /\ closers' \subseteq closers \cup {Head(events).tab}
    <3>1. Head(events).tab \in Tabs
      BY <2>1 DEF Events
    <3> QED
      BY <1>4, <3>1 DEF HandleEvent, HandleExtraPage, HandleMainPage, TypeOK
  <2> QED
    BY <1>4, <2>1, <2>2 DEF HandleEvent, TypeOK, Events
<1>5. ASSUME NEW t \in Tabs, TestMain(t) \/ CloseExtra(t) \/ Adopt(t)
      PROVE  TypeOK'
  <2>1. CASE TestMain(t)
    BY <2>1 DEF TestMain, TypeOK
  <2>2. CASE CloseExtra(t)
    BY <2>2, CloseType DEF CloseExtra, TypeOK
  <2>3. CASE Adopt(t)
    BY <2>3, NavigateMainType DEF Adopt, TypeOK
  <2> QED
    BY <1>5, <2>1, <2>2, <2>3
<1>6. CASE Poll
  BY <1>6, AttachedAssumption DEF Poll, Doomed, Destination, Pages, TypeOK
<1>7. ASSUME NEW t \in Tabs, CloseDoomed(t)
      PROVE  TypeOK'
  BY <1>7, CloseType DEF CloseDoomed, TypeOK
<1>8. CASE EndEnforce
  <2>1. url' \in [Tabs -> Shown \cup {"new", "closed"}] /\ events' \in Seq(Events)
    BY <1>8, NavigateMainType DEF EndEnforce, TypeOK
  <2>2. /\ loop' \in {"select", "enforce", "ended"} /\ goto' \in {"none", "adopt", "home"}
        /\ mainID' \in Tabs \cup {Nothing} /\ deny' \in BOOLEAN
        /\ closers' \in SUBSET Tabs /\ condemned' \in SUBSET Tabs
        /\ adopts' \in SUBSET Tabs /\ doomed' \in SUBSET Tabs
        /\ moves' \in 0..MaxMoves /\ fails' \in 0..MaxFails
        /\ startedOn' \in Tabs /\ selfClosed' \in BOOLEAN
    BY <1>8, Zenon DEF EndEnforce, TypeOK
  <2> QED
    BY <2>1, <2>2, Zenon DEF TypeOK
<1>9. CASE PollFails
  <2>1. fails' \in 0..MaxFails
    BY <1>9 DEF PollFails, Fail, TypeOK
  <2> QED
    BY <1>9, <2>1, Zenon DEF PollFails, TypeOK
<1>10. ASSUME NEW t \in Tabs, CloseFails(t)
       PROVE  TypeOK'
  BY <1>10 DEF CloseFails, Fail, TypeOK
<1>11. CASE NavigateFails
  <2>1. fails' \in 0..MaxFails /\ adopts' \in SUBSET Tabs
    BY <1>11 DEF NavigateFails, Fail, TypeOK
  <2>2. loop' \in {"select", "enforce", "ended"} /\ goto' \in {"none", "adopt", "home"}
    BY <1>11 DEF NavigateFails, TypeOK
  <2> QED
    BY <1>11, <2>1, <2>2, Zenon DEF NavigateFails, TypeOK
<1> QED
  BY <1>1, <1>2, <1>3, <1>4, <1>5, <1>6, <1>7, <1>8, <1>9, <1>10, <1>11
     DEF Next, Environment, Callback, Enforce

LEMMA TypeInit == Init => TypeOK
<1> SUFFICES ASSUME Init
             PROVE  TypeOK
  OBVIOUS
<1>1. url \in [Tabs -> Shown \cup {"new", "closed"}]
  BY DEF Init, Shown
<1>2. events \in Seq(Events)
  BY EmptySeq DEF Init
<1>3. mainID \in Tabs /\ startedOn \in Tabs
  BY DEF Init, Pages
<1>4. moves \in 0..MaxMoves /\ fails \in 0..MaxFails
  BY BoundAssumption DEF Init
<1>5. /\ closers \in SUBSET Tabs /\ condemned \in SUBSET Tabs
      /\ adopts \in SUBSET Tabs /\ doomed \in SUBSET Tabs
      /\ deny \in BOOLEAN /\ loop \in {"select", "enforce", "ended"}
      /\ goto \in {"none", "adopt", "home"} /\ selfClosed \in BOOLEAN
  BY DEF Init
<1> QED
  BY <1>1, <1>2, <1>3, <1>4, <1>5, Zenon DEF TypeOK

\* Every variable of the session's enforcement keeps its type.
\* Code: browser_session.go and browser_guards.go.
THEOREM TypeCorrect == Spec => []TypeOK
  BY TypeInit, TypeNext, PTL DEF Spec


-----------------------------------------------------------------------------
(* The kiosk's own page. *)

\* An event that a page has gone is true for ever.
GoneIsGone == \A e \in Reported : e.kind = "destroyed" => url[e.tab] = "closed"

\* As long as the attached page is open, mainID names it and no goroutine and no
\* enforcement has it on its list.
MainKept ==
    startedOn = Attached =>
        /\ ~selfClosed
        /\ Open(Attached) => mainID = Attached /\ Attached \notin closers \cup condemned \cup doomed

\* The attached page was opened before the session began.
TabInv ==
    /\ url[Attached] # "new"
    /\ loop = "ended" => url[Attached] = "closed"
    /\ GoneIsGone
    /\ MainKept

LEMMA TabInit == Init => TabInv
<1> SUFFICES ASSUME Init
             PROVE  TabInv
  OBVIOUS
<1>1. url[Attached] = "ok"
  BY AttachedAssumption DEF Init
<1>2. Reported = {}
  BY DEF Init, Reported
<1>3. MainKept
  BY DEF Init, MainKept
<1> QED
  BY <1>1, <1>2, <1>3 DEF Init, TabInv, GoneIsGone

\* No page comes back.
LEMMA ClosedStays ==
    ASSUME TypeOK, [Next]_vars, NEW t \in Tabs, url[t] = "closed"
    PROVE  url'[t] = "closed"
  BY DEF TypeOK, Next, vars, Environment, Callback, Enforce, OpenTab, NavigateTab, CloseTab,
         HandleEvent, TestMain, CloseExtra, Adopt, Poll, CloseDoomed, EndEnforce, PollFails,
         CloseFails, NavigateFails, Close, NavigateMain, Open, Shown

\* Only the end of a page is reported as one.
LEMMA GoneNext ==
    ASSUME TypeOK, GoneIsGone, [Next]_vars
    PROVE  GoneIsGone'
<1>0. \A e \in Reported : e.tab \in Tabs
  <2>1. \A i \in DOMAIN events : events[i] \in Events
    BY LenProperties DEF TypeOK
  <2> QED
    BY <2>1 DEF Events, Reported
<1>1. ASSUME Reported' \subseteq Reported
      PROVE  GoneIsGone'
  BY <1>0, <1>1, ClosedStays DEF GoneIsGone
<1>2. ASSUME NEW kind \in {"created", "changed", "destroyed"}, NEW t \in Tabs,
             NEW shows \in Shown \cup {Nothing}, events' = Report(kind, t, shows),
             kind = "destroyed" => url'[t] = "closed"
      PROVE  GoneIsGone'
  <2>1. Reported' = Reported \cup {[kind |-> kind, tab |-> t, shows |-> shows]}
    BY <1>2, ReportJoins
  <2> QED
    BY <1>0, <1>2, <2>1, ClosedStays DEF GoneIsGone
<1>3. ASSUME NEW t \in Tabs, Close(t)
      PROVE  GoneIsGone'
  <2>1. CASE Open(t)
    BY <1>2, <1>3, <2>1 DEF Close, TypeOK
  <2>2. CASE ~Open(t)
    BY <1>1, <1>3, <2>2 DEF Close, Reported
  <2> QED
    BY <2>1, <2>2
<1>4. ASSUME NavigateMain
      PROVE  GoneIsGone'
  BY <1>1, <1>2, <1>4, AttachedAssumption DEF NavigateMain, Shown, Reported
<1>5. CASE UNCHANGED events
  BY <1>1, <1>5 DEF Reported
<1>6. CASE Environment
  <2>1. ASSUME NEW t \in Tabs, NEW u \in Shown, OpenTab(t, u) \/ NavigateTab(t, u)
        PROVE  GoneIsGone'
    BY <1>2, <2>1 DEF OpenTab, NavigateTab
  <2>2. ASSUME NEW t \in Tabs, CloseTab(t)
        PROVE  GoneIsGone'
    BY <1>2, <2>2 DEF CloseTab, TypeOK
  <2> QED
    BY <1>6, <2>1, <2>2 DEF Environment
<1>7. CASE HandleEvent
  BY <1>1, <1>7, HandledLeaves DEF HandleEvent
<1>8. ASSUME NEW t \in Tabs, TestMain(t) \/ CloseExtra(t) \/ Adopt(t)
      PROVE  GoneIsGone'
  BY <1>3, <1>4, <1>5, <1>8 DEF TestMain, CloseExtra, Adopt
<1>9. CASE Enforce
  BY <1>3, <1>4, <1>5, <1>9 DEF Enforce, CloseDoomed, EndEnforce
<1>10. CASE Poll \/ PollFails \/ NavigateFails \/ \E t \in Tabs : CloseFails(t)
  BY <1>5, <1>10 DEF Poll, PollFails, NavigateFails, CloseFails
<1> QED
  BY <1>5, <1>6, <1>7, <1>8, <1>9, <1>10 DEF Next, Callback, vars

LEMMA TabNext == TypeOK /\ TabInv /\ [Next]_vars => TabInv'
<1> SUFFICES ASSUME TypeOK, TabInv, [Next]_vars
             PROVE  TabInv'
  OBVIOUS
<1> USE AttachedAssumption
<1>0. url[Attached] \in Shown \cup {"closed"}
  BY DEF TypeOK, TabInv
<1>1. url'[Attached] # "new"
  BY <1>0 DEF TypeOK, Next, vars, Environment, Callback, Enforce, OpenTab, NavigateTab, CloseTab,
         HandleEvent, TestMain, CloseExtra, Adopt, Poll, CloseDoomed, EndEnforce, PollFails,
         CloseFails, NavigateFails, Close, NavigateMain, Open, Shown
<1>2. loop' = "ended" => url'[Attached] = "closed"
  <2>1. CASE loop = "ended"
    BY <2>1, ClosedStays DEF TabInv
  <2>2. CASE loop # "ended" /\ loop' = "ended"
    <3>1. Poll /\ Lost
      BY <2>2 DEF Next, vars, Environment, Callback, Enforce, OpenTab, NavigateTab, CloseTab,
         HandleEvent, TestMain, CloseExtra, Adopt, Poll, CloseDoomed, EndEnforce, PollFails,
         CloseFails, NavigateFails
    <3> QED
      BY <1>0, <3>1 DEF Poll, Lost, Pages, Open
  <2> QED
    BY <2>1, <2>2
<1>3. GoneIsGone'
  BY GoneNext DEF TabInv
<1>4. MainKept'
  <2> SUFFICES ASSUME startedOn' = Attached
               PROVE  /\ ~selfClosed'
                      /\ Open(Attached)' => /\ mainID' = Attached
                                            /\ Attached \notin closers' \cup condemned' \cup doomed'
    BY DEF MainKept
  <2>0. startedOn = Attached
    BY DEF Next, vars, Environment, Callback, Enforce, OpenTab, NavigateTab, CloseTab,
         HandleEvent, TestMain, CloseExtra, Adopt, Poll, CloseDoomed, EndEnforce, PollFails,
         CloseFails, NavigateFails
  <2>1. /\ ~selfClosed
        /\ Open(Attached) => mainID = Attached /\ Attached \notin closers \cup condemned \cup doomed
    BY <2>0 DEF TabInv, MainKept
  <2>2. Open(Attached)' => Open(Attached)
    BY <1>0, <1>1, ClosedStays DEF Open, Shown
  <2>3. CASE UNCHANGED vars
    BY <2>1, <2>3 DEF vars, Open
  <2>4. CASE Environment
    BY <2>1, <2>2, <2>4 DEF Environment, OpenTab, NavigateTab, CloseTab
  <2>5. CASE HandleEvent
    <3>1. Head(events) \in Reported
      BY <2>5, HandledType DEF HandleEvent, Reported
    <3>2. CASE Open(Attached)
      <4>1. ~(Head(events).kind = "destroyed" /\ Head(events).tab = Attached)
        BY <3>1, <3>2 DEF TabInv, GoneIsGone, Open, Shown
      <4>2. mainID = Attached
        BY <2>1, <3>2
      <4>3. mainID' = Attached
        BY <2>5, <4>1, <4>2, NothingAssumption DEF HandleEvent, HandleExtraPage, HandleMainPage
      <4>4. Attached \notin closers'
        BY <2>1, <2>5, <3>2, <4>2 DEF HandleEvent, HandleExtraPage, HandleMainPage
      <4>5. UNCHANGED <<selfClosed, condemned, doomed>>
        BY <2>5 DEF HandleEvent
      <4> QED
        BY <2>1, <3>2, <4>3, <4>4, <4>5
    <3> QED
      BY <2>1, <2>2, <2>5, <3>2 DEF HandleEvent
  <2>6. ASSUME NEW t \in Tabs, TestMain(t) \/ Adopt(t) \/ CloseExtra(t) \/ CloseDoomed(t) \/ CloseFails(t)
        PROVE  /\ ~selfClosed'
               /\ Open(Attached)' => /\ mainID' = Attached
                                     /\ Attached \notin closers' \cup condemned' \cup doomed'
    <3>1. CASE TestMain(t)
      BY <2>1, <2>2, <3>1 DEF TestMain
    <3>2. CASE Adopt(t) \/ CloseFails(t)
      BY <2>1, <2>2, <3>2 DEF Adopt, CloseFails
    <3>3. CASE CloseExtra(t)
      BY <2>1, <2>2, <3>3 DEF CloseExtra, Close
    <3>4. CASE CloseDoomed(t)
      BY <2>1, <2>2, <3>4 DEF CloseDoomed, Close
    <3> QED
      BY <2>6, <3>1, <3>2, <3>3, <3>4
  <2>7. CASE Poll
    BY <2>1, <2>2, <2>7 DEF Poll, Lost, Doomed, Pages
  <2>8. CASE EndEnforce \/ PollFails \/ NavigateFails
    BY <2>1, <2>2, <2>8 DEF EndEnforce, PollFails, NavigateFails
  <2> QED
    BY <2>3, <2>4, <2>5, <2>6, <2>7, <2>8 DEF Next, Callback, Enforce
<1> QED
  BY <1>1, <1>2, <1>3, <1>4 DEF TabInv

LEMMA TabAlways == Spec => [](TypeOK /\ TabInv)
<1>1. Init => TypeOK /\ TabInv
  BY TypeInit, TabInit
<1>2. TypeOK /\ TabInv /\ [Next]_vars => (TypeOK /\ TabInv)'
  BY TypeNext, TabNext
<1> QED
  BY <1>1, <1>2, PTL DEF Spec

\* The kiosk never closes its own page in a session that began with the right
\* mainID, however the events, the goroutines and the enforcement interleave.
\* Code: closeExtraTarget, enforceSingleTab and resolveMainID in
\* browser_session.go and browser_guards.go.
THEOREM OwnPageKept == Spec => []NeverClosesItself
<1>1. TabInv => NeverClosesItself
  BY DEF TabInv, MainKept, NeverClosesItself
<1> QED
  BY <1>1, TabAlways, PTL

-----------------------------------------------------------------------------
(* The events keep the kiosk to one page. *)

\* An event of t that handleExtraPage closes t for.
ToClose(t) ==
    \E e \in Reported : e.tab = t /\ (e.kind = "changed" \/ (e.kind = "created" /\ e.shows # "blank"))

LossReported    == \E e \in Reported : e.tab = Attached /\ e.kind = "destroyed"
RefusalReported == \E e \in Reported : e.tab = Attached /\ e.kind = "changed" /\ e.shows = "bad"

\* The loss of the attached page is or will be known: onBrowserEvent leaves a token.
LossKnown ==
    ~Open(Attached) =>
        \/ loop = "ended"
        \/ deny
        \/ mainID = Attached /\ LossReported

\* A page that is not the main one and not blank is on somebody's list.
ExtraKnown ==
    Open(Attached) =>
        \A t \in Pages \ {Attached} :
            url[t] = "blank" \/ t \in closers \cup condemned \cup doomed \/ ToClose(t)

\* A refused main page is or will be known, or is about to be left.
RefusedKnown ==
    url[Attached] = "bad" =>
        \/ deny
        \/ loop = "enforce" /\ goto # "none"
        \/ RefusalReported

EventInv ==
    /\ loop # "enforce" => doomed = {}
    /\ startedOn = Attached /\ fails = 0 => LossKnown /\ ExtraKnown /\ RefusedKnown

LEMMA EventInit == Init => EventInv
<1> SUFFICES ASSUME Init, startedOn = Attached
             PROVE  LossKnown /\ ExtraKnown /\ RefusedKnown
  BY DEF Init, EventInv
<1>1. url[Attached] = "ok" /\ \A t \in Pages \ {Attached} : url[t] = "blank"
  BY AttachedAssumption DEF Init, Pages, Open, Shown
<1> QED
  BY <1>1 DEF LossKnown, ExtraKnown, RefusedKnown, Open, Shown

\* Reports join, so that what is known stays known.
LEMMA MoreReported ==
    ASSUME Reported \subseteq Reported'
    PROVE  /\ LossReported => LossReported'
           /\ RefusalReported => RefusalReported'
           /\ \A t \in Tabs : ToClose(t) => ToClose(t)'
  BY DEF ToClose, LossReported, RefusalReported

LEMMA EventNext == TypeOK /\ TabInv /\ EventInv /\ [Next]_vars => EventInv'
<1> SUFFICES ASSUME TypeOK, TabInv, EventInv, [Next]_vars
             PROVE  EventInv'
  OBVIOUS
<1> USE AttachedAssumption
<1>1. loop' # "enforce" => doomed' = {}
  BY DEF EventInv, Next, vars, Environment, Callback, Enforce, OpenTab, NavigateTab, CloseTab,
         HandleEvent, TestMain, CloseExtra, Adopt, Poll, CloseDoomed, EndEnforce, PollFails,
         CloseFails, NavigateFails
<1>2. ASSUME startedOn' = Attached, fails' = 0
      PROVE  LossKnown' /\ ExtraKnown' /\ RefusedKnown'
  <2>1. startedOn = Attached /\ fails = 0 /\ ~Fail
    <3>1. startedOn' = startedOn /\ (fails' = fails \/ Fail)
      BY DEF Next, vars, Environment, Callback, Enforce, OpenTab, NavigateTab, CloseTab,
         HandleEvent, TestMain, CloseExtra, Adopt, Poll, CloseDoomed, EndEnforce, PollFails,
         CloseFails, NavigateFails
    <3>2. ~Fail
      BY <1>2 DEF Fail, TypeOK
    <3> QED
      BY <1>2, <3>1, <3>2
  <2>2. /\ LossKnown /\ ExtraKnown /\ RefusedKnown
        /\ Open(Attached) => mainID = Attached /\ Attached \notin closers \cup condemned \cup doomed
        /\ url[Attached] \in Shown \cup {"closed"}
    BY <2>1 DEF EventInv, TabInv, MainKept, TypeOK
  <2>3. CASE UNCHANGED vars
    BY <2>2, <2>3 DEF vars, LossKnown, ExtraKnown, RefusedKnown, Pages, Open, ToClose, Reported,
         LossReported, RefusalReported
  <2>4. ASSUME NEW t \in Tabs, NEW u \in Shown, OpenTab(t, u)
        PROVE  LossKnown' /\ ExtraKnown' /\ RefusedKnown'
    <3>1. Reported' = Reported \cup {[kind |-> "created", tab |-> t, shows |-> u]}
      BY <2>4, ReportJoins DEF OpenTab
    <3>2. t # Attached /\ url'[Attached] = url[Attached]
      BY <2>2, <2>4 DEF OpenTab, TypeOK, Shown
    <3>3. LossKnown'
      BY <2>2, <2>4, <3>1, <3>2, MoreReported DEF OpenTab, LossKnown, Open
    <3>4. ExtraKnown'
      <4> SUFFICES ASSUME Open(Attached)', NEW p \in Tabs \ {Attached}, Open(p)', url'[p] # "blank",
                          p \notin (closers \cup condemned \cup doomed)'
                   PROVE  ToClose(p)'
        BY DEF ExtraKnown, Pages
      <4>1. CASE p = t
        <5>1. u # "blank"
          BY <2>4, <4>1 DEF OpenTab, TypeOK
        <5> QED
          BY <2>4, <4>1, <5>1, ReportNews DEF ToClose, OpenTab
      <4>2. CASE p # t
        <5>1. Open(Attached) /\ Open(p) /\ url[p] # "blank" /\ p \notin closers \cup condemned \cup doomed
          BY <2>4, <3>2, <4>2 DEF OpenTab, Open, TypeOK
        <5>2. ToClose(p)
          BY <2>2, <5>1 DEF ExtraKnown, Pages
        <5> QED
          BY <3>1, <5>2, MoreReported
      <4> QED
        BY <4>1, <4>2
    <3>5. RefusedKnown'
      BY <2>2, <2>4, <3>1, <3>2, MoreReported DEF OpenTab, RefusedKnown
    <3> QED
      BY <3>3, <3>4, <3>5
  <2>5. ASSUME NEW t \in Tabs, NEW u \in Shown, NavigateTab(t, u)
        PROVE  LossKnown' /\ ExtraKnown' /\ RefusedKnown'
    <3>1. Reported' = Reported \cup {[kind |-> "changed", tab |-> t, shows |-> u]}
      BY <2>5, ReportJoins DEF NavigateTab
    <3>2. Open(Attached)' <=> Open(Attached)
      BY <2>5 DEF NavigateTab, Open, TypeOK
    <3>3. LossKnown'
      BY <2>2, <2>5, <3>1, <3>2, MoreReported DEF NavigateTab, LossKnown
    <3>4. ExtraKnown'
      <4> SUFFICES ASSUME Open(Attached)', NEW p \in Tabs \ {Attached}, Open(p)', url'[p] # "blank",
                          p \notin (closers \cup condemned \cup doomed)'
                   PROVE  ToClose(p)'
        BY DEF ExtraKnown, Pages
      <4>1. CASE p = t
        BY <2>5, <4>1, ReportNews DEF ToClose, NavigateTab
      <4>2. CASE p # t
        <5>1. Open(Attached) /\ Open(p) /\ url[p] # "blank" /\ p \notin closers \cup condemned \cup doomed
          BY <2>5, <3>2, <4>2 DEF NavigateTab, Open, TypeOK
        <5>2. ToClose(p)
          BY <2>2, <5>1 DEF ExtraKnown, Pages
        <5> QED
          BY <3>1, <5>2, MoreReported
      <4> QED
        BY <4>1, <4>2
    <3>5. RefusedKnown'
      <4>1. CASE t = Attached /\ u = "bad"
        BY <2>5, <4>1, ReportNews DEF RefusedKnown, RefusalReported, NavigateTab
      <4>2. CASE ~(t = Attached /\ u = "bad")
        BY <2>2, <2>5, <3>1, <4>2, MoreReported DEF NavigateTab, RefusedKnown, TypeOK
      <4> QED
        BY <4>1, <4>2
    <3> QED
      BY <3>3, <3>4, <3>5
  <2>6. ASSUME NEW t \in Tabs, Open(t), url' = [url EXCEPT ![t] = "closed"],
               events' = Report("destroyed", t, Nothing),
               UNCHANGED <<mainID, deny, closers, loop, goto>>,
               condemned \ {t} \subseteq condemned', doomed \ {t} \subseteq doomed'
        PROVE  LossKnown' /\ ExtraKnown' /\ RefusedKnown'
    <3>1. Reported' = Reported \cup {[kind |-> "destroyed", tab |-> t, shows |-> Nothing]}
      BY <2>6, ReportJoins
    <3>2. LossKnown'
      <4>1. CASE t = Attached
        <5>1. LossReported'
          BY <2>6, <4>1, ReportNews DEF LossReported
        <5> QED
          BY <2>2, <2>6, <4>1, <5>1 DEF LossKnown
      <4>2. CASE t # Attached
        <5>1. Open(Attached)' <=> Open(Attached)
          BY <2>6, <4>2 DEF Open, TypeOK
        <5> QED
          BY <2>2, <2>6, <3>1, <5>1, MoreReported DEF LossKnown
      <4> QED
        BY <4>1, <4>2
    <3>3. ExtraKnown'
      <4> SUFFICES ASSUME Open(Attached)', NEW p \in Tabs \ {Attached}, Open(p)', url'[p] # "blank",
                          p \notin (closers \cup condemned \cup doomed)'
                   PROVE  ToClose(p)'
        BY DEF ExtraKnown, Pages
      <4>1. Attached # t /\ p # t
        BY <2>6 DEF Open, Shown, TypeOK
      <4>2. Open(Attached) /\ Open(p) /\ url[p] # "blank" /\ p \notin closers \cup condemned \cup doomed
        BY <2>6, <4>1 DEF Open, TypeOK
      <4>3. ToClose(p)
        BY <2>2, <4>2 DEF ExtraKnown, Pages
      <4> QED
        BY <3>1, <4>3, MoreReported
    <3>4. RefusedKnown'
      BY <2>2, <2>6, <3>1, MoreReported DEF RefusedKnown, TypeOK
    <3> QED
      BY <3>2, <3>3, <3>4
  <2>7. ASSUME NEW t \in Tabs, CloseTab(t) \/ CloseExtra(t) \/ CloseDoomed(t)
        PROVE  LossKnown' /\ ExtraKnown' /\ RefusedKnown'
    <3>1. /\ UNCHANGED <<mainID, deny, closers, loop, goto>>
          /\ condemned \ {t} \subseteq condemned' /\ doomed \ {t} \subseteq doomed'
      BY <2>7 DEF CloseTab, CloseExtra, CloseDoomed
    <3>2. CASE Open(t)
      <4>1. url' = [url EXCEPT ![t] = "closed"] /\ events' = Report("destroyed", t, Nothing)
        BY <2>7, <3>2 DEF CloseTab, CloseExtra, CloseDoomed, Close
      <4> QED
        BY <2>6, <3>1, <3>2, <4>1
    <3>3. CASE ~Open(t)
      <4>1. UNCHANGED <<url, events>>
        BY <2>7, <3>3 DEF CloseTab, CloseExtra, CloseDoomed, Close, TypeOK
      <4>2. Reported' = Reported /\ (Open(Attached)' <=> Open(Attached))
        BY <4>1 DEF Open, Reported
      <4>3. LossKnown' /\ RefusedKnown'
        BY <2>2, <3>1, <4>1, <4>2, MoreReported DEF LossKnown, RefusedKnown
      <4>4. ExtraKnown'
        BY <2>2, <3>1, <3>3, <4>1, <4>2 DEF ExtraKnown, ToClose, Pages, Open
      <4> QED
        BY <4>3, <4>4
    <3> QED
      BY <3>2, <3>3
  <2>8. CASE HandleEvent
    <3> DEFINE e == Head(events)
    <3>1. /\ Reported' \subseteq Reported /\ Reported \subseteq Reported' \cup {e}
          /\ e \in Events /\ e \in Reported
      BY <2>8, HandledLeaves, HandledType DEF HandleEvent, Reported
    <3>2. UNCHANGED <<url, loop, goto, condemned, doomed>>
      BY <2>8 DEF HandleEvent
    <3>3. deny => deny'
      BY <2>8 DEF HandleEvent, HandleExtraPage, HandleMainPage
    <3>4. closers \subseteq closers'
      BY <2>8 DEF HandleEvent, HandleExtraPage, HandleMainPage
    <3>5. LossKnown'
      <4> SUFFICES ASSUME ~Open(Attached), loop # "ended", ~deny, mainID = Attached, LossReported
                   PROVE  deny' \/ (mainID' = Attached /\ LossReported')
        BY <2>2, <3>2, <3>3 DEF LossKnown, Open
      <4>1. CASE e.tab = Attached /\ e.kind = "destroyed"
        BY <2>8, <4>1, NothingAssumption DEF HandleEvent
      <4>2. CASE ~(e.tab = Attached /\ e.kind = "destroyed")
        <5>1. LossReported'
          BY <3>1, <4>2 DEF LossReported
        <5>2. mainID' = Attached
          BY <2>8, <4>2, NothingAssumption DEF HandleEvent, HandleExtraPage, HandleMainPage
        <5> QED
          BY <5>1, <5>2
      <4> QED
        BY <4>1, <4>2
    <3>6. ExtraKnown'
      <4> SUFFICES ASSUME Open(Attached), NEW t \in Pages \ {Attached}, url[t] # "blank",
                          t \notin closers \cup condemned \cup doomed
                   PROVE  t \in closers' \/ ToClose(t)'
        BY <2>2, <3>2, <3>4 DEF ExtraKnown, Open, Pages
      <4>1. ToClose(t) /\ mainID = Attached /\ t # Attached
        BY <2>2 DEF ExtraKnown
      <4>2. CASE e.tab = t /\ (e.kind = "changed" \/ (e.kind = "created" /\ e.shows # "blank"))
        BY <2>8, <4>1, <4>2, NothingAssumption DEF HandleEvent, HandleExtraPage
      <4>3. CASE ~(e.tab = t /\ (e.kind = "changed" \/ (e.kind = "created" /\ e.shows # "blank")))
        BY <3>1, <4>1, <4>3 DEF ToClose
      <4> QED
        BY <4>2, <4>3
    <3>7. RefusedKnown'
      <4> SUFFICES ASSUME url[Attached] = "bad", ~deny, RefusalReported
                   PROVE  deny' \/ RefusalReported'
        BY <2>2, <3>2, <3>3 DEF RefusedKnown
      <4>1. mainID = Attached
        BY <2>2 DEF Open, Shown
      <4>2. CASE e.tab = Attached /\ e.kind = "changed" /\ e.shows = "bad"
        BY <2>8, <4>1, <4>2, NothingAssumption DEF HandleEvent, HandleMainPage
      <4>3. CASE ~(e.tab = Attached /\ e.kind = "changed" /\ e.shows = "bad")
        BY <3>1, <4>3 DEF RefusalReported
      <4> QED
        BY <4>2, <4>3
    <3> QED
      BY <3>5, <3>6, <3>7
  <2>9. ASSUME NEW t \in Tabs, TestMain(t)
        PROVE  LossKnown' /\ ExtraKnown' /\ RefusedKnown'
    <3>1. LossKnown' /\ RefusedKnown'
      BY <2>2, <2>9 DEF TestMain, LossKnown, RefusedKnown, Open, Reported, LossReported, RefusalReported
    <3>2. ExtraKnown'
      BY <2>2, <2>9 DEF TestMain, ExtraKnown, ToClose, Pages, Open, Reported
    <3> QED
      BY <3>1, <3>2
  <2>10. ASSUME NavigateMain, UNCHANGED <<mainID, closers, condemned, doomed, deny>>,
                loop' = loop \/ loop = "enforce"
         PROVE  LossKnown' /\ ExtraKnown' /\ RefusedKnown'
    <3>1. CASE Open(Attached)
      <4>1. Reported' = Reported \cup {[kind |-> "changed", tab |-> Attached, shows |-> "ok"]}
        BY <2>10, <3>1, ReportJoins DEF NavigateMain, Shown
      <4>2. url' = [url EXCEPT ![Attached] = "ok"]
        BY <2>10, <3>1 DEF NavigateMain
      <4>3. LossKnown' /\ RefusedKnown'
        BY <4>2 DEF LossKnown, RefusedKnown, Open, Shown, TypeOK
      <4>4. ExtraKnown'
        BY <2>2, <2>10, <3>1, <4>1, <4>2 DEF ExtraKnown, ToClose, Pages, Open, TypeOK
      <4> QED
        BY <4>3, <4>4
    <3>2. CASE ~Open(Attached)
      <4>1. UNCHANGED <<url, events>>
        BY <2>10, <3>2 DEF NavigateMain, TypeOK
      <4>2. Reported' = Reported /\ ~Open(Attached)'
        BY <3>2, <4>1 DEF Open, Reported
      <4>3. LossKnown' /\ ExtraKnown'
        BY <2>2, <2>10, <3>2, <4>2, MoreReported DEF LossKnown, ExtraKnown
      <4>4. RefusedKnown'
        BY <3>2, <4>1 DEF RefusedKnown, Open, Shown
      <4> QED
        BY <4>3, <4>4
    <3> QED
      BY <3>1, <3>2
  <2>11. ASSUME NEW t \in Tabs, Adopt(t)
         PROVE  LossKnown' /\ ExtraKnown' /\ RefusedKnown'
    BY <2>10, <2>11 DEF Adopt
  <2>12. CASE Poll
    <3>1. CASE Lost
      <4>1. loop' = "ended" /\ ~Open(Attached) /\ UNCHANGED url
        BY <2>12, <3>1 DEF Poll, Lost, Pages
      <4> QED
        BY <4>1 DEF LossKnown, ExtraKnown, RefusedKnown, Open, Shown
    <3>2. CASE ~Lost
      <4>1. /\ loop' = "enforce" /\ Open(Attached) /\ UNCHANGED url
            /\ doomed' = Doomed /\ goto' = Destination
        BY <2>12, <3>2 DEF Poll, Lost, Pages
      <4>2. LossKnown' /\ ExtraKnown'
        BY <4>1 DEF LossKnown, ExtraKnown, Doomed, Pages, Open
      <4>3. RefusedKnown'
        BY <4>1 DEF RefusedKnown, Destination
      <4> QED
        BY <4>2, <4>3
    <3> QED
      BY <3>1, <3>2
  <2>13. CASE EndEnforce
    <3>1. CASE goto = "none"
      <4>1. /\ UNCHANGED <<url, events, mainID, closers, condemned, doomed, deny>>
            /\ Reported' = Reported /\ loop = "enforce"
        BY <2>13, <3>1 DEF EndEnforce, Reported
      <4> QED
        BY <2>2, <3>1, <4>1, MoreReported
           DEF LossKnown, ExtraKnown, RefusedKnown, Open, Pages, ToClose
    <3>2. CASE goto # "none"
      BY <2>10, <2>13, <3>2 DEF EndEnforce
    <3> QED
      BY <3>1, <3>2
  <2> QED
    BY <2>1, <2>3, <2>4, <2>5, <2>7, <2>8, <2>9, <2>11, <2>12, <2>13
       DEF Next, Environment, Callback, Enforce, PollFails, NavigateFails, CloseFails
<1> QED
  BY <1>1, <1>2 DEF EventInv

\* The events alone keep the kiosk to one page: when nothing is left to do and no
\* request has failed, the attached page is open and shows nothing refused, and
\* every other page is blank.
\* Code: onBrowserEvent, handleExtraPage, blockURL and enforceSingleTab in
\* browser_session.go and browser_guards.go.
THEOREM EventsAreEnough == Spec => []EventsSuffice
<1>1. Init => TypeOK /\ TabInv /\ EventInv
  BY TypeInit, TabInit, EventInit
<1>2. TypeOK /\ TabInv /\ EventInv /\ [Next]_vars => (TypeOK /\ TabInv /\ EventInv)'
  BY TypeNext, TabNext, EventNext
<1>3. TypeOK /\ TabInv /\ EventInv => EventsSuffice
  <2> SUFFICES ASSUME TypeOK, EventInv, startedOn = Attached, fails = 0,
                      events = <<>>, closers = {}, condemned = {}, loop = "select", ~deny
               PROVE  /\ url[Attached] \in {"ok", "blank"}
                      /\ \A t \in Pages \ {Attached} : url[t] = "blank"
    BY DEF EventsSuffice
  <2>1. Reported = {}
    BY DEF Reported
  <2>2. Open(Attached)
    BY <2>1 DEF EventInv, LossKnown, LossReported
  <2>3. url[Attached] # "bad"
    BY <2>1 DEF EventInv, RefusedKnown, RefusalReported
  <2>4. \A t \in Pages \ {Attached} : url[t] = "blank"
    BY <2>1, <2>2 DEF EventInv, ExtraKnown, ToClose
  <2> QED
    BY <2>2, <2>3, <2>4 DEF Open, Shown
<1> QED
  BY <1>1, <1>2, <1>3, PTL DEF Spec

-----------------------------------------------------------------------------
(* NavSource: the reports that wait. *)

\* An element taken out of a sequence leaves the others.
LEMMA RemoveAtLeaves ==
    ASSUME NEW S, NEW s \in Seq(S), NEW i \in DOMAIN s
    PROVE  /\ RemoveAt(s, i) \in Seq(S)
           /\ Len(RemoveAt(s, i)) = Len(s) - 1
           /\ \A j \in DOMAIN RemoveAt(s, i) : \E k \in DOMAIN s : RemoveAt(s, i)[j] = s[k]
<1> DEFINE a == SubSeq(s, 1, i - 1)
           b == SubSeq(s, i + 1, Len(s))
<1>1. Len(s) \in Nat /\ DOMAIN s = 1..Len(s) /\ \A j \in 1..Len(s) : s[j] \in S
  BY LenProperties
<1>2. i \in 1..Len(s)
  BY <1>1
<1>3. /\ a \in Seq(S) /\ Len(a) = i - 1
      /\ \A j \in 1..(i - 1) : a[j] = s[j]
  <2>1. \A j \in 1..(i - 1) : s[j] \in S
    BY <1>1, <1>2
  <2>2. /\ a \in Seq(S)
        /\ Len(a) = IF 1 <= i - 1 THEN (i - 1) - 1 + 1 ELSE 0
        /\ \A j \in 1..((i - 1) - 1 + 1) : a[j] = s[1 + j - 1]
    BY <1>2, <2>1, SubSeqProperties
  <2> HIDE DEF a
  <2> QED
    BY <1>2, <2>2
<1>4. /\ b \in Seq(S) /\ Len(b) = Len(s) - i
      /\ \A j \in 1..(Len(s) - i) : b[j] = s[(i + 1) + j - 1]
  <2>1. \A j \in (i + 1)..Len(s) : s[j] \in S
    BY <1>1, <1>2
  <2>2. /\ b \in Seq(S)
        /\ Len(b) = IF i + 1 <= Len(s) THEN Len(s) - (i + 1) + 1 ELSE 0
        /\ \A j \in 1..(Len(s) - (i + 1) + 1) : b[j] = s[(i + 1) + j - 1]
    BY <1>1, <1>2, <2>1, SubSeqProperties
  <2> HIDE DEF b
  <2>3. Len(s) - (i + 1) + 1 = Len(s) - i
    BY <1>1, <1>2
  <2> QED
    BY <1>1, <1>2, <2>2, <2>3
<1> HIDE DEF a, b
<1>5. /\ a \o b \in Seq(S)
      /\ Len(a \o b) = Len(s) - 1
      /\ \A j \in 1..(Len(s) - 1) : (a \o b)[j] = IF j <= i - 1 THEN a[j] ELSE b[j - (i - 1)]
  <2>1. /\ a \o b \in Seq(S)
        /\ Len(a \o b) = Len(a) + Len(b)
        /\ \A j \in 1..(Len(a) + Len(b)) : (a \o b)[j] = IF j <= Len(a) THEN a[j] ELSE b[j - Len(a)]
    BY <1>3, <1>4, ConcatProperties
  <2>2. Len(a) = i - 1 /\ Len(a) + Len(b) = Len(s) - 1
    BY <1>1, <1>2, <1>3, <1>4
  <2> QED
    BY <2>1, <2>2
<1> DEFINE c == a \o b
<1>6. DOMAIN c = 1..(Len(s) - 1)
  BY <1>5, LenProperties
<1>7. ASSUME NEW j \in 1..(Len(s) - 1)
      PROVE  \E k \in 1..Len(s) : c[j] = s[k]
  <2>1. CASE j <= i - 1
    <3>1. c[j] = a[j]
      BY <1>5, <2>1
    <3>2. a[j] = s[j] /\ j \in 1..Len(s)
      BY <1>1, <1>2, <1>3, <2>1
    <3> QED
      BY <3>1, <3>2
  <2>2. CASE ~(j <= i - 1)
    <3>1. c[j] = b[j - (i - 1)]
      BY <1>5, <2>2
    <3>2. j - (i - 1) \in 1..(Len(s) - i) /\ j + 1 \in 1..Len(s) /\ (i + 1) + (j - (i - 1)) - 1 = j + 1
      BY <1>1, <1>2, <2>2
    <3>3. b[j - (i - 1)] = s[j + 1]
      BY <1>4, <3>2
    <3> QED
      BY <3>1, <3>2, <3>3
  <2> QED
    BY <2>1, <2>2
<1> HIDE DEF c
<1>8. \A j \in DOMAIN c : \E k \in DOMAIN s : c[j] = s[k]
  BY <1>1, <1>6, <1>7
<1>9. c \in Seq(S) /\ Len(c) = Len(s) - 1
  BY <1>5 DEF c
<1>10. RemoveAt(s, i) = c
  BY DEF RemoveAt, a, b, c
<1> QED
  BY <1>8, <1>9, <1>10

LEMMA ReportedType ==
    ASSUME NavTypeOK, NEW i \in DOMAIN reports
    PROVE  reports[i] \in Event
  BY LenProperties DEF NavTypeOK

\* Navigates adds a report that is not booked.
LEMMA NavigatesType ==
    ASSUME NavTypeOK, NEW by \in Parties \cup {"screen"}, NEW host \in Hosts, NEW ok \in BOOLEAN,
           Navigates(by, host, ok)
    PROVE  /\ reports' \in Seq(Event) /\ Len(reports') = Len(reports) + 1
           /\ Len(reports') <= MaxEvents
           /\ \A i \in DOMAIN reports' : \/ i \in DOMAIN reports /\ reports'[i] = reports[i]
                                         \/ reports'[i].source = "?"
<1> DEFINE e == [by |-> by, host |-> host, ok |-> ok, source |-> "?", left |-> "?"]
<1>1. e \in Event /\ e.source = "?"
  BY DEF Event
<1>2. reports \in Seq(Event) /\ Len(reports) \in Nat /\ DOMAIN reports = 1..Len(reports)
  BY LenProperties DEF NavTypeOK
<1>3. reports' = Append(reports, e) /\ Len(reports) < MaxEvents
  BY DEF Navigates
<1> HIDE DEF e
<1>4. /\ reports' \in Seq(Event) /\ Len(reports') = Len(reports) + 1
      /\ \A i \in 1..Len(reports) : reports'[i] = reports[i]
      /\ reports'[Len(reports) + 1] = e
  BY <1>1, <1>2, <1>3, AppendProperties
<1>5. DOMAIN reports' = 1..(Len(reports) + 1)
  BY <1>2, <1>4, LenProperties
<1>6. ASSUME NEW i \in DOMAIN reports'
      PROVE  (i \in DOMAIN reports /\ reports'[i] = reports[i]) \/ reports'[i].source = "?"
  BY <1>1, <1>2, <1>4, <1>5
<1> QED
  BY <1>2, <1>3, <1>4, <1>6, MaxEventsAssumption

\* Book fills in the source and the mark it leaves, of one report.
LEMMA BookType ==
    ASSUME NavTypeOK, NEW i \in DOMAIN reports, BookSource(i)
    PROVE  /\ reports' \in Seq(Event) /\ Len(reports') = Len(reports)
           /\ mark' \in {"none", "input"} \cup Hosts
           /\ DOMAIN reports' = DOMAIN reports
           /\ \A j \in DOMAIN reports : j # i => reports'[j] = reports[j]
           /\ reports'[i].source = Source(reports[i].host) /\ reports'[i].left = mark'
<1>1. reports[i] \in Event
  BY ReportedType
<1>2. /\ mark' \in {"none", "input"} \cup Hosts
      /\ reports' = [reports EXCEPT ![i].source = Source(reports[i].host), ![i].left = mark']
  BY DEF BookSource, Book, NavTypeOK
<1> DEFINE e == [[reports[i] EXCEPT !.source = Source(reports[i].host)] EXCEPT !.left = mark']
<1>3. e \in Event /\ e.source = Source(reports[i].host) /\ e.left = mark'
  BY <1>1, <1>2 DEF Event, Source
<1>4. reports' = [reports EXCEPT ![i] = e]
  BY <1>2
<1> HIDE DEF e
<1>5. reports \in Seq(Event)
  BY DEF NavTypeOK
<1>6. reports' \in Seq(Event) /\ Len(reports') = Len(reports) /\ DOMAIN reports' = DOMAIN reports
  BY <1>3, <1>4, <1>5, ExceptSeq
<1> QED
  BY <1>2, <1>3, <1>4, <1>6

LEMMA NavTypeInit == NavInit => NavTypeOK
<1> SUFFICES ASSUME NavInit
             PROVE  NavTypeOK
  OBVIOUS
<1>1. reports \in Seq(Event) /\ Len(reports) <= MaxEvents
  BY EmptySeq, MaxEventsAssumption DEF NavInit
<1> QED
  BY <1>1 DEF NavInit, NavTypeOK

LEMMA NavTypeNext == NavTypeOK /\ [NavNext]_navVars => NavTypeOK'
<1> SUFFICES ASSUME NavTypeOK, [NavNext]_navVars
             PROVE  NavTypeOK'
  OBVIOUS
<1>1. CASE UNCHANGED navVars
  BY <1>1 DEF navVars, remoteVars, displayVars, historyVars, NavTypeOK
<1>2. ASSUME NEW r \in Requests, NEW host \in Hosts, MarkNav(r, host)
      PROVE  NavTypeOK'
  BY <1>2 DEF MarkNav, NavTypeOK, displayVars
<1>3. ASSUME NEW r \in Requests, NEW host \in Hosts, NEW ok \in BOOLEAN,
             Load(r, host, ok) \/ LateLoad(r, host, ok)
      PROVE  NavTypeOK'
  <2>1. reports' \in Seq(Event) /\ Len(reports') <= MaxEvents
    BY <1>3, NavigatesType DEF Load, LateLoad, Parties
  <2> QED
    BY <1>3, <2>1 DEF Load, LateLoad, NavTypeOK, displayVars, historyVars
<1>4. ASSUME NEW r \in Requests,
             Enqueue(r) \/ Fails(r) \/ Loaded(r) \/ LoadFails(r) \/ LoadTimesOut(r)
      PROVE  NavTypeOK'
  <2>1. CASE Enqueue(r)
    BY <2>1 DEF Enqueue, InputSource, NavTypeOK, historyVars
  <2>2. CASE Fails(r)
    BY <2>2 DEF Fails, AllLost, NavTypeOK, displayVars
  <2>3. CASE Loaded(r) \/ LoadFails(r)
    BY <2>3 DEF Loaded, LoadFails, Answer, NavTypeOK, displayVars, historyVars
  <2>4. CASE LoadTimesOut(r)
    BY <2>4 DEF LoadTimesOut, NavTypeOK, displayVars, historyVars
  <2> QED
    BY <1>4, <2>1, <2>2, <2>3, <2>4
<1>5. CASE RefuseURL \/ MarkInput \/ Expire \/ Sleep
  BY <1>5 DEF RefuseURL, InputSource, MarkInput, Expire, Sleep, AllLost, Parties, NavTypeOK,
              remoteVars, displayVars, historyVars
<1>6. ASSUME NEW host \in Hosts, NEW ok \in BOOLEAN,
             TouchNavigates(host, ok) \/ ScreenNavigates(host, ok)
      PROVE  NavTypeOK'
  <2>1. reports' \in Seq(Event) /\ Len(reports') <= MaxEvents
    BY <1>6, NavigatesType DEF TouchNavigates, ScreenNavigates, Parties
  <2> QED
    BY <1>6, <2>1 DEF TouchNavigates, ScreenNavigates, NavTypeOK, remoteVars, displayVars, historyVars
<1>7. ASSUME NEW i \in DOMAIN reports, BookSource(i)
      PROVE  NavTypeOK'
  <2>1. /\ reports' \in Seq(Event) /\ Len(reports') <= MaxEvents
        /\ mark' \in {"none", "input"} \cup Hosts
    BY <1>7, BookType DEF NavTypeOK
  <2> QED
    BY <1>7, <2>1 DEF BookSource, Book, AllLost, NavTypeOK, remoteVars, displayVars
<1>8. ASSUME NEW i \in DOMAIN reports, Record(i)
      PROVE  NavTypeOK'
  <2>1. reports' \in Seq(Event) /\ Len(reports') <= MaxEvents
    <3>1. /\ reports' \in Seq(Event) /\ Len(reports') = Len(reports) - 1
      BY <1>8, RemoveAtLeaves DEF Record, NavTypeOK
    <3> QED
      BY <3>1, LenProperties, MaxEventsAssumption DEF NavTypeOK
  <2> QED
    BY <1>8, <2>1 DEF Record, InputSource, NavTypeOK, remoteVars, historyVars
<1> QED
  BY <1>1, <1>2, <1>3, <1>4, <1>5, <1>6, <1>7, <1>8 DEF NavNext

\* Every variable of the attribution keeps its type.
\* Code: the marks of controller.go and the handlers of manager/remote.go.
THEOREM NavTypeCorrect == NavSpec => []NavTypeOK
  BY NavTypeInit, NavTypeNext, PTL DEF NavSpec

-----------------------------------------------------------------------------
(* What the mark says. *)

\* A mark that has not been lost is the one that counts: of an input, or for
\* the host that was asked for.  And a mark that counts is somebody's.
MarkInv ==
    /\ \A r \in Requests : ~lost[r] => mark \in {"input", asked[r]}
    /\ mark = "input" <=> ~lost["touch"]
    /\ mark \in Hosts => \E r \in Requests : ~lost[r] /\ asked[r] = mark

\* NavSource has answered for a report: as the mark it left says.
Answered(e) ==
    \/ e.source = "remote" /\ e.left # "none"
    \/ e.source = "screen" /\ e.left = "none"

BookedInv == \A i \in DOMAIN reports : reports[i].source = "?" \/ Answered(reports[i])

LEMMA MarkNext == NavTypeOK /\ MarkInv /\ [NavNext]_navVars => MarkInv'
<1> SUFFICES ASSUME NavTypeOK, MarkInv, [NavNext]_navVars
             PROVE  MarkInv'
  OBVIOUS
<1> USE NamesAssumption
<1>1. CASE UNCHANGED <<mark, asked, lost>>
  BY <1>1 DEF MarkInv
<1>2. ASSUME mark' = "none", lost' = AllLost
      PROVE  MarkInv'
  BY <1>2 DEF MarkInv, AllLost, Parties
<1>3. ASSUME NEW r \in Requests, NEW host \in Hosts, MarkNav(r, host)
      PROVE  MarkInv'
  <2>1. /\ mark' = host /\ asked'[r] = host
        /\ \A q \in Requests : q # r => asked'[q] = asked[q]
        /\ lost'["touch"] /\ ~lost'[r]
        /\ \A q \in Requests : q # r => (lost'[q] <=> lost[q] \/ asked[q] # host)
    BY <1>3 DEF MarkNav, NavTypeOK, Parties
  <2> QED
    BY <2>1 DEF MarkInv
<1>4. CASE MarkInput
  BY <1>4 DEF MarkInput, MarkInv, NavTypeOK, Parties
<1>5. ASSUME NEW i \in DOMAIN reports, BookSource(i)
      PROVE  MarkInv'
  <2>1. CASE mark \in {"none", "input", reports[i].host}
    <3>1. UNCHANGED <<mark, lost, asked>>
      BY <1>5, <2>1 DEF BookSource, Book
    <3> QED
      BY <1>1, <3>1
  <2>2. CASE mark \notin {"none", "input", reports[i].host}
    BY <1>2, <1>5, <2>2 DEF BookSource, Book
  <2> QED
    BY <2>1, <2>2
<1> QED
  BY <1>1, <1>2, <1>3, <1>4, <1>5
     DEF NavNext, navVars, historyVars, Load, LateLoad, Enqueue, Fails, Loaded, LoadFails, LoadTimesOut,
         Answer, RefuseURL,
         TouchNavigates, ScreenNavigates, Expire, Sleep, Record

\* What a step may do to the reports.
LEMMA OnReports ==
    ASSUME [NavNext]_navVars
    PROVE  \/ UNCHANGED reports
           \/ \E by \in Parties \cup {"screen"}, host \in Hosts, ok \in BOOLEAN : Navigates(by, host, ok)
           \/ \E i \in DOMAIN reports : BookSource(i) \/ Record(i)
<1>1. ASSUME NEW r \in Requests,
             \/ \E host \in Hosts : MarkNav(r, host)
             \/ Enqueue(r) \/ Fails(r) \/ Loaded(r) \/ LoadFails(r) \/ LoadTimesOut(r)
      PROVE  UNCHANGED reports
  <2>1. CASE (\E host \in Hosts : MarkNav(r, host)) \/ Enqueue(r) \/ Fails(r)
    BY <2>1 DEF MarkNav, Enqueue, Fails
  <2>2. CASE Loaded(r) \/ LoadFails(r) \/ LoadTimesOut(r)
    BY <2>2 DEF Loaded, LoadFails, LoadTimesOut, Answer
  <2> QED
    BY <1>1, <2>1, <2>2
<1>2. CASE RefuseURL \/ MarkInput \/ Expire \/ Sleep \/ UNCHANGED navVars
  BY <1>2 DEF RefuseURL, MarkInput, Expire, Sleep, navVars
<1>3. ASSUME NEW host \in Hosts, NEW ok \in BOOLEAN,
             \/ \E r \in Requests : Load(r, host, ok) \/ LateLoad(r, host, ok)
             \/ TouchNavigates(host, ok) \/ ScreenNavigates(host, ok)
      PROVE  \E by \in Parties \cup {"screen"} : Navigates(by, host, ok)
  BY <1>3 DEF Load, LateLoad, TouchNavigates, ScreenNavigates, Parties
<1> QED
  BY <1>1, <1>2, <1>3 DEF NavNext

LEMMA BookedNext == NavTypeOK /\ BookedInv /\ [NavNext]_navVars => BookedInv'
<1> SUFFICES ASSUME NavTypeOK, BookedInv, [NavNext]_navVars
             PROVE  BookedInv'
  OBVIOUS
<1>1. CASE UNCHANGED reports
  BY <1>1 DEF BookedInv, Answered
<1>2. ASSUME NEW by \in Parties \cup {"screen"}, NEW host \in Hosts, NEW ok \in BOOLEAN,
             Navigates(by, host, ok)
      PROVE  BookedInv'
  <2> SUFFICES ASSUME NEW i \in DOMAIN reports'
               PROVE  reports'[i].source = "?" \/ Answered(reports'[i])
    BY DEF BookedInv
  <2>1. (i \in DOMAIN reports /\ reports'[i] = reports[i]) \/ reports'[i].source = "?"
    BY <1>2, NavigatesType
  <2> QED
    BY <2>1 DEF BookedInv
<1>3. ASSUME NEW i \in DOMAIN reports, BookSource(i)
      PROVE  BookedInv'
  <2>1. /\ DOMAIN reports' = DOMAIN reports
        /\ \A j \in DOMAIN reports : j # i => reports'[j] = reports[j]
        /\ reports'[i].source = Source(reports[i].host) /\ reports'[i].left = mark'
    BY <1>3, BookType
  <2>2. reports[i].host \in Hosts
    BY ReportedType DEF Event
  <2>3. mark' = IF mark \in {"input", reports[i].host} THEN mark ELSE "none"
    BY <1>3 DEF BookSource, Book
  <2>4. Answered(reports'[i])
    BY <2>1, <2>2, <2>3, NamesAssumption DEF Answered, Source
  <2> QED
    BY <2>1, <2>4 DEF BookedInv
<1>4. ASSUME NEW i \in DOMAIN reports, Record(i)
      PROVE  BookedInv'
  <2>1. \A j \in DOMAIN reports' : \E k \in DOMAIN reports : reports'[j] = reports[k]
    BY <1>4, RemoveAtLeaves DEF Record, NavTypeOK
  <2> QED
    BY <2>1 DEF BookedInv
<1> QED
  BY <1>1, <1>2, <1>3, <1>4, OnReports

\* Only BookSource books.
LEMMA OnlyBookSourceBooks ==
    ASSUME NavTypeOK, [NavNext]_navVars, NEW i \in DOMAIN reports, NEW source \in {"remote", "screen"},
           BookedAs(i, source)
    PROVE  Source(reports[i].host) = source
<1>1. reports[i].source = "?" /\ reports'[i].source = source /\ Len(reports') = Len(reports)
  BY DEF BookedAs
<1>2. reports' # reports
  BY <1>1
<1>3. ASSUME NEW by \in Parties \cup {"screen"}, NEW host \in Hosts, NEW ok \in BOOLEAN,
             Navigates(by, host, ok)
      PROVE  FALSE
  BY <1>1, <1>3, NavigatesType, LenProperties DEF NavTypeOK
<1>4. ASSUME NEW j \in DOMAIN reports, Record(j)
      PROVE  FALSE
  <2>1. reports \in Seq(Event) /\ reports' = RemoveAt(reports, j)
    BY <1>4 DEF Record, NavTypeOK
  <2>2. Len(reports') = Len(reports) - 1
    BY <2>1, RemoveAtLeaves
  <2>3. Len(reports) \in Nat
    BY <2>1, LenProperties
  <2> QED
    BY <1>1, <2>2, <2>3
<1>5. ASSUME NEW j \in DOMAIN reports, BookSource(j)
      PROVE  Source(reports[i].host) = source
  BY <1>1, <1>5, BookType
<1> QED
  BY <1>2, <1>3, <1>4, <1>5, OnReports

LEMMA NavAlways == NavSpec => [](NavTypeOK /\ MarkInv /\ BookedInv)
<1>1. NavInit => NavTypeOK /\ MarkInv /\ BookedInv
  BY NavTypeInit, NamesAssumption DEF NavInit, MarkInv, BookedInv, Parties
<1>2. NavTypeOK /\ MarkInv /\ BookedInv /\ [NavNext]_navVars => (NavTypeOK /\ MarkInv /\ BookedInv)'
  BY NavTypeNext, MarkNext, BookedNext
<1> QED
  BY <1>1, <1>2, PTL DEF NavSpec

\* What somebody far away made the browser do is booked as remote, unless the
\* mark was lost by then or the page is not on the host that was asked for.
\* Code: NavSource in controller.go, and the one mark all requests share.
THEOREM RemoteIsNamed == NavSpec => RemoteNamed
<1>1. NavTypeOK /\ MarkInv /\ [NavNext]_navVars
        => \A i \in DOMAIN reports : LET e == reports[i] IN
               e.by # "screen" /\ BookedAs(i, "screen")
                   => lost[e.by] \/ (e.by # "touch" /\ asked[e.by] # e.host)
  <2> SUFFICES ASSUME NavTypeOK, MarkInv, [NavNext]_navVars, NEW i \in DOMAIN reports,
                      reports[i].by # "screen", BookedAs(i, "screen")
               PROVE  \/ lost[reports[i].by]
                      \/ reports[i].by # "touch" /\ asked[reports[i].by] # reports[i].host
    OBVIOUS
  <2>1. reports[i].by \in Parties
    BY ReportedType DEF Event
  <2>2. mark \notin {"input", reports[i].host}
    BY OnlyBookSourceBooks DEF Source
  <2> QED
    BY <2>1, <2>2 DEF MarkInv, Parties
<1> QED
  BY <1>1, NavAlways, PTL DEF NavSpec, RemoteNamed

\* What the person at the screen did is booked as remote only while a mark of an
\* input, or of a request for the same host, still counts.
\* Code: NavSource and ClearRemoteNav in controller.go.
THEOREM ScreenIsNamed == NavSpec => ScreenNamed
<1>1. NavTypeOK /\ MarkInv /\ [NavNext]_navVars
        => \A i \in DOMAIN reports : LET e == reports[i] IN
               e.by = "screen" /\ BookedAs(i, "remote")
                   => ~lost["touch"] \/ \E r \in Requests : ~lost[r] /\ asked[r] = e.host
  <2> SUFFICES ASSUME NavTypeOK, MarkInv, [NavNext]_navVars, NEW i \in DOMAIN reports,
                      BookedAs(i, "remote")
               PROVE  ~lost["touch"] \/ \E r \in Requests : ~lost[r] /\ asked[r] = reports[i].host
    OBVIOUS
  <2>1. mark \in {"input", reports[i].host} /\ reports[i].host \in Hosts
    BY OnlyBookSourceBooks, ReportedType DEF Source, Event
  <2> QED
    BY <2>1 DEF MarkInv
<1> QED
  BY <1>1, NavAlways, PTL DEF NavSpec, ScreenNamed

\* A navigation that wakes the display is booked to the same side as the wake,
\* unless the mark has changed in between.
\* Code: RecordNav's InputSource after NavSource, in controller.go.
THEOREM WakeIsNamedAlike == NavSpec => WakeAgrees
<1>1. BookedInv => \A i \in DOMAIN reports :
          Record(i) /\ asleep /\ ~asleep' => wakeLog' = reports[i].source \/ mark # reports[i].left
  BY DEF BookedInv, Answered, Record, InputSource
<1> QED
  BY <1>1, NavAlways, PTL DEF NavSpec, WakeAgrees

-----------------------------------------------------------------------------
(* The log: the invariant.  The memory and the file are two selections of  *)
(* what was recorded; each promise of the log compares entries of one with *)
(* entries of the other.                                                   *)

\* The IDs of a list ascend, and stay below the next one.
Ascending(s) == \A i, j \in 1..Len(s) : i < j => s[i].id < s[j].id
Below(s, n)  == \A i \in 1..Len(s) : s[i].id < n

\* The memory and the file are in the order of the IDs.
IdsInv ==
    /\ Ascending(items) /\ Ascending(Parsed)
    /\ up => Below(items, nextID) /\ Below(Parsed, nextID)

\* Recorded since the clock was last set back, as far as this can be told.
Reliable(e) == ~stepped \/ e.id >= begin

\* In a list of reliable entries time does not run backwards, and entries
\* for one key keep their distance.
Timely(s) == \A i, j \in 1..Len(s) : i < j /\ Reliable(s[i]) => s[i].time <= s[j].time
Spaced(s) ==
    \A i, j \in 1..Len(s) :
        i < j /\ s[i].key = s[j].key /\ Reliable(s[i]) => s[j].time - s[i].time >= Window
Past(s) == \A i \in 1..Len(s) : Reliable(s[i]) => s[i].time <= now

TimesInv ==
    /\ Timely(items) /\ Spaced(items)
    /\ up \/ ~stepped => Past(items)
    /\ ~stepped => Timely(Parsed) /\ Spaced(Parsed) /\ Past(Parsed)
    /\ ~stepped => \A i \in 1..Len(Parsed), j \in 1..Len(items) :
                      Parsed[i].id < items[j].id => Parsed[i].time <= items[j].time
    /\ silenced => stepped

\* What the file has and the memory has not is too old to matter, or was
\* dropped from a list that is still full.
Dropped(e) ==
    \/ Expired(e)
    \/ Len(items) = MaxEntries /\ \A i \in 1..Len(items) : e.id < items[i].id

ShadowInv ==
    up /\ ~stepped =>
        \A i \in 1..Len(Parsed) : Contains(items, Parsed[i]) \/ Dropped(Parsed[i])

\* What the file has lost, and what the next append to a cut line will cost.
Missing(s, p) == {i \in 1..Len(s) : ~Contains(p, s[i])}
Cost == IF ~cut THEN 0 ELSE IF tail = <<>> THEN 1 ELSE 2

LossInv ==
    /\ cut => failures > 0
    /\ up => Cardinality(Missing(items, Parsed)) + Cost <= 2 * failures

\* While nothing failed there is nothing to tell the two apart.
MirrorInv == failures = 0 => Parsed = items

AuditInv ==
    AuditTypeOK /\ IdsInv /\ TimesInv /\ ShadowInv /\ LossInv /\ MirrorInv

-----------------------------------------------------------------------------
(* The log: what a selection leaves of a sequence.  Only is a recursive    *)
(* function; what it computes is shown for a least length at which it      *)
(* would fail.                                                             *)

\* A set of natural numbers that is not empty has a least element.
LEMMA Least ==
    ASSUME NEW T \in SUBSET Nat, T # {}
    PROVE  \E m \in T : \A k \in T : m <= k
<1>1. \E x \in T : \A y \in T : ~ (<<y, x>> \in OpToRel(<, Nat))
  BY NatLessThanWellFounded, WFMin
<1>2. OpToRel(<, Nat) = {ss \in Nat \X Nat : ss[1] < ss[2]}
  BY Zenon DEF OpToRel
<1>3. PICK x \in T : \A y \in T : ~ (<<y, x>> \in {ss \in Nat \X Nat : ss[1] < ss[2]})
  BY <1>1, <1>2, Zenon
<1>4. \A y \in T : ~(y < x)
  <2> SUFFICES ASSUME NEW y \in T, y < x PROVE FALSE
    OBVIOUS
  <2>1. <<y, x>> \in Nat \X Nat
    OBVIOUS
  <2>2. <<y, x>> \in {ss \in Nat \X Nat : ss[1] < ss[2]}
    BY <2>1
  <2> QED
    BY <1>3, <2>2
<1> QED
  BY <1>4

\* The equation of Only, and that a function satisfies it.
Step(s, K, f, i) ==
    IF i = 0 THEN <<>> ELSE IF s[i] \in K THEN Append(f[i - 1], s[i]) ELSE f[i - 1]

LEMMA OnlyExists ==
    ASSUME NEW S, NEW s \in Seq(S), NEW K
    PROVE  \E f : f = [i \in 0..Len(s) |->
                          IF i = 0 THEN <<>>
                          ELSE IF s[i] \in K THEN Append(f[i - 1], s[i]) ELSE f[i - 1]]
<1> DEFINE Upto(n) == \E f \in [0..n -> Seq(S)] : \A i \in 0..n : f[i] = Step(s, K, f, i)
           T == {n \in 0..Len(s) : ~Upto(n)}
<1>1. Upto(0)
  <2> DEFINE f == [i \in 0..0 |-> <<>>]
  <2>1. f \in [0..0 -> Seq(S)] /\ f[0] = <<>>
    OBVIOUS
  <2> HIDE DEF f
  <2>2. \A i \in 0..0 : f[i] = Step(s, K, f, i)
    BY <2>1 DEF Step
  <2> QED
    BY <2>1, <2>2
<1>2. ASSUME NEW n \in 1..Len(s), Upto(n - 1) PROVE Upto(n)
  <2>1. PICK f \in [0..n - 1 -> Seq(S)] : \A i \in 0..n - 1 : f[i] = Step(s, K, f, i)
    BY <1>2
  <2> DEFINE x == Step(s, K, f, n)
             g == [i \in 0..n |-> IF i = n THEN x ELSE f[i]]
  <2>2. x \in Seq(S)
    BY <2>1 DEF Step
  <2> HIDE DEF x
  <2>3. g \in [0..n -> Seq(S)]
    BY <2>1, <2>2
  <2>4. g[n] = x /\ \A i \in 0..n - 1 : g[i] = f[i]
    OBVIOUS
  <2> HIDE DEF g
  <2>5. ASSUME NEW i \in 0..n PROVE g[i] = Step(s, K, g, i)
    <3>1. CASE i = n
      BY <2>4, <3>1 DEF Step, x
    <3>2. CASE i = 0
      BY <2>1, <2>4, <3>2 DEF Step
    <3>3. CASE i \in 1..n - 1
      <4>1. i \in 0..n - 1 /\ i - 1 \in 0..n - 1
        BY <3>3
      <4> QED
        BY <2>1, <2>4, <3>3, <4>1 DEF Step
    <3> QED
      BY <3>1, <3>2, <3>3
  <2> QED
    BY <2>3, <2>5
<1> HIDE DEF Upto
<1>3. T = {}
  <2> SUFFICES ASSUME T # {} PROVE FALSE
    OBVIOUS
  <2>1. PICK n \in T : \A k \in T : n <= k
    <3>1. T \in SUBSET Nat
      OBVIOUS
    <3> HIDE DEF T
    <3> QED
      BY <3>1, Least
  <2>2. n # 0 /\ n \in 1..Len(s) /\ n - 1 \in 0..Len(s) /\ n - 1 \notin T
    BY <1>1, <2>1
  <2> QED
    BY <1>2, <2>1, <2>2
<1>4. Upto(Len(s))
  BY <1>3
<1>5. PICK f \in [0..Len(s) -> Seq(S)] : \A i \in 0..Len(s) : f[i] = Step(s, K, f, i)
  BY <1>4 DEF Upto
<1>6. f = [i \in 0..Len(s) |-> Step(s, K, f, i)]
  BY <1>5
<1> QED
  BY <1>6 DEF Step

\* So Only is what the equation says.
LEMMA OnlyDefined ==
    ASSUME NEW S, NEW s \in Seq(S), NEW K
    PROVE  \E f : /\ f = [i \in 0..Len(s) |-> Step(s, K, f, i)]
                  /\ Only(s, K) = f[Len(s)]
<1> DEFINE kept[i \in 0..Len(s)] ==
              IF i = 0 THEN <<>>
              ELSE IF s[i] \in K THEN Append(kept[i - 1], s[i]) ELSE kept[i - 1]
<1>1. Only(s, K) = kept[Len(s)]
  BY DEF Only
<1>2. kept = [i \in 0..Len(s) |->
                 IF i = 0 THEN <<>>
                 ELSE IF s[i] \in K THEN Append(kept[i - 1], s[i]) ELSE kept[i - 1]]
  <2>1. \E f : f = [i \in 0..Len(s) |->
                       IF i = 0 THEN <<>>
                       ELSE IF s[i] \in K THEN Append(f[i - 1], s[i]) ELSE f[i - 1]]
    BY OnlyExists, ZenonT(60)
  <2> QED
    BY <2>1, Zenon
<1> QED
  BY <1>1, <1>2 DEF Step

\* The same, as equations; kept[i] is what is left of the first i elements.
LEMMA OnlyPrefixes ==
    ASSUME NEW S, NEW s \in Seq(S), NEW K
    PROVE  \E f : /\ Only(s, K) = f[Len(s)]
                  /\ f[0] = <<>>
                  /\ \A i \in 1..Len(s) :
                        f[i] = IF s[i] \in K THEN Append(f[i - 1], s[i]) ELSE f[i - 1]
<1>1. PICK f : /\ f = [i \in 0..Len(s) |-> Step(s, K, f, i)]
               /\ Only(s, K) = f[Len(s)]
  BY OnlyDefined
<1>2. Len(s) \in Nat
  OBVIOUS
<1>3. f[0] = <<>>
  BY <1>1, <1>2 DEF Step
<1>4. ASSUME NEW i \in 1..Len(s)
      PROVE  f[i] = IF s[i] \in K THEN Append(f[i - 1], s[i]) ELSE f[i - 1]
  <2>1. i \in 0..Len(s) /\ i # 0
    OBVIOUS
  <2> QED
    BY <1>1, <2>1 DEF Step
<1> QED
  BY <1>1, <1>3, <1>4

\* t is s without some of its elements.
Picks(g, t, s) ==
    /\ g \in [1..Len(t) -> 1..Len(s)]
    /\ \A i, j \in 1..Len(t) : i < j => g[i] < g[j]
    /\ \A i \in 1..Len(t) : t[i] = s[g[i]]

\* Only leaves out what is not in K, and nothing else.
LEMMA OnlyPicks ==
    ASSUME NEW S, NEW s \in Seq(S), NEW K
    PROVE  /\ Only(s, K) \in Seq(S)
           /\ \E g : /\ Picks(g, Only(s, K), s)
                     /\ \A i \in 1..Len(s) : s[i] \in K => \E j \in 1..Len(Only(s, K)) : g[j] = i
           /\ (\A i \in 1..Len(s) : s[i] \in K) => Only(s, K) = s
<1>1. PICK f : /\ Only(s, K) = f[Len(s)]
               /\ f[0] = <<>>
               /\ \A i \in 1..Len(s) :
                     f[i] = IF s[i] \in K THEN Append(f[i - 1], s[i]) ELSE f[i - 1]
  BY OnlyPrefixes
<1> DEFINE Good(n) ==
              /\ f[n] \in Seq(S)
              /\ \E g \in [1..Len(f[n]) -> 1..n] :
                    /\ \A i, j \in 1..Len(f[n]) : i < j => g[i] < g[j]
                    /\ \A i \in 1..Len(f[n]) : f[n][i] = s[g[i]]
                    /\ \A i \in 1..n : s[i] \in K => \E j \in 1..Len(f[n]) : g[j] = i
              /\ (\A i \in 1..n : s[i] \in K) => Len(f[n]) = n /\ \A i \in 1..n : f[n][i] = s[i]
           T == {n \in 0..Len(s) : ~Good(n)}
<1>2. Good(0)
  <2> DEFINE g == [i \in 1..0 |-> 0]
  <2>1. f[0] \in Seq(S) /\ Len(f[0]) = 0 /\ g \in [1..0 -> 1..0]
    BY <1>1
  <2> QED
    BY <2>1
<1>3. ASSUME NEW n \in 1..Len(s), Good(n - 1) PROVE Good(n)
  <2> DEFINE u == f[n - 1]
             v == f[n]
  <2>1. PICK g \in [1..Len(u) -> 1..n - 1] :
           /\ \A i, j \in 1..Len(u) : i < j => g[i] < g[j]
           /\ \A i \in 1..Len(u) : u[i] = s[g[i]]
           /\ \A i \in 1..n - 1 : s[i] \in K => \E j \in 1..Len(u) : g[j] = i
    BY <1>3
  <2>2. u \in Seq(S) /\ s[n] \in S
    BY <1>3
  <2>3. (\A i \in 1..n - 1 : s[i] \in K) => Len(u) = n - 1 /\ \A i \in 1..n - 1 : u[i] = s[i]
    BY <1>3
  <2>4. v = IF s[n] \in K THEN Append(u, s[n]) ELSE u
    BY <1>1
  <2> HIDE DEF u, v
  <2>5. CASE s[n] \notin K
    <3>1. v = u /\ g \in [1..Len(v) -> 1..n]
      BY <2>2, <2>4, <2>5
    <3>2. \A i \in 1..n : s[i] \in K => \E j \in 1..Len(v) : g[j] = i
      BY <2>1, <2>5, <3>1
    <3>3. ~\A i \in 1..n : s[i] \in K
      BY <2>5
    <3>4. Good(n) <=>
            /\ v \in Seq(S)
            /\ \E h \in [1..Len(v) -> 1..n] :
                  /\ \A i, j \in 1..Len(v) : i < j => h[i] < h[j]
                  /\ \A i \in 1..Len(v) : v[i] = s[h[i]]
                  /\ \A i \in 1..n : s[i] \in K => \E j \in 1..Len(v) : h[j] = i
            /\ (\A i \in 1..n : s[i] \in K) => Len(v) = n /\ \A i \in 1..n : v[i] = s[i]
      BY DEF v
    <3> HIDE DEF Good
    <3>5. /\ \A i, j \in 1..Len(v) : i < j => g[i] < g[j]
          /\ \A i \in 1..Len(v) : v[i] = s[g[i]]
          /\ v \in Seq(S)
      BY <2>1, <2>2, <3>1
    <3> QED
      BY <3>1, <3>2, <3>3, <3>4, <3>5
  <2>6. CASE s[n] \in K
    <3> DEFINE l == Len(u) + 1
               h == [i \in 1..l |-> IF i = l THEN n ELSE g[i]]
    <3>1. /\ v \in Seq(S) /\ Len(v) = l /\ v[l] = s[n] /\ \A i \in 1..Len(u) : v[i] = u[i]
      BY <2>2, <2>4, <2>6, AppendProperties
    <3>2. Len(u) \in Nat /\ l \in 1..l
      BY <2>2
    <3>3. h \in [1..l -> 1..n] /\ h[l] = n /\ \A i \in 1..Len(u) : h[i] = g[i]
      BY <2>1, <3>2
    <3> HIDE DEF h
    <3>4. ASSUME NEW i \in 1..l, NEW j \in 1..l, i < j PROVE h[i] < h[j]
      <4>1. i \in 1..Len(u) /\ g[i] \in 1..n - 1
        BY <2>1, <3>2, <3>4
      <4>2. h[i] = g[i] /\ g[i] < n
        BY <3>3, <4>1
      <4>3. CASE j = l
        BY <3>3, <4>2, <4>3
      <4>4. CASE j \in 1..Len(u)
        <5>1. h[j] = g[j] /\ g[i] < g[j]
          BY <2>1, <3>3, <3>4, <4>1, <4>4
        <5> QED
          BY <4>2, <5>1
      <4> QED
        BY <3>2, <4>3, <4>4
    <3>5. ASSUME NEW i \in 1..l PROVE v[i] = s[h[i]]
      <4>1. CASE i = l
        BY <3>1, <3>3, <4>1
      <4>2. CASE i \in 1..Len(u)
        <5>1. v[i] = u[i] /\ h[i] = g[i] /\ u[i] = s[g[i]]
          BY <2>1, <3>1, <3>3, <4>2
        <5> QED
          BY <5>1
      <4> QED
        BY <3>2, <4>1, <4>2
    <3>6. ASSUME NEW i \in 1..n, s[i] \in K PROVE \E j \in 1..l : h[j] = i
      <4>1. CASE i = n
        BY <3>2, <3>3, <4>1
      <4>2. CASE i \in 1..n - 1
        <5>1. PICK j \in 1..Len(u) : g[j] = i
          BY <2>1, <3>6, <4>2
        <5> QED
          BY <3>2, <3>3, <5>1
      <4> QED
        BY <4>1, <4>2
    <3>7. ASSUME \A i \in 1..n : s[i] \in K PROVE Len(v) = n /\ \A i \in 1..n : v[i] = s[i]
      <4>1. Len(u) = n - 1 /\ \A i \in 1..n - 1 : u[i] = s[i]
        BY <2>3, <3>7
      <4> QED
        BY <3>1, <4>1
    <3>8. Good(n) <=>
            /\ v \in Seq(S)
            /\ \E hh \in [1..Len(v) -> 1..n] :
                  /\ \A i, j \in 1..Len(v) : i < j => hh[i] < hh[j]
                  /\ \A i \in 1..Len(v) : v[i] = s[hh[i]]
                  /\ \A i \in 1..n : s[i] \in K => \E j \in 1..Len(v) : hh[j] = i
            /\ (\A i \in 1..n : s[i] \in K) => Len(v) = n /\ \A i \in 1..n : v[i] = s[i]
      BY DEF v
    <3> HIDE DEF Good, l
    <3>9. /\ h \in [1..Len(v) -> 1..n]
          /\ \A i, j \in 1..Len(v) : i < j => h[i] < h[j]
          /\ \A i \in 1..Len(v) : v[i] = s[h[i]]
          /\ \A i \in 1..n : s[i] \in K => \E j \in 1..Len(v) : h[j] = i
      BY <3>1, <3>3, <3>4, <3>5, <3>6
    <3> QED
      BY <3>1, <3>7, <3>8, <3>9
  <2> QED
    BY <2>5, <2>6
<1> HIDE DEF Good
<1>4. T = {}
  <2> SUFFICES ASSUME T # {} PROVE FALSE
    OBVIOUS
  <2>1. PICK n \in T : \A k \in T : n <= k
    <3>1. T \in SUBSET Nat
      OBVIOUS
    <3> HIDE DEF T
    <3> QED
      BY <3>1, Least
  <2>2. n # 0 /\ n \in 1..Len(s) /\ n - 1 \in 0..Len(s) /\ n - 1 \notin T
    BY <1>2, <2>1
  <2> QED
    BY <1>3, <2>1, <2>2
<1>5. Good(Len(s))
  BY <1>4
<1> DEFINE t == Only(s, K)
<1>a. t = f[Len(s)]
  BY <1>1
<1> HIDE DEF t
<1>6. /\ t \in Seq(S)
      /\ \E g \in [1..Len(t) -> 1..Len(s)] :
            /\ \A i, j \in 1..Len(t) : i < j => g[i] < g[j]
            /\ \A i \in 1..Len(t) : t[i] = s[g[i]]
            /\ \A i \in 1..Len(s) : s[i] \in K => \E j \in 1..Len(t) : g[j] = i
      /\ (\A i \in 1..Len(s) : s[i] \in K) => Len(t) = Len(s) /\ \A i \in 1..Len(s) : t[i] = s[i]
  BY <1>a, <1>5 DEF Good
<1>7. (\A i \in 1..Len(s) : s[i] \in K) => t = s
  BY <1>6
<1>8. t \in Seq(S) /\ \E g : Picks(g, t, s) /\ \A i \in 1..Len(s) : s[i] \in K => \E j \in 1..Len(t) : g[j] = i
  BY <1>6 DEF Picks
<1> QED
  BY <1>7, <1>8 DEF t

\* The end of a sequence, n elements of it or all.
LEMMA LastOfFacts ==
    ASSUME NEW S, NEW s \in Seq(S), NEW n \in Nat \ {0}
    PROVE  /\ LastOf(s, n) \in Seq(S)
           /\ \E d \in 0..Len(s) :
                 /\ Len(LastOf(s, n)) = Len(s) - d
                 /\ \A i \in 1..Len(s) - d : LastOf(s, n)[i] = s[i + d]
                 /\ d = 0 \/ Len(s) - d = n
                 /\ Len(s) - d <= n
<1>1. CASE Len(s) <= n
  <2>1. LastOf(s, n) = s
    BY <1>1 DEF LastOf
  <2>2. 0 \in 0..Len(s)
    OBVIOUS
  <2> QED
    BY <1>1, <2>1, <2>2
<1>2. CASE Len(s) > n
  <2> DEFINE d == Len(s) - n
             t == SubSeq(s, d + 1, Len(s))
  <2>1. LastOf(s, n) = t
    BY <1>2 DEF LastOf
  <2>2. d \in 1..Len(s) /\ Len(s) \in Nat /\ Len(s) - d = n
    BY <1>2
  <2>3. t \in Seq(S) /\ Len(t) = n /\ \A i \in 1..n : t[i] = s[i + d]
    BY <2>2, SubSeqProperties
  <2> HIDE DEF t, d
  <2> QED
    BY <2>1, <2>2, <2>3
<1> QED
  BY <1>1, <1>2

\* What pruning leaves: in order, everything that has not expired, or the
\* newest of it when that is too much.
LEMMA PrunedFacts ==
    ASSUME NEW s \in Seq(Entries)
    PROVE  /\ Pruned(s) \in Seq(Entries) /\ Len(Pruned(s)) <= MaxEntries
           /\ \E g : /\ Picks(g, Pruned(s), s)
                     /\ \A i \in 1..Len(s) :
                           \/ \E j \in 1..Len(Pruned(s)) : g[j] = i
                           \/ Expired(s[i])
                           \/ Len(Pruned(s)) = MaxEntries
                              /\ \A j \in 1..Len(Pruned(s)) : i < g[j]
           /\ Len(s) >= MaxEntries /\ Len(Pruned(s)) < MaxEntries
                 => \E i \in 1..Len(s) : Expired(s[i])
<1> DEFINE K == {e \in Range(s) : ~Expired(e)}
           c == Only(s, K)
           t == LastOf(c, MaxEntries)
<1>1. \A i \in 1..Len(s) : s[i] \in K <=> ~Expired(s[i])
  BY DEF Range
<1>2. t = Pruned(s)
  BY DEF Pruned
<1>3. MaxEntries \in Nat \ {0}
  BY LimitAssumption
<1> HIDE DEF K
<1>4. /\ c \in Seq(Entries)
      /\ \E h : /\ Picks(h, c, s)
                /\ \A i \in 1..Len(s) : s[i] \in K => \E j \in 1..Len(c) : h[j] = i
      /\ (\A i \in 1..Len(s) : s[i] \in K) => c = s
  BY OnlyPicks, Zenon
<1>5. PICK h : /\ Picks(h, c, s)
               /\ \A i \in 1..Len(s) : s[i] \in K => \E j \in 1..Len(c) : h[j] = i
  BY <1>4
<1> HIDE DEF c
<1>6. /\ t \in Seq(Entries)
      /\ \E d \in 0..Len(c) :
            /\ Len(t) = Len(c) - d
            /\ \A i \in 1..Len(c) - d : t[i] = c[i + d]
            /\ d = 0 \/ Len(c) - d = MaxEntries
            /\ Len(c) - d <= MaxEntries
  BY <1>3, <1>4, LastOfFacts, Zenon
<1>7. PICK d \in 0..Len(c) :
            /\ Len(t) = Len(c) - d
            /\ \A i \in 1..Len(c) - d : t[i] = c[i + d]
            /\ d = 0 \/ Len(c) - d = MaxEntries
            /\ Len(c) - d <= MaxEntries
  BY <1>6
<1> HIDE DEF t
<1> DEFINE g == [i \in 1..Len(t) |-> h[i + d]]
<1>8. /\ Len(c) \in Nat /\ Len(t) \in Nat /\ d \in Nat
      /\ \A i \in 1..Len(t) : i + d \in 1..Len(c)
  BY <1>4, <1>6, <1>7
<1>9. /\ h \in [1..Len(c) -> 1..Len(s)]
      /\ \A i, j \in 1..Len(c) : i < j => h[i] < h[j]
      /\ \A i \in 1..Len(c) : c[i] = s[h[i]]
  BY <1>5 DEF Picks
<1>10. \A i \in 1..Len(t) : g[i] = h[i + d]
  OBVIOUS
<1>11. Picks(g, t, s)
  <2>1. g \in [1..Len(t) -> 1..Len(s)]
    BY <1>8, <1>9
  <2> HIDE DEF g
  <2>2. ASSUME NEW i \in 1..Len(t), NEW j \in 1..Len(t), i < j PROVE g[i] < g[j]
    <3>1. i + d < j + d
      BY <1>8, <2>2
    <3> QED
      BY <1>8, <1>9, <1>10, <3>1
  <2>3. \A i \in 1..Len(t) : t[i] = s[g[i]]
    BY <1>7, <1>8, <1>9, <1>10
  <2> QED
    BY <2>1, <2>2, <2>3 DEF Picks
<1> HIDE DEF g
<1>12. ASSUME NEW i \in 1..Len(s), ~Expired(s[i])
       PROVE  \/ \E j \in 1..Len(t) : g[j] = i
              \/ Len(t) = MaxEntries /\ \A j \in 1..Len(t) : i < g[j]
  <2>1. PICK k \in 1..Len(c) : h[k] = i
    BY <1>1, <1>5, <1>12
  <2>2. CASE k > d
    <3>1. k - d \in 1..Len(t) /\ (k - d) + d = k
      BY <1>7, <1>8, <2>2
    <3> QED
      BY <1>10, <2>1, <3>1
  <2>3. CASE k <= d
    <3>1. d # 0 /\ Len(t) = MaxEntries
      BY <1>7, <1>8, <2>3
    <3>2. ASSUME NEW j \in 1..Len(t) PROVE i < g[j]
      <4>1. k < j + d /\ j + d \in 1..Len(c)
        BY <1>8, <2>3
      <4> QED
        BY <1>9, <1>10, <2>1, <4>1
    <3> QED
      BY <3>1, <3>2
  <2> QED
    BY <1>8, <2>2, <2>3
<1>13. ASSUME Len(s) >= MaxEntries, Len(t) < MaxEntries PROVE \E i \in 1..Len(s) : Expired(s[i])
  <2> SUFFICES ASSUME \A i \in 1..Len(s) : ~Expired(s[i]) PROVE FALSE
    OBVIOUS
  <2>1. c = s
    BY <1>1, <1>4
  <2> QED
    BY <1>3, <1>7, <1>8, <1>13, <2>1
<1>14. Len(t) <= MaxEntries
  BY <1>7
<1> QED
  BY <1>2, <1>6, <1>11, <1>12, <1>13, <1>14

\* A list without some of its entries keeps what is said of pairs of entries.
LEMMA PicksKeep ==
    ASSUME NEW s, NEW t, NEW g, Picks(g, t, s)
    PROVE  /\ Ascending(s) => Ascending(t)
           /\ Timely(s) => Timely(t)
           /\ Spaced(s) => Spaced(t)
           /\ Past(s) => Past(t)
           /\ \A n : Below(s, n) => Below(t, n)
           /\ \A i \in 1..Len(t) : \E j \in 1..Len(s) : t[i] = s[j]
<1>1. /\ \A i \in 1..Len(t) : g[i] \in 1..Len(s) /\ t[i] = s[g[i]]
      /\ \A i, j \in 1..Len(t) : i < j => g[i] < g[j]
  BY DEF Picks
<1>2. Ascending(s) => Ascending(t)
  BY <1>1 DEF Ascending
<1>3. Timely(s) => Timely(t)
  BY <1>1 DEF Timely
<1>4. Spaced(s) => Spaced(t)
  BY <1>1, SMTT(60) DEF Spaced
<1>5. Past(s) => Past(t)
  BY <1>1 DEF Past
<1>6. \A n : Below(s, n) => Below(t, n)
  BY <1>1 DEF Below
<1> QED
  BY <1>1, <1>2, <1>3, <1>4, <1>5, <1>6

-----------------------------------------------------------------------------
(* The log: what its lists are after an entry was added. *)

\* What Add appends.
New(k)   == [id |-> nextID, time |-> now, key |-> k]
Added(k) == Append(items, New(k))

\* The readable part of the file after an append: nothing new, the entry at
\* its end, or without the cut line that was continued.
LEMMA AppendedFile ==
    ASSUME AuditTypeOK, NEW e \in Entries, NEW o \in AppendOutcomes(e)
    PROVE  /\ o.disk \in Seq(Entries) /\ o.tail \in Seq(Entries) /\ Len(o.tail) <= 1
           /\ o.cut \in BOOLEAN /\ (o.tail # <<>> => o.cut) /\ o.bad \in {0, 1}
           /\ \/ ~cut /\ o.disk \o o.tail = Append(Parsed, e)
                 /\ (IF o.cut THEN o.bad = 1 ELSE o.bad = 0)
              \/ o.bad = 1 /\ o.disk = disk /\ o.tail = tail /\ o.cut = cut
              \/ o.bad = 1 /\ o.disk = disk /\ o.tail = <<>> /\ o.cut = TRUE
              \/ cut /\ o.disk = disk /\ o.tail = <<>> /\ o.cut = FALSE /\ o.bad = 0
<1>0. /\ disk \in Seq(Entries) /\ tail \in Seq(Entries) /\ Len(tail) <= 1
      /\ cut \in BOOLEAN /\ (tail # <<>> => cut)
  BY DEF AuditTypeOK
<1>1. CASE cut
  <2>1. disk \o <<>> = disk
    BY <1>0, ConcatEmptySeq
  <2>2. \/ o = [disk |-> disk, tail |-> <<>>, cut |-> FALSE, bad |-> 0]
        \/ o = [disk |-> disk, tail |-> tail, cut |-> cut,  bad |-> 1]
        \/ o = [disk |-> disk, tail |-> <<>>, cut |-> TRUE, bad |-> 1]
    BY <1>0, <1>1, <2>1 DEF AppendOutcomes
  <2>3. CASE o = [disk |-> disk, tail |-> <<>>, cut |-> FALSE, bad |-> 0]
    BY <1>0, <1>1, <2>3
  <2>4. CASE o = [disk |-> disk, tail |-> tail, cut |-> cut,  bad |-> 1]
    BY <1>0, <1>1, <2>4
  <2>5. CASE o = [disk |-> disk, tail |-> <<>>, cut |-> TRUE, bad |-> 1]
    BY <1>0, <1>1, <2>5
  <2> QED
    BY <1>0, <2>2, <2>3, <2>4, <2>5
<1>2. CASE ~cut
  <2>1. tail = <<>> /\ Parsed = disk
    BY <1>0, <1>2, ConcatEmptySeq DEF Parsed
  <2>2. disk \o <<e>> = Append(disk, e) /\ Append(disk, e) \in Seq(Entries) /\ Append(disk, e) \o <<>> = Append(disk, e)
    BY <1>0, AppendIsConcat, AppendProperties, ConcatEmptySeq
  <2>3. \/ o = [disk |-> Append(disk, e), tail |-> <<>>, cut |-> FALSE, bad |-> 0]
        \/ o = [disk |-> disk, tail |-> tail, cut |-> cut,  bad |-> 1]
        \/ o = [disk |-> disk, tail |-> <<>>, cut |-> TRUE, bad |-> 1]
        \/ o = [disk |-> disk, tail |-> <<e>>, cut |-> TRUE, bad |-> 1]
    BY <1>0, <1>2, <2>2 DEF AppendOutcomes
  <2> DEFINE one == <<e>>
  <2>4. one \in Seq(Entries) /\ Len(one) = 1
    OBVIOUS
  <2> DEFINE longer == Append(disk, e)
  <2>5. longer \in Seq(Entries) /\ longer \o <<>> = longer /\ disk \o one = longer /\ longer = Append(Parsed, e)
    BY <1>0, <2>1, <2>2
  <2> HIDE DEF longer, one
  <2>6. CASE o = [disk |-> longer, tail |-> <<>>, cut |-> FALSE, bad |-> 0]
    BY <1>0, <1>2, <2>5, <2>6
  <2>7. CASE o = [disk |-> disk, tail |-> tail, cut |-> cut,  bad |-> 1]
    BY <1>0, <1>2, <2>7
  <2>8. CASE o = [disk |-> disk, tail |-> <<>>, cut |-> TRUE, bad |-> 1]
    BY <1>0, <1>2, <2>8
  <2>9. CASE o = [disk |-> disk, tail |-> one, cut |-> TRUE, bad |-> 1]
    <3>1. o.disk = disk /\ o.tail = one /\ o.cut = TRUE /\ o.bad = 1
      BY <1>0, <2>9
    <3>2. o.disk \o o.tail = Append(Parsed, e)
      BY <1>0, <2>5, <3>1
    <3>3. o.disk \in Seq(Entries)
      BY <1>0, <3>1
    <3>4. o.tail \in Seq(Entries)
      BY <2>4, <3>1
    <3>5. Len(o.tail) = 1
      BY <2>4, <3>1
    <3>6. o.disk \in Seq(Entries) /\ o.tail \in Seq(Entries) /\ Len(o.tail) <= 1
      BY <3>3, <3>4, <3>5
    <3>7. o.cut \in BOOLEAN /\ (o.tail # <<>> => o.cut) /\ o.bad \in {0, 1}
      BY <1>0, <3>1
    <3>8. ~cut /\ o.disk \o o.tail = Append(Parsed, e) /\ (IF o.cut THEN o.bad = 1 ELSE o.bad = 0)
      BY <1>0, <1>2, <3>1, <3>2
    <3> QED
      BY <3>6, <3>7, <3>8
  <2> QED
    BY <1>0, <2>3, <2>6, <2>7, <2>8, <2>9 DEF longer, one
<1> QED
  BY <1>1, <1>2

\* rewriteFile: the file says what it is given, or what it said.
LEMMA RewrittenFile ==
    ASSUME AuditTypeOK, NEW s \in Seq(Entries), NEW o \in RewriteOutcomes(s)
    PROVE  \/ o.disk = s /\ o.tail = <<>> /\ o.cut = FALSE /\ o.bad = 0
           \/ o.disk = disk /\ o.tail = tail /\ o.cut = cut /\ o.bad = 1
<1>1. CASE o = [disk |-> s, tail |-> <<>>, cut |-> FALSE, bad |-> 0]
  BY <1>1
<1>2. CASE o = [disk |-> disk, tail |-> tail, cut |-> cut, bad |-> 1]
  BY <1>2
<1> QED
  BY <1>1, <1>2 DEF RewriteOutcomes

\* The outcomes of rewriting as steps of the file.
LEMMA RewriteStep ==
    ASSUME AuditTypeOK, NEW s \in Seq(Entries), \E o \in RewriteOutcomes(s) : File(o)
    PROVE  \/ disk' = s /\ tail' = <<>> /\ cut' = FALSE /\ failures' = failures /\ Parsed' = s
           \/ UNCHANGED <<disk, tail, cut>> /\ failures' = failures + 1 /\ Parsed' = Parsed
<1>1. PICK o \in RewriteOutcomes(s) : File(o)
  OBVIOUS
<1>2. failures \in Nat
  BY DEF AuditTypeOK
<1>3. CASE o.disk = s /\ o.tail = <<>> /\ o.cut = FALSE /\ o.bad = 0
  <2>1. disk' = s /\ tail' = <<>> /\ cut' = FALSE /\ failures' = failures
    BY <1>1, <1>2, <1>3 DEF File
  <2>2. Parsed' = s
    BY <2>1, ConcatEmptySeq DEF Parsed
  <2> QED
    BY <2>1, <2>2
<1>4. CASE o.disk = disk /\ o.tail = tail /\ o.cut = cut /\ o.bad = 1
  BY <1>1, <1>2, <1>4 DEF File, Parsed
<1> QED
  BY <1>1, <1>3, <1>4, RewrittenFile

\* The outcomes of appending.
LEMMA AppendStep ==
    ASSUME AuditTypeOK, NEW e \in Entries, \E o \in AppendOutcomes(e) : File(o)
    PROVE  \/ /\ ~cut /\ Parsed' = Append(Parsed, e)
              /\ \/ ~cut' /\ failures' = failures
                 \/ cut' /\ failures' = failures + 1
           \/ UNCHANGED <<disk, tail, cut>> /\ failures' = failures + 1 /\ Parsed' = Parsed
           \/ disk' = disk /\ tail' = <<>> /\ cut' = TRUE /\ failures' = failures + 1 /\ Parsed' = disk
           \/ /\ cut /\ disk' = disk /\ tail' = <<>> /\ cut' = FALSE
              /\ failures' = failures /\ Parsed' = disk
<1>1. PICK o \in AppendOutcomes(e) : File(o)
  OBVIOUS
<1>2. failures \in Nat /\ disk \in Seq(Entries)
  BY DEF AuditTypeOK
<1>3. disk' = o.disk /\ tail' = o.tail /\ cut' = o.cut /\ failures' = failures + o.bad
  BY <1>1 DEF File
<1>4. Parsed' = o.disk \o o.tail
  BY <1>3 DEF Parsed
<1>5. disk \o <<>> = disk
  BY <1>2, ConcatEmptySeq
<1>6. CASE /\ ~cut /\ o.disk \o o.tail = Append(Parsed, e)
           /\ (IF o.cut THEN o.bad = 1 ELSE o.bad = 0)
  <2>1. CASE o.cut
    BY <1>2, <1>3, <1>4, <1>6, <2>1
  <2>2. CASE ~o.cut
    BY <1>2, <1>3, <1>4, <1>6, <2>2
  <2> QED
    BY <2>1, <2>2
<1>7. CASE o.bad = 1 /\ o.disk = disk /\ o.tail = tail /\ o.cut = cut
  BY <1>3, <1>7 DEF Parsed
<1>8. CASE o.bad = 1 /\ o.disk = disk /\ o.tail = <<>> /\ o.cut = TRUE
  BY <1>3, <1>4, <1>5, <1>8
<1>9. CASE cut /\ o.disk = disk /\ o.tail = <<>> /\ o.cut = FALSE /\ o.bad = 0
  <2>1. disk' = disk /\ tail' = <<>> /\ cut' = FALSE /\ Parsed' = disk
    BY <1>3, <1>4, <1>5, <1>9
  <2>2. failures' = failures
    BY <1>2, <1>3, <1>9
  <2> QED
    BY <1>9, <2>1, <2>2
<1> QED
  BY <1>6, <1>7, <1>8, <1>9, AppendedFile

\* What File does to the types.
Outcome(o) ==
    /\ o.disk \in Seq(Entries) /\ o.tail \in Seq(Entries) /\ Len(o.tail) <= 1
    /\ o.cut \in BOOLEAN /\ (o.tail # <<>> => o.cut) /\ o.bad \in {0, 1}

LEMMA Outcomes ==
    ASSUME AuditTypeOK
    PROVE  /\ \A s \in Seq(Entries) : \A o \in RewriteOutcomes(s) : Outcome(o)
           /\ \A e \in Entries : \A o \in AppendOutcomes(e) : Outcome(o)
<1>1. ASSUME NEW s \in Seq(Entries), NEW o \in RewriteOutcomes(s) PROVE Outcome(o)
  <2>1. CASE o.disk = s /\ o.tail = <<>> /\ o.cut = FALSE /\ o.bad = 0
    <3>1. o.tail = <<>> /\ o.tail \in Seq(Entries) /\ Len(o.tail) = 0
      BY <2>1
    <3>2. o.disk \in Seq(Entries) /\ o.bad \in {0, 1}
      BY <2>1
    <3>3. o.cut \in BOOLEAN
      BY <2>1
    <3> QED
      BY <3>1, <3>2, <3>3 DEF Outcome
  <2>2. CASE o.disk = disk /\ o.tail = tail /\ o.cut = cut /\ o.bad = 1
    BY <2>2 DEF Outcome, AuditTypeOK
  <2> QED
    BY <2>1, <2>2, RewrittenFile
<1>2. ASSUME NEW e \in Entries, NEW o \in AppendOutcomes(e) PROVE Outcome(o)
  BY AppendedFile DEF Outcome
<1> QED
  BY <1>1, <1>2

LEMMA FileTypes ==
    ASSUME AuditTypeOK, NEW o, File(o), Outcome(o)
    PROVE  /\ disk' \in Seq(Entries) /\ tail' \in Seq(Entries) /\ Len(tail') <= 1
           /\ cut' \in BOOLEAN /\ (tail' # <<>> => cut')
           /\ failures' \in Nat /\ trouble' \in 0..MaxTrouble
<1>1. failures \in Nat /\ trouble \in 0..MaxTrouble /\ MaxTrouble \in Nat
  BY AuditBoundsAssumption DEF AuditTypeOK
<1>2. disk' = o.disk /\ tail' = o.tail /\ cut' = o.cut /\ failures' = failures + o.bad
      /\ trouble' = trouble + o.bad /\ trouble' <= MaxTrouble
  BY DEF File
<1> QED
  BY <1>1, <1>2 DEF Outcome

\* An ID greater than all in an ascending list.
LEMMA NextFreeFacts ==
    ASSUME NEW s \in Seq(Entries), Ascending(s)
    PROVE  NextFree(s) \in Nat \ {0} /\ Below(s, NextFree(s))
<1> DEFINE ids == {s[i].id : i \in 1..Len(s)} \cup {0}
<1>1. \A i \in 1..Len(s) : s[i].id \in Nat
  <2>1. \A i \in 1..Len(s) : s[i] \in Entries
    OBVIOUS
  <2> QED
    BY <2>1 DEF Entries
<1>2. Len(s) \in Nat
  OBVIOUS
<1>3. \E x \in ids : \A y \in ids : x >= y
  <2>1. CASE Len(s) = 0
    BY <2>1
  <2>2. CASE Len(s) # 0
    <3>1. Len(s) \in 1..Len(s)
      BY <1>2, <2>2
    <3>2. \A i \in 1..Len(s) : s[Len(s)].id >= s[i].id
      <4> SUFFICES ASSUME NEW i \in 1..Len(s) PROVE s[Len(s)].id >= s[i].id
        OBVIOUS
      <4>1. i < Len(s) => s[i].id < s[Len(s)].id
        BY <3>1 DEF Ascending
      <4> QED
        BY <1>1, <3>1, <4>1
    <3>3. s[Len(s)].id \in ids /\ s[Len(s)].id >= 0
      BY <1>1, <3>1
    <3> QED
      BY <3>2, <3>3
  <2> QED
    BY <2>1, <2>2
<1>4. ids \subseteq Nat
  BY <1>1
<1>5. \A i \in 1..Len(s) : s[i].id \in ids
  OBVIOUS
<1>6. NextFree(s) = Max(ids) + 1
  BY DEF NextFree
<1> HIDE DEF ids
<1>7. Max(ids) \in ids /\ \A y \in ids : Max(ids) >= y
  BY <1>3 DEF Max
<1> DEFINE m == Max(ids)
<1>8. m \in Nat /\ NextFree(s) = m + 1 /\ \A i \in 1..Len(s) : s[i].id <= m
  BY <1>1, <1>4, <1>5, <1>6, <1>7
<1> HIDE DEF m
<1> QED
  BY <1>1, <1>8 DEF Below

\* The new entry and the list with it.
LEMMA NewFacts ==
    ASSUME AuditTypeOK, NEW k \in Keys
    PROVE  /\ New(k) \in Entries
           /\ New(k).id = nextID /\ New(k).time = now /\ New(k).key = k
           /\ Added(k) \in Seq(Entries) /\ Len(Added(k)) = Len(items) + 1
           /\ \A i \in 1..Len(items) : Added(k)[i] = items[i]
           /\ Added(k)[Len(items) + 1] = New(k)
<1>1. items \in Seq(Entries) /\ nextID \in Nat /\ now \in 0..MaxTime
  BY DEF AuditTypeOK
<1>2. New(k) \in Entries /\ New(k).id = nextID /\ New(k).time = now /\ New(k).key = k
  BY <1>1 DEF New, Entries
<1> QED
  BY <1>1, <1>2, AppendProperties DEF Added

\* What Add does to the two lists.
LEMMA AddFacts ==
    ASSUME AuditTypeOK, NEW k \in Keys, Add(k)
    PROVE  /\ up /\ ~Duplicate(items, k) /\ adds < MaxAdds /\ adds' = adds + 1
           /\ items' = Pruned(Added(k)) /\ nextID' = nextID + 1
           /\ UNCHANGED <<now, up, stepped, silenced, begin>>
           /\ \/ \E o \in RewriteOutcomes(Pruned(Added(k))) : File(o)
              \/ Pruned(Added(k)) = Added(k) /\ \E o \in AppendOutcomes(New(k)) : File(o)
<1>1. /\ items' = Pruned(Added(k))
      /\ \E o \in IF Pruned(Added(k)) # Added(k) THEN RewriteOutcomes(Pruned(Added(k)))
                  ELSE AppendOutcomes(New(k)) : File(o)
  BY Zenon DEF Add, Added, New
<1>2. /\ up /\ ~Duplicate(items, k) /\ adds < MaxAdds /\ adds' = adds + 1
      /\ nextID' = nextID + 1 /\ UNCHANGED <<now, up, stepped, silenced, begin>>
  BY Zenon DEF Add
<1> QED
  BY <1>1, <1>2

\* An empty log is well-formed,
LEMMA AuditInitTypeOK == AuditInit => AuditTypeOK
<1> SUFFICES ASSUME AuditInit PROVE AuditTypeOK
  OBVIOUS
<1>1. <<>> \in Seq(Entries) /\ Len(<<>>) = 0
  OBVIOUS
<1>2. {MaxEntries, MaxTime, MaxAdds, MaxTrouble} \subseteq Nat
  BY LimitAssumption, AuditBoundsAssumption
<1>3. /\ items \in Seq(Entries) /\ Len(items) <= MaxEntries /\ disk \in Seq(Entries)
      /\ tail \in Seq(Entries) /\ Len(tail) <= 1 /\ tail = <<>>
  BY <1>1, <1>2 DEF AuditInit
<1>4. /\ nextID \in Nat \ {0} /\ begin \in Nat \ {0} /\ now \in 0..MaxTime
      /\ adds \in 0..MaxAdds /\ trouble \in 0..MaxTrouble /\ failures \in Nat
  BY <1>2 DEF AuditInit
<1>5. cut \in BOOLEAN /\ up \in BOOLEAN /\ stepped \in BOOLEAN /\ silenced \in BOOLEAN
  BY Zenon DEF AuditInit
<1> QED
  BY <1>3, <1>4, <1>5 DEF AuditTypeOK

\* and every operation leaves it so.  The order of the IDs is needed for the
\* greatest of them to exist.
LEMMA AuditNextTypeOK ==
    ASSUME AuditTypeOK, Ascending(Parsed), [AuditNext]_auditVars PROVE AuditTypeOK'
<1>0. /\ {MaxEntries, MaxTime, MaxAdds, MaxTrouble} \subseteq Nat
  BY LimitAssumption, AuditBoundsAssumption
<1>1. ASSUME NEW k \in Keys, Add(k) PROVE AuditTypeOK'
  <2>1. New(k) \in Entries /\ Added(k) \in Seq(Entries)
    BY NewFacts
  <2>2. Pruned(Added(k)) \in Seq(Entries) /\ Len(Pruned(Added(k))) <= MaxEntries
    BY <2>1, PrunedFacts
  <2>3. /\ disk' \in Seq(Entries) /\ tail' \in Seq(Entries) /\ Len(tail') <= 1
        /\ cut' \in BOOLEAN /\ (tail' # <<>> => cut')
        /\ failures' \in Nat /\ trouble' \in 0..MaxTrouble
    <3>1. PICK o : File(o) /\ Outcome(o)
      BY <1>1, <2>1, <2>2, AddFacts, Outcomes
    <3> QED
      BY <3>1, FileTypes
  <2>4. /\ items' \in Seq(Entries) /\ Len(items') <= MaxEntries
    BY <1>1, <2>2, AddFacts
  <2>5. adds < MaxAdds /\ adds' = adds + 1 /\ nextID' = nextID + 1 /\ UNCHANGED <<now, up, stepped, silenced, begin>>
    BY <1>1, AddFacts
  <2>6. nextID' \in Nat \ {0} /\ begin' \in Nat \ {0} /\ now' \in 0..MaxTime /\ adds' \in 0..MaxAdds
    BY <1>0, <2>5 DEF AuditTypeOK
  <2>7. up' \in BOOLEAN /\ stepped' \in BOOLEAN /\ silenced' \in BOOLEAN
    BY <2>5 DEF AuditTypeOK
  <2> QED
    BY <2>3, <2>4, <2>6, <2>7 DEF AuditTypeOK
<1>2. ASSUME NEW k \in Keys, Suppress(k) PROVE AuditTypeOK'
  <2>1. silenced' \in BOOLEAN
    BY <1>2 DEF Suppress
  <2>2. UNCHANGED <<items, nextID, disk, tail, cut, now, up, adds, trouble, failures, stepped, begin>>
    BY <1>2 DEF Suppress
  <2> QED
    BY <2>1, <2>2 DEF AuditTypeOK
<1>3. CASE List
  <2>1. Pruned(items) \in Seq(Entries) /\ Len(Pruned(items)) <= MaxEntries
    BY PrunedFacts DEF AuditTypeOK
  <2>2. items' = Pruned(items) /\ \E o \in RewriteOutcomes(Pruned(items)) : File(o)
    BY <1>3 DEF List
  <2>3. /\ disk' \in Seq(Entries) /\ tail' \in Seq(Entries) /\ Len(tail') <= 1
        /\ cut' \in BOOLEAN /\ (tail' # <<>> => cut')
        /\ failures' \in Nat /\ trouble' \in 0..MaxTrouble
    <3>1. PICK o : File(o) /\ Outcome(o)
      BY <2>1, <2>2, Outcomes
    <3> QED
      BY <3>1, FileTypes
  <2>4. UNCHANGED <<nextID, now, up, adds, stepped, silenced, begin>>
    BY <1>3 DEF List
  <2> QED
    BY <2>1, <2>2, <2>3, <2>4 DEF AuditTypeOK
<1>4. CASE Restart
  <2>1. Parsed \in Seq(Entries)
    BY ConcatProperties DEF Parsed, AuditTypeOK
  <2>2. Pruned(Parsed) \in Seq(Entries) /\ Len(Pruned(Parsed)) <= MaxEntries
    BY <2>1, PrunedFacts
  <2>3. NextFree(Parsed) \in Nat \ {0}
    BY <2>1, NextFreeFacts
  <2>4. /\ items' = Pruned(Parsed) /\ nextID' = NextFree(Parsed) /\ begin' = nextID' /\ up' = TRUE
        /\ UNCHANGED <<now, adds, stepped, silenced>>
        /\ \/ \E o \in RewriteOutcomes(Pruned(Parsed)) : File(o)
           \/ UNCHANGED <<disk, tail, cut, failures, trouble>>
    BY <1>4 DEF Restart
  <2>5. /\ disk' \in Seq(Entries) /\ tail' \in Seq(Entries) /\ Len(tail') <= 1
        /\ cut' \in BOOLEAN /\ (tail' # <<>> => cut')
        /\ failures' \in Nat /\ trouble' \in 0..MaxTrouble
    <3>1. CASE \E o \in RewriteOutcomes(Pruned(Parsed)) : File(o)
      <4>1. PICK o : File(o) /\ Outcome(o)
        BY <2>2, <3>1, Outcomes
      <4> QED
        BY <4>1, FileTypes
    <3>2. CASE UNCHANGED <<disk, tail, cut, failures, trouble>>
      BY <3>2 DEF AuditTypeOK
    <3> QED
      BY <2>4, <3>1, <3>2
  <2> QED
    BY <2>2, <2>3, <2>4, <2>5 DEF AuditTypeOK
<1>5. CASE Tick
  BY <1>0, <1>5 DEF Tick, AuditTypeOK
<1>6. CASE Crash
  <2>1. up' \in BOOLEAN
    BY <1>6 DEF Crash
  <2>2. trouble' \in 0..MaxTrouble
    BY <1>0, <1>6 DEF Crash, AuditTypeOK
  <2>3. UNCHANGED <<items, nextID, disk, tail, cut, now, adds, failures, stepped, silenced, begin>>
    BY <1>6 DEF Crash
  <2> QED
    BY <2>1, <2>2, <2>3 DEF AuditTypeOK
<1>7. CASE ClockBack
  BY <1>0, <1>7 DEF ClockBack, AuditTypeOK
<1>8. CASE UNCHANGED auditVars
  BY <1>8 DEF auditVars, AuditTypeOK
<1> QED
  BY <1>1, <1>2, <1>3, <1>4, <1>5, <1>6, <1>7, <1>8 DEF AuditNext

-----------------------------------------------------------------------------
(* The log: what an operation makes of its two lists. *)

\* t is s without some of its elements, in the same order.
Within(t, s) == \E g : Picks(g, t, s)

\* To leave out nothing.
LEMMA WithinItself ==
    ASSUME NEW S, NEW s \in Seq(S)
    PROVE  Within(s, s)
<1>1. [i \in 1..Len(s) |-> i] \in [1..Len(s) -> 1..Len(s)]
  OBVIOUS
<1>2. Picks([i \in 1..Len(s) |-> i], s, s)
  BY <1>1 DEF Picks
<1> QED
  BY <1>2 DEF Within

\* Without the cut line.
LEMMA DiskWithin == ASSUME AuditTypeOK PROVE Within(disk, Parsed)
<1>1. /\ disk \in Seq(Entries) /\ tail \in Seq(Entries)
      /\ Len(Parsed) = Len(disk) + Len(tail) /\ \A i \in 1..Len(disk) : Parsed[i] = disk[i]
  BY ConcatProperties DEF AuditTypeOK, Parsed
<1> DEFINE g == [i \in 1..Len(disk) |-> i]
<1>2. g \in [1..Len(disk) -> 1..Len(Parsed)] /\ \A i \in 1..Len(disk) : g[i] = i
  BY <1>1
<1> HIDE DEF g
<1>3. Picks(g, disk, Parsed)
  BY <1>1, <1>2 DEF Picks
<1> QED
  BY <1>3 DEF Within

LEMMA ParsedType == ASSUME AuditTypeOK PROVE Parsed \in Seq(Entries)
  BY ConcatProperties DEF AuditTypeOK, Parsed

\* The file after Add: the list in memory, a part of what it was, or the
\* entry at its end.
LEMMA AddParsed ==
    ASSUME AuditTypeOK, NEW k \in Keys, Add(k)
    PROVE  \/ Parsed' = items'
           \/ Within(Parsed', Parsed)
           \/ Parsed' = Append(Parsed, New(k)) /\ items' = Added(k) /\ Len(items) < MaxEntries
<1>1. New(k) \in Entries /\ Added(k) \in Seq(Entries) /\ Len(Added(k)) = Len(items) + 1
  BY NewFacts
<1>2. Pruned(Added(k)) \in Seq(Entries) /\ Len(Pruned(Added(k))) <= MaxEntries
  BY <1>1, PrunedFacts
<1>3. items' = Pruned(Added(k))
  BY AddFacts
<1>4. Within(Parsed, Parsed) /\ Within(disk, Parsed)
  BY ParsedType, WithinItself, DiskWithin
<1>5. CASE \E o \in RewriteOutcomes(Pruned(Added(k))) : File(o)
  BY <1>2, <1>3, <1>4, <1>5, RewriteStep
<1>6. CASE Pruned(Added(k)) = Added(k) /\ \E o \in AppendOutcomes(New(k)) : File(o)
  <2>1. Parsed' = Append(Parsed, New(k)) \/ Parsed' = Parsed \/ Parsed' = disk
    BY <1>1, <1>6, AppendStep
  <2>2. Len(items) < MaxEntries
    <3>1. items \in Seq(Entries) /\ Len(items) \in Nat /\ MaxEntries \in Nat
      BY LimitAssumption DEF AuditTypeOK
    <3>2. Len(items) + 1 <= MaxEntries
      BY <1>1, <1>2, <1>6
    <3> QED
      BY <3>1, <3>2
  <2> QED
    BY <1>3, <1>4, <1>6, <2>1, <2>2
<1> QED
  BY <1>5, <1>6, AddFacts

\* What is said of pairs of entries stays true when entries are left out,
LEMMA WithinKeeps ==
    ASSUME NEW s, NEW t, Within(t, s)
    PROVE  /\ Ascending(s) => Ascending(t)
           /\ Timely(s) => Timely(t)
           /\ Spaced(s) => Spaced(t)
           /\ Past(s) => Past(t)
           /\ \A n : Below(s, n) => Below(t, n)
           /\ \A i \in 1..Len(t) : \E j \in 1..Len(s) : t[i] = s[j]
  BY PicksKeep DEF Within

\* as pruning does.
LEMMA PrunedWithin ==
    ASSUME NEW s \in Seq(Entries)
    PROVE  Within(Pruned(s), s)
  BY PrunedFacts DEF Within

\* An entry with a new ID, recorded now.
LEMMA AppendKeeps ==
    ASSUME AuditTypeOK, NEW s \in Seq(Entries), NEW k \in Keys
    PROVE  /\ Append(s, New(k)) \in Seq(Entries)
           /\ Len(Append(s, New(k))) = Len(s) + 1
           /\ Append(s, New(k))[Len(s) + 1] = New(k)
           /\ \A i \in 1..Len(s) : Append(s, New(k))[i] = s[i]
           /\ Ascending(s) /\ Below(s, nextID) =>
                 Ascending(Append(s, New(k))) /\ Below(Append(s, New(k)), nextID + 1)
           /\ Timely(s) /\ Past(s) => Timely(Append(s, New(k))) /\ Past(Append(s, New(k)))
           /\ Spaced(s) /\ (\A i \in 1..Len(s) :
                               s[i].key = k /\ Reliable(s[i]) => now - s[i].time >= Window)
                 => Spaced(Append(s, New(k)))
<1> DEFINE t == Append(s, New(k))
<1>1. New(k) \in Entries /\ New(k).id = nextID /\ New(k).time = now /\ New(k).key = k
  BY NewFacts
<1>2. /\ t \in Seq(Entries) /\ Len(t) = Len(s) + 1 /\ t[Len(s) + 1] = New(k)
      /\ \A i \in 1..Len(s) : t[i] = s[i]
  BY <1>1, AppendProperties
<1> HIDE DEF t
<1>3. Len(s) \in Nat /\ nextID \in Nat /\ now \in Nat /\ \A i \in 1..Len(s) : s[i].id \in Nat /\ s[i].time \in Nat
  <2>1. \A i \in 1..Len(s) : s[i] \in Entries
    OBVIOUS
  <2>2. \A i \in 1..Len(s) : s[i].id \in Nat /\ s[i].time \in 0..MaxTime
    BY <2>1 DEF Entries
  <2>3. MaxTime \in Nat /\ now \in 0..MaxTime /\ nextID \in Nat
    BY AuditBoundsAssumption DEF AuditTypeOK
  <2> QED
    BY <2>2, <2>3
<1>4. ASSUME Ascending(s), Below(s, nextID) PROVE Ascending(t) /\ Below(t, nextID + 1)
  <2>1. ASSUME NEW i \in 1..Len(t), NEW j \in 1..Len(t), i < j PROVE t[i].id < t[j].id
    <3>1. i \in 1..Len(s) /\ t[i] = s[i]
      BY <1>2, <1>3, <2>1
    <3>2. CASE j = Len(s) + 1
      BY <1>1, <1>2, <1>4, <3>1, <3>2 DEF Below
    <3>3. CASE j \in 1..Len(s)
      BY <1>2, <1>4, <2>1, <3>1, <3>3 DEF Ascending
    <3> QED
      BY <1>2, <1>3, <3>2, <3>3
  <2>2. ASSUME NEW i \in 1..Len(t) PROVE t[i].id < nextID + 1
    <3>1. CASE i = Len(s) + 1
      BY <1>1, <1>2, <1>3, <3>1
    <3>2. CASE i \in 1..Len(s)
      BY <1>2, <1>3, <1>4, <3>2 DEF Below
    <3> QED
      BY <1>2, <1>3, <3>1, <3>2
  <2> QED
    BY <2>1, <2>2 DEF Ascending, Below
<1>5. ASSUME Timely(s), Past(s) PROVE Timely(t) /\ Past(t)
  <2>1. ASSUME NEW i \in 1..Len(t), NEW j \in 1..Len(t), i < j, Reliable(t[i]) PROVE t[i].time <= t[j].time
    <3>1. i \in 1..Len(s) /\ t[i] = s[i]
      BY <1>2, <1>3, <2>1
    <3>2. CASE j = Len(s) + 1
      BY <1>1, <1>2, <1>5, <2>1, <3>1, <3>2 DEF Past
    <3>3. CASE j \in 1..Len(s)
      BY <1>2, <1>5, <2>1, <3>1, <3>3 DEF Timely
    <3> QED
      BY <1>2, <1>3, <3>2, <3>3
  <2>2. ASSUME NEW i \in 1..Len(t), Reliable(t[i]) PROVE t[i].time <= now
    <3>1. CASE i = Len(s) + 1
      BY <1>1, <1>2, <1>3, <3>1
    <3>2. CASE i \in 1..Len(s)
      BY <1>2, <1>3, <1>5, <2>2, <3>2 DEF Past
    <3> QED
      BY <1>2, <1>3, <3>1, <3>2
  <2> QED
    BY <2>1, <2>2 DEF Timely, Past
<1>6. ASSUME Spaced(s),
             \A i \in 1..Len(s) : s[i].key = k /\ Reliable(s[i]) => now - s[i].time >= Window
      PROVE  Spaced(t)
  <2>1. ASSUME NEW i \in 1..Len(t), NEW j \in 1..Len(t), i < j, t[i].key = t[j].key, Reliable(t[i])
        PROVE  t[j].time - t[i].time >= Window
    <3>1. i \in 1..Len(s) /\ t[i] = s[i]
      BY <1>2, <1>3, <2>1
    <3>2. CASE j = Len(s) + 1
      BY <1>1, <1>2, <1>6, <2>1, <3>1, <3>2
    <3>3. CASE j \in 1..Len(s)
      BY <1>2, <1>6, <2>1, <3>1, <3>3 DEF Spaced
    <3> QED
      BY <1>2, <1>3, <3>2, <3>3
  <2> QED
    BY <2>1 DEF Spaced
<1> QED
  BY <1>2, <1>4, <1>5, <1>6 DEF t

\* The next ID grows.
LEMMA BelowNext ==
    ASSUME AuditTypeOK, NEW s \in Seq(Entries), Below(s, nextID)
    PROVE  Below(s, nextID + 1)
<1>1. \A i \in 1..Len(s) : s[i] \in Entries
  OBVIOUS
<1>2. nextID \in Nat /\ \A i \in 1..Len(s) : s[i].id \in Nat
  BY <1>1 DEF Entries, AuditTypeOK
<1> QED
  BY <1>2 DEF Below

\* What Add does not take for a duplicate is a window away from the entries
\* like it, in memory
LEMMA RecordedApart ==
    ASSUME AuditTypeOK, TimesInv, NEW k \in Keys, ~Duplicate(items, k),
           NEW i \in 1..Len(items), items[i].key = k, Reliable(items[i])
    PROVE  now - items[i].time >= Window
<1>1. i \notin Scanned(items)
  BY DEF Duplicate
<1>2. PICK j \in i..Len(items) : ~(now - items[j].time < Window)
  BY <1>1 DEF Scanned
<1>3. items[i] \in Entries /\ j \in 1..Len(items) /\ items[j] \in Entries /\ Len(items) \in Nat
  BY DEF AuditTypeOK
<1>4. items[i].time <= items[j].time
  <2>1. CASE j = i
    BY <1>3, <2>1, AuditBoundsAssumption DEF Entries
  <2>2. CASE i < j
    BY <1>3, <2>2 DEF TimesInv, Timely
  <2> QED
    BY <1>3, <2>1, <2>2
<1>5. /\ now \in Nat /\ items[i].time \in Nat /\ items[j].time \in Nat /\ Window \in Nat
  <2>1. MaxTime \in Nat /\ Window \in Nat /\ now \in 0..MaxTime
    BY AuditBoundsAssumption, LimitAssumption DEF AuditTypeOK
  <2>2. items[i].time \in 0..MaxTime /\ items[j].time \in 0..MaxTime
    BY <1>3 DEF Entries
  <2> QED
    BY <2>1, <2>2
<1> QED
  BY <1>2, <1>4, <1>5, SMTT(60)

\* and in the file, unless the list is full.
LEMMA WrittenApart ==
    ASSUME AuditTypeOK, TimesInv, ShadowInv, up, ~stepped, NEW k \in Keys, ~Duplicate(items, k),
           Len(items) < MaxEntries, NEW i \in 1..Len(Parsed), Parsed[i].key = k
    PROVE  now - Parsed[i].time >= Window
<1>1. CASE Contains(items, Parsed[i])
  <2>1. PICK j \in 1..Len(items) : items[j] = Parsed[i]
    BY <1>1 DEF Contains
  <2> QED
    BY <2>1, RecordedApart DEF Reliable
<1>2. CASE ~Contains(items, Parsed[i])
  <2>1. Len(items) # MaxEntries
    BY LimitAssumption DEF AuditTypeOK
  <2>2. Parsed[i].time < now - Retention
    BY <1>2, <2>1 DEF ShadowInv, Dropped, Expired
  <2>3. MaxTime \in Nat /\ Window \in Nat /\ Retention \in Nat /\ Window <= Retention /\ now \in 0..MaxTime
    BY AuditBoundsAssumption, LimitAssumption DEF AuditTypeOK
  <2>4. Parsed[i].time \in 0..MaxTime
    <3>1. Parsed[i] \in Entries
      BY ParsedType
    <3> QED
      BY <3>1 DEF Entries
  <2> QED
    BY <2>2, <2>3, <2>4
<1> QED
  BY <1>1, <1>2

\* Add keeps the order of the IDs: the new one is above all that were in the
\* memory and in the file.
LEMMA AddIds ==
    ASSUME AuditTypeOK, IdsInv, NEW k \in Keys, Add(k)
    PROVE  IdsInv'
<1>1. up /\ items' = Pruned(Added(k)) /\ nextID' = nextID + 1
  BY AddFacts
<1>2. items \in Seq(Entries) /\ Parsed \in Seq(Entries)
  BY ParsedType DEF AuditTypeOK
<1>3. Ascending(Added(k)) /\ Below(Added(k), nextID + 1) /\ Added(k) \in Seq(Entries)
  BY <1>1, <1>2, AppendKeeps DEF IdsInv, Added
<1>4. Ascending(items') /\ Below(items', nextID + 1)
  <2>1. Within(items', Added(k))
    BY <1>1, <1>3, PrunedWithin
  <2> QED
    BY <1>3, <2>1, WithinKeeps
<1>5. Ascending(Parsed') /\ Below(Parsed', nextID + 1)
  <2>1. CASE Parsed' = items'
    BY <1>4, <2>1
  <2>2. CASE Within(Parsed', Parsed)
    BY <1>1, <1>2, <2>2, BelowNext, WithinKeeps DEF IdsInv
  <2>3. CASE Parsed' = Append(Parsed, New(k))
    BY <1>1, <1>2, <2>3, AppendKeeps DEF IdsInv
  <2> QED
    BY <2>1, <2>2, <2>3, AddParsed
<1> QED
  BY <1>1, <1>4, <1>5 DEF IdsInv, Ascending, Below

\* Add keeps the order of the times and the distance of the duplicates.
LEMMA AddTimes ==
    ASSUME AuditTypeOK, IdsInv, TimesInv, ShadowInv, NEW k \in Keys, Add(k)
    PROVE  TimesInv'
<1>1. /\ up /\ ~Duplicate(items, k) /\ items' = Pruned(Added(k)) /\ nextID' = nextID + 1
      /\ UNCHANGED <<now, up, stepped, silenced, begin>>
  BY AddFacts
<1>2. items \in Seq(Entries) /\ Parsed \in Seq(Entries)
  BY ParsedType DEF AuditTypeOK
<1>3. Timely(Added(k)) /\ Spaced(Added(k)) /\ Past(Added(k)) /\ Added(k) \in Seq(Entries)
  <2>1. \A i \in 1..Len(items) : items[i].key = k /\ Reliable(items[i]) => now - items[i].time >= Window
    BY <1>1, RecordedApart
  <2> QED
    BY <1>1, <1>2, <2>1, AppendKeeps DEF TimesInv, Added
<1>4. Within(items', Added(k))
  BY <1>1, <1>3, PrunedWithin
<1>5. Timely(items') /\ Spaced(items') /\ Past(items')
  BY <1>3, <1>4, WithinKeeps
<1>6. ASSUME ~stepped PROVE Timely(Parsed') /\ Spaced(Parsed') /\ Past(Parsed')
  <2>1. CASE Parsed' = items'
    BY <1>5, <2>1
  <2>2. CASE Within(Parsed', Parsed)
    BY <1>6, <2>2, WithinKeeps DEF TimesInv
  <2>3. CASE Parsed' = Append(Parsed, New(k)) /\ Len(items) < MaxEntries
    <3>1. \A i \in 1..Len(Parsed) : Parsed[i].key = k => now - Parsed[i].time >= Window
      BY <1>1, <1>6, <2>3, WrittenApart
    <3> QED
      BY <1>2, <1>6, <2>3, <3>1, AppendKeeps DEF TimesInv
  <2> QED
    BY <2>1, <2>2, <2>3, AddParsed
<1>7. ASSUME ~stepped, NEW i \in 1..Len(Parsed'), NEW j \in 1..Len(items'),
             Parsed'[i].id < items'[j].id
      PROVE  Parsed'[i].time <= items'[j].time
  <2>1. items' \in Seq(Entries) /\ items'[j] \in Entries
    BY <1>1, <1>3, PrunedFacts
  <2>2. CASE Parsed' = items'
    <3>1. items'[i].id \in Nat /\ items'[j].id \in Nat /\ items'[i] \in Entries /\ items'[i].time \in 0..MaxTime
      <4>1. items'[i] \in Entries
        BY <2>1, <2>2
      <4> QED
        BY <2>1, <4>1 DEF Entries
    <3>2. Ascending(items')
      BY <1>1, <1>2, <1>4, AppendKeeps, WithinKeeps DEF IdsInv, Added
    <3>3. i <= j
      BY <1>7, <2>2, <3>1, <3>2 DEF Ascending
    <3>4. CASE i = j
      BY <1>7, <2>2, <3>1, <3>4
    <3>5. CASE i < j
      BY <1>5, <1>7, <2>2, <3>5 DEF Timely, Reliable
    <3> QED
      BY <2>2, <3>3, <3>4, <3>5
  <2>3. CASE \E n \in 1..Len(Parsed) : Parsed'[i] = Parsed[n]
    <3>1. PICK n \in 1..Len(Parsed) : Parsed'[i] = Parsed[n]
      BY <2>3
    <3>2. items'[j] = New(k) \/ \E m \in 1..Len(items) : items'[j] = items[m]
      <4>1. PICK m \in 1..Len(Added(k)) : items'[j] = Added(k)[m]
        BY <1>4, WithinKeeps
      <4> QED
        BY <4>1, NewFacts
    <3>3. CASE items'[j] = New(k)
      BY <1>1, <1>7, <3>1, <3>3, NewFacts DEF TimesInv, Past, Reliable
    <3>4. CASE \E m \in 1..Len(items) : items'[j] = items[m]
      BY <1>7, <3>1, <3>4 DEF TimesInv
    <3> QED
      BY <3>2, <3>3, <3>4
  <2>4. CASE Parsed'[i] = New(k)
    <3>1. Below(items', nextID + 1)
      BY <1>1, <1>2, <1>4, AppendKeeps, WithinKeeps DEF IdsInv, Added
    <3>2. items'[j].id < nextID + 1 /\ Parsed'[i].id = nextID
      BY <2>4, <3>1, NewFacts DEF Below
    <3>3. nextID \in Nat /\ items'[j].id \in Nat
      BY <2>1 DEF Entries, AuditTypeOK
    <3> QED
      BY <1>7, <3>2, <3>3
  <2>5. \/ Parsed' = items'
        \/ \E n \in 1..Len(Parsed) : Parsed'[i] = Parsed[n]
        \/ Parsed'[i] = New(k)
    <3>1. CASE Within(Parsed', Parsed)
      BY <3>1, WithinKeeps
    <3>2. CASE Parsed' = Append(Parsed, New(k))
      BY <1>2, <3>2, AppendKeeps
    <3> QED
      BY <3>1, <3>2, AddParsed
  <2> QED
    BY <2>2, <2>3, <2>4, <2>5
<1> QED
  BY <1>1, <1>5, <1>6, <1>7 DEF TimesInv, Timely, Spaced, Past, Reliable

\* What pruning drops has expired, or makes room in a list that stays full.
LEMMA PruneDrops ==
    ASSUME NEW s \in Seq(Entries), Ascending(s), NEW x \in Entries,
           \A i \in 1..Len(s) : x.id < s[i].id => x.time <= s[i].time,
           \/ Contains(s, x)
           \/ Expired(x)
           \/ Len(s) >= MaxEntries /\ \A i \in 1..Len(s) : x.id < s[i].id,
           now \in Nat
    PROVE  \/ Contains(Pruned(s), x)
           \/ Expired(x)
           \/ /\ Len(Pruned(s)) = MaxEntries
              /\ \A i \in 1..Len(Pruned(s)) : x.id < Pruned(s)[i].id
<1> DEFINE t == Pruned(s)
<1>1. /\ t \in Seq(Entries) /\ Len(t) <= MaxEntries
      /\ \E g : /\ Picks(g, t, s)
                /\ \A i \in 1..Len(s) :
                      \/ \E j \in 1..Len(t) : g[j] = i
                      \/ Expired(s[i])
                      \/ Len(t) = MaxEntries /\ \A j \in 1..Len(t) : i < g[j]
      /\ Len(s) >= MaxEntries /\ Len(t) < MaxEntries => \E i \in 1..Len(s) : Expired(s[i])
  BY PrunedFacts
<1> HIDE DEF t
<1>2. PICK g : /\ Picks(g, t, s)
               /\ \A i \in 1..Len(s) :
                     \/ \E j \in 1..Len(t) : g[j] = i
                     \/ Expired(s[i])
                     \/ Len(t) = MaxEntries /\ \A j \in 1..Len(t) : i < g[j]
  BY <1>1
<1>3. /\ \A i \in 1..Len(t) : g[i] \in 1..Len(s) /\ t[i] = s[g[i]]
  BY <1>2 DEF Picks
<1>4. CASE Contains(s, x)
  <2>1. PICK i \in 1..Len(s) : s[i] = x
    BY <1>4 DEF Contains
  <2>2. CASE \E j \in 1..Len(t) : g[j] = i
    BY <1>3, <2>1, <2>2 DEF Contains, t
  <2>3. CASE Len(t) = MaxEntries /\ \A j \in 1..Len(t) : i < g[j]
    <3>1. \A j \in 1..Len(t) : x.id < t[j].id
      BY <1>3, <2>1, <2>3 DEF Ascending
    <3> QED
      BY <2>3, <3>1 DEF t
  <2> QED
    BY <1>2, <2>1, <2>2, <2>3
<1>5. CASE Len(s) >= MaxEntries /\ \A i \in 1..Len(s) : x.id < s[i].id
  <2>1. \A j \in 1..Len(t) : x.id < t[j].id
    BY <1>3, <1>5
  <2>2. CASE Len(t) < MaxEntries
    <3>1. PICK i \in 1..Len(s) : Expired(s[i])
      BY <1>1, <1>5, <2>2
    <3>2. x.time <= s[i].time
      BY <1>5
    <3>3. x.time \in Nat /\ s[i].time \in Nat /\ Retention \in Nat /\ now \in Nat
      <4>1. s[i] \in Entries
        OBVIOUS
      <4> QED
        BY <4>1, LimitAssumption, AuditBoundsAssumption, SMTT(60) DEF Entries
    <3> QED
      BY <3>1, <3>2, <3>3 DEF Expired
  <2>3. CASE Len(t) = MaxEntries
    BY <2>1, <2>3 DEF t
  <2>4. Len(t) \in Nat /\ MaxEntries \in Nat
    BY <1>1, LimitAssumption
  <2> QED
    BY <1>1, <2>2, <2>3, <2>4
<1> QED
  BY <1>4, <1>5

\* Add keeps what the file still has and the memory has not too old to matter.
LEMMA AddShadow ==
    ASSUME AuditTypeOK, IdsInv, TimesInv, ShadowInv, NEW k \in Keys, Add(k)
    PROVE  ShadowInv'
<1>1. /\ up /\ items' = Pruned(Added(k)) /\ UNCHANGED <<now, up, stepped, silenced, begin>>
  BY AddFacts
<1>2. /\ Parsed \in Seq(Entries) /\ New(k) \in Entries /\ Added(k) \in Seq(Entries) /\ Ascending(Added(k))
      /\ Len(Added(k)) = Len(items) + 1 /\ Added(k)[Len(items) + 1] = New(k)
      /\ \A i \in 1..Len(items) : Added(k)[i] = items[i]
      /\ New(k).time = now /\ New(k).id = nextID
  BY <1>1, ParsedType, NewFacts, AppendKeeps DEF IdsInv, Added, AuditTypeOK
<1>3. /\ now \in Nat /\ Len(items) \in Nat
  BY AuditBoundsAssumption DEF AuditTypeOK
<1> SUFFICES ASSUME ~stepped, NEW i \in 1..Len(Parsed')
             PROVE  \/ Contains(items', Parsed'[i])
                    \/ Expired(Parsed'[i])
                    \/ /\ Len(items') = MaxEntries
                       /\ \A j \in 1..Len(items') : Parsed'[i].id < items'[j].id
  BY <1>1 DEF ShadowInv, Dropped, Expired
<1>4. CASE Parsed' = items'
  BY <1>4 DEF Contains
<1>5. ASSUME NEW n \in 1..Len(Parsed), Parsed'[i] = Parsed[n]
      PROVE  \/ Contains(items', Parsed'[i])
             \/ Expired(Parsed'[i])
             \/ /\ Len(items') = MaxEntries
                /\ \A j \in 1..Len(items') : Parsed'[i].id < items'[j].id
  <2> DEFINE x == Parsed[n]
  <2>1. x \in Entries
    BY <1>2
  <2>2. \A j \in 1..Len(Added(k)) : x.id < Added(k)[j].id => x.time <= Added(k)[j].time
    <3> SUFFICES ASSUME NEW j \in 1..Len(Added(k)), x.id < Added(k)[j].id
                 PROVE  x.time <= Added(k)[j].time
      OBVIOUS
    <3>1. CASE j \in 1..Len(items)
      BY <1>2, <3>1 DEF TimesInv
    <3>2. CASE j = Len(items) + 1
      BY <1>2, <3>2 DEF TimesInv, Past, Reliable
    <3> QED
      BY <1>2, <1>3, <3>1, <3>2
  <2>3. \/ Contains(Added(k), x)
        \/ Expired(x)
        \/ Len(Added(k)) >= MaxEntries /\ \A j \in 1..Len(Added(k)) : x.id < Added(k)[j].id
    <3>1. CASE Contains(items, x)
      <4>1. \A m \in 1..Len(items) : m \in 1..Len(Added(k))
        BY <1>2, <1>3
      <4> QED
        BY <1>2, <3>1, <4>1 DEF Contains
    <3>2. CASE Len(items) = MaxEntries /\ \A j \in 1..Len(items) : x.id < items[j].id
      <4>1. x.id < nextID
        BY <1>1 DEF IdsInv, Below
      <4>2. \A j \in 1..Len(Added(k)) : x.id < Added(k)[j].id
        <5> SUFFICES ASSUME NEW j \in 1..Len(Added(k)) PROVE x.id < Added(k)[j].id
          OBVIOUS
        <5>1. j \in 1..Len(items) \/ j = Len(items) + 1
          BY <1>2, <1>3
        <5> QED
          BY <1>2, <3>2, <4>1, <5>1
      <4> QED
        BY <1>2, <1>3, <3>2, <4>2
    <3> QED
      BY <1>1, <3>1, <3>2 DEF ShadowInv, Dropped
  <2> HIDE DEF x
  <2>4. \/ Contains(Pruned(Added(k)), x)
        \/ Expired(x)
        \/ /\ Len(Pruned(Added(k))) = MaxEntries
           /\ \A j \in 1..Len(Pruned(Added(k))) : x.id < Pruned(Added(k))[j].id
    BY <1>2, <1>3, <2>1, <2>2, <2>3, PruneDrops
  <2> QED
    BY <1>1, <1>5, <2>4 DEF x
<1>6. CASE Parsed'[i] = New(k) /\ items' = Added(k)
  <2>1. Len(items) + 1 \in 1..Len(Added(k))
    BY <1>2, <1>3
  <2> QED
    BY <1>2, <1>6, <2>1 DEF Contains
<1>7. \/ Parsed' = items'
      \/ \E n \in 1..Len(Parsed) : Parsed'[i] = Parsed[n]
      \/ Parsed'[i] = New(k) /\ items' = Added(k)
  <2>1. CASE Within(Parsed', Parsed)
    BY <2>1, WithinKeeps
  <2>2. CASE Parsed' = Append(Parsed, New(k)) /\ items' = Added(k)
    BY <1>2, <2>2, AppendKeeps
  <2> QED
    BY <2>1, <2>2, AddParsed
<1> QED
  BY <1>4, <1>5, <1>6, <1>7

-----------------------------------------------------------------------------
(* The log: what the file has lost. *)

\* The number of lost entries is a number.
LEMMA MissingFinite ==
    ASSUME NEW S, NEW s \in Seq(S), NEW p
    PROVE  IsFiniteSet(Missing(s, p)) /\ Cardinality(Missing(s, p)) \in Nat
<1>1. IsFiniteSet(1..Len(s))
  BY FS_Interval
<1>2. Missing(s, p) \in SUBSET (1..Len(s))
  BY DEF Missing
<1>3. IsFiniteSet(Missing(s, p))
  BY <1>1, <1>2, FS_Subset
<1> QED
  BY <1>3, FS_CardinalityType

\* A part of a list loses no more than the list,
LEMMA MissingWithin ==
    ASSUME NEW S, NEW s \in Seq(S), NEW T, NEW t \in Seq(T), NEW p, Within(t, s)
    PROVE  Cardinality(Missing(t, p)) <= Cardinality(Missing(s, p))
<1>1. PICK g : Picks(g, t, s)
  BY DEF Within
<1> DEFINE A == Missing(t, p)
           B == Missing(s, p)
           h == [i \in A |-> g[i]]
<1>2. /\ \A i \in 1..Len(t) : g[i] \in 1..Len(s) /\ t[i] = s[g[i]]
      /\ \A i, j \in 1..Len(t) : i < j => g[i] < g[j]
  BY <1>1 DEF Picks
<1>3. A \subseteq 1..Len(t) /\ \A i \in A : g[i] \in B
  BY <1>2 DEF Missing
<1>4. Len(t) \in Nat /\ Len(s) \in Nat
  OBVIOUS
<1>5. \A i, j \in A : g[i] = g[j] => i = j
  <2> SUFFICES ASSUME NEW i \in A, NEW j \in A, g[i] = g[j] PROVE i = j
    OBVIOUS
  <2>1. i \in 1..Len(t) /\ j \in 1..Len(t) /\ g[i] \in 1..Len(s) /\ g[j] \in 1..Len(s)
    BY <1>2, <1>3
  <2>2. ~(i < j) /\ ~(j < i)
    BY <1>2, <1>4, <2>1
  <2> QED
    BY <1>4, <2>1, <2>2
<1> HIDE DEF A, B
<1>6. h \in [A -> B] /\ \A i, j \in A : h[i] = h[j] => i = j
  BY <1>3, <1>5
<1>7. h \in Injection(A, B)
  <2> HIDE DEF h
  <2> QED
    BY <1>6, Zenon DEF Injection, IsInjective
<1>8. IsFiniteSet(B)
  BY MissingFinite, Zenon DEF B
<1> HIDE DEF h
<1> QED
  BY <1>7, <1>8, FS_Injection, Zenon DEF A, B

\* a part of the file nothing,
LEMMA NothingMissing ==
    ASSUME NEW S, NEW s \in Seq(S), NEW p, Within(s, p)
    PROVE  Cardinality(Missing(s, p)) = 0
<1>1. \A i \in 1..Len(s) : \E j \in 1..Len(p) : s[i] = p[j]
  BY WithinKeeps
<1>2. Missing(s, p) = {}
  BY <1>1 DEF Missing, Contains
<1> QED
  BY <1>2, FS_EmptySet

\* a new entry is one more at most, and none when it is in the file,
LEMMA MissingAppend ==
    ASSUME NEW S, NEW s \in Seq(S), NEW p \in Seq(S), NEW e \in S
    PROVE  /\ Cardinality(Missing(Append(s, e), p)) <= Cardinality(Missing(s, p)) + 1
           /\ Cardinality(Missing(Append(s, e), Append(p, e))) <= Cardinality(Missing(s, p))
<1> DEFINE t == Append(s, e)
           q == Append(p, e)
           n == Len(s) + 1
<1>1. /\ t \in Seq(S) /\ Len(t) = n /\ t[n] = e /\ \A i \in 1..Len(s) : t[i] = s[i]
      /\ q \in Seq(S) /\ Len(q) = Len(p) + 1 /\ q[Len(p) + 1] = e /\ \A i \in 1..Len(p) : q[i] = p[i]
      /\ Len(s) \in Nat /\ Len(p) \in Nat
  BY AppendProperties
<1> HIDE DEF t, q
<1>2. IsFiniteSet(Missing(s, p)) /\ Cardinality(Missing(s, p)) \in Nat
  BY MissingFinite
<1>3. Missing(t, p) \subseteq Missing(s, p) \cup {n}
  BY <1>1 DEF Missing
<1>4. Contains(q, e) /\ \A x : Contains(p, x) => Contains(q, x)
  <2>1. Len(p) + 1 \in 1..Len(q) /\ \A i \in 1..Len(p) : i \in 1..Len(q)
    BY <1>1
  <2> QED
    BY <1>1, <2>1 DEF Contains
<1>5. Missing(t, q) \subseteq Missing(s, p)
  BY <1>1, <1>4 DEF Missing
<1> DEFINE A == Missing(t, p)
           B == Missing(t, q)
           C == Missing(s, p)
<1> HIDE DEF A, B, C, n
<1>6. IsFiniteSet(C \cup {n}) /\ Cardinality(C \cup {n}) <= Cardinality(C) + 1
  <2>1. IsFiniteSet(C) /\ Cardinality(C) \in Nat
    BY <1>2 DEF C
  <2>2. IsFiniteSet(C \cup {n})
        /\ Cardinality(C \cup {n}) = IF n \in C THEN Cardinality(C) ELSE Cardinality(C) + 1
    BY <2>1, FS_AddElement, Zenon
  <2> QED
    BY <2>1, <2>2
<1>7. Cardinality(A) <= Cardinality(C \cup {n}) /\ IsFiniteSet(A)
  <2>1. A \in SUBSET (C \cup {n})
    BY <1>3 DEF A, C
  <2> QED
    BY <1>6, <2>1, FS_Subset
<1>8. Cardinality(B) <= Cardinality(C)
  <2>1. B \in SUBSET C /\ IsFiniteSet(C)
    BY <1>2, <1>5 DEF B, C
  <2> QED
    BY <2>1, FS_Subset
<1>9. Cardinality(A) \in Nat /\ Cardinality(C) \in Nat /\ Cardinality(C \cup {n}) \in Nat
  BY <1>2, <1>6, <1>7, FS_CardinalityType DEF C
<1> QED
  BY <1>6, <1>7, <1>8, <1>9 DEF A, B, C, t, q

\* and to lose the cut line is to lose one entry at most, if it said anything.
LEMMA MissingCut ==
    ASSUME AuditTypeOK, NEW s \in Seq(Entries), Ascending(s)
    PROVE  Cardinality(Missing(s, disk)) <= Cardinality(Missing(s, Parsed)) + IF tail = <<>> THEN 0 ELSE 1
<1>1. /\ disk \in Seq(Entries) /\ tail \in Seq(Entries) /\ Len(tail) <= 1
      /\ Len(Parsed) = Len(disk) + Len(tail)
      /\ \A i \in 1..Len(disk) : Parsed[i] = disk[i]
      /\ \A i \in 1..Len(tail) : Parsed[Len(disk) + i] = tail[i]
  BY ConcatProperties DEF AuditTypeOK, Parsed
<1>2. IsFiniteSet(Missing(s, Parsed)) /\ Cardinality(Missing(s, Parsed)) \in Nat
  BY MissingFinite
<1>3. CASE tail = <<>>
  <2>1. Parsed = disk
    BY <1>1, <1>3, ConcatEmptySeq DEF Parsed
  <2> QED
    BY <1>2, <1>3, <2>1
<1>4. CASE tail # <<>>
  <2>1. Len(tail) = 1 /\ Len(Parsed) = Len(disk) + 1 /\ Len(disk) \in Nat
    <3>0. tail \in Seq(Entries) /\ Len(tail) <= 1
      BY <1>1
    <3>1. Len(tail) \in Nat \ {0}
      BY <1>4, <3>0, EmptySeq, Zenon
    <3>2. \A l : l \in Nat \ {0} /\ l <= 1 => l = 1
      OBVIOUS
    <3>3. Len(tail) = 1
      BY <3>0, <3>1, <3>2, Zenon
    <3> QED
      BY <1>1, <3>3
  <2> DEFINE x == Parsed[Len(disk) + 1]
             A == Missing(s, disk)
             B == Missing(s, Parsed)
  <2>2. \A i \in A : i \in B \/ s[i] = x
    <3> SUFFICES ASSUME NEW i \in 1..Len(s), NEW j \in 1..Len(Parsed), Parsed[j] = s[i],
                        ~Contains(disk, s[i])
                 PROVE  s[i] = x
      BY DEF Missing, Contains
    <3>1. j \notin 1..Len(disk)
      BY <1>1 DEF Contains
    <3> QED
      BY <2>1, <3>1
  <2>3. \A i, j \in 1..Len(s) : s[i] = s[j] => i = j
    <3> SUFFICES ASSUME NEW i \in 1..Len(s), NEW j \in 1..Len(s), s[i] = s[j], i < j PROVE FALSE
      OBVIOUS
    <3>1. s[i].id < s[j].id /\ s[i].id = s[j].id
      BY DEF Ascending
    <3>2. s[i] \in Entries
      OBVIOUS
    <3> QED
      BY <3>1, <3>2 DEF Entries
  <2>4. \E n : A \subseteq B \cup {n}
    <3>1. CASE \E n \in 1..Len(s) : s[n] = x
      <4>1. PICK n \in 1..Len(s) : s[n] = x
        BY <3>1
      <4>2. \A i \in A : i \in 1..Len(s)
        BY DEF Missing
      <4>3. A \subseteq B \cup {n}
        BY <2>2, <2>3, <4>1, <4>2
      <4> QED
        BY <4>3
    <3>2. CASE ~\E n \in 1..Len(s) : s[n] = x
      <4>1. \A i \in A : i \in 1..Len(s)
        BY DEF Missing
      <4> QED
        BY <2>2, <3>2, <4>1
    <3> QED
      BY <3>1, <3>2
  <2>5. PICK n : A \subseteq B \cup {n}
    BY <2>4
  <2> HIDE DEF A, B
  <2>6. IsFiniteSet(B \cup {n}) /\ Cardinality(B \cup {n}) <= Cardinality(B) + 1
    <3>1. IsFiniteSet(B) /\ Cardinality(B) \in Nat
      BY <1>2 DEF B
    <3>2. IsFiniteSet(B \cup {n})
          /\ Cardinality(B \cup {n}) = IF n \in B THEN Cardinality(B) ELSE Cardinality(B) + 1
      BY <3>1, FS_AddElement, Zenon
    <3> QED
      BY <3>1, <3>2
  <2>7. Cardinality(A) <= Cardinality(B \cup {n}) /\ IsFiniteSet(A)
    <3>1. A \in SUBSET (B \cup {n})
      BY <2>5
    <3> QED
      BY <2>6, <3>1, FS_Subset
  <2>8. Cardinality(A) \in Nat /\ Cardinality(B) \in Nat /\ Cardinality(B \cup {n}) \in Nat
    BY <1>2, <2>6, <2>7, FS_CardinalityType DEF B
  <2>9. Cardinality(A) <= Cardinality(B) + 1
    BY <2>6, <2>7, <2>8
  <2> QED
    BY <1>4, <2>9 DEF A, B
<1> QED
  BY <1>3, <1>4

\* What a cut line will cost, in numbers.
LEMMA CostFacts ==
    ASSUME AuditTypeOK
    PROVE  /\ failures \in Nat /\ Cost \in Nat
           /\ Cost = IF ~cut THEN 0 ELSE 1 + IF tail = <<>> THEN 0 ELSE 1
           /\ (tail # <<>> => cut)
  BY DEF Cost, AuditTypeOK

\* Add changes both lists alike while no write fails,
LEMMA AddMirror ==
    ASSUME AuditTypeOK, LossInv, MirrorInv, NEW k \in Keys, Add(k)
    PROVE  MirrorInv'
<1> SUFFICES ASSUME failures' = 0 PROVE Parsed' = items'
  BY DEF MirrorInv
<1>1. items' = Pruned(Added(k)) /\ New(k) \in Entries /\ Added(k) \in Seq(Entries)
  BY AddFacts, NewFacts
<1>2. failures \in Nat /\ Pruned(Added(k)) \in Seq(Entries)
  BY <1>1, PrunedFacts DEF AuditTypeOK
<1>3. CASE \E o \in RewriteOutcomes(Pruned(Added(k))) : File(o)
  <2>1. Parsed' = Pruned(Added(k)) \/ failures' = failures + 1
    BY <1>2, <1>3, RewriteStep, Zenon
  <2>2. failures + 1 # 0
    BY <1>2
  <2> QED
    BY <1>1, <2>1, <2>2
<1>4. CASE Pruned(Added(k)) = Added(k) /\ \E o \in AppendOutcomes(New(k)) : File(o)
  <2>1. failures = 0 => ~cut /\ Parsed = items
    BY <1>2 DEF LossInv, MirrorInv
  <2>2. \/ Parsed' = Append(Parsed, New(k)) /\ failures' = failures
        \/ failures' = failures + 1
        \/ cut /\ failures' = failures
    BY <1>1, <1>4, AppendStep
  <2>3. Parsed' = Append(Parsed, New(k)) /\ Parsed = items
    BY <1>2, <2>1, <2>2
  <2> QED
    BY <1>1, <1>4, <2>3 DEF Added
<1> QED
  BY <1>3, <1>4, AddFacts

\* and loses two entries at most with each write that does.
LEMMA AddLoss ==
    ASSUME AuditTypeOK, AuditTypeOK', IdsInv, LossInv, NEW k \in Keys, Add(k)
    PROVE  LossInv'
<1> DEFINE m == Cardinality(Missing(items, Parsed))
           n == Cardinality(Missing(items', Parsed'))
           x == IF tail = <<>> THEN 0 ELSE 1
           c == IF cut THEN 1 + x ELSE 0
           d == IF cut' THEN 1 + (IF tail' = <<>> THEN 0 ELSE 1) ELSE 0
<1>1. /\ up /\ items' = Pruned(Added(k)) /\ New(k) \in Entries /\ Added(k) \in Seq(Entries)
      /\ items \in Seq(Entries) /\ Parsed \in Seq(Entries) /\ disk \in Seq(Entries)
      /\ Added(k) = Append(items, New(k))
  BY AddFacts, NewFacts, ParsedType DEF AuditTypeOK, Added
<1>2. Pruned(Added(k)) \in Seq(Entries) /\ Within(Pruned(Added(k)), Added(k))
  BY <1>1, PrunedFacts, PrunedWithin
<1>3. /\ m \in Nat /\ failures \in Nat /\ failures' \in Nat
      /\ (cut => failures > 0) /\ m + c <= 2 * failures
      /\ Cost = c /\ Cost' = d
  <2>1. m \in Nat
    BY <1>1, MissingFinite, Zenon
  <2>2. failures \in Nat /\ failures' \in Nat
    BY DEF AuditTypeOK
  <2>3. Cost = c /\ Cost' = d
    BY DEF Cost
  <2>4. (cut => failures > 0) /\ m + Cost <= 2 * failures
    BY <1>1 DEF LossInv
  <2> HIDE DEF m, c, d
  <2> QED
    BY <2>1, <2>2, <2>3, <2>4
<1>4. n \in Nat
  <2>1. items' \in Seq(Entries)
    BY <1>1, <1>2
  <2> QED
    BY <2>1, MissingFinite, Zenon
<1>5. /\ Cardinality(Missing(Added(k), Parsed)) <= m + 1
      /\ Cardinality(Missing(Added(k), Append(Parsed, New(k)))) <= m
  BY <1>1, MissingAppend, Zenon
<1>6. Cardinality(Missing(Added(k), disk)) <= m + x + 1
  <2>1. Cardinality(Missing(items, disk)) <= m + x
    BY <1>1, MissingCut, Zenon DEF IdsInv
  <2>2. Cardinality(Missing(Added(k), disk)) <= Cardinality(Missing(items, disk)) + 1
    BY <1>1, MissingAppend, Zenon
  <2>3. /\ Cardinality(Missing(items, disk)) \in Nat /\ Cardinality(Missing(Added(k), disk)) \in Nat
        /\ x \in Nat
    BY <1>1, MissingFinite
  <2> HIDE DEF m, x
  <2> QED
    BY <1>3, <2>1, <2>2, <2>3
<1>7. d \in Nat /\ x \in Nat /\ (~cut => c = 0) /\ (cut => c = 1 + x) /\ d <= 2 /\ (~cut' => d = 0)
  OBVIOUS
<1>a. (tail' = <<>> => d <= 1) /\ (tail # <<>> => cut) /\ c \in Nat /\ (x = 0 \/ (x = 1 /\ cut))
  <2>1. tail # <<>> => cut
    BY DEF AuditTypeOK
  <2>2. tail' = <<>> => d <= 1
    OBVIOUS
  <2>3. c \in Nat
    <3>1. c = 0 \/ c = 1 \/ c = 2
      OBVIOUS
    <3> HIDE DEF c
    <3> QED
      BY <3>1
  <2>4. x = 0 \/ (x = 1 /\ cut)
    <3>1. CASE tail = <<>>
      BY <3>1, Zenon
    <3>2. CASE tail # <<>>
      BY <2>1, <3>2, Zenon
    <3> QED
      BY <3>1, <3>2
  <2> HIDE DEF c, d, x
  <2> QED
    BY <2>1, <2>2, <2>3, <2>4, Zenon
<1>8. SUFFICES (cut' => failures' > 0) /\ n + d <= 2 * failures'
  BY <1>3 DEF LossInv
<1>9. CASE \E o \in RewriteOutcomes(Pruned(Added(k))) : File(o)
  <2>1. CASE cut' = FALSE /\ failures' = failures /\ Parsed' = Pruned(Added(k))
    <3>1. Within(items', Parsed')
      BY <1>1, <1>2, <2>1, WithinItself, Zenon
    <3>2. n = 0
      BY <1>1, <1>2, <3>1, NothingMissing, Zenon
    <3> HIDE DEF n, d
    <3> QED
      BY <1>3, <1>7, <2>1, <3>2
  <2>2. CASE UNCHANGED <<disk, tail, cut>> /\ failures' = failures + 1 /\ Parsed' = Parsed
    <3>1. Cardinality(Missing(Pruned(Added(k)), Parsed)) <= Cardinality(Missing(Added(k), Parsed))
      BY <1>1, <1>2, MissingWithin, Zenon
    <3>2. n = Cardinality(Missing(Pruned(Added(k)), Parsed)) /\ d = c
      BY <1>1, <2>2
    <3>3. Cardinality(Missing(Added(k), Parsed)) \in Nat
      BY <1>1, MissingFinite, Zenon
    <3> HIDE DEF n, d, m, c
    <3> QED
      BY <1>3, <1>4, <1>5, <1>7, <2>2, <3>1, <3>2, <3>3
  <2> QED
    BY <1>2, <1>9, <2>1, <2>2, RewriteStep
<1>10. CASE Pruned(Added(k)) = Added(k) /\ \E o \in AppendOutcomes(New(k)) : File(o)
  <2>1. items' = Added(k)
    BY <1>1, <1>10
  <2>2. CASE /\ ~cut /\ Parsed' = Append(Parsed, New(k))
             /\ \/ ~cut' /\ failures' = failures
                \/ cut' /\ failures' = failures + 1
    <3>1. n <= m
      BY <1>5, <2>1, <2>2
    <3> HIDE DEF n, d, m, c, x
    <3>2. CASE ~cut' /\ failures' = failures
      <4>1. d = 0 /\ c \in Nat /\ m + c <= 2 * failures
        BY <1>3, <1>7, <1>a, <3>2
      <4>2. n + d <= 2 * failures'
        BY <1>3, <1>4, <3>1, <3>2, <4>1
      <4> QED
        BY <3>2, <4>2
    <3>3. CASE cut' /\ failures' = failures + 1
      <4>1. d <= 2 /\ d \in Nat /\ c \in Nat /\ m + c <= 2 * failures
        BY <1>3, <1>7, <1>a
      <4>2. n + d <= 2 * failures' /\ failures' > 0
        BY <1>3, <1>4, <3>1, <3>3, <4>1
      <4> QED
        BY <3>3, <4>2
    <3> QED
      BY <2>2, <3>2, <3>3
  <2>3. CASE UNCHANGED <<disk, tail, cut>> /\ failures' = failures + 1 /\ Parsed' = Parsed
    <3>1. n <= m + 1 /\ d = c
      BY <1>5, <2>1, <2>3
    <3> HIDE DEF n, d, m, c
    <3> QED
      BY <1>3, <1>4, <1>7, <1>a, <2>3, <3>1
  <2>4. CASE tail' = <<>> /\ failures' = failures + 1 /\ Parsed' = disk
    <3>1. n <= m + x + 1
      BY <1>6, <2>1, <2>4
    <3> HIDE DEF n, d, m, c, x
    <3> QED
      BY <1>3, <1>4, <1>7, <1>a, <2>4, <3>1
  <2>5. CASE cut /\ cut' = FALSE /\ failures' = failures /\ Parsed' = disk
    <3>1. n <= m + x + 1
      BY <1>6, <2>1, <2>5
    <3> HIDE DEF n, d, m, c, x
    <3> QED
      BY <1>3, <1>4, <1>7, <2>5, <3>1
  <2> QED
    BY <1>1, <1>10, <2>2, <2>3, <2>4, <2>5, AppendStep
<1> QED
  BY <1>9, <1>10, AddFacts

\* In a list of reliable entries a smaller ID is not younger.
LEMMA Chronicle ==
    ASSUME NEW s \in Seq(Entries), Ascending(s), Timely(s), ~stepped
    PROVE  \A i, j \in 1..Len(s) : s[i].id < s[j].id => s[i].time <= s[j].time
<1> SUFFICES ASSUME NEW i \in 1..Len(s), NEW j \in 1..Len(s), s[i].id < s[j].id
             PROVE  s[i].time <= s[j].time
  OBVIOUS
<1>1. s[i] \in Entries /\ s[j] \in Entries /\ Len(s) \in Nat
  OBVIOUS
<1>2. s[i].id \in Nat /\ s[j].id \in Nat
  BY <1>1 DEF Entries
<1>3. i < j
  BY <1>1, <1>2 DEF Ascending
<1> QED
  BY <1>3 DEF Timely, Reliable

\* What List does to the two lists,
LEMMA ListFacts ==
    ASSUME AuditTypeOK, List
    PROVE  /\ up /\ items' = Pruned(items) /\ items' \in Seq(Entries) /\ Within(items', items)
           /\ UNCHANGED <<nextID, now, up, adds, stepped, silenced, begin>>
           /\ \/ cut' = FALSE /\ failures' = failures /\ Parsed' = items'
              \/ UNCHANGED <<disk, tail, cut>> /\ failures' = failures + 1 /\ Parsed' = Parsed
<1>1. /\ up /\ items' = Pruned(items)
      /\ UNCHANGED <<nextID, now, up, adds, stepped, silenced, begin>>
      /\ \E o \in RewriteOutcomes(Pruned(items)) : File(o)
  BY Zenon DEF List
<1>2. Pruned(items) \in Seq(Entries) /\ Within(Pruned(items), items)
  BY PrunedFacts, PrunedWithin DEF AuditTypeOK
<1>3. \/ cut' = FALSE /\ failures' = failures /\ Parsed' = Pruned(items)
      \/ UNCHANGED <<disk, tail, cut>> /\ failures' = failures + 1 /\ Parsed' = Parsed
  BY <1>1, <1>2, RewriteStep
<1> QED
  BY <1>1, <1>2, <1>3

\* which keeps the invariant.
LEMMA ListKeeps ==
    ASSUME AuditTypeOK, AuditTypeOK', IdsInv, TimesInv, ShadowInv, LossInv, MirrorInv, List
    PROVE  IdsInv' /\ TimesInv' /\ ShadowInv' /\ LossInv' /\ MirrorInv'
<1>1. /\ up /\ items' = Pruned(items) /\ items' \in Seq(Entries) /\ Within(items', items)
      /\ UNCHANGED <<nextID, now, up, adds, stepped, silenced, begin>>
      /\ \/ cut' = FALSE /\ failures' = failures /\ Parsed' = items'
         \/ UNCHANGED <<disk, tail, cut>> /\ failures' = failures + 1 /\ Parsed' = Parsed
  BY ListFacts
<1>2. /\ items \in Seq(Entries) /\ Parsed \in Seq(Entries) /\ now \in Nat /\ failures \in Nat
  BY ParsedType, AuditBoundsAssumption DEF AuditTypeOK
<1>3. /\ Ascending(items') /\ Below(items', nextID) /\ Timely(items') /\ Spaced(items') /\ Past(items')
      /\ \A i \in 1..Len(items') : \E j \in 1..Len(items) : items'[i] = items[j]
  BY <1>1, WithinKeeps DEF IdsInv, TimesInv
<1>4. IdsInv'
  <2>1. Ascending(Parsed') /\ Below(Parsed', nextID)
    BY <1>1, <1>3 DEF IdsInv
  <2> QED
    BY <1>1, <1>3, <2>1 DEF IdsInv, Ascending, Below
<1>5. TimesInv'
  <2>1. ASSUME ~stepped PROVE Timely(Parsed') /\ Spaced(Parsed') /\ Past(Parsed')
    BY <1>1, <1>3, <2>1 DEF TimesInv
  <2>2. ASSUME ~stepped, NEW i \in 1..Len(Parsed'), NEW j \in 1..Len(items'),
               Parsed'[i].id < items'[j].id
        PROVE  Parsed'[i].time <= items'[j].time
    <3>1. CASE Parsed' = items'
      BY <1>1, <1>3, <2>2, <3>1, Chronicle
    <3>2. CASE Parsed' = Parsed
      <4>1. PICK m \in 1..Len(items) : items'[j] = items[m]
        BY <1>3
      <4> QED
        BY <2>2, <3>2, <4>1 DEF TimesInv
    <3> QED
      BY <1>1, <3>1, <3>2
  <2>3. silenced => stepped
    BY DEF TimesInv
  <2> QED
    BY <1>1, <1>3, <2>1, <2>2, <2>3 DEF TimesInv, Timely, Spaced, Past, Reliable
<1>6. ShadowInv'
  <2> SUFFICES ASSUME ~stepped, NEW i \in 1..Len(Parsed')
               PROVE  \/ Contains(items', Parsed'[i])
                      \/ Expired(Parsed'[i])
                      \/ /\ Len(items') = MaxEntries
                         /\ \A j \in 1..Len(items') : Parsed'[i].id < items'[j].id
    BY <1>1 DEF ShadowInv, Dropped, Expired
  <2>1. CASE Parsed' = items'
    BY <2>1 DEF Contains
  <2>2. CASE Parsed' = Parsed
    <3> DEFINE x == Parsed[i]
    <3>1. x \in Entries /\ \A j \in 1..Len(items) : x.id < items[j].id => x.time <= items[j].time
      BY <1>2, <2>2 DEF TimesInv
    <3>2. \/ Contains(items, x)
          \/ Expired(x)
          \/ Len(items) = MaxEntries /\ \A j \in 1..Len(items) : x.id < items[j].id
      BY <1>1, <2>2 DEF ShadowInv, Dropped
    <3> HIDE DEF x
    <3>3. \/ Contains(items, x)
          \/ Expired(x)
          \/ Len(items) >= MaxEntries /\ \A j \in 1..Len(items) : x.id < items[j].id
      BY <3>2, LimitAssumption
    <3>4. \/ Contains(Pruned(items), x)
          \/ Expired(x)
          \/ /\ Len(Pruned(items)) = MaxEntries
             /\ \A j \in 1..Len(Pruned(items)) : x.id < Pruned(items)[j].id
      BY <1>2, <3>1, <3>3, PruneDrops DEF IdsInv
    <3> QED
      BY <1>1, <2>2, <3>4 DEF x
  <2> QED
    BY <1>1, <2>1, <2>2
<1>7. LossInv'
  <2> DEFINE m == Cardinality(Missing(items, Parsed))
             n == Cardinality(Missing(items', Parsed'))
             c == Cost
             d == Cost'
  <2>1. n \in Nat /\ m \in Nat
    BY <1>1, <1>2, MissingFinite, Zenon
  <2>2. (cut => failures > 0) /\ m + c <= 2 * failures
    BY <1>1 DEF LossInv
  <2>3. c \in Nat
    BY CostFacts
  <2>4. SUFFICES (cut' => failures' > 0) /\ n + d <= 2 * failures'
    BY DEF LossInv
  <2>5. CASE cut' = FALSE /\ failures' = failures /\ Parsed' = items'
    <3>1. n = 0
      BY <1>1, <2>5, WithinItself, NothingMissing, Zenon
    <3>2. d = 0
      BY <2>5 DEF Cost
    <3> HIDE DEF n, d
    <3> QED
      BY <1>2, <2>5, <3>1, <3>2
  <2>6. CASE UNCHANGED <<disk, tail, cut>> /\ failures' = failures + 1 /\ Parsed' = Parsed
    <3>1. n <= m
      BY <1>1, <1>2, <2>6, MissingWithin, Zenon
    <3>2. d = c
      BY <2>6 DEF Cost
    <3> HIDE DEF n, d, m, c
    <3>3. n + d <= 2 * failures' /\ failures' > 0
      BY <1>2, <2>1, <2>2, <2>3, <2>6, <3>1, <3>2
    <3> QED
      BY <3>3
  <2> QED
    BY <1>1, <2>5, <2>6
<1>8. MirrorInv'
  BY <1>1, <1>2 DEF MirrorInv
<1> QED
  BY <1>4, <1>5, <1>6, <1>7, <1>8

\* What a restart makes of the file.
LEMMA RestartFacts ==
    ASSUME AuditTypeOK, IdsInv, Restart
    PROVE  /\ ~up /\ up' = TRUE /\ items' = Pruned(Parsed) /\ items' \in Seq(Entries)
           /\ Within(items', Parsed) /\ Below(Parsed, nextID') /\ begin' = nextID'
           /\ UNCHANGED <<now, adds, stepped, silenced>>
           /\ \/ cut' = FALSE /\ failures' = failures /\ Parsed' = items'
              \/ UNCHANGED <<disk, tail, cut>> /\ failures' = failures + 1 /\ Parsed' = Parsed
              \/ /\ UNCHANGED <<disk, tail, cut>> /\ failures' = failures
                 /\ Parsed' = Parsed /\ Parsed' = items'
<1>1. /\ ~up /\ up' = TRUE /\ items' = Pruned(Parsed) /\ nextID' = NextFree(Parsed) /\ begin' = nextID'
      /\ UNCHANGED <<now, adds, stepped, silenced>>
  BY Zenon DEF Restart
<1>2. \/ \E o \in RewriteOutcomes(Pruned(Parsed)) : File(o)
      \/ Pruned(Parsed) = Parsed /\ UNCHANGED <<disk, tail, cut, failures, trouble>>
  BY Zenon DEF Restart
<1>3. Parsed \in Seq(Entries) /\ Pruned(Parsed) \in Seq(Entries) /\ Within(Pruned(Parsed), Parsed)
  BY ParsedType, PrunedFacts, PrunedWithin
<1>4. Below(Parsed, NextFree(Parsed))
  BY <1>3, NextFreeFacts DEF IdsInv
<1>5. CASE \E o \in RewriteOutcomes(Pruned(Parsed)) : File(o)
  <2>1. \/ cut' = FALSE /\ failures' = failures /\ Parsed' = Pruned(Parsed)
        \/ UNCHANGED <<disk, tail, cut>> /\ failures' = failures + 1 /\ Parsed' = Parsed
    BY <1>3, <1>5, RewriteStep
  <2> QED
    BY <1>1, <1>3, <1>4, <2>1
<1>6. CASE Pruned(Parsed) = Parsed /\ UNCHANGED <<disk, tail, cut, failures, trouble>>
  <2>1. Parsed' = Parsed
    BY <1>6 DEF Parsed
  <2> QED
    BY <1>1, <1>3, <1>4, <1>6, <2>1
<1> QED
  BY <1>2, <1>5, <1>6

\* After a restart the memory is a part of the file, and no entry has an ID
\* that the process could have assigned.
LEMMA RestartKeeps ==
    ASSUME AuditTypeOK, AuditTypeOK', IdsInv, TimesInv, LossInv, MirrorInv, Restart
    PROVE  IdsInv' /\ TimesInv' /\ ShadowInv' /\ LossInv' /\ MirrorInv'
<1>1. /\ ~up /\ up' = TRUE /\ items' = Pruned(Parsed) /\ items' \in Seq(Entries)
      /\ Within(items', Parsed) /\ Below(Parsed, nextID') /\ begin' = nextID'
      /\ UNCHANGED <<now, adds, stepped, silenced>>
      /\ \/ cut' = FALSE /\ failures' = failures /\ Parsed' = items'
         \/ UNCHANGED <<disk, tail, cut>> /\ failures' = failures + 1 /\ Parsed' = Parsed
         \/ /\ UNCHANGED <<disk, tail, cut>> /\ failures' = failures
            /\ Parsed' = Parsed /\ Parsed' = items'
  BY RestartFacts
<1>2. /\ Parsed \in Seq(Entries) /\ now \in Nat /\ failures \in Nat /\ failures' \in Nat
      /\ nextID' \in Nat
  BY ParsedType, AuditBoundsAssumption DEF AuditTypeOK
<1>3. Within(items', Parsed) /\ Within(Parsed', Parsed) /\ Within(items', Parsed')
  BY <1>1, <1>2, WithinItself
<1>4. /\ Ascending(items') /\ Below(items', nextID')
      /\ \A i \in 1..Len(items') : \E j \in 1..Len(Parsed) : items'[i] = Parsed[j]
  BY <1>1, <1>3, WithinKeeps DEF IdsInv
<1>5. /\ Ascending(Parsed') /\ Below(Parsed', nextID')
      /\ \A i \in 1..Len(Parsed') : \E j \in 1..Len(Parsed) : Parsed'[i] = Parsed[j]
  BY <1>1, <1>3, WithinKeeps DEF IdsInv
<1>6. IdsInv'
  BY <1>1, <1>4, <1>5 DEF IdsInv, Ascending, Below
<1>7. ASSUME stepped PROVE TimesInv' /\ ShadowInv'
  <2>1. \A i \in 1..Len(items') : ~(items'[i].id >= begin')
    <3> SUFFICES ASSUME NEW i \in 1..Len(items') PROVE ~(items'[i].id >= begin')
      OBVIOUS
    <3>1. items'[i] \in Entries /\ items'[i].id < nextID'
      BY <1>1, <1>4 DEF Below
    <3> QED
      BY <1>1, <1>2, <3>1 DEF Entries
  <2>2. TimesInv'
    BY <1>1, <1>7, <2>1 DEF TimesInv, Timely, Spaced, Past, Reliable
  <2>3. ShadowInv'
    BY <1>1, <1>7 DEF ShadowInv
  <2> QED
    BY <2>2, <2>3
<1>8. ASSUME ~stepped PROVE TimesInv' /\ ShadowInv'
  <2>1. Timely(Parsed) /\ Spaced(Parsed) /\ Past(Parsed) /\ Ascending(Parsed)
    BY <1>8 DEF TimesInv, IdsInv
  <2>2. /\ Timely(items') /\ Spaced(items') /\ Past(items')
        /\ Timely(Parsed') /\ Spaced(Parsed') /\ Past(Parsed')
    BY <1>3, <2>1, WithinKeeps
  <2>3. \A i, j \in 1..Len(Parsed) : Parsed[i].id < Parsed[j].id => Parsed[i].time <= Parsed[j].time
    BY <1>2, <1>8, <2>1, Chronicle
  <2>4. ASSUME NEW i \in 1..Len(Parsed'), NEW j \in 1..Len(items'), Parsed'[i].id < items'[j].id
        PROVE  Parsed'[i].time <= items'[j].time
    BY <1>4, <1>5, <2>3, <2>4
  <2>5. silenced => stepped
    BY DEF TimesInv
  <2>6. TimesInv'
    BY <1>1, <1>8, <2>2, <2>4, <2>5 DEF TimesInv, Timely, Spaced, Past, Reliable
  <2>7. ShadowInv'
    <3> SUFFICES ASSUME NEW i \in 1..Len(Parsed')
                 PROVE  \/ Contains(items', Parsed'[i])
                        \/ Expired(Parsed'[i])
                        \/ /\ Len(items') = MaxEntries
                           /\ \A j \in 1..Len(items') : Parsed'[i].id < items'[j].id
      BY <1>1 DEF ShadowInv, Dropped, Expired
    <3>1. CASE Parsed' = items'
      BY <3>1 DEF Contains
    <3>2. CASE Parsed' = Parsed
      <4> DEFINE x == Parsed[i]
      <4>1. /\ x \in Entries /\ Contains(Parsed, x)
            /\ \A j \in 1..Len(Parsed) : x.id < Parsed[j].id => x.time <= Parsed[j].time
        BY <1>2, <2>3, <3>2 DEF Contains
      <4> HIDE DEF x
      <4>2. \/ Contains(Pruned(Parsed), x)
            \/ Expired(x)
            \/ /\ Len(Pruned(Parsed)) = MaxEntries
               /\ \A j \in 1..Len(Pruned(Parsed)) : x.id < Pruned(Parsed)[j].id
        BY <1>2, <2>1, <4>1, PruneDrops
      <4> QED
        BY <1>1, <3>2, <4>2 DEF x
    <3> QED
      BY <1>1, <3>1, <3>2
  <2> QED
    BY <2>6, <2>7
<1>9. LossInv'
  <2> DEFINE n == Cardinality(Missing(items', Parsed'))
  <2>1. n = 0
    BY <1>1, <1>3, NothingMissing, Zenon
  <2>2. cut' => failures' > 0
    <3>1. failures' = failures + 1 => failures' > 0
      BY <1>2
    <3>2. cut => failures > 0
      BY DEF LossInv
    <3> QED
      BY <1>1, <3>1, <3>2
  <2>3. (~cut' => Cost' = 0) /\ (cut' => Cost' = 1 \/ Cost' = 2)
    BY DEF Cost
  <2> HIDE DEF n
  <2> DEFINE d == Cost'
  <2>4. n + d <= 2 * failures'
    <3>1. CASE cut'
      <4>1. failures' > 0 /\ (d = 1 \/ d = 2)
        BY <2>2, <2>3, <3>1
      <4> HIDE DEF d
      <4> QED
        BY <1>2, <2>1, <4>1
    <3>2. CASE ~cut'
      <4>1. d = 0
        BY <2>3, <3>2
      <4>2. failures' \in Nat
        BY <1>2
      <4> HIDE DEF d
      <4>3. n + d = 0
        BY <2>1, <4>1
      <4>4. \A f \in Nat : 0 <= 2 * f
        OBVIOUS
      <4> QED
        BY <4>2, <4>3, <4>4, Zenon
    <3> QED
      BY <3>1, <3>2
  <2> QED
    BY <2>2, <2>4 DEF LossInv, n
<1>10. MirrorInv'
  BY <1>1, <1>2 DEF MirrorInv
<1> QED
  BY <1>6, <1>7, <1>8, <1>9, <1>10

\* What is silenced is a report within the window, or the clock was set back.
LEMMA SuppressKeeps ==
    ASSUME AuditTypeOK, IdsInv, TimesInv, ShadowInv, LossInv, MirrorInv, NEW k \in Keys, Suppress(k)
    PROVE  IdsInv' /\ TimesInv' /\ ShadowInv' /\ LossInv' /\ MirrorInv'
<1>1. /\ up /\ Duplicate(items, k)
      /\ silenced' = (silenced \/ \A i \in 1..Len(items) :
                         items[i].key = k => (items[i].time > now \/ now - items[i].time >= Window))
      /\ UNCHANGED <<items, nextID, disk, tail, cut, now, up, failures, stepped, begin>>
  BY DEF Suppress
<1>2. silenced' => stepped'
  <2> SUFFICES ASSUME ~stepped, ~silenced,
                      \A i \in 1..Len(items) :
                         items[i].key = k => (items[i].time > now \/ now - items[i].time >= Window)
               PROVE  FALSE
    BY <1>1 DEF TimesInv
  <2>1. PICK i \in 1..Len(items) : items[i].key = k /\ \A j \in i..Len(items) : now - items[j].time < Window
    BY <1>1 DEF Duplicate, Scanned
  <2>2. items[i] \in Entries /\ Len(items) \in Nat
    BY DEF AuditTypeOK
  <2>3. items[i].time \in 0..MaxTime /\ MaxTime \in Nat /\ Window \in Nat /\ now \in 0..MaxTime
    BY <2>2, LimitAssumption, AuditBoundsAssumption DEF Entries, AuditTypeOK
  <2>4. now - items[i].time < Window
    BY <2>1, <2>2
  <2>5. items[i].time <= now
    BY <1>1 DEF TimesInv, Past, Reliable
  <2> QED
    BY <2>1, <2>3, <2>4, <2>5
<1>3. Parsed' = Parsed
  BY <1>1 DEF Parsed
<1>4. TimesInv'
  BY <1>1, <1>2, <1>3 DEF TimesInv, Timely, Spaced, Past, Reliable
<1>5. IdsInv'
  BY <1>1, <1>3 DEF IdsInv, Ascending, Below
<1>6. ShadowInv'
  BY <1>1, <1>3 DEF ShadowInv, Dropped, Expired
<1>7. LossInv' /\ MirrorInv'
  BY <1>1, <1>3 DEF LossInv, MirrorInv, Missing, Cost
<1> QED
  BY <1>4, <1>5, <1>6, <1>7

\* The clock and the crash leave both lists alone.
LEMMA QuietKeeps ==
    ASSUME AuditTypeOK, IdsInv, TimesInv, ShadowInv, LossInv, MirrorInv,
           Tick \/ Crash \/ ClockBack \/ UNCHANGED auditVars
    PROVE  IdsInv' /\ TimesInv' /\ ShadowInv' /\ LossInv' /\ MirrorInv'
<1>1. UNCHANGED <<items, nextID, disk, tail, cut, failures, silenced, begin>>
  BY DEF Tick, Crash, ClockBack, auditVars
<1>2. Parsed' = Parsed
  BY <1>1 DEF Parsed
<1>3. \/ stepped' = stepped /\ up' = up /\ now' = now
      \/ stepped' = stepped /\ up' = up /\ now' = now + 1
      \/ stepped' = stepped /\ up /\ ~up' /\ now' = now
      \/ stepped' /\ ~up /\ ~up'
  BY Zenon DEF Tick, Crash, ClockBack, auditVars
<1>4. /\ now \in Nat /\ items \in Seq(Entries) /\ Parsed \in Seq(Entries) /\ Retention \in Nat
  BY ParsedType, LimitAssumption, AuditBoundsAssumption DEF AuditTypeOK
<1>5. /\ \A i \in 1..Len(items) : items[i].time \in Nat
      /\ \A i \in 1..Len(Parsed) : Parsed[i].time \in Nat
  <2>1. \A i \in 1..Len(items) : items[i] \in Entries
    BY <1>4
  <2>2. \A i \in 1..Len(Parsed) : Parsed[i] \in Entries
    BY <1>4
  <2> QED
    BY <2>1, <2>2, AuditBoundsAssumption DEF Entries
<1>6. up' => up
  BY <1>3
<1>7. IdsInv'
  BY <1>1, <1>2, <1>6 DEF IdsInv, Ascending, Below
<1>8. LossInv' /\ MirrorInv'
  BY <1>1, <1>2, <1>6 DEF LossInv, MirrorInv, Missing, Cost
<1>9. CASE stepped' = stepped /\ (now' = now \/ now' = now + 1)
  <2>1. Past(items) => Past(items)'
    BY <1>1, <1>4, <1>5, <1>9 DEF Past, Reliable
  <2>2. Past(Parsed) => Past(Parsed)'
    BY <1>1, <1>2, <1>4, <1>5, <1>9 DEF Past, Reliable
  <2>3. /\ Timely(items)' /\ Spaced(items)'
        /\ (~stepped => Timely(Parsed)' /\ Spaced(Parsed)')
    BY <1>1, <1>2, <1>9 DEF TimesInv, Timely, Spaced, Reliable
  <2>4. TimesInv'
    BY <1>1, <1>2, <1>6, <1>9, <2>1, <2>2, <2>3 DEF TimesInv
  <2>5. \A e \in Entries : Expired(e) => Expired(e)'
    <3> SUFFICES ASSUME NEW e \in Entries, e.time < now - Retention PROVE e.time < now' - Retention
      BY <1>1 DEF Expired
    <3>1. e.time \in Nat
      BY AuditBoundsAssumption DEF Entries
    <3> QED
      BY <1>4, <1>9, <3>1
  <2>6. \A i \in 1..Len(Parsed) : Parsed[i] \in Entries
    BY <1>4
  <2>7. ShadowInv'
    <3> SUFFICES ASSUME up', ~stepped', NEW i \in 1..Len(Parsed')
                 PROVE  \/ Contains(items', Parsed'[i])
                        \/ Dropped(Parsed[i])'
      BY <1>1, <1>2 DEF ShadowInv, Dropped, Expired
    <3>1. Contains(items, Parsed[i]) \/ Dropped(Parsed[i])
      BY <1>2, <1>6, <1>9 DEF ShadowInv
    <3>2. Dropped(Parsed[i]) => Dropped(Parsed[i])'
      BY <1>1, <1>2, <2>5, <2>6 DEF Dropped
    <3> QED
      BY <1>1, <1>2, <3>1, <3>2
  <2> QED
    BY <1>7, <1>8, <2>4, <2>7
<1>10. CASE stepped' /\ ~up /\ ~up'
  <2>1. TimesInv'
    BY <1>1, <1>2, <1>10 DEF TimesInv, Timely, Spaced, Past, Reliable
  <2>2. ShadowInv'
    BY <1>10 DEF ShadowInv
  <2> QED
    BY <1>7, <1>8, <2>1, <2>2
<1> QED
  BY <1>3, <1>9, <1>10

\* The empty log satisfies the invariant,
LEMMA AuditInvInit == AuditInit => AuditInv
<1> SUFFICES ASSUME AuditInit PROVE AuditInv
  OBVIOUS
<1>1. AuditTypeOK
  BY AuditInitTypeOK
<1>2. items = <<>> /\ disk = <<>> /\ tail = <<>> /\ Parsed = <<>> /\ Len(<<>>) = 0
  BY DEF AuditInit, Parsed
<1>3. cut = FALSE /\ stepped = FALSE /\ silenced = FALSE /\ failures = 0
  BY Zenon DEF AuditInit
<1>4. Len(items) = 0 /\ Len(Parsed) = 0
  BY <1>2
<1>5. IdsInv
  BY <1>4 DEF IdsInv, Ascending, Below
<1>6. TimesInv
  BY <1>3, <1>4 DEF TimesInv, Timely, Spaced, Past
<1>7. ShadowInv
  BY <1>4 DEF ShadowInv
<1>8. LossInv
  <2>1. Missing(items, Parsed) = {}
    BY <1>4 DEF Missing
  <2>2. Cardinality(Missing(items, Parsed)) = 0 /\ Cost = 0
    BY <1>3, <2>1, FS_EmptySet DEF Cost
  <2> QED
    BY <1>3, <2>2 DEF LossInv
<1>9. MirrorInv
  BY <1>2 DEF MirrorInv
<1> QED
  BY <1>1, <1>5, <1>6, <1>7, <1>8, <1>9 DEF AuditInv

\* and each operation keeps it.
LEMMA AuditInvNext == ASSUME AuditInv, [AuditNext]_auditVars PROVE AuditInv'
<1>1. AuditTypeOK /\ IdsInv /\ TimesInv /\ ShadowInv /\ LossInv /\ MirrorInv
  BY DEF AuditInv
<1>2. AuditTypeOK'
  BY <1>1, AuditNextTypeOK DEF IdsInv
<1>3. ASSUME NEW k \in Keys, Add(k) PROVE AuditInv'
  BY <1>1, <1>2, <1>3, AddIds, AddTimes, AddShadow, AddLoss, AddMirror DEF AuditInv
<1>4. ASSUME NEW k \in Keys, Suppress(k) PROVE AuditInv'
  BY <1>1, <1>2, <1>4, SuppressKeeps DEF AuditInv
<1>5. CASE List
  BY <1>1, <1>2, <1>5, ListKeeps DEF AuditInv
<1>6. CASE Restart
  BY <1>1, <1>2, <1>6, RestartKeeps DEF AuditInv
<1>7. CASE Tick \/ Crash \/ ClockBack \/ UNCHANGED auditVars
  BY <1>1, <1>2, <1>7, QuietKeeps DEF AuditInv
<1> QED
  BY <1>3, <1>4, <1>5, <1>6, <1>7 DEF AuditNext

\* The memory and the file stay two selections of what was recorded, whatever
\* fails between them: the order, the times and the losses of each bound the
\* other's.  Code: every operation of the Store, and load.
THEOREM AuditInvariant == AuditSpec => []AuditInv
<1>1. AuditInv /\ [AuditNext]_auditVars => AuditInv'
  BY AuditInvNext
<1> QED
  BY <1>1, AuditInvInit, PTL DEF AuditSpec

\* The log is well-formed: the list is never longer than maxEntries, whatever
\* was in the file when the process started.
THEOREM AuditTypeCorrect == AuditSpec => []AuditTypeOK
<1>1. AuditInv => AuditTypeOK
  BY DEF AuditInv
<1> QED
  BY <1>1, AuditInvariant, PTL

-----------------------------------------------------------------------------
(* The log: what an ID names.  That it names one event needs the two lists *)
(* compared; that a restart goes on with the same number needs the newest  *)
(* entry to be the last one that pruning would take away.                  *)

NameInv ==
    \A i \in 1..Len(items), j \in 1..Len(Parsed) : items[i].id = Parsed[j].id => items[i] = Parsed[j]

NumberInv ==
    failures = 0 /\ ~stepped /\ Len(items) # 0 =>
        Below(items, nextID) /\ \E i \in 1..Len(items) : items[i].id + 1 = nextID

\* An ID has one place in a list.
LEMMA OnePlace ==
    ASSUME NEW s \in Seq(Entries), Ascending(s), NEW i \in 1..Len(s), NEW j \in 1..Len(s), s[i].id = s[j].id
    PROVE  i = j
<1>1. s[i] \in Entries /\ s[j] \in Entries
  OBVIOUS
<1>2. s[i].id \in Nat /\ s[j].id \in Nat
  BY <1>1 DEF Entries
<1> QED
  BY <1>2 DEF Ascending

\* Every element Only leaves is in K.
LEMMA OnlyKept ==
    ASSUME NEW S, NEW s \in Seq(S), NEW K
    PROVE  \A i \in 1..Len(Only(s, K)) : Only(s, K)[i] \in K
<1>1. PICK f : /\ Only(s, K) = f[Len(s)]
               /\ f[0] = <<>>
               /\ \A i \in 1..Len(s) :
                     f[i] = IF s[i] \in K THEN Append(f[i - 1], s[i]) ELSE f[i - 1]
  BY OnlyPrefixes
<1> DEFINE Good(n) == f[n] \in Seq(S) /\ \A i \in 1..Len(f[n]) : f[n][i] \in K
           T == {n \in 0..Len(s) : ~Good(n)}
<1>2. Good(0)
  BY <1>1
<1>3. ASSUME NEW n \in 1..Len(s), Good(n - 1) PROVE Good(n)
  <2> DEFINE u == f[n - 1]
             v == f[n]
  <2>1. u \in Seq(S) /\ s[n] \in S /\ \A i \in 1..Len(u) : u[i] \in K
    BY <1>3
  <2>2. v = IF s[n] \in K THEN Append(u, s[n]) ELSE u
    BY <1>1
  <2> HIDE DEF u, v
  <2>3. v \in Seq(S) /\ \A i \in 1..Len(v) : v[i] \in K
    <3>1. CASE s[n] \in K
      BY <2>1, <2>2, <3>1, AppendProperties
    <3>2. CASE s[n] \notin K
      BY <2>1, <2>2, <3>2
    <3> QED
      BY <3>1, <3>2
  <2> QED
    BY <2>3 DEF v
<1> HIDE DEF Good
<1>4. T = {}
  <2> SUFFICES ASSUME T # {} PROVE FALSE
    OBVIOUS
  <2>1. PICK n \in T : \A k \in T : n <= k
    <3>1. T \in SUBSET Nat
      OBVIOUS
    <3> HIDE DEF T
    <3> QED
      BY <3>1, Least
  <2>2. n # 0 /\ n \in 1..Len(s) /\ n - 1 \in 0..Len(s) /\ n - 1 \notin T
    BY <1>2, <2>1
  <2> QED
    BY <1>3, <2>1, <2>2
<1>5. Good(Len(s))
  BY <1>4
<1> QED
  BY <1>1, <1>5 DEF Good

\* Nothing that pruning leaves has expired,
LEMMA PrunedFresh ==
    ASSUME NEW s \in Seq(Entries), NEW i \in 1..Len(Pruned(s))
    PROVE  ~Expired(Pruned(s)[i])
<1> DEFINE K == {e \in Range(s) : ~Expired(e)}
           c == Only(s, K)
           t == LastOf(c, MaxEntries)
<1>1. c \in Seq(Entries)
  BY OnlyPicks, Zenon
<1>2. \A j \in 1..Len(c) : c[j] \in K
  BY OnlyKept, Zenon
<1>3. MaxEntries \in Nat \ {0}
  BY LimitAssumption
<1>4. t = Pruned(s) /\ \A e \in K : ~Expired(e)
  BY DEF Pruned
<1> HIDE DEF c, K
<1>5. PICK d \in 0..Len(c) : Len(t) = Len(c) - d /\ \A j \in 1..Len(c) - d : t[j] = c[j + d]
  BY <1>1, <1>3, LastOfFacts, Zenon
<1> HIDE DEF t
<1>6. i \in 1..Len(t) /\ Len(c) \in Nat
  BY <1>1, <1>4
<1>7. i + d \in 1..Len(c) /\ t[i] = c[i + d]
  BY <1>5, <1>6
<1> QED
  BY <1>2, <1>4, <1>7

\* so the newest entry goes last.
LEMMA NewestStays ==
    ASSUME NEW s \in Seq(Entries), NEW m \in 1..Len(s), Len(Pruned(s)) # 0, now \in Nat, Ascending(s),
           \A i \in 1..Len(s) : s[i].id <= s[m].id /\ s[i].time <= s[m].time
    PROVE  \E j \in 1..Len(Pruned(s)) : Pruned(s)[j] = s[m]
<1> DEFINE t == Pruned(s)
<1>1. t \in Seq(Entries) /\ \A j \in 1..Len(t) : ~Expired(t[j])
  BY PrunedFacts, PrunedFresh
<1>2. PICK g : /\ Picks(g, t, s)
               /\ \A i \in 1..Len(s) :
                     \/ \E j \in 1..Len(t) : g[j] = i
                     \/ Expired(s[i])
                     \/ Len(t) = MaxEntries /\ \A j \in 1..Len(t) : i < g[j]
  BY PrunedFacts, Zenon
<1>3. Len(t) # 0
  OBVIOUS
<1> HIDE DEF t
<1>4. 1 \in 1..Len(t)
  BY <1>1, <1>3
<1>5. /\ g[1] \in 1..Len(s) /\ t[1] = s[g[1]]
      /\ \A j \in 1..Len(t) : t[j] = s[g[j]]
  BY <1>2, <1>4 DEF Picks
<1>6. s[g[1]] \in Entries /\ s[m] \in Entries
  BY <1>5
<1>7. /\ s[g[1]].time \in Nat /\ s[m].time \in Nat /\ s[g[1]].id \in Nat /\ s[m].id \in Nat
      /\ Retention \in Nat
  BY <1>6, AuditBoundsAssumption, LimitAssumption DEF Entries
<1>8. ~Expired(s[m])
  <2>1. ~(s[g[1]].time < now - Retention)
    BY <1>1, <1>4, <1>5 DEF Expired
  <2>2. s[g[1]].time <= s[m].time
    BY <1>5
  <2> QED
    BY <1>7, <2>1, <2>2 DEF Expired
<1>9. ~(m < g[1])
  <2> SUFFICES ASSUME m < g[1] PROVE FALSE
    OBVIOUS
  <2>1. s[m].id < s[g[1]].id
    BY <1>5 DEF Ascending
  <2>2. s[g[1]].id <= s[m].id
    BY <1>5
  <2> QED
    BY <1>7, <2>1, <2>2
<1>10. PICK j \in 1..Len(t) : g[j] = m
  BY <1>2, <1>4, <1>8, <1>9
<1> QED
  BY <1>5, <1>10 DEF t

\* The next number, where one below it is taken.
LEMMA NextFreeIs ==
    ASSUME NEW s \in Seq(Entries), NEW n \in Nat, Below(s, n), NEW m \in 1..Len(s), s[m].id + 1 = n
    PROVE  NextFree(s) = n
<1> DEFINE ids == {s[i].id : i \in 1..Len(s)} \cup {0}
<1>1. \A i \in 1..Len(s) : s[i].id \in Nat
  <2>1. \A i \in 1..Len(s) : s[i] \in Entries
    OBVIOUS
  <2> QED
    BY <2>1 DEF Entries
<1>2. s[m].id \in ids /\ \A x \in ids : x \in Nat /\ s[m].id >= x
  BY <1>1 DEF Below
<1>3. NextFree(s) = Max(ids) + 1
  BY DEF NextFree
<1> HIDE DEF ids
<1>4. Max(ids) \in ids /\ \A x \in ids : Max(ids) >= x
  BY <1>2 DEF Max
<1> DEFINE x == Max(ids)
<1>5. x \in ids /\ x >= s[m].id
  BY <1>2, <1>4
<1> HIDE DEF x
<1>6. x \in Nat /\ s[m].id >= x
  BY <1>2, <1>5
<1>7. x = s[m].id
  BY <1>1, <1>5, <1>6
<1> QED
  BY <1>3, <1>7 DEF x

\* Add: the new entry is the newest, and its ID is above all others.
LEMMA AddNames ==
    ASSUME AuditInv, AuditInv', NameInv, NEW k \in Keys, Add(k)
    PROVE  NameInv' /\ NumberInv'
<1>1. /\ up /\ items' = Pruned(Added(k)) /\ nextID' = nextID + 1
      /\ UNCHANGED <<now, up, stepped>>
  BY AddFacts DEF AuditInv
<1>2. /\ AuditTypeOK /\ items \in Seq(Entries) /\ Parsed \in Seq(Entries) /\ nextID \in Nat /\ now \in Nat
      /\ Below(items, nextID) /\ Below(Parsed, nextID) /\ Ascending(items)
      /\ items' \in Seq(Entries) /\ Ascending(items') /\ Below(items', nextID')
  <2>1. AuditTypeOK /\ IdsInv /\ AuditTypeOK' /\ IdsInv'
    BY DEF AuditInv
  <2>2. items \in Seq(Entries) /\ Parsed \in Seq(Entries) /\ nextID \in Nat /\ now \in Nat /\ items' \in Seq(Entries)
    BY <2>1, ParsedType, AuditBoundsAssumption DEF AuditTypeOK
  <2>3. Below(items, nextID) /\ Below(Parsed, nextID) /\ Ascending(items)
    BY <1>1, <2>1 DEF IdsInv
  <2>4. Ascending(items')
    BY <2>1 DEF IdsInv, Ascending
  <2>5. Below(items', nextID')
    BY <1>1, <2>1 DEF IdsInv, Below
  <2> QED
    BY <2>1, <2>2, <2>3, <2>4, <2>5
<1>3. /\ New(k) \in Entries /\ New(k).id = nextID /\ New(k).time = now
      /\ Added(k) \in Seq(Entries) /\ Len(Added(k)) = Len(items) + 1 /\ Len(items) \in Nat
      /\ \A i \in 1..Len(items) : Added(k)[i] = items[i]
      /\ Added(k)[Len(items) + 1] = New(k)
  <2>1. Len(items) \in Nat
    BY <1>2
  <2> QED
    BY <1>2, <2>1, NewFacts
<1>4. \A i \in 1..Len(items') : items'[i] = New(k) \/ \E j \in 1..Len(items) : items'[i] = items[j]
  <2>1. \A i \in 1..Len(items') : \E j \in 1..Len(Added(k)) : items'[i] = Added(k)[j]
    BY <1>1, <1>3, PrunedWithin, WithinKeeps
  <2> QED
    BY <1>3, <2>1
<1>5. \/ Parsed' = items'
      \/ \A i \in 1..Len(Parsed') : Parsed'[i] = New(k) \/ \E j \in 1..Len(Parsed) : Parsed'[i] = Parsed[j]
  <2>1. ASSUME Within(Parsed', Parsed)
        PROVE  \A i \in 1..Len(Parsed') : \E j \in 1..Len(Parsed) : Parsed'[i] = Parsed[j]
    BY <2>1, WithinKeeps
  <2>2. ASSUME Parsed' = Append(Parsed, New(k))
        PROVE  \A i \in 1..Len(Parsed') : Parsed'[i] = New(k) \/ \E j \in 1..Len(Parsed) : Parsed'[i] = Parsed[j]
    <3>1. /\ Len(Parsed') = Len(Parsed) + 1 /\ Len(Parsed) \in Nat
          /\ \A i \in 1..Len(Parsed) : Parsed'[i] = Parsed[i]
          /\ Parsed'[Len(Parsed) + 1] = New(k)
      BY <1>2, <1>3, <2>2, AppendProperties
    <3> QED
      BY <3>1
  <2> QED
    BY <1>2, <2>1, <2>2, AddParsed
<1>6. NameInv'
  <2> SUFFICES ASSUME NEW i \in 1..Len(items'), NEW j \in 1..Len(Parsed'), items'[i].id = Parsed'[j].id
               PROVE  items'[i] = Parsed'[j]
    BY DEF NameInv
  <2>1. CASE Parsed' = items'
    BY <1>2, <2>1, OnePlace
  <2>2. CASE Parsed'[j] = New(k) \/ \E n \in 1..Len(Parsed) : Parsed'[j] = Parsed[n]
    <3>1. \A n \in 1..Len(items) : items[n].id # New(k).id
      BY <1>2, <1>3 DEF Below
    <3>2. \A n \in 1..Len(Parsed) : Parsed[n].id # New(k).id
      BY <1>2, <1>3 DEF Below
    <3> QED
      BY <1>4, <2>2, <3>1, <3>2 DEF NameInv
  <2> QED
    BY <1>5, <2>1, <2>2
<1>7. NumberInv'
  <2> SUFFICES ASSUME ~stepped, Len(items') # 0 PROVE \E i \in 1..Len(items') : items'[i].id + 1 = nextID'
    BY <1>1, <1>2 DEF NumberInv, Below
  <2>1. Timely(items) /\ Past(items)
    BY <1>1 DEF AuditInv, TimesInv
  <2>2. Ascending(Added(k))
    BY <1>2, AppendKeeps DEF Added
  <2>3. \A i \in 1..Len(items) : items[i].time <= now /\ items[i].id < nextID /\ items[i].id \in Nat
    <3>1. \A i \in 1..Len(items) : items[i] \in Entries
      BY <1>2
    <3>2. \A i \in 1..Len(items) : items[i].id \in Nat
      BY <3>1 DEF Entries
    <3>3. \A i \in 1..Len(items) : items[i].time <= now
      BY <2>1 DEF Past, Reliable
    <3> QED
      BY <1>2, <3>2, <3>3 DEF Below
  <2> DEFINE m == Len(items) + 1
  <2>4. m \in 1..Len(Added(k)) /\ Added(k)[m] = New(k)
    BY <1>3
  <2>5. \A i \in 1..Len(Added(k)) : Added(k)[i].id <= New(k).id /\ Added(k)[i].time <= New(k).time
    <3> SUFFICES ASSUME NEW i \in 1..Len(Added(k))
                 PROVE  Added(k)[i].id <= New(k).id /\ Added(k)[i].time <= New(k).time
      OBVIOUS
    <3>1. CASE i \in 1..Len(items)
      BY <1>2, <1>3, <2>3, <3>1
    <3>2. CASE i = Len(items) + 1
      BY <1>2, <1>3, <3>2
    <3> QED
      BY <1>3, <3>1, <3>2
  <2> HIDE DEF m
  <2>6. \E j \in 1..Len(items') : items'[j] = New(k)
    BY <1>1, <1>2, <1>3, <2>2, <2>4, <2>5, NewestStays
  <2> QED
    BY <1>1, <1>3, <2>6
<1> QED
  BY <1>6, <1>7

\* A list of which the newest entry has the last number: pruned, it still has.
LEMMA PrunedNumber ==
    ASSUME NEW s \in Seq(Entries), Ascending(s), Timely(s), ~stepped, now \in Nat, NEW n \in Nat,
           Below(s, n), \E i \in 1..Len(s) : s[i].id + 1 = n, Len(Pruned(s)) # 0
    PROVE  \E i \in 1..Len(Pruned(s)) : Pruned(s)[i].id + 1 = n
<1>1. PICK m \in 1..Len(s) : s[m].id + 1 = n
  OBVIOUS
<1>2. \A i \in 1..Len(s) : s[i].id \in Nat /\ s[i].time \in Nat
  <2> SUFFICES ASSUME NEW i \in 1..Len(s) PROVE s[i].id \in Nat /\ s[i].time \in Nat
    OBVIOUS
  <2>1. s[i] \in Entries
    OBVIOUS
  <2>2. s[i].id \in Nat /\ s[i].time \in 0..MaxTime
    BY <2>1 DEF Entries
  <2>3. MaxTime \in Nat
    BY AuditBoundsAssumption
  <2> QED
    BY <2>2, <2>3
<1>3. \A i \in 1..Len(s) : s[i].id <= s[m].id /\ s[i].time <= s[m].time
  <2> SUFFICES ASSUME NEW i \in 1..Len(s) PROVE s[i].id <= s[m].id /\ s[i].time <= s[m].time
    OBVIOUS
  <2>1. s[i].id <= s[m].id
    BY <1>1, <1>2 DEF Below
  <2>2. CASE s[i].id < s[m].id
    BY <2>1, <2>2, Chronicle
  <2>3. CASE s[i].id = s[m].id
    BY <1>2, <2>1, <2>3, OnePlace
  <2> QED
    BY <1>2, <2>1, <2>2, <2>3
<1>4. \E j \in 1..Len(Pruned(s)) : Pruned(s)[j] = s[m]
  BY <1>3, NewestStays
<1> QED
  BY <1>1, <1>4

\* List takes nothing but old entries away.
LEMMA ListNames ==
    ASSUME AuditInv, AuditInv', NameInv, NumberInv, List
    PROVE  NameInv' /\ NumberInv'
<1>1. /\ up /\ items' = Pruned(items) /\ items' \in Seq(Entries) /\ Within(items', items)
      /\ UNCHANGED <<nextID, now, up, stepped>>
      /\ \/ failures' = failures /\ Parsed' = items'
         \/ failures' = failures + 1 /\ Parsed' = Parsed
  BY ListFacts DEF AuditInv
<1>2. /\ items \in Seq(Entries) /\ now \in Nat /\ nextID \in Nat /\ failures \in Nat
      /\ Ascending(items) /\ Below(items, nextID)
  <2>1. AuditTypeOK /\ IdsInv
    BY DEF AuditInv
  <2> QED
    BY <1>1, <2>1, AuditBoundsAssumption DEF AuditTypeOK, IdsInv
<1>3. /\ Ascending(items') /\ Below(items', nextID)
      /\ \A i \in 1..Len(items') : \E j \in 1..Len(items) : items'[i] = items[j]
  BY <1>1, <1>2, WithinKeeps
<1>4. NameInv'
  <2> SUFFICES ASSUME NEW i \in 1..Len(items'), NEW j \in 1..Len(Parsed'), items'[i].id = Parsed'[j].id
               PROVE  items'[i] = Parsed'[j]
    BY DEF NameInv
  <2>1. CASE Parsed' = items'
    BY <1>1, <1>3, <2>1, OnePlace
  <2>2. CASE Parsed' = Parsed
    BY <1>3, <2>2 DEF NameInv
  <2> QED
    BY <1>1, <2>1, <2>2
<1>5. NumberInv'
  <2> SUFFICES ASSUME failures' = 0, ~stepped, Len(items') # 0
               PROVE  \E i \in 1..Len(items') : items'[i].id + 1 = nextID
    BY <1>1, <1>3 DEF NumberInv, Below
  <2>1. failures = 0
    BY <1>1, <1>2
  <2>2. Len(items) # 0
    BY <1>2, <1>3, 1 \in 1..Len(items'), <1>1
  <2>3. Timely(items)
    BY DEF AuditInv, TimesInv
  <2>4. \E i \in 1..Len(items) : items[i].id + 1 = nextID
    BY <2>1, <2>2 DEF NumberInv
  <2> QED
    BY <1>1, <1>2, <2>3, <2>4, PrunedNumber
<1> QED
  BY <1>4, <1>5

\* Open goes on with the number, while nothing was lost.
LEMMA RestartNames ==
    ASSUME AuditInv, AuditInv', NumberInv, Restart
    PROVE  NameInv' /\ NumberInv'
<1>1. /\ up' = TRUE /\ items' = Pruned(Parsed) /\ items' \in Seq(Entries)
      /\ Within(items', Parsed)
      /\ UNCHANGED <<now, stepped>>
      /\ \/ failures' = failures /\ Parsed' = items'
         \/ failures' = failures + 1 /\ Parsed' = Parsed
  BY RestartFacts DEF AuditInv
<1>2. nextID' = NextFree(Parsed)
  BY Zenon DEF Restart
<1>3. /\ Parsed \in Seq(Entries) /\ now \in Nat /\ failures \in Nat /\ nextID \in Nat
      /\ Ascending(Parsed)
  <2>1. AuditTypeOK /\ IdsInv
    BY DEF AuditInv
  <2> QED
    BY <2>1, ParsedType, AuditBoundsAssumption DEF AuditTypeOK, IdsInv
<1>4. /\ Ascending(items')
      /\ \A i \in 1..Len(items') : \E j \in 1..Len(Parsed) : items'[i] = Parsed[j]
  BY <1>1, <1>3, WithinKeeps
<1>5. NameInv'
  <2> SUFFICES ASSUME NEW i \in 1..Len(items'), NEW j \in 1..Len(Parsed'), items'[i].id = Parsed'[j].id
               PROVE  items'[i] = Parsed'[j]
    BY DEF NameInv
  <2>1. CASE Parsed' = items'
    BY <1>1, <1>4, <2>1, OnePlace
  <2>2. CASE Parsed' = Parsed
    BY <1>3, <1>4, <2>2, OnePlace
  <2> QED
    BY <1>1, <2>1, <2>2
<1>6. NumberInv'
  <2> SUFFICES ASSUME failures' = 0, ~stepped, Len(items') # 0
               PROVE  \E i \in 1..Len(items') : items'[i].id + 1 = nextID'
    <3>1. Below(items', nextID')
      BY <1>1 DEF AuditInv, IdsInv, Below
    <3> QED
      BY <1>1, <3>1 DEF NumberInv, Below
  <2>1. failures = 0
    BY <1>1, <1>3
  <2>2. Parsed = items
    BY <2>1 DEF AuditInv, MirrorInv
  <2>3. Len(items) # 0
    BY <1>3, <1>4, 1 \in 1..Len(items'), <1>1, <2>2
  <2>4. Timely(Parsed)
    BY DEF AuditInv, TimesInv
  <2>5. Below(Parsed, nextID) /\ \E i \in 1..Len(Parsed) : Parsed[i].id + 1 = nextID
    BY <2>1, <2>2, <2>3 DEF NumberInv
  <2>6. nextID' = nextID
    BY <1>2, <1>3, <2>5, NextFreeIs
  <2> QED
    BY <1>1, <1>3, <2>4, <2>5, <2>6, PrunedNumber
<1> QED
  BY <1>5, <1>6

LEMMA NamesNext ==
    ASSUME AuditInv, AuditInv', NameInv, NumberInv, [AuditNext]_auditVars
    PROVE  NameInv' /\ NumberInv'
<1>1. ASSUME NEW k \in Keys, Add(k) PROVE NameInv' /\ NumberInv'
  BY <1>1, AddNames
<1>2. CASE List
  BY <1>2, ListNames
<1>3. CASE Restart
  BY <1>3, RestartNames
<1>4. ASSUME (\E k \in Keys : Suppress(k)) \/ Tick \/ Crash \/ ClockBack \/ UNCHANGED auditVars
      PROVE  NameInv' /\ NumberInv'
  <2>1. UNCHANGED <<items, nextID, disk, tail, failures>> /\ (stepped' = stepped \/ stepped')
    BY <1>4, Zenon DEF Suppress, Tick, Crash, ClockBack, auditVars
  <2>2. Parsed' = Parsed
    BY <2>1 DEF Parsed
  <2> QED
    BY <2>1, <2>2 DEF NameInv, NumberInv, Below
<1> QED
  BY <1>1, <1>2, <1>3, <1>4 DEF AuditNext

\* An ID names one event, in memory and in the file, and the next one is free.
\* While nothing was lost, a restart goes on with the number: what was recorded
\* last is the last to expire.  Code: Add, load.
THEOREM OneEntryPerIdHolds == AuditSpec => []OneEntryPerId
<1>1. AuditInit => NameInv /\ NumberInv
  <2> SUFFICES ASSUME AuditInit PROVE NameInv /\ NumberInv
    OBVIOUS
  <2>1. items = <<>> /\ Len(items) = 0
    BY DEF AuditInit
  <2> QED
    BY <2>1 DEF NameInv, NumberInv
<1>2. AuditInv /\ AuditInv' /\ NameInv /\ NumberInv /\ [AuditNext]_auditVars => (NameInv /\ NumberInv)'
  BY NamesNext
<1>3. AuditInv /\ NameInv /\ NumberInv => OneEntryPerId
  <2> SUFFICES ASSUME AuditInv, NameInv, NumberInv PROVE OneEntryPerId
    OBVIOUS
  <2>1. AuditTypeOK /\ IdsInv /\ MirrorInv
    BY DEF AuditInv
  <2>2. items \in Seq(Entries) /\ Parsed \in Seq(Entries) /\ nextID \in Nat
    BY <2>1, ParsedType DEF AuditTypeOK
  <2>3. \A a, b \in Range(items) \cup Range(Parsed) : a.id = b.id => a = b
    <3> SUFFICES ASSUME NEW a \in Range(items) \cup Range(Parsed), NEW b \in Range(items) \cup Range(Parsed),
                        a.id = b.id
                 PROVE  a = b
      OBVIOUS
    <3>1. (\E i \in 1..Len(items) : a = items[i]) \/ (\E i \in 1..Len(Parsed) : a = Parsed[i])
      BY <2>2 DEF Range
    <3>2. (\E i \in 1..Len(items) : b = items[i]) \/ (\E i \in 1..Len(Parsed) : b = Parsed[i])
      BY <2>2 DEF Range
    <3>3. \A i, j \in 1..Len(items) : items[i].id = items[j].id => items[i] = items[j]
      BY <2>1, <2>2, OnePlace DEF IdsInv
    <3>4. \A i, j \in 1..Len(Parsed) : Parsed[i].id = Parsed[j].id => Parsed[i] = Parsed[j]
      BY <2>1, <2>2, OnePlace DEF IdsInv
    <3> QED
      BY <3>1, <3>2, <3>3, <3>4 DEF NameInv
  <2>4. up => \A a \in Range(items) \cup Range(Parsed) : a.id < nextID
    BY <2>1, <2>2 DEF IdsInv, Below, Range
  <2>5. failures = 0 /\ ~stepped /\ items # <<>> => NextFree(Parsed) = nextID
    <3> SUFFICES ASSUME failures = 0, ~stepped, items # <<>> PROVE NextFree(Parsed) = nextID
      OBVIOUS
    <3>1. Len(items) # 0 /\ Parsed = items
      BY <2>1, <2>2 DEF MirrorInv
    <3> QED
      BY <2>2, <3>1, NextFreeIs DEF NumberInv
  <2> QED
    BY <2>3, <2>4, <2>5, Zenon DEF OneEntryPerId
<1> QED
  BY <1>1, <1>2, <1>3, AuditInvariant, PTL DEF AuditSpec

\* An event is recorded unless one like it was within the window, and is never
\* taken for a repetition of an older one, while the clock is not set back.
THEOREM RecordedUnlessRecentHolds == AuditSpec => []RecordedUnlessRecent
<1>1. AuditInv => RecordedUnlessRecent
  BY DEF AuditInv, TimesInv, Spaced, Reliable, RecordedUnlessRecent
<1> QED
  BY <1>1, AuditInvariant, PTL

\* A write that fails or is cut short costs the file two entries at most.
THEOREM LossBoundedHolds == AuditSpec => []LossBounded
<1>1. AuditInv => LossBounded
  <2> SUFFICES ASSUME AuditInv, up PROVE Cardinality(Missing(items, Parsed)) <= 2 * failures
    BY DEF LossBounded, Missing
  <2>1. AuditTypeOK /\ Cardinality(Missing(items, Parsed)) + Cost <= 2 * failures
    BY DEF AuditInv, LossInv
  <2>2. Cardinality(Missing(items, Parsed)) \in Nat
    BY <2>1, MissingFinite, Zenon DEF AuditTypeOK
  <2>3. Cost \in Nat /\ failures \in Nat
    BY <2>1, CostFacts
  <2> QED
    BY <2>1, <2>2, <2>3
<1> QED
  BY <1>1, AuditInvariant, PTL

\* While no write failed the file says what the memory says, also after a crash.
THEOREM FileFollowsMemoryHolds == AuditSpec => []FileFollowsMemory
<1>1. AuditInv => FileFollowsMemory
  BY DEF AuditInv, MirrorInv, FileFollowsMemory
<1> QED
  BY <1>1, AuditInvariant, PTL

-----------------------------------------------------------------------------
(* The log: its listing. *)

\* Newest first.
LEMMA ReverseFacts ==
    ASSUME NEW S, NEW s \in Seq(S)
    PROVE  /\ Reverse(s) \in Seq(S) /\ Len(Reverse(s)) = Len(s)
           /\ \A i \in 1..Len(s) : Reverse(s)[i] = s[Len(s) - i + 1]
<1> DEFINE r == [i \in 1..Len(s) |-> s[(Len(s) - i) + 1]]
<1>1. Len(s) \in Nat /\ \A i \in 1..Len(s) : (Len(s) - i) + 1 \in 1..Len(s)
  OBVIOUS
<1>2. \A i \in 1..Len(s) : s[(Len(s) - i) + 1] \in S
  BY <1>1
<1>3. r \in Seq(S) /\ Len(r) = Len(s) /\ \A i \in 1..Len(s) : r[i] = s[Len(s) - i + 1]
  BY <1>1, <1>2
<1>4. Reverse(s) = r
  BY DEF Reverse
<1> HIDE DEF r
<1> QED
  BY <1>3, <1>4

\* A product grows with its factor.
LEMMA Multiples ==
    ASSUME NEW a \in Int, NEW b \in Int, NEW c \in Nat, a <= b
    PROVE  a * c <= b * c
<1>1. (b - a) * c >= 0
  OBVIOUS
<1>2. (b - a) * c = b * c - a * c
  OBVIOUS
<1> QED
  BY <1>1, <1>2

\* The number of pages is the least that holds the entries.
LEMMA PageCount ==
    ASSUME NEW total \in Nat, NEW size \in Nat \ {0}
    PROVE  /\ TotalPages(total, size) \in Nat
           /\ total <= TotalPages(total, size) * size
           /\ (TotalPages(total, size) - 1) * size < total
<1> DEFINE a == total + size - 1
           n == a \div size
<1>1. a \in Nat
  OBVIOUS
<1> HIDE DEF a
<1>2. n \in Nat /\ n * size <= a /\ a < (n + 1) * size
  BY <1>1
<1> HIDE DEF n
<1>3. (n + 1) * size = n * size + size /\ (n - 1) * size = n * size - size
  BY <1>2
<1> DEFINE m == n * size
<1>4. m \in Int
  BY <1>2
<1>5. m <= a /\ a < m + size
  BY <1>2, <1>3
<1> HIDE DEF m
<1>6. total <= m /\ m - size < total
  BY <1>4, <1>5 DEF a
<1>7. TotalPages(total, size) = n
  BY DEF TotalPages, n, a
<1> QED
  BY <1>2, <1>3, <1>6, <1>7 DEF m

\* A page, counted from the end of the list, is a stretch of its reverse.
LEMMA PageIsStretch ==
    ASSUME NEW S, NEW all \in Seq(S), NEW q \in Nat, NEW l \in Nat, q + l <= Len(all)
    PROVE  Reverse(SubSeq(all, Len(all) - q - l + 1, Len(all) - q))
              = SubSeq(Reverse(all), q + 1, q + l)
<1> DEFINE t == Len(all)
           u == SubSeq(all, t - q - l + 1, t - q)
           r == Reverse(all)
           v == SubSeq(r, q + 1, q + l)
           w == Reverse(u)
<1>1. t \in Nat /\ q + l <= t
  OBVIOUS
<1>2. /\ r \in Seq(S) /\ Len(r) = t /\ \A i \in 1..t : r[i] = all[t - i + 1]
  BY ReverseFacts
<1>3. \A i \in 1..t : all[i] \in S
  OBVIOUS
<1>4. \A i \in 1..t : r[i] \in S
  BY <1>2
<1> HIDE DEF t, r
<1>5. u \in Seq(S) /\ Len(u) = l /\ \A i \in 1..l : u[i] = all[t - q - l + i]
  <2>1. \A i \in t - q - l + 1..t - q : all[i] \in S
    BY <1>1, <1>3
  <2> DEFINE x == t - q - l + 1
             y == t - q
  <2>2. x \in Int /\ y \in Int /\ \A i \in x..y : all[i] \in S
    BY <1>1, <2>1
  <2>3. (IF x <= y THEN y - x + 1 ELSE 0) = l /\ y - x + 1 = l
    BY <1>1
  <2>4. \A i \in 1..l : x + i - 1 = t - q - l + i
    BY <1>1
  <2> HIDE DEF x, y
  <2>5. /\ SubSeq(all, x, y) \in Seq(S)
        /\ Len(SubSeq(all, x, y)) = IF x <= y THEN y - x + 1 ELSE 0
        /\ \A i \in 1..y - x + 1 : SubSeq(all, x, y)[i] = all[x + i - 1]
    BY <2>2, SubSeqProperties
  <2>6. /\ SubSeq(all, x, y) \in Seq(S) /\ Len(SubSeq(all, x, y)) = l
        /\ \A i \in 1..l : SubSeq(all, x, y)[i] = all[t - q - l + i]
    BY <2>3, <2>4, <2>5
  <2> QED
    BY <2>6 DEF x, y
<1>6. v \in Seq(S) /\ Len(v) = l /\ \A i \in 1..l : v[i] = r[q + i]
  <2>1. \A i \in q + 1..q + l : r[i] \in S
    BY <1>1, <1>4
  <2> DEFINE x == q + 1
             y == q + l
  <2>2. x \in Int /\ y \in Int /\ \A i \in x..y : r[i] \in S
    BY <1>1, <2>1
  <2>3. (IF x <= y THEN y - x + 1 ELSE 0) = l /\ y - x + 1 = l
    BY <1>1
  <2>4. \A i \in 1..l : x + i - 1 = q + i
    BY <1>1
  <2> HIDE DEF x, y
  <2>5. /\ SubSeq(r, x, y) \in Seq(S)
        /\ Len(SubSeq(r, x, y)) = IF x <= y THEN y - x + 1 ELSE 0
        /\ \A i \in 1..y - x + 1 : SubSeq(r, x, y)[i] = r[x + i - 1]
    BY <2>2, SubSeqProperties
  <2>6. /\ SubSeq(r, x, y) \in Seq(S) /\ Len(SubSeq(r, x, y)) = l
        /\ \A i \in 1..l : SubSeq(r, x, y)[i] = r[q + i]
    BY <2>3, <2>4, <2>5
  <2> QED
    BY <2>6 DEF x, y
<1> HIDE DEF u, v
<1>7. w \in Seq(S) /\ Len(w) = l /\ \A i \in 1..l : w[i] = u[l - i + 1]
  BY <1>5, ReverseFacts
<1> HIDE DEF w
<1>8. ASSUME NEW i \in 1..l PROVE w[i] = v[i]
  <2>1. l - i + 1 \in 1..l /\ t - q - l + (l - i + 1) = t - (q + i) + 1 /\ q + i \in 1..t
    BY <1>1
  <2>2. w[i] = all[t - q - l + (l - i + 1)]
    BY <1>5, <1>7, <2>1
  <2>3. v[i] = all[t - (q + i) + 1]
    BY <1>2, <1>6, <2>1
  <2> QED
    BY <2>1, <2>2, <2>3
<1>9. w = v
  BY <1>6, <1>7, <1>8
<1> QED
  BY <1>9 DEF t, u, r, v, w

\* One page of a listing.
LEMMA OnePage ==
    ASSUME NEW filter, Filtered(filter) \in Seq(Entries), NEW size \in Nat \ {0},
           NEW p \in 1..TotalPages(Len(Filtered(filter)), size)
    PROVE  ListPage(p, size, filter)
              = SubSeq(Reverse(Filtered(filter)), (p - 1) * size + 1,
                       IF p < TotalPages(Len(Filtered(filter)), size) THEN p * size
                       ELSE Len(Filtered(filter)))
<1> DEFINE all == Filtered(filter)
           total == Len(all)
           n == TotalPages(total, size)
           m == p * size
           q == (p - 1) * size
           first == IF total - m < 0 THEN 0 ELSE total - m
           l == (total - q) - first
<1>1. total \in Nat /\ all \in Seq(Entries)
  OBVIOUS
<1>2. n \in Nat /\ total <= n * size /\ (n - 1) * size < total /\ p \in 1..n
  BY PageCount
<1>3. ListPage(p, size, filter) = Reverse(SubSeq(all, first + 1, total - q))
  <2>1. n # 0 /\ ~(p > n) /\ ~(p < 1)
    BY <1>2
  <2> QED
    BY <2>1, Zenon DEF ListPage
<1> HIDE DEF n, all, total
<1>4. m \in Int /\ q \in Int /\ q >= 0 /\ m = q + size /\ n \in Nat /\ p \in 1..n
  <2>1. p - 1 \in Nat /\ p \in Nat
    BY <1>2
  <2>2. (p - 1) * size \in Nat
    BY <2>1
  <2>3. p * size = (p - 1) * size + size
    BY <2>1
  <2> QED
    BY <1>2, <2>1, <2>2, <2>3
<1>5. CASE p < n
  <2>1. m <= (n - 1) * size /\ (n - 1) * size \in Int
    BY <1>2, <1>5, Multiples
  <2> DEFINE k == (n - 1) * size
  <2>2. m <= k /\ k \in Int /\ k < total
    BY <1>2, <2>1
  <2> HIDE DEF k, m, q
  <2>3. first = total - m /\ l = size /\ q + l <= total /\ q + l = m /\ q \in Nat
        /\ first + 1 = total - q - l + 1
    BY <1>1, <1>4, <2>2
  <2> HIDE DEF l, first
  <2>4. Reverse(SubSeq(all, total - q - l + 1, total - q)) = SubSeq(Reverse(all), q + 1, q + l)
    <3>1. l \in Nat
      BY <2>3
    <3> QED
      BY <1>1, <2>3, <3>1, PageIsStretch DEF total
  <2>5. ListPage(p, size, filter) = SubSeq(Reverse(all), q + 1, m)
    BY <1>3, <2>3, <2>4
  <2> QED
    BY <1>5, <2>5 DEF q, m, n, total, all
<1>6. CASE p = n
  <2>1. m = n * size /\ q = (n - 1) * size
    BY <1>6
  <2>2. total <= m /\ q < total
    BY <1>2, <2>1
  <2> HIDE DEF m, q
  <2>3. first = 0 /\ l = total - q /\ q + l <= total /\ q + l = total /\ q \in Nat
        /\ first + 1 = total - q - l + 1 /\ l \in Nat
    BY <1>1, <1>4, <2>2
  <2> HIDE DEF l, first
  <2>4. Reverse(SubSeq(all, total - q - l + 1, total - q)) = SubSeq(Reverse(all), q + 1, q + l)
    BY <1>1, <2>3, PageIsStretch DEF total
  <2>5. ListPage(p, size, filter) = SubSeq(Reverse(all), q + 1, total)
    BY <1>3, <2>3, <2>4
  <2>6. ~(p < n)
    BY <1>2, <1>6
  <2> QED
    BY <2>5, <2>6 DEF q, n, total, all
<1> HIDE DEF m, q, first, l
<1>7. p < n \/ p = n
  BY <1>2
<1> QED
  BY <1>5, <1>6, <1>7

\* The pages of a listing are the filtered entries, newest first, without holes
\* or repetitions, for every page size, and a page that does not exist is answered
\* with the nearest.  Code: List.
THEOREM PagesPartitionHolds == AuditSpec => []PagesPartition
<1>1. AuditTypeOK => PagesPartition
  <2> SUFFICES ASSUME AuditTypeOK, NEW size \in 1..MaxEntries + 1,
                      NEW filter \in {"all", "allowed", "blocked"}
               PROVE  LET listing == Reverse(Filtered(filter))
                          total   == Len(listing)
                          n       == TotalPages(total, size)
                      IN  /\ total <= n * size /\ (n > 0 => (n - 1) * size < total)
                          /\ n = 0 => listing = <<>>
                          /\ \A p \in 1..n, wanted \in -1..n + 2 :
                                wanted = p \/ (wanted < 1 /\ p = 1) \/ (wanted > n /\ p = n) =>
                                   ListPage(wanted, size, filter)
                                      = SubSeq(listing, (p - 1) * size + 1, IF p < n THEN p * size ELSE total)
    BY DEF PagesPartition
  <2>1. Filtered(filter) \in Seq(Entries)
    <3>1. items \in Seq(Entries)
      BY DEF AuditTypeOK
    <3> QED
      BY <3>1, OnlyPicks, Zenon DEF Filtered
  <2>2. Len(Reverse(Filtered(filter))) = Len(Filtered(filter)) /\ Len(Filtered(filter)) \in Nat
    BY <2>1, ReverseFacts
  <2>3. size \in Nat \ {0}
    BY LimitAssumption
  <2> DEFINE total == Len(Filtered(filter))
             n == TotalPages(total, size)
  <2>4. total <= n * size /\ (n - 1) * size < total
    BY <2>2, <2>3, PageCount
  <2>5. \A p \in 1..n :
           ListPage(p, size, filter)
              = SubSeq(Reverse(Filtered(filter)), (p - 1) * size + 1, IF p < n THEN p * size ELSE total)
    BY <2>1, <2>3, OnePage
  <2>6. n \in Nat /\ (n = 0 => Reverse(Filtered(filter)) = <<>>)
    <3>1. n \in Nat /\ (n = 0 => total = 0)
      BY <2>2, <2>3, <2>4, PageCount
    <3>2. Reverse(Filtered(filter)) \in Seq(Entries)
      BY <2>1, ReverseFacts
    <3> QED
      BY <2>2, <3>1, <3>2, EmptySeq
  <2>7. ASSUME NEW p \in 1..n, NEW wanted \in -1..n + 2,
               wanted = p \/ (wanted < 1 /\ p = 1) \/ (wanted > n /\ p = n)
        PROVE  ListPage(wanted, size, filter) = ListPage(p, size, filter)
    <3> DEFINE nearest(x) == IF x < 1 THEN 1 ELSE IF x > n THEN n ELSE x
               first(k) == IF total - k * size < 0 THEN 0 ELSE total - k * size
               stretch(k) ==
                  IF n = 0 THEN <<>>
                  ELSE Reverse(SubSeq(Filtered(filter), first(k) + 1, total - (k - 1) * size))
    <3>1. ListPage(wanted, size, filter) = stretch(nearest(wanted)) /\ ListPage(p, size, filter) = stretch(nearest(p))
      BY DEF ListPage
    <3> HIDE DEF n, first, stretch
    <3>2. nearest(wanted) = p /\ nearest(p) = p
      BY <2>6, <2>7
    <3> HIDE DEF nearest
    <3> QED
      BY <3>1, <3>2, Zenon
  <2>8. \A p \in 1..n, wanted \in -1..n + 2 :
           wanted = p \/ (wanted < 1 /\ p = 1) \/ (wanted > n /\ p = n) =>
              ListPage(wanted, size, filter)
                 = SubSeq(Reverse(Filtered(filter)), (p - 1) * size + 1, IF p < n THEN p * size ELSE total)
    <3> HIDE DEF n, total
    <3> QED
      BY <2>5, <2>7, Zenon
  <2> QED
    BY <2>2, <2>4, <2>6, <2>8, Zenon
<1> QED
  BY <1>1, AuditTypeCorrect, PTL
=============================================================================
