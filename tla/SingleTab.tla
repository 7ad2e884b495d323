----------------------------- MODULE SingleTab -----------------------------
(***************************************************************************)
(* One session's enforcement of a single tab: browser_session.go and       *)
(* browser_guards.go.                                                      *)
(*                                                                         *)
(* chromedp is attached to one page for the life of the session; mainID is *)
(* the session's idea of which page that is.  The browser reports pages    *)
(* that open, change and go, in order, to a callback that runs while the   *)
(* select loop does something else.  For a page that is not the main one   *)
(* the callback starts goroutines that load its URL in the main page and   *)
(* close it.  The loop polls every 150 ms, or sooner when denyCh holds a   *)
(* token: it lists the pages, gives the session up when the attached page  *)
(* is gone, and otherwise works through the list it got, which may be out  *)
(* of date by then.                                                        *)
(***************************************************************************)
EXTENDS Integers, Sequences, SequencesExt

CONSTANTS
    Tabs,       \* page targets the browser may open
    Attached,   \* the page chromedp is attached to
    MaxMoves,   \* bound: what the user and the pages do
    MaxFails    \* bound: requests to the browser that fail

\* The empty target.ID is no page's.
Nothing == "nothing"

ASSUME AttachedAssumption == Attached \in Tabs
ASSUME NothingAssumption == Nothing \notin Tabs
ASSUME BoundAssumption == MaxMoves \in Nat /\ MaxFails \in Nat

VARIABLES
    url,        \* what each page shows: "new" before it opens, "closed" after
    mainID,     \* browserSession.mainID
    events,     \* target events not yet handled
    closers,    \* closeExtraTarget goroutines before their test of mainID
    condemned,  \* those that passed it and will ask the browser to close
    adopts,     \* goroutines that will load an extra page's URL in the main page
    deny,       \* browserSession.denyCh (capacity 1) holds a token
    loop,       \* "select", "enforce" (working through a list) or "ended"
    doomed,     \* pages the current enforcement still has to close
    goto,       \* where it will send the main page: "none", "adopt", "home"
    moves,      \* bound counter
    fails,      \* bound counter
    \* history variables
    startedOn,  \* the page resolveInitialMainID chose
    selfClosed  \* the kiosk asked the browser to close the attached page

vars == <<url, mainID, events, closers, condemned, adopts, deny, loop, doomed, goto,
          moves, fails, startedOn, selfClosed>>

Shown   == {"blank", "ok", "bad"}    \* "bad" is a URL pageURLAllowed refuses
Open(t) == url[t] \in Shown
Pages   == {t \in Tabs : Open(t)}
Events  == [kind : {"created", "changed", "destroyed"}, tab : Tabs, shows : Shown \cup {Nothing}]

TypeOK ==
    /\ url \in [Tabs -> Shown \cup {"new", "closed"}]
    /\ mainID \in Tabs \cup {Nothing}
    /\ events \in Seq(Events)
    /\ closers \in SUBSET Tabs /\ condemned \in SUBSET Tabs
    /\ adopts \in SUBSET Tabs /\ doomed \in SUBSET Tabs
    /\ deny \in BOOLEAN
    /\ loop \in {"select", "enforce", "ended"}
    /\ goto \in {"none", "adopt", "home"}
    /\ moves \in 0..MaxMoves /\ fails \in 0..MaxFails
    /\ startedOn \in Tabs /\ selfClosed \in BOOLEAN

\* runBrowser has loaded the home page in the attached tab; another page may be
\* open already, and resolveInitialMainID takes the first page the browser lists.
\* (A blank one, as Chromium opens; what another showed no event would report.)
Init ==
    /\ url \in {[t \in Tabs |-> IF t = Attached THEN "ok" ELSE IF t \in early THEN "blank" ELSE "new"]
                : early \in {{}} \cup {{t} : t \in Tabs \ {Attached}}}
    /\ mainID \in Pages
    /\ startedOn = mainID
    /\ events = <<>>
    /\ closers = {} /\ condemned = {} /\ adopts = {} /\ doomed = {}
    /\ deny = FALSE /\ loop = "select" /\ goto = "none"
    /\ moves = 0 /\ fails = 0 /\ selfClosed = FALSE

Report(kind, t, shows) == Append(events, [kind |-> kind, tab |-> t, shows |-> shows])

-----------------------------------------------------------------------------
(* The user, the pages and the browser. *)

Move == loop # "ended" /\ moves < MaxMoves /\ moves' = moves + 1

OpenTab(t, u) ==
    /\ Move
    /\ url[t] = "new"
    /\ url' = [url EXCEPT ![t] = u]
    /\ events' = Report("created", t, u)
    /\ UNCHANGED <<mainID, closers, condemned, adopts, deny, loop, doomed, goto, fails,
                   startedOn, selfClosed>>

NavigateTab(t, u) ==
    /\ Move
    /\ Open(t)
    /\ url' = [url EXCEPT ![t] = u]
    /\ events' = Report("changed", t, u)
    /\ UNCHANGED <<mainID, closers, condemned, adopts, deny, loop, doomed, goto, fails,
                   startedOn, selfClosed>>

CloseTab(t) ==
    /\ Move
    /\ Open(t)
    /\ url' = [url EXCEPT ![t] = "closed"]
    /\ events' = Report("destroyed", t, Nothing)
    /\ UNCHANGED <<mainID, closers, condemned, adopts, deny, loop, doomed, goto, fails,
                   startedOn, selfClosed>>

-----------------------------------------------------------------------------
(* The event callback. *)

\* handleExtraPage and recordAndMaybeAdopt.
HandleExtraPage(t, u, closeNow) ==
    /\ adopts' = IF u = "ok" THEN adopts \cup {t} ELSE adopts
    /\ closers' = IF u # "blank" \/ closeNow THEN closers \cup {t} ELSE closers
    /\ deny' = TRUE
    /\ UNCHANGED mainID

\* (Fault) The main page's URL is not looked at.
HandleMainPageUnchecked(u) == UNCHANGED <<deny, mainID, adopts, closers>>

\* A URL the policy refuses: blockURL.
HandleMainPage(u) ==
    /\ deny' = (deny \/ u = "bad")
    /\ UNCHANGED <<mainID, adopts, closers>>

\* onBrowserEvent.
HandleEvent ==
    /\ loop # "ended"
    /\ events # <<>>
    /\ events' = Tail(events)
    /\ LET e == Head(events) IN
       CASE e.kind = "created" /\ mainID = Nothing ->
              mainID' = e.tab /\ UNCHANGED <<adopts, closers, deny>>
         [] e.kind = "created" /\ mainID \notin {Nothing, e.tab} ->
              HandleExtraPage(e.tab, e.shows, FALSE)
         [] e.kind = "changed" /\ mainID \notin {Nothing, e.tab} ->
              HandleExtraPage(e.tab, e.shows, TRUE)
         [] e.kind = "changed" /\ mainID \in {Nothing, e.tab} ->
              HandleMainPage(e.shows)
         [] e.kind = "destroyed" /\ e.tab = mainID ->
              mainID' = Nothing /\ deny' = TRUE /\ UNCHANGED <<adopts, closers>>
         [] OTHER -> UNCHANGED <<mainID, adopts, closers, deny>>
    /\ UNCHANGED <<url, condemned, loop, doomed, goto, moves, fails, startedOn, selfClosed>>

\* closeExtraTarget: never the main page, as far as mainID tells.
TestMain(t) ==
    /\ loop # "ended"
    /\ t \in closers
    /\ closers' = closers \ {t}
    /\ condemned' = IF t = mainID THEN condemned ELSE condemned \cup {t}
    /\ UNCHANGED <<url, mainID, events, adopts, deny, loop, doomed, goto, moves, fails,
                   startedOn, selfClosed>>

\* target.CloseTarget(t): the page goes, unless it has gone already.
Close(t) ==
    /\ url' = [url EXCEPT ![t] = IF Open(t) THEN "closed" ELSE @]
    /\ events' = IF Open(t) THEN Report("destroyed", t, Nothing) ELSE events
    /\ selfClosed' = (selfClosed \/ (t = Attached /\ Open(t)))

CloseExtra(t) ==
    /\ loop # "ended"
    /\ t \in condemned
    /\ condemned' = condemned \ {t}
    /\ Close(t)
    /\ UNCHANGED <<mainID, closers, adopts, deny, loop, doomed, goto, moves, fails, startedOn>>

\* chromedp.Navigate on the attached page.
NavigateMain ==
    /\ url' = [url EXCEPT ![Attached] = IF Open(Attached) THEN "ok" ELSE @]
    /\ events' = IF Open(Attached) THEN Report("changed", Attached, "ok") ELSE events

Adopt(t) ==
    /\ loop # "ended"
    /\ t \in adopts
    /\ adopts' = adopts \ {t}
    /\ NavigateMain
    /\ UNCHANGED <<mainID, closers, condemned, deny, loop, doomed, goto, moves, fails,
                   startedOn, selfClosed>>

-----------------------------------------------------------------------------
(* The select loop: enforceSingleTab. *)

Fail == fails < MaxFails /\ fails' = fails + 1

\* The list could not be had; the loop goes on.
PollFails ==
    /\ loop = "select"
    /\ Fail
    /\ deny' = FALSE
    /\ UNCHANGED <<url, mainID, events, closers, condemned, adopts, loop, doomed, goto, moves,
                   startedOn, selfClosed>>

\* (Fault) The session is given up only when no page is left.
LostWhenEmpty == Pages = {}

\* len(pages) == 0, or resolveMainID does not find the attached page.
Lost == Attached \notin Pages

\* (Fault) The main page is not skipped.
DoomedWithMain == {t \in Pages : url[t] # "blank"}
\* The pages the loop closes: the others, unless they are blank.
Doomed == {t \in Pages \ {Attached} : url[t] # "blank"}

\* (Fault) A refused main page is left where it is.
DestinationKeep == IF \E t \in Pages \ {Attached} : url[t] = "ok" THEN "adopt" ELSE "none"

\* Where the main page goes: to the first allowed page found, or home.
Destination ==
    IF \E t \in Pages \ {Attached} : url[t] = "ok" THEN "adopt"
    ELSE IF url[Attached] = "bad" THEN "home" ELSE "none"

\* The list of pages, resolveMainID and what is to be done about the pages.
Poll ==
    /\ loop = "select"
    /\ deny' = FALSE
    /\ IF Lost
       THEN /\ loop' = "ended"
            /\ UNCHANGED <<mainID, doomed, goto>>
       ELSE /\ loop' = "enforce"
            /\ mainID' = Attached
            /\ doomed' = Doomed
            /\ goto' = Destination
    /\ UNCHANGED <<url, events, closers, condemned, adopts, moves, fails, startedOn, selfClosed>>

CloseDoomed(t) ==
    /\ loop = "enforce"
    /\ t \in doomed
    /\ doomed' = doomed \ {t}
    /\ Close(t)
    /\ UNCHANGED <<mainID, closers, condemned, adopts, deny, loop, goto, moves, fails, startedOn>>

\* One of the two ways to close a page fails or takes too long.
CloseFails(t) ==
    /\ loop # "ended"
    /\ Fail
    /\ \/ t \in doomed /\ doomed' = doomed \ {t} /\ UNCHANGED condemned
       \/ t \in condemned /\ condemned' = condemned \ {t} /\ UNCHANGED doomed
    /\ UNCHANGED <<url, mainID, events, closers, adopts, deny, loop, goto, moves, startedOn,
                   selfClosed>>

\* The adopted page, or home when the main page shows something refused.
EndEnforce ==
    /\ loop = "enforce"
    /\ doomed = {}
    /\ loop' = "select" /\ goto' = "none"
    /\ IF goto = "none" THEN UNCHANGED <<url, events>> ELSE NavigateMain
    /\ UNCHANGED <<mainID, closers, condemned, adopts, deny, doomed, moves, fails, startedOn,
                   selfClosed>>

\* A page cannot be loaded in the main page, by an event's goroutine or the loop.
NavigateFails ==
    /\ loop # "ended"
    /\ Fail
    /\ \/ /\ \E t \in adopts : adopts' = adopts \ {t}
          /\ UNCHANGED <<loop, goto>>
       \/ /\ loop = "enforce" /\ doomed = {} /\ goto # "none"
          /\ loop' = "select" /\ goto' = "none"
          /\ UNCHANGED adopts
    /\ UNCHANGED <<url, mainID, events, closers, condemned, deny, doomed, moves, startedOn,
                   selfClosed>>

-----------------------------------------------------------------------------

Environment ==
    \/ \E t \in Tabs, u \in Shown : OpenTab(t, u) \/ NavigateTab(t, u)
    \/ \E t \in Tabs : CloseTab(t)

Callback == HandleEvent \/ (\E t \in Tabs : TestMain(t) \/ CloseExtra(t) \/ Adopt(t))

Enforce == (\E t \in Tabs : CloseDoomed(t)) \/ EndEnforce

Next ==
    \/ Environment \/ Callback \/ Poll \/ Enforce
    \/ PollFails \/ NavigateFails \/ \E t \in Tabs : CloseFails(t)

\* The ticker fires, and the loop comes back from what it does: the browser closes
\* pages within two seconds or not at all, and the main page it is made to load
\* comes or fails in the end (chromedp.Navigate has no time limit: while a page
\* neither loads nor fails, nobody polls).  Of the events and their goroutines
\* nothing is asked: the poll alone must do.
Fairness == SF_vars(Poll) /\ WF_vars(Enforce)

Spec     == Init /\ [][Next]_vars
FairSpec == Spec /\ Fairness

-----------------------------------------------------------------------------
(* Properties. *)

\* The kiosk never closes its own page (which would restart the browser) when
\* the session started with the right mainID: a page event about the attached
\* page, a popup in the middle of an enforcement or a page that replaces a lost
\* one never make closeExtraTarget or enforceSingleTab take it for an extra.
NeverClosesItself == startedOn = Attached => ~selfClosed

\* The events alone keep the kiosk to one page: when nothing is under way and no
\* request failed, the attached page is open and shows something allowed, and
\* every other page is blank, even if the poll never runs but for denyCh.
EventsSuffice ==
    ( /\ startedOn = Attached /\ fails = 0
      /\ events = <<>> /\ closers = {} /\ condemned = {} /\ adopts = {}
      /\ loop = "select" /\ ~deny )
        => /\ url[Attached] \in {"ok", "blank"}
           /\ \A t \in Pages \ {Attached} : url[t] = "blank"

\* A session whose page has gone is given up, so that the browser is started again:
\* whatever mainID says meanwhile, whatever pages are left or still being adopted or
\* closed, and though a list of pages could not be had.
\* Code: resolveMainID and lostTab, which the ticker and denyCh ask again and again.
LostIsGivenUp == url[Attached] = "closed" ~> loop = "ended"

\* A page the policy refuses does not stay in the main tab.
RefusedPageLeaves == url[Attached] = "bad" ~> (url[Attached] # "bad" \/ loop = "ended")
=============================================================================
