------------------------------- MODULE LiveView -------------------------------
(***************************************************************************)
(* The picture of the kiosk in the remote view: ManageBrowser and          *)
(* runBrowser (kiosk/browser.go, browser_wait.go), the cases of the session*)
(* loop that deal with the picture (browser_session.go), and the screencast*)
(* itself (browser_cast.go), composed with what the display signals        *)
(* (DisplaySignal).                                                        *)
(*                                                                         *)
(* A picture reaches the viewers in two ways.  While somebody watches and  *)
(* the display is awake, the session asks the browser to cast, and the     *)
(* browser sends a frame whenever the page changes; when no frame has come *)
(* for 800 ms, the loop takes a screenshot itself.  The session remembers  *)
(* in a flag that it asked.  It cannot see whether the browser still casts,*)
(* it ignores the errors of the requests that stop it, and only the        *)
(* screenshot has a time limit.                                            *)
(* A broadcast is one step here (FrameHub shows what its steps add up to). *)
(***************************************************************************)
EXTENDS Integers, DisplaySignal

CONSTANTS
    Viewers,    \* connections to the remote stream
    MaxDeaths   \* bound: deaths of the browser, lost tabs and failed launches

ASSUME MaxDeathsAssumption == MaxDeaths \in Nat

VARIABLES
    stage,    \* where ManageBrowser is
    loop,     \* what the session loop does next
    alive,    \* the browser behind the session
    hung,     \* it runs and answers no request any more
    casting,  \* screencast.casting, what the session believes
    real,     \* the browser casts
    fresh,    \* lastFrame is less than 800 ms old
    view,     \* view[v]: not connected, waiting for a picture, or shown one
    deaths,   \* bound counter
    \* history variable
    unsure    \* the browser refused, or did not confirm, the last start or stop

castVars == <<casting, real, fresh, unsure>>
liveVars == <<stage, loop, alive, hung, view, deaths, castVars>>
allVars  == <<signalVars, liveVars>>

Stages == {"display", "url", "launch", "open", "session", "pause", "done"}
Loops  == {"select", "guards", "stop", "start", "fallback", "shot"}

LiveTypeOK ==
    /\ SignalTypeOK
    /\ stage \in Stages /\ loop \in Loops
    /\ alive \in BOOLEAN /\ hung \in BOOLEAN /\ casting \in BOOLEAN /\ real \in BOOLEAN
    /\ fresh \in BOOLEAN /\ unsure \in BOOLEAN
    /\ view \in [Viewers -> {"off", "due", "seen"}]
    /\ deaths \in 0..MaxDeaths

LiveInit ==
    /\ SignalInit
    /\ stage = "display" /\ loop = "select" /\ alive = FALSE /\ hung = FALSE
    /\ casting = FALSE /\ real = FALSE /\ fresh = FALSE /\ unsure = FALSE
    /\ view = [v \in Viewers |-> "off"]
    /\ deaths = 0

Watched == \E v \in Viewers : view[v] # "off"

\* sync's want; fallback and the frame callback test the same.
Wanted == ~asleep /\ Watched

InSession == stage \in {"open", "session"}
Select    == stage = "session" /\ loop = "select"

Disturb == deaths < MaxDeaths /\ deaths' = deaths + 1

-----------------------------------------------------------------------------
(* ManageBrowser and runBrowser. *)

\* waitForDisplay: the wake commands have succeeded, or there are none.
DisplayReady ==
    /\ stage = "display" /\ stage' = "url"
    /\ UNCHANGED <<signalVars, loop, alive, hung, view, deaths, castVars>>

\* waitForURL: the display server has answered.
UrlReady ==
    /\ stage = "url" /\ stage' = "launch"
    /\ UNCHANGED <<signalVars, loop, alive, hung, view, deaths, castVars>>

\* runBrowser up to session.listen: a new browser, a new session.
Launch ==
    /\ stage = "launch" /\ stage' = "open"
    /\ alive' = TRUE
    /\ hung' = FALSE
    /\ casting' = FALSE /\ real' = FALSE /\ fresh' = FALSE /\ unsure' = FALSE
    /\ loop' = IF Wanted THEN "start" ELSE "select"
    /\ UNCHANGED <<signalVars, view, deaths>>

\* The program file, the profile, the start of the browser or its first page fails.
LaunchFails ==
    /\ stage = "launch" /\ stage' = "pause"
    /\ Disturb
    /\ UNCHANGED <<signalVars, loop, alive, hung, view, castVars>>

\* Its requests come back with an error, those under way as well.
BrowserDies ==
    /\ alive
    /\ Disturb
    /\ alive' = FALSE /\ hung' = FALSE /\ real' = FALSE
    /\ UNCHANGED <<signalVars, stage, loop, view, casting, fresh, unsure>>

BrowserHangs ==
    /\ alive /\ ~hung
    /\ Disturb
    /\ hung' = TRUE
    /\ UNCHANGED <<signalVars, stage, loop, alive, view, castVars>>

\* The select finds the browser gone.
SessionEnd ==
    /\ Select /\ ~alive
    /\ stage' = "pause"
    /\ UNCHANGED <<signalVars, loop, alive, hung, view, deaths, castVars>>

\* The tab is lost (SingleTab says when), and the session ends its browser.
TabLost ==
    /\ Select /\ alive
    /\ Disturb
    /\ stage' = "pause"
    /\ alive' = FALSE /\ hung' = FALSE /\ real' = FALSE
    /\ UNCHANGED <<signalVars, loop, view, casting, fresh, unsure>>

\* The restart delay is over.
Again ==
    /\ stage = "pause" /\ stage' = "display"
    /\ UNCHANGED <<signalVars, loop, alive, hung, view, deaths, castVars>>

\* The root context is cancelled: every wait and every request returns.
Shutdown ==
    /\ stage # "done" /\ stage' = "done"
    /\ alive' = FALSE /\ hung' = FALSE /\ real' = FALSE /\ loop' = "select"
    /\ UNCHANGED <<signalVars, view, deaths, casting, fresh, unsure>>

-----------------------------------------------------------------------------
(* screencast.sync and fallback, step by step. *)

\* What follows sync: fallback, except after the first one of a session.
AfterSync ==
    IF stage = "open"
    THEN stage' = "session" /\ loop' = "select"
    ELSE UNCHANGED stage /\ loop' = "fallback"

\* (Fault) sync returns when there is nothing to cast.
SyncKeeps(force) ==
    loop' = IF Wanted /\ (force \/ ~casting) THEN "start" ELSE "fallback"

\* The tests of sync.
SyncStep(force) ==
    loop' = IF ~Wanted THEN (IF casting THEN "stop" ELSE "fallback")
            ELSE IF force \/ ~casting THEN "start" ELSE "fallback"

\* The first sync of a session that has nothing to do.
Opened ==
    /\ stage = "open" /\ loop = "select"
    /\ stage' = "session"
    /\ UNCHANGED <<signalVars, loop, alive, hung, view, deaths, castVars>>

\* <-ticker.C
Tick ==
    /\ Select
    /\ SyncStep(FALSE)
    /\ UNCHANGED <<signalVars, stage, alive, hung, view, deaths, castVars>>

\* <-WakeCh
WakeCase ==
    /\ Select
    /\ Takes
    /\ SyncStep(TRUE)
    /\ UNCHANGED <<stage, alive, hung, view, deaths, castVars>>

\* <-reapplyCh: a page was loaded, which may be so at any time.
ReapplyCase ==
    /\ Select
    /\ loop' = "guards"
    /\ UNCHANGED <<signalVars, stage, alive, hung, view, deaths, castVars>>

\* lockViewport and applyGuards have returned.
Guarded ==
    /\ loop = "guards" /\ ~hung
    /\ SyncStep(TRUE)
    /\ UNCHANGED <<signalVars, stage, alive, hung, view, deaths, castVars>>

\* stop: its error is ignored.
StopCast ==
    /\ loop = "stop" /\ ~hung
    /\ casting' = FALSE
    /\ \/ real' = FALSE /\ unsure' = FALSE
       \/ UNCHANGED real /\ unsure' = TRUE
    /\ AfterSync
    /\ UNCHANGED <<signalVars, alive, hung, view, deaths, fresh>>

\* start: the browser casts, or reports an error, whether it casts or not.
StartCast ==
    /\ loop = "start" /\ ~hung
    /\ \/ alive /\ casting' = TRUE /\ real' = TRUE /\ unsure' = FALSE
       \/ casting' = FALSE /\ real' \in {FALSE, alive} /\ unsure' = TRUE
    /\ AfterSync
    /\ UNCHANGED <<signalVars, alive, hung, view, deaths, fresh>>

\* (Fault) The flag is trusted, however long no frame has come.
FallbackTrusts ==
    /\ loop = "fallback"
    /\ loop' = IF ~Wanted \/ casting THEN "select" ELSE "shot"
    /\ UNCHANGED <<signalVars, stage, alive, hung, view, deaths, castVars>>

\* fallback up to the screenshot.
Fallback ==
    /\ loop = "fallback"
    /\ loop' = IF ~Wanted \/ (casting /\ fresh) THEN "select" ELSE "shot"
    /\ UNCHANGED <<signalVars, stage, alive, hung, view, deaths, castVars>>

\* noteFrame, and Broadcast to every viewer.
ShowFrame ==
    /\ fresh' = TRUE
    /\ view' = [v \in Viewers |-> IF view[v] = "due" THEN "seen" ELSE view[v]]

Screenshot ==
    /\ loop = "shot" /\ alive /\ ~hung
    /\ ShowFrame
    /\ loop' = "select"
    /\ UNCHANGED <<signalVars, stage, alive, hung, deaths, casting, real, unsure>>

\* An error, an empty picture, or two seconds without an answer.
ScreenshotFails ==
    /\ loop = "shot"
    /\ loop' = "select"
    /\ UNCHANGED <<signalVars, stage, alive, hung, view, deaths, castVars>>

-----------------------------------------------------------------------------
(* The browser, the viewers and the time. *)

\* onTargetEvent with a frame of the screencast.
FrameEvent ==
    /\ InSession /\ real
    /\ Wanted
    /\ ShowFrame
    /\ UNCHANGED <<signalVars, stage, loop, alive, hung, deaths, casting, real, unsure>>

\* The browser stops casting on its own account.
CastStalls ==
    /\ real /\ real' = FALSE
    /\ UNCHANGED <<signalVars, stage, loop, alive, hung, view, deaths, casting, fresh, unsure>>

\* 800 ms without a frame.
Age ==
    /\ fresh /\ fresh' = FALSE
    /\ UNCHANGED <<signalVars, stage, loop, alive, hung, view, deaths, casting, real, unsure>>

Connect(v) ==
    /\ view[v] = "off"
    /\ view' = [view EXCEPT ![v] = "due"]
    /\ UNCHANGED <<signalVars, stage, loop, alive, hung, deaths, castVars>>

Leave(v) ==
    /\ view[v] # "off"
    /\ view' = [view EXCEPT ![v] = "off"]
    /\ UNCHANGED <<signalVars, stage, loop, alive, hung, deaths, castVars>>

\* A wake: what the viewers see is the picture from before the sleep.
WakeStep(w) ==
    /\ Woke(w)
    /\ view' = [v \in Viewers |-> IF view[v] = "seen" THEN "due" ELSE view[v]]
    /\ UNCHANGED <<stage, loop, alive, hung, deaths, castVars>>

DisplayStep ==
    /\ Slept \/ \E w \in Wakers : Sends(w)
    /\ UNCHANGED liveVars

Manage == DisplayReady \/ UrlReady \/ Again \/ Opened
Cast   == Guarded \/ StopCast \/ StartCast \/ Fallback \/ Screenshot \/ ScreenshotFails

LiveNext ==
    \/ Manage \/ Launch \/ LaunchFails \/ Shutdown
    \/ BrowserDies \/ BrowserHangs \/ SessionEnd \/ TabLost
    \/ Tick \/ WakeCase \/ ReapplyCase
    \/ Cast
    \/ FrameEvent \/ CastStalls \/ Age
    \/ \E v \in Viewers : Connect(v) \/ Leave(v)
    \/ \E w \in Wakers : WakeStep(w)
    \/ DisplayStep

\* The goroutine of ManageBrowser, which is also the session loop, runs on
\* unless the browser leaves it waiting; a waker sends its token; time passes.
\* Go's select picks among the ready cases at random, so a case that is ready
\* again and again is picked; a browser that is started again and again starts
\* once, and a screenshot that is tried again and again succeeds once.
LiveFairness ==
    /\ \A w \in Wakers : WF_allVars(Sends(w) /\ UNCHANGED liveVars)
    /\ WF_allVars(Manage \/ Launch \/ Cast) /\ WF_allVars(Age)
    /\ SF_allVars(Launch) /\ SF_allVars(Screenshot)
    /\ SF_allVars(Tick) /\ SF_allVars(WakeCase) /\ SF_allVars(SessionEnd)

LiveSpec == LiveInit /\ [][LiveNext]_allVars
LiveFairSpec == LiveSpec /\ LiveFairness

-----------------------------------------------------------------------------
(* Properties. *)

\* Whoever watches is sent a picture after connecting, and after each wake, while
\* the display is awake and the program runs: after a start that failed, a
\* cast that ended in the browser, a page that does not change, a frame that
\* came before the viewer, a browser that died.  It takes a browser that runs
\* and does not answer: nobody replaces it.
\* Code: fallback repairs what casting gets wrong.
ViewersServed ==
    \A v \in Viewers :
        (view[v] = "due" /\ ~asleep) ~> (view[v] # "due" \/ asleep \/ hung \/ stage = "done")

\* A cast that nobody wants ends, whatever was going on when the last viewer
\* left or the display went to sleep, unless the browser refused a request
\* of the session, which ignores that, or does not answer.
\* Code: sync in browser_cast.go, at every tick.
CastEnds == (real /\ ~Wanted) ~> (~real \/ Wanted \/ unsure \/ hung)

\* The browser does not cast behind the session's back: what casts is known
\* as casting, so that it will be stopped, unless the last request failed.
BeliefHolds == real => casting \/ unsure

\* Every wake of the display is noticed by a session, the one that runs or,
\* when the browser is down, the next.  Code: the token in WakeCh.
WakeNoticed == unseen ~> (~unseen \/ hung \/ stage = "done")
=============================================================================
