--------------------------- MODULE LiveViewProofs ---------------------------
(***************************************************************************)
(* Proofs about LiveView, for every set of viewers and wakers and any      *)
(* number of deaths of the browser.  BeliefHolds is inductive as it stands:*)
(* every step that lets the browser cast, or leaves it casting, either     *)
(* sets the session's flag or marks the answer as uncertain.               *)
(***************************************************************************)
EXTENDS LiveView, TLAPS

\* What the display signals keeps its types.
LEMMA SignalTypes ==
    SignalTypeOK /\ [SignalNext]_signalVars => SignalTypeOK'
<1> SUFFICES ASSUME SignalTypeOK, [SignalNext]_signalVars PROVE SignalTypeOK'
  OBVIOUS
<1> USE DEF SignalTypeOK
<1>1. CASE Slept \/ Takes
  BY <1>1 DEF Slept, Takes
<1>2. ASSUME NEW w \in Wakers, Woke(w) \/ Sends(w) PROVE SignalTypeOK'
  BY <1>2 DEF Woke, Sends
<1>3. CASE UNCHANGED signalVars
  BY <1>3 DEF signalVars
<1> QED
  BY <1>1, <1>2, <1>3 DEF SignalNext

\* The program starts well typed.
LEMMA LiveInitTypeOK == LiveInit => LiveTypeOK
<1> SUFFICES ASSUME LiveInit PROVE LiveTypeOK
  OBVIOUS
<1>1. SignalTypeOK
  BY DEF LiveInit, SignalInit, SignalTypeOK
<1>2. alive \in BOOLEAN /\ hung \in BOOLEAN /\ casting \in BOOLEAN /\ real \in BOOLEAN
      /\ fresh \in BOOLEAN /\ unsure \in BOOLEAN
  BY Zenon DEF LiveInit
<1>3. stage \in Stages /\ loop \in Loops /\ view \in [Viewers -> {"off", "due", "seen"}]
  BY DEF LiveInit, Stages, Loops
<1>4. deaths \in 0..MaxDeaths
  BY MaxDeathsAssumption DEF LiveInit
<1> QED
  BY <1>1, <1>2, <1>3, <1>4 DEF LiveTypeOK

\* No step breaks a type.
LEMMA LiveNextTypeOK == LiveTypeOK /\ [LiveNext]_allVars => LiveTypeOK'
<1> SUFFICES ASSUME LiveTypeOK, [LiveNext]_allVars PROVE LiveTypeOK'
  OBVIOUS
<1> USE DEF LiveTypeOK, Stages, Loops, castVars
<1>1. ASSUME UNCHANGED signalVars PROVE SignalTypeOK'
  BY <1>1 DEF SignalTypeOK, signalVars
<1>2. CASE Manage
  BY <1>1, <1>2 DEF Manage, DisplayReady, UrlReady, Again, Opened
<1>3. CASE Launch
  BY <1>1, <1>3 DEF Launch
<1>4. CASE Shutdown \/ SessionEnd
  BY <1>1, <1>4 DEF Shutdown, SessionEnd
<1>5. CASE LaunchFails \/ BrowserDies \/ BrowserHangs \/ TabLost
  <2>1. deaths' \in 0..MaxDeaths
    BY <1>5, MaxDeathsAssumption
       DEF LaunchFails, BrowserDies, BrowserHangs, TabLost, Disturb
  <2>2. CASE LaunchFails
    BY <1>1, <2>1, <2>2 DEF LaunchFails
  <2>3. CASE BrowserDies
    BY <1>1, <2>1, <2>3 DEF BrowserDies
  <2>4. CASE BrowserHangs
    BY <1>1, <2>1, <2>4 DEF BrowserHangs
  <2>5. CASE TabLost
    BY <1>1, <2>1, <2>5 DEF TabLost
  <2> QED
    BY <1>5, <2>2, <2>3, <2>4, <2>5
<1>6. CASE Tick \/ ReapplyCase
  BY <1>1, <1>6 DEF Tick, ReapplyCase, SyncStep
<1>7. CASE WakeCase
  <2>1. SignalTypeOK'
    BY <1>7, SignalTypes DEF WakeCase, SignalNext
  <2> QED
    BY <1>7, <2>1 DEF WakeCase, SyncStep
<1>8. CASE Cast
  <2>1. CASE Guarded \/ Fallback \/ ScreenshotFails
    BY <1>1, <2>1 DEF Guarded, Fallback, ScreenshotFails, SyncStep
  <2>2. CASE StopCast
    BY <1>1, <2>2 DEF StopCast, AfterSync
  <2>3. CASE StartCast
    BY <1>1, <2>3 DEF StartCast, AfterSync
  <2>4. CASE Screenshot
    BY <1>1, <2>4 DEF Screenshot, ShowFrame
  <2> QED
    BY <1>8, <2>1, <2>2, <2>3, <2>4 DEF Cast
<1>9. CASE FrameEvent
  BY <1>1, <1>9 DEF FrameEvent, ShowFrame
<1>10. CASE CastStalls \/ Age
  BY <1>1, <1>10, ZenonT(60) DEF CastStalls, Age
<1>11. ASSUME NEW v \in Viewers, Connect(v) \/ Leave(v) PROVE LiveTypeOK'
  BY <1>1, <1>11 DEF Connect, Leave
<1>12. ASSUME NEW w \in Wakers, WakeStep(w) PROVE LiveTypeOK'
  <2>1. SignalTypeOK'
    BY <1>12, SignalTypes DEF WakeStep, SignalNext
  <2> QED
    BY <1>12, <2>1 DEF WakeStep
<1>13. CASE DisplayStep
  <2>1. SignalTypeOK'
    BY <1>13, SignalTypes DEF DisplayStep, SignalNext
  <2> QED
    BY <1>13, <2>1 DEF DisplayStep, liveVars
<1>14. CASE UNCHANGED allVars
  BY <1>1, <1>14 DEF allVars, liveVars
<1> QED
  BY <1>2, <1>3, <1>4, <1>5, <1>6, <1>7, <1>8, <1>9, <1>10, <1>11, <1>12, <1>13, <1>14
     DEF LiveNext

\* Every variable keeps its type, whatever browser, viewers and display do.
THEOREM LiveTypeCorrect == LiveSpec => []LiveTypeOK
<1> QED
  BY LiveInitTypeOK, LiveNextTypeOK, PTL DEF LiveSpec

-----------------------------------------------------------------------------
\* What casts is known as casting, unless the browser's last answer to a start
\* or a stop left that open, across deaths, hangs and new browsers.
THEOREM BeliefHoldsAlways == LiveSpec => []BeliefHolds
<1>1. LiveInit => BeliefHolds
  BY DEF LiveInit, BeliefHolds
<1>2. BeliefHolds /\ [LiveNext]_allVars => BeliefHolds'
  <2> SUFFICES ASSUME BeliefHolds, [LiveNext]_allVars PROVE BeliefHolds'
    OBVIOUS
  <2> USE DEF BeliefHolds, castVars
  <2>1. CASE Manage
    BY <2>1 DEF Manage, DisplayReady, UrlReady, Again, Opened
  <2>2. CASE Launch \/ LaunchFails \/ Shutdown
    BY <2>2 DEF Launch, LaunchFails, Shutdown
  <2>3. CASE BrowserDies \/ BrowserHangs \/ SessionEnd \/ TabLost
    BY <2>3 DEF BrowserDies, BrowserHangs, SessionEnd, TabLost
  <2>4. CASE Tick \/ WakeCase \/ ReapplyCase
    BY <2>4 DEF Tick, WakeCase, ReapplyCase
  <2>5. CASE Cast
    <3>1. CASE Guarded \/ Fallback \/ Screenshot \/ ScreenshotFails
      BY <3>1 DEF Guarded, Fallback, Screenshot, ScreenshotFails
    <3>2. CASE StopCast
      BY <3>2 DEF StopCast
    <3>3. CASE StartCast
      BY <3>3 DEF StartCast
    <3> QED
      BY <2>5, <3>1, <3>2, <3>3 DEF Cast
  <2>6. CASE FrameEvent \/ CastStalls \/ Age
    BY <2>6 DEF FrameEvent, CastStalls, Age
  <2>7. ASSUME NEW v \in Viewers, Connect(v) \/ Leave(v) PROVE BeliefHolds'
    BY <2>7 DEF Connect, Leave
  <2>8. ASSUME NEW w \in Wakers, WakeStep(w) PROVE BeliefHolds'
    BY <2>8 DEF WakeStep
  <2>9. CASE DisplayStep
    BY <2>9 DEF DisplayStep, liveVars
  <2>10. CASE UNCHANGED allVars
    BY <2>10 DEF allVars, liveVars
  <2> QED
    BY <2>1, <2>2, <2>3, <2>4, <2>5, <2>6, <2>7, <2>8, <2>9, <2>10 DEF LiveNext
<1> QED
  BY <1>1, <1>2, PTL DEF LiveSpec

-----------------------------------------------------------------------------
\* The session composed with it leaves the display as DisplaySignal has it: it
\* takes tokens, and neither switches the flag nor sends (controller.go and
\* browser_session.go share nothing else of it).
THEOREM DisplayUnchanged == LiveSpec => SignalSpec
<1>1. LiveInit => SignalInit
  BY DEF LiveInit
<1>2. [LiveNext]_allVars => [SignalNext]_signalVars
  <2> SUFFICES ASSUME [LiveNext]_allVars PROVE [SignalNext]_signalVars
    OBVIOUS
  <2>1. CASE Manage
    BY <2>1 DEF Manage, DisplayReady, UrlReady, Again, Opened
  <2>2. CASE Launch \/ LaunchFails \/ Shutdown
    BY <2>2 DEF Launch, LaunchFails, Shutdown
  <2>3. CASE BrowserDies \/ BrowserHangs \/ SessionEnd \/ TabLost
    BY <2>3 DEF BrowserDies, BrowserHangs, SessionEnd, TabLost
  <2>4. CASE Tick \/ ReapplyCase
    BY <2>4 DEF Tick, ReapplyCase
  <2>5. CASE WakeCase
    BY <2>5 DEF WakeCase, SignalNext
  <2>6. CASE Cast
    BY <2>6 DEF Cast, Guarded, StopCast, StartCast, Fallback, Screenshot, ScreenshotFails
  <2>7. CASE FrameEvent \/ CastStalls \/ Age
    BY <2>7 DEF FrameEvent, CastStalls, Age
  <2>8. ASSUME NEW v \in Viewers, Connect(v) \/ Leave(v) PROVE UNCHANGED signalVars
    BY <2>8 DEF Connect, Leave
  <2>9. ASSUME NEW w \in Wakers, WakeStep(w) PROVE SignalNext
    BY <2>9 DEF WakeStep, SignalNext
  <2>10. CASE DisplayStep
    BY <2>10 DEF DisplayStep, SignalNext
  <2>11. CASE UNCHANGED allVars
    BY <2>11 DEF allVars
  <2> QED
    BY <2>1, <2>2, <2>3, <2>4, <2>5, <2>6, <2>7, <2>8, <2>9, <2>10, <2>11 DEF LiveNext
<1> QED
  BY <1>1, <1>2, PTL DEF LiveSpec, SignalSpec

=============================================================================
