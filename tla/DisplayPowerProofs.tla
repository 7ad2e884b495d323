------------------------- MODULE DisplayPowerProofs -------------------------
(***************************************************************************)
(* Proofs about DisplayPower, for every set of callers, every configuration*)
(* and any number of calls.                                                *)
(*                                                                         *)
(* NeverStuckDark and NeverStuckLit are not inductive: they say nothing    *)
(* about the moments when a call is between its test and its SetAsleep.    *)
(* PowerInv fills them in.  As long as no two calls overlapped there is at *)
(* most one deciding call, the flag still has the value it tested, and     *)
(* once its commands ran the screen is in the state they produce.          *)
(*                                                                         *)
(* And about RemoteStream, for any pages, any capacity of the channels and *)
(* any number of requests.  Its steps are steps of the display, and        *)
(* StreamInv says of each page where the last news of the display is: in a *)
(* goroutine, in the page's channel, on the page, or lost to one of the    *)
(* races that the properties name.                                         *)
(***************************************************************************)
EXTENDS RemoteStream, SequenceTheorems, TLAPS

AtMostOneDecides == \A c, d \in Callers : c \in Deciding /\ d \in Deciding => c = d

TestStillHolds == \A c \in Deciding : asleep # (op[c] = "sleep")

CommandsTookEffect ==
    \A c \in Callers : (pc[c] = "set" /\ Configured(op[c]) /\ powerBy = "call")
                            => power = Target(op[c])

DarkOnlyInFlight ==
    (WakeConfigured /\ powerBy \notin {"failed", "boot"} /\ ~asleep /\ power = "off")
        => \E c \in Callers : pc[c] = "set" /\ op[c] = "sleep"

LitOnlyInFlight ==
    (SleepConfigured /\ powerBy \notin {"failed", "restart"} /\ asleep /\ power = "on")
        => \E c \in Callers : pc[c] = "set" /\ op[c] = "wake"

RestartLights == powerBy = "restart" => power = "on"

RanIsNotBoot == \A c \in Callers : pc[c] = "set" /\ Configured(op[c]) => powerBy # "boot"

\* What holds as long as no two calls overlapped.
Calm ==
    /\ AtMostOneDecides
    /\ TestStillHolds
    /\ CommandsTookEffect
    /\ DarkOnlyInFlight
    /\ LitOnlyInFlight

\* The inductive invariant behind NeverStuckDark and NeverStuckLit.
PowerInv ==
    /\ TypeOK
    /\ RestartLights
    /\ RanIsNotBoot
    /\ ~overlapped => Calm

-----------------------------------------------------------------------------
\* The controller starts well typed.
LEMMA InitTypeOK == Init => TypeOK
<1> SUFFICES ASSUME Init PROVE TypeOK
  OBVIOUS
<1>1. /\ asleep \in BOOLEAN /\ wakeCh \in BOOLEAN
      /\ overlapped \in BOOLEAN /\ wakeUnseen \in BOOLEAN
      /\ was \in [Callers -> BOOLEAN]
  BY Zenon DEF Init
<1>2. /\ power \in {"on", "off"}
      /\ powerBy \in {"boot", "call", "failed", "restart"}
      /\ pc \in [Callers -> Steps] /\ op \in [Callers -> Ops]
      /\ calls \in Nat
  BY DEF Init, Ops, Steps
<1> QED
  BY <1>1, <1>2 DEF TypeOK

\* Every step of a caller and of the session keeps the types.
LEMMA NextTypeOK == TypeOK /\ [Next]_vars => TypeOK'
<1> SUFFICES ASSUME TypeOK, [Next]_vars PROVE TypeOK'
  OBVIOUS
<1> USE DEF TypeOK, Ops, Steps, historyVars
<1>1. ASSUME NEW c \in Callers, NEW o \in Ops, Begin(c, o) PROVE TypeOK'
  BY <1>1 DEF Begin, Goto
<1>2. ASSUME NEW c \in Callers, Continue(c) PROVE TypeOK'
  <2>1. CASE RunDone(c)
    BY <2>1 DEF RunDone, Goto, Target
  <2>2. CASE RunFailed(c)
    BY <2>2 DEF RunFailed, Goto, Target
  <2>3. CASE SetFlag(c)
    BY <2>3 DEF SetFlag, Goto
  <2>4. CASE Publish(c)
    BY <2>4 DEF Publish, Goto
  <2>5. CASE Signal(c)
    <3>1. wakeCh' \in BOOLEAN
      BY <2>5 DEF Signal
    <3> QED
      BY <2>5, <3>1 DEF Signal, Goto
  <2>6. CASE Record(c)
    BY <2>6 DEF Record, Goto
  <2> QED
    BY <1>2, <2>1, <2>2, <2>3, <2>4, <2>5, <2>6 DEF Continue
<1>3. CASE DrainWake
  BY <1>3 DEF DrainWake
<1>4. CASE WaitForDisplay
  BY <1>4 DEF WaitForDisplay
<1>5. CASE UNCHANGED vars
  BY <1>5 DEF vars, powerVars
<1> QED
  BY <1>1, <1>2, <1>3, <1>4, <1>5 DEF Next

\* Every variable keeps its type, whatever the callers do.
THEOREM TypeCorrect == Spec => []TypeOK
<1> QED
  BY InitTypeOK, NextTypeOK, PTL DEF Spec

-----------------------------------------------------------------------------
(* The display as the session sees it.  Display!... are DisplaySignal's     *)
(* definitions with owing and unseen read off the calls.                    *)

\* A call that neither sets the flag nor reaches the send is a stutter.
LEMMA OwingSame ==
    ASSUME NEW c \in Callers, TypeOK, NEW step \in Steps, pc' = [pc EXCEPT ![c] = step],
           op' = op \/ op' = [op EXCEPT ![c] = op'[c]],
           was' = was,
           pc[c] \in {"publish", "signal"} <=> step \in {"publish", "signal"},
           pc[c] \in {"publish", "signal"} => op' = op
    PROVE  Owing' = Owing
<1>1. ASSUME NEW d \in Callers
      PROVE  /\ pc'[d] \in {"publish", "signal"} <=> pc[d] \in {"publish", "signal"}
             /\ pc[d] \in {"publish", "signal"} => op'[d] = op[d]
  BY DEF TypeOK
<1> QED
  BY <1>1 DEF Owing

\* SetAsleep is DisplaySignal's Slept or Woke, or changes nothing there.
LEMMA SetFlagImplements ==
    ASSUME TypeOK, NEW c \in Callers, SetFlag(c)
    PROVE  [Display!SignalNext]_(Display!signalVars)
<1> USE DEF TypeOK, Ops, Steps, SetFlag, Goto
<1>1. c \notin Owing
  BY DEF Owing
<1>2. ASSUME NEW d \in Callers
      PROVE  d \in Owing' <=> d \in Owing \/ (d = c /\ op[c] = "wake" /\ asleep)
  BY DEF Owing
<1>3. CASE op[c] = "sleep"
  <2>1. Owing' = Owing
    BY <1>2, <1>3 DEF Owing
  <2>2. asleep' = TRUE /\ wakeUnseen' = wakeUnseen /\ wakeCh' = wakeCh
    <3>1. op[c] # "wake"
      BY <1>3
    <3>2. (op[c] = "sleep") = TRUE /\ (op[c] = "wake") = FALSE
      BY <1>3, <3>1
    <3> QED
      BY <3>1, <3>2, Zenon
  <2> QED
    BY <2>1, <2>2 DEF Display!SignalNext, Display!Slept
<1>4. CASE op[c] = "wake" /\ asleep
  <2>1. Owing' = Owing \cup {c}
    BY <1>2, <1>4 DEF Owing
  <2>2. asleep' = FALSE /\ wakeUnseen' = TRUE /\ wakeCh' = wakeCh
    BY <1>4
  <2> QED
    BY <1>1, <1>4, <2>1, <2>2 DEF Display!SignalNext, Display!Woke
<1>5. CASE op[c] = "wake" /\ ~asleep
  <2>1. Owing' = Owing
    BY <1>2, <1>5 DEF Owing
  <2>2. asleep' = asleep /\ wakeUnseen' = wakeUnseen /\ wakeCh' = wakeCh
    BY <1>5
  <2> QED
    BY <2>1, <2>2 DEF Display!signalVars
<1> QED
  BY <1>3, <1>4, <1>5

\* The send after it is DisplaySignal's Sends for a caller that owes a token.
LEMMA SignalImplements ==
    ASSUME TypeOK, NEW c \in Callers, Signal(c)
    PROVE  [Display!SignalNext]_(Display!signalVars)
<1> USE DEF TypeOK, Ops, Steps, Signal, Goto, historyVars
<1>1. Owing' = Owing \ {c}
  BY DEF Owing
<1>2. c \in Owing <=> was[c] /\ op[c] = "wake"
  BY DEF Owing
<1>3. CASE c \in Owing
  <2>1. wakeCh' = TRUE /\ asleep' = asleep /\ wakeUnseen' = wakeUnseen
    BY <1>2, <1>3
  <2> QED
    BY <1>1, <1>3, <2>1 DEF Display!SignalNext, Display!Sends
<1>4. CASE c \notin Owing
  <2>1. wakeCh' = wakeCh /\ asleep' = asleep /\ wakeUnseen' = wakeUnseen
    BY <1>2, <1>4
  <2> QED
    BY <1>1, <1>4, <2>1 DEF Display!signalVars, Owing
<1> QED
  BY <1>3, <1>4

\* Every step of the controller is a step of DisplaySignal or none there.
LEMMA NextImplements == TypeOK /\ [Next]_vars => [Display!SignalNext]_(Display!signalVars)
<1> SUFFICES ASSUME TypeOK, [Next]_vars PROVE [Display!SignalNext]_(Display!signalVars)
  OBVIOUS
<1> USE DEF Goto, historyVars
<1>1. ASSUME NEW c \in Callers, NEW o \in Ops, Begin(c, o)
      PROVE  UNCHANGED Display!signalVars
  <2>1. Owing' = Owing
    BY <1>1, OwingSame DEF Begin, Steps, TypeOK
  <2> QED
    BY <1>1, <2>1 DEF Begin, Display!signalVars
<1>2. ASSUME NEW c \in Callers, Continue(c)
      PROVE  [Display!SignalNext]_(Display!signalVars)
  <2>1. CASE RunDone(c)
    <3>1. Owing' = Owing
      BY <2>1, OwingSame DEF RunDone, Steps
    <3> QED
      BY <2>1, <3>1 DEF RunDone, Display!signalVars
  <2>2. CASE RunFailed(c)
    <3>1. Owing' = Owing
      BY <2>2, OwingSame DEF RunFailed, Steps
    <3> QED
      BY <2>2, <3>1 DEF RunFailed, Display!signalVars
  <2>3. CASE SetFlag(c)
    BY <2>3, SetFlagImplements
  <2>4. CASE Publish(c)
    <3>1. Owing' = Owing
      BY <2>4, OwingSame DEF Publish, Steps
    <3> QED
      BY <2>4, <3>1 DEF Publish, Display!signalVars
  <2>5. CASE Signal(c)
    BY <2>5, SignalImplements
  <2>6. CASE Record(c)
    <3>1. Owing' = Owing
      BY <2>6, OwingSame DEF Record, Steps
    <3> QED
      BY <2>6, <3>1 DEF Record, Display!signalVars
  <2> QED
    BY <1>2, <2>1, <2>2, <2>3, <2>4, <2>5, <2>6 DEF Continue
<1>3. CASE DrainWake
  <2>1. Owing' = Owing
    BY <1>3 DEF DrainWake, Owing
  <2> QED
    BY <1>3, <2>1 DEF DrainWake, Display!SignalNext, Display!Takes
<1>4. CASE WaitForDisplay
  <2>1. Owing' = Owing
    BY <1>4 DEF WaitForDisplay, Owing
  <2> QED
    BY <1>4, <2>1 DEF WaitForDisplay, Display!signalVars
<1>5. CASE UNCHANGED vars
  BY <1>5 DEF vars, powerVars, Display!signalVars, Owing
<1> QED
  BY <1>1, <1>2, <1>3, <1>4, <1>5 DEF Next

\* A fresh controller owes nothing.
LEMMA InitImplements == Init => Display!SignalInit
<1> SUFFICES ASSUME Init PROVE Display!SignalInit
  OBVIOUS
<1>1. Owing = {}
  BY DEF Init, Owing
<1> QED
  BY <1>1 DEF Init, Display!SignalInit

\* However many callers overlap, and wherever they are in their calls, the
\* session sees the display that DisplaySignal describes.
THEOREM RefinesSignal == Spec => ImplementsSignal
<1> QED
  BY InitImplements, NextImplements, TypeCorrect, PTL
     DEF Spec, ImplementsSignal, Display!SignalSpec

\* A wake the session has not noticed always has a token, or a caller about to
\* put one, in WakeCh: the non-blocking send never loses the last wake-up.
THEOREM NoLostWakeHolds == Spec => []NoLostWake
<1>1. Display!SignalInit => NoLostWake
  BY DEF Display!SignalInit, NoLostWake
<1>2. NoLostWake /\ [Display!SignalNext]_(Display!signalVars) => NoLostWake'
  <2> USE DEF NoLostWake, Display!SignalNext, Display!signalVars, Display!Slept,
              Display!Woke, Display!Sends, Display!Takes
  <2> QED
    OBVIOUS
<1> QED
  BY <1>1, <1>2, RefinesSignal, PTL DEF ImplementsSignal, Display!SignalSpec

-----------------------------------------------------------------------------
\* The initial state satisfies the inductive invariant.
LEMMA PowerInvInit == Init => PowerInv
<1> SUFFICES ASSUME Init PROVE PowerInv
  OBVIOUS
<1>1. TypeOK
  BY InitTypeOK
<1>2. Deciding = {}
  BY DEF Init, Deciding
<1>3. RestartLights /\ RanIsNotBoot
  BY DEF Init, RestartLights, RanIsNotBoot
<1>4. AtMostOneDecides /\ TestStillHolds
  BY <1>2 DEF AtMostOneDecides, TestStillHolds
<1>5. CommandsTookEffect /\ DarkOnlyInFlight /\ LitOnlyInFlight
  BY DEF Init, CommandsTookEffect, DarkOnlyInFlight, LitOnlyInFlight
<1> QED
  BY <1>1, <1>3, <1>4, <1>5 DEF PowerInv, Calm

\* No step breaks it.
LEMMA PowerInvNext == PowerInv /\ [Next]_vars => PowerInv'
<1> SUFFICES ASSUME PowerInv, [Next]_vars PROVE PowerInv'
  OBVIOUS
<1>1. TypeOK /\ TypeOK'
  BY NextTypeOK DEF PowerInv
<1> USE DEF TypeOK, Ops, Steps, historyVars, Goto, Target, Configured
<1> USE DEF PowerInv, RestartLights, RanIsNotBoot, Calm, AtMostOneDecides,
            TestStillHolds, CommandsTookEffect, DarkOnlyInFlight,
            LitOnlyInFlight, Deciding
<1>2. ASSUME NEW c \in Callers, NEW o \in Ops, Begin(c, o) PROVE PowerInv'
  <2>1. RestartLights' /\ RanIsNotBoot'
    BY <1>1, <1>2 DEF Begin
  <2>2. ASSUME ~overlapped' PROVE Calm'
    <3>1. ~overlapped /\ Deciding = {}
      BY <1>1, <1>2, <2>2 DEF Begin
    <3>2. \A d \in Callers : d # c => pc'[d] \notin {"run", "set"}
      BY <1>1, <1>2, <3>1 DEF Begin
    <3>3. AtMostOneDecides' /\ TestStillHolds'
      BY <1>1, <1>2, <3>2 DEF Begin
    <3>4. CommandsTookEffect' /\ DarkOnlyInFlight' /\ LitOnlyInFlight'
      BY <1>1, <1>2, <3>1, <3>2 DEF Begin
    <3> QED
      BY <3>3, <3>4
  <2> QED
    BY <1>1, <2>1, <2>2
<1>3. ASSUME NEW c \in Callers, Continue(c) PROVE PowerInv'
  <2>1. CASE RunDone(c)
    BY <1>1, <2>1 DEF RunDone
  <2>2. CASE RunFailed(c)
    BY <1>1, <2>2 DEF RunFailed
  <2>3. CASE SetFlag(c)
    BY <1>1, <2>3, ZenonT(60) DEF SetFlag
  <2>4. CASE Publish(c)
    BY <1>1, <2>4 DEF Publish
  <2>5. CASE Signal(c)
    BY <1>1, <2>5 DEF Signal
  <2>6. CASE Record(c)
    BY <1>1, <2>6 DEF Record
  <2> QED
    BY <1>3, <2>1, <2>2, <2>3, <2>4, <2>5, <2>6 DEF Continue
<1>4. CASE DrainWake
  BY <1>1, <1>4 DEF DrainWake
<1>5. CASE WaitForDisplay
  BY <1>1, <1>5 DEF WaitForDisplay
<1>6. CASE UNCHANGED vars
  BY <1>1, <1>6 DEF vars, powerVars
<1> QED
  BY <1>2, <1>3, <1>4, <1>5, <1>6 DEF Next

\* So the inductive invariant holds throughout.
LEMMA PowerInvHolds == Spec => []PowerInv
<1> QED
  BY PowerInvInit, PowerInvNext, PTL DEF Spec

-----------------------------------------------------------------------------
\* Whatever the number of callers and calls, the screen is never left dark
\* behind a flag that says awake, outside the three named causes.
THEOREM NeverStuckDarkHolds == Spec => []NeverStuckDark
<1>1. PowerInv => NeverStuckDark
  BY DEF PowerInv, Calm, DarkOnlyInFlight, Deciding, NeverStuckDark
<1> QED
  BY <1>1, PowerInvHolds, PTL

\* And never left lit behind a flag that says asleep.
THEOREM NeverStuckLitHolds == Spec => []NeverStuckLit
<1>1. PowerInv => NeverStuckLit
  BY DEF PowerInv, Calm, LitOnlyInFlight, Deciding, NeverStuckLit
<1> QED
  BY <1>1, PowerInvHolds, PTL

-----------------------------------------------------------------------------
(* RemoteStream: the way of the status to the pages. *)

\* The stream does nothing to the display that the calls do not do.
LEMMA StreamStepIsDisplayStep == [StreamNext]_allVars => [Next]_vars
<1> SUFFICES ASSUME [StreamNext]_allVars PROVE [Next]_vars
  OBVIOUS
<1>1. ASSUME NEW c \in Callers, SetFlagStep(c) \/ PublishStep(c)
      PROVE  [Next]_vars
  BY <1>1 DEF SetFlagStep, PublishStep, Next, Continue
<1>2. CASE OtherDisplayStep
  BY <1>2 DEF OtherDisplayStep, Next, Continue
<1>3. CASE FocusStart \/ FocusPublish
  BY <1>3 DEF FocusStart, FocusPublish
<1>4. ASSUME NEW v \in Viewers,
             \/ Connect(v) \/ Subscribe(v) \/ Snapshot(v) \/ Forward(v) \/ Disconnect(v)
             \/ Post(v) \/ Tap(v)
             \/ \E i \in Fetches : \/ Answer(v, i) \/ Apply(v, i)
                                  \/ FetchFails(v, i) \/ Resync(v, i) \/ PostFails(v, i)
      PROVE  [Next]_vars
  BY <1>4 DEF Connect, Subscribe, Snapshot, Forward, Disconnect, Post, Tap,
              Answer, Apply, FetchFails, Resync, PostFails
<1>5. CASE UNCHANGED allVars
  BY <1>5 DEF allVars
<1> QED
  BY <1>1, <1>2, <1>3, <1>4, <1>5 DEF StreamNext

\* The display that the pages are told about is the one of DisplayPower.
THEOREM DisplayInStream == StreamSpec => Spec
<1>1. StreamInit => Init
  BY DEF StreamInit
<1> QED
  BY <1>1, StreamStepIsDisplayStep, PTL DEF StreamSpec, Spec

LEMMA DisplayTypes == StreamSpec => []TypeOK
  BY DisplayInStream, TypeCorrect, PTL

-----------------------------------------------------------------------------
(* The channel of a page. *)

NoNews(q)    == \A i \in 1..Len(q) : q[i] \notin News
LastIs(q, m) == \E k \in 1..Len(q) : q[k] = m /\ \A i \in k + 1..Len(q) : q[i] \notin News

Messages == News \cup {"password"}

\* Push, element by element.
LEMMA PushIs ==
    ASSUME NEW q \in Seq(Messages), Len(q) <= StatusCap, NEW m \in Messages
    PROVE  /\ Push(q, m) \in Seq(Messages) /\ Len(Push(q, m)) <= StatusCap
           /\ Push(q, m)[Len(Push(q, m))] = m
           /\ \E d \in {0, 1} : /\ Len(Push(q, m)) = Len(q) + 1 - d
                                /\ d = 0 <=> Len(q) < StatusCap
                                /\ \A i \in 1..Len(q) - d : Push(q, m)[i] = q[i + d]
<1>1. CASE Len(q) < StatusCap
  <2>1. Push(q, m) = Append(q, m)
    BY <1>1 DEF Push
  <2> QED
    BY <1>1, <2>1, StatusCapAssumption
<1>2. CASE Len(q) = StatusCap
  <2>1. Push(q, m) = Append(Tail(q), m) /\ q # <<>>
    BY <1>2, StatusCapAssumption DEF Push
  <2>2. /\ Tail(q) \in Seq(Messages) /\ Len(Tail(q)) = Len(q) - 1
        /\ \A i \in 1..Len(q) - 1 : Tail(q)[i] = q[i + 1]
    BY <2>1
  <2> QED
    BY <1>2, <2>1, <2>2, StatusCapAssumption
<1> QED
  BY <1>1, <1>2, StatusCapAssumption

LEMMA PushNews ==
    ASSUME NEW q \in Seq(Messages), Len(q) <= StatusCap, NEW m \in News
    PROVE  LastIs(Push(q, m), m) /\ ~NoNews(Push(q, m))
<1> DEFINE n == Len(Push(q, m))
<1>0. m \in Messages /\ Len(q) \in Nat
  BY DEF Messages
<1>1. Push(q, m)[n] = m
  BY <1>0, PushIs
<1>2. PICK d \in {0, 1} : n = Len(q) + 1 - d /\ (d = 0 <=> Len(q) < StatusCap)
  BY <1>0, PushIs
<1>3. n \in Nat /\ n >= 1
  BY <1>0, <1>2, StatusCapAssumption
<1> HIDE DEF n
<1>4. n \in 1..n /\ n + 1..n = {}
  BY <1>3
<1> QED
  BY <1>1, <1>4 DEF LastIs, NoNews, n

\* A message about the text field leaves the news where they are, unless it
\* drops the only one.
LEMMA PushPassword ==
    ASSUME NEW q \in Seq(Messages), Len(q) <= StatusCap
    PROVE  /\ NoNews(q) => NoNews(Push(q, "password"))
           /\ Dropped(q, "password") = {} /\ ~NoNews(q) => ~NoNews(Push(q, "password"))
           /\ \A m \in News : Dropped(q, "password") = {} /\ LastIs(q, m)
                                => LastIs(Push(q, "password"), m)
<1> DEFINE r == Push(q, "password")
<1>0. "password" \in Messages /\ "password" \notin News /\ Len(q) \in Nat
  BY DEF Messages, News
<1>1. PICK d \in {0, 1} : /\ Len(r) = Len(q) + 1 - d
                          /\ d = 0 <=> Len(q) < StatusCap
                          /\ \A i \in 1..Len(q) - d : r[i] = q[i + d]
  BY <1>0, PushIs
<1>2. r[Len(r)] = "password"
  BY <1>0, PushIs
<1>3. ASSUME Dropped(q, "password") = {}, d = 1
      PROVE  q[1] \notin News \/ \E j \in 2..Len(q) : q[j] \in News
  <2>1. Head(q) \notin News \/ ToSet(Tail(q)) \cap News # {}
    BY <1>0, <1>1, <1>3, StatusCapAssumption, SMTT(60) DEF Dropped
  <2>2. q # <<>> /\ Head(q) = q[1] /\ Tail(q) \in Seq(Messages) /\ Len(Tail(q)) = Len(q) - 1
    BY <1>0, <1>1, <1>3, StatusCapAssumption
  <2>3. ASSUME ToSet(Tail(q)) \cap News # {}
        PROVE  \E j \in 2..Len(q) : q[j] \in News
    <3>1. PICK i \in 1..Len(q) - 1 : Tail(q)[i] \in News
      BY <2>2, <2>3 DEF ToSet
    <3>2. Tail(q)[i] = q[i + 1] /\ i + 1 \in 2..Len(q)
      BY <1>0, <2>2, <3>1
    <3> QED
      BY <3>1, <3>2
  <2> QED
    BY <2>1, <2>2, <2>3
<1> HIDE DEF r
<1>4. NoNews(q) => NoNews(r)
  <2> SUFFICES ASSUME NoNews(q), NEW i \in 1..Len(r)
               PROVE  r[i] \notin News
    BY DEF NoNews
  <2>1. CASE i = Len(r)
    BY <1>0, <1>2, <2>1
  <2>2. CASE i # Len(r)
    <3>1. i \in 1..Len(q) - d /\ i + d \in 1..Len(q)
      BY <1>0, <1>1, <2>2
    <3> QED
      BY <1>1, <3>1 DEF NoNews
  <2> QED
    BY <2>1, <2>2
<1>5. ASSUME NEW m \in News, Dropped(q, "password") = {}, LastIs(q, m)
      PROVE  LastIs(r, m)
  <2>1. PICK k \in 1..Len(q) : q[k] = m /\ \A i \in k + 1..Len(q) : q[i] \notin News
    BY <1>5 DEF LastIs
  <2>2. k - d \in 1..Len(q) - d
    <3>1. CASE d = 0
      BY <3>1
    <3>2. CASE d = 1
      <4>1. k # 1
        <5> SUFFICES ASSUME k = 1 PROVE FALSE
          OBVIOUS
        <5>1. q[1] \in News /\ \A j \in 2..Len(q) : q[j] \notin News
          BY <2>1
        <5> QED
          BY <1>3, <1>5, <3>2, <5>1
      <4> QED
        BY <1>0, <3>2, <4>1
    <3> QED
      BY <3>1, <3>2
  <2>3. k - d \in 1..Len(r) /\ r[k - d] = m
    BY <1>0, <1>1, <2>1, <2>2
  <2>4. ASSUME NEW i \in (k - d) + 1..Len(r)
        PROVE  r[i] \notin News
    <3>1. CASE i = Len(r)
      BY <1>0, <1>2, <3>1
    <3>2. CASE i # Len(r)
      <4>1. i \in 1..Len(q) - d /\ i + d \in k + 1..Len(q)
        <5>1. CASE d = 0
          BY <1>0, <1>1, <2>2, <3>2, <5>1
        <5>2. CASE d = 1
          BY <1>0, <1>1, <2>2, <3>2, <5>2
        <5> QED
          BY <5>1, <5>2
      <4> QED
        BY <1>1, <2>1, <4>1
    <3> QED
      BY <3>1, <3>2
  <2> QED
    BY <2>3, <2>4 DEF LastIs
<1>6. ASSUME Dropped(q, "password") = {}, ~NoNews(q)
      PROVE  ~NoNews(r)
  <2>1. PICK k \in 1..Len(q) : q[k] \in News
    BY <1>6 DEF NoNews
  <2>2. PICK j \in d + 1..Len(q) : q[j] \in News
    BY <1>0, <1>1, <1>3, <1>6, <2>1
  <2>3. j - d \in 1..Len(q) - d /\ j - d \in 1..Len(r)
    BY <1>0, <1>1, <2>2
  <2>4. r[j - d] = q[j]
    BY <1>0, <1>1, <2>3
  <2> QED
    BY <2>2, <2>3, <2>4 DEF NoNews
<1> QED
  BY <1>4, <1>5, <1>6 DEF r

\* Taking a message leaves the later ones.
LEMMA TailNews ==
    ASSUME NEW q \in Seq(Messages), q # <<>>
    PROVE  /\ Tail(q) \in Seq(Messages) /\ Len(Tail(q)) = Len(q) - 1 /\ Head(q) \in Messages
           /\ NoNews(q) => NoNews(Tail(q)) /\ Head(q) \notin News
           /\ ~NoNews(q) => ~NoNews(Tail(q)) \/ Head(q) \in News
           /\ \A m \in News : LastIs(q, m) => LastIs(Tail(q), m) \/ (Head(q) = m /\ NoNews(Tail(q)))
<1>1. /\ Tail(q) \in Seq(Messages) /\ Len(Tail(q)) = Len(q) - 1 /\ Len(q) \in Nat /\ Len(q) >= 1
      /\ Head(q) = q[1] /\ Head(q) \in Messages
      /\ \A i \in 1..Len(q) - 1 : Tail(q)[i] = q[i + 1]
  BY EmptySeq, LenProperties
<1>2. NoNews(q) => NoNews(Tail(q)) /\ Head(q) \notin News
  BY <1>1 DEF NoNews
<1>3. ASSUME ~NoNews(q), Head(q) \notin News
      PROVE  ~NoNews(Tail(q))
  <2>1. PICK k \in 1..Len(q) : q[k] \in News
    BY <1>3 DEF NoNews
  <2>2. k # 1
    BY <1>1, <1>3, <2>1
  <2>3. k - 1 \in 1..Len(q) - 1 /\ (k - 1) + 1 = k
    BY <1>1, <2>2
  <2>4. Tail(q)[k - 1] = q[k]
    BY <1>1, <2>3
  <2> QED
    BY <1>1, <2>1, <2>3, <2>4 DEF NoNews
<1>4. ASSUME NEW m \in News, LastIs(q, m)
      PROVE  LastIs(Tail(q), m) \/ (Head(q) = m /\ NoNews(Tail(q)))
  <2>1. PICK k \in 1..Len(q) : q[k] = m /\ \A i \in k + 1..Len(q) : q[i] \notin News
    BY <1>4 DEF LastIs
  <2>2. \A i \in k..Len(q) - 1 : Tail(q)[i] \notin News
    BY <1>1, <2>1
  <2>3. CASE k = 1
    BY <1>1, <2>1, <2>2, <2>3 DEF NoNews
  <2>4. CASE k # 1
    <3>1. k - 1 \in 1..Len(Tail(q)) /\ (k - 1) + 1 = k
      BY <1>1, <2>4
    <3>2. Tail(q)[k - 1] = m
      BY <1>1, <2>1, <3>1
    <3> QED
      BY <1>1, <2>2, <3>1, <3>2 DEF LastIs
  <2> QED
    BY <2>3, <2>4
<1> QED
  BY <1>1, <1>2, <1>3, <1>4

-----------------------------------------------------------------------------
(* The status requests of a page. *)

Requests == [Fetches -> Request]

RequestsOK == fetch \in [Viewers -> Requests]

Exc(v) == v \in overtaken \cup failed

\* A request under way that will make the page show b, or make it ask.
Doubt(v, b) ==
    \E i \in Fetches :
        /\ fetch[v][i].kind # "post"
        /\ fetch[v][i].step = "asked" \/ (fetch[v][i].step = "answered" /\ fetch[v][i].value = b)

\* Every reply under way that says otherwise counts as overtaken.
AllLate(v, b) ==
    \A i \in Fetches : fetch[v][i].step = "answered" /\ fetch[v][i].value # b => fetch[v][i].late

\* The page shows b and nothing under way will change that unnoticed, or it will
\* be told, or it is known to have been misled.
Sure(v, b) == Exc(v) \/ Doubt(v, b) \/ (page[v] = b /\ AllLate(v, b))

\* One request of a page changes.
LEMMA RequestAt ==
    ASSUME NEW v \in Viewers, NEW i \in Fetches, RequestsOK, NEW r \in Request,
           NEW f \in Requests, fetch' = [fetch EXCEPT ![v] = [f EXCEPT ![i] = r]]
    PROVE  /\ RequestsOK' /\ fetch'[v][i] = r
           /\ \A j \in Fetches : j # i => fetch'[v][j] = f[j]
           /\ \A u \in Viewers : u # v => fetch'[u] = fetch[u]
<1>1. [f EXCEPT ![i] = r] \in Requests
  BY DEF Requests
<1> QED
  BY <1>1 DEF RequestsOK, Requests

\* A new request.
LEMMA SendAt ==
    ASSUME NEW v \in Viewers, NEW k \in Kinds, RequestsOK, Send(v, k)
    PROVE  /\ RequestsOK'
           /\ \A u \in Viewers : u # v => fetch'[u] = fetch[u]
           /\ \E i \in Fetches :
                 /\ fetch[v][i].step = "none"
                 /\ fetch'[v][i].step = "asked" /\ fetch'[v][i].kind = k
                 /\ \A j \in Fetches : j # i => fetch'[v][j] = fetch[v][j]
<1>1. PICK i \in Fetches :
         /\ fetch[v][i].step = "none"
         /\ fetch' = [fetch EXCEPT ![v][i] = [NoFetch EXCEPT !.kind = k, !.step = "asked"]]
  BY DEF Send
<1> DEFINE r == [NoFetch EXCEPT !.kind = k, !.step = "asked"]
<1>2. r \in Request /\ r.step = "asked" /\ r.kind = k
  BY DEF NoFetch, Request, Kinds
<1>3. fetch' = [fetch EXCEPT ![v] = [fetch[v] EXCEPT ![i] = r]] /\ fetch[v] \in Requests
  BY <1>1 DEF RequestsOK
<1> HIDE DEF r
<1>4. /\ RequestsOK' /\ fetch'[v][i] = r
      /\ \A j \in Fetches : j # i => fetch'[v][j] = fetch[v][j]
      /\ \A u \in Viewers : u # v => fetch'[u] = fetch[u]
  BY <1>2, <1>3, RequestAt
<1> QED
  BY <1>1, <1>2, <1>4

\* The page asks: whatever the flag is, it will be told.
LEMMA AskingSure ==
    ASSUME NEW v \in Viewers, NEW i \in Fetches, NEW b \in BOOLEAN,
           fetch'[v][i].step = "asked", fetch'[v][i].kind # "post"
    PROVE  Sure(v, b)'
BY DEF Sure, Doubt

\* A request that was not answered before or is gone takes nothing from a page,
\* unless the page counted on it.
LEMMA OneRequestSure ==
    ASSUME NEW v \in Viewers, NEW i \in Fetches, NEW b \in BOOLEAN, Sure(v, b),
           page'[v] = page[v], overtaken' = overtaken, failed' = failed,
           \A j \in Fetches : j # i => fetch'[v][j] = fetch[v][j],
           fetch[v][i].kind = "post" \/ fetch[v][i].step = "none",
           fetch'[v][i].step = "answered" => fetch'[v][i].value = b
    PROVE  Sure(v, b)'
<1>1. CASE Exc(v)
  BY <1>1 DEF Sure, Exc
<1>2. CASE Doubt(v, b)
  <2>1. PICK j \in Fetches :
           /\ fetch[v][j].kind # "post"
           /\ fetch[v][j].step = "asked" \/ (fetch[v][j].step = "answered" /\ fetch[v][j].value = b)
    BY <1>2 DEF Doubt
  <2>2. fetch'[v][j] = fetch[v][j]
    BY <2>1
  <2> QED
    BY <2>1, <2>2 DEF Sure, Doubt
<1>3. CASE page[v] = b /\ AllLate(v, b)
  <2>1. AllLate(v, b)'
    BY <1>3 DEF AllLate
  <2> QED
    BY <1>3, <2>1 DEF Sure
<1> QED
  BY <1>1, <1>2, <1>3 DEF Sure

\* What an overtaking leaves of the requests.
LEMMA OvertakeIs ==
    ASSUME NEW f \in Requests, NEW b \in BOOLEAN
    PROVE  /\ Overtake(f, b) \in Requests
           /\ \A i \in Fetches : /\ Overtake(f, b)[i].step = f[i].step
                                 /\ Overtake(f, b)[i].value = f[i].value
                                 /\ f[i].step = "answered" /\ f[i].value # b => Overtake(f, b)[i].late
<1>1. ASSUME NEW i \in Fetches
      PROVE  /\ f[i] \in Request
             /\ Overtake(f, b)[i] = [f[i] EXCEPT !.late = f[i].step = "answered" /\ f[i].value # b]
  BY DEF Requests, Overtake
<1>2. ASSUME NEW i \in Fetches
      PROVE  Overtake(f, b)[i] = [kind |-> f[i].kind, step |-> f[i].step, value |-> f[i].value,
                                  late |-> f[i].step = "answered" /\ f[i].value # b]
  BY <1>1 DEF Request
<1>3. ASSUME NEW i \in Fetches
      PROVE  Overtake(f, b)[i] \in Request
  BY <1>1, <1>2 DEF Request
<1>4. Overtake(f, b) = [i \in Fetches |-> Overtake(f, b)[i]]
  BY DEF Overtake
<1>5. Overtake(f, b) \in Requests
  BY <1>3, <1>4 DEF Requests
<1>6. ASSUME NEW i \in Fetches
      PROVE  /\ Overtake(f, b)[i].step = f[i].step
             /\ Overtake(f, b)[i].value = f[i].value
  BY <1>1 DEF Request
<1>7. ASSUME NEW i \in Fetches, f[i].step = "answered", f[i].value # b
      PROVE  Overtake(f, b)[i].late
  <2>1. Overtake(f, b)[i] = [f[i] EXCEPT !.late = TRUE]
    BY <1>1, <1>7
  <2> QED
    BY <1>1, <2>1 DEF Request
<1> QED
  BY <1>5, <1>6, <1>7

\* What a page shows, and who is misled by it.
LEMMA ShowAt ==
    ASSUME NEW v \in Viewers, NEW b \in BOOLEAN, NEW f \in Requests, NEW late \in BOOLEAN,
           RequestsOK, page \in [Viewers -> BOOLEAN], asleep \in BOOLEAN, asleep' = asleep,
           overtaken \in SUBSET Viewers, failed \in SUBSET Viewers, Show(v, b, f, late)
    PROVE  /\ RequestsOK' /\ page' \in [Viewers -> BOOLEAN] /\ page'[v] = b
           /\ overtaken' \in SUBSET Viewers /\ failed' \in SUBSET Viewers
           /\ \A u \in Viewers : u # v => /\ fetch'[u] = fetch[u] /\ page'[u] = page[u]
                                          /\ Exc(u)' <=> Exc(u)
           /\ b = asleep => Sure(v, asleep)'
           /\ b # asleep => /\ fetch'[v] = f
                            /\ Exc(v) \/ late => Exc(v)'
<1>1. /\ page' = [page EXCEPT ![v] = b]
      /\ fetch' = [fetch EXCEPT ![v] = IF b = asleep THEN Overtake(f, b) ELSE f]
  BY DEF Show
<1>2. (IF b = asleep THEN Overtake(f, b) ELSE f) \in Requests
  BY OvertakeIs
<1>3. /\ RequestsOK' /\ fetch'[v] = (IF b = asleep THEN Overtake(f, b) ELSE f)
      /\ page' \in [Viewers -> BOOLEAN] /\ page'[v] = b
      /\ \A u \in Viewers : u # v => fetch'[u] = fetch[u] /\ page'[u] = page[u]
  BY <1>1, <1>2 DEF RequestsOK
<1>4. /\ overtaken' \in SUBSET Viewers /\ failed' \in SUBSET Viewers
      /\ \A u \in Viewers : u # v => (Exc(u)' <=> Exc(u))
      /\ b # asleep /\ (Exc(v) \/ late) => Exc(v)'
  BY DEF Show, Exc
<1>5. ASSUME b = asleep
      PROVE  Sure(v, asleep)'
  <2>1. fetch'[v] = Overtake(f, b)
    BY <1>3, <1>5
  <2>2. ASSUME NEW i \in Fetches, fetch'[v][i].step = "answered", fetch'[v][i].value # b
        PROVE  fetch'[v][i].late
    <3>1. f[i].step = "answered" /\ f[i].value # b
      BY <2>1, <2>2, OvertakeIs
    <3>2. Overtake(f, b)[i].late
      BY <3>1, OvertakeIs
    <3> QED
      BY <2>1, <3>2
  <2>3. page'[v] = asleep' /\ AllLate(v, asleep)'
    BY <1>3, <1>5, <2>2 DEF AllLate
  <2> QED
    BY <2>3 DEF Sure
<1> QED
  BY <1>3, <1>4, <1>5

\* A message of the stream reaches the page.
LEMMA HandleAt ==
    ASSUME NEW v \in Viewers, NEW slept \in BOOLEAN, RequestsOK,
           page \in [Viewers -> BOOLEAN], asleep \in BOOLEAN, asleep' = asleep,
           overtaken \in SUBSET Viewers, failed \in SUBSET Viewers, Handle(v, slept)
    PROVE  /\ RequestsOK' /\ page' \in [Viewers -> BOOLEAN]
           /\ overtaken' \in SUBSET Viewers /\ failed' \in SUBSET Viewers
           /\ \A u \in Viewers : u # v => /\ fetch'[u] = fetch[u] /\ page'[u] = page[u]
                                          /\ Exc(u)' <=> Exc(u)
           /\ ~asleep => Sure(v, FALSE)'
           /\ slept => Sure(v, TRUE)'
<1>1. CASE slept
  <2>1. Send(v, "status") /\ UNCHANGED <<page, overtaken, failed>>
    BY <1>1 DEF Handle
  <2>2. "status" \in Kinds
    BY DEF Kinds
  <2>3. /\ RequestsOK' /\ \A u \in Viewers : u # v => fetch'[u] = fetch[u]
        /\ \E i \in Fetches : fetch'[v][i].step = "asked" /\ fetch'[v][i].kind = "status"
    BY <2>1, <2>2, SendAt
  <2>4. Sure(v, FALSE)' /\ Sure(v, TRUE)'
    BY <2>3, AskingSure
  <2> QED
    BY <2>1, <2>3, <2>4 DEF Exc
<1>2. CASE ~slept
  <2>1. Show(v, FALSE, fetch[v], FALSE) /\ fetch[v] \in Requests
    BY <1>2 DEF Handle, RequestsOK
  <2>2. /\ RequestsOK' /\ page' \in [Viewers -> BOOLEAN]
        /\ overtaken' \in SUBSET Viewers /\ failed' \in SUBSET Viewers
        /\ \A u \in Viewers : u # v => /\ fetch'[u] = fetch[u] /\ page'[u] = page[u]
                                       /\ Exc(u)' <=> Exc(u)
        /\ FALSE = asleep => Sure(v, asleep)'
    BY <2>1, ShowAt
  <2>3. ~asleep => Sure(v, FALSE)'
    BY <2>2 DEF Sure, Doubt, AllLate, Exc
  <2> QED
    BY <1>2, <2>2, <2>3
<1> QED
  BY <1>1, <1>2

\* A request is answered.
LEMMA AnswerAt ==
    ASSUME NEW v \in Viewers, NEW i \in Fetches, RequestsOK, asleep \in BOOLEAN, Answer(v, i)
    PROVE  /\ RequestsOK' /\ \A u \in Viewers : u # v => fetch'[u] = fetch[u]
           /\ \A b \in BOOLEAN : b = asleep /\ Sure(v, b) => Sure(v, b)'
<1> DEFINE r == [fetch[v][i] EXCEPT !.step = "answered", !.value = asleep]
<1>0. fetch[v] \in Requests /\ fetch[v][i] \in Request
  BY DEF RequestsOK, Requests
<1>1. r \in Request /\ r.step = "answered" /\ r.value = asleep /\ r.kind = fetch[v][i].kind
  BY <1>0 DEF Request
<1>2. fetch' = [fetch EXCEPT ![v] = [fetch[v] EXCEPT ![i] = r]]
  BY DEF Answer
<1> HIDE DEF r
<1>3. /\ RequestsOK' /\ fetch'[v][i] = r
      /\ \A j \in Fetches : j # i => fetch'[v][j] = fetch[v][j]
      /\ \A u \in Viewers : u # v => fetch'[u] = fetch[u]
  BY <1>0, <1>1, <1>2, RequestAt
<1>4. page'[v] = page[v] /\ overtaken' = overtaken /\ failed' = failed
  BY DEF Answer
<1>5. ASSUME NEW b \in BOOLEAN, b = asleep, Sure(v, b)
      PROVE  Sure(v, b)'
  <2>1. CASE fetch[v][i].kind = "post"
    BY <1>1, <1>3, <1>4, <1>5, <2>1, OneRequestSure
  <2>2. CASE fetch[v][i].kind # "post"
    <3>1. fetch'[v][i].kind # "post" /\ fetch'[v][i].step = "answered" /\ fetch'[v][i].value = b
      BY <1>1, <1>3, <1>5, <2>2
    <3> QED
      BY <3>1 DEF Sure, Doubt
  <2> QED
    BY <2>1, <2>2
<1> QED
  BY <1>3, <1>5

\* A reply is shown.
LEMMA ApplyAt ==
    ASSUME NEW v \in Viewers, NEW i \in Fetches, RequestsOK,
           page \in [Viewers -> BOOLEAN], asleep \in BOOLEAN, asleep' = asleep,
           overtaken \in SUBSET Viewers, failed \in SUBSET Viewers, Apply(v, i)
    PROVE  /\ RequestsOK' /\ page' \in [Viewers -> BOOLEAN]
           /\ overtaken' \in SUBSET Viewers /\ failed' \in SUBSET Viewers
           /\ \A u \in Viewers : u # v => /\ fetch'[u] = fetch[u] /\ page'[u] = page[u]
                                          /\ Exc(u)' <=> Exc(u)
           /\ \A b \in BOOLEAN : b = asleep /\ Sure(v, b) => Sure(v, b)'
<1> DEFINE f == [fetch[v] EXCEPT ![i] = NoFetch]
           x == fetch[v][i].value
<1>1. fetch[v] \in Requests /\ fetch[v][i] \in Request
  BY DEF RequestsOK, Requests
<1>2. x \in BOOLEAN /\ fetch[v][i].late \in BOOLEAN /\ fetch[v][i].step = "answered"
  BY <1>1 DEF Request, Apply
<1>3. NoFetch \in Request
  BY DEF NoFetch, Request, Kinds
<1>4. f \in Requests /\ f[i] = NoFetch /\ \A j \in Fetches : j # i => f[j] = fetch[v][j]
  BY <1>1, <1>3 DEF Requests
<1>5. Show(v, x, f, fetch[v][i].late)
  BY DEF Apply
<1> HIDE DEF f, x
<1>6. /\ RequestsOK' /\ page' \in [Viewers -> BOOLEAN]
      /\ overtaken' \in SUBSET Viewers /\ failed' \in SUBSET Viewers
      /\ \A u \in Viewers : u # v => /\ fetch'[u] = fetch[u] /\ page'[u] = page[u]
                                     /\ Exc(u)' <=> Exc(u)
      /\ x = asleep => Sure(v, asleep)'
      /\ x # asleep => /\ fetch'[v] = f
                       /\ Exc(v) \/ fetch[v][i].late => Exc(v)'
  BY <1>2, <1>4, <1>5, ShowAt
<1>7. ASSUME NEW b \in BOOLEAN, b = asleep, Sure(v, b)
      PROVE  Sure(v, b)'
  <2>1. CASE x = asleep
    <3>1. Sure(v, asleep)' /\ b = asleep'
      BY <1>6, <1>7, <2>1
    <3> QED
      BY <3>1 DEF Sure, Doubt, AllLate, Exc
  <2>2. CASE x # asleep /\ Doubt(v, b)
    <3>1. PICK j \in Fetches :
             /\ fetch[v][j].kind # "post"
             /\ fetch[v][j].step = "asked" \/ (fetch[v][j].step = "answered" /\ fetch[v][j].value = b)
      BY <2>2 DEF Doubt
    <3>2. j # i
      BY <1>2, <1>7, <2>2, <3>1 DEF x
    <3>3. fetch'[v][j] = fetch[v][j]
      BY <1>4, <1>6, <2>2, <3>2
    <3> QED
      BY <3>1, <3>3 DEF Sure, Doubt
  <2>3. CASE x # asleep /\ ~Doubt(v, b)
    <3>1. Exc(v) \/ fetch[v][i].late
      BY <1>2, <1>7, <2>3 DEF Sure, AllLate, x
    <3> QED
      BY <1>6, <2>3, <3>1 DEF Sure
  <2> QED
    BY <2>1, <2>2, <2>3
<1> QED
  BY <1>6, <1>7

\* A request fails.
LEMMA FailAt ==
    ASSUME NEW v \in Viewers, NEW i \in Fetches, RequestsOK,
           FetchFails(v, i) \/ Resync(v, i) \/ PostFails(v, i)
    PROVE  /\ RequestsOK' /\ \A u \in Viewers : u # v => fetch'[u] = fetch[u]
           /\ \A b \in BOOLEAN : Sure(v, b) => Sure(v, b)'
<1>0. /\ NoFetch \in Request /\ NoFetch.step = "none"
      /\ [NoFetch EXCEPT !.step = "asked"] \in Request
      /\ [NoFetch EXCEPT !.step = "asked"].step = "asked"
      /\ [NoFetch EXCEPT !.step = "asked"].kind = "status"
  BY DEF NoFetch, Request, Kinds
<1>1. fetch[v] \in Requests
  BY DEF RequestsOK
<1>2. CASE FetchFails(v, i)
  <2>1. fetch' = [fetch EXCEPT ![v] = [fetch[v] EXCEPT ![i] = NoFetch]] /\ Exc(v)'
    BY <1>2 DEF FetchFails, Exc
  <2> QED
    BY <1>0, <1>1, <2>1, RequestAt DEF Sure
<1>3. CASE Resync(v, i)
  <2> DEFINE r == [NoFetch EXCEPT !.step = "asked"]
  <2>0. r \in Request /\ r.step = "asked" /\ r.kind = "status"
    BY <1>0
  <2>1. fetch' = [fetch EXCEPT ![v] = [fetch[v] EXCEPT ![i] = r]]
    BY <1>3 DEF Resync
  <2> HIDE DEF r
  <2>2. /\ RequestsOK' /\ fetch'[v][i] = r
        /\ \A j \in Fetches : j # i => fetch'[v][j] = fetch[v][j]
        /\ \A u \in Viewers : u # v => fetch'[u] = fetch[u]
    BY <1>1, <2>0, <2>1, RequestAt
  <2>3. \A b \in BOOLEAN : Sure(v, b)'
    BY <2>0, <2>2, AskingSure
  <2> QED
    BY <2>2, <2>3
<1>4. CASE PostFails(v, i)
  <2>1. /\ fetch' = [fetch EXCEPT ![v] = [fetch[v] EXCEPT ![i] = NoFetch]]
        /\ fetch[v][i].kind = "post"
        /\ page'[v] = page[v] /\ overtaken' = overtaken /\ failed' = failed
    BY <1>4 DEF PostFails
  <2>2. /\ RequestsOK' /\ fetch'[v][i] = NoFetch
        /\ \A j \in Fetches : j # i => fetch'[v][j] = fetch[v][j]
        /\ \A u \in Viewers : u # v => fetch'[u] = fetch[u]
    BY <1>0, <1>1, <2>1, RequestAt
  <2>3. ASSUME NEW b \in BOOLEAN, Sure(v, b)
        PROVE  Sure(v, b)'
    BY <1>0, <2>1, <2>2, <2>3, OneRequestSure
  <2> QED
    BY <2>2, <2>3
<1> QED
  BY <1>2, <1>3, <1>4

\* The page sends a click or the like.
LEMMA PostAt ==
    ASSUME NEW v \in Viewers, RequestsOK, Post(v)
    PROVE  /\ RequestsOK' /\ \A u \in Viewers : u # v => fetch'[u] = fetch[u]
           /\ \A b \in BOOLEAN : Sure(v, b) => Sure(v, b)'
<1>1. "post" \in Kinds /\ Send(v, "post")
  BY DEF Kinds, Post
<1>2. /\ RequestsOK' /\ \A u \in Viewers : u # v => fetch'[u] = fetch[u]
      /\ \E i \in Fetches :
            /\ fetch[v][i].step = "none" /\ fetch'[v][i].step = "asked"
            /\ \A j \in Fetches : j # i => fetch'[v][j] = fetch[v][j]
  BY <1>1, SendAt
<1>3. page'[v] = page[v] /\ overtaken' = overtaken /\ failed' = failed
  BY DEF Post
<1>4. ASSUME NEW b \in BOOLEAN, Sure(v, b)
      PROVE  Sure(v, b)'
  BY <1>2, <1>3, <1>4, OneRequestSure
<1> QED
  BY <1>2, <1>4

\* The dark picture is tapped.
LEMMA TapAt ==
    ASSUME NEW v \in Viewers, RequestsOK, page \in [Viewers -> BOOLEAN], Tap(v)
    PROVE  /\ RequestsOK' /\ page' \in [Viewers -> BOOLEAN]
           /\ \A u \in Viewers : u # v => fetch'[u] = fetch[u] /\ page'[u] = page[u]
           /\ \A b \in BOOLEAN : Sure(v, b)'
<1>1. "tap" \in Kinds /\ Send(v, "tap") /\ page' = [page EXCEPT ![v] = FALSE]
  BY DEF Kinds, Tap
<1>2. /\ RequestsOK' /\ \A u \in Viewers : u # v => fetch'[u] = fetch[u]
      /\ \E i \in Fetches : fetch'[v][i].step = "asked" /\ fetch'[v][i].kind = "tap"
  BY <1>1, SendAt
<1>3. \A b \in BOOLEAN : Sure(v, b)'
  BY <1>2, AskingSure
<1> QED
  BY <1>1, <1>2, <1>3

-----------------------------------------------------------------------------
(* Type correctness of the composition. *)

\* What a broadcast leaves behind it.
LEMMA BroadcastTypes ==
    ASSUME StreamTypeOK, NEW m \in Messages, BroadcastStatus(m)
    PROVE  /\ queue' \in [Viewers -> Seq(Messages)]
           /\ \A v \in Viewers : Len(queue'[v]) <= StatusCap
           /\ lostNews' \in [Viewers -> SUBSET News]
<1>1. ASSUME NEW v \in Viewers
      PROVE  /\ queue[v] \in Seq(Messages) /\ Len(queue[v]) <= StatusCap
             /\ lostNews[v] \in SUBSET News
  BY DEF StreamTypeOK, Messages
<1>2. ASSUME NEW v \in Viewers
      PROVE  Push(queue[v], m) \in Seq(Messages) /\ Len(Push(queue[v], m)) <= StatusCap
  BY <1>1, PushIs
<1>3. ASSUME NEW v \in Viewers
      PROVE  Dropped(queue[v], m) \in SUBSET News
  BY DEF Dropped
<1>4. queue' = [v \in Viewers |-> IF Subscribed(v) THEN Push(queue[v], m) ELSE queue[v]]
  BY DEF BroadcastStatus
<1>5. lostNews' = [v \in Viewers |->
                     IF ~Subscribed(v) THEN lostNews[v]
                     ELSE (IF m \in News THEN {} ELSE lostNews[v]) \cup Dropped(queue[v], m)]
  BY DEF BroadcastStatus
<1>6. queue' \in [Viewers -> Seq(Messages)] /\ \A v \in Viewers : Len(queue'[v]) <= StatusCap
  BY <1>1, <1>2, <1>4
<1>7. lostNews' \in [Viewers -> SUBSET News]
  BY <1>1, <1>3, <1>5
<1> QED
  BY <1>6, <1>7

LEMMA StreamTypeInit == StreamInit => StreamTypeOK
<1> SUFFICES ASSUME StreamInit PROVE StreamTypeOK
  OBVIOUS
<1>1. NoFetch \in Request
  BY DEF NoFetch, Request, Kinds
<1>2. fetch \in [Viewers -> [Fetches -> Request]]
  BY <1>1 DEF StreamInit
<1>3. queue \in [Viewers -> Seq(News \cup {"password"})] /\ \A v \in Viewers : Len(queue[v]) <= StatusCap
  BY StatusCapAssumption DEF StreamInit
<1>4. /\ stage \in [Viewers -> {"off", "upgraded", "subscribed", "on"}]
      /\ view \in [Viewers -> BOOLEAN] /\ page \in [Viewers -> BOOLEAN]
      /\ lostNews \in [Viewers -> SUBSET News]
  BY DEF StreamInit
<1>5. 0 \in 0..MaxFocus
  BY MaxFocusAssumption
<1>6. overtaken \in SUBSET Viewers /\ failed \in SUBSET Viewers
  BY DEF StreamInit
<1> QED
  BY <1>2, <1>3, <1>4, <1>5, <1>6 DEF StreamInit, StreamTypeOK

LEMMA StreamTypeNext == TypeOK /\ StreamTypeOK /\ [StreamNext]_allVars => StreamTypeOK'
<1> SUFFICES ASSUME TypeOK, StreamTypeOK, [StreamNext]_allVars PROVE StreamTypeOK'
  OBVIOUS
<1>0. /\ RequestsOK /\ asleep \in BOOLEAN /\ page \in [Viewers -> BOOLEAN]
      /\ overtaken \in SUBSET Viewers /\ failed \in SUBSET Viewers
      /\ RequestsOK' => fetch' \in [Viewers -> [Fetches -> Request]]
      /\ "status" \in Kinds
  BY DEF StreamTypeOK, RequestsOK, Requests, TypeOK, Kinds
<1>1. ASSUME NEW c \in Callers, SetFlagStep(c) PROVE StreamTypeOK'
  BY <1>1 DEF SetFlagStep, StreamTypeOK
<1>2. ASSUME NEW m \in Messages, BroadcastStatus(m),
             UNCHANGED <<stage, view, page, fetch, reordered, overtaken, failed>>,
             focusing' \in BOOLEAN, focused' = focused
      PROVE  StreamTypeOK'
  BY <1>2, BroadcastTypes DEF StreamTypeOK, Messages
<1>3. ASSUME NEW c \in Callers, PublishStep(c) PROVE StreamTypeOK'
  <2>1. (IF op[c] = "sleep" THEN "slept" ELSE "woke") \in Messages
    BY DEF Messages, News
  <2> QED
    BY <1>2, <1>3, <2>1 DEF PublishStep, StreamTypeOK
<1>4. CASE OtherDisplayStep
  BY <1>4 DEF OtherDisplayStep, streamVars, StreamTypeOK
<1>5. CASE FocusStart
  BY <1>5, MaxFocusAssumption DEF FocusStart, StreamTypeOK
<1>6. CASE FocusPublish
  <2>1. "password" \in Messages
    BY DEF Messages
  <2> QED
    BY <1>2, <1>6, <2>1 DEF FocusPublish
<1>7. ASSUME NEW v \in Viewers, Connect(v) PROVE StreamTypeOK'
  <2>1. RequestsOK'
    BY <1>0, <1>7, SendAt DEF Connect
  <2> QED
    BY <1>0, <1>7, <2>1 DEF Connect, StreamTypeOK
<1>8. ASSUME NEW v \in Viewers, Subscribe(v) PROVE StreamTypeOK'
  <2>1. <<>> \in Seq(News \cup {"password"}) /\ Len(<<>>) <= StatusCap
    BY StatusCapAssumption
  <2>2. queue' \in [Viewers -> Seq(News \cup {"password"})] /\ \A u \in Viewers : Len(queue'[u]) <= StatusCap
    BY <1>8, <2>1 DEF Subscribe, StreamTypeOK
  <2> QED
    BY <1>8, <2>2 DEF Subscribe, StreamTypeOK
<1>9. ASSUME NEW v \in Viewers, Snapshot(v) PROVE StreamTypeOK'
  <2>1. /\ RequestsOK' /\ page' \in [Viewers -> BOOLEAN]
        /\ overtaken' \in SUBSET Viewers /\ failed' \in SUBSET Viewers
    <3>1. Handle(v, asleep) /\ asleep' = asleep
      BY <1>9 DEF Snapshot, vars, powerVars
    <3> QED
      BY <1>0, <3>1, HandleAt
  <2> QED
    BY <1>0, <1>9, <2>1 DEF Snapshot, StreamTypeOK
<1>10. ASSUME NEW v \in Viewers, Forward(v) PROVE StreamTypeOK'
  <2>1. queue[v] \in Seq(Messages) /\ queue[v] # <<>> /\ Len(queue[v]) <= StatusCap
    BY <1>10 DEF Forward, StreamTypeOK, Messages
  <2>2. Tail(queue[v]) \in Seq(Messages) /\ Len(Tail(queue[v])) <= StatusCap
    BY <2>1, TailNews, LenProperties, StatusCapAssumption
  <2>3. queue' = [queue EXCEPT ![v] = Tail(queue[v])]
    BY <1>10 DEF Forward
  <2>4. queue' \in [Viewers -> Seq(News \cup {"password"})] /\ \A u \in Viewers : Len(queue'[u]) <= StatusCap
    BY <2>2, <2>3 DEF StreamTypeOK, Messages
  <2>5. view' \in [Viewers -> BOOLEAN]
    BY <1>10 DEF Forward, StreamTypeOK
  <2>6. /\ RequestsOK' /\ page' \in [Viewers -> BOOLEAN]
        /\ overtaken' \in SUBSET Viewers /\ failed' \in SUBSET Viewers
    <3>1. CASE Head(queue[v]) = "password"
      BY <1>0, <1>10, <3>1 DEF Forward, RequestsOK
    <3>2. CASE Head(queue[v]) # "password"
      <4>1. Handle(v, Head(queue[v]) = "slept") /\ asleep' = asleep
        BY <1>10, <3>2 DEF Forward, vars, powerVars
      <4>2. (Head(queue[v]) = "slept") \in BOOLEAN
        OBVIOUS
      <4> QED
        BY <1>0, <4>1, <4>2, HandleAt
    <3> QED
      BY <3>1, <3>2
  <2> QED
    BY <1>0, <1>10, <2>4, <2>5, <2>6 DEF Forward, StreamTypeOK
<1>11. ASSUME NEW v \in Viewers, Disconnect(v) PROVE StreamTypeOK'
  <2>1. <<>> \in Seq(News \cup {"password"}) /\ Len(<<>>) <= StatusCap
    BY StatusCapAssumption
  <2>2. queue' \in [Viewers -> Seq(News \cup {"password"})] /\ \A u \in Viewers : Len(queue'[u]) <= StatusCap
    BY <1>11, <2>1 DEF Disconnect, StreamTypeOK
  <2> QED
    BY <1>11, <2>2 DEF Disconnect, StreamTypeOK
<1>12. ASSUME NEW v \in Viewers, NEW i \in Fetches, Answer(v, i) PROVE StreamTypeOK'
  BY <1>0, <1>12, AnswerAt DEF Answer, StreamTypeOK
<1>13. ASSUME NEW v \in Viewers, NEW i \in Fetches, Apply(v, i) PROVE StreamTypeOK'
  <2>0. asleep' = asleep
    BY <1>13 DEF Apply, vars, powerVars
  <2>1. /\ RequestsOK' /\ page' \in [Viewers -> BOOLEAN]
        /\ overtaken' \in SUBSET Viewers /\ failed' \in SUBSET Viewers
    BY <1>0, <1>13, <2>0, ApplyAt
  <2> QED
    BY <1>0, <1>13, <2>1 DEF Apply, StreamTypeOK
<1>14. ASSUME NEW v \in Viewers, NEW i \in Fetches,
              FetchFails(v, i) \/ Resync(v, i) \/ PostFails(v, i)
       PROVE StreamTypeOK'
  <2>1. RequestsOK'
    BY <1>0, <1>14, FailAt
  <2>2. failed' \in SUBSET Viewers
    BY <1>0, <1>14 DEF FetchFails, Resync, PostFails
  <2> QED
    BY <1>0, <1>14, <2>1, <2>2 DEF FetchFails, Resync, PostFails, StreamTypeOK
<1>15. ASSUME NEW v \in Viewers, Post(v) PROVE StreamTypeOK'
  BY <1>0, <1>15, PostAt DEF Post, StreamTypeOK
<1>16. ASSUME NEW v \in Viewers, Tap(v) PROVE StreamTypeOK'
  BY <1>0, <1>16, TapAt DEF Tap, StreamTypeOK
<1>17. CASE UNCHANGED allVars
  BY <1>17 DEF allVars, streamVars, StreamTypeOK
<1> QED
  BY <1>1, <1>3, <1>4, <1>5, <1>6, <1>7, <1>8, <1>9, <1>10, <1>11, <1>12, <1>13, <1>14, <1>15,
     <1>16, <1>17
     DEF StreamNext

\* No reachable state of the composition leaves its types: in particular no
\* channel ever holds more than its capacity.
THEOREM StreamTypeCorrect == StreamSpec => []StreamTypeOK
<1> QED
  BY StreamTypeInit, StreamTypeNext, DisplayTypes, PTL DEF StreamSpec

-----------------------------------------------------------------------------
(* What is on its way to a page.  Three facts about every viewer, on top of   *)
(* one about the broadcasts, make the inductive invariant.                    *)

Publishing == {c \in Callers : pc[c] = "publish"}

Flag == IF asleep THEN "slept" ELSE "woke"

\* As long as no flag was set over an older broadcast, at most one broadcast
\* is still to come, and it is the flag's.
OneNews ==
    ~reordered => \A c \in Publishing : /\ asleep <=> op[c] = "sleep"
                                        /\ \A d \in Publishing : d = c

\* The last news in the channel is the flag's, or the stream has written it.
OnItsWay(v) ==
    Subscribed(v) /\ ~reordered /\ Publishing = {} /\ lostNews[v] = {}
      => \/ LastIs(queue[v], Flag)
         \/ NoNews(queue[v]) /\ (stage[v] = "on" => view[v] = asleep)

\* While the display is awake a page that does not show it has news to come or
\* a question to ask: either of the two messages settles it.
WakeComing(v) ==
    stage[v] = "on" /\ ~asleep /\ lostNews[v] = {}
      => \/ \E c \in Publishing : op[c] = "wake"
         \/ ~NoNews(queue[v])
         \/ Sure(v, FALSE)

\* "slept" is the last message, or the last but one with the one password
\* message behind it that was on its way when the display fell asleep.
SleptLast(v) ==
    \E n \in {Len(queue[v])} :
       n > 0 /\ \/ queue[v][n] = "slept"
                \/ n > 1 /\ queue[v][n - 1] = "slept" /\ queue[v][n] = "password" /\ ~focusing

SleepComing(v) ==
    StatusCap > 1 /\ Subscribed(v) /\ asleep /\ ~reordered /\ Publishing = {}
      => SleptLast(v) \/ (NoNews(queue[v]) /\ (stage[v] = "on" => Sure(v, TRUE)))

ViewerInv(v) == OnItsWay(v) /\ WakeComing(v) /\ SleepComing(v)

StreamInv == TypeOK /\ StreamTypeOK /\ OneNews /\ \A v \in Viewers : ViewerInv(v)

\* A viewer that a step does not touch.
LEMMA ViewerUntouched ==
    ASSUME NEW v \in Viewers, ViewerInv(v),
           asleep' = asleep, reordered' = reordered, Publishing' = Publishing,
           \A c \in Publishing : op'[c] = op[c],
           (focusing' = focusing) \/ ~asleep,
           stage'[v] = stage[v], queue'[v] = queue[v], view'[v] = view[v],
           page'[v] = page[v], fetch'[v] = fetch[v], lostNews'[v] = lostNews[v],
           Exc(v)' <=> Exc(v)
    PROVE  ViewerInv(v)'
<1>1. Subscribed(v)' <=> Subscribed(v)
  BY DEF Subscribed
<1>2. Sure(v, FALSE)' <=> Sure(v, FALSE)
  BY DEF Sure, Doubt, AllLate
<1>3. Sure(v, TRUE)' <=> Sure(v, TRUE)
  BY DEF Sure, Doubt, AllLate
<1>4. (NoNews(queue[v])' <=> NoNews(queue[v])) /\ Flag' = Flag
      /\ (LastIs(queue[v], Flag)' <=> LastIs(queue[v], Flag))
  BY DEF NoNews, LastIs, Flag
<1>5. asleep /\ SleptLast(v) => SleptLast(v)'
  BY DEF SleptLast
<1>6. OnItsWay(v)'
  BY <1>1, <1>4 DEF ViewerInv, OnItsWay
<1>7. WakeComing(v)'
  BY <1>2, <1>4 DEF ViewerInv, WakeComing
<1>8. SleepComing(v)'
  BY <1>1, <1>3, <1>4, <1>5 DEF ViewerInv, SleepComing
<1> QED
  BY <1>6, <1>7, <1>8 DEF ViewerInv

LEMMA NewsUntouched ==
    ASSUME OneNews, asleep' = asleep, reordered' = reordered, Publishing' = Publishing,
           \A c \in Publishing : op'[c] = op[c]
    PROVE  OneNews'
BY DEF OneNews

LEMMA SetFlagInv ==
    ASSUME StreamInv, NEW c \in Callers, SetFlagStep(c)
    PROVE  OneNews' /\ \A v \in Viewers : ViewerInv(v)'
<1>1. /\ pc' = [pc EXCEPT ![c] = "publish"] /\ op' = op /\ asleep' = (op[c] = "sleep")
      /\ pc \in [Callers -> Steps] /\ op[c] \in Ops
  BY DEF SetFlagStep, SetFlag, Goto, StreamInv, TypeOK
<1>2. c \in Publishing' /\ \A d \in Publishing' : d = c \/ pc[d] = "publish"
  BY <1>1 DEF Publishing
<1>3. OneNews'
  BY <1>1, <1>2 DEF OneNews, SetFlagStep, Publishing
<1>4. ASSUME NEW v \in Viewers PROVE ViewerInv(v)'
  <2>1. WakeComing(v)'
    BY <1>1, <1>2 DEF WakeComing, Ops
  <2>2. OnItsWay(v)' /\ SleepComing(v)'
    BY <1>2 DEF OnItsWay, SleepComing
  <2> QED
    BY <2>1, <2>2 DEF ViewerInv
<1> QED
  BY <1>3, <1>4

LEMMA PublishInv ==
    ASSUME StreamInv, NEW c \in Callers, PublishStep(c)
    PROVE  OneNews' /\ \A v \in Viewers : ViewerInv(v)'
<1> DEFINE m == IF op[c] = "sleep" THEN "slept" ELSE "woke"
<1>1. /\ pc' = [pc EXCEPT ![c] = "signal"] /\ op' = op /\ asleep' = asleep
      /\ reordered' = reordered /\ stage' = stage
      /\ pc \in [Callers -> Steps] /\ op[c] \in Ops /\ pc[c] = "publish"
  BY DEF PublishStep, Publish, Goto, StreamInv, TypeOK
<1>2. Publishing' = Publishing \ {c} /\ c \in Publishing
  BY <1>1 DEF Publishing
<1>3. OneNews'
  BY <1>1, <1>2 DEF OneNews, StreamInv
<1>4. ~reordered => m = Flag
  BY <1>1, <1>2 DEF StreamInv, OneNews, Flag, Ops
<1>5. m \in News /\ m \in Messages
  BY DEF News, Messages
<1>6. ASSUME NEW v \in Viewers PROVE ViewerInv(v)'
  <2>1. CASE ~Subscribed(v)
    BY <1>1, <2>1 DEF ViewerInv, OnItsWay, WakeComing, SleepComing, Subscribed
  <2>2. CASE Subscribed(v)
    <3>1. queue[v] \in Seq(Messages) /\ Len(queue[v]) <= StatusCap
      BY DEF StreamInv, StreamTypeOK, Messages
    <3>2. queue'[v] = Push(queue[v], m)
      BY <2>2 DEF PublishStep, BroadcastStatus
    <3>3. LastIs(queue'[v], m) /\ ~NoNews(queue'[v])
      BY <1>5, <3>1, <3>2, PushNews
    <3>4. queue'[v][Len(queue'[v])] = m /\ Len(queue'[v]) \in Nat
      BY <1>5, <3>1, <3>2, PushIs, LenProperties
    <3>5. Len(queue'[v]) > 0
      BY <3>3, <3>4 DEF NoNews
    <3>6. OnItsWay(v)'
      BY <1>1, <1>4, <3>3 DEF OnItsWay, Flag
    <3>7. WakeComing(v)'
      BY <3>3 DEF WakeComing
    <3>8. ~reordered' /\ asleep' => SleptLast(v)'
      BY <1>1, <1>4, <3>4, <3>5 DEF SleptLast, Flag
    <3>9. SleepComing(v)'
      BY <3>8 DEF SleepComing
    <3> QED
      BY <3>6, <3>7, <3>9 DEF ViewerInv
  <2> QED
    BY <2>1, <2>2
<1> QED
  BY <1>3, <1>6

\* The broadcast of a password message.
LEMMA FocusPublishInv ==
    ASSUME StreamInv, FocusPublish
    PROVE  OneNews' /\ \A v \in Viewers : ViewerInv(v)'
<1>1. /\ UNCHANGED <<asleep, pc, op, stage, view, page, fetch, reordered, overtaken, failed>>
      /\ focusing /\ ~focusing'
  BY DEF FocusPublish, vars, powerVars
<1>2. Publishing' = Publishing /\ Flag' = Flag
  BY <1>1 DEF Publishing, Flag
<1>3. OneNews'
  BY <1>1, <1>2, NewsUntouched DEF StreamInv
<1>4. ASSUME NEW v \in Viewers PROVE ViewerInv(v)'
  <2>0. ViewerInv(v) /\ (Exc(v)' <=> Exc(v)) /\ (Subscribed(v)' <=> Subscribed(v))
    BY <1>1 DEF StreamInv, Exc, Subscribed
  <2>1. CASE ~Subscribed(v)
    BY <2>0, <2>1 DEF ViewerInv, OnItsWay, WakeComing, SleepComing, Subscribed
  <2>2. CASE Subscribed(v)
    <3> DEFINE q == queue[v]
               r == queue'[v]
    <3>1. q \in Seq(Messages) /\ Len(q) <= StatusCap /\ Len(q) \in Nat
      BY LenProperties DEF StreamInv, StreamTypeOK, Messages
    <3>2. /\ r = Push(q, "password")
          /\ lostNews'[v] = lostNews[v] \cup Dropped(q, "password")
      BY <2>2 DEF FocusPublish, BroadcastStatus, News
    <3>3. /\ NoNews(q) => NoNews(r)
          /\ lostNews'[v] = {} /\ ~NoNews(q) => ~NoNews(r)
          /\ lostNews'[v] = {} /\ LastIs(q, Flag) => LastIs(r, Flag)
      <4>1. Flag \in News
        BY DEF Flag, News
      <4>2. lostNews'[v] = {} => Dropped(q, "password") = {}
        BY <3>2
      <4> HIDE DEF q
      <4> QED
        BY <3>1, <3>2, <4>1, <4>2, PushPassword
    <3>4. (Sure(v, FALSE)' <=> Sure(v, FALSE)) /\ (Sure(v, TRUE)' <=> Sure(v, TRUE))
      BY <1>1 DEF Sure, Doubt, AllLate, Exc
    <3>5. StatusCap > 1 /\ SleptLast(v) => SleptLast(v)'
      <4> SUFFICES ASSUME StatusCap > 1, SleptLast(v) PROVE SleptLast(v)'
        OBVIOUS
      <4>0. "password" \in Messages
        BY DEF Messages
      <4>3. q[Len(q)] = "slept" /\ Len(q) > 0
        BY <1>1 DEF SleptLast
      <4> HIDE DEF q, r
      <4>1. PICK d \in {0, 1} : /\ Len(r) = Len(q) + 1 - d /\ (d = 0 <=> Len(q) < StatusCap)
                                /\ \A i \in 1..Len(q) - d : r[i] = q[i + d]
        <5>1. \E d \in {0, 1} :
                 /\ Len(Push(q, "password")) = Len(q) + 1 - d
                 /\ d = 0 <=> Len(q) < StatusCap
                 /\ \A i \in 1..Len(q) - d : Push(q, "password")[i] = q[i + d]
          BY <3>1, <4>0, PushIs
        <5> QED
          BY <3>2, <5>1
      <4>2. r[Len(r)] = "password"
        BY <3>1, <3>2, <4>0, PushIs
      <4>4. Len(q) - d \in 1..Len(q) - d /\ (Len(q) - d) + d = Len(q) /\ Len(r) - 1 = Len(q) - d
        BY <3>1, <4>1, <4>3, StatusCapAssumption
      <4>5. r[Len(r) - 1] = "slept" /\ Len(r) > 1
        BY <3>1, <4>1, <4>3, <4>4
      <4> QED
        BY <1>1, <4>2, <4>5 DEF SleptLast, r
    <3>6. OnItsWay(v)'
      BY <1>1, <1>2, <2>0, <2>2, <3>2, <3>3 DEF ViewerInv, OnItsWay
    <3>7. WakeComing(v)'
      BY <1>1, <1>2, <2>0, <2>2, <3>2, <3>3, <3>4 DEF ViewerInv, WakeComing
    <3>8. SleepComing(v)'
      BY <1>1, <1>2, <2>0, <2>2, <3>3, <3>4, <3>5 DEF ViewerInv, SleepComing
    <3> QED
      BY <3>6, <3>7, <3>8 DEF ViewerInv
  <2> QED
    BY <2>1, <2>2
<1> QED
  BY <1>3, <1>4

\* The handler takes a message: "slept" ahead of it stays ahead, unless it was
\* the message taken.
LEMMA TailSlept ==
    ASSUME NEW q \in Seq(Messages), q # <<>>, NEW quiet \in BOOLEAN,
           \/ q[Len(q)] = "slept"
           \/ Len(q) > 1 /\ q[Len(q) - 1] = "slept" /\ q[Len(q)] = "password" /\ quiet
    PROVE  \/ /\ Len(Tail(q)) > 0
              /\ \/ Tail(q)[Len(Tail(q))] = "slept"
                 \/ /\ Len(Tail(q)) > 1 /\ Tail(q)[Len(Tail(q)) - 1] = "slept"
                    /\ Tail(q)[Len(Tail(q))] = "password" /\ quiet
           \/ Head(q) = "slept" /\ NoNews(Tail(q))
<1> DEFINE t == Tail(q)
<1>1. /\ t \in Seq(Messages) /\ Len(t) = Len(q) - 1 /\ Len(q) \in Nat /\ Len(q) >= 1
      /\ Head(q) = q[1]
      /\ \A i \in 1..Len(q) - 1 : t[i] = q[i + 1]
  BY EmptySeq, LenProperties
<1> HIDE DEF t
<1> SUFFICES \/ /\ Len(t) > 0
                /\ \/ t[Len(t)] = "slept"
                   \/ /\ Len(t) > 1 /\ t[Len(t) - 1] = "slept"
                      /\ t[Len(t)] = "password" /\ quiet
             \/ Head(q) = "slept" /\ NoNews(t)
  BY DEF t
<1>2. "password" \notin News
  BY DEF News
<1>3. CASE Len(q) = 1
  BY <1>1, <1>3 DEF NoNews
<1>4. CASE Len(q) = 2
  <2>1. t[1] = q[2] /\ Len(t) = 1
    BY <1>1, <1>4
  <2>2. CASE q[2] = "slept"
    BY <2>1, <2>2
  <2>3. CASE q[2] # "slept"
    <3>1. Head(q) = "slept" /\ q[2] = "password"
      BY <1>1, <1>4, <2>3
    <3>2. NoNews(t)
      BY <1>2, <2>1, <3>1 DEF NoNews
    <3> QED
      BY <3>1, <3>2
  <2> QED
    BY <2>2, <2>3
<1>5. CASE Len(q) > 2
  <2>1. t[Len(q) - 1] = q[Len(q)] /\ t[Len(q) - 2] = q[Len(q) - 1]
    BY <1>1, <1>5
  <2> QED
    BY <1>1, <1>5, <2>1
<1> QED
  BY <1>1, <1>3, <1>4, <1>5

\* A step of one viewer's handler or page leaves the others as they were.
LEMMA OthersUntouched ==
    ASSUME StreamInv, NEW u \in Viewers, UNCHANGED <<vars, focusing, reordered>>,
           \A v \in Viewers : v # u =>
              /\ stage'[v] = stage[v] /\ queue'[v] = queue[v] /\ view'[v] = view[v]
              /\ page'[v] = page[v] /\ fetch'[v] = fetch[v] /\ lostNews'[v] = lostNews[v]
              /\ Exc(v)' <=> Exc(v),
           ViewerInv(u)'
    PROVE  OneNews' /\ \A v \in Viewers : ViewerInv(v)'
<1>1. /\ asleep' = asleep /\ reordered' = reordered /\ Publishing' = Publishing
      /\ \A c \in Publishing : op'[c] = op[c]
      /\ focusing' = focusing /\ focusing \in BOOLEAN
  BY DEF vars, powerVars, Publishing, StreamInv, StreamTypeOK
<1>2. OneNews'
  BY <1>1, NewsUntouched DEF StreamInv
<1>3. ASSUME NEW v \in Viewers, v # u
      PROVE  ViewerInv(v)'
  BY <1>1, <1>3, ViewerUntouched DEF StreamInv
<1> QED
  BY <1>2, <1>3

LEMMA ForwardInv ==
    ASSUME StreamInv, NEW v \in Viewers, Forward(v)
    PROVE  ViewerInv(v)'
<1> DEFINE q == queue[v]
           m == Head(q)
<1>1. /\ UNCHANGED <<asleep, pc, op, stage, focusing, reordered, lostNews>>
      /\ stage[v] = "on" /\ q # <<>> /\ queue'[v] = Tail(q) /\ q \in Seq(Messages)
  BY DEF Forward, vars, powerVars, StreamInv, StreamTypeOK, Messages
<1>2. /\ Publishing' = Publishing /\ Flag' = Flag /\ ViewerInv(v)
      /\ Subscribed(v) /\ (Subscribed(v)' <=> Subscribed(v)) /\ asleep \in BOOLEAN
      /\ Flag \in News
  BY <1>1 DEF Publishing, Flag, StreamInv, Subscribed, News, TypeOK
<1>3. /\ m \in Messages
      /\ NoNews(q) => NoNews(Tail(q)) /\ m \notin News
      /\ ~NoNews(q) => ~NoNews(Tail(q)) \/ m \in News
      /\ LastIs(q, Flag) => LastIs(Tail(q), Flag) \/ (m = Flag /\ NoNews(Tail(q)))
  <2> HIDE DEF q
  <2> QED
    BY <1>1, <1>2, TailNews DEF m
<1>4. m # "password" <=> m \in News
  BY <1>3 DEF Messages, News
<1>5. CASE m \in News
  <2>1. Handle(v, m = "slept") /\ view' = [view EXCEPT ![v] = (m = "slept")]
    BY <1>4, <1>5 DEF Forward
  <2>2. (~asleep => Sure(v, FALSE)') /\ (m = "slept" => Sure(v, TRUE)')
    <3>1. (m = "slept") \in BOOLEAN
      OBVIOUS
    <3>2. /\ RequestsOK /\ page \in [Viewers -> BOOLEAN] /\ asleep \in BOOLEAN /\ asleep' = asleep
          /\ overtaken \in SUBSET Viewers /\ failed \in SUBSET Viewers
      BY <1>1, <1>2 DEF StreamInv, StreamTypeOK, RequestsOK, Requests
    <3> HIDE DEF m
    <3>3. CASE m = "slept"
      BY <2>1, <3>2, <3>3, HandleAt
    <3>4. CASE m # "slept"
      BY <2>1, <3>2, <3>4, HandleAt
    <3> QED
      BY <3>3, <3>4
  <2>3. view'[v] = (m = "slept")
    BY <2>1 DEF StreamInv, StreamTypeOK
  <2>4. OnItsWay(v)'
    <3>1. m = Flag => view'[v] = asleep
      BY <1>2, <2>3 DEF Flag
    <3> QED
      BY <1>1, <1>2, <1>3, <1>5, <3>1 DEF ViewerInv, OnItsWay
  <2>5. WakeComing(v)'
    BY <1>1, <2>2 DEF WakeComing
  <2>6. SleepComing(v)'
    <3>1. SleptLast(v) => SleptLast(v)' \/ (m = "slept" /\ NoNews(Tail(q)))
      <4> HIDE DEF q
      <4>1. focusing \in BOOLEAN
        BY DEF StreamInv, StreamTypeOK
      <4> SUFFICES ASSUME SleptLast(v)
                   PROVE  SleptLast(v)' \/ (m = "slept" /\ NoNews(Tail(q)))
        OBVIOUS
      <4>2. \/ q[Len(q)] = "slept"
            \/ Len(q) > 1 /\ q[Len(q) - 1] = "slept" /\ q[Len(q)] = "password" /\ ~focusing
        BY DEF SleptLast, q
      <4>3. \/ /\ Len(Tail(q)) > 0
               /\ \/ Tail(q)[Len(Tail(q))] = "slept"
                  \/ /\ Len(Tail(q)) > 1 /\ Tail(q)[Len(Tail(q)) - 1] = "slept"
                     /\ Tail(q)[Len(Tail(q))] = "password" /\ ~focusing
            \/ Head(q) = "slept" /\ NoNews(Tail(q))
        BY <1>1, <4>1, <4>2, TailSlept
      <4> QED
        BY <1>1, <4>3 DEF SleptLast, m
    <3> QED
      BY <1>1, <1>2, <1>3, <1>5, <2>2, <3>1 DEF ViewerInv, SleepComing
  <2> QED
    BY <2>4, <2>5, <2>6 DEF ViewerInv
<1>6. CASE m \notin News
  <2>1. UNCHANGED <<view, page, fetch, overtaken, failed>>
    BY <1>4, <1>6 DEF Forward
  <2>2. (Sure(v, FALSE)' <=> Sure(v, FALSE)) /\ (Sure(v, TRUE)' <=> Sure(v, TRUE))
    BY <2>1 DEF Sure, Doubt, AllLate, Exc
  <2>3. OnItsWay(v)'
    BY <1>1, <1>2, <1>3, <1>6, <2>1 DEF ViewerInv, OnItsWay
  <2>4. WakeComing(v)'
    BY <1>1, <1>2, <1>3, <1>6, <2>2 DEF ViewerInv, WakeComing
  <2>5. SleepComing(v)'
    <3>1. SleptLast(v) => SleptLast(v)'
      <4> HIDE DEF q
      <4>1. focusing \in BOOLEAN
        BY DEF StreamInv, StreamTypeOK
      <4> SUFFICES ASSUME SleptLast(v)
                   PROVE  SleptLast(v)'
        OBVIOUS
      <4>2. \/ q[Len(q)] = "slept"
            \/ Len(q) > 1 /\ q[Len(q) - 1] = "slept" /\ q[Len(q)] = "password" /\ ~focusing
        BY DEF SleptLast, q
      <4>3. Head(q) # "slept"
        BY <1>6 DEF News, m
      <4>4. /\ Len(Tail(q)) > 0
            /\ \/ Tail(q)[Len(Tail(q))] = "slept"
               \/ /\ Len(Tail(q)) > 1 /\ Tail(q)[Len(Tail(q)) - 1] = "slept"
                  /\ Tail(q)[Len(Tail(q))] = "password" /\ ~focusing
        BY <1>1, <4>1, <4>2, <4>3, TailSlept
      <4> QED
        BY <1>1, <4>4 DEF SleptLast
    <3> QED
      BY <1>1, <1>2, <1>3, <1>6, <2>2, <3>1 DEF ViewerInv, SleepComing
  <2> QED
    BY <2>3, <2>4, <2>5 DEF ViewerInv
<1> QED
  BY <1>5, <1>6

LEMMA SnapshotInv ==
    ASSUME StreamInv, NEW v \in Viewers, Snapshot(v)
    PROVE  ViewerInv(v)'
<1>1. /\ UNCHANGED <<asleep, pc, op, queue, focusing, reordered, lostNews>>
      /\ view' = [view EXCEPT ![v] = asleep] /\ Handle(v, asleep) /\ stage[v] = "subscribed"
  BY DEF Snapshot, vars, powerVars
<1>2. /\ Publishing' = Publishing /\ Flag' = Flag /\ ViewerInv(v)
      /\ Subscribed(v) /\ asleep \in BOOLEAN
      /\ SleptLast(v)' <=> SleptLast(v)
      /\ view'[v] = asleep
  BY <1>1 DEF Publishing, Flag, StreamInv, Subscribed, SleptLast, TypeOK, StreamTypeOK
<1>3. (~asleep => Sure(v, FALSE)') /\ (asleep => Sure(v, TRUE)')
  <2>1. /\ RequestsOK /\ page \in [Viewers -> BOOLEAN]
        /\ overtaken \in SUBSET Viewers /\ failed \in SUBSET Viewers
    BY DEF StreamInv, StreamTypeOK, RequestsOK, Requests
  <2> QED
    BY <1>1, <1>2, <2>1, HandleAt
<1>4. OnItsWay(v)'
  BY <1>1, <1>2 DEF ViewerInv, OnItsWay
<1>5. WakeComing(v)'
  BY <1>1, <1>3 DEF WakeComing
<1>6. SleepComing(v)'
  BY <1>1, <1>2, <1>3 DEF ViewerInv, SleepComing
<1> QED
  BY <1>4, <1>5, <1>6 DEF ViewerInv

\* A step that touches only the page's requests, and what the page shows.
LEMMA PageStepInv ==
    ASSUME NEW v \in Viewers, ViewerInv(v),
           UNCHANGED <<asleep, pc, op, stage, queue, view, focusing, reordered, lostNews>>,
           ~asleep /\ Sure(v, FALSE) => Sure(v, FALSE)',
           asleep /\ Sure(v, TRUE) => Sure(v, TRUE)'
    PROVE  ViewerInv(v)'
<1>1. /\ Publishing' = Publishing /\ Flag' = Flag
      /\ Subscribed(v)' <=> Subscribed(v)
      /\ SleptLast(v)' <=> SleptLast(v)
  BY DEF Publishing, Flag, Subscribed, SleptLast
<1>2. OnItsWay(v)'
  BY <1>1 DEF ViewerInv, OnItsWay
<1>3. WakeComing(v)'
  BY <1>1 DEF ViewerInv, WakeComing
<1>4. SleepComing(v)'
  BY <1>1 DEF ViewerInv, SleepComing
<1> QED
  BY <1>2, <1>3, <1>4 DEF ViewerInv

LEMMA StreamInvInit == StreamInit => StreamInv
<1> SUFFICES ASSUME StreamInit PROVE StreamInv
  OBVIOUS
<1>1. TypeOK /\ StreamTypeOK
  BY InitTypeOK, StreamTypeInit DEF StreamInit
<1>2. Publishing = {} /\ \A v \in Viewers : stage[v] = "off"
  BY DEF StreamInit, Init, Publishing
<1>3. OneNews
  BY <1>2 DEF OneNews
<1>4. ASSUME NEW v \in Viewers PROVE ViewerInv(v)
  BY <1>2 DEF ViewerInv, OnItsWay, WakeComing, SleepComing, Subscribed
<1> QED
  BY <1>1, <1>3, <1>4 DEF StreamInv

LEMMA StreamInvNext == StreamInv /\ [StreamNext]_allVars => StreamInv'
<1> SUFFICES ASSUME StreamInv, [StreamNext]_allVars PROVE StreamInv'
  OBVIOUS
<1>0. TypeOK' /\ StreamTypeOK'
  BY NextTypeOK, StreamTypeNext, StreamStepIsDisplayStep DEF StreamInv
<1> SUFFICES OneNews' /\ \A v \in Viewers : ViewerInv(v)'
  BY <1>0 DEF StreamInv
<1>1. ASSUME NEW c \in Callers, SetFlagStep(c) \/ PublishStep(c)
      PROVE  OneNews' /\ \A v \in Viewers : ViewerInv(v)'
  BY <1>1, SetFlagInv, PublishInv
<1>2. CASE OtherDisplayStep
  <2>1. /\ UNCHANGED <<asleep, streamVars>>
        /\ Publishing' = Publishing
        /\ \A c \in Publishing : op'[c] = op[c]
    <3> USE DEF StreamInv, TypeOK, Publishing, Goto, Steps, Ops, historyVars
    <3>1. UNCHANGED streamVars
      BY <1>2 DEF OtherDisplayStep
    <3>2. ASSUME NEW c \in Callers, NEW o \in Ops, Begin(c, o)
          PROVE  asleep' = asleep /\ Publishing' = Publishing /\ \A d \in Publishing : op'[d] = op[d]
      BY <3>2 DEF Begin
    <3>3. ASSUME NEW c \in Callers, RunDone(c) \/ RunFailed(c) \/ Signal(c) \/ Record(c)
          PROVE  asleep' = asleep /\ Publishing' = Publishing /\ \A d \in Publishing : op'[d] = op[d]
      <4>1. asleep' = asleep /\ op' = op
        BY <3>3 DEF RunDone, RunFailed, Signal, Record
      <4>2. /\ pc[c] \in {"run", "signal", "record"}
            /\ \E s \in {"set", "idle", "record"} : pc' = [pc EXCEPT ![c] = s]
        BY <3>3 DEF RunDone, RunFailed, Signal, Record
      <4>3. \A d \in Callers : pc[d] = "publish" <=> pc'[d] = "publish"
        BY <4>2
      <4>4. Publishing' = Publishing
        BY <4>3
      <4> HIDE DEF Publishing
      <4> QED
        BY <4>1, <4>4
    <3>4. CASE DrainWake \/ WaitForDisplay
      BY <3>1, <3>4 DEF DrainWake, WaitForDisplay
    <3> QED
      BY <1>2, <3>1, <3>2, <3>3, <3>4 DEF OtherDisplayStep
  <2>2. OneNews'
    BY <2>1, NewsUntouched DEF StreamInv, streamVars
  <2>3. ASSUME NEW v \in Viewers PROVE ViewerInv(v)'
    <3>1. (Exc(v)' <=> Exc(v)) /\ ViewerInv(v)
      BY <2>1 DEF StreamInv, streamVars, Exc
    <3>2. /\ UNCHANGED <<asleep, reordered, focusing>>
          /\ stage'[v] = stage[v] /\ queue'[v] = queue[v] /\ view'[v] = view[v]
          /\ page'[v] = page[v] /\ fetch'[v] = fetch[v] /\ lostNews'[v] = lostNews[v]
      BY <2>1 DEF streamVars
    <3> QED
      BY <2>1, <3>1, <3>2, ViewerUntouched
  <2> QED
    BY <2>2, <2>3
<1>3. CASE FocusStart
  <2>1. /\ UNCHANGED <<asleep, pc, op, stage, queue, view, page, fetch, reordered, lostNews,
                       overtaken, failed>>
        /\ ~asleep /\ focusing'
    BY <1>3 DEF FocusStart, vars, powerVars
  <2>2. Publishing' = Publishing
    BY <2>1 DEF Publishing
  <2>3. OneNews'
    BY <2>1, <2>2, NewsUntouched DEF StreamInv
  <2>4. ASSUME NEW v \in Viewers PROVE ViewerInv(v)'
    BY <2>1, <2>2, ViewerUntouched DEF StreamInv, Exc
  <2> QED
    BY <2>3, <2>4
<1>4. CASE FocusPublish
  BY <1>4, FocusPublishInv
<1>5. ASSUME NEW v \in Viewers,
             \/ Connect(v) \/ Subscribe(v) \/ Snapshot(v) \/ Forward(v) \/ Disconnect(v)
             \/ Post(v) \/ Tap(v)
             \/ \E i \in Fetches : \/ Answer(v, i) \/ Apply(v, i)
                                  \/ FetchFails(v, i) \/ Resync(v, i) \/ PostFails(v, i)
      PROVE  OneNews' /\ \A u \in Viewers : ViewerInv(u)'
  <2>0. /\ RequestsOK /\ page \in [Viewers -> BOOLEAN] /\ asleep \in BOOLEAN /\ ViewerInv(v)
        /\ overtaken \in SUBSET Viewers /\ failed \in SUBSET Viewers
        /\ UNCHANGED <<vars, focusing, reordered>> /\ asleep' = asleep
    <3>1. /\ RequestsOK /\ page \in [Viewers -> BOOLEAN] /\ asleep \in BOOLEAN /\ ViewerInv(v)
          /\ overtaken \in SUBSET Viewers /\ failed \in SUBSET Viewers
      BY DEF StreamInv, TypeOK, StreamTypeOK, RequestsOK, Requests
    <3>2. UNCHANGED <<vars, focusing, reordered>>
      BY <1>5 DEF Connect, Subscribe, Snapshot, Forward, Disconnect, Post, Tap,
                  Answer, Apply, FetchFails, Resync, PostFails
    <3> QED
      BY <3>1, <3>2 DEF vars, powerVars
  <2> SUFFICES /\ \A u \in Viewers : u # v =>
                    /\ stage'[u] = stage[u] /\ queue'[u] = queue[u] /\ view'[u] = view[u]
                    /\ page'[u] = page[u] /\ fetch'[u] = fetch[u] /\ lostNews'[u] = lostNews[u]
                    /\ Exc(u)' <=> Exc(u)
               /\ ViewerInv(v)'
    BY <2>0, OthersUntouched
  <2>1. CASE Connect(v) \/ Subscribe(v) \/ Disconnect(v)
    <3>1. ~(stage'[v] = "on") /\ (Subscribed(v)' => queue'[v] = <<>>)
      BY <2>1 DEF Connect, Subscribe, Disconnect, StreamInv, StreamTypeOK, Subscribed
    <3>2. Subscribed(v)' => NoNews(queue[v])'
      BY <3>1 DEF NoNews
    <3>4. ViewerInv(v)'
      BY <3>1, <3>2 DEF ViewerInv, OnItsWay, WakeComing, SleepComing
    <3>3. \A u \in Viewers : u # v => fetch'[u] = fetch[u] /\ (Exc(u)' <=> Exc(u))
      <4>1. "status" \in Kinds
        BY DEF Kinds
      <4>2. \A u \in Viewers : u # v => fetch'[u] = fetch[u]
        BY <2>0, <2>1, <4>1, SendAt DEF Connect, Subscribe, Disconnect
      <4>3. overtaken' = overtaken /\ failed' = failed
        BY <2>1 DEF Connect, Subscribe, Disconnect
      <4> QED
        BY <4>2, <4>3 DEF Exc
    <3> QED
      BY <2>1, <3>4, <3>3 DEF Connect, Subscribe, Disconnect, StreamInv, StreamTypeOK
  <2>2. CASE Snapshot(v)
    <3>1. \A u \in Viewers : u # v => /\ fetch'[u] = fetch[u] /\ page'[u] = page[u]
                                      /\ Exc(u)' <=> Exc(u)
      <4>1. Handle(v, asleep)
        BY <2>2 DEF Snapshot
      <4> QED
        BY <2>0, <4>1, HandleAt
    <3> QED
      BY <2>2, <3>1, SnapshotInv DEF Snapshot, StreamInv, StreamTypeOK
  <2>3. CASE Forward(v)
    <3>1. \A u \in Viewers : u # v => /\ fetch'[u] = fetch[u] /\ page'[u] = page[u]
                                      /\ Exc(u)' <=> Exc(u)
      <4>1. CASE Head(queue[v]) = "password"
        BY <2>3, <4>1 DEF Forward, Exc
      <4>2. CASE Head(queue[v]) # "password"
        <5>1. Handle(v, Head(queue[v]) = "slept") /\ (Head(queue[v]) = "slept") \in BOOLEAN
          BY <2>3, <4>2 DEF Forward
        <5> QED
          BY <2>0, <5>1, HandleAt
      <4> QED
        BY <4>1, <4>2
    <3>2. \A u \in Viewers : u # v => stage'[u] = stage[u] /\ queue'[u] = queue[u]
                                      /\ view'[u] = view[u] /\ lostNews'[u] = lostNews[u]
      BY <2>3 DEF Forward, StreamInv, StreamTypeOK
    <3> QED
      BY <2>3, <3>1, <3>2, ForwardInv
  <2>4. ASSUME UNCHANGED <<stage, queue, view, lostNews>>,
               \A u \in Viewers : u # v => /\ fetch'[u] = fetch[u] /\ page'[u] = page[u]
                                           /\ Exc(u)' <=> Exc(u),
               \A b \in BOOLEAN : b = asleep /\ Sure(v, b) => Sure(v, b)'
        PROVE  /\ \A u \in Viewers : u # v =>
                    /\ stage'[u] = stage[u] /\ queue'[u] = queue[u] /\ view'[u] = view[u]
                    /\ page'[u] = page[u] /\ fetch'[u] = fetch[u] /\ lostNews'[u] = lostNews[u]
                    /\ Exc(u)' <=> Exc(u)
               /\ ViewerInv(v)'
    <3>1. (~asleep /\ Sure(v, FALSE) => Sure(v, FALSE)') /\ (asleep /\ Sure(v, TRUE) => Sure(v, TRUE)')
      BY <2>0, <2>4
    <3>2. UNCHANGED <<asleep, pc, op, stage, queue, view, focusing, reordered, lostNews>>
      BY <2>0, <2>4 DEF vars, powerVars
    <3> QED
      BY <2>0, <2>4, <3>1, <3>2, PageStepInv
  <2>5. CASE \E i \in Fetches : Answer(v, i)
    <3>1. PICK i \in Fetches : Answer(v, i)
      BY <2>5
    <3>2. UNCHANGED <<stage, queue, view, page, lostNews, overtaken, failed>>
      BY <3>1 DEF Answer
    <3>3. /\ \A u \in Viewers : u # v => fetch'[u] = fetch[u]
          /\ \A b \in BOOLEAN : b = asleep /\ Sure(v, b) => Sure(v, b)'
      BY <2>0, <3>1, AnswerAt
    <3> QED
      BY <2>4, <3>2, <3>3 DEF Exc
  <2>6. CASE \E i \in Fetches : Apply(v, i)
    <3>1. PICK i \in Fetches : Apply(v, i)
      BY <2>6
    <3>2. UNCHANGED <<stage, queue, view, lostNews>>
      BY <3>1 DEF Apply
    <3>3. /\ \A u \in Viewers : u # v => /\ fetch'[u] = fetch[u] /\ page'[u] = page[u]
                                         /\ Exc(u)' <=> Exc(u)
          /\ \A b \in BOOLEAN : b = asleep /\ Sure(v, b) => Sure(v, b)'
      BY <2>0, <3>1, ApplyAt
    <3> QED
      BY <2>4, <3>2, <3>3
  <2>7. CASE \E i \in Fetches : FetchFails(v, i) \/ Resync(v, i) \/ PostFails(v, i)
    <3>1. PICK i \in Fetches : FetchFails(v, i) \/ Resync(v, i) \/ PostFails(v, i)
      BY <2>7
    <3>2. /\ UNCHANGED <<stage, queue, view, page, lostNews, overtaken>>
          /\ failed' = failed \/ failed' = failed \cup {v}
      BY <3>1 DEF FetchFails, Resync, PostFails
    <3>3. /\ \A u \in Viewers : u # v => fetch'[u] = fetch[u]
          /\ \A b \in BOOLEAN : Sure(v, b) => Sure(v, b)'
      BY <2>0, <3>1, FailAt
    <3>4. \A u \in Viewers : u # v => (Exc(u)' <=> Exc(u))
      BY <3>2 DEF Exc
    <3> QED
      BY <2>4, <3>2, <3>3, <3>4
  <2>8. CASE Post(v)
    <3>1. UNCHANGED <<stage, queue, view, page, lostNews, overtaken, failed>>
      BY <2>8 DEF Post
    <3>2. /\ \A u \in Viewers : u # v => fetch'[u] = fetch[u]
          /\ \A b \in BOOLEAN : Sure(v, b) => Sure(v, b)'
      BY <2>0, <2>8, PostAt
    <3> QED
      BY <2>4, <3>1, <3>2 DEF Exc
  <2>9. CASE Tap(v)
    <3>1. UNCHANGED <<stage, queue, view, lostNews, overtaken, failed>>
      BY <2>9 DEF Tap
    <3>2. /\ \A u \in Viewers : u # v => fetch'[u] = fetch[u] /\ page'[u] = page[u]
          /\ \A b \in BOOLEAN : Sure(v, b)'
      BY <2>0, <2>9, TapAt
    <3> QED
      BY <2>4, <3>1, <3>2 DEF Exc
  <2> QED
    BY <1>5, <2>1, <2>2, <2>3, <2>5, <2>6, <2>7, <2>8, <2>9
<1>6. CASE UNCHANGED allVars
  <2>1. /\ UNCHANGED <<asleep, pc, op, streamVars>>
        /\ Publishing' = Publishing
    BY <1>6 DEF allVars, vars, powerVars, Publishing
  <2>2. OneNews'
    BY <2>1, NewsUntouched DEF StreamInv, streamVars
  <2>3. ASSUME NEW v \in Viewers PROVE ViewerInv(v)'
    <3>1. (Exc(v)' <=> Exc(v)) /\ ViewerInv(v)
      BY <2>1 DEF StreamInv, streamVars, Exc
    <3>2. /\ UNCHANGED <<asleep, reordered, focusing>>
          /\ stage'[v] = stage[v] /\ queue'[v] = queue[v] /\ view'[v] = view[v]
          /\ page'[v] = page[v] /\ fetch'[v] = fetch[v] /\ lostNews'[v] = lostNews[v]
      BY <2>1 DEF streamVars
    <3> QED
      BY <2>1, <3>1, <3>2, ViewerUntouched
  <2> QED
    BY <2>2, <2>3
<1> QED
  BY <1>1, <1>2, <1>3, <1>4, <1>5, <1>6 DEF StreamNext

LEMMA StreamInvHolds == StreamSpec => []StreamInv
<1> QED
  BY StreamInvInit, StreamInvNext, PTL DEF StreamSpec

-----------------------------------------------------------------------------
\* Once everything sent to a page has arrived the stream has told it the flag,
\* however many callers set the flag and however many messages were in the way,
\* unless two broadcasts changed places or the news was pushed out.
THEOREM StreamConvergesHolds == StreamSpec => []StreamConverges
<1>1. StreamInv => StreamConverges
  BY DEF StreamInv, ViewerInv, OnItsWay, StreamConverges, Settled, Subscribed, Publishing, LastIs
<1> QED
  BY <1>1, StreamInvHolds, PTL

\* A settled page is never dark while the display is awake, not even when the
\* broadcasts of a sleep and a wake changed places.
THEOREM NeverStuckAsleepPageHolds == StreamSpec => []NeverStuckAsleepPage
<1>1. StreamInv => NeverStuckAsleepPage
  <2> SUFFICES ASSUME StreamInv, NEW v \in Viewers, Settled(v), ~asleep, lostNews[v] = {},
                      v \notin overtaken \cup failed
               PROVE  ~page[v]
    BY DEF NeverStuckAsleepPage
  <2>1. NoNews(queue[v]) /\ ~\E c \in Publishing : op[c] = "wake"
    BY DEF Settled, NoNews, Publishing
  <2>2. Sure(v, FALSE)
    BY <2>1 DEF StreamInv, ViewerInv, WakeComing, Settled, Exc
  <2>3. ~Doubt(v, FALSE)
    BY DEF Settled, Doubt
  <2> QED
    BY <2>2, <2>3 DEF Sure, Exc
<1> QED
  BY <1>1, StreamInvHolds, PTL

\* A settled page shows that the display sleeps: with room for two messages in
\* the channel no password message can push that news out of it.
THEOREM SleepReachesPageHolds ==
    ASSUME StatusCap > 1
    PROVE  StreamSpec => []SleepReachesPage
<1>1. StreamInv => SleepReachesPage
  <2> SUFFICES ASSUME StreamInv, NEW v \in Viewers, Settled(v), asleep, ~reordered,
                      v \notin overtaken \cup failed
               PROVE  page[v]
    BY DEF SleepReachesPage
  <2>1. Publishing = {} /\ ~SleptLast(v)
    BY DEF Settled, SleptLast, Publishing
  <2>2. Sure(v, TRUE)
    BY <2>1 DEF StreamInv, ViewerInv, SleepComing, Settled, Exc, Subscribed
  <2>3. ~Doubt(v, TRUE)
    BY DEF Settled, Doubt
  <2> QED
    BY <2>2, <2>3 DEF Sure, Exc
<1> QED
  BY <1>1, StreamInvHolds, PTL

=============================================================================
