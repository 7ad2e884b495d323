---------------------------- MODULE RemoteStream ----------------------------
(***************************************************************************)
(* How a manager page learns whether the display sleeps: DisplayPower      *)
(* composed with the status channel of the hub, the stream handler         *)
(* (server/manager/stream.go) and the page (web-manager/js/remote.js).     *)
(*                                                                         *)
(* SetAsleep broadcasts after it has released the controller's mutex, so   *)
(* two callers may broadcast in the other order than they set the flag.    *)
(* The session loop puts password messages on the same bounded channel.    *)
(* The stream subscribes first and then writes a snapshot of the flag; the *)
(* page takes "awake" at its word but answers "asleep" with a request for  *)
(* the status.  The replies of its other requests tell it the flag as well:*)
(* those of clicks, touches, the wheel and the two buttons.  Any of them   *)
(* may be overtaken, by a message or by another reply.                     *)
(* A broadcast is one step here (FrameHub shows what its steps add up to). *)
(***************************************************************************)
EXTENDS DisplayPower, Sequences, SequencesExt

CONSTANTS
    Viewers,    \* manager pages with the remote view open
    StatusCap,  \* capacity of Client.Status (4 in the code)
    Fetches,    \* bound: requests a page has in flight
    MaxFocus    \* bound: password messages

ASSUME StatusCapAssumption == StatusCap \in Nat \ {0}
ASSUME MaxFocusAssumption  == MaxFocus \in Nat

VARIABLES
    stage,      \* the stream handler: "off", "upgraded", "subscribed", "on"
    queue,      \* Client.Status
    view,       \* the last display status the stream wrote to the page
    page,       \* what the page shows: TRUE is asleep
    fetch,      \* fetch[v][i]: a request of the page whose reply tells the flag
    focusing,   \* the session loop is in publishFocus, past its guard
    focused,    \* bound counter: password messages
    \* history variables
    reordered,  \* the flag was set while an older broadcast was still to come
    lostNews,   \* display messages dropped with no newer one behind them
    overtaken,  \* pages that show what an overtaken reply said
    failed      \* pages whose status request failed, and not told the flag since

streamVars == <<stage, queue, view, page, fetch, focusing, focused,
                reordered, lostNews, overtaken, failed>>
allVars    == <<vars, streamVars>>

News == {"slept", "woke"}

\* "status": syncDisplayStatus.  "tap": wakeDisplayOnly, a touch of the dark
\* picture.  "post": a click, a touch, a turn of the wheel, or the button that
\* wakes the display or the one that lets it sleep.
Kinds == {"status", "tap", "post"}

Request == [kind : Kinds, step : {"none", "asked", "answered"}, value : BOOLEAN, late : BOOLEAN]

NoFetch == [kind |-> "status", step |-> "none", value |-> FALSE, late |-> FALSE]

StreamTypeOK ==
    /\ stage \in [Viewers -> {"off", "upgraded", "subscribed", "on"}]
    /\ queue \in [Viewers -> Seq(News \cup {"password"})]
    /\ \A v \in Viewers : Len(queue[v]) <= StatusCap
    /\ view \in [Viewers -> BOOLEAN] /\ page \in [Viewers -> BOOLEAN]
    /\ fetch \in [Viewers -> [Fetches -> Request]]
    /\ focusing \in BOOLEAN /\ focused \in 0..MaxFocus /\ reordered \in BOOLEAN
    /\ lostNews \in [Viewers -> SUBSET News]
    /\ overtaken \in SUBSET Viewers /\ failed \in SUBSET Viewers

StreamInit ==
    /\ Init
    /\ stage = [v \in Viewers |-> "off"]
    /\ queue = [v \in Viewers |-> <<>>]
    /\ view = [v \in Viewers |-> FALSE] /\ page = [v \in Viewers |-> FALSE]
    /\ fetch = [v \in Viewers |-> [i \in Fetches |-> NoFetch]]
    /\ focusing = FALSE /\ focused = 0 /\ reordered = FALSE
    /\ lostNews = [v \in Viewers |-> {}]
    /\ overtaken = {} /\ failed = {}

Subscribed(v) == stage[v] \in {"subscribed", "on"}

\* A message enters a channel; when it is full the oldest one leaves.
Push(q, m) == Append(IF Len(q) < StatusCap THEN q ELSE Tail(q), m)

\* The display message dropped by Push, unless a newer one stays behind it.
Dropped(q, m) ==
    IF Len(q) < StatusCap \/ Head(q) \notin News \/ m \in News \/ ToSet(Tail(q)) \cap News # {}
    THEN {} ELSE {Head(q)}

\* BroadcastStatus to every subscribed client, under the hub's mutex.
BroadcastStatus(m) ==
    /\ queue' = [v \in Viewers |-> IF Subscribed(v) THEN Push(queue[v], m) ELSE queue[v]]
    /\ lostNews' = [v \in Viewers |->
         IF ~Subscribed(v) THEN lostNews[v]
         ELSE (IF m \in News THEN {} ELSE lostNews[v]) \cup Dropped(queue[v], m)]

-----------------------------------------------------------------------------
(* The display side. *)

SetFlagStep(c) ==
    /\ SetFlag(c)
    /\ reordered' = (reordered \/ \E d \in Callers : pc[d] = "publish")
    /\ UNCHANGED <<stage, queue, view, page, fetch, focusing, focused, lostNews,
                   overtaken, failed>>

PublishStep(c) ==
    /\ Publish(c)
    /\ BroadcastStatus(IF op[c] = "sleep" THEN "slept" ELSE "woke")
    /\ UNCHANGED <<stage, view, page, fetch, focusing, focused, reordered, overtaken, failed>>

OtherDisplayStep ==
    /\ \/ \E c \in Callers, o \in Ops : Begin(c, o)
       \/ \E c \in Callers : RunDone(c) \/ RunFailed(c) \/ Signal(c) \/ Record(c)
       \/ DrainWake \/ WaitForDisplay
    /\ UNCHANGED streamVars

\* publishFocus: nobody to tell, or the display sleeps, and it returns.  The
\* session loop then asks the browser, and broadcasts what it learns.
FocusStart ==
    /\ ~focusing /\ focused < MaxFocus
    /\ ~asleep /\ \E v \in Viewers : Subscribed(v)
    /\ focusing' = TRUE /\ focused' = focused + 1
    /\ UNCHANGED <<vars, stage, queue, view, page, fetch, reordered, lostNews, overtaken, failed>>

FocusPublish ==
    /\ focusing
    /\ focusing' = FALSE
    /\ BroadcastStatus("password")
    /\ UNCHANGED <<vars, stage, view, page, fetch, focused, reordered, overtaken, failed>>

-----------------------------------------------------------------------------
(* The stream handler and the page. *)

\* The page sends a request.
Send(v, kind) ==
    \E i \in Fetches :
        /\ fetch[v][i].step = "none"
        /\ fetch' = [fetch EXCEPT ![v][i] = [NoFetch EXCEPT !.kind = kind, !.step = "asked"]]

\* Replies under way that say something else when the page is told b, the truth.
Overtake(f, b) ==
    [i \in Fetches |-> [f[i] EXCEPT !.late = f[i].step = "answered" /\ f[i].value # b]]

\* setAsleepUI(b), with the requests f under way; late: something newer came
\* before.  A page that shows the truth is no longer a page that was misled.
Show(v, b, f, late) ==
    /\ page' = [page EXCEPT ![v] = b]
    /\ fetch' = [fetch EXCEPT ![v] = IF b = asleep THEN Overtake(f, b) ELSE f]
    /\ overtaken' = IF b = asleep THEN overtaken \ {v}
                    ELSE IF late THEN overtaken \cup {v} ELSE overtaken
    /\ failed' = IF b = asleep THEN failed \ {v} ELSE failed

\* (Fault) The page takes both messages at their word.
HandleTrusting(v, slept) == Show(v, slept, fetch[v], FALSE)

\* onmessage: "asleep: false" is applied, "asleep: true" is checked.
Handle(v, slept) ==
    IF slept THEN Send(v, "status") /\ UNCHANGED <<page, overtaken, failed>>
             ELSE Show(v, FALSE, fetch[v], FALSE)

\* The upgrade; the page's onopen asks for the status.
Connect(v) ==
    /\ stage[v] = "off"
    /\ stage' = [stage EXCEPT ![v] = "upgraded"]
    /\ Send(v, "status")
    /\ UNCHANGED <<vars, queue, view, page, focusing, focused, reordered, lostNews,
                   overtaken, failed>>

Subscribe(v) ==
    /\ stage[v] = "upgraded"
    /\ stage' = [stage EXCEPT ![v] = "subscribed"]
    /\ queue' = [queue EXCEPT ![v] = <<>>]
    /\ lostNews' = [lostNews EXCEPT ![v] = {}]
    /\ UNCHANGED <<vars, view, page, fetch, focusing, focused, reordered, overtaken, failed>>

\* (Fault) The stream starts without a snapshot.
SnapshotSkipped(v) ==
    /\ stage[v] = "subscribed"
    /\ stage' = [stage EXCEPT ![v] = "on"]
    /\ UNCHANGED <<vars, view, page, fetch, queue, focusing, focused, reordered, lostNews,
                   overtaken, failed>>

\* The first message: the flag as it is now.
Snapshot(v) ==
    /\ stage[v] = "subscribed"
    /\ stage' = [stage EXCEPT ![v] = "on"]
    /\ view' = [view EXCEPT ![v] = asleep]
    /\ Handle(v, asleep)
    /\ UNCHANGED <<vars, queue, focusing, focused, reordered, lostNews>>

\* The handler's select takes a status message and writes it to the page.
Forward(v) ==
    /\ stage[v] = "on"
    /\ queue[v] # <<>>
    /\ queue' = [queue EXCEPT ![v] = Tail(@)]
    /\ LET m == Head(queue[v]) IN
       IF m = "password"
       THEN UNCHANGED <<view, page, fetch, overtaken, failed>>
       ELSE /\ view' = [view EXCEPT ![v] = (m = "slept")]
            /\ Handle(v, m = "slept")
    /\ UNCHANGED <<vars, stage, focusing, focused, reordered, lostNews>>

\* The connection ends: Unsubscribe; the page connects again later.
Disconnect(v) ==
    /\ Subscribed(v)
    /\ stage' = [stage EXCEPT ![v] = "off"]
    /\ queue' = [queue EXCEPT ![v] = <<>>]
    /\ UNCHANGED <<vars, view, page, fetch, focusing, focused, reordered, lostNews,
                   overtaken, failed>>

\* A click, a touch, the wheel, #wake or #sleep.
Post(v) ==
    /\ Send(v, "post")
    /\ UNCHANGED <<vars, stage, queue, view, page, focusing, focused, reordered, lostNews,
                   overtaken, failed>>

\* wakeDisplayOnly: the page goes bright before it has asked.
Tap(v) ==
    /\ page[v]
    /\ page' = [page EXCEPT ![v] = FALSE]
    /\ Send(v, "tap")
    /\ UNCHANGED <<vars, stage, queue, view, focusing, focused, reordered, lostNews,
                   overtaken, failed>>

\* The handler reads the flag for its reply, or has just set or tested it:
\* WakeDisplay and SleepDisplay return when the flag is what they were asked for.
Answer(v, i) ==
    /\ fetch[v][i].step = "asked"
    /\ fetch[v][i].kind = "tap" => ~asleep
    /\ fetch' = [fetch EXCEPT ![v][i].step = "answered", ![v][i].value = asleep]
    /\ UNCHANGED <<vars, stage, queue, view, page, focusing, focused, reordered, lostNews,
                   overtaken, failed>>

\* The reply reaches the page: syncDisplayStatus, applyRemoteState, wakeDisplayOnly
\* and the two buttons show what it says.
Apply(v, i) ==
    /\ fetch[v][i].step = "answered"
    /\ Show(v, fetch[v][i].value, [fetch[v] EXCEPT ![i] = NoFetch], fetch[v][i].late)
    /\ UNCHANGED <<vars, stage, queue, view, focusing, focused, reordered, lostNews>>

\* A status request fails and the page ignores it.
FetchFails(v, i) ==
    /\ fetch[v][i].step # "none" /\ fetch[v][i].kind = "status"
    /\ fetch' = [fetch EXCEPT ![v][i] = NoFetch]
    /\ failed' = failed \cup {v}
    /\ UNCHANGED <<vars, stage, queue, view, page, focusing, focused, reordered, lostNews,
                   overtaken>>

\* (Fault) Nor does the page ask when a tap fails.
ResyncSkipped(v, i) ==
    /\ fetch[v][i].step # "none" /\ fetch[v][i].kind # "status"
    /\ fetch' = [fetch EXCEPT ![v][i] = NoFetch]
    /\ UNCHANGED <<vars, stage, queue, view, page, focusing, focused, reordered, lostNews,
                   overtaken, failed>>

\* A tap, a click, the end of a touch or the wheel fails: the page asks.
Resync(v, i) ==
    /\ fetch[v][i].step # "none" /\ fetch[v][i].kind # "status"
    /\ fetch' = [fetch EXCEPT ![v][i] = [NoFetch EXCEPT !.step = "asked"]]
    /\ UNCHANGED <<vars, stage, queue, view, page, focusing, focused, reordered, lostNews,
                   overtaken, failed>>

\* A button, or another phase of a touch: the page shows the error at most.
PostFails(v, i) ==
    /\ fetch[v][i].step # "none" /\ fetch[v][i].kind = "post"
    /\ fetch' = [fetch EXCEPT ![v][i] = NoFetch]
    /\ UNCHANGED <<vars, stage, queue, view, page, focusing, focused, reordered, lostNews,
                   overtaken, failed>>

StreamNext ==
    \/ \E c \in Callers : SetFlagStep(c) \/ PublishStep(c)
    \/ OtherDisplayStep
    \/ FocusStart \/ FocusPublish
    \/ \E v \in Viewers :
          \/ Connect(v) \/ Subscribe(v) \/ Snapshot(v) \/ Forward(v) \/ Disconnect(v)
          \/ Post(v) \/ Tap(v)
          \/ \E i \in Fetches : \/ Answer(v, i) \/ Apply(v, i)
                               \/ FetchFails(v, i) \/ Resync(v, i) \/ PostFails(v, i)

StreamSpec == StreamInit /\ [][StreamNext]_allVars

-----------------------------------------------------------------------------
(* Properties. *)

\* Every broadcast has been made and everything sent to v has arrived.
Settled(v) ==
    /\ \A c \in Callers : pc[c] # "publish"
    /\ stage[v] = "on" /\ queue[v] = <<>>
    /\ \A i \in Fetches : fetch[v][i].step = "none"

\* The last status the stream wrote is the flag's value, unless two broadcasts
\* changed places or the news was pushed out of the channel.  Nothing falls
\* between the snapshot and the subscription (stream.go subscribes first).
StreamConverges ==
    \A v \in Viewers : (Settled(v) /\ ~reordered /\ lostNews[v] = {}) => view[v] = asleep

\* A page never stays dark while the display is awake, not even when the two
\* broadcasts of a sleep and a wake changed places: the page checks "asleep"
\* with the server.  What can leave it dark is a lost message, a status request
\* that failed, or a reply to any of its requests that was decided before the
\* display woke and is shown after the page was told so; being told the truth
\* again, by whatever reply or message, ends each of the last two excuses.
NeverStuckAsleepPage ==
    \A v \in Viewers :
        (Settled(v) /\ ~asleep /\ lostNews[v] = {} /\ v \notin overtaken \cup failed)
            => ~page[v]

\* A page shows that the display sleeps, although a tap on the dark picture
\* makes it bright before the server has agreed.  Password messages never push
\* that news out of the channel, because publishFocus is silent during sleep;
\* what can hide it is a reordered broadcast, a failed status request or an
\* overtaken reply, until the page is told the truth again.
SleepReachesPage ==
    \A v \in Viewers :
        (Settled(v) /\ asleep /\ ~reordered /\ v \notin overtaken \cup failed) => page[v]
=============================================================================
