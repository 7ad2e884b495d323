----------------------------- MODULE RemoteTouch -----------------------------
(***************************************************************************)
(* A finger on the kiosk's screen, moved from the manager's page:          *)
(* web-manager/js/remote.js (the drag and the requests it sends),          *)
(* manager/remote.go (moves are queued and forgotten, the rest waits),     *)
(* kiosk/commands.go and kiosk/input.go (the touch commands, and           *)
(* touchActive, what the program believes of the finger).                  *)
(*                                                                         *)
(* Three views of one finger are kept apart: the page's drag, touchActive, *)
(* and the finger in the browser.  A page goes on to its next gesture      *)
(* while requests of the last are under way; a request may be refused, or  *)
(* given up while its command stays in the channel; a dispatch that fails  *)
(* may or may not have reached the browser; touchActive outlives it.       *)
(*                                                                         *)
(* Every gesture is one drag, tap or other command.  The channel is the    *)
(* one of CommandQueue, reduced to its order, its capacity and the         *)
(* outcomes of a request.                                                  *)
(***************************************************************************)
EXTENDS Integers, Sequences, FiniteSets

CONSTANTS
    Gestures,  \* gestures, of all pages
    Viewers,   \* manager pages
    QueueCap,  \* capacity of Controller.cmds (64 in the code)
    MaxFaults  \* bound: failed dispatches, restarts, lost requests, closed pages

ASSUME BoundsAssumption == QueueCap \in Nat \ {0} /\ MaxFaults \in Nat
ASSUME NamesAssumption == "nobody" \notin Viewers \cup Gestures

VARIABLES
    by,          \* by[g]: the page a gesture is made on, or Nobody
    drag,        \* drag[g]: the page's record of the gesture
    point,       \* point[v]: pendingMove, the gesture it belongs to, or Nobody
    busy,        \* busy[v]: moveBusy
    net,         \* requests sent and not yet in the channel
    queue,       \* Controller.cmds
    waiting,     \* requests in the channel whose handler waits for the result
    answers,     \* replies on their way to the pages
    touchActive, \* input.go's touchActive
    finger,      \* the browser has a touch point
    faults,      \* bound counter
    \* history variables
    lost,        \* a dispatch has failed in this browser
    excused,     \* something happened after which nobody may lift the finger
    stale,       \* commands in a row that failed for a touch of an older browser
    pressed      \* a click reached a browser with the finger down and no dispatch failed

vars == <<by, drag, point, busy, net, queue, waiting, answers, touchActive, finger,
          faults, lost, excused, stale, pressed>>

page    == <<by, drag, point, busy>>
browser == <<touchActive, finger, lost, stale, pressed>>

Nobody  == "nobody"
Others  == {"wheel", "navigate"}
Kinds   == {"start", "move", "end", "cancel", "click"} \cup Others
Commands == [of : Gestures, kind : Kinds]
Tails   == {"open", "cancel", "tap", "drop", "cancelling", "lifting", "clicking",
            "ending", "instead", "undoing", "over"}
NewDrag == [moved |-> FALSE, start |-> "none", tail |-> "open"]

Init ==
    /\ by = [g \in Gestures |-> Nobody]
    /\ drag = [g \in Gestures |-> NewDrag]
    /\ point = [v \in Viewers |-> Nobody] /\ busy = [v \in Viewers |-> FALSE]
    /\ net = {} /\ queue = <<>> /\ waiting = {} /\ answers = {}
    /\ touchActive = FALSE /\ finger = FALSE /\ faults = 0
    /\ lost = FALSE /\ excused = FALSE /\ stale = 0
    /\ pressed = FALSE

Cmd(g, kind) == [of |-> g, kind |-> kind]

\* The gesture's page still waits for something.
UnderWay(g) ==
    /\ by[g] # Nobody
    /\ \/ drag[g].tail # "over"
       \/ \E c \in net \cup waiting \cup {a.cmd : a \in answers} : c.of = g

-----------------------------------------------------------------------------
(* The page. *)

\* pointerdown: the page has one drag, and that of a second pointer takes
\* the place of the first, which is then never ended.
Press(g, v) ==
    LET open == {h \in Gestures : by[h] = v /\ drag[h].tail = "open"} IN
    /\ by[g] = Nobody
    /\ by' = [by EXCEPT ![g] = v]
    /\ drag' = [h \in Gestures |-> IF h \in open THEN [drag[h] EXCEPT !.tail = "over"] ELSE drag[h]]
    /\ excused' = (excused \/ \E h \in open : drag[h].moved)
    /\ UNCHANGED <<point, busy, net, queue, waiting, answers, browser, faults>>

\* Any other command of the page that cancels a touch first.
Send(g, v, kind) ==
    /\ by[g] = Nobody
    /\ by' = [by EXCEPT ![g] = v]
    /\ drag' = [drag EXCEPT ![g].tail = "clicking"]
    /\ net' = net \cup {Cmd(g, kind)}
    /\ UNCHANGED <<point, busy, queue, waiting, answers, browser, faults, excused>>

\* flushMove for a page: the newest point is sent unless a move is under way.
Flush(v, g) ==
    IF busy[v]
    THEN point' = [point EXCEPT ![v] = g] /\ UNCHANGED <<busy, net>>
    ELSE /\ net' = net \cup {Cmd(g, "move")}
         /\ busy' = [busy EXCEPT ![v] = TRUE]
         /\ UNCHANGED point

\* pointermove, past the threshold of a tap.
Drag(g) ==
    /\ by[g] # Nobody /\ drag[g].tail = "open"
    /\ \/ /\ ~drag[g].moved
          /\ drag' = [drag EXCEPT ![g].moved = TRUE, ![g].start = "pending"]
          /\ net' = net \cup {Cmd(g, "start")}
          /\ UNCHANGED <<point, busy>>
       \/ /\ drag[g].start = "ok"
          /\ Flush(by[g], g)
          /\ UNCHANGED drag
    /\ UNCHANGED <<by, queue, waiting, answers, browser, faults, excused>>

\* pointerup or pointercancel: endDrag drops the point not yet sent.  A
\* drag that came back to where it began is a tap.
Release(g, tail) ==
    /\ by[g] # Nobody /\ drag[g].tail = "open"
    /\ tail = "drop" => drag[g].moved
    /\ drag' = [drag EXCEPT ![g].tail = tail]
    /\ point' = [point EXCEPT ![by[g]] = Nobody]
    /\ UNCHANGED <<by, busy, net, queue, waiting, answers, browser, faults, excused>>

Goto(g, tail, kind) ==
    /\ drag' = [drag EXCEPT ![g].tail = tail]
    /\ net' = net \cup {Cmd(g, kind)}

\* (Fault) A tap clicks without lifting the finger it has put down.
EndDragClicks(g) ==
    /\ drag[g].start # "pending"
    /\ LET down == drag[g].start = "ok" IN
       \/ drag[g].tail = "cancel" /\ down /\ Goto(g, "cancelling", "cancel")
       \/ drag[g].tail = "cancel" /\ ~down /\ drag' = [drag EXCEPT ![g].tail = "over"] /\ UNCHANGED net
       \/ drag[g].tail = "tap" /\ Goto(g, "clicking", "click")
       \/ drag[g].tail = "drop" /\ down /\ Goto(g, "ending", "end")
       \/ drag[g].tail = "drop" /\ ~down /\ Goto(g, "instead", "click")
    /\ UNCHANGED <<by, point, busy, queue, waiting, answers, browser, faults, excused>>

\* endDrag once the start has been answered, if it was sent at all.
EndDrag(g) ==
    /\ drag[g].start # "pending"
    /\ LET down == drag[g].start = "ok" IN
       \/ drag[g].tail = "cancel" /\ down /\ Goto(g, "cancelling", "cancel")
       \/ drag[g].tail = "cancel" /\ ~down /\ drag' = [drag EXCEPT ![g].tail = "over"] /\ UNCHANGED net
       \/ drag[g].tail = "tap" /\ down /\ Goto(g, "lifting", "cancel")
       \/ drag[g].tail = "tap" /\ ~down /\ Goto(g, "clicking", "click")
       \/ drag[g].tail = "drop" /\ down /\ Goto(g, "ending", "end")
       \/ drag[g].tail = "drop" /\ ~down /\ Goto(g, "instead", "click")
    /\ UNCHANGED <<by, point, busy, queue, waiting, answers, browser, faults, excused>>

\* The start is answered: the first move follows if the drag is still on.
GotStart(g, ok) ==
    /\ drag' = [drag EXCEPT ![g].start = IF ok THEN "ok" ELSE "failed"]
    /\ IF ok /\ drag[g].tail = "open" THEN Flush(by[g], g) ELSE UNCHANGED <<point, busy, net>>

\* A move is answered: the next one is sent if there is a point for it.
GotMove(g) ==
    LET v == by[g] IN
    /\ busy' = [busy EXCEPT ![v] = point[v] # Nobody]
    /\ net' = IF point[v] = Nobody THEN net ELSE net \cup {Cmd(point[v], "move")}
    /\ point' = [point EXCEPT ![v] = Nobody]
    /\ UNCHANGED drag

\* One of endDrag's own requests is answered.
GotLast(g, ok) ==
    /\ UNCHANGED <<point, busy>>
    /\ CASE drag[g].tail = "lifting" -> Goto(g, "clicking", "click")
         [] drag[g].tail \in {"ending", "instead"} /\ ~ok -> Goto(g, "undoing", "cancel")
         [] OTHER -> drag' = [drag EXCEPT ![g].tail = "over"] /\ UNCHANGED net

Got(a) ==
    /\ a \in answers
    /\ answers' = answers \ {a}
    /\ CASE a.cmd.kind = "start" -> GotStart(a.cmd.of, a.ok)
         [] a.cmd.kind = "move"  -> GotMove(a.cmd.of)
         [] OTHER                -> GotLast(a.cmd.of, a.ok)
    /\ UNCHANGED <<by, queue, waiting, browser, faults, excused>>

-----------------------------------------------------------------------------
(* The handler and the channel. *)

Put(c) == Append(queue, c)

\* Request: the command is in the channel and its handler waits.
Enter(c) ==
    /\ c \in net /\ c.kind # "move"
    /\ Len(queue) < QueueCap
    /\ net' = net \ {c}
    /\ queue' = Put(c)
    /\ waiting' = waiting \cup {c}
    /\ UNCHANGED <<page, answers, browser, faults, excused>>

\* Enqueue: the move is put in the channel or dropped, and answered at once.
EnterMove(c) ==
    /\ c \in net /\ c.kind = "move"
    /\ net' = net \ {c}
    /\ queue' = IF Len(queue) < QueueCap THEN Put(c) ELSE queue
    /\ answers' = answers \cup {[cmd |-> c, ok |-> TRUE]}
    /\ UNCHANGED <<page, waiting, browser, faults, excused>>

\* The request is refused (busy, not awake) or lost on its way.  When that
\* befalls a cancel, the page has nothing left to try.
Refuse(c) ==
    /\ c \in net
    /\ faults < MaxFaults
    /\ faults' = faults + 1
    /\ net' = net \ {c}
    /\ answers' = answers \cup {[cmd |-> c, ok |-> FALSE]}
    /\ excused' = (excused \/ c.kind = "cancel")
    /\ UNCHANGED <<page, queue, waiting, browser>>

\* The request is given up while its command stays in the channel: a start
\* that the page takes for failed may still be carried out.
Abandon(c) ==
    /\ c \in waiting
    /\ faults < MaxFaults
    /\ faults' = faults + 1
    /\ waiting' = waiting \ {c}
    /\ answers' = answers \cup {[cmd |-> c, ok |-> FALSE]}
    /\ excused' = (excused \/ c.kind = "start")
    /\ UNCHANGED <<page, net, queue, browser>>

-----------------------------------------------------------------------------
(* The commands, as the session runs them one after the other.  A hand is  *)
(* what a command has done so far; it goes on only while nothing failed.   *)

Hand == [active |-> touchActive, finger |-> finger, why |-> "none", click |-> FALSE]

\* Input.dispatchTouchEvent: a start needs a raised finger, the others a
\* lowered one.  A dispatch that fails, or whose reply comes too late, may
\* have been carried out or not.
Dispatch(h, type) ==
    IF h.why # "none" THEN {h}
    ELSE IF h.finger = (type = "start") THEN {[h EXCEPT !.why = "rejected"]}
    ELSE LET down == type \in {"start", "move"} IN
         {[h EXCEPT !.finger = down]} \cup
         (IF faults = MaxFaults THEN {}
          ELSE {[h EXCEPT !.finger = down, !.why = "fault"], [h EXCEPT !.why = "fault"]})

Active(h, b) == IF h.why = "none" THEN [h EXCEPT !.active = b] ELSE h

\* cancelActiveTouch: the belief is given up even when the cancel failed.
CancelActive(h) ==
    IF h.active
    THEN {[k EXCEPT !.active = FALSE, !.why = IF @ = "rejected" THEN "stale" ELSE @]
            : k \in Dispatch(h, "cancel")}
    ELSE {h}

\* cmdTouch, start.
Start(h) == {Active(k, TRUE) : k \in UNION {Dispatch(i, "start") : i \in CancelActive(h)}}

\* cmdTouch, end and cancel.
Lift(h, type) == IF h.active THEN {Active(k, FALSE) : k \in Dispatch(h, type)} ELSE {h}

\* cmdTouch, move.
Move(h) == IF h.active THEN Dispatch(h, "move") ELSE {h}

\* (Fault) A click does not cancel the touch.
ClickAnyway(h) == {[h EXCEPT !.click = TRUE]}

\* cmdClick, and cmdWheel: not carried out when the cancel failed.  (One
\* that fails by itself is to its page one that was refused or given up.)
Click(h) == {IF k.why = "none" THEN [k EXCEPT !.click = TRUE] ELSE k : k \in CancelActive(h)}

\* cmdNavigate and cmdReload: the cancel's error is ignored.
Navigate(h) == CancelActive(h)

Succeeded(c, k) == k.why = "none" \/ c.kind = "navigate"

Run(c, h) ==
    CASE c.kind = "start"              -> Start(h)
      [] c.kind = "move"               -> Move(h)
      [] c.kind \in {"end", "cancel"}  -> Lift(h, c.kind)
      [] c.kind \in {"click", "wheel"} -> Click(h)
      [] c.kind = "navigate"           -> Navigate(h)

\* A command is taken from the channel, run, and its result sent.
Exec ==
    /\ queue # <<>>
    /\ LET c == Head(queue) IN
       \E k \in Run(c, Hand) :
          /\ queue' = Tail(queue)
          /\ touchActive' = k.active
          /\ finger' = k.finger
          /\ pressed' = (pressed \/ (k.click /\ k.finger /\ ~lost /\ k.why # "fault"))
          /\ lost' = (lost \/ k.why = "fault")
          /\ excused' = (excused \/ k.why = "fault")
          /\ faults' = IF k.why = "fault" THEN faults + 1 ELSE faults
          /\ stale' = IF k.why = "fault" THEN 0 ELSE IF Succeeded(c, k) THEN stale ELSE stale + (IF k.why = "stale" THEN 1 ELSE 0)
          /\ IF c \in waiting
             THEN /\ waiting' = waiting \ {c}
                  /\ answers' = answers \cup {[cmd |-> c, ok |-> Succeeded(c, k)]}
             ELSE UNCHANGED <<waiting, answers>>
    /\ UNCHANGED <<page, net>>

\* The browser is replaced by a new one; touchActive stays.
Restart ==
    /\ faults < MaxFaults
    /\ faults' = faults + 1
    /\ finger' = FALSE
    /\ lost' = FALSE
    /\ stale' = 0
    /\ UNCHANGED <<page, net, queue, waiting, answers, touchActive, excused, pressed>>

\* A page is closed or loaded again in the middle of a gesture: commands
\* in the channel stay there, but no other request will follow.
Leave(v) ==
    LET mine == {g \in Gestures : by[g] = v} IN
    /\ \E g \in mine : UnderWay(g)
    /\ faults < MaxFaults
    /\ faults' = faults + 1
    /\ drag' = [g \in Gestures |-> IF g \in mine THEN [drag[g] EXCEPT !.tail = "over"] ELSE drag[g]]
    /\ point' = [point EXCEPT ![v] = Nobody]
    /\ busy' = [busy EXCEPT ![v] = FALSE]
    /\ net' = {c \in net : c.of \notin mine}
    /\ answers' = {a \in answers : a.cmd.of \notin mine}
    /\ waiting' = {c \in waiting : c.of \notin mine}
    /\ excused' = TRUE
    /\ UNCHANGED <<by, queue, browser>>

Next ==
    \/ \E g \in Gestures :
          \/ \E v \in Viewers : Press(g, v) \/ (\E kind \in Others : Send(g, v, kind))
          \/ Drag(g) \/ EndDrag(g)
          \/ \E tail \in {"cancel", "tap", "drop"} : Release(g, tail)
    \/ \E a \in answers : Got(a)
    \/ \E c \in net : Enter(c) \/ EnterMove(c) \/ Refuse(c)
    \/ \E c \in waiting : Abandon(c)
    \/ \E v \in Viewers : Leave(v)
    \/ Exec
    \/ Restart

Spec == Init /\ [][Next]_vars

-----------------------------------------------------------------------------

\* Every variable has its type, and the channel its capacity.
TypeOK ==
    /\ by \in [Gestures -> Viewers \cup {Nobody}]
    /\ drag \in [Gestures -> [moved : BOOLEAN, start : {"none", "pending", "ok", "failed"}, tail : Tails]]
    /\ point \in [Viewers -> Gestures \cup {Nobody}] /\ busy \in [Viewers -> BOOLEAN]
    /\ net \subseteq Commands /\ waiting \subseteq Commands
    /\ queue \in Seq(Commands) /\ Len(queue) <= QueueCap
    /\ answers \subseteq [cmd : Commands, ok : BOOLEAN]
    /\ touchActive \in BOOLEAN /\ finger \in BOOLEAN
    /\ faults \in 0..MaxFaults
    /\ lost \in BOOLEAN /\ excused \in BOOLEAN /\ stale \in Nat
    /\ pressed \in BOOLEAN

\* The program knows of the finger it has put down, across any commands,
\* gestures and pages, unless a dispatch to this browser failed.
FingerKnown == finger /\ ~touchActive => lost

\* A click, or the wheel, reaches the page with the finger raised, whoever
\* put it down, unless a dispatch failed.
ClickWithoutFinger == ~pressed

\* A touch left over from an earlier browser, or one whose end was carried
\* out and not confirmed, costs at most one command: cancelActiveTouch
\* gives the belief up although its cancel is refused.
StaleTouchCostsOne == stale <= 1

\* When no gesture is under way and the channel is empty the finger is up.
\* What can leave it down: a page that closes, a second pointer that takes
\* the place of a drag, a start that was given up and carried out later, a
\* cancel that did not get through, a dispatch that failed.  Dropped moves,
\* a refused start or end, another page's gestures and new browsers cannot.
NoFingerLeftDown ==
    (\A g \in Gestures : ~UnderWay(g)) /\ queue = <<>> /\ finger => excused
=============================================================================
